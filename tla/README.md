# A TLA+ model of the Cyclus kernel

Cyclus is an agent-based simulator of the nuclear fuel cycle. Its kernel is a
single-threaded C++ library. Agents (regions, institutions, facilities) are
plug-ins whose virtual methods the kernel calls in a fixed order of phases, and
which call back into the kernel while it iterates over its own containers. This
directory holds TLA+ modules translated from that code, the TLC configurations
that check them, and TLAPS proofs about the kernel, the recorder, the SQLite
back end, the tracking of resources, compositions, the restart of a simulation
and the resource exchange.

Paths are relative to the repository: `src/timer.cc` is Cyclus's
`src/timer.cc`. `PROJECT.json` maps every definition to its lines of source,
names a mutant of the code for every checked property, and lists the hazards
the properties are aimed at.

## 1. Inventory

| component | state it keeps | operations | interacts with | what makes it correct |
|---|---|---|---|---|
| `Timer` | `time_`, `tickers_`, `build_queue_`, `decom_queue_`, `want_snapshot_`, `want_kill_` | `RunSim` and its phases `DoBuild`, `DoTick`, `DoResEx`, `DoTock`, `DoDecom`; `SchedBuild`, `SchedDecom`, `Snapshot`, `KillSim`, (un)registration | calls every agent; called back through `Context` | each scheduled build and exit happens once and when it is due; only live agents are called; the loop ends |
| `Context` | `agent_list_`, `traders_`, `n_prototypes_`, prototypes, recipes, transaction ids | agent creation and deletion, scheduling, registration, counting | facade of `Timer`, `Recorder`, exchange | registries and counts describe the live agents |
| `Agent` and its kinds | `parent_`, `children_`, `id_`, `enter_time_`, `lifetime_` | `Build`, `EnterNotify`, `Connect`, `Decommission`, `~Agent`; `Institution::Tock` | `Context` | the family tree is a forest of live agents; lifetimes end |
| `SimInit` | `agents_`, the restart time `t_` | `Init`, `Restart`, `Snapshot`, loading of agents, schedules, ids | database, `Timer` | a restart continues the simulation the snapshot was taken of |
| `Recorder`, `Datum`, back ends | `dump_count_` slots, `index_`, `backs_` | `NewDatum`, `AddVal`, `Record`, `Flush`, `Close`, `set_dump_count`, `inject_sim_id`, registration | everything that writes output | each row arrives complete, once, in order |
| `Resource`, `Material`, `Product`, `ResTracker` | state and object ids, quantity, composition or quality, parents, `prev_decay_time_`; the static id counters and `qualids_` | create, clone, extract, absorb, transmute, decay | `Recorder`, `Composition` | the Resources table is a closed history that conserves mass |
| resource exchange | portfolios, preferences, exchange graph, matches, trades | collect requests and bids, adjust, translate, solve, execute | traders (facilities) | capacities, targets, exclusivity and preferences are respected; every trade is recorded and delivered |
| solvers | the exchange graph, its sorted groups; for `ProgSolver` a mixed-integer program | `GreedySolver::SolveGraph`, `ProgSolver::SolveGraph` with `ProgTranslator` | exchange, CBC | limits, exclusivity and the order of preference hold in the matches they return |
| `SqliteBack` | the connection and its transaction, `tbl_names_`, `stmts_`, the file | opening, `Notify` (table creation, statements, rows), `Query`, closing | `Recorder`, `SimInit`, SQLite | rows reported as written are rows stored, also after failed calls and crashes |
| `Composition` | `id_`, `prev_decay_`, the shared `decay_line_`, `next_id_` | `Decay`, `Record`; loading at a restart | `Material`, `SimInit` | a cached decay is the decay asked for; an id means one composition |
| `ResBuf` | a list of resources, their total, the set of objects, the capacity | `Push`, `Pop` in its forms | facilities, policies | within capacity, nothing lost or doubled |
| `MatlBuyPolicy`, `MatlSellPolicy`, `Source`, `Sink`, `KFacility` | buffers, throughput, quantum, fill levels | requests, bids, responses and acceptances | exchange, `ResBuf` | never asked for what they cannot do, never beyond their limits |
| `ResMap`, building manager, HDF5 back end, input files, discovery, logging, Python bindings, decay mathematics | | | | see section 8 |

The behaviours that are hard here: re-entrancy (a callback changes the queue
that is being worked on), raw pointers that outlive the agents they point to
and addresses that are used again, restart in the middle of a schedule from
tables written for another purpose, slots of a buffer that are reused, a long
history of splits and merges summed up in one table, matching under several
limits at once, exceptions that leave a transaction open, and compositions that
materials, their pieces and agents share through one cache.

## 2. Modules

| module | models | composed of |
|---|---|---|
| `SimKernel` | `Timer`, `Context`, the life cycle of agents, `SimInit::Snapshot` | |
| `AgentPlan` | abstract specification: the plan of builds and exits an agent's author relies on | |
| `SimKernelPlan` | the refinement mapping from `SimKernel` to `AgentPlan` | `SimKernel`, `AgentPlan` |
| `SimRestart` | `SimInit::Init` and `Restart` on the tables a simulation leaves | |
| `Recorder` | `Recorder`, `Datum` and the delivery to back ends | |
| `ResTracking` | `Resource`, `ResTracker`, `Material`, `Product` | |
| `Composition` | compositions, their decay lines, materials that share them, and both at a restart | |
| `ResourceExchange` | one `ExchangeManager::Execute`: traders, exchange, translator, greedy or optimizing solver, trade execution | |
| `ResBuf` | the buffer of resources, as operators on one | |
| `MatlTraders` | facilities and policies that trade over several time steps | `ResourceExchange`, `ResBuf` |
| `SqliteBack` | the SQLite back end, one database call at a time | |
| `RowLog` | abstract specification: what a back end promises the recorder | `SqliteBack` implements it |
| `SimKernelProofs` | proofs, in four parts: heap, registries and family tree; snapshots, end and counts; schedules and lifetimes; the refinement of `AgentPlan` | `SimKernelPlan` |
| `SimRestartProofs` | proofs: agents, plans and ids restored | `SimRestart` |
| `RecorderProofs` | proofs: rows intact, in order, once, none lost | `Recorder` |
| `SqliteBackProofs` | proofs: catalog, reading back, the refinement of `RowLog` | `SqliteBack` |
| `ResTrackingProofs` | proofs: ids, qualities, the Resources table, decay, conservation of mass | `ResTracking`, `SetSums` |
| `CompositionProofs` | proofs: shared decay lines, ids of compositions, their restart | `Composition` |
| `ResourceExchangeProofs` | proofs: limits, exclusivity, order, optimality, settlement | `ResourceExchange`, `SetSums` |
| `SetSums` | lemmas about sums, products and extremes over finite sets | |
| `MCSimKernel`, `MCSimRestart`, `MCRecorder`, `MCResTracking`, `MCComposition`, `MCResourceExchange`, `MCMatlTraders`, `MCSqliteBack` | instances for TLC | |

In every module, a definition introduced as a mutant is a plausible bug of the
definition that follows it. Nothing but the mutation check uses these.

### SimKernel

An agent is an address out of `Addr`, because the code reaches agents through
raw pointers and an address freed by `~Agent` can be handed out again. `mem`
holds the objects, `agent_list`, `tickers`, `traders`, `n_prototypes`,
`build_queue` and `decom_queue` are the containers of the same names, and
`AgentEntry`, `AgentExit`, `BuildSchedule`, `DecomSchedule`, `Snapshots` and
`Finish` are output tables. `pc` is the place `RunSim` is at. While a callback
of an agent runs, `pc` is its name and `self` the agent. `build_list`,
`decom_list`, `todo` and `cursor` are the local copies and iterators of the
loops, which is where the hazards are.

The kernel's actions are `LoadInitialAgents`, `RunSim`, `BeginStep` (snapshot
and loop test), `DoBuild`, `EnterNotifyReturns`, `BuildReturns`, `BuildsDone`,
`DoTick`, `DoResEx`, `DoTock` (with `InstTock`, the retirement loop of
`Institution::Tock`), `DoDecom`, `Decommission`, `EndStep` and `FinishSim`.
While a callback runs its agent may take `CallSchedBuild`, `CallSchedDecom`,
`CallSnapshot`, `CallKillSim` and `ChangeCondition` (the answer of
`CheckDecommissionCondition`). Following a dangling pointer or an exception
ends the execution with `pc = "Thrown"` and the reason in `error`. The
constants `Callers`, `BuildFor`, `Retire` and `Toggle` say which calls agents
make from which callbacks, so a run can check a property for agents that obey a
discipline and another one for agents that do anything.

### SimRestart

The simulation is reduced to what the tables show: agents enter, schedule
builds and decommissionings, leave, and snapshots are taken. It may end early
(`KillSim`). A parent may leave before the build that was scheduled for it: the
agent is then entered with what the dangling pointer gives (`BuiltFor`), and the
children of an agent that leaves stay without a parent. `snaps` keeps, as
history, the state each snapshot was taken in. `LoadInitialAgents`, `Connect`
(one turn of the `unbuilt` loop, iterator included), `LoadBuildSched` and
`LoadDecomSched` (one row of their table each time) and `LoadNextIds` then run on
the tables, at time 0 before the simulation runs (`Init`) or at any snapshot
after it (`Restart`). A row that names an agent that was not loaded gives a null
pointer: the parent of a build is then none, and a decommissioning ends in
`phase = "crashed"`.

### Recorder

`data` is the ring of slots, `open` the `Datum` pointers callers hold.
`received` is what each back end was notified of. Rows are numbered by their
`NewDatum` call. A back end may throw; `k` is the number of back ends called
before one does, and the later ones are not called. `Interleaved` and `AnyTime`
allow programs that fill two Datum objects at once or resize a filled buffer.
A dump count of 0 leaves no slots; `NewDatum` then ends the execution with
`error = "out of range"`.

### ResTracking

A composition is the set of times its radioactive parts are right for (`{}` is
stable, mixing is union, decay by `dt` adds `dt`), which is what tells correct
from double decay. Each call (`CreateMaterial`, `CreateProduct`,
`CreateUntracked`, `Clone`, `Extract`, `AbsorbMaterial`, `AbsorbProduct`,
`CallTransmute`, `CallDecay`, `CallQualId`) is one action that composes the
steps the code takes (`Observe`, `Decay`, `Transmute`, `Modify`, `Mix`, `Pour`,
`Record`...) on a record of the state they change, in the code's order. The
fields `real` and `merged` of an object are history. `res` is the object whose
tracker it has, which is the same for an object and its copies. A behaviour belongs to one
program out of `Programs`: how it decays, whether it uses stable materials, and
whether it uses clones and untracked resources like tracked ones.

### Composition

The objects a material's decay reads and writes: `comps` with `lines`, the decay
lines shared by all compositions that come from one, and `next_id`; `mats` with
the time their composition is right for and what their last row says; `table`,
the Compositions table. The content of a composition is its recipe and its age,
so decaying twice or not at all shows as a wrong age. `CreateMat`, `ExtractQty`,
`CallTransmute` and `CallDecay` are calls of materials, `DecayComp` is an agent
that decays a composition it holds, `Tick` is a time step that may begin with a
snapshot, and `Restart` builds recipes and materials again from the rows, as
`LoadComposition` and `LoadMaterial` do. `stale` marks a material that was
loaded with another decay time than it had, and `off` a composition that comes
from a call with another length of a time step than the simulation's: the cache
is by number of time steps, and whoever asks next is given what is there.

### ResourceExchange

The phases of `Execute` are the actions `AddAllRequests`, `AddAllBids`,
`AdjustAll`, `Translate`, `SolverInit`, `ConsiderArc` (one turn of the inner
loop of `GreedilySatisfySet`), `BackTranslate`, `GetTradeResponses`,
`RecordTrades`, `SendTradeResources` and `Finish`. With `solver = "prog"` the
action `SolveProg` stands for the optimizing solver: `Columns`, `Feasible` (the
rows of each group, the exclusive groups, the false arcs) and `Objective` are
the program `ProgTranslator` builds, and CBC, which is external, returns any
optimal point of it. For the greedy solver the order of groups, request nodes
and arcs that the sorts produce is `Sooner`; averages and weights are compared
as fractions, never rounded. Where the code iterates over a set of pointers the
order is open. `Quotient`, `MinElement` and `StdMin` keep what floating point
division by zero and comparisons with NaN do. Converters are 0 or 1 per unit of
the offer, and mutual requests have equal quantities. Of the constraints of a
request portfolio only the mass constraint that the translator adds is
modelled. In the greedy solver the others never limit a match, because
`Capacity` takes the largest quotient on the request side
(`src/greedy_solver.cc:128`); left out with them is that one may allow more than
the mass constraint does, and that one which is used up, comes first and has a
unit capacity of zero makes the quotient a NaN. In the program each is one more
lower bound (`src/prog_translator.cc:138`). `ProgSolver` begins with a greedy
solution made without commodity weights, whose matches it clears; the model's
`SolverInit` and `ConsiderArc` show the greedy solver proper. `BooksAssumption`
says what a book of portfolios is: quantities are not negative, a bid has one
converter for each constraint of its portfolio, mutual portfolios have a
request, and an adjustment sets a number.

### ResBuf and MatlTraders

`ResBuf` has the operations of the buffer as operators on a record of its total,
its list and its set of objects: `Push`, `PushAll` (with the guards `CanPush`
and `CanPushAll` whose failure is an exception), `PopN`, `PopBack`, `PopQty`
(which splits the front resource) and `PopUpTo`, and `Squash`. `BuffPush` is the
`Push` of `ResourceBuff`, the older buffer that Sink and KFacility use, which
sums its total anew.

`MatlTraders` replaces the nondeterministic traders of `ResourceExchange` by
those of the repository: `Source`, `Sink`, `KFacility`, and facilities that buy
with a `MatlBuyPolicy` and sell with a `MatlSellPolicy`. A fleet gives the
traders, the capacities of their buffers and the moves facilities may make
between buffers. One time step is `Requests` (the code of every
`GetMatlRequests`), `Bidding` (every `GetMatlBids`), the exchange's own actions
with the greedy solver (`Exchanging`), `Provide` (`GetMatlTrades` of one
supplier), `Acceptance` (`AcceptMatlTrades` of one requester), and `NextStep`
with the facilities' Tock and their moves. An exception ends the simulation; the
trader that threw and the reason are in `blame`. A capacity constraint of zero
and a bid of a quantity of zero both throw, in one call, and are one reason. The
capacity constraint Sink and KFacility add to their own requests limits nothing
in the greedy solver (see above) and is left out.

### SqliteBack and RowLog

`live` is the database as the connection sees it and `disk` as everyone else
does; they differ while a transaction is open. `names` and `stmts` are what the
object remembers. `Open` and `Close` are constructor and destructor. A `Notify`
is a sequence of actions with one database call each: `Notify` (BEGIN),
`CreateTable`, `BuildStmt`, `WriteDatum`, `End`; `Catch` is its handler of
ValueError, which commits, and `Throw` every other exception, which leaves the
transaction open. Any statement may fail (`Fails`: a full disk, an I/O error, the
lock of another connection), after which SQLite has undone the statement or the
whole transaction. `Crash` ends the program between any two of them, and the file
is opened again. A row is the number of its Datum and the types its values were
bound as.

`RowLog` says what this is for: a call stores all of its rows and returns, or
raises and has stored none, or raises at a row it refuses and has stored those
before it; nothing stored goes away. Refused are rows of titles with unsupported
or changing types. The header promises more, a single transaction:
`SingleTransaction`, which the code does not keep (section 5). The mapping
takes a reader's view of `disk`.

## 3. Runs

| run | constants | checks | shows |
|---|---|---|---|
| `kernel` | 4 addresses, 5 ids, 3 time steps, 3 calls; builds for institutions, retirement of facilities, from every callback but `DecomNotify` | `NoUseAfterFree`, `SchedulesKept`, `LifetimesEnforced`, `RequestsHonoured`, `ImplementsPlan` | agents that keep to this discipline get what `Context` promises |
| `kernel_any_agents` | the same, 2 time steps, 2 calls, every call from every callback, with fairness | `TypeOK`, `QueuedOnce`, `FamilyTree`, `Registered`, `CallsReachLiveAgents`, `FacilitiesCounted`, `Terminates` | the kernel's own structures stay consistent whatever agents do, and `RunSim` ends |
| `recorder` | 2 back ends that may throw, dump counts 0 to 3, 5 rows | `OnlyZeroUndefined`, `DeliveredIntact`, `NothingLost`, `CloseDelivers` | no row is lost, torn, doubled or reordered, and the slots are overrun with a dump count of 0 only |
| `resources` | 3 objects, quantities up to 2; lazy decay over 2 time steps with 6 rows, or copies and untracked resources with 4 rows | `RowsTruthful`, `MassBalance`, `CompositionTimely`, `IdsUnique`, `QualitiesRecorded` | the Resources table is a closed, balanced, current history, and ids survive any use of copies |
| `composition` | 2 recipes, one that decays noticeably in one time step and one in two, 4 compositions, 2 materials, 2 time steps of twice the default length | `DecayedOnce`, `QualIdsMeanOne`, `RestartFaithful` | each user of a shared decay line gets the decay it is due, also after a restart, unless the line was filled with another length of a time step |
| `sim_restart` | 2 initial and up to 4 agents, 2 time steps, 3 calls, with fairness | `InitFaithful`, `AgentsRestored`, `PlansRestored`, `InitEnds` | what `Init` and `Restart` do bring back, and when they do not end |
| `exchange` | both solvers, 2 requesters, 2 suppliers, 3 requests and up to 3 bids, quantities up to 3, combinations of exclusivity, weights and adjusted preferences | `WithinLimits`, `WholeOrNothing`, `OrderRespected`, `MatchedWherePossible`, `TradesSettled` | what each solver guarantees, and that trades are settled |
| `traders` | fleets of 3 to 5 traders, buyers of one commodity each, 4 time steps | `NothingThrown`, `MaterialConserved`, `BuffersKept`, `PoliciesKept` | policies and facilities are never asked for what they cannot do, and stay within their limits |
| `sqlite` | 2 titles, 4 shapes of rows, one of them with a type SQLite rows cannot have, batches of 2, 4 rows, 3 openings of the file | `CatalogMatches`, `ReadsBack`, `ImplementsLog` | rows reported as written are read back as they were |
| `sim_restart_builds_doc` | one build pending | `PendingBuildsKept`, violated | see section 5 |
| `traders_two_commods_doc` | two sources, a buy policy and a Sink for two commodities | `CommodsAreAlternatives`, violated | see section 5 |
| `sqlite_transaction_doc` | a batch of 2 rows | `SingleTransaction`, violated | see section 5 |

Several of these are conjunctions of named parts: `SchedulesKept` is
`ExitsAsScheduled` and `BuildsAsScheduled`, `RequestsHonoured` is
`SnapshotsAsAsked` and `EndsAsAsked`, `DeliveredIntact` is `IntactRows` and
`InOrderOnce`, `RowsTruthful` is `Provenance` and `BooksCurrent`, `PlansRestored`
is `PendingDecomsKept` and `FutureBuildsKept`, `WithinLimits` is
`SupplyWithinCapacity` and `DemandNotExceeded`, and `OrderRespected` is
`PreferenceRespected`, `PriorityRespected` and `RankRespected`. Every module has a `TypeOK`. It
is an invariant of `kernel_any_agents`; for the recorder, the SQLite back end,
resource tracking, compositions, the restart and the exchange it is proved
(section 6) and no run repeats it.

Properties with exceptions say so, because the code has them. `WithinLimits`
promises less of the optimizing solver (nothing of single requests and divisible
bids) than of the greedy one, and of the greedy one nothing of bid portfolios in
which some bid does not draw on all constraints. `OnlyZeroUndefined` excepts a dump
count of 0. `NothingThrown` excepts a seller that holds less than its quantum or
has no capacity, and a Sink or KFacility with a finite inventory; it and
`PoliciesKept` are about buyers of one commodity each. `DecayedOnce` excepts
materials that were loaded with a stale decay time and compositions that come
from a call with another length of a time step. `CatalogMatches`, and `ReadsBack`
for values, except titles that were used with an unsupported type or with
changing types. `InitEnds` excepts the loop that waits for a parent that has
left. Section 5 has the code behind each.

Why the bounds are enough. In the kernel the hazards need a parent, two
facilities in one queue and an address that is used again: three initial agents
(a region, an institution, a facility), two more builds and four addresses give
all of these, and three calls suffice to schedule, reschedule and disturb. The
facility's lifetime of 2 lets institutions retire it inside the three time
steps. The recorder meets a full buffer, a partial one and a resized one with
dump counts up to 3 and 5 rows, and no slots at all with 0. Two objects can be split, combined and split
again within 6 rows. A decay line is shared by a material and a piece of it, and
filled by either or by an agent, with 2 materials and 4 compositions; 2 time
steps allow a decay before a snapshot and one after it, and a time step of twice
the default length tells a cached decay by seconds from one by time steps. A
restart needs a parent, a child built during the simulation, and one rescheduling
or an exit of the parent before the build or after it; two time steps have a
snapshot before, between and after these. In the exchange,
contention needs two requests on one supplier and two suppliers for one request;
the books contain both. The fleets contain a plant between a source and a sink
(fill level, throughput and quantum each both binding and not), a store that buys
into and sells from one buffer beside a competing buyer, and a KFacility whose
capacity grows, shrinks to nothing or stays; four time steps fill and empty every
buffer at least once. A back end meets a good row before and after a bad one in
one batch, and two titles let one table fail while the other exists; three
openings allow a crash, a failed session and a clean one.

Runs that state `CHECK_DEADLOCK FALSE` (recorder, resources, composition,
exchange, traders, sqlite and the last two) model activities that simply stop at the bound or at the end of
the exchange, or at an undefined access. The others check deadlock. Symmetry is over addresses, qualities
and titles, which no definition distinguishes, and is not used where liveness is
checked.

The discipline of `kernel` covers the agents of this repository: none of them
overrides `DecomNotify`, they decommission themselves (facilities), and builds
are scheduled for an institution or for no parent. The recorder's run covers its
uses in the code: a `Datum` is filled and recorded in one chain of calls, and the
dump count is set when nothing is buffered.

## 4. Fairness

`kernel_any_agents` uses weak fairness of the kernel's own actions: one thread runs
`RunSim`, a callback returns, and nothing else can stop it. That calls of agents
cannot starve the loop is what the property shows; their number is bounded in
the model, as a callback makes finitely many. `sim_restart` has weak fairness of
the four steps of `SimInit`, which also run in one thread. No other property
assumes fairness.

## 5. Where code and comments disagree

Checked by a run:

- `sim_restart_builds_doc`: a restart at `t` skips agents that entered at `t`,
  because they are "scheduled to be built already", and `LoadBuildSched` loads
  only builds later than `t`.
- `traders_two_commods_doc`: `MatlBuyPolicy::GetMatlRequests` files all requests
  of a portfolio under one key, so that its test for "more than one commodity"
  never holds and the requests are not made mutual. A buyer of two commodities
  is sent up to twice what it asks for. So is a `Sink`, which asks for its
  `capacity` of each commodity, where `agents/sink.h:105` calls it the "capacity
  the sink facility can accept at each time step": the constraint it adds limits
  nothing in the greedy solver.
- `sqlite_transaction_doc`: a ValueError in `SqliteBack::Notify` commits the rows
  before the bad one (`src/sqlite_back.cc:83`), where `sqlite_back.h:26` says
  that the group is written "as a single transaction".

Stated exactly by the exception of a passing property:

- A dump count of 0 makes `NewDatum` read an empty vector (`src/recorder.cc:70`),
  where `recorder.h:72` says that rows "will be flushed immediately as they come"
  (`OnlyZeroUndefined`).
- The cache of a decay line is by number of time steps (`src/composition.cc:66`),
  so that `Decay` with another length of a time step may return what an earlier
  call with the default length put there, where `composition.h:73` says that it
  uses the conversion specified. The length is an input
  (`src/xml_file_loader.cc:441`); agents that call `Decay(delta)` and materials
  without a context (`src/material.cc:167`) use the default (`DecayedOnce`).
- The loop over `unbuilt` does not end when an agent has outlived its parent
  (`src/sim_init.cc:377`), since AgentEntry keeps the parent it entered with
  (`InitEnds`).

The models contain the following behaviours too; they were read from the code
while it was translated, and no run of the project is about them:

- `Institution` and `Region` override `EnterNotify` without calling `Agent`'s
  (`src/institution.cc:39`, `src/region.cc:28`): `n_prototypes` does not count
  them but uncounts them (`FacilitiesCounted` is therefore about facilities).
- `~Agent` sets its children's `parent_id_` to -1 (`src/agent.cc:92`; `agent.h`
  says the id is kept), and `DelAgent` leaves the children alive
  (`src/context.cc:98`; `context.h` says they are deleted recursively).
- A `SchedDecom` for the current time step made in `DecomNotify` is queued for
  a phase that is running already and never happens (`src/timer.cc:161`).
- A build whose parent has left goes to whatever agent has its address
  (`src/timer.cc:65`).
- `set_dump_count` leaves `index_` alone
  (`src/recorder.cc:53`), and `Flush` of an empty buffer does not flush the
  back ends (`src/recorder.cc:93`).
- What is extracted from a clone is tracked (`src/res_tracker.cc:43`) and, for
  an untracked product, has no context (`src/product.cc:65`); `Transmute`
  updates `prev_decay_time_` after its rows are written
  (`src/material.cc:139`); `qual_id()` enters quality id 0 for a quality it does
  not know (`src/product.h:39`).
- `LoadBuildSched` also loads builds scheduled after the snapshot
  (`src/sim_init.cc:433`), and `LoadDecomSched` passes a null pointer for agents
  that were not loaded (`src/sim_init.cc:458`).
- `DoDecom` works on a copy of its queue. An agent that is rescheduled by a
  `DecomNotify` of the same phase is removed from `decom_queue_` but not from
  the copy (`src/timer.cc:161`): it is deleted now and its new entry is followed
  later, which the comment at `src/timer.cc:191` says is prevented. `kernel`
  therefore excludes calls from `DecomNotify`.
- A larger stable material that absorbs a smaller decaying one gives the mixture
  its own old decay time (`src/material.cc:119`, against `src/material.h:133`),
  so the decaying part decays again for time it has already decayed.
  `CompositionTimely` is therefore about programs without stable materials. It
  is also about lazy decay only: with manual decay `Absorb` mixes compositions
  as they are, whatever times they are right for (`src/material.cc:110`).
- A restart reads the decay time of a material's last row, and `Transmute` moves
  it after the row was written (`src/material.cc:134`).
- `GreedySolver` does not read `excl_node_groups` (`src/greedy_solver.cc:174`,
  against `src/exchange_graph.h:143`), its sort by average preference overrides
  the preconditioner's order of requests (`src/greedy_solver.cc:142`), and a
  constraint that is used up, divided by the zero unit capacity of a bid that
  does not draw on it, is NaN and, when it comes first, hides the bid's other
  constraints from `std::min_element` (`src/greedy_solver.cc:111`, against
  `src/greedy_solver.h:113`).
- The program of `ProgSolver` does not limit an arc by what its bid offers, only
  by the portfolio's constraints and the request's quantity
  (`src/prog_translator.cc:167`), and limits what a portfolio gets, not each of
  its requests. The cost of a false arc is of one unit and that of an exclusive
  arc of its whole quantity (`src/exchange_solver.cc:94`), so an exclusive arc
  may be used where a part of it is too much.
- Any exception in `SqliteBack::Notify` but a ValueError leaves the transaction
  and, if the program goes on without closing the connection, the lock
  (`src/sqlite_back.cc:83`). A table whose creation raised a ValueError is entered
  in `FieldTypes` again after the file is reopened, and one whose creation failed
  is not tried again before (`src/sqlite_back.cc:206`). A value of an unsupported
  type is such a ValueError (`sqlite_back.h:16` says that it is stored as an empty
  string).
- A `MatlSellPolicy` that holds less than its quantum throws
  (`src/toolkit/matl_sell_policy.cc:131`). It bids with the compositions of
  rotated items and delivers from the front of its buffer.
- `Sink` and `KFacility` ask for their capacity whatever room their inventory
  has (`agents/sink.cc:24`).
- `ResBuf::Push` of several resources does not notice one that is twice among
  them (`src/toolkit/res_buf.h:277`).
- Mutual requests of unequal quantities get the coefficient quantity over
  average, where the class comment derives the inverse
  (`src/request_portfolio.h:157`); the model's mutual requests have equal ones.

## 6. What is proved

The theorems hold for every value of the constants that the assumptions admit:
any number of agents, rows, titles, resources or portfolios, and any number of
time steps. The properties in them are those of the runs; the types and inductive
invariants besides are stated in the components' modules or beside their proofs.

### The kernel

For agents that make any call from any callback (parts 1 and 2 of
`SimKernelProofs`):

| theorem | statement |
|---|---|
| `TypeCorrect` | `Spec => []TypeOK` |
| `NoDuplicateDecom` | `Spec => []QueuedOnce`: no agent is in `decom_queue_` twice |
| `FamilyTreeKept` | `Spec => []FamilyTree`: parents and children agree, are alive, and parents are older |
| `RegistriesExact` | `Spec => []Registered`: `tickers_` and `traders_` are exactly the live agents and facilities, ids are unique |
| `OnlyLiveAgentsCalled` | `Spec => []CallsReachLiveAgents` |
| `Invariance` | `Spec => [](KernelInv /\ QueuedOnce)` |
| `SnapshotsTaken` | `Spec => []SnapshotsAsAsked` |
| `RequestsServed` | `Duration > 0 => (Spec => []RequestsHonoured)` |
| `CountsExact` | `Spec => []FacilitiesCounted` |

For orderly agents (parts 3 and 4):

| theorem | assumes | statement |
|---|---|---|
| `ScheduleInvariance` | `Orderly` | the inductive invariant of the schedules |
| `NoDanglingUse` | `Orderly` | `Spec => []NoUseAfterFree` |
| `SchedulesHonoured` | `Orderly` | `Spec => []SchedulesKept` |
| `LifetimesKept` | `Orderly`, `EarlyToggle` | `Spec => []LifetimesEnforced` |
| `PlanImplemented` | `Orderly` | `Spec => ImplementsPlan`: the kernel implements `AgentPlan` |

`ConstantsAssumption` of `SimKernel` says that the constants have their types,
`NULL` is not an address, and an initial agent's parent comes before it.
`Duration > 0` is needed because a simulation of no time steps has none that a
`KillSim` made while the schedules are loaded could end with. `Orderly` says
that no agent schedules anything from `DecomNotify` and that those for which
builds are scheduled are neither decommissioned by calls nor have a lifetime;
section 3 says why the agents of this repository are like that and section 5
what happens to others. `EarlyToggle` says that a facility does not change its
answer to `CheckDecommissionCondition` from `Tock` or `DecomNotify`, when its
institution may have asked already.

None of the properties is inductive alone. `KernelInv` is
`TypeOK /\ Control /\ CallsReachLiveAgents /\ IdsBelowNext /\ Registered /\
FamilyTree`. `Control` is what each place of `RunSim` knows: which of `self`
and `subj` are alive there, that `decom_list` begins with the agent being
decommissioned, that the local loop variables are empty elsewhere. Without it a
step out of `Decommission` could delete an agent whose callback is running.
`IdsBelowNext` makes a new agent younger than every other, which `FamilyTree`
needs when it is connected, and keeps `Registered` when its id is registered.

`Frames` says which variables each action leaves alone. `EnterKeepsHeap` and
`DecommissionKeepsHeap` are the two steps that change the heap, the registries
and the tree, and carry the weight of the proof. `EraseFirstRemoves`,
`UnscheduleRemoves` and `RequeueKeepsOnce` follow `Timer::SchedDecom` through
its search for an earlier entry and show that exactly one entry is left.

`SnapshotInv` relates the flag `want_snapshot_` to what was asked for in the step
that is running, and `KillInv` the flag `want_kill_` to the step it was set in.
`CountInv` adds that the live agents are finitely many.

The schedules need `DueInv` (an agent is due at a date, in the queue or in the
loop's copy of it, exactly if it is alive and this is the date last recorded for
it), `LastingInv` (the parents of pending builds stay alive) and `ExitInv`
(every id belongs to a live agent or to one exit, on the date recorded last).
`BuildInv` is a balance: the builds scheduled for a date are those made, plus
those pending, plus the one whose `EnterNotify` is running; every action moves
one build from one term to the next. `LifeInv` says that an agent past its
lifetime whose institution has looked at it waits for `DoDecom` or was kept by
its condition.

The refinement maps the planned builds to the queue and `DoBuild`'s copy of it
together, so that the moment entries move from one to the other is a stutter, and
the planned exits to the queue. It needs `PlanInv` besides: the copy `build_list` is
empty outside of `DoBuild`, nothing is scheduled for time 0 before `RunSim`, and
in `DoDecom` the copy holds exactly the live agents of the step's queue. Then
one turn of `DoBuild`'s loop is one `Enter` of the plan, one of `DoDecom`'s one
`Exit`, and a call of `SchedBuild` or `SchedDecom` one planning step. `Work` and
`Advance` of the plan want that nothing due in the time step is left; that this
holds whenever `RunSim` goes on is the content of the theorem.

### The recorder

| theorem | assumes | statement |
|---|---|---|
| `TypeCorrect` | | `Spec => [](TypeOK /\ PointersToSlots)` |
| `Invariance` | `Disciplined` | `Spec => []RecorderInv` |
| `UndefinedOnlyAtZero` | `Disciplined` | `Spec => []OnlyZeroUndefined` |
| `RowsIntact` | `Disciplined` | `Spec => []DeliveredIntact` |
| `RowsKept` | `Disciplined` | `Spec => []NothingLost` |
| `CloseComplete` | `Disciplined` | `Spec => CloseDelivers`, an action property |

`Disciplined` is the use the code makes of the recorder: one Datum is finished
before the next is asked for, and the dump count is set on an empty buffer. Back
ends may throw, come late and be of any number. `BufferInv` says that
the slots up to `index_` hold the last rows in order, complete but for the one
that is being filled, and `SeenBefore` that no back end has seen one of these.
With both, a delivery continues what a back end has (`DeliveredInOrder`,
`DeliveredComplete`); without `SeenBefore` a second flush could repeat a row.

### The SQLite back end

| theorem | statement |
|---|---|
| `TypeCorrect` | `Spec => []TypeOK` |
| `Invariance` | `Spec => []SqliteInv` |
| `CatalogRight` | `Spec => []CatalogMatches` |
| `ReadBack` | `Spec => []ReadsBack` |
| `Refinement` | `Spec => ImplementsLog`: the back end implements `RowLog` |

The constants only have to be of their types (`SqliteBackAssumption`).
`CallInv` says what a call in progress is: in a transaction, at a place of its
batch, which is the last part of what was handed over. `RowsInv` says that the
connection sees what is on disk and, while the transaction is open, the rows of the
batch up to `pos`, increasing and with the values of their Datum, and that every
row reported as written is on disk. `TablesInv` says that a title that was not
misused has no table or one of one shape, which `tbl_names_` knows, and that
`tbl_names_` has no other such title as long as no statement has failed. It also
says that a ValueError is only raised at a misused title. The refinement follows
from these: only `End` and `Catch` move rows to the disk, all of the batch and
those before a refused row respectively; a crash, a failed statement or an open
transaction changes nothing there.

What these theorems assume of SQLite: a transaction is seen by others when it has
ended, and a crash undoes exactly the open one. The back end switches off
synchronous writes and keeps the journal in memory (`src/sqlite_back.cc:51`), so
a crash that tears the writing of a large or an ending transaction is outside of
them. They promise values only for titles that were used with supported and
unchanging types.

### Resource tracking

| theorem | statement |
|---|---|
| `TypeCorrect` | `Spec => []Types` |
| `IdsNeverReused` | `Spec => []IdsUnique` |
| `QualityIdsRight` | `Spec => []QualitiesRecorded` |
| `TableTruthful` | `Spec => []RowsTruthful` |
| `DecayTimely` | `Spec => []CompositionTimely` |
| `MassConserved` | `Spec => []MassBalance` |

`ResTrackingAssumption` gives the types of the bounds and programs. The first
three are about any program. The others are about programs without `copies`, and
the fifth about lazy decay without stable materials, as their statements say.

A call is a composition of steps on a world, a record of the state. `Sound` (ids
are below the counters, qualities are entered) is kept by every step.
`HistoryInv(w, dirty, fresh)` is what holds between the steps: `fresh` objects
have no row yet, `dirty` ones differ from their row, and for all others the newest
row describes them and is cited by no other row. Every call ends with both sets
empty. Its part `Linked` makes the objects that were not merged and the rows
without successor correspond one to one, which is why the sum over the table
equals the sum over the objects. That sum (`Stock`) is what was created: a split
and a merge move an amount from one object to another, and the rest leaves
amounts alone. `TimelyInv` says that a composition is right for exactly its
material's decay time. `IdsUnique` compares object ids with `res`, the object a tracker follows: only
copies of one object share its object id, and only they share a state id. It is
about any program because an extracted part gets a new object id even from an
untracked object. `TimelyInv` is inductive only if both materials have been brought
to the present before they are mixed, which lazy decay does.

### Compositions

| theorem | assumes | statement |
|---|---|---|
| `TypeCorrect` | | `Spec => []TypeOK` |
| `Invariance` | | `Spec => []CompositionInv` |
| `QualIds` | | `Spec => []QualIdsMeanOne` |
| `Decays` | | `Spec => []DecayedOnce` |
| `RestartIsFaithful` | | `Spec => RestartFaithful`, an action property |

`Dt` and `DefaultDt` are any numbers. `DecayedOnce` excepts what the code does not
do right, compositions that come from a call with another length of a time step
(`off`), since the cache of a decay line is keyed by the number of time steps
alone.

`CompositionInv` is stated of a world, the record of the state a call works on,
since a call composes several steps. `Caches` says that the entry of a decay line
for `n` time steps is a composition of that line with `prev_decay_` equal to `n`,
`Kin` that compositions of one line that are not `off` differ in age by exactly
their difference in `prev_decay_`; without both, a cache hit could return another decay than a miss
would compute. `Ids` relates the ids of objects, the counter and the table.
`Booked` and `Dated` are what a material's row and its history say of it, `Fine`
states them for all materials but those a call is working on. `Pictures` is what
a snapshot knows until a restart uses it: its rows name rows of the Compositions
table with the content the materials had. `Transmute` writes the row before it
moves the decay time, so `Booked` allows the row to be behind, and only for a
material that was given its composition at that moment.

### The restart of a simulation

| theorem | statement |
|---|---|
| `TypeCorrect` | `Spec => []TypeOK` |
| `Invariance` | `Spec => []RestartInv` |
| `RestartsAgents` | `Spec => []AgentsRestored` |
| `RestartsPlans` | `Spec => []PlansRestored` |
| `InitIsFaithful` | `Spec => []InitFaithful` |

`SimRestartAssumption` gives the types of the bounds and says that the input file
has an agent. The tables are written by one simulation and read by another, so
the invariant relates three things. `AgentsInv` and `PlansInv` say that the
tables describe the running simulation: AgentEntry without AgentExit is who is
alive, the builds of a later time step are the rows of that time in their order
(`Listed`), and a pending decommissioning has a row. `SnapsInv` says that the
tables still describe every earlier snapshot: `Chosen`, the selection
`LoadInitialAgents` makes by enter and exit times, gives the agents alive then,
whatever was added since; the builds pending then are the rows of a prefix of the
table. This holds because a step only adds entries of the present, exits of the
present and schedules of the future, and a snapshot is taken before the builds of
its time step. `LoadInv` says how far the loops of `SimInit` have come:
`agents_` and `unbuilt` together are the selection, and the queues are those of
the rows read. `AgentsRestored` is about restarts that finish; for these every
loaded agent's parent is loaded, so no parent had left. `FutureBuildsKept` needs
that `agents_` has exactly the agents alive at the snapshot: a build whose parent
had left by then is scheduled for no parent.

### The resource exchange

| theorem | statement |
|---|---|
| `TypeCorrect` | `Spec => []TypeOK` |
| `ExchangeInvariance` | `Spec => []ExchangeInv` |
| `LimitsKept` | `Spec => []WithinLimits` |
| `ExclusivesWhole` | `Spec => []WholeOrNothing` |
| `OrderKept` | `Spec => []OrderRespected` |
| `NothingLeft` | `Spec => []MatchedWherePossible` |
| `AllSettled` | `Spec => []TradesSettled` |

They hold for any books of requests and bids that satisfy `BooksAssumption`,
any adjusted preferences, any commodity weights and either solver.
`UnlimitedAssumption` says that the largest double is a positive number, and
`BooksAssumption` that quantities of bids and capacities are no larger.

`ExchangeInv` has three parts. `StageInv` is what the phases before have settled.
`MatchInv` is what holds of the matches: for the greedy solver `GreedyLimits`
(what an arc, a group and a constraint may carry) with `CapsLeft` (the capacities
the solver reads are what the matches leave of the originals); for the program
`ProgLimits`. `TradeInv` says what has been answered, recorded and sent so far.
For the types `CapsInv` adds the shape of the capacities.

For the greedy solver, `ToMatchOf` shows that what `Capacity` returns is at most
what is left of the bid, of the request and of each constraint the bid draws on,
NaN and infinite quotients included. `MatchKeepsLimits` and `MatchKeepsCaps`
carry this through one match. A constraint that a bid does not draw on may go
below zero in the code's arithmetic; `TypeOK` and `WithinLimits` claim nothing of
it. For the program, an optimal point that breaks what is claimed is changed by
one unit on one arc: the changed point is feasible (`FeasibleBumped`), and
cheaper (`Cheaper`), because the price of a false arc is above every arc's
(`PseudoCostHigh`), so the first was not optimal. Exclusive arcs are whole
because two whole matches together exceed a request (`TwoMatches`).

`OrderRespected` speaks of the finished matches, but the solver decides one arc
at a time. `OrderInv` joins the two. Its part `InTurn` says of the arcs
considered so far that none could carry more beside itself and the arcs before
it, and that no other arc comes before one of them in the order of the sorts
(`Sooner`). A turn keeps it because what `GreedilySatisfySet` matches leaves its
arc nothing (`TurnFills`), and because a later match only takes away room from
the arcs already considered (`FewerArcs`, `EarlierTurns`). At the end all arcs
have been considered, those not less preferred or not lighter than an arc include
all the arcs before it, and `OrderRespected` follows (`InOrder`). The other
part, `Overdrawn`, is about the quotients of `Capacity`: a capacity falls below
zero only where the first of the same portfolio is used up, where the quotient
is a NaN that `min_element` keeps. Without it `Capacity` could be less than every
limit of the arc, and the turn would leave something.

### Sums over finite sets

`SetSums` has the lemmas about `MapThenSumSet`, products with `FoldSet`, `Min`
and `Max` that these proofs share. These operators are recursive functions over
the subsets of their set. Induction over the set is written as a first-order
argument: if a lemma failed for some subset of a finite set, there would be a
smallest such subset (`SmallestSet`), and one member less is a contradiction.

## 7. What is only model-checked

- Liveness (`Terminates`, `InitEnds`): fairness is outside the prover's reach.
- Everything about `MatlTraders` and `ResBuf`. What their folds over sequences of
  resources and trades compute needs induction over data.

## 8. What is not modelled

- The building manager builds one integer program from its arguments and hands
  it to CBC; producers, supply and demand are sums over registered objects.
- `ResMap`, a container without behaviour of its own, and the capacity setter of
  `ResBuf`.
- The HDF5 back end: its logic is the layout of types in the HDF5 library.
- Decay mathematics (`pyne`, `Decayer`, `UniformTaylor`), enrichment and
  symbolic functions are numerical formulas without state. `pyne`, the CBC
  interfaces and the query and data-type layers under them are third-party or
  generated files, and are most of the lines of the repository.
- Input files, discovery, dynamic loading, logging, Python bindings, code
  generators and the test harness.
- Of SQLite and its back end: conditions of queries, the encoding of values,
  and a crash that tears a transaction. The back end sets `synchronous=OFF` and
  `journal_mode=MEMORY`: a crash inside a commit, or after pages of a large batch
  were written before its END, may leave a part of the transaction or damage the
  file.
- Of a restart: the program that ends at a dangling parent while it still runs
  (only the id such a pointer gives is modelled).
- Of the solvers: the time limit, reports and `exclusive_orders = false` of
  `ProgSolver`; the objective value of an exchange and its debugging tables;
  constraints of request portfolios besides the mass constraint, and mutual
  requests of unequal quantities.
- Of the agents: `Predator`, `Prey`, and trades of products.
- Of the other modelled parts: `Timer::Reset` and `RecordInventories`, recipes
  and packages of `Context`, agent state in snapshots, a second restart,
  `DecayHeat` and the `ResCreators` table.

## 9. Plan

Done, in this order: the kernel with its abstract plan and its proofs, the
recorder, resource tracking, restart, the resource exchange, the SQLite back end
with its abstract log, compositions and their restart, the optimizing solver,
buffers and the facilities and policies that trade from them.

The proofs of section 6 followed, in the order of the SQLite back end, the
recorder, the kernel's requests and schedules, resource tracking, the exchange,
compositions, the refinement of `AgentPlan`, the restart and the order of the
greedy solver.

Next, proofs:

1. `ResBuf`: what each operation does to the set of objects and to the total,
   with its folds replaced by sums over sets.
