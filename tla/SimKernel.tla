------------------------------ MODULE SimKernel ------------------------------
(***************************************************************************)
(* The simulation kernel of Cyclus: Timer (the time step loop and the      *)
(* build and decommission queues), Context (the API agents call) and the   *)
(* life cycle of Agent, Region, Institution and Facility.                  *)
(*                                                                         *)
(* Agents are C++ objects reached through raw pointers, so an agent is an  *)
(* address; an address freed by ~Agent may be handed out again by a later  *)
(* clone.  The kernel runs in one thread, and what interleaves are its     *)
(* loops and the virtual methods they call: while a callback of an agent   *)
(* runs (pc names it, self is the agent) it makes Context calls that       *)
(* change the very containers the kernel is iterating over.                *)
(***************************************************************************)
EXTENDS Integers, Sequences, FiniteSets

CONSTANTS
    Addr,        \* addresses an agent object can be allocated at
    NULL,        \* the null pointer
    Proto,       \* prototype names
    Kind,        \* prototype -> "Region", "Inst" or "Facility"
    Lifetime,    \* prototype -> lifetime_ (-1: infinite)
    Initial,     \* agents of the input file: Seq of <<prototype, index of parent or 0>>
    Duration,    \* SimInfo::duration
    MaxId,       \* bound: number of agents ever created
    MaxCalls,    \* bound: number of Context calls agents make
    Callers,     \* callbacks in which agents make Context calls
    BuildFor,    \* kinds of agents on whose behalf builds are scheduled
    Retire,      \* kinds of agents that agents decommission
    Toggle       \* callbacks in which a facility changes its decommission condition

Kinds == {"Region", "Inst", "Facility"}

\* The virtual methods of an agent that the kernel calls, and the loading of
\* the schedules recorded by the input file's agents (LoadSched).
Callbacks == {"LoadSched", "EnterNotify", "Build", "BuildNotify", "Tick",
              "Trade", "Tock", "DecomNotify"}

ASSUME ConstantsAssumption ==
    /\ NULL \notin Addr /\ Proto # {}
    /\ Kind \in [Proto -> Kinds]
    /\ Lifetime \in [Proto -> Nat \cup {-1}]
    /\ Initial \in Seq(Proto \X Nat)
    /\ \A k \in 1..Len(Initial) : Initial[k][2] < k
    /\ Duration \in Nat
    /\ MaxId \in Nat \ {0}
    /\ MaxCalls \in Nat
    /\ Callers \subseteq Callbacks
    /\ BuildFor \subseteq Kinds
    /\ Retire \subseteq Kinds
    /\ Toggle \subseteq Callbacks

VARIABLES
    time,          \* Timer::time_
    pc,            \* where RunSim is; the name of the callback while one runs
    self,          \* the agent whose callback runs
    subj,          \* the agent being built or decommissioned
    todo,          \* loop set: children examined by Institution::Tock, traders called
    cursor,        \* id of the last time listener called by DoTick or DoTock
    build_list,    \* what is left of DoBuild's copy of build_queue_[time_]
    decom_list,    \* what is left of DoDecom's copy of decom_queue_[time_]
    agent_list,    \* Context::agent_list_ without the prototypes: allocated agents
    mem,           \* the agent objects, by address
    next_id,       \* Agent::next_id_, counted from the first agent built
    blocked,       \* facilities whose CheckDecommissionCondition answers false
    tickers,       \* Timer::tickers_, as a set of <<id, address>>
    traders,       \* Context::traders_
    n_prototypes,  \* Context::n_prototypes_
    build_queue,   \* Timer::build_queue_: time -> Seq of <<prototype, parent>>
    decom_queue,   \* Timer::decom_queue_: time -> Seq of addresses
    want_snapshot,
    want_kill,
    AgentEntry,    \* output rows <<id, prototype, parent id, time>>
    AgentExit,     \* output rows <<id, time>>, in the order written
    BuildSchedule, \* output rows <<prototype, parent id, build time>>
    DecomSchedule, \* id -> DecomTime of the last row written for it (-1: none)
    Snapshots,     \* times of the snapshots written
    Finish,        \* rows of the Finish table: <<early termination, end time>>
    asked,         \* history: time steps in which a snapshot was asked for
    killed,        \* history: time of the first KillSim call (-1: none)
    calls,         \* number of Context calls made by agents
    error          \* "none", the exception that ended RunSim, or "UseAfterFree"

loopvars == <<todo, cursor, build_list, decom_list>>
regvars  == <<tickers, traders, n_prototypes>>
queues   == <<build_queue, decom_queue, BuildSchedule, DecomSchedule>>
flags    == <<want_snapshot, want_kill, asked, killed>>
heap     == <<agent_list, mem, next_id, blocked>>
tables   == <<AgentEntry, AgentExit, Snapshots, Finish>>
vars == <<time, pc, self, subj, loopvars, regvars, queues, flags, heap,
          tables, calls, error>>

Ptr   == Addr \cup {NULL}
Times == 0..Duration
Ids   == 0..(MaxId - 1)

AgentRec == [id : Ids, proto : Proto, parent : Ptr, parent_id : Ids \cup {-1},
             children : SUBSET Addr, enter_time : Times]

KindOf(a)   == Kind[mem[a].proto]
LifeOf(a)   == Lifetime[mem[a].proto]
ExitTime(a) == IF LifeOf(a) = -1 THEN -1 ELSE mem[a].enter_time + LifeOf(a) - 1
IdOf(p)     == IF p = NULL THEN -1 ELSE mem[p].id
InstParent(a) == mem[a].parent # NULL /\ KindOf(mem[a].parent) = "Inst"

\* What an address holds before any agent was allocated there: never read.
Blank == [id |-> 0, proto |-> CHOOSE p \in Proto : TRUE, parent |-> NULL,
          parent_id |-> -1, children |-> {}, enter_time |-> 0]

Init ==
    /\ time = 0 /\ pc = "Load" /\ self = NULL /\ subj = NULL
    /\ todo = {} /\ cursor = -1 /\ build_list = << >> /\ decom_list = << >>
    /\ agent_list = {}
    /\ mem = [a \in Addr |-> Blank]
    /\ next_id = 0 /\ blocked = {}
    /\ tickers = {} /\ traders = {} /\ n_prototypes = [p \in Proto |-> 0]
    /\ build_queue = [t \in Times |-> << >>]
    /\ decom_queue = [t \in Times |-> << >>]
    /\ BuildSchedule = << >> /\ DecomSchedule = [i \in Ids |-> -1]
    /\ want_snapshot = FALSE /\ want_kill = FALSE /\ asked = {} /\ killed = -1
    /\ AgentEntry = {} /\ AgentExit = << >> /\ Snapshots = << >> /\ Finish = << >>
    /\ calls = 0 /\ error = "none"

-----------------------------------------------------------------------------
(***************************************************************************)
(* Exceptions are not caught between an agent's method and main: one ends  *)
(* RunSim.  A read through a pointer to a freed agent is undefined         *)
(* behaviour; it is flagged as UseAfterFree and ends the run.              *)
(***************************************************************************)
Throw(e) ==
    /\ pc' = "Thrown" /\ error' = e
    /\ UNCHANGED <<time, self, subj, loopvars, regvars, queues, flags, heap,
                   tables, calls>>

Dangling(p) == p # NULL /\ p \notin agent_list

(***************************************************************************)
(* An agent a is cloned from its prototype, connected to its parent and    *)
(* enters the simulation: Agent(), Agent::Connect, enter_time_ and the     *)
(* EnterNotify of its kind.                                                *)
(***************************************************************************)
Connect(a, p, par) ==
    LET born == [id |-> next_id, proto |-> p, parent |-> par,
                 parent_id |-> IdOf(par), children |-> {}, enter_time |-> time]
    IN  [b \in Addr |-> IF b = a THEN born
                        ELSE IF b = par THEN [mem[b] EXCEPT !.children = @ \cup {a}]
                        ELSE mem[b]]

\* Timer::RegisterTimeListener: tickers_[id] = agent
Register(a, i) == {l \in tickers : l[1] # i} \cup {<<i, a>>}

\* Region and Institution override EnterNotify without calling
\* Agent::EnterNotify, so only facilities reach Context::RegisterAgent.
EnterNotify(a, p) ==
    /\ tickers' = Register(a, next_id)
    /\ traders' = IF Kind[p] = "Facility" THEN traders \cup {a} ELSE traders
    /\ n_prototypes' = IF Kind[p] = "Facility"
                       THEN [n_prototypes EXCEPT ![p] = @ + 1] ELSE n_prototypes

Enter(a, p, par) ==
    /\ next_id < MaxId
    /\ a \in Addr \ agent_list
    /\ agent_list' = agent_list \cup {a}
    /\ mem' = Connect(a, p, par)
    /\ next_id' = next_id + 1 /\ blocked' = blocked
    /\ EnterNotify(a, p)

AddToTable(a) ==
    AgentEntry' = AgentEntry \cup {<<mem'[a].id, mem'[a].proto, mem'[a].parent_id, time>>}

\* Mutant: children keep the pointer to their deleted parent.
DestroyKeepsOrphans(m) ==
    [b \in Addr |-> IF b = mem[m].parent THEN [mem[b] EXCEPT !.children = @ \ {m}]
                    ELSE mem[b]]

(***************************************************************************)
(* ~Agent: the agent leaves agent_list_ and its parent's children, and its *)
(* own children lose their parent.                                         *)
(***************************************************************************)
Destroy(m) ==
    [b \in Addr |->
        IF b \in mem[m].children
        THEN [mem[b] EXCEPT !.parent = NULL, !.parent_id = -1]
        ELSE IF b = mem[m].parent
        THEN [mem[b] EXCEPT !.children = @ \ {m}]
        ELSE mem[b]]

-----------------------------------------------------------------------------
(***************************************************************************)
(* SimInit::LoadInitialAgents: the agents of the input file, parents       *)
(* first.  Their AgentEntry rows are already in the database.              *)
(***************************************************************************)
LoadInitialAgents ==
    /\ pc = "Load"
    /\ IF next_id < Len(Initial)
       THEN LET p == Initial[next_id + 1][1]
                k == Initial[next_id + 1][2]
            IN  \E a \in Addr \ agent_list :
                \E par \in IF k = 0 THEN {NULL}
                           ELSE {b \in agent_list : mem[b].id = k - 1} :
                    /\ Enter(a, p, par)
                    /\ AddToTable(a)
                    /\ UNCHANGED pc
       ELSE pc' = "LoadSched" /\ UNCHANGED <<heap, regvars, AgentEntry>>
    /\ UNCHANGED <<time, self, subj, loopvars, queues, flags, AgentExit,
                   Snapshots, Finish, calls, error>>

\* RunSim is called once the schedules are loaded.
RunSim ==
    /\ pc = "LoadSched"
    /\ pc' = "Loop"
    /\ UNCHANGED <<time, self, subj, loopvars, regvars, queues, flags, heap,
                   tables, calls, error>>

\* Mutant: the loop runs once too often.
BeginStepPastEnd ==
    /\ pc = "Loop" /\ time <= Duration
    /\ Snapshots' = IF want_snapshot THEN Append(Snapshots, time) ELSE Snapshots
    /\ want_snapshot' = FALSE
    /\ build_list' = build_queue[time]
    /\ pc' = "DoBuild"
    /\ UNCHANGED <<time, self, subj, todo, cursor, decom_list, regvars, queues,
                   want_kill, asked, killed, heap, AgentEntry, AgentExit, Finish,
                   calls, error>>

(***************************************************************************)
(* The head of RunSim's loop: the snapshot asked for in the previous time  *)
(* step, then DoBuild copies the builds of this time step.                 *)
(***************************************************************************)
BeginStep ==
    /\ pc = "Loop" /\ time < Duration
    /\ Snapshots' = IF want_snapshot THEN Append(Snapshots, time) ELSE Snapshots
    /\ want_snapshot' = FALSE
    /\ build_list' = build_queue[time]
    /\ pc' = "DoBuild"
    /\ UNCHANGED <<time, self, subj, todo, cursor, decom_list, regvars, queues,
                   want_kill, asked, killed, heap, AgentEntry, AgentExit, Finish,
                   calls, error>>

(***************************************************************************)
(* One turn of DoBuild's loop, up to the agent's own EnterNotify; with no  *)
(* free address left the clone throws bad_alloc.                           *)
(***************************************************************************)
DoBuild ==
    /\ pc = "DoBuild" /\ build_list # << >>
    /\ LET p   == Head(build_list)[1]
           par == Head(build_list)[2]
       IN  IF Dangling(par) THEN Throw("UseAfterFree")
           ELSE IF Addr = agent_list THEN Throw("BadAlloc")
           ELSE \E a \in Addr \ agent_list :
                  /\ Enter(a, p, par)
                  /\ build_list' = Tail(build_list)
                  /\ self' = a /\ subj' = a
                  /\ pc' = "EnterNotify"
                  /\ UNCHANGED <<time, todo, cursor, decom_list, queues, flags,
                                 tables, calls, error>>

\* Agent::Build records the new agent after EnterNotify; what an override of
\* Build does after calling its superclass comes next.
EnterNotifyReturns ==
    /\ pc = "EnterNotify"
    /\ UNCHANGED heap
    /\ AddToTable(self)
    /\ pc' = "Build"
    /\ UNCHANGED <<time, self, subj, loopvars, regvars, queues, flags, AgentExit,
                   Snapshots, Finish, calls, error>>

\* DoBuild reads the parent from the queue entry, which Connect stored.
BuildReturns ==
    /\ pc = "Build"
    /\ IF mem[subj].parent # NULL
       THEN pc' = "BuildNotify" /\ self' = mem[subj].parent
       ELSE pc' = "DoBuild" /\ self' = NULL
    /\ subj' = IF mem[subj].parent # NULL THEN subj ELSE NULL
    /\ UNCHANGED <<time, loopvars, regvars, queues, flags, heap, tables, calls, error>>

\* DoTick starts from the first listener.
BuildsDone ==
    /\ pc = "DoBuild" /\ build_list = << >>
    /\ pc' = "DoTick" /\ cursor' = -1
    /\ UNCHANGED <<time, self, subj, todo, build_list, decom_list, regvars, queues,
                   flags, heap, tables, calls, error>>

(***************************************************************************)
(* DoTick and DoTock walk tickers_ in the order of the ids.  DoTock calls  *)
(* Institution::Tock, which first examines the institution's children.     *)
(***************************************************************************)
Later == {l \in tickers : l[1] > cursor}

Listen(next) ==
    \E l \in Later :
        /\ \A k \in Later : l[1] <= k[1]
        /\ cursor' = l[1] /\ self' = l[2]
        /\ IF next = "Tock" /\ KindOf(l[2]) = "Inst"
           THEN pc' = "InstTock" /\ todo' = mem[l[2]].children
           ELSE pc' = next /\ UNCHANGED todo
        /\ UNCHANGED <<time, subj, build_list, decom_list, regvars, queues, flags,
                       heap, tables, calls, error>>

DoTick == pc = "DoTick" /\ Listen("Tick")
DoTock == pc = "DoTock" /\ Listen("Tock")

\* DoResEx: every trader is asked for requests, bids and trades, in the
\* order of the traders' addresses.
TicksDone ==
    /\ pc = "DoTick" /\ Later = {}
    /\ pc' = "DoResEx" /\ todo' = traders
    /\ UNCHANGED <<time, self, subj, cursor, build_list, decom_list, regvars, queues,
                   flags, heap, tables, calls, error>>

DoResEx ==
    /\ pc = "DoResEx"
    /\ \E a \in todo :
        /\ todo' = todo \ {a}
        /\ self' = a /\ pc' = "Trade"
    /\ UNCHANGED <<time, subj, cursor, build_list, decom_list, regvars, queues, flags,
                   heap, tables, calls, error>>

TradesDone ==
    /\ pc = "DoResEx" /\ todo = {}
    /\ pc' = "DoTock" /\ cursor' = -1
    /\ UNCHANGED <<time, self, subj, todo, build_list, decom_list, regvars, queues,
                   flags, heap, tables, calls, error>>

\* DoDecom copies the decommissionings of this time step.
TocksDone ==
    /\ pc = "DoTock" /\ Later = {}
    /\ pc' = "DoDecom" /\ decom_list' = decom_queue[time]
    /\ UNCHANGED <<time, self, subj, todo, cursor, build_list, regvars, queues, flags,
                   heap, tables, calls, error>>
\* Mutant: the listener stays registered.
UnregisterNothing(a) == tickers

\* Timer::UnregisterTimeListener: tickers_.erase(id)
Unregister(a) == {l \in tickers : l[1] # mem[a].id}

\* Mutant: the count is not decremented.
UnregisterAgentNot(a) == n_prototypes

\* Context::UnregisterAgent, for agents of every kind
UnregisterAgent(a) == [n_prototypes EXCEPT ![mem[a].proto] = @ - 1]

(***************************************************************************)
(* One turn of DoDecom's loop: the parent is notified, then the agent is   *)
(* decommissioned.  Facility::Decommission throws when the facility's      *)
(* condition does not hold; Agent::Decommission writes the AgentExit row,  *)
(* unregisters the agent and deletes it.                                   *)
(***************************************************************************)
DoDecom ==
    /\ pc = "DoDecom" /\ decom_list # << >>
    /\ LET m == Head(decom_list)
       IN  IF Dangling(m) THEN Throw("UseAfterFree")
           ELSE /\ subj' = m
                /\ self' = mem[m].parent
                /\ pc' = IF mem[m].parent = NULL THEN "Decommission" ELSE "DecomNotify"
                /\ UNCHANGED <<time, loopvars, regvars, queues, flags, heap, tables,
                               calls, error>>

Decommission ==
    /\ pc = "Decommission"
    /\ IF subj \in blocked THEN Throw("Error")
       ELSE /\ traders' = traders \ {subj}
            /\ tickers' = Unregister(subj)
            /\ AgentExit' = Append(AgentExit, <<mem[subj].id, time>>)
            /\ n_prototypes' = UnregisterAgent(subj)
            /\ agent_list' = agent_list \ {subj} /\ blocked' = blocked
            /\ mem' = Destroy(subj)
            /\ decom_list' = Tail(decom_list)
            /\ self' = NULL /\ subj' = NULL /\ pc' = "DoDecom"
            /\ UNCHANGED <<time, todo, cursor, build_list, queues, flags, next_id,
                           AgentEntry, Snapshots, Finish, calls, error>>

\* Mutant: KillSim is not looked at.
EndStepIgnoresKill ==
    /\ pc = "DoDecom" /\ decom_list = << >>
    /\ time' = time + 1 /\ pc' = "Loop"
    /\ UNCHANGED <<self, subj, loopvars, regvars, queues, flags, heap, tables,
                   calls, error>>

\* Mutant: time_ is not incremented.
EndStepTimeStands ==
    /\ pc = "DoDecom" /\ decom_list = << >>
    /\ pc' = IF want_kill THEN "Finish" ELSE "Loop"
    /\ UNCHANGED <<time, self, subj, loopvars, regvars, queues, flags, heap, tables,
                   calls, error>>

\* The tail of RunSim's loop body.
EndStep ==
    /\ pc = "DoDecom" /\ decom_list = << >>
    /\ time' = time + 1
    /\ pc' = IF want_kill THEN "Finish" ELSE "Loop"
    /\ UNCHANGED <<self, subj, loopvars, regvars, queues, flags, heap, tables,
                   calls, error>>

\* After the loop: the Finish row and the final snapshot.
FinishSim ==
    /\ pc = "Finish" \/ (pc = "Loop" /\ time >= Duration)
    /\ Finish' = Append(Finish, <<want_kill, time - 1>>)
    /\ Snapshots' = Append(Snapshots, time)
    /\ pc' = "Done"
    /\ UNCHANGED <<time, self, subj, loopvars, regvars, queues, flags, heap,
                   AgentEntry, AgentExit, calls, error>>

\* A callback returns to the loop that made the call.
Caller == [BuildNotify |-> "DoBuild", Tick |-> "DoTick", Trade |-> "DoResEx",
           Tock |-> "DoTock", DecomNotify |-> "Decommission"]

CallbackReturns ==
    /\ pc \in DOMAIN Caller
    /\ pc' = Caller[pc]
    /\ self' = NULL
    /\ subj' = IF pc = "DecomNotify" THEN subj ELSE NULL
    /\ UNCHANGED <<time, loopvars, regvars, queues, flags, heap, tables, calls, error>>

-----------------------------------------------------------------------------
(***************************************************************************)
(* Timer::SchedDecom: the first entry of m found in the whole queue,       *)
(* whatever its time, is erased, then m is appended at time t.             *)
(***************************************************************************)
Held(q, m) == {t \in Times : \E k \in 1..Len(q[t]) : q[t][k] = m}

\* Mutant: the wrong entry is erased.
EraseHead(s, m) == Tail(s)

EraseFirst(s, m) ==
    LET k == CHOOSE i \in 1..Len(s) : s[i] = m /\ \A j \in 1..(i - 1) : s[j] # m
    IN  SubSeq(s, 1, k - 1) \o SubSeq(s, k + 1, Len(s))

Unschedule(q, m) ==
    IF Held(q, m) = {} THEN q
    ELSE LET first == CHOOSE t \in Held(q, m) : \A u \in Held(q, m) : t <= u
         IN  [q EXCEPT ![first] = EraseFirst(@, m)]

\* Mutant: the previous entry is left in the queue.
RequeueKeepsOld(q, m, t) == [q EXCEPT ![t] = Append(@, m)]

Requeue(q, m, t) == [Unschedule(q, m) EXCEPT ![t] = Append(@, m)]

\* Mutant: one time step late.
AtEndOfLifeLate(a) ==
    /\ LifeOf(a) # -1 /\ time > ExitTime(a)
    /\ a \notin blocked

\* Institution::Tock examines one child: a child past its exit time, and
\* whose condition holds if it is a facility, is scheduled for this time step.
AtEndOfLife(a) ==
    /\ LifeOf(a) # -1 /\ time >= ExitTime(a)
    /\ a \notin blocked

InstTock ==
    /\ pc = "InstTock"
    /\ IF todo = {}
       THEN pc' = "Tock" /\ UNCHANGED <<todo, decom_queue, DecomSchedule>>
       ELSE \E a \in todo :
              /\ todo' = todo \ {a}
              /\ decom_queue' = IF AtEndOfLife(a) THEN Requeue(decom_queue, a, time)
                                ELSE decom_queue
              /\ DecomSchedule' = IF AtEndOfLife(a)
                                  THEN [DecomSchedule EXCEPT ![mem[a].id] = time]
                                  ELSE DecomSchedule
              /\ UNCHANGED pc
    /\ UNCHANGED <<time, self, subj, cursor, build_list, decom_list, build_queue,
                   BuildSchedule, regvars, flags, heap, tables, calls, error>>

-----------------------------------------------------------------------------
(***************************************************************************)
(* Calls an agent makes from a callback.  An agent schedules builds for    *)
(* itself or for nobody, and the decommissioning of itself or its          *)
(* children; t = -1 is the default argument.                               *)
(***************************************************************************)
CanCall == pc \in Callers /\ calls < MaxCalls

Reach == IF pc = "LoadSched" THEN agent_list
         ELSE {self} \cup mem[self].children

\* Mutant: a build of the current time step is accepted.
TooEarlyOffByOne(t) == t < time

\* Builds of the current time step are over: DoBuild has its copy.
TooEarly(t) == t <= time

SchedBuild(par, p, t0) ==
    LET t == IF t0 = -1 THEN time + 1 ELSE t0 IN
    IF TooEarly(t) THEN Throw("ValueError")
    ELSE /\ build_queue' = [build_queue EXCEPT ![t] = Append(@, <<p, par>>)]
         /\ BuildSchedule' = Append(BuildSchedule, <<p, IdOf(par), t>>)
         /\ calls' = calls + 1
         /\ UNCHANGED <<time, pc, self, subj, loopvars, regvars, decom_queue,
                        DecomSchedule, flags, heap, tables, error>>

SchedDecom(m, t0) ==
    LET t == IF t0 = -1 THEN time ELSE t0 IN
    IF t < time THEN Throw("ValueError")
    ELSE /\ decom_queue' = Requeue(decom_queue, m, t)
         /\ DecomSchedule' = [DecomSchedule EXCEPT ![mem[m].id] = t]
         /\ calls' = calls + 1
         /\ UNCHANGED <<time, pc, self, subj, loopvars, regvars, build_queue,
                        BuildSchedule, flags, heap, tables, error>>

CallSchedBuild ==
    /\ CanCall
    /\ Len(Initial) + Len(BuildSchedule) < MaxId
    /\ \E par \in {a \in Reach : KindOf(a) \in BuildFor} \cup {NULL},
          p \in Proto, t \in Times \cup {-1} :
            /\ t # -1 \/ time < Duration
            /\ SchedBuild(par, p, t)

CallSchedDecom ==
    /\ CanCall
    /\ \E m \in {a \in Reach : KindOf(a) \in Retire}, t \in Times \cup {-1} :
            SchedDecom(m, t)

\* Timer::Snapshot and Timer::KillSim set a flag RunSim reads later.
CallSnapshot ==
    /\ CanCall
    /\ want_snapshot' = TRUE
    /\ asked' = asked \cup {IF pc = "LoadSched" THEN -1 ELSE time}
    /\ calls' = calls + 1
    /\ UNCHANGED <<time, pc, self, subj, loopvars, regvars, queues, want_kill, killed,
                   heap, tables, error>>

CallKillSim ==
    /\ CanCall
    /\ want_kill' = TRUE
    /\ killed' = IF killed = -1 THEN time ELSE killed
    /\ calls' = calls + 1
    /\ UNCHANGED <<time, pc, self, subj, loopvars, regvars, queues, want_snapshot,
                   asked, heap, tables, error>>

\* A facility's own work changes what CheckDecommissionCondition answers.
ChangeCondition ==
    /\ pc \in Toggle /\ pc # "LoadSched" /\ calls < MaxCalls
    /\ KindOf(self) = "Facility"
    /\ blocked' = IF self \in blocked THEN blocked \ {self} ELSE blocked \cup {self}
    /\ calls' = calls + 1
    /\ UNCHANGED <<time, pc, self, subj, loopvars, regvars, queues, flags, agent_list,
                   mem, next_id, tables, error>>

-----------------------------------------------------------------------------
Kernel == \/ LoadInitialAgents \/ RunSim \/ BeginStep \/ DoBuild
          \/ EnterNotifyReturns \/ BuildReturns \/ BuildsDone \/ DoTick \/ TicksDone
          \/ DoResEx \/ TradesDone \/ DoTock \/ InstTock \/ TocksDone \/ DoDecom
          \/ Decommission \/ EndStep \/ FinishSim \/ CallbackReturns

AgentCall == \/ CallSchedBuild \/ CallSchedDecom \/ CallSnapshot \/ CallKillSim
             \/ ChangeCondition

Stopped == pc \in {"Done", "Thrown"} /\ UNCHANGED vars

Next == Kernel \/ AgentCall \/ Stopped

Spec == Init /\ [][Next]_vars

\* RunSim never yields between its own steps, and callbacks return.
FairSpec == Spec /\ WF_vars(Kernel)
-----------------------------------------------------------------------------
(***************************************************************************)
(* Properties.                                                             *)
(***************************************************************************)
ControlTypes ==
    /\ time \in Times
    /\ pc \in Callbacks \cup {"Load", "Loop", "DoBuild", "DoTick", "DoResEx",
                              "InstTock", "DoTock", "DoDecom", "Decommission",
                              "Finish", "Done", "Thrown"}
    /\ self \in Ptr /\ subj \in Ptr
    /\ todo \subseteq Addr /\ cursor \in Ids \cup {-1}
    /\ build_list \in Seq(Proto \X Ptr) /\ decom_list \in Seq(Addr)
    /\ calls \in 0..MaxCalls
    /\ error \in {"none", "ValueError", "Error", "BadAlloc", "UseAfterFree"}
HeapTypes ==
    /\ agent_list \subseteq Addr /\ mem \in [Addr -> AgentRec]
    /\ next_id \in 0..MaxId /\ blocked \subseteq agent_list
RegistryTypes ==
    /\ tickers \subseteq Ids \X Addr /\ traders \subseteq Addr
    /\ n_prototypes \in [Proto -> Int]
QueueTypes ==
    /\ build_queue \in [Times -> Seq(Proto \X Ptr)]
    /\ decom_queue \in [Times -> Seq(Addr)]
    /\ BuildSchedule \in Seq(Proto \X (Ids \cup {-1}) \X Times)
    /\ DecomSchedule \in [Ids -> Times \cup {-1}]
FlagTypes == want_snapshot \in BOOLEAN /\ want_kill \in BOOLEAN
OutputTypes ==
    /\ asked \subseteq Times \cup {-1} /\ killed \in Times \cup {-1}
    /\ AgentEntry \subseteq Ids \X Proto \X (Ids \cup {-1}) \X Times
    /\ AgentExit \in Seq(Ids \X Times)
    /\ Snapshots \in Seq(Times) /\ Finish \in Seq(BOOLEAN \X (Times \cup {-1}))

(***************************************************************************)
(* The type invariant: RunSim's place in its loop, the heap of agents, the *)
(* registries, the queues, the flags and the output tables.                *)
(***************************************************************************)
TypeOK == /\ ControlTypes /\ HeapTypes /\ RegistryTypes /\ QueueTypes
          /\ FlagTypes /\ OutputTypes

(***************************************************************************)
(* Timer::SchedDecom keeps every agent at most once in the whole           *)
(* decommission queue, entries of past time steps included, whatever       *)
(* agents call and when.  (DoDecom works on a copy of one entry of this    *)
(* queue, which SchedDecom does not reach.)                                *)
(***************************************************************************)
QueuedOnce ==
    \A t, u \in Times :
        \A i \in 1..Len(decom_queue[t]), j \in 1..Len(decom_queue[u]) :
            decom_queue[t][i] = decom_queue[u][j] => t = u /\ i = j

(***************************************************************************)
(* Parent and child pointers agree in both directions, point to live       *)
(* agents only, and lead from a younger to an older agent, so walking up   *)
(* the tree (Agent::AncestorOf) ends.                                      *)
(***************************************************************************)
FamilyTree ==
    \A a \in agent_list :
        /\ mem[a].parent # NULL =>
              /\ mem[a].parent \in agent_list
              /\ a \in mem[mem[a].parent].children
              /\ mem[mem[a].parent].id < mem[a].id
              /\ mem[a].parent_id = mem[mem[a].parent].id
        /\ \A c \in mem[a].children : c \in agent_list /\ mem[c].parent = a

(***************************************************************************)
(* The kernel's registries hold exactly the live agents: tickers_ maps the *)
(* id of every live agent to it, traders_ holds the live facilities.       *)
(***************************************************************************)
Registered ==
    /\ \A l \in tickers : l[2] \in agent_list /\ l[1] = mem[l[2]].id
    /\ \A a \in agent_list : <<mem[a].id, a>> \in tickers
    /\ \A a \in Addr : a \in traders <=> a \in agent_list /\ KindOf(a) = "Facility"
    /\ \A a, b \in agent_list : mem[a].id = mem[b].id => a = b

(***************************************************************************)
(* Every agent the kernel is about to call or is calling is alive: the     *)
(* receiver of the callback, the agent being built or decommissioned, the  *)
(* traders and children still to be visited.                               *)
(***************************************************************************)
CallsReachLiveAgents ==
    /\ {self, subj} \subseteq agent_list \cup {NULL}
    /\ todo \subseteq agent_list

(***************************************************************************)
(* No pointer to a deleted agent is followed: neither by DoBuild (the      *)
(* parent stored with a scheduled build) nor by DoDecom.  It holds of      *)
(* agents that schedule nothing from DecomNotify and do not decommission   *)
(* an agent that builds are scheduled for.                                 *)
(***************************************************************************)
NoUseAfterFree == error # "UseAfterFree"

(***************************************************************************)
(* An agent exits at most once, at the time step it was last scheduled for *)
(* by Context::SchedDecom and never at one that was scheduled over; and no *)
(* decommissioning is lost: once that time step is over, the agent has     *)
(* exited in it.                                                           *)
(***************************************************************************)
ExitsAsScheduled ==
    /\ \A k \in DOMAIN AgentExit : DecomSchedule[AgentExit[k][1]] = AgentExit[k][2]
    /\ \A k, l \in DOMAIN AgentExit : AgentExit[k][1] = AgentExit[l][1] => k = l
    /\ pc # "Thrown" =>
         \A i \in Ids : DecomSchedule[i] \in 0..(time - 1) =>
            \E k \in DOMAIN AgentExit : AgentExit[k] = <<i, DecomSchedule[i]>>

(***************************************************************************)
(* Context::SchedBuild keeps its promise: the agents that entered at a     *)
(* time step whose builds are done are exactly those scheduled for it, as  *)
(* many of each prototype and under the parent they were scheduled for.    *)
(***************************************************************************)
BuiltAt(p, pid, t) ==
    {e \in AgentEntry : e[1] >= Len(Initial) /\ e[2] = p /\ e[3] = pid /\ e[4] = t}
ScheduledFor(p, pid, t) == {k \in DOMAIN BuildSchedule : BuildSchedule[k] = <<p, pid, t>>}

\* Time steps whose builds are done.
BuildsDoneUpTo == IF pc \in {"DoTick", "Tick", "DoResEx", "Trade", "DoTock", "InstTock",
                             "Tock", "DoDecom", "DecomNotify", "Decommission"}
                  THEN time ELSE time - 1

BuildsAsScheduled ==
    pc # "Thrown" =>
        \A t \in 0..BuildsDoneUpTo, p \in Proto, pid \in Ids \cup {-1} :
            Cardinality(BuiltAt(p, pid, t)) = Cardinality(ScheduledFor(p, pid, t))

(***************************************************************************)
(* The AgentEntry and AgentExit tables agree with the BuildSchedule and    *)
(* DecomSchedule tables: everybody enters and exits as was last scheduled. *)
(***************************************************************************)
SchedulesKept == ExitsAsScheduled /\ BuildsAsScheduled

(***************************************************************************)
(* Context::n_prototypes answers the number of live agents of a facility   *)
(* prototype.  (Regions and institutions are uncounted without having been *)
(* counted.)                                                               *)
(***************************************************************************)
LiveOf(p) == {a \in agent_list : mem[a].proto = p}
FacilitiesCounted ==
    \A p \in Proto : Kind[p] = "Facility" => n_prototypes[p] = Cardinality(LiveOf(p))

(***************************************************************************)
(* Institution::Tock enforces lifetimes: when a time step begins, a child  *)
(* of an institution that has outlived its exit time is a facility whose   *)
(* condition does not hold, or was rescheduled for later by a call made    *)
(* after its institution's Tock.  (Conditions change in Tick only.)        *)
(***************************************************************************)
LifetimesEnforced ==
    pc = "Loop" =>
        \A a \in agent_list :
            InstParent(a) /\ LifeOf(a) # -1 /\ time > ExitTime(a) /\ time > 0 =>
                a \in blocked \/ DecomSchedule[mem[a].id] >= time

(***************************************************************************)
(* A snapshot asked for in a time step is taken at the beginning of the    *)
(* next one, once; the only other snapshot is the final one.               *)
(***************************************************************************)
SnapshotsAsAsked ==
    /\ \A k, l \in DOMAIN Snapshots : k < l => Snapshots[k] < Snapshots[l]
    /\ \A t \in asked : t + 1 < time \/ pc = "Done"
            => \E k \in DOMAIN Snapshots : Snapshots[k] = t + 1
    /\ \A k \in DOMAIN Snapshots :
            Snapshots[k] - 1 \in asked \/ (pc = "Done" /\ k = Len(Snapshots))

(***************************************************************************)
(* KillSim ends the simulation with the time step in which it was first    *)
(* called, and the Finish row says so; otherwise it lasts Duration steps.  *)
(***************************************************************************)
EndsAsAsked ==
    \A k \in DOMAIN Finish :
        /\ Finish[k] = IF killed = -1 THEN <<FALSE, Duration - 1>> ELSE <<TRUE, killed>>
        /\ k = 1

(***************************************************************************)
(* Requests to the timer are honoured whenever they are made: snapshots    *)
(* and the end of the simulation come when they were asked for.            *)
(***************************************************************************)
RequestsHonoured == SnapshotsAsAsked /\ EndsAsAsked

(***************************************************************************)
(* RunSim ends: with its Finish row and final snapshot, or by an exception.*)
(***************************************************************************)
Terminates == <>(pc \in {"Done", "Thrown"})
-----------------------------------------------------------------------------
(***************************************************************************)
(* The inductive invariant of the kernel for agents that do anything.      *)
(* Control says what each point of RunSim knows: which pointers it holds,  *)
(* that its loop sets are empty elsewhere and that time_ < duration while  *)
(* a time step runs.                                                       *)
(***************************************************************************)
Outside == {"Load", "LoadSched", "Loop", "Finish", "Done", "Thrown"}

Control ==
    /\ pc \in (Callbacks \ {"LoadSched"}) \cup {"InstTock"} => self \in agent_list
    /\ pc \in {"EnterNotify", "Build", "DecomNotify", "Decommission"} => subj \in agent_list
    /\ pc \in {"DecomNotify", "Decommission"} =>
            decom_list # << >> /\ subj = Head(decom_list)
    /\ pc \notin {"DoResEx", "Trade", "InstTock", "Thrown"} => todo = {}
    /\ pc \notin Outside => time < Duration
    /\ pc \in {"Load", "LoadSched"} => time = 0

IdsBelowNext == \A a \in agent_list : mem[a].id < next_id

KernelInv == /\ TypeOK /\ Control /\ CallsReachLiveAgents /\ IdsBelowNext
             /\ Registered /\ FamilyTree

(***************************************************************************)
(* The inductive invariant behind RequestsHonoured.  Begun is the last     *)
(* time step that has begun: everything asked for before it was served,    *)
(* and want_snapshot stands for what was asked for in it.                  *)
(***************************************************************************)
Begun == IF pc \in {"Load", "LoadSched", "Loop", "Finish"} THEN time - 1 ELSE time
Taken == {Snapshots[k] : k \in DOMAIN Snapshots}

SnapshotInv ==
    /\ \A k, l \in DOMAIN Snapshots : k < l => Snapshots[k] < Snapshots[l]
    /\ pc \notin {"Done", "Thrown"} =>
         /\ \A k \in DOMAIN Snapshots : Snapshots[k] <= Begun
         /\ \A t \in asked : t <= Begun /\ (t < Begun => t + 1 \in Taken)
         /\ want_snapshot <=> Begun \in asked
    /\ \A k \in DOMAIN Snapshots :
            Snapshots[k] - 1 \in asked \/ (pc = "Done" /\ k = Len(Snapshots))
    /\ \A t \in asked : t + 1 < time \/ pc = "Done" => t + 1 \in Taken

\* Until RunSim leaves its loop, KillSim was called in this time step or not
\* at all; at the head of the loop, only while the schedules were loaded.
KillInv ==
    /\ want_kill <=> killed # -1
    /\ pc \notin {"Finish", "Done", "Thrown"} /\ want_kill => killed = time
    /\ pc = "Loop" /\ want_kill => time = 0
    /\ pc = "Finish" => want_kill /\ killed = time - 1
    /\ pc # "Done" => Finish = << >>
    /\ EndsAsAsked

RequestInv == SnapshotInv /\ KillInv

\* Behind FacilitiesCounted.
CountInv == IsFiniteSet(agent_list) /\ FacilitiesCounted

(***************************************************************************)
(* Agents for which the schedules are kept: none schedules anything while  *)
(* DoDecom iterates over its copy, and those on whose behalf builds are    *)
(* scheduled are never decommissioned.                                     *)
(***************************************************************************)
Orderly ==
    /\ "DecomNotify" \notin Callers
    /\ \A p \in Proto : Kind[p] \in BuildFor => Kind[p] \notin Retire /\ Lifetime[p] = -1

Holds(s, a) == \E k \in 1..Len(s) : s[k] = a

\* What is left to decommission at t, and what is left to build.
Closing  == {"DoDecom", "DecomNotify", "Decommission"}
Building == {"DoBuild", "EnterNotify", "Build", "BuildNotify"}
Due(t)     == IF t = time /\ pc \in Closing THEN decom_list ELSE decom_queue[t]
Pending(t) == IF t > time \/ (t = time /\ pc \in Outside) THEN build_queue[t]
              ELSE IF t = time /\ pc \in Building THEN build_list ELSE << >>

Mortal(a)  == KindOf(a) \in Retire \/ LifeOf(a) # -1
Lasting(p) == p # NULL => p \in agent_list /\ KindOf(p) \in BuildFor

(***************************************************************************)
(* The inductive invariant behind NoUseAfterFree and ExitsAsScheduled: the *)
(* live agents with a decommissioning to come are exactly those due, at    *)
(* the time last recorded for them; every id belongs to a live agent or to *)
(* one that has exited.                                                    *)
(***************************************************************************)
DueInv ==
    pc # "Thrown" =>
        /\ \A t \in Times, a \in Addr : t >= time /\ Holds(Due(t), a) =>
               a \in agent_list /\ Mortal(a) /\ DecomSchedule[mem[a].id] = t
        /\ \A a \in agent_list, t \in Times : DecomSchedule[mem[a].id] = t =>
               t >= time /\ Holds(Due(t), a)
        /\ pc \in Closing => \A i, j \in DOMAIN decom_list :
                                decom_list[i] = decom_list[j] => i = j

LastingInv ==
    /\ \A t \in Times : \A k \in DOMAIN build_queue[t] : Lasting(build_queue[t][k][2])
    /\ \A k \in DOMAIN build_list : Lasting(build_list[k][2])

ExitInv ==
    /\ \A i \in Ids : i >= next_id => DecomSchedule[i] = -1
    /\ \A k \in DOMAIN AgentExit :
            /\ AgentExit[k][1] < next_id
            /\ DecomSchedule[AgentExit[k][1]] = AgentExit[k][2]
            /\ \A a \in agent_list : mem[a].id # AgentExit[k][1]
    /\ \A k, l \in DOMAIN AgentExit : AgentExit[k][1] = AgentExit[l][1] => k = l
    /\ \A i \in Ids : i < next_id =>
            \/ \E a \in agent_list : mem[a].id = i
            \/ \E k \in DOMAIN AgentExit : AgentExit[k][1] = i

ScheduleInv == DueInv /\ LastingInv /\ ExitInv /\ NoUseAfterFree

(***************************************************************************)
(* Behind BuildsAsScheduled: every scheduled build is pending, is the one  *)
(* being made (not recorded before its EnterNotify returns) or was made.   *)
(***************************************************************************)
Matches(s, p, pid) == {k \in DOMAIN s : s[k][1] = p /\ IdOf(s[k][2]) = pid}
Entering(p, pid, t) ==
    IF /\ pc = "EnterNotify" /\ t = time
       /\ mem[self].proto = p /\ mem[self].parent_id = pid THEN 1 ELSE 0

EntryInv ==
    /\ IsFiniteSet(AgentEntry)
    /\ \A e \in AgentEntry : e[1] < next_id /\ (pc = "EnterNotify" => e[1] # mem[self].id)
    /\ pc # "Load" => next_id >= Len(Initial)
    /\ pc = "EnterNotify" => mem[self].id >= Len(Initial)

BuildInv ==
    pc # "Thrown" =>
        \A t \in Times, p \in Proto, pid \in Ids \cup {-1} :
            Cardinality(ScheduledFor(p, pid, t)) =
                Cardinality(BuiltAt(p, pid, t)) + Cardinality(Matches(Pending(t), p, pid))
                    + Entering(p, pid, t)

(***************************************************************************)
(* Behind LifetimesEnforced: once the Tock of its institution has examined *)
(* it, an agent at the end of its life waits for DoDecom or its condition  *)
(* keeps it.                                                               *)
(***************************************************************************)
Examined(a) ==
    \/ pc \in Closing
    \/ /\ pc \in {"DoTock", "InstTock", "Tock"} /\ mem[mem[a].parent].id <= cursor
       /\ ~(pc = "InstTock" /\ a \in todo)

LifeInv ==
    \A a \in agent_list :
        InstParent(a) /\ LifeOf(a) # -1 /\ time >= ExitTime(a) /\ Examined(a) =>
            a \in blocked \/ DecomSchedule[mem[a].id] >= time
=============================================================================
