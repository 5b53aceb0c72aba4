----------------------------- MODULE SimRestart -----------------------------
(***************************************************************************)
(* SimInit: a simulation leaves the tables AgentEntry, AgentExit,          *)
(* BuildSchedule, DecomSchedule and NextIds behind, and SimInit rebuilds   *)
(* the agents and the timer's queues at a snapshot time t from them: Init  *)
(* at time 0 before the simulation is run, Restart at any snapshot of a    *)
(* simulation that has run.                                                *)
(*                                                                         *)
(* The simulation is the abstract one of AgentPlan with what these tables  *)
(* need: agents enter, schedule builds and decommissionings, and leave.    *)
(* Each snapshot keeps, as history, the state it was taken in.             *)
(***************************************************************************)
EXTENDS Integers, Sequences, FiniteSets, FiniteSetsExt

CONSTANTS
    Initial,   \* number of agents the input file builds
    Duration,  \* SimInfo::duration
    MaxAgents, \* bound: number of agents ever built
    MaxCalls   \* bound: number of schedule calls

ASSUME SimRestartAssumption ==
    /\ Initial \in Nat \ {0} /\ {Duration, MaxAgents, MaxCalls} \subseteq Nat

VARIABLES
    phase,    \* "input", "begin", "events", "ended", then SimInit's, see below
    time,     \* Timer::time_
    alive,    \* the agents in the simulation: id -> parent's id (None: no parent)
    builds,   \* Timer::build_queue_: time -> the parents, in the order of the calls
    decoms,   \* Timer::decom_queue_: agent -> time
    nextId,   \* Agent::next_id_
    entry, exits, bsched, dsched, nextIds, \* the tables
    snaps,    \* history: snapshot time -> the state it was taken in
    calls,    \* number of schedule calls
    from,     \* SimInit::t_
    unbuilt,  \* LoadInitialAgents: the agents not connected yet
    it,       \* LoadInitialAgents: the agent its iterator is at
    agents,   \* SimInit::agents_: id -> parent's id
    row,      \* LoadBuildSched, LoadDecomSched: the row of the table being read
    loaded    \* the queues and the next id SimInit has set

sim  == <<time, alive, builds, decoms, nextId, entry, exits, bsched, dsched, nextIds,
          snaps, calls>>
init == <<from, unbuilt, it, agents, row, loaded>>
vars == <<phase, sim, init>>

Times == 0..Duration
None  == 0
NoBuilds == [t \in Times |-> << >>]
Empty == [x \in {} |-> None]
Drop(f, S) == [x \in DOMAIN f \ S |-> f[x]]
With(f, x, v) == [y \in DOMAIN f \cup {x} |-> IF y = x THEN v ELSE f[y]]

\* The input file builds a region, its institution and the facilities of this one; they
\* are in the simulation when they make their first calls.
InitialParent(i) == CASE i = 1 -> None [] i = 2 -> 1 [] OTHER -> 2

Init ==
    /\ phase = "input" /\ time = 0
    /\ alive = [i \in 1..Initial |-> InitialParent(i)]
    /\ entry = {[id |-> i, parent |-> InitialParent(i), enter |-> 0] : i \in 1..Initial}
    /\ exits = {} /\ bsched = << >> /\ dsched = << >> /\ nextIds = {}
    /\ builds = NoBuilds /\ decoms = Empty /\ nextId = Initial + 1
    /\ snaps = Empty /\ calls = 0
    /\ from = 0 /\ unbuilt = {} /\ it = 0 /\ agents = Empty /\ row = 1
    /\ loaded = [builds |-> NoBuilds, decoms |-> Empty, next |-> 0]
-----------------------------------------------------------------------------
(***************************************************************************)
(* The simulation.                                                         *)
(***************************************************************************)
MayCall == phase \in {"input", "events"} /\ calls < MaxCalls

\* Context::SchedBuild, for a parent or for none.  The parent may leave before the build.
SchedBuild ==
    /\ MayCall /\ Initial + Len(bsched) < MaxAgents
    /\ \E p \in DOMAIN alive \cup {None}, t \in (time + 1)..Duration :
         /\ builds' = [builds EXCEPT ![t] = Append(@, p)]
         /\ bsched' = Append(bsched, [parent |-> p, time |-> t])
    /\ calls' = calls + 1
    /\ UNCHANGED <<phase, time, alive, decoms, nextId, entry, exits, dsched, nextIds,
                   snaps, init>>

\* Context::SchedDecom
SchedDecom ==
    /\ MayCall
    /\ \E a \in DOMAIN alive, t \in time..Duration :
         /\ decoms' = With(decoms, a, t)
         /\ dsched' = Append(dsched, [id |-> a, time |-> t])
    /\ calls' = calls + 1
    /\ UNCHANGED <<phase, time, alive, builds, nextId, entry, exits, bsched, nextIds,
                   snaps, init>>

\* SimInit::Snapshot
Snapshot ==
    /\ nextIds' = nextIds \cup {<<time, nextId>>}
    /\ snaps' = With(snaps, time, [alive |-> alive, builds |-> builds,
                                   decoms |-> decoms, next |-> nextId])

\* The loader takes a snapshot when the input file is read.
InputRead ==
    /\ phase = "input" /\ Snapshot
    /\ phase' = "begin"
    /\ UNCHANGED <<time, alive, builds, decoms, nextId, entry, exits, bsched, dsched,
                   calls, init>>

\* The parent the agent with id i, built for p, gets and records.  A parent that has left
\* is a dangling pointer: the id read through it is the old one or, where its memory is
\* used again, that of another agent.
BuiltFor(p, i) ==
    IF p \in DOMAIN alive \cup {None} THEN {p} ELSE {p} \cup DOMAIN alive \cup nextId..(i - 1)

\* The beginning of a step of Timer::RunSim: the snapshot an agent may have asked for
\* in the step before, then DoBuild.
BeginStep ==
    /\ phase = "begin" /\ time < Duration
    /\ LET due == builds[time]
           new == nextId..(nextId + Len(due) - 1)
       IN  \E par \in [new -> 0..(nextId + Len(due) - 1)] :
           /\ \A i \in new : par[i] \in BuiltFor(due[i - nextId + 1], i)
           /\ (time > 0 /\ Snapshot) \/ UNCHANGED <<nextIds, snaps>>
           /\ alive' = [i \in DOMAIN alive \cup new |-> IF i \in new THEN par[i] ELSE alive[i]]
           /\ entry' = entry \cup {[id |-> i, parent |-> par[i], enter |-> time] : i \in new}
           /\ nextId' = nextId + Len(due)
           /\ builds' = [builds EXCEPT ![time] = << >>]
    /\ phase' = "events"
    /\ UNCHANGED <<time, decoms, exits, bsched, dsched, calls, init>>

\* DoDecom and the next time step.  The children of an agent that leaves stay, without a
\* parent, and AgentEntry keeps the parent they entered with.
EndStep ==
    /\ phase = "events"
    /\ LET due == {a \in DOMAIN decoms : decoms[a] = time}
       IN  /\ alive' = [a \in DOMAIN alive \ due |->
                           IF alive[a] \in due THEN None ELSE alive[a]]
           /\ decoms' = Drop(decoms, due)
           /\ exits' = exits \cup {[id |-> a, time |-> time] : a \in due}
    /\ time' = time + 1
    /\ phase' = "begin"
    /\ UNCHANGED <<builds, nextId, entry, bsched, dsched, nextIds, snaps, calls, init>>

\* RunSim takes a last snapshot, at the end of the duration or after a step in which an
\* agent called KillSim.
FinishSim ==
    /\ phase = "begin" /\ (time >= Duration \/ time > 0) /\ Snapshot
    /\ phase' = "ended"
    /\ UNCHANGED <<time, alive, builds, decoms, nextId, entry, exits, bsched, dsched,
                   calls, init>>
-----------------------------------------------------------------------------
(***************************************************************************)
(* SimInit.  Mutants come before the definitions they change.              *)
(***************************************************************************)
Entered(t) == {e \in entry : e.enter <= t}

\* LoadInitialAgents: the agent was decommissioned before t.
Gone(e, t) == \E x \in exits : x.id = e.id /\ x.time < t

\* Mutant: agents built in the snapshot's time step are loaded.
ToBeBuiltNever(e, t) == FALSE

\* LoadInitialAgents: the agent "is scheduled to be built already".
ToBeBuilt(e, t) == t > 0 /\ e.enter = t

ParentOf(i) == (CHOOSE e \in entry : e.id = i).parent

\* Init at time 0, Restart at a snapshot; the iterator starts at the smallest id.
LoadInitialAgents ==
    /\ \E t \in DOMAIN snaps :
         /\ \/ phase = "begin" /\ time = 0 /\ t = 0
            \/ phase = "ended"
         /\ from' = t
         /\ unbuilt' = {e.id : e \in {e \in Entered(t) : ~ ToBeBuilt(e, t) /\ ~ Gone(e, t)}}
         /\ it' = IF unbuilt' = {} THEN 0 ELSE Min(unbuilt')
    /\ phase' = IF unbuilt' = {} THEN "builds" ELSE "connect"
    /\ UNCHANGED <<sim, agents, row, loaded>>

\* The iterator's next position in S (map order), at the beginning again after the end.
After(S, i) ==
    IF S = {} THEN 0
    ELSE IF \E j \in S : j > i THEN Min({j \in S : j > i}) ELSE Min(S)

\* Mutant: roots are not recognized.
ReadyNoRoots(i) == ParentOf(i) \in DOMAIN agents

\* Whether the agent can be connected: it is a root or its parent is connected.
Ready(i) == ParentOf(i) = None \/ ParentOf(i) \in DOMAIN agents

\* One turn of the loop that connects the agents, "starting at roots (no parent) down".
Connect ==
    /\ phase = "connect"
    /\ IF Ready(it) THEN /\ agents' = With(agents, it, IF ParentOf(it) \in DOMAIN agents
                                                       THEN ParentOf(it) ELSE None)
                         /\ unbuilt' = unbuilt \ {it}
       ELSE UNCHANGED <<agents, unbuilt>>
    /\ it' = After(unbuilt', it)
    /\ phase' = IF unbuilt' = {} THEN "builds" ELSE "connect"
    /\ UNCHANGED <<sim, from, row, loaded>>

\* Mutant: builds of the next time step are left out.
LaterByTwo(t, s) == t > s + 1

\* The condition "BuildTime > t_" of LoadBuildSched.
Later(t, s) == t > s

\* The rows are scheduled again one by one; agents_ has no pointer to an agent that was
\* not loaded.
LoadBuildSched ==
    /\ phase = "builds"
    /\ IF row <= Len(bsched)
       THEN LET b == bsched[row]
                p == IF b.parent \in DOMAIN agents THEN b.parent ELSE None
            IN  /\ loaded' = IF Later(b.time, from)
                             THEN [loaded EXCEPT !.builds[b.time] = Append(@, p)] ELSE loaded
                /\ row' = row + 1 /\ phase' = "builds"
       ELSE phase' = "decoms" /\ row' = 1 /\ loaded' = loaded
    /\ UNCHANGED <<sim, from, unbuilt, it, agents>>

\* Mutant: decommissionings of the snapshot's time step are left out.
NotBeforeStrict(t, s) == t > s

\* The condition "DecomTime >= t_" of LoadDecomSched.
NotBefore(t, s) == t >= s

\* A row may name an agent that was not loaded: SchedDecom then follows a null pointer.
LoadDecomSched ==
    /\ phase = "decoms"
    /\ IF row <= Len(dsched)
       THEN LET d == dsched[row]
                null == NotBefore(d.time, from) /\ d.id \notin DOMAIN agents
            IN  /\ loaded' = IF NotBefore(d.time, from) /\ ~ null
                             THEN [loaded EXCEPT !.decoms = With(@, d.id, d.time)] ELSE loaded
                /\ row' = row + 1 /\ phase' = IF null THEN "crashed" ELSE "decoms"
       ELSE phase' = "ids" /\ row' = 1 /\ loaded' = loaded
    /\ UNCHANGED <<sim, from, unbuilt, it, agents>>

LoadNextIds ==
    /\ phase = "ids"
    /\ \E n \in nextIds : n[1] = from /\ loaded' = [loaded EXCEPT !.next = n[2]]
    /\ phase' = "loaded"
    /\ UNCHANGED <<sim, from, unbuilt, it, agents, row>>

Done == phase \in {"loaded", "crashed"} /\ UNCHANGED vars

Next ==
    \/ SchedBuild \/ SchedDecom \/ InputRead \/ BeginStep \/ EndStep \/ FinishSim
    \/ LoadInitialAgents \/ Connect \/ LoadBuildSched \/ LoadDecomSched \/ LoadNextIds
    \/ Done

Spec == Init /\ [][Next]_vars

\* SimInit runs to its end in one thread.
FairSpec ==
    Spec /\ WF_vars(Connect) /\ WF_vars(LoadBuildSched) /\ WF_vars(LoadDecomSched)
         /\ WF_vars(LoadNextIds)
-----------------------------------------------------------------------------
\* Tables, queues and what SimInit loads keep their types.
TypeOK ==
    /\ phase \in {"input", "begin", "events", "ended", "connect", "builds", "decoms", "ids",
                  "loaded", "crashed"}
    /\ time \in Times /\ nextId \in Nat /\ calls \in Nat
    /\ alive \in [DOMAIN alive -> Nat] /\ DOMAIN decoms \subseteq DOMAIN alive
    /\ builds \in [Times -> Seq(Nat)] /\ decoms \in [DOMAIN decoms -> time..Duration]
    /\ bsched \in Seq([parent : Nat, time : Times]) /\ dsched \in Seq([id : Nat, time : Times])
    /\ entry \subseteq [id : 0..(nextId - 1), parent : Nat, enter : 0..time]
    /\ exits \subseteq [id : 0..(nextId - 1), time : 0..(time - 1)]
    /\ DOMAIN snaps \subseteq 0..time /\ from \in DOMAIN snaps \cup {0} /\ row \in Nat
    /\ unbuilt \subseteq {e.id : e \in entry} /\ it \in unbuilt \cup {0}
    /\ agents \in [DOMAIN agents -> Nat] /\ DOMAIN agents \subseteq {e.id : e \in entry}
    /\ loaded.builds \in [Times -> Seq(Nat)]
    /\ loaded.decoms \in [DOMAIN loaded.decoms -> Times]

Loaded == phase = "loaded"

(***************************************************************************)
(* Initialization from the tables of the loader gives back the simulation  *)
(* the input file described: agents, family tree, both queues, next id.    *)
(***************************************************************************)
InitFaithful ==
    Loaded /\ from = 0 /\ time = 0 =>
        /\ agents = snaps[0].alive /\ loaded.next = snaps[0].next
        /\ loaded.builds = snaps[0].builds /\ loaded.decoms = snaps[0].decoms

(***************************************************************************)
(* A restart brings back the agents of its snapshot and no others, with    *)
(* their parents, and gives no id twice.                                   *)
(***************************************************************************)
AgentsRestored ==
    Loaded => /\ agents = snaps[from].alive
              /\ loaded.next = snaps[from].next

(***************************************************************************)
(* Every agent whose decommissioning was pending at the snapshot is to be  *)
(* decommissioned after a restart, and not before the restart's time.      *)
(***************************************************************************)
PendingDecomsKept ==
    Loaded => /\ DOMAIN snaps[from].decoms \subseteq DOMAIN loaded.decoms
              /\ \A a \in DOMAIN loaded.decoms : loaded.decoms[a] >= from

(***************************************************************************)
(* The builds pending at the snapshot for a later time step are scheduled  *)
(* again by a restart, as often as they were, in the same order and for    *)
(* the same parents, for none where the parent had left by the snapshot;   *)
(* those scheduled after the snapshot follow them.                         *)
(***************************************************************************)
FutureBuildsKept ==
    Loaded => \A t \in Times : t > from =>
                \A k \in DOMAIN snaps[from].builds[t] :
                    /\ k \in DOMAIN loaded.builds[t]
                    /\ loaded.builds[t][k] = IF snaps[from].builds[t][k] \in DOMAIN snaps[from].alive
                                             THEN snaps[from].builds[t][k] ELSE None

(***************************************************************************)
(* What was planned at the snapshot for later is planned after a restart   *)
(* (LoadBuildSched, LoadDecomSched).                                       *)
(***************************************************************************)
PlansRestored == PendingDecomsKept /\ FutureBuildsKept

(***************************************************************************)
(* sim_init.cc says of an agent that entered at t that it "is scheduled to *)
(* be built already": the builds pending at the snapshot are loaded.       *)
(***************************************************************************)
PendingBuildsKept ==
    Loaded => \A t \in Times : \A k \in DOMAIN snaps[from].builds[t] :
                \E j \in DOMAIN loaded.builds[t] : loaded.builds[t][j] = snaps[from].builds[t][k]

(***************************************************************************)
(* The loop of SimInit::LoadInitialAgents goes round without an end when   *)
(* an agent that is to be loaded entered with a parent that had left by    *)
(* the snapshot, and nobody left can be connected.                         *)
(***************************************************************************)
Outlived == {i \in unbuilt : ParentOf(i) \notin {None} \cup unbuilt \cup DOMAIN agents}

Spins == phase = "connect" /\ Outlived # {} /\ \A i \in unbuilt : ~ Ready(i)

(***************************************************************************)
(* SimInit ends, or its loop over the agents has connected all it can and  *)
(* spins because of an agent that outlived its parent: it never waits for  *)
(* a parent that is still to be connected.                                 *)
(***************************************************************************)
InitEnds ==
    phase = "connect" ~> (phase \in {"loaded", "crashed"} \/ Spins)
=============================================================================
