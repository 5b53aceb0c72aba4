------------------------------ MODULE AgentPlan ------------------------------
(***************************************************************************)
(* What Context::SchedBuild and Context::SchedDecom promise an agent's     *)
(* author, with no queues, pointers or loops: a build is planned for a     *)
(* prototype, a parent and a later time step and happens exactly once when *)
(* that step opens; an agent has at most one planned exit, the last one    *)
(* asked for, and exits exactly once when that step closes.  Time does not *)
(* advance past anything that is due.                                      *)
(***************************************************************************)
EXTENDS Integers, Bags

CONSTANTS Id,      \* agent ids
          Proto,   \* prototype names
          Horizon  \* number of time steps

VARIABLES now,     \* the current time step
          part,    \* part of the time step
          used,    \* ids given out so far
          alive,   \* ids of the agents in the simulation
          builds,  \* bag of planned builds <<prototype, parent id, time>>
          exits    \* planned exit time of an agent (-1: none)

plan == <<now, part, used, alive, builds, exits>>

Steps == 0..Horizon
Key   == Proto \X (Id \cup {-1}) \X Steps

PlanInit ==
    /\ now = 0 /\ part = "load"
    /\ used = {} /\ alive = {}
    /\ builds = EmptyBag
    /\ exits = [i \in Id |-> -1]

Join(i) == i \in Id \ used /\ used' = used \cup {i} /\ alive' = alive \cup {i}

\* An agent of the input file.
Load ==
    /\ part = "load"
    /\ \E i \in Id : Join(i)
    /\ UNCHANGED <<now, part, builds, exits>>

Start == part = "load" /\ part' = "open" /\ UNCHANGED <<now, used, alive, builds, exits>>

Running == part \in {"open", "work", "close"}

\* A build is added to the plan.
PlanBuild ==
    /\ Running /\ builds' # builds
    /\ \E k \in BagToSet(builds') \cap Key :
        /\ k[2] \in alive \cup {-1} /\ k[3] > now
        /\ builds' = builds (+) SetToBag({k})
    /\ UNCHANGED <<now, part, used, alive, exits>>

\* An exit is added to the plan or moved.
PlanExit ==
    /\ Running /\ exits' # exits
    /\ \E i \in alive, t \in Steps :
        /\ t >= now
        /\ exits' = [exits EXCEPT ![i] = t]
    /\ UNCHANGED <<now, part, used, alive, builds>>

\* The builds due in this time step.
Due == {k \in BagToSet(builds) : k[3] = now}

Enter ==
    /\ part = "open"
    /\ \E i \in Id : Join(i)
    /\ \E k \in Due :
        /\ k[2] \in alive \cup {-1}
        /\ builds' = builds (-) SetToBag({k})
    /\ UNCHANGED <<now, part, exits>>

Work ==
    /\ part = "open" /\ part' = "work"
    /\ Due = {}
    /\ UNCHANGED <<now, used, alive, builds, exits>>

Close == part = "work" /\ part' = "close" /\ UNCHANGED <<now, used, alive, builds, exits>>

Exit ==
    /\ part = "close"
    /\ \E i \in alive :
        /\ exits[i] = now
        /\ alive' = alive \ {i}
        /\ exits' = [exits EXCEPT ![i] = -1]
    /\ UNCHANGED <<now, part, used, builds>>

\* The next time step opens, or the simulation was asked to end.
Advance ==
    /\ part = "close" /\ part' \in {"open", "ended"}
    /\ \A i \in alive : exits[i] # now
    /\ now' = now + 1
    /\ UNCHANGED <<used, alive, builds, exits>>

End ==
    /\ part = "open" /\ now = Horizon /\ part' = "ended"
    /\ UNCHANGED <<now, used, alive, builds, exits>>

\* An exception ends the simulation at any point; nothing else changes.
Fail == Running /\ part' = "failed" /\ UNCHANGED <<now, used, alive, builds, exits>>

PlanNext == \/ Load \/ Start \/ PlanBuild \/ PlanExit \/ Enter \/ Work \/ Close
            \/ Exit \/ Advance \/ End \/ Fail

PlanSpec == PlanInit /\ [][PlanNext]_plan
=============================================================================
