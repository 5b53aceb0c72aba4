---------------------------- MODULE SimKernelPlan ----------------------------
(***************************************************************************)
(* The kernel implements the plan: queues of pointers and loops over their *)
(* copies amount to what AgentPlan promises.                               *)
(***************************************************************************)
EXTENDS SimKernel
Part == CASE pc = "Load" -> "load"
          [] pc \in {"LoadSched", "Loop", "DoBuild", "EnterNotify", "Build",
                     "BuildNotify"} -> "open"
          [] pc \in {"DoTick", "Tick", "DoResEx", "Trade", "DoTock", "InstTock", "Tock"}
                -> "work"
          [] pc \in {"DoDecom", "DecomNotify", "Decommission"} -> "close"
          [] pc \in {"Finish", "Done"} -> "ended"
          [] pc = "Thrown" -> "failed"

\* The builds of time t still to come.
BuildsLeft(t) ==
    IF t > time \/ (t = time /\ pc \in {"Load", "LoadSched", "Loop", "Finish", "Done"})
    THEN build_queue[t]
    ELSE IF t = time THEN build_list ELSE << >>

BuildKey(e, t) == <<e[1], IdOf(e[2]), t>>

PlannedBuilds ==
    LET keys == UNION {{BuildKey(BuildsLeft(t)[j], t) : j \in 1..Len(BuildsLeft(t))} : t \in Times}
    IN  [k \in keys |-> Cardinality({j \in 1..Len(BuildsLeft(k[3])) :
                                        BuildKey(BuildsLeft(k[3])[j], k[3]) = k})]

PlannedExits ==
    [i \in Ids |->
        LET ts == {t \in Times : t >= time /\ \E a \in agent_list :
                        mem[a].id = i /\ t \in Held(decom_queue, a)}
        IN  IF ts = {} THEN -1 ELSE CHOOSE t \in ts : TRUE]

Plan == INSTANCE AgentPlan WITH
            Id <- Ids, Proto <- Proto, Horizon <- Duration,
            now <- time, part <- Part, used <- 0..(next_id - 1),
            alive <- {mem[a].id : a \in agent_list},
            builds <- PlannedBuilds, exits <- PlannedExits

\* SimKernel's specification implies AgentPlan's.
ImplementsPlan == Plan!PlanSpec
=============================================================================
