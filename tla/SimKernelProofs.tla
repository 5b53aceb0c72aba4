--------------------------- MODULE SimKernelProofs ---------------------------
(***************************************************************************)
(* Proofs about the kernel for every instance: any agents, prototypes,     *)
(* hierarchy and duration.  Four parts, each resting on the ones before:   *)
(* the heap and the registries; requests; schedules; the refinement of     *)
(* AgentPlan.                                                              *)
(***************************************************************************)
EXTENDS SimKernelPlan, FiniteSetTheorems, SequenceTheorems, WellFoundedInduction, TLAPS

(***************************************************************************)
(* PART 1.  Types, the family tree and the registries.                     *)
(***************************************************************************)

(***************************************************************************)
(* Which actions touch the heap, the registries and the queues.            *)
(***************************************************************************)
HeapFrame     == UNCHANGED heap \/ LoadInitialAgents \/ DoBuild \/ Decommission
                                \/ ChangeCondition
RegistryFrame == UNCHANGED regvars \/ LoadInitialAgents \/ DoBuild \/ Decommission
QueueFrame    == UNCHANGED queues \/ InstTock \/ CallSchedBuild \/ CallSchedDecom

\* Every step is one of these actions or leaves the variables alone.
LEMMA Frames ==
    ASSUME [Next]_vars
    PROVE  HeapFrame /\ RegistryFrame /\ QueueFrame
<1> USE DEF HeapFrame, RegistryFrame, QueueFrame, heap, regvars, queues
<1>1. CASE LoadInitialAgents
  BY <1>1 DEF LoadInitialAgents
<1>2. CASE RunSim
  BY <1>2 DEF RunSim
<1>3. CASE BeginStep
  BY <1>3 DEF BeginStep
<1>4. CASE DoBuild
  BY <1>4 DEF DoBuild, Throw
<1>5. CASE EnterNotifyReturns
  BY <1>5 DEF EnterNotifyReturns
<1>6. CASE BuildReturns
  BY <1>6 DEF BuildReturns
<1>7. CASE BuildsDone
  BY <1>7 DEF BuildsDone
<1>8. CASE DoTick
  BY <1>8 DEF DoTick, Listen
<1>9. CASE TicksDone
  BY <1>9 DEF TicksDone
<1>10. CASE DoResEx
  BY <1>10 DEF DoResEx
<1>11. CASE TradesDone
  BY <1>11 DEF TradesDone
<1>12. CASE DoTock
  BY <1>12 DEF DoTock, Listen
<1>13. CASE InstTock
  BY <1>13 DEF InstTock
<1>14. CASE TocksDone
  BY <1>14 DEF TocksDone
<1>15. CASE DoDecom
  BY <1>15 DEF DoDecom, Throw
<1>16. CASE Decommission
  BY <1>16 DEF Decommission, Throw
<1>17. CASE EndStep
  BY <1>17 DEF EndStep
<1>18. CASE FinishSim
  BY <1>18 DEF FinishSim
<1>19. CASE CallbackReturns
  BY <1>19 DEF CallbackReturns
<1>20. CASE CallSchedBuild
  BY <1>20 DEF CallSchedBuild, SchedBuild, Throw
<1>21. CASE CallSchedDecom
  BY <1>21 DEF CallSchedDecom, SchedDecom, Throw
<1>22. CASE CallSnapshot
  BY <1>22 DEF CallSnapshot
<1>23. CASE CallKillSim
  BY <1>23 DEF CallKillSim
<1>24. CASE ChangeCondition
  BY <1>24 DEF ChangeCondition
<1>25. CASE UNCHANGED vars
  BY <1>25 DEF vars
<1> QED
  BY <1>1, <1>2, <1>3, <1>4, <1>5, <1>6, <1>7, <1>8, <1>9, <1>10, <1>11, <1>12, <1>13, <1>14, <1>15, <1>16, <1>17, <1>18, <1>19, <1>20, <1>21, <1>22, <1>23, <1>24, <1>25
     DEF Next, Kernel, AgentCall, Stopped

\* The initial state is well typed.
LEMMA InitTypeOK == Init => TypeOK
<1> SUFFICES ASSUME Init PROVE TypeOK
  OBVIOUS
<1> USE ConstantsAssumption DEF Init
<1>1. ControlTypes
  BY DEF ControlTypes, Times, Ids, Ptr, Callbacks
<1>2. HeapTypes
  <2>1. Blank \in AgentRec
    BY DEF Blank, AgentRec, Ids, Times, Ptr
  <2> QED
    BY <2>1 DEF HeapTypes
<1>3. RegistryTypes
  BY DEF RegistryTypes
<1>4. QueueTypes
  BY DEF QueueTypes
<1>5. OutputTypes
  BY DEF OutputTypes
<1>6. FlagTypes
  BY Zenon DEF FlagTypes
<1> QED
  BY <1>1, <1>2, <1>3, <1>4, <1>5, <1>6 DEF TypeOK

(***************************************************************************)
(* An agent entering the simulation, whether loaded or built, keeps the    *)
(* heap well formed, the registries exact and the family a tree.           *)
(***************************************************************************)
LEMMA WithChildren ==
    ASSUME NEW r \in AgentRec, NEW C \in SUBSET Addr, NEW u, u = [r EXCEPT !.children = C]
    PROVE  /\ u \in AgentRec /\ u.children = C
           /\ u.id = r.id /\ u.proto = r.proto /\ u.parent = r.parent
           /\ u.parent_id = r.parent_id /\ u.enter_time = r.enter_time
  BY DEF AgentRec

\* Clearing an orphan's parent changes no other field (~Agent).
LEMMA WithoutParent ==
    ASSUME NEW r \in AgentRec, NEW u, u = [r EXCEPT !.parent = NULL, !.parent_id = -1]
    PROVE  /\ u \in AgentRec /\ u.parent = NULL /\ u.parent_id = -1
           /\ u.id = r.id /\ u.proto = r.proto /\ u.children = r.children
           /\ u.enter_time = r.enter_time
  BY DEF AgentRec, Ptr

HeapInv == HeapTypes /\ RegistryTypes /\ IdsBelowNext /\ Registered /\ FamilyTree

\* What Agent::Connect writes: the new agent, and one child more at its parent.
Joined(a, p, par) ==
    /\ mem'[a].id = next_id /\ mem'[a].proto = p /\ mem'[a].parent = par
    /\ mem'[a].parent_id = IdOf(par) /\ mem'[a].children = {}
    /\ mem'[a].enter_time = time
    /\ \A b \in agent_list :
        /\ mem'[b].id = mem[b].id
        /\ mem'[b].proto = mem[b].proto
        /\ mem'[b].parent = mem[b].parent
        /\ mem'[b].parent_id = mem[b].parent_id
        /\ mem'[b].enter_time = mem[b].enter_time
        /\ b # par => mem'[b].children = mem[b].children
        /\ b = par => mem'[b].children = mem[b].children \cup {a}

\* Agent::Build enters one agent and links it to its parent.
LEMMA EnterEffect ==
    ASSUME HeapTypes, time \in Times,
           NEW a \in Addr \ agent_list, NEW p \in Proto,
           NEW par \in agent_list \cup {NULL}, Enter(a, p, par)
    PROVE  mem' \in [Addr -> AgentRec] /\ Joined(a, p, par)
<1> USE ConstantsAssumption
<1> DEFINE born == [id |-> next_id, proto |-> p, parent |-> par,
                    parent_id |-> IdOf(par), children |-> {}, enter_time |-> time]
<1>1. /\ agent_list \subseteq Addr /\ mem \in [Addr -> AgentRec]
      /\ next_id \in 0..MaxId /\ next_id < MaxId /\ MaxId \in Nat
      /\ agent_list' = agent_list \cup {a} /\ next_id' = next_id + 1
      /\ NULL \notin Addr
  BY DEF HeapTypes, Enter
<1>2. born \in AgentRec
  BY <1>1 DEF IdOf, AgentRec, Ids, Ptr
<1>3. /\ mem' \in [Addr -> AgentRec]
      /\ mem'[a] = born
      /\ \A b \in agent_list : b # par => mem'[b] = mem[b]
      /\ par # NULL => mem'[par] = [mem[par] EXCEPT !.children = mem[par].children \cup {a}]
  <2>1. \A b \in Addr : [mem[b] EXCEPT !.children = mem[b].children \cup {a}] \in AgentRec
    <3> TAKE b \in Addr
    <3>1. mem[b] \in AgentRec /\ mem[b].children \cup {a} \in SUBSET Addr
      BY <1>1 DEF AgentRec
    <3> QED
      BY <3>1, WithChildren
  <2>2. mem' = [b \in Addr |-> IF b = a THEN born
                  ELSE IF b = par THEN [mem[b] EXCEPT !.children = mem[b].children \cup {a}]
                  ELSE mem[b]]
    BY DEF Enter, Connect
  <2> HIDE DEF born
  <2> QED
    BY <1>1, <1>2, <2>1, <2>2
<1> HIDE DEF born
<1>4. \A b \in agent_list : /\ mem'[b].id = mem[b].id
                            /\ mem'[b].proto = mem[b].proto
                            /\ mem'[b].parent = mem[b].parent
                            /\ mem'[b].parent_id = mem[b].parent_id
                            /\ mem'[b].enter_time = mem[b].enter_time
                            /\ b # par => mem'[b].children = mem[b].children
                            /\ b = par => mem'[b].children = mem[b].children \cup {a}
  <2> TAKE b \in agent_list
  <2>1. CASE b = par
    <3>1. mem[b] \in AgentRec /\ mem[b].children \cup {a} \in SUBSET Addr
      BY <1>1 DEF AgentRec
    <3>2. mem'[b] = [mem[b] EXCEPT !.children = mem[b].children \cup {a}]
      BY <1>1, <1>3, <2>1
    <3> QED
      BY <2>1, <3>1, <3>2, WithChildren
  <2>2. CASE b # par
    BY <1>3, <2>2
  <2> QED
    BY <2>1, <2>2
<1>5. /\ mem'[a].id = next_id /\ mem'[a].proto = p /\ mem'[a].parent = par
      /\ mem'[a].parent_id = IdOf(par) /\ mem'[a].children = {}
      /\ mem'[a].enter_time = time
  BY <1>3 DEF born
<1> QED
  BY <1>3, <1>4, <1>5 DEF Joined

\* Entering an agent keeps HeapInv.
LEMMA EnterKeepsHeap ==
    ASSUME HeapInv, time \in Times,
           NEW a \in Addr \ agent_list, NEW p \in Proto,
           NEW par \in agent_list \cup {NULL}, Enter(a, p, par)
    PROVE  HeapInv'
<1> USE ConstantsAssumption
<1>1. /\ agent_list \subseteq Addr /\ mem \in [Addr -> AgentRec]
      /\ next_id \in 0..MaxId /\ next_id < MaxId /\ MaxId \in Nat
      /\ agent_list' = agent_list \cup {a} /\ next_id' = next_id + 1
      /\ NULL \notin Addr
  BY DEF HeapInv, HeapTypes, Enter
<1>2. mem' \in [Addr -> AgentRec] /\ Joined(a, p, par)
  BY EnterEffect DEF HeapInv
<1>3. mem' \in [Addr -> AgentRec]
  BY <1>2
<1>4. \A b \in agent_list : /\ mem'[b].id = mem[b].id
                            /\ mem'[b].proto = mem[b].proto
                            /\ mem'[b].parent = mem[b].parent
                            /\ mem'[b].parent_id = mem[b].parent_id
                            /\ b # par => mem'[b].children = mem[b].children
                            /\ b = par => mem'[b].children = mem[b].children \cup {a}
  BY <1>2, Zenon DEF Joined
<1>5. /\ mem'[a].id = next_id /\ mem'[a].proto = p /\ mem'[a].parent = par
      /\ mem'[a].parent_id = IdOf(par) /\ mem'[a].children = {}
  BY <1>2 DEF Joined
<1>6. HeapTypes'
  BY <1>1, <1>3 DEF HeapInv, HeapTypes, Enter
<1>7. RegistryTypes'
  BY <1>1 DEF HeapInv, RegistryTypes, Enter, EnterNotify, Register, Ids
<1>8. IdsBelowNext'
  BY <1>1, <1>4, <1>5 DEF HeapInv, IdsBelowNext, AgentRec, Ids
<1>9. Registered'
  <2>1. \A b \in agent_list : mem[b].id # next_id
    BY <1>1 DEF HeapInv, IdsBelowNext, AgentRec, Ids
  <2>2. tickers' = {l \in tickers : l[1] # next_id} \cup {<<next_id, a>>}
    BY DEF Enter, EnterNotify, Register
  <2>3. \A l \in tickers' : l[2] \in agent_list' /\ l[1] = mem'[l[2]].id
    <3> TAKE l \in tickers'
    <3>1. CASE l = <<next_id, a>>
      BY <1>1, <1>5, <3>1
    <3>2. CASE l \in tickers
      <4>1. l[2] \in agent_list /\ l[1] = mem[l[2]].id
        BY <3>2 DEF HeapInv, Registered
      <4> QED
        BY <1>1, <1>4, <4>1
    <3> QED
      BY <2>2, <3>1, <3>2
  <2>4. \A b \in agent_list' : <<mem'[b].id, b>> \in tickers'
    BY <1>1, <1>4, <1>5, <2>1, <2>2 DEF HeapInv, Registered
  <2>5. \A b \in Addr : b \in traders' <=> b \in agent_list' /\ KindOf(b)'= "Facility"
    BY <1>1, <1>4, <1>5 DEF HeapInv, Registered, Enter, EnterNotify, KindOf
  <2>6. \A b, c \in agent_list' : mem'[b].id = mem'[c].id => b = c
    BY <1>1, <1>4, <1>5, <2>1 DEF HeapInv, Registered
  <2> QED
    BY <2>3, <2>4, <2>5, <2>6 DEF Registered
<1>10. FamilyTree'
  <2> SUFFICES ASSUME NEW b \in agent_list'
               PROVE  /\ mem'[b].parent # NULL =>
                           /\ mem'[b].parent \in agent_list'
                           /\ b \in mem'[mem'[b].parent].children
                           /\ mem'[mem'[b].parent].id < mem'[b].id
                           /\ mem'[b].parent_id = mem'[mem'[b].parent].id
                      /\ \A c \in mem'[b].children : c \in agent_list' /\ mem'[c].parent = b
    BY DEF FamilyTree
  <2>1. CASE b = a
    BY <1>1, <1>4, <1>5, <2>1 DEF HeapInv, IdsBelowNext, IdOf
  <2>2. CASE b # a
    <3>1. b \in agent_list
      BY <1>1, <2>2
    <3>2. /\ mem[b].parent # NULL =>
                           /\ mem[b].parent \in agent_list
                           /\ b \in mem[mem[b].parent].children
                           /\ mem[mem[b].parent].id < mem[b].id
                           /\ mem[b].parent_id = mem[mem[b].parent].id
          /\ \A c \in mem[b].children : c \in agent_list /\ mem[c].parent = b
      BY <3>1 DEF HeapInv, FamilyTree
    <3> QED
      BY <1>1, <1>4, <1>5, <3>1, <3>2
  <2> QED
    BY <2>1, <2>2
<1> QED
  BY <1>6, <1>7, <1>8, <1>9, <1>10 DEF HeapInv

(***************************************************************************)
(* So does an agent leaving it: no pointer to it is left in the family     *)
(* tree or in the registries.                                              *)
(***************************************************************************)
\* What ~Agent writes: its children lose their parent, its parent a child.
Left(m) ==
    \A b \in Addr :
        /\ mem'[b] \in AgentRec
        /\ mem'[b].id = mem[b].id /\ mem'[b].proto = mem[b].proto
        /\ mem'[b].enter_time = mem[b].enter_time
        /\ IF b \in mem[m].children
           THEN mem'[b].parent = NULL /\ mem'[b].children = mem[b].children
           ELSE /\ mem'[b].parent = mem[b].parent /\ mem'[b].parent_id = mem[b].parent_id
                /\ mem'[b].children = IF b = mem[m].parent
                                      THEN mem[b].children \ {m} ELSE mem[b].children

\* Agent::Decommission removes one agent and its links.
LEMMA DecommissionEffect ==
    ASSUME HeapTypes, subj \in agent_list, subj \notin blocked, Decommission
    PROVE  agent_list' = agent_list \ {subj} /\ mem' \in [Addr -> AgentRec] /\ Left(subj)
<1> USE ConstantsAssumption
<1>1. /\ agent_list \subseteq Addr /\ mem \in [Addr -> AgentRec]
      /\ agent_list' = agent_list \ {subj} /\ next_id' = next_id /\ blocked' = blocked
      /\ tickers' = {l \in tickers : l[1] # mem[subj].id} /\ traders' = traders \ {subj}
      /\ NULL \notin Addr /\ mem[subj] \in AgentRec
  BY DEF HeapTypes, Decommission, Unregister
<1>2. mem' = [b \in Addr |->
               IF b \in mem[subj].children
               THEN [mem[b] EXCEPT !.parent = NULL, !.parent_id = -1]
               ELSE IF b = mem[subj].parent
               THEN [mem[b] EXCEPT !.children = mem[b].children \ {subj}]
               ELSE mem[b]]
  BY DEF Decommission, Destroy
<1>3. \A b \in Addr :
        /\ mem'[b] \in AgentRec
        /\ mem'[b].id = mem[b].id /\ mem'[b].proto = mem[b].proto
        /\ mem'[b].enter_time = mem[b].enter_time
        /\ IF b \in mem[subj].children
           THEN mem'[b].parent = NULL /\ mem'[b].children = mem[b].children
           ELSE /\ mem'[b].parent = mem[b].parent /\ mem'[b].parent_id = mem[b].parent_id
                /\ mem'[b].children = IF b = mem[subj].parent
                                      THEN mem[b].children \ {subj} ELSE mem[b].children
  <2> TAKE b \in Addr
  <2>1. mem[b] \in AgentRec /\ mem[b].children \ {subj} \in SUBSET Addr
    BY <1>1 DEF AgentRec
  <2>2. CASE b \in mem[subj].children
    <3>1. mem'[b] = [mem[b] EXCEPT !.parent = NULL, !.parent_id = -1]
      BY <1>2, <2>2
    <3>2. /\ mem'[b] \in AgentRec /\ mem'[b].parent = NULL
          /\ mem'[b].id = mem[b].id /\ mem'[b].proto = mem[b].proto
          /\ mem'[b].children = mem[b].children /\ mem'[b].enter_time = mem[b].enter_time
      <4> DEFINE r == mem[b]
                 u == mem'[b]
      <4>1. r \in AgentRec /\ u = [r EXCEPT !.parent = NULL, !.parent_id = -1]
        BY <2>1, <3>1
      <4> HIDE DEF r, u
      <4>2. /\ u \in AgentRec /\ u.parent = NULL /\ u.id = r.id /\ u.proto = r.proto
            /\ u.children = r.children /\ u.enter_time = r.enter_time
        BY <4>1, WithoutParent
      <4> QED
        BY <4>2 DEF r, u
    <3> QED
      BY <2>2, <3>2
  <2>3. CASE b \notin mem[subj].children /\ b = mem[subj].parent
    <3>1. mem'[b] = [mem[b] EXCEPT !.children = mem[b].children \ {subj}]
      BY <1>2, <2>3
    <3>2. /\ mem'[b] \in AgentRec /\ mem'[b].id = mem[b].id
          /\ mem'[b].proto = mem[b].proto /\ mem'[b].parent = mem[b].parent
          /\ mem'[b].parent_id = mem[b].parent_id
          /\ mem'[b].enter_time = mem[b].enter_time
          /\ mem'[b].children = mem[b].children \ {subj}
      <4>1. mem[b].children \ {subj} \in SUBSET Addr
        BY <2>1
      <4>2. [mem[b] EXCEPT !.children = mem[b].children \ {subj}] \in AgentRec
        BY <2>1, <4>1, WithChildren
      <4> QED
        BY <2>1, <3>1, <4>2 DEF AgentRec
    <3> QED
      BY <2>3, <3>2
  <2>4. CASE b \notin mem[subj].children /\ b # mem[subj].parent
    BY <1>2, <2>1, <2>4
  <2> QED
    BY <2>2, <2>3, <2>4
<1>4. mem' \in [Addr -> AgentRec]
  BY <1>2, <1>3
<1> QED
  BY <1>1, <1>3, <1>4 DEF Left

\* Decommissioning an agent keeps HeapInv.
LEMMA DecommissionKeepsHeap ==
    ASSUME HeapInv, subj \in agent_list, subj \notin blocked, Decommission
    PROVE  HeapInv' /\ agent_list' = agent_list \ {subj}
<1> USE ConstantsAssumption
<1>1. /\ agent_list \subseteq Addr /\ mem \in [Addr -> AgentRec]
      /\ agent_list' = agent_list \ {subj} /\ next_id' = next_id /\ blocked' = blocked
      /\ tickers' = {l \in tickers : l[1] # mem[subj].id} /\ traders' = traders \ {subj}
      /\ NULL \notin Addr /\ mem[subj] \in AgentRec
  BY DEF HeapInv, HeapTypes, Decommission, Unregister
<1>2. mem' \in [Addr -> AgentRec] /\ Left(subj)
  BY DecommissionEffect DEF HeapInv
<1>3. \A b \in Addr :
        /\ mem'[b] \in AgentRec
        /\ mem'[b].id = mem[b].id /\ mem'[b].proto = mem[b].proto
        /\ IF b \in mem[subj].children
           THEN mem'[b].parent = NULL /\ mem'[b].children = mem[b].children
           ELSE /\ mem'[b].parent = mem[b].parent /\ mem'[b].parent_id = mem[b].parent_id
                /\ mem'[b].children = IF b = mem[subj].parent
                                      THEN mem[b].children \ {subj} ELSE mem[b].children
  BY <1>2 DEF Left
<1>4. HeapTypes'
  BY <1>1, <1>2 DEF HeapInv, HeapTypes
<1>5. RegistryTypes'
  <2>1. mem[subj].proto \in Proto
    BY <1>1 DEF AgentRec
  <2> QED
    BY <1>1, <2>1 DEF HeapInv, RegistryTypes, Decommission, UnregisterAgent
<1>6. IdsBelowNext'
  BY <1>1, <1>3 DEF HeapInv, IdsBelowNext
<1>7. Registered'
  <2>1. \A l \in tickers' : l[2] \in agent_list' /\ l[1] = mem'[l[2]].id
    <3> TAKE l \in tickers'
    <3>1. l[2] \in agent_list /\ l[1] = mem[l[2]].id
      BY <1>1 DEF HeapInv, Registered
    <3>2. l[2] # subj
      BY <1>1, <3>1
    <3> QED
      BY <1>1, <1>3, <3>1, <3>2
  <2>2. \A b \in agent_list' : <<mem'[b].id, b>> \in tickers'
    <3> TAKE b \in agent_list'
    <3>1. /\ b \in agent_list /\ b # subj /\ mem'[b].id = mem[b].id
          /\ <<mem[b].id, b>> \in tickers /\ mem[b].id # mem[subj].id
      BY <1>1, <1>3 DEF HeapInv, Registered
    <3> QED
      BY <1>1, <3>1
  <2>3. \A b \in Addr : b \in traders' <=> b \in agent_list' /\ KindOf(b)' = "Facility"
    BY <1>1, <1>3 DEF HeapInv, Registered, KindOf
  <2>4. \A b, c \in agent_list' : mem'[b].id = mem'[c].id => b = c
    <3>1. \A b, c \in agent_list : mem[b].id = mem[c].id => b = c
      BY DEF HeapInv, Registered
    <3>2. \A b \in agent_list' : b \in agent_list /\ mem'[b].id = mem[b].id
      BY <1>1, <1>3
    <3> QED
      BY <3>1, <3>2
  <2> QED
    BY <2>1, <2>2, <2>3, <2>4 DEF Registered
<1>8. FamilyTree'
  <2>1. \A b \in agent_list :
          /\ mem[b].parent # NULL =>
                 /\ mem[b].parent \in agent_list
                 /\ b \in mem[mem[b].parent].children
                 /\ mem[mem[b].parent].id < mem[b].id
                 /\ mem[b].parent_id = mem[mem[b].parent].id
          /\ \A c \in mem[b].children : c \in agent_list /\ mem[c].parent = b
    BY DEF HeapInv, FamilyTree
  <2>2. \A b \in Addr : mem[b].id \in Int
    BY <1>1 DEF AgentRec, Ids
  <2> SUFFICES ASSUME NEW b \in agent_list'
               PROVE  /\ mem'[b].parent # NULL =>
                           /\ mem'[b].parent \in agent_list'
                           /\ b \in mem'[mem'[b].parent].children
                           /\ mem'[mem'[b].parent].id < mem'[b].id
                           /\ mem'[b].parent_id = mem'[mem'[b].parent].id
                      /\ \A c \in mem'[b].children : c \in agent_list' /\ mem'[c].parent = b
    BY DEF FamilyTree
  <2>3. b \in agent_list /\ b # subj /\ b \in Addr
    BY <1>1
  <2>4. ASSUME mem'[b].parent # NULL
        PROVE  /\ mem'[b].parent \in agent_list'
               /\ b \in mem'[mem'[b].parent].children
               /\ mem'[mem'[b].parent].id < mem'[b].id
               /\ mem'[b].parent_id = mem'[mem'[b].parent].id
    <3>1. b \notin mem[subj].children /\ mem'[b].parent = mem[b].parent
          /\ mem'[b].parent_id = mem[b].parent_id
      BY <1>3, <2>3, <2>4
    <3>2. mem[b].parent \in agent_list /\ mem[b].parent # subj
          /\ b \in mem[mem[b].parent].children
          /\ mem[mem[b].parent].id < mem[b].id
          /\ mem[b].parent_id = mem[mem[b].parent].id
      BY <2>1, <2>3, <2>4, <3>1
    <3> DEFINE q == mem[b].parent
    <3>3. q \in Addr /\ q \in agent_list' /\ mem'[q].id = mem[q].id /\ mem'[b].id = mem[b].id
      BY <1>1, <1>3, <2>3, <3>2
    <3>4. b \in mem'[q].children
      <4>1. mem'[q].children = mem[q].children \/ mem'[q].children = mem[q].children \ {subj}
        BY <1>3, <3>3
      <4> QED
        BY <2>3, <3>2, <4>1
    <3> QED
      BY <3>1, <3>2, <3>3, <3>4
  <2>5. ASSUME NEW c \in mem'[b].children
        PROVE  c \in agent_list' /\ mem'[c].parent = b
    <3>1. c \in mem[b].children
      BY <1>3, <2>3
    <3>2. c \in agent_list /\ mem[c].parent = b
      BY <2>1, <2>3, <3>1
    <3>3. c \notin mem[subj].children
      BY <2>1, <2>3, <3>2
    <3>4. c # subj
      <4> SUFFICES ASSUME c = subj PROVE FALSE
        OBVIOUS
      <4>1. b = mem[subj].parent /\ b \notin mem[subj].children
        BY <1>1, <2>1, <2>2, <2>3, <3>2
      <4> QED
        BY <1>3, <2>3, <4>1
    <3> QED
      BY <1>1, <1>3, <3>2, <3>3, <3>4
  <2> QED
    BY <2>4, <2>5
<1> QED
  BY <1>1, <1>4, <1>5, <1>6, <1>7, <1>8 DEF HeapInv

-----------------------------------------------------------------------------
(***************************************************************************)
(* The decommission queue.  A nonempty set of naturals has a least element,*)
(* so SchedDecom's search for the first entry of an agent is well defined. *)
(***************************************************************************)
LEMMA LeastNatural ==
    ASSUME NEW T \in SUBSET Nat, T # {}
    PROVE  \E x \in T : \A y \in T : x <= y
<1>1. IsWellFoundedOn(OpToRel(<, Nat), Nat)
  BY NatLessThanWellFounded
<1>2. PICK x \in T : \A y \in T : ~ (<<y, x>> \in OpToRel(<, Nat))
  BY <1>1, WFMin
<1>3. \A y \in T : ~ (y < x)
  BY <1>2 DEF OpToRel
<1> QED
  BY <1>3

\* Erasing the first entry of m removes one entry of m and shifts the rest.
LEMMA EraseFirstRemoves ==
    ASSUME NEW s \in Seq(Addr), NEW m, \E i \in 1..Len(s) : s[i] = m
    PROVE  /\ EraseFirst(s, m) \in Seq(Addr)
           /\ Len(EraseFirst(s, m)) = Len(s) - 1
           /\ \E k \in 1..Len(s) :
                /\ s[k] = m
                /\ \A j \in 1..(Len(s) - 1) :
                      EraseFirst(s, m)[j] = IF j < k THEN s[j] ELSE s[j + 1]
<1> DEFINE T == {i \in 1..Len(s) : s[i] = m}
           First(i) == i \in 1..Len(s) /\ s[i] = m /\ \A j \in 1..(i - 1) : s[j] # m
           k == CHOOSE i \in 1..Len(s) : s[i] = m /\ \A j \in 1..(i - 1) : s[j] # m
<1>1. Len(s) \in Nat
  OBVIOUS
<1>2. PICK x \in T : \A y \in T : x <= y
  <2>1. T \in SUBSET Nat /\ T # {}
    BY <1>1
  <2> HIDE DEF T
  <2> QED
    BY <2>1, LeastNatural
<1>3. First(x)
  BY <1>1, <1>2
<1>4. First(k)
  BY <1>3
<1> HIDE DEF k
<1>5. k \in 1..Len(s) /\ s[k] = m
  BY <1>4
<1>6. EraseFirst(s, m) = SubSeq(s, 1, k - 1) \o SubSeq(s, k + 1, Len(s))
  BY DEF EraseFirst, k
<1>7. /\ SubSeq(s, 1, k - 1) \in Seq(Addr) /\ Len(SubSeq(s, 1, k - 1)) = k - 1
      /\ \A j \in 1..(k - 1) : SubSeq(s, 1, k - 1)[j] = s[j]
  BY <1>1, <1>5
<1>8. /\ SubSeq(s, k + 1, Len(s)) \in Seq(Addr)
      /\ Len(SubSeq(s, k + 1, Len(s))) = Len(s) - k
      /\ \A j \in 1..(Len(s) - k) : SubSeq(s, k + 1, Len(s))[j] = s[k + j]
  BY <1>1, <1>5
<1>9. /\ EraseFirst(s, m) \in Seq(Addr) /\ Len(EraseFirst(s, m)) = Len(s) - 1
      /\ \A j \in 1..(Len(s) - 1) :
              EraseFirst(s, m)[j] = IF j < k THEN s[j] ELSE s[j + 1]
  <2> DEFINE A == SubSeq(s, 1, k - 1)
             B == SubSeq(s, k + 1, Len(s))
             e == EraseFirst(s, m)
  <2>1. /\ A \in Seq(Addr) /\ Len(A) = k - 1 /\ \A j \in 1..(k - 1) : A[j] = s[j]
        /\ B \in Seq(Addr) /\ Len(B) = Len(s) - k
        /\ \A j \in 1..(Len(s) - k) : B[j] = s[k + j]
        /\ e = A \o B
    BY <1>6, <1>7, <1>8
  <2> HIDE DEF A, B, e
  <2>2. e \in Seq(Addr) /\ Len(e) = Len(A) + Len(B)
    BY <2>1, ConcatProperties
  <2>3. \A j \in 1..(Len(s) - 1) : e[j] = IF j < k THEN s[j] ELSE s[j + 1]
    <3> TAKE j \in 1..(Len(s) - 1)
    <3>1. CASE j < k
      BY <1>1, <1>5, <2>1, <3>1
    <3>2. CASE ~(j < k)
      <4>1. e[j] = B[j - (k - 1)]
        BY <1>1, <1>5, <2>1, <3>2
      <4>2. B[j - (k - 1)] = s[k + (j - (k - 1))]
        BY <1>1, <1>5, <2>1, <3>2
      <4>3. k + (j - (k - 1)) = j + 1
        BY <1>1, <1>5
      <4> QED
        BY <3>2, <4>1, <4>2, <4>3
    <3> QED
      BY <3>1, <3>2
  <2>4. Len(e) = Len(s) - 1
    BY <1>1, <1>5, <2>1, <2>2
  <2> QED
    BY ONLY <2>2, <2>3, <2>4, Zenon DEF e
<1> QED
  BY <1>5, <1>9

Queues == [Times -> Seq(Addr)]
Once(q) == \A t, u \in Times : \A i \in 1..Len(q[t]), j \in 1..Len(q[u]) :
               q[t][i] = q[u][j] => t = u /\ i = j
Absent(q, m) == \A t \in Times : \A i \in 1..Len(q[t]) : q[t][i] # m
\* Every entry of r stands in q at the same time.
Within(r, q) == \A t \in Times : \A i \in 1..Len(r[t]) :
                    \E j \in 1..Len(q[t]) : r[t][i] = q[t][j]

\* SchedDecom's loop over the queue drops every entry of m and adds none.
LEMMA UnscheduleRemoves ==
    ASSUME NEW q \in Queues, Once(q), NEW m \in Addr
    PROVE  /\ Unschedule(q, m) \in Queues /\ Once(Unschedule(q, m))
           /\ Absent(Unschedule(q, m), m) /\ Within(Unschedule(q, m), q)
<1> USE ConstantsAssumption
<1> DEFINE r == Unschedule(q, m)
<1>1. CASE Held(q, m) = {}
  <2>1. r = q
    BY <1>1 DEF Unschedule
  <2>2. Absent(q, m) /\ Within(q, q)
    BY <1>1 DEF Held, Absent, Within
  <2> QED
    BY <2>1, <2>2
<1>2. CASE Held(q, m) # {}
  <2> DEFINE f == CHOOSE t \in Held(q, m) : \A u \in Held(q, m) : t <= u
  <2>1. f \in Times /\ \E k \in 1..Len(q[f]) : q[f][k] = m
    <3>1. Held(q, m) \in SUBSET Nat
      BY DEF Held, Times
    <3>2. f \in Held(q, m)
      BY <1>2, <3>1, LeastNatural
    <3> QED
      BY <3>2 DEF Held
  <2>2. r = [q EXCEPT ![f] = EraseFirst(q[f], m)]
    BY <1>2 DEF Unschedule
  <2> HIDE DEF f, r
  <2>3. q[f] \in Seq(Addr) /\ \A t \in Times : q[t] \in Seq(Addr) /\ Len(q[t]) \in Nat
    BY <2>1 DEF Queues
  <2>4. /\ EraseFirst(q[f], m) \in Seq(Addr)
        /\ Len(EraseFirst(q[f], m)) = Len(q[f]) - 1
        /\ \E k \in 1..Len(q[f]) :
              /\ q[f][k] = m
              /\ \A j \in 1..(Len(q[f]) - 1) :
                   EraseFirst(q[f], m)[j] = IF j < k THEN q[f][j] ELSE q[f][j + 1]
    BY <2>1, <2>3, EraseFirstRemoves
  <2>5. PICK k \in 1..Len(q[f]) :
              /\ q[f][k] = m
              /\ \A j \in 1..(Len(q[f]) - 1) :
                   EraseFirst(q[f], m)[j] = IF j < k THEN q[f][j] ELSE q[f][j + 1]
    BY <2>4
  <2> DEFINE g(t, i) == IF t = f /\ i >= k THEN i + 1 ELSE i
  <2>6. r \in Queues
    BY <2>2, <2>4 DEF Queues
  <2>7. \A t \in Times : \A i \in 1..Len(r[t]) :
             /\ g(t, i) \in 1..Len(q[t]) /\ r[t][i] = q[t][g(t, i)]
             /\ i \in Nat /\ (t = f => g(t, i) # k)
    <3> TAKE t \in Times
    <3> TAKE i \in 1..Len(r[t])
    <3>1. CASE t = f
      <4>1. r[t] = EraseFirst(q[f], m)
        BY <2>1, <2>2, <3>1 DEF Queues
      <4>2. i \in 1..(Len(q[f]) - 1)
        BY <2>4, <4>1
      <4> QED
        BY <2>3, <2>5, <3>1, <4>1, <4>2
    <3>2. CASE t # f
      BY <2>2, <2>3, <3>2 DEF Queues
    <3> QED
      BY <3>1, <3>2
  <2>8. Absent(r, m)
    <3> SUFFICES ASSUME NEW t \in Times, NEW i \in 1..Len(r[t]), r[t][i] = m
                 PROVE  FALSE
      BY DEF Absent
    <3>1. q[t][g(t, i)] = q[f][k] /\ g(t, i) \in 1..Len(q[t]) /\ (t = f => g(t, i) # k)
      BY <2>5, <2>7
    <3> HIDE DEF g
    <3> QED
      BY <2>1, <2>5, <3>1 DEF Once
  <2>9. Once(r)
    <3> SUFFICES ASSUME NEW t \in Times, NEW u \in Times, NEW i \in 1..Len(r[t]),
                        NEW j \in 1..Len(r[u]), r[t][i] = r[u][j]
                 PROVE  t = u /\ i = j
      BY DEF Once
    <3>1. /\ q[t][g(t, i)] = q[u][g(u, j)] /\ i \in Nat /\ j \in Nat
          /\ g(t, i) \in 1..Len(q[t]) /\ g(u, j) \in 1..Len(q[u])
      BY <2>7
    <3>2. t = u /\ g(t, i) = g(u, j)
      <4>1. \A x \in 1..Len(q[t]), y \in 1..Len(q[u]) : q[t][x] = q[u][y] => t = u /\ x = y
        BY DEF Once
      <4> QED
        BY ONLY <3>1, <4>1
    <3> QED
      BY <2>3, <2>5, <3>1, <3>2
  <2>10. Within(r, q)
    BY <2>7 DEF Within
  <2> QED
    BY <2>6, <2>8, <2>9, <2>10 DEF r
<1> QED
  BY <1>1, <1>2

\* SchedDecom leaves a well-typed queue.
LEMMA RequeueTyped ==
    ASSUME NEW q \in Queues, NEW m \in Addr, NEW t \in Times
    PROVE  Requeue(q, m, t) \in Queues
<1> USE ConstantsAssumption
<1> DEFINE r == Unschedule(q, m)
<1>1. r \in Queues
  <2>1. CASE Held(q, m) = {}
    BY <2>1 DEF Unschedule
  <2>2. CASE Held(q, m) # {}
    <3> DEFINE f == CHOOSE u \in Held(q, m) : \A v \in Held(q, m) : u <= v
    <3>1. Held(q, m) \in SUBSET Nat
      BY DEF Held, Times
    <3>2. f \in Held(q, m)
      BY <2>2, <3>1, LeastNatural
    <3>3. r = [q EXCEPT ![f] = EraseFirst(q[f], m)]
      BY <2>2 DEF Unschedule
    <3> HIDE DEF f, r
    <3>4. f \in Times /\ q[f] \in Seq(Addr) /\ \E i \in 1..Len(q[f]) : q[f][i] = m
      BY <3>2 DEF Held, Queues
    <3>5. EraseFirst(q[f], m) \in Seq(Addr)
      BY <3>4, EraseFirstRemoves
    <3> QED
      BY <3>3, <3>5 DEF Queues
  <2> QED
    BY <2>1, <2>2
<1>2. Requeue(q, m, t) = [r EXCEPT ![t] = Append(r[t], m)]
  BY DEF Requeue
<1> HIDE DEF r
<1>3. Append(r[t], m) \in Seq(Addr)
  BY <1>1 DEF Queues
<1> QED
  BY <1>1, <1>2, <1>3 DEF Queues

\* SchedDecom leaves every agent at most once in the queue.
LEMMA RequeueKeepsOnce ==
    ASSUME NEW q \in Queues, Once(q), NEW m \in Addr, NEW t \in Times
    PROVE  /\ Requeue(q, m, t) \in Queues /\ Once(Requeue(q, m, t))
           /\ \A u \in Times : \A i \in 1..Len(Requeue(q, m, t)[u]) :
                 \/ Requeue(q, m, t)[u][i] = m /\ u = t
                 \/ /\ Requeue(q, m, t)[u][i] # m
                    /\ \E j \in 1..Len(q[u]) : Requeue(q, m, t)[u][i] = q[u][j]
<1> DEFINE r == Unschedule(q, m)
           n == Requeue(q, m, t)
<1>1. r \in Queues /\ Once(r) /\ Absent(r, m) /\ Within(r, q)
  BY UnscheduleRemoves
<1>2. n = [r EXCEPT ![t] = Append(r[t], m)]
  BY DEF Requeue
<1> HIDE DEF r, n
<1>3. /\ \A u \in Times : r[u] \in Seq(Addr) /\ Len(r[u]) \in Nat
      /\ Append(r[t], m) \in Seq(Addr) /\ Len(Append(r[t], m)) = Len(r[t]) + 1
      /\ \A i \in 1..Len(r[t]) : Append(r[t], m)[i] = r[t][i]
      /\ Append(r[t], m)[Len(r[t]) + 1] = m
  BY <1>1 DEF Queues
<1>4. n \in Queues
  BY <1>1, <1>2, <1>3 DEF Queues
<1>5. \A u \in Times : \A i \in 1..Len(n[u]) :
         \/ u = t /\ i = Len(r[t]) + 1 /\ n[u][i] = m
         \/ i \in 1..Len(r[u]) /\ n[u][i] = r[u][i]
  <2> TAKE u \in Times
  <2>1. CASE u = t
    <3>1. n[u] = Append(r[t], m)
      BY <1>1, <1>2, <2>1 DEF Queues
    <3> QED
      BY <1>3, <2>1, <3>1
  <2>2. CASE u # t
    BY <1>1, <1>2, <2>2 DEF Queues
  <2> QED
    BY <2>1, <2>2
<1>6. Once(n)
  <2> SUFFICES ASSUME NEW u \in Times, NEW v \in Times, NEW i \in 1..Len(n[u]),
                      NEW j \in 1..Len(n[v]), n[u][i] = n[v][j]
               PROVE  u = v /\ i = j
    BY DEF Once
  <2>1. /\ \/ u = t /\ i = Len(r[t]) + 1 /\ n[u][i] = m
           \/ i \in 1..Len(r[u]) /\ n[u][i] = r[u][i]
        /\ \/ v = t /\ j = Len(r[t]) + 1 /\ n[v][j] = m
           \/ j \in 1..Len(r[v]) /\ n[v][j] = r[v][j]
    BY <1>5
  <2>2. CASE n[u][i] = m
    <3>1. u = t /\ i = Len(r[t]) + 1 /\ v = t /\ j = Len(r[t]) + 1
      BY <1>1, <2>1, <2>2, Zenon DEF Absent
    <3> QED
      BY <3>1
  <2>3. CASE n[u][i] # m
    <3>1. i \in 1..Len(r[u]) /\ j \in 1..Len(r[v]) /\ r[u][i] = r[v][j]
      BY <2>1, <2>3
    <3> QED
      BY <1>1, <3>1 DEF Once
  <2> QED
    BY <2>2, <2>3
<1>7. \A u \in Times : \A i \in 1..Len(n[u]) :
         \/ n[u][i] = m /\ u = t
         \/ n[u][i] # m /\ \E j \in 1..Len(q[u]) : n[u][i] = q[u][j]
  BY <1>1, <1>5 DEF Absent, Within
<1> QED
  BY <1>4, <1>6, <1>7 DEF n

-----------------------------------------------------------------------------
(***************************************************************************)
(* The inductive step, one lemma per part of KernelInv.                    *)
(***************************************************************************)
LEMMA HeapStep ==
    ASSUME KernelInv, [Next]_vars
    PROVE  HeapInv'
<1> USE ConstantsAssumption
<1>1. HeapInv /\ time \in Times /\ build_list \in Seq(Proto \X Ptr) /\ NULL \notin Addr
  BY DEF KernelInv, TypeOK, HeapInv, ControlTypes
<1>2. HeapFrame /\ RegistryFrame
  BY Frames
<1>3. CASE LoadInitialAgents
  <2>1. CASE next_id < Len(Initial)
    <3> DEFINE p == Initial[next_id + 1][1]
               k == Initial[next_id + 1][2]
    <3>1. p \in Proto
      <4>1. next_id + 1 \in 1..Len(Initial)
        BY <1>1, <2>1 DEF HeapInv, HeapTypes
      <4>2. Initial[next_id + 1] \in Proto \X Nat
        BY <4>1
      <4> QED
        BY <4>2
    <3>2. PICK a \in Addr \ agent_list,
               par \in IF k = 0 THEN {NULL} ELSE {b \in agent_list : mem[b].id = k - 1} :
                 Enter(a, p, par)
      BY <1>3, <2>1 DEF LoadInitialAgents
    <3>3. par \in agent_list \cup {NULL}
      BY <3>2
    <3> HIDE DEF p, k
    <3> QED
      BY <1>1, <3>1, <3>2, <3>3, EnterKeepsHeap
  <2>2. CASE ~(next_id < Len(Initial))
    BY <1>1, <1>3, <2>2 DEF LoadInitialAgents, HeapInv, HeapTypes, RegistryTypes, IdsBelowNext,
       Registered, FamilyTree, KindOf, heap, regvars
  <2> QED
    BY <2>1, <2>2
<1>4. CASE DoBuild
  <2> DEFINE p   == Head(build_list)[1]
             par == Head(build_list)[2]
  <2>1. p \in Proto /\ par \in Ptr
    <3>1. Head(build_list) \in Proto \X Ptr
      BY <1>1, <1>4 DEF DoBuild
    <3> QED
      BY <3>1
  <2>2. CASE Dangling(par) \/ Addr = agent_list
    BY <1>1, <1>4, <2>2 DEF DoBuild, Throw, HeapInv, HeapTypes, RegistryTypes, IdsBelowNext,
       Registered, FamilyTree, KindOf, heap, regvars
  <2>3. CASE ~Dangling(par) /\ Addr # agent_list
    <3>1. PICK a \in Addr \ agent_list : Enter(a, p, par)
      BY <1>4, <2>3 DEF DoBuild
    <3>2. par \in agent_list \cup {NULL}
      BY <2>1, <2>3 DEF Dangling
    <3> HIDE DEF p, par
    <3> QED
      BY <1>1, <2>1, <3>1, <3>2, EnterKeepsHeap
  <2> QED
    BY <2>2, <2>3
<1>5. CASE Decommission
  <2>1. CASE subj \in blocked
    BY <1>1, <1>5, <2>1 DEF Decommission, Throw, HeapInv, HeapTypes, RegistryTypes, IdsBelowNext,
       Registered, FamilyTree, KindOf, heap, regvars
  <2>2. CASE subj \notin blocked
    <3>1. subj \in agent_list
      BY <1>5 DEF Decommission, KernelInv, Control
    <3> QED
      BY <1>1, <1>5, <2>2, <3>1, DecommissionKeepsHeap
  <2> QED
    BY <2>1, <2>2
<1>6. CASE ChangeCondition
  <2>1. self \in agent_list
    BY <1>6 DEF ChangeCondition, KernelInv, Control, TypeOK, ControlTypes, Callbacks
  <2> QED
    BY <1>1, <1>6, <2>1 DEF ChangeCondition, HeapInv, HeapTypes, RegistryTypes, IdsBelowNext,
       Registered, FamilyTree, KindOf, regvars
<1>7. CASE UNCHANGED heap /\ UNCHANGED regvars
  BY <1>1, <1>7 DEF HeapInv, HeapTypes, RegistryTypes, IdsBelowNext,
     Registered, FamilyTree, KindOf, heap, regvars
<1>8. ChangeCondition => UNCHANGED regvars
  BY DEF ChangeCondition
<1> QED
  BY <1>2, <1>3, <1>4, <1>5, <1>6, <1>7, <1>8 DEF HeapFrame, RegistryFrame

(***************************************************************************)
(* The queues: what Institution::Tock and an agent's call to SchedDecom    *)
(* put into decom_queue is one Requeue of a live agent.                    *)
(***************************************************************************)
LEMMA DecomStep ==
    ASSUME KernelInv, [Next]_vars
    PROVE  \/ UNCHANGED <<decom_queue, DecomSchedule>>
           \/ \E m \in agent_list, t \in Times :
                 /\ m \in Addr /\ t >= time
                 /\ decom_queue' = Requeue(decom_queue, m, t)
                 /\ DecomSchedule' = [DecomSchedule EXCEPT ![mem[m].id] = t]
<1> USE ConstantsAssumption
<1>1. /\ QueueFrame /\ time \in Times /\ agent_list \subseteq Addr
      /\ todo \subseteq agent_list /\ mem \in [Addr -> AgentRec] /\ Duration \in Nat
  BY Frames DEF KernelInv, TypeOK, ControlTypes, HeapTypes, CallsReachLiveAgents
<1>2. CASE UNCHANGED queues
  BY <1>2 DEF queues
<1>3. CASE CallSchedBuild
  BY <1>3 DEF CallSchedBuild, SchedBuild, Throw, queues
<1>4. CASE InstTock
  <2>1. CASE todo = {}
    BY <1>4, <2>1 DEF InstTock
  <2>2. CASE todo # {}
    <3>1. PICK a \in todo :
             /\ decom_queue' = IF AtEndOfLife(a) THEN Requeue(decom_queue, a, time)
                               ELSE decom_queue
             /\ DecomSchedule' = IF AtEndOfLife(a)
                                  THEN [DecomSchedule EXCEPT ![mem[a].id] = time]
                                  ELSE DecomSchedule
      BY <1>4, <2>2 DEF InstTock
    <3>2. a \in agent_list /\ a \in Addr /\ time >= time
      BY <1>1, <3>1 DEF Times
    <3> QED
      BY <1>1, <3>1, <3>2
  <2> QED
    BY <2>1, <2>2
<1>5. CASE CallSchedDecom
  <2>1. PICK m \in Reach, t0 \in Times \cup {-1} : SchedDecom(m, t0)
    BY <1>5 DEF CallSchedDecom
  <2>2. m \in agent_list
    <3>1. CASE pc = "LoadSched"
      BY <2>1, <3>1 DEF Reach
    <3>2. CASE pc # "LoadSched"
      <4>1. self \in agent_list
        BY <1>5, <3>2 DEF CallSchedDecom, CanCall, KernelInv, Control
      <4>2. \A c \in mem[self].children : c \in agent_list
        BY <4>1 DEF KernelInv, FamilyTree
      <4> QED
        BY <2>1, <3>2, <4>1, <4>2 DEF Reach
    <3> QED
      BY <3>1, <3>2
  <2> DEFINE t == IF t0 = -1 THEN time ELSE t0
  <2>3. t \in Times
    BY <1>1, <2>1
  <2>4. CASE t < time
    BY <2>1, <2>4 DEF SchedDecom, Throw, queues
  <2>5. CASE ~(t < time)
    <3>1. /\ decom_queue' = Requeue(decom_queue, m, t)
          /\ DecomSchedule' = [DecomSchedule EXCEPT ![mem[m].id] = t]
      BY <2>1, <2>5 DEF SchedDecom
    <3>2. t >= time
      BY <1>1, <2>3, <2>5 DEF Times
    <3> HIDE DEF t
    <3> QED
      BY <1>1, <2>2, <2>3, <3>1, <3>2
  <2> QED
    BY <2>4, <2>5
<1> QED
  BY <1>1, <1>2, <1>3, <1>4, <1>5 DEF QueueFrame

\* The build queue stays well typed: only SchedBuild adds to it.
LEMMA BuildStep ==
    ASSUME KernelInv, [Next]_vars
    PROVE  /\ build_queue' \in [Times -> Seq(Proto \X Ptr)]
           /\ BuildSchedule' \in Seq(Proto \X (Ids \cup {-1}) \X Times)
<1> USE ConstantsAssumption
<1>1. /\ QueueFrame /\ time \in Times /\ agent_list \subseteq Addr
      /\ mem \in [Addr -> AgentRec] /\ Duration \in Nat
      /\ build_queue \in [Times -> Seq(Proto \X Ptr)]
      /\ BuildSchedule \in Seq(Proto \X (Ids \cup {-1}) \X Times)
  BY Frames DEF KernelInv, TypeOK, ControlTypes, HeapTypes, QueueTypes
<1>2. CASE UNCHANGED queues
  BY <1>1, <1>2 DEF queues
<1>3. CASE InstTock
  BY <1>1, <1>3 DEF InstTock
<1>4. CASE CallSchedDecom
  BY <1>1, <1>4 DEF CallSchedDecom, SchedDecom, Throw, queues
<1>5. CASE CallSchedBuild
  <2>1. PICK par \in {a \in Reach : KindOf(a) \in BuildFor} \cup {NULL},
             p \in Proto, t0 \in Times \cup {-1} :
               (t0 # -1 \/ time < Duration) /\ SchedBuild(par, p, t0)
    BY <1>5 DEF CallSchedBuild
  <2>2. par \in Ptr /\ IdOf(par) \in Ids \cup {-1}
    <3>1. par \in Reach \cup {NULL}
      BY <2>1
    <3>2. Reach \subseteq Addr
      <4>1. pc # "LoadSched" => self \in agent_list
        BY <1>5 DEF CallSchedBuild, CanCall, KernelInv, Control
      <4>2. self \in agent_list => mem[self].children \subseteq Addr
        BY <1>1 DEF AgentRec
      <4> QED
        BY <1>1, <4>1, <4>2 DEF Reach
    <3> QED
      BY <1>1, <3>1, <3>2 DEF Ptr, IdOf, AgentRec
  <2> DEFINE t == IF t0 = -1 THEN time + 1 ELSE t0
  <2>3. t \in Times
    BY <1>1, <2>1 DEF Times
  <2>4. CASE TooEarly(t)
    BY <1>1, <2>1, <2>4 DEF SchedBuild, Throw, queues
  <2>5. CASE ~TooEarly(t)
    <3>1. /\ build_queue' = [build_queue EXCEPT ![t] = Append(build_queue[t], <<p, par>>)]
          /\ BuildSchedule' = Append(BuildSchedule, <<p, IdOf(par), t>>)
      BY <2>1, <2>5 DEF SchedBuild
    <3>2. <<p, par>> \in Proto \X Ptr
      BY <2>1, <2>2
    <3>3. <<p, IdOf(par), t>> \in Proto \X (Ids \cup {-1}) \X Times
      BY <2>1, <2>2, <2>3
    <3> HIDE DEF t
    <3>4. Append(build_queue[t], <<p, par>>) \in Seq(Proto \X Ptr)
      BY <1>1, <2>3, <3>2
    <3>5. Append(BuildSchedule, <<p, IdOf(par), t>>) \in Seq(Proto \X (Ids \cup {-1}) \X Times)
      BY <1>1, <3>3
    <3> QED
      BY <1>1, <3>1, <3>4, <3>5
  <2> QED
    BY <2>4, <2>5
<1> QED
  BY <1>1, <1>2, <1>3, <1>4, <1>5 DEF QueueFrame

\* Both queues and the schedules written to the database stay well typed.
LEMMA QueueStep ==
    ASSUME KernelInv, [Next]_vars
    PROVE  QueueTypes' /\ (QueuedOnce => QueuedOnce')
<1>1. /\ decom_queue \in Queues /\ DecomSchedule \in [Ids -> Times \cup {-1}]
      /\ mem \in [Addr -> AgentRec]
  BY DEF KernelInv, TypeOK, QueueTypes, Queues, HeapTypes
<1>2. CASE UNCHANGED <<decom_queue, DecomSchedule>>
  BY <1>1, <1>2, BuildStep DEF QueueTypes, Queues, QueuedOnce
<1>3. CASE \E m \in agent_list, t \in Times :
                 /\ m \in Addr /\ t >= time
                 /\ decom_queue' = Requeue(decom_queue, m, t)
                 /\ DecomSchedule' = [DecomSchedule EXCEPT ![mem[m].id] = t]
  <2>1. PICK m \in Addr, t \in Times :
                 /\ decom_queue' = Requeue(decom_queue, m, t)
                 /\ DecomSchedule' = [DecomSchedule EXCEPT ![mem[m].id] = t]
    BY <1>3
  <2>2. DecomSchedule' \in [Ids -> Times \cup {-1}]
    BY <1>1, <2>1 DEF AgentRec
  <2>3. decom_queue' \in Queues
    BY <1>1, <2>1, RequeueTyped
  <2>4. Once(decom_queue) => Once(decom_queue')
    BY <1>1, <2>1, RequeueKeepsOnce
  <2> QED
    BY <2>2, <2>3, <2>4, BuildStep DEF QueueTypes, Queues, QueuedOnce, Once
<1> QED
  BY <1>2, <1>3, DecomStep

\* The snapshot and kill flags stay Boolean.
LEMMA FlagStep ==
    ASSUME FlagTypes, [Next]_vars
    PROVE  FlagTypes'
<1> USE Zenon DEF FlagTypes, flags, Throw
<1>1. CASE LoadInitialAgents
  BY <1>1 DEF LoadInitialAgents
<1>2. CASE RunSim
  BY <1>2 DEF RunSim
<1>3. CASE BeginStep
  BY <1>3 DEF BeginStep
<1>4. CASE DoBuild
  BY <1>4 DEF DoBuild
<1>5. CASE EnterNotifyReturns
  BY <1>5 DEF EnterNotifyReturns
<1>6. CASE BuildReturns
  BY <1>6 DEF BuildReturns
<1>7. CASE BuildsDone
  BY <1>7 DEF BuildsDone
<1>8. CASE DoTick
  BY <1>8 DEF DoTick, Listen
<1>9. CASE TicksDone
  BY <1>9 DEF TicksDone
<1>10. CASE DoResEx
  BY <1>10 DEF DoResEx
<1>11. CASE TradesDone
  BY <1>11 DEF TradesDone
<1>12. CASE DoTock
  BY <1>12 DEF DoTock, Listen
<1>13. CASE InstTock
  BY <1>13 DEF InstTock
<1>14. CASE TocksDone
  BY <1>14 DEF TocksDone
<1>15. CASE DoDecom
  BY <1>15 DEF DoDecom
<1>16. CASE Decommission
  BY <1>16 DEF Decommission
<1>17. CASE EndStep
  BY <1>17 DEF EndStep
<1>18. CASE FinishSim
  BY <1>18 DEF FinishSim
<1>19. CASE CallbackReturns
  BY <1>19 DEF CallbackReturns
<1>20. CASE CallSchedBuild
  BY <1>20 DEF CallSchedBuild, SchedBuild
<1>21. CASE CallSchedDecom
  BY <1>21 DEF CallSchedDecom, SchedDecom
<1>22. CASE CallSnapshot
  BY <1>22 DEF CallSnapshot
<1>23. CASE CallKillSim
  BY <1>23 DEF CallKillSim
<1>24. CASE ChangeCondition
  BY <1>24 DEF ChangeCondition
<1>25. CASE UNCHANGED vars
  BY <1>25 DEF vars
<1> QED
  BY <1>1, <1>2, <1>3, <1>4, <1>5, <1>6, <1>7, <1>8, <1>9, <1>10, <1>11, <1>12, <1>13, <1>14, <1>15, <1>16, <1>17, <1>18, <1>19, <1>20, <1>21, <1>22, <1>23, <1>24, <1>25
     DEF Next, Kernel, AgentCall, Stopped

\* What RunSim writes to the output tables.
LEMMA OutputStep ==
    ASSUME KernelInv, [Next]_vars
    PROVE  OutputTypes'
<1> USE ConstantsAssumption DEF OutputTypes, tables, flags, Throw
<1>0. /\ OutputTypes /\ time \in Times /\ mem \in [Addr -> AgentRec] /\ Duration \in Nat
      /\ agent_list \subseteq Addr /\ want_kill \in BOOLEAN
  BY DEF KernelInv, TypeOK, ControlTypes, HeapTypes, FlagTypes
<1>1. CASE LoadInitialAgents
  <2>1. CASE next_id < Len(Initial)
    <3>1. PICK a \in Addr : AddToTable(a)
      BY <1>1, <2>1 DEF LoadInitialAgents
    <3>2. mem' \in [Addr -> AgentRec]
      BY HeapStep DEF HeapInv, HeapTypes
    <3>3. <<mem'[a].id, mem'[a].proto, mem'[a].parent_id, time>>
              \in Ids \X Proto \X (Ids \cup {-1}) \X Times
      BY <1>0, <3>2 DEF AgentRec
    <3> QED
      BY <1>1, <1>0, <3>1, <3>3 DEF LoadInitialAgents, AddToTable
  <2>2. CASE ~(next_id < Len(Initial))
    BY <1>1, <1>0, <2>2 DEF LoadInitialAgents
  <2> QED
    BY <2>1, <2>2
<1>2. CASE RunSim
  BY <1>2, <1>0 DEF RunSim
<1>3. CASE BeginStep
  BY <1>3, <1>0 DEF BeginStep
<1>4. CASE DoBuild
  BY <1>4, <1>0 DEF DoBuild
<1>5. CASE EnterNotifyReturns
  <2>1. mem' = mem /\ self \in Addr
    BY <1>0, <1>5 DEF EnterNotifyReturns, heap, KernelInv, Control, Callbacks
  <2>2. <<mem[self].id, mem[self].proto, mem[self].parent_id, time>>
            \in Ids \X Proto \X (Ids \cup {-1}) \X Times
    BY <1>0, <2>1 DEF AgentRec
  <2> QED
    BY <1>5, <1>0, <2>1, <2>2 DEF EnterNotifyReturns, AddToTable
<1>6. CASE BuildReturns
  BY <1>6, <1>0 DEF BuildReturns
<1>7. CASE BuildsDone
  BY <1>7, <1>0 DEF BuildsDone
<1>8. CASE DoTick
  BY <1>8, <1>0 DEF DoTick, Listen
<1>9. CASE TicksDone
  BY <1>9, <1>0 DEF TicksDone
<1>10. CASE DoResEx
  BY <1>10, <1>0 DEF DoResEx
<1>11. CASE TradesDone
  BY <1>11, <1>0 DEF TradesDone
<1>12. CASE DoTock
  BY <1>12, <1>0 DEF DoTock, Listen
<1>13. CASE InstTock
  BY <1>13, <1>0 DEF InstTock
<1>14. CASE TocksDone
  BY <1>14, <1>0 DEF TocksDone
<1>15. CASE DoDecom
  BY <1>15, <1>0 DEF DoDecom
<1>16. CASE Decommission
  <2>1. CASE subj \in blocked
    BY <1>16, <1>0, <2>1 DEF Decommission
  <2>2. CASE subj \notin blocked
    <3>1. subj \in Addr
      BY <1>0, <1>16 DEF Decommission, KernelInv, Control
    <3>2. <<mem[subj].id, time>> \in Ids \X Times
      BY <1>0, <3>1 DEF AgentRec
    <3>3. Append(AgentExit, <<mem[subj].id, time>>) \in Seq(Ids \X Times)
      BY <1>0, <3>2
    <3> QED
      BY <1>16, <1>0, <2>2, <3>3 DEF Decommission
  <2> QED
    BY <2>1, <2>2
<1>17. CASE EndStep
  BY <1>17, <1>0 DEF EndStep
<1>18. CASE FinishSim
  <2>1. time - 1 \in Times \cup {-1}
    BY <1>0 DEF Times
  <2>2. <<want_kill, time - 1>> \in BOOLEAN \X (Times \cup {-1})
    BY <1>0, <2>1, Zenon
  <2>3. /\ Append(Finish, <<want_kill, time - 1>>) \in Seq(BOOLEAN \X (Times \cup {-1}))
        /\ Append(Snapshots, time) \in Seq(Times)
    BY <1>0, <2>2
  <2>4. /\ Finish' = Append(Finish, <<want_kill, time - 1>>)
        /\ Snapshots' = Append(Snapshots, time)
        /\ UNCHANGED <<asked, killed, AgentEntry, AgentExit>>
    BY <1>18, Zenon DEF FinishSim
  <2> QED
    BY <1>0, <2>3, <2>4
<1>19. CASE CallbackReturns
  BY <1>19, <1>0 DEF CallbackReturns
<1>20. CASE CallSchedBuild
  BY <1>20, <1>0 DEF CallSchedBuild, SchedBuild
<1>21. CASE CallSchedDecom
  BY <1>21, <1>0 DEF CallSchedDecom, SchedDecom
<1>22. CASE CallSnapshot
  BY <1>22, <1>0 DEF CallSnapshot
<1>23. CASE CallKillSim
  BY <1>23, <1>0 DEF CallKillSim
<1>24. CASE ChangeCondition
  BY <1>24, <1>0 DEF ChangeCondition
<1>25. CASE UNCHANGED vars
  BY <1>25, <1>0 DEF vars
<1> QED
  BY <1>1, <1>2, <1>3, <1>4, <1>5, <1>6, <1>7, <1>8, <1>9, <1>10, <1>11, <1>12, <1>13, <1>14, <1>15, <1>16, <1>17, <1>18, <1>19, <1>20, <1>21, <1>22, <1>23, <1>24, <1>25
     DEF Next, Kernel, AgentCall, Stopped

(***************************************************************************)
(* Where RunSim is and which agents it holds.                              *)
(***************************************************************************)
LEMMA ControlStep ==
    ASSUME KernelInv, [Next]_vars
    PROVE  ControlTypes' /\ Control' /\ CallsReachLiveAgents'
<1> USE ConstantsAssumption
<1> USE DEF ControlTypes, Control, CallsReachLiveAgents, Callbacks, Outside, Ptr, loopvars,
            heap, Throw
<1>0. /\ ControlTypes /\ Control /\ CallsReachLiveAgents /\ HeapTypes /\ RegistryTypes
      /\ Registered /\ FamilyTree /\ QueueTypes
  BY DEF KernelInv, TypeOK
<1> DEFINE Errors == {"ValueError", "Error", "BadAlloc", "UseAfterFree"}
<1>t. ASSUME NEW e \in Errors, Throw(e)
      PROVE  ControlTypes' /\ Control' /\ CallsReachLiveAgents'
  BY <1>0, <1>t
<1>h. /\ agent_list \subseteq Addr /\ mem \in [Addr -> AgentRec] /\ Duration \in Nat
      /\ \A a \in agent_list : mem[a].parent \in agent_list \cup {NULL}
      /\ \A a \in agent_list : mem[a].children \subseteq agent_list
  BY <1>0 DEF HeapTypes, FamilyTree
<1>1. CASE LoadInitialAgents
  <2>1. agent_list \subseteq agent_list'
    BY <1>1 DEF LoadInitialAgents, Enter
  <2>2. pc = "Load" /\ pc' \in {"Load", "LoadSched"}
    BY <1>1 DEF LoadInitialAgents
  <2>3. UNCHANGED <<time, self, subj, loopvars, calls, error>>
    BY <1>1 DEF LoadInitialAgents
  <2> QED
    BY <1>0, <2>1, <2>2, <2>3
<1>2. CASE RunSim
  BY <1>2, <1>0 DEF RunSim
<1>3. CASE BeginStep
  BY <1>0, <1>h, <1>3 DEF BeginStep, QueueTypes
<1>4. CASE DoBuild
  <2> DEFINE par == Head(build_list)[2]
  <2>1. CASE Dangling(par)
    <3>1. Throw("UseAfterFree")
      BY <1>4, <2>1 DEF DoBuild
    <3> QED
      BY <1>t, <3>1
  <2>2. CASE ~Dangling(par) /\ Addr = agent_list
    <3>1. Throw("BadAlloc")
      BY <1>4, <2>2 DEF DoBuild
    <3> QED
      BY <1>t, <3>1
  <2>3. CASE ~Dangling(par) /\ Addr # agent_list
    <3>1. PICK a \in Addr \ agent_list :
             /\ agent_list' = agent_list \cup {a}
             /\ self' = a /\ subj' = a /\ pc' = "EnterNotify"
             /\ build_list' = Tail(build_list)
             /\ UNCHANGED <<time, todo, cursor, decom_list, calls, error>>
      BY <1>4, <2>3 DEF DoBuild, Enter
    <3>2. pc = "DoBuild" /\ Tail(build_list) \in Seq(Proto \X (Addr \cup {NULL}))
      BY <1>0, <1>4 DEF DoBuild
    <3> QED
      BY <1>0, <3>1, <3>2
  <2> QED
    BY <2>1, <2>2, <2>3
<1>5. CASE EnterNotifyReturns
  BY <1>5, <1>0 DEF EnterNotifyReturns
<1>6. CASE BuildReturns
  <2>1. subj \in agent_list /\ mem[subj].parent \in agent_list \cup {NULL}
    BY <1>0, <1>h, <1>6 DEF BuildReturns
  <2> QED
    BY <1>0, <1>h, <1>6, <2>1 DEF BuildReturns
<1>7. CASE BuildsDone
  BY <1>7, <1>0 DEF BuildsDone
<1>8. CASE DoTick
  <2>1. PICK l \in tickers :
           /\ cursor' = l[1] /\ self' = l[2] /\ pc = "DoTick"
           /\ \/ pc' = "InstTock" /\ todo' = mem[l[2]].children
              \/ pc' = "Tick" /\ UNCHANGED todo
           /\ UNCHANGED <<time, subj, build_list, decom_list, agent_list, calls, error>>
    BY <1>8 DEF DoTick, Listen, Later
  <2>2. l[2] \in agent_list /\ l[1] \in Ids
    BY <1>0, <2>1 DEF Registered, RegistryTypes
  <2>3. mem[l[2]].children \subseteq agent_list
    BY <1>h, <2>2
  <2> QED
    BY <1>0, <1>h, <2>1, <2>2, <2>3
<1>9. CASE TicksDone
  <2>1. traders \subseteq agent_list
    BY <1>0 DEF Registered, RegistryTypes
  <2> QED
    BY <1>0, <1>h, <1>9, <2>1 DEF TicksDone
<1>10. CASE DoResEx
  BY <1>10, <1>0 DEF DoResEx
<1>11. CASE TradesDone
  BY <1>11, <1>0 DEF TradesDone
<1>12. CASE DoTock
  <2>1. PICK l \in tickers :
           /\ cursor' = l[1] /\ self' = l[2] /\ pc = "DoTock"
           /\ \/ pc' = "InstTock" /\ todo' = mem[l[2]].children
              \/ pc' = "Tock" /\ UNCHANGED todo
           /\ UNCHANGED <<time, subj, build_list, decom_list, agent_list, calls, error>>
    BY <1>12 DEF DoTock, Listen, Later
  <2>2. l[2] \in agent_list /\ l[1] \in Ids
    BY <1>0, <2>1 DEF Registered, RegistryTypes
  <2>3. mem[l[2]].children \subseteq agent_list
    BY <1>h, <2>2
  <2> QED
    BY <1>0, <1>h, <2>1, <2>2, <2>3
<1>13. CASE InstTock
  BY <1>13, <1>0 DEF InstTock
<1>14. CASE TocksDone
  BY <1>0, <1>14 DEF TocksDone, QueueTypes
<1>15. CASE DoDecom
  <2> DEFINE m == Head(decom_list)
  <2>1. m \in Addr
    BY <1>0, <1>15 DEF DoDecom
  <2>2. CASE Dangling(m)
    <3>1. Throw("UseAfterFree")
      BY <1>15, <2>2 DEF DoDecom
    <3> QED
      BY <1>t, <3>1
  <2>3. CASE ~Dangling(m)
    <3>1. m \in agent_list /\ mem[m].parent \in agent_list \cup {NULL}
      BY <1>h, <2>1, <2>3 DEF Dangling
    <3>2. /\ pc = "DoDecom" /\ decom_list # << >>
          /\ subj' = m /\ self' = mem[m].parent
          /\ pc' = IF mem[m].parent = NULL THEN "Decommission" ELSE "DecomNotify"
          /\ UNCHANGED <<time, todo, cursor, build_list, decom_list, agent_list, calls, error>>
      BY <1>15, <2>3 DEF DoDecom
    <3> QED
      BY <1>0, <1>h, <3>1, <3>2 DEF Times
  <2> QED
    BY <2>2, <2>3
<1>16. CASE Decommission
  <2>1. CASE subj \in blocked
    <3>1. Throw("Error")
      BY <1>16, <2>1 DEF Decommission
    <3> QED
      BY <1>t, <3>1
  <2>2. CASE subj \notin blocked
    <3>1. /\ pc = "Decommission" /\ pc' = "DoDecom" /\ self' = NULL /\ subj' = NULL
          /\ decom_list' = Tail(decom_list)
          /\ UNCHANGED <<time, todo, cursor, build_list, calls, error>>
      BY <1>16, <2>2 DEF Decommission
    <3>2. Tail(decom_list) \in Seq(Addr) /\ todo = {}
      BY <1>0, <3>1
    <3> QED
      BY <1>0, <3>1, <3>2
  <2> QED
    BY <2>1, <2>2
<1>17. CASE EndStep
  <2>1. pc = "DoDecom" /\ pc' \in {"Finish", "Loop"}
    BY <1>17, Zenon DEF EndStep
  <2>2. time < Duration /\ time' = time + 1 /\ time' \in Times
    BY <1>0, <1>h, <1>17 DEF EndStep, Times
  <2>3. UNCHANGED <<self, subj, loopvars, agent_list, calls, error>>
    BY <1>17 DEF EndStep
  <2> QED
    BY <1>0, <2>1, <2>2, <2>3
<1>18. CASE FinishSim
  BY <1>18, <1>0 DEF FinishSim
<1>19. CASE CallbackReturns
  <2>1. \/ pc = "BuildNotify" /\ pc' = "DoBuild"
        \/ pc = "Tick" /\ pc' = "DoTick"
        \/ pc = "Trade" /\ pc' = "DoResEx"
        \/ pc = "Tock" /\ pc' = "DoTock"
        \/ pc = "DecomNotify" /\ pc' = "Decommission"
    BY <1>19 DEF CallbackReturns, Caller
  <2>2. /\ self' = NULL /\ subj' = (IF pc = "DecomNotify" THEN subj ELSE NULL)
        /\ UNCHANGED <<time, loopvars, agent_list, calls, error>>
    BY <1>19 DEF CallbackReturns
  <2> QED
    BY <1>0, <2>1, <2>2
<1>20. CASE CallSchedBuild
  <2>1. Throw("ValueError") \/ (calls' = calls + 1
            /\ UNCHANGED <<time, pc, self, subj, loopvars, agent_list, error>>)
    BY <1>20 DEF CallSchedBuild, SchedBuild
  <2>2. calls < MaxCalls
    BY <1>20 DEF CallSchedBuild, CanCall
  <2>3. CASE Throw("ValueError")
    BY <1>t, <2>3
  <2>4. CASE ~Throw("ValueError")
    BY <1>0, <2>1, <2>2, <2>4
  <2> QED
    BY <2>3, <2>4
<1>21. CASE CallSchedDecom
  <2>1. Throw("ValueError") \/ (calls' = calls + 1
            /\ UNCHANGED <<time, pc, self, subj, loopvars, agent_list, error>>)
    BY <1>21 DEF CallSchedDecom, SchedDecom
  <2>2. calls < MaxCalls
    BY <1>21 DEF CallSchedDecom, CanCall
  <2>3. CASE Throw("ValueError")
    BY <1>t, <2>3
  <2>4. CASE ~Throw("ValueError")
    BY <1>0, <2>1, <2>2, <2>4
  <2> QED
    BY <2>3, <2>4
<1>22. CASE CallSnapshot
  BY <1>22, <1>0 DEF CallSnapshot, CanCall
<1>23. CASE CallKillSim
  BY <1>23, <1>0 DEF CallKillSim, CanCall
<1>24. CASE ChangeCondition
  BY <1>24, <1>0 DEF ChangeCondition
<1>25. CASE UNCHANGED vars
  BY <1>25, <1>0 DEF vars
<1> QED
  BY <1>1, <1>2, <1>3, <1>4, <1>5, <1>6, <1>7, <1>8, <1>9, <1>10, <1>11, <1>12, <1>13, <1>14, <1>15, <1>16, <1>17, <1>18, <1>19, <1>20, <1>21, <1>22, <1>23, <1>24, <1>25
     DEF Next, Kernel, AgentCall, Stopped

-----------------------------------------------------------------------------
\* The initial state satisfies the invariant.
LEMMA InitInv == Init => KernelInv /\ QueuedOnce
<1> SUFFICES ASSUME Init PROVE KernelInv /\ QueuedOnce
  OBVIOUS
<1>1. TypeOK
  BY InitTypeOK
<1>2. Control /\ CallsReachLiveAgents /\ IdsBelowNext /\ FamilyTree
  BY DEF Init, Control, CallsReachLiveAgents, IdsBelowNext, FamilyTree, Callbacks, Outside
<1>3. Registered
  BY DEF Init, Registered
<1>4. QueuedOnce
  BY DEF Init, QueuedOnce
<1> QED
  BY <1>1, <1>2, <1>3, <1>4 DEF KernelInv

\* Every step of the kernel and every call of an agent keeps the invariant.
LEMMA InductiveStep ==
    ASSUME KernelInv, [Next]_vars
    PROVE  KernelInv' /\ (QueuedOnce => QueuedOnce')
<1>1. FlagTypes'
  BY FlagStep DEF KernelInv, TypeOK
<1> QED
  BY <1>1, HeapStep, QueueStep, OutputStep, ControlStep DEF KernelInv, TypeOK, HeapInv

(***************************************************************************)
(* KernelInv holds of every execution, whatever the agents call and from   *)
(* whichever callback, including those that end in an exception.           *)
(***************************************************************************)
THEOREM Invariance == Spec => [](KernelInv /\ QueuedOnce)
<1>1. Init => KernelInv /\ QueuedOnce
  BY InitInv
<1>2. KernelInv /\ QueuedOnce /\ [Next]_vars => (KernelInv /\ QueuedOnce)'
  BY InductiveStep
<1> QED
  BY <1>1, <1>2, PTL DEF Spec

(***************************************************************************)
(* Every variable keeps its type: time_ never runs past duration, no row   *)
(* is written for an agent that has no id, no build or decommissioning is  *)
(* queued outside the simulation.                                          *)
(***************************************************************************)
THEOREM TypeCorrect == Spec => []TypeOK
<1>1. KernelInv /\ QueuedOnce => TypeOK
  BY DEF KernelInv
<1> QED
  BY <1>1, Invariance, PTL

(***************************************************************************)
(* Timer::SchedDecom leaves no duplicate entry in decom_queue_, in any     *)
(* order of calls by Institution::Tock and by agents: its claim that there *)
(* are none to be deleted twice.                                           *)
(***************************************************************************)
THEOREM NoDuplicateDecom == Spec => []QueuedOnce
<1> QED
  BY Invariance, PTL

(***************************************************************************)
(* ~Agent and Agent::Connect keep the parent and child pointers a forest   *)
(* of live agents.                                                         *)
(***************************************************************************)
THEOREM FamilyTreeKept == Spec => []FamilyTree
<1>1. KernelInv /\ QueuedOnce => FamilyTree
  BY DEF KernelInv
<1> QED
  BY <1>1, Invariance, PTL

(***************************************************************************)
(* tickers_ and traders_ hold exactly the live agents, so no loop of       *)
(* RunSim reaches a deleted one through them.                              *)
(***************************************************************************)
THEOREM RegistriesExact == Spec => []Registered
<1>1. KernelInv /\ QueuedOnce => Registered
  BY DEF KernelInv
<1> QED
  BY <1>1, Invariance, PTL

(***************************************************************************)
(* RunSim calls live agents only.                                          *)
(***************************************************************************)
THEOREM OnlyLiveAgentsCalled == Spec => []CallsReachLiveAgents
<1>1. KernelInv /\ QueuedOnce => CallsReachLiveAgents
  BY DEF KernelInv
<1> QED
  BY <1>1, Invariance, PTL

-----------------------------------------------------------------------------
(***************************************************************************)
(* PART 2.  What the kernel answers, whatever the agents do: snapshots and *)
(* the end of the simulation come when they were asked for                 *)
(* (Timer::Snapshot, Timer::KillSim), and Context::n_prototypes counts the *)
(* live facilities of a prototype.                                         *)
(***************************************************************************)

(***************************************************************************)
(* A step that neither serves nor makes a request stays before the loop,   *)
(* enters it, stays inside a time step, or throws.                         *)
(***************************************************************************)
Quiet ==
    /\ time' = time /\ Snapshots' = Snapshots /\ Finish' = Finish
    /\ want_snapshot' = want_snapshot /\ want_kill' = want_kill
    /\ asked' = asked /\ killed' = killed
    /\ \/ pc' = pc
       \/ pc \notin {"Finish", "Done", "Thrown"} /\ pc' = "Thrown"
       \/ pc \in {"Load", "LoadSched"} /\ pc' \in {"Load", "LoadSched", "Loop"}
       \/ pc \notin Outside /\ pc' \notin Outside

\* The steps that touch the requests for snapshots and for the end.
LEMMA RequestFrames ==
    ASSUME KernelInv, [Next]_vars
    PROVE  Quiet \/ BeginStep \/ EndStep \/ FinishSim \/ CallSnapshot \/ CallKillSim
<1> USE DEF Quiet, Outside, flags, tables, Throw
<1>0. /\ pc \in Callbacks \cup {"Load", "Loop", "DoBuild", "DoTick", "DoResEx",
                              "InstTock", "DoTock", "DoDecom", "Decommission",
                              "Finish", "Done", "Thrown"}
      /\ Callers \subseteq Callbacks
  BY ConstantsAssumption DEF KernelInv, TypeOK, ControlTypes
<1>1. CASE LoadInitialAgents
  BY <1>1 DEF LoadInitialAgents
<1>2. CASE RunSim
  BY <1>2 DEF RunSim
<1>3. CASE BeginStep
  BY <1>3
<1>4. CASE DoBuild
  BY <1>4 DEF DoBuild
<1>5. CASE EnterNotifyReturns
  BY <1>5 DEF EnterNotifyReturns
<1>6. CASE BuildReturns
  BY <1>6 DEF BuildReturns
<1>7. CASE BuildsDone
  BY <1>7 DEF BuildsDone
<1>8. CASE DoTick
  BY <1>8 DEF DoTick, Listen
<1>9. CASE TicksDone
  BY <1>9 DEF TicksDone
<1>10. CASE DoResEx
  BY <1>10 DEF DoResEx
<1>11. CASE TradesDone
  BY <1>11 DEF TradesDone
<1>12. CASE DoTock
  BY <1>12 DEF DoTock, Listen
<1>13. CASE InstTock
  BY <1>13 DEF InstTock
<1>14. CASE TocksDone
  BY <1>14 DEF TocksDone
<1>15. CASE DoDecom
  BY <1>15 DEF DoDecom
<1>16. CASE Decommission
  BY <1>16 DEF Decommission
<1>17. CASE EndStep
  BY <1>17
<1>18. CASE FinishSim
  BY <1>18
<1>19. CASE CallbackReturns
  <2>1. \/ pc = "BuildNotify" /\ pc' = "DoBuild"
        \/ pc = "Tick" /\ pc' = "DoTick"
        \/ pc = "Trade" /\ pc' = "DoResEx"
        \/ pc = "Tock" /\ pc' = "DoTock"
        \/ pc = "DecomNotify" /\ pc' = "Decommission"
    BY <1>19 DEF CallbackReturns, Caller
  <2> QED
    BY <1>19, <2>1 DEF CallbackReturns
<1>20. CASE CallSchedBuild
  BY <1>0, <1>20 DEF CallSchedBuild, SchedBuild, CanCall, Callbacks
<1>21. CASE CallSchedDecom
  BY <1>0, <1>21 DEF CallSchedDecom, SchedDecom, CanCall, Callbacks
<1>22. CASE CallSnapshot
  BY <1>22
<1>23. CASE CallKillSim
  BY <1>23
<1>24. CASE ChangeCondition
  BY <1>24 DEF ChangeCondition
<1>25. CASE UNCHANGED vars
  BY <1>25 DEF vars
<1> QED
  BY <1>1, <1>2, <1>3, <1>4, <1>5, <1>6, <1>7, <1>8, <1>9, <1>10, <1>11, <1>12, <1>13, <1>14, <1>15, <1>16, <1>17, <1>18, <1>19, <1>20, <1>21, <1>22, <1>23, <1>24, <1>25
     DEF Next, Kernel, AgentCall, Stopped

-----------------------------------------------------------------------------
(***************************************************************************)
(* Snapshots.                                                              *)
(***************************************************************************)
Increasing(s) == \A k, l \in DOMAIN s : k < l => s[k] < s[l]
AllBefore(s, t) == \A k \in DOMAIN s : s[k] < t
\* n is s with t appended.
OneMore(s, t, n) ==
    /\ DOMAIN n = DOMAIN s \cup {Len(n)} /\ Len(n) \notin DOMAIN s
    /\ n[Len(n)] = t /\ \A k \in DOMAIN s : n[k] = s[k]

\* One more snapshot, later than all before it.
LEMMA TakeOne ==
    ASSUME NEW s \in Seq(Times), NEW t \in Times, Increasing(s),
           AllBefore(s, t), NEW n, n = Append(s, t)
    PROVE  Increasing(n) /\ OneMore(s, t, n)
<1>1. /\ n \in Seq(Times) /\ Len(n) = Len(s) + 1 /\ Len(s) \in Nat
      /\ \A k \in 1..Len(s) : n[k] = s[k]
      /\ n[Len(s) + 1] = t
  OBVIOUS
<1>2. DOMAIN n = 1..(Len(s) + 1) /\ DOMAIN s = 1..Len(s)
  BY <1>1
<1>3. \A k \in DOMAIN s : s[k] \in Int /\ t \in Int
  BY <1>2, ConstantsAssumption DEF Times
<1>4. Increasing(n)
  <2> SUFFICES ASSUME NEW k \in DOMAIN n, NEW l \in DOMAIN n, k < l
               PROVE  n[k] < n[l]
    BY DEF Increasing
  <2>1. k \in DOMAIN s
    BY <1>1, <1>2
  <2>2. CASE l \in DOMAIN s
    BY <1>1, <1>2, <2>1, <2>2 DEF Increasing
  <2>3. CASE l \notin DOMAIN s
    <3>1. l = Len(s) + 1
      BY <1>1, <1>2, <2>3
    <3> QED
      BY <1>1, <1>2, <2>1, <3>1 DEF AllBefore
  <2> QED
    BY <2>2, <2>3
<1> QED
  BY <1>1, <1>2, <1>4 DEF OneMore

\* Every step keeps SnapshotInv.
LEMMA SnapshotStep ==
    ASSUME KernelInv, SnapshotInv, [Next]_vars
    PROVE  SnapshotInv'
<1> USE DEF Outside
<1>0. /\ time \in Int /\ Duration \in Int /\ Snapshots \in Seq(Times)
      /\ asked \subseteq Int /\ time \in Times /\ time >= 0
      /\ \A k \in DOMAIN Snapshots : Snapshots[k] \in Int
      /\ pc \in {"Load", "LoadSched"} => time = 0
      /\ Callers \subseteq Callbacks
  BY ConstantsAssumption DEF KernelInv, TypeOK, ControlTypes, OutputTypes, Times, Control
<1>1. /\ Increasing(Snapshots)
      /\ pc \notin {"Done", "Thrown"} =>
           /\ \A k \in DOMAIN Snapshots : Snapshots[k] <= Begun
           /\ \A t \in asked : t <= Begun /\ (t < Begun => t + 1 \in Taken)
      /\ \A k \in DOMAIN Snapshots :
              Snapshots[k] - 1 \in asked \/ (pc = "Done" /\ k = Len(Snapshots))
      /\ \A t \in asked : t + 1 < time \/ pc = "Done" => t + 1 \in Taken
  BY DEF SnapshotInv, Increasing
<1>2. pc \notin {"Done", "Thrown"} => (want_snapshot <=> Begun \in asked)
  BY DEF SnapshotInv
<1>3. SUFFICES
        /\ Increasing(Snapshots)'
        /\ (pc \notin {"Done", "Thrown"})' =>
             /\ (\A k \in DOMAIN Snapshots : Snapshots[k] <= Begun)'
             /\ (\A t \in asked : t <= Begun /\ (t < Begun => t + 1 \in Taken))'
        /\ (\A k \in DOMAIN Snapshots :
                Snapshots[k] - 1 \in asked \/ (pc = "Done" /\ k = Len(Snapshots)))'
        /\ (\A t \in asked : t + 1 < time \/ pc = "Done" => t + 1 \in Taken)'
        /\ (pc \notin {"Done", "Thrown"} => (want_snapshot <=> Begun \in asked))'
  BY DEF SnapshotInv, Increasing
<1>4. CASE Quiet
  <2>1. /\ time' = time /\ Snapshots' = Snapshots /\ asked' = asked
        /\ want_snapshot' = want_snapshot
        /\ Taken' = Taken
    BY <1>4 DEF Quiet, Taken
  <2>2. pc' \notin {"Done", "Thrown"} => Begun' = Begun /\ pc \notin {"Done", "Thrown"}
    BY <1>4, <2>1 DEF Quiet, Begun
  <2>3. pc' = "Done" <=> pc = "Done"
    BY <1>4 DEF Quiet
  <2>4. (pc \notin {"Done", "Thrown"} => (want_snapshot <=> Begun \in asked))'
    BY <1>2, <2>1, <2>2, Zenon
  <2> QED
    BY <1>1, <2>1, <2>2, <2>3, <2>4 DEF Increasing
<1>5. CASE BeginStep
  <2>1. /\ pc = "Loop" /\ pc' = "DoBuild" /\ time' = time /\ asked' = asked
        /\ want_snapshot' = FALSE
    BY <1>5 DEF BeginStep
  <2>2. Begun = time - 1 /\ Begun' = time
    BY <2>1 DEF Begun
  <2>3. (pc \notin {"Done", "Thrown"} => (want_snapshot <=> Begun \in asked))'
    <3>1. time \notin asked
      BY <1>0, <1>1, <2>1, <2>2
    <3> QED
      BY <2>1, <2>2, <3>1, Zenon
  <2>4. CASE want_snapshot
    <3>1. Snapshots' = Append(Snapshots, time)
      BY <1>5, <2>4, Zenon DEF BeginStep
    <3>2. Begun \in asked
      BY <1>2, <2>1, <2>4, Zenon
    <3>3. AllBefore(Snapshots, time)
      BY <1>0, <1>1, <2>1, <2>2 DEF AllBefore
    <3>4. Increasing(Snapshots') /\ OneMore(Snapshots, time, Snapshots')
      BY <1>0, <1>1, <3>1, <3>3, TakeOne
    <3>5. Taken' = Taken \cup {time}
      BY <3>4 DEF Taken, OneMore
    <3>6. (\A k \in DOMAIN Snapshots :
                Snapshots[k] - 1 \in asked \/ (pc = "Done" /\ k = Len(Snapshots)))'
      BY <1>1, <2>1, <2>2, <3>2, <3>4 DEF OneMore
    <3>7. (\A k \in DOMAIN Snapshots : Snapshots[k] <= Begun)'
      <4> SUFFICES ASSUME NEW k \in DOMAIN Snapshots'
                   PROVE  Snapshots'[k] <= time
        BY <2>2
      <4>1. DOMAIN Snapshots' = DOMAIN Snapshots \cup {Len(Snapshots')}
        BY <3>4 DEF OneMore
      <4>2. CASE k \in DOMAIN Snapshots
        <5>1. Snapshots'[k] = Snapshots[k]
          BY <3>4, <4>2, Zenon DEF OneMore
        <5>2. Snapshots[k] < time /\ Snapshots[k] \in Int
          BY <1>0, <3>3, <4>2, Zenon DEF AllBefore
        <5> QED
          BY <1>0, <5>1, <5>2
      <4>3. CASE k = Len(Snapshots')
        BY <1>0, <3>4, <4>3 DEF OneMore
      <4> QED
        BY <4>1, <4>2, <4>3
    <3>8. (\A t \in asked : t <= Begun /\ (t < Begun => t + 1 \in Taken))'
      <4> SUFFICES ASSUME NEW t \in asked
                   PROVE  t <= time /\ (t < time => t + 1 \in Taken')
        BY <2>1, <2>2
      <4> QED
        BY <1>0, <1>1, <2>1, <2>2, <3>5
    <3>9. (\A t \in asked : t + 1 < time \/ pc = "Done" => t + 1 \in Taken)'
      BY <1>1, <2>1, <3>5
    <3> QED
      BY <2>1, <2>3, <3>4, <3>6, <3>7, <3>8, <3>9 DEF Increasing
  <2>5. CASE ~want_snapshot
    <3>1. Snapshots' = Snapshots /\ Taken' = Taken
      BY <1>5, <2>5, Zenon DEF BeginStep, Taken
    <3>2. Begun \notin asked
      BY <1>2, <2>1, <2>5, Zenon
    <3>3. \A t \in asked : t <= time /\ (t < time => t + 1 \in Taken)
      BY <1>0, <1>1, <2>1, <2>2, <3>2
    <3>4. \A k \in DOMAIN Snapshots : Snapshots[k] <= time
      BY <1>0, <1>1, <2>1, <2>2
    <3> QED
      BY <1>1, <2>1, <2>2, <2>3, <3>1, <3>3, <3>4 DEF Increasing
  <2> QED
    BY <2>4, <2>5
<1>6. CASE EndStep
  <2>1. pc = "DoDecom" /\ time' = time + 1 /\ Snapshots' = Snapshots /\ asked' = asked
        /\ want_snapshot' = want_snapshot /\ Taken' = Taken
    BY <1>6 DEF EndStep, flags, tables, Taken
  <2>2. pc' \in {"Finish", "Loop"}
    BY <1>6, Zenon DEF EndStep
  <2>3. Begun = time /\ Begun' = time
    BY <1>0, <2>1, <2>2 DEF Begun
  <2>4. (pc \notin {"Done", "Thrown"} => (want_snapshot <=> Begun \in asked))'
    <3>1. pc \notin {"Done", "Thrown"}
      BY <2>1
    <3> QED
      BY <1>2, <2>1, <2>3, <3>1, Zenon
  <2>5. \A t \in asked : t + 1 < time + 1 => t + 1 \in Taken
    BY <1>0, <1>1, <2>1, <2>3
  <2> QED
    BY <1>1, <2>1, <2>2, <2>3, <2>4, <2>5 DEF Increasing
<1>7. CASE FinishSim
  <2>1. /\ pc \in {"Finish", "Loop"} /\ pc' = "Done" /\ time' = time /\ asked' = asked
        /\ Snapshots' = Append(Snapshots, time)
    BY <1>7 DEF FinishSim, flags
  <2>2. Begun = time - 1
    BY <2>1 DEF Begun
  <2>3. AllBefore(Snapshots, time)
    BY <1>0, <1>1, <2>1, <2>2 DEF AllBefore
  <2>4. Increasing(Snapshots') /\ OneMore(Snapshots, time, Snapshots')
    BY <1>0, <1>1, <2>1, <2>3, TakeOne
  <2>5. Taken' = Taken \cup {time}
    BY <2>4 DEF Taken, OneMore
  <2>6. (\A k \in DOMAIN Snapshots :
                Snapshots[k] - 1 \in asked \/ (pc = "Done" /\ k = Len(Snapshots)))'
    BY <1>1, <2>1, <2>4 DEF OneMore
  <2>7. (\A t \in asked : t + 1 < time \/ pc = "Done" => t + 1 \in Taken)'
    <3> SUFFICES ASSUME NEW t \in asked
                 PROVE  t + 1 \in Taken'
      BY <2>1
    <3> QED
      BY <1>0, <1>1, <2>1, <2>2, <2>5
  <2> QED
    BY <2>1, <2>4, <2>6, <2>7 DEF Increasing
<1>8. CASE CallSnapshot
  <2>1. /\ time' = time /\ pc' = pc /\ Snapshots' = Snapshots /\ Taken' = Taken
        /\ want_snapshot' = TRUE
        /\ asked' = asked \cup {IF pc = "LoadSched" THEN -1 ELSE time}
        /\ pc \in Callbacks /\ Begun' = Begun
    BY <1>0, <1>8 DEF CallSnapshot, CanCall, tables, Taken, Begun
  <2>2. asked' = asked \cup {Begun} /\ pc \notin {"Done", "Thrown"}
    BY <1>0, <2>1 DEF Callbacks, Begun
  <2>3. (pc \notin {"Done", "Thrown"} => (want_snapshot <=> Begun \in asked))'
    <3>1. Begun \in asked'
      BY <2>2
    <3> QED
      BY <2>1, <3>1, Zenon
  <2>4. Begun \in Int /\ Begun + 1 >= time
    BY <1>0 DEF Begun
  <2>5. (\A t \in asked : t <= Begun /\ (t < Begun => t + 1 \in Taken))'
    BY <1>0, <1>1, <2>1, <2>2, <2>4
  <2> QED
    BY <1>0, <1>1, <2>1, <2>2, <2>3, <2>4, <2>5 DEF Increasing
<1>9. CASE CallKillSim
  <2>1. /\ time' = time /\ pc' = pc /\ Snapshots' = Snapshots /\ Taken' = Taken
        /\ want_snapshot' = want_snapshot /\ asked' = asked /\ Begun' = Begun
    BY <1>9 DEF CallKillSim, tables, Taken, Begun
  <2>2. (pc \notin {"Done", "Thrown"} => (want_snapshot <=> Begun \in asked))'
    BY <1>2, <2>1, Zenon
  <2> QED
    BY <1>1, <2>1, <2>2 DEF Increasing
<1> QED
  BY <1>4, <1>5, <1>6, <1>7, <1>8, <1>9, RequestFrames

-----------------------------------------------------------------------------
(***************************************************************************)
(* The end of the simulation.                                              *)
(***************************************************************************)
LEMMA KillStep ==
    ASSUME KernelInv, KillInv, [Next]_vars, Duration > 0
    PROVE  KillInv'
<1>0. /\ time \in Int /\ Duration \in Int /\ time >= 0 /\ time <= Duration
      /\ killed \in Int /\ want_kill \in BOOLEAN
      /\ Callers \subseteq Callbacks
      /\ pc \in {"Load", "LoadSched"} => time = 0
  BY ConstantsAssumption DEF KernelInv, TypeOK, ControlTypes, OutputTypes, FlagTypes, Times, Control
<1>1. /\ pc \notin {"Finish", "Done", "Thrown"} /\ want_kill => killed = time
      /\ pc = "Loop" /\ want_kill => time = 0
      /\ pc = "Finish" => want_kill /\ killed = time - 1
      /\ want_kill <=> killed # -1
  BY DEF KillInv
<1>2. /\ pc # "Done" => Finish = << >>
      /\ EndsAsAsked
  BY DEF KillInv
<1>3. CASE Quiet
  <2>1. /\ time' = time /\ Finish' = Finish /\ want_kill' = want_kill /\ killed' = killed
        /\ \/ pc' = pc
           \/ pc \notin {"Finish", "Done", "Thrown"} /\ pc' = "Thrown"
           \/ pc \in {"Load", "LoadSched"} /\ pc' \in {"Load", "LoadSched", "Loop"}
           \/ pc \notin Outside /\ pc' \notin Outside
    BY <1>3 DEF Quiet
  <2>2. EndsAsAsked' /\ (pc' # "Done" => Finish' = << >>)
    BY <1>2, <2>1 DEF EndsAsAsked, Outside
  <2>3. /\ pc' \notin {"Finish", "Done", "Thrown"} => pc \notin {"Finish", "Done", "Thrown"}
        /\ pc' = "Loop" => pc = "Loop" \/ time = 0
        /\ pc' = "Finish" => pc = "Finish"
    BY <1>0, <2>1 DEF Outside
  <2> QED
    BY <1>1, <2>1, <2>2, <2>3, Zenon DEF KillInv
<1>4. CASE BeginStep
  <2>1. /\ time' = time /\ Finish' = Finish /\ want_kill' = want_kill /\ killed' = killed
        /\ pc = "Loop" /\ pc' = "DoBuild"
    BY <1>4 DEF BeginStep
  <2>2. EndsAsAsked' /\ (pc' # "Done" => Finish' = << >>)
    BY <1>2, <2>1 DEF EndsAsAsked
  <2>3. pc' \notin {"Loop", "Finish"} /\ pc \notin {"Finish", "Done", "Thrown"}
    BY <2>1
  <2> QED
    BY <1>1, <2>1, <2>2, <2>3, Zenon DEF KillInv
<1>5. CASE EndStep
  <2>1. /\ time' = time + 1 /\ Finish' = Finish /\ want_kill' = want_kill /\ killed' = killed
        /\ pc = "DoDecom"
    BY <1>5 DEF EndStep, tables, flags
  <2>2. pc' = IF want_kill THEN "Finish" ELSE "Loop"
    BY <1>5 DEF EndStep
  <2>3. EndsAsAsked' /\ Finish' = << >> /\ pc \notin {"Finish", "Done", "Thrown"}
    BY <1>2, <2>1 DEF EndsAsAsked
  <2>4. time' - 1 = time
    BY <1>0, <2>1
  <2>5. CASE want_kill
    <3>1. pc' = "Finish" /\ killed' = time' - 1
      BY <1>1, <2>1, <2>2, <2>3, <2>4, <2>5, Zenon
    <3>2. pc' \notin {"Done", "Loop"} /\ pc' \in {"Finish", "Done", "Thrown"}
      BY <3>1
    <3> QED
      BY <1>1, <2>1, <2>3, <2>5, <3>1, <3>2, Zenon DEF KillInv
  <2>6. CASE ~want_kill
    <3>1. pc' = "Loop"
      BY <2>2, <2>6, Zenon
    <3>2. pc' \notin {"Done", "Finish"}
      BY <3>1
    <3> QED
      BY <1>1, <2>1, <2>3, <2>6, <3>1, <3>2, Zenon DEF KillInv
  <2> QED
    BY <2>5, <2>6
<1>6. CASE FinishSim
  <2>1. /\ pc = "Finish" \/ (pc = "Loop" /\ time >= Duration)
        /\ Finish' = Append(Finish, <<want_kill, time - 1>>)
        /\ killed' = killed /\ pc' = "Done" /\ time' = time
    BY <1>6 DEF FinishSim, flags
  <2>2. want_kill' = want_kill
    BY <1>6 DEF FinishSim, flags
  <2>3. Finish = << >>
    BY <1>2, <2>1
  <2>4. <<want_kill, time - 1>> = IF killed = -1 THEN <<FALSE, Duration - 1>> ELSE <<TRUE, killed>>
    <3>1. CASE pc = "Finish"
      <4>1. want_kill /\ killed = time - 1 /\ killed # -1
        BY <1>1, <3>1, Zenon
      <4>2. want_kill = TRUE
        BY <1>0, <4>1, Zenon
      <4> QED
        BY <4>1, <4>2, Zenon
    <3>2. CASE pc = "Loop" /\ time >= Duration
      <4>1. time = Duration /\ time # 0
        BY <1>0, <3>2
      <4>2. ~want_kill /\ killed = -1
        BY <1>1, <3>2, <4>1, Zenon
      <4>3. want_kill = FALSE
        BY <1>0, <4>2, Zenon
      <4> QED
        BY <4>1, <4>2, <4>3, Zenon
    <3> QED
      BY <2>1, <3>1, <3>2
  <2>5. EndsAsAsked'
    <3> DEFINE row == <<want_kill, time - 1>>
    <3> HIDE DEF row
    <3>1. Finish' = <<row>>
      BY <2>1, <2>3 DEF row
    <3>2. DOMAIN Finish' = {1} /\ Finish'[1] = row
      BY <3>1
    <3>3. row = IF killed = -1 THEN <<FALSE, Duration - 1>> ELSE <<TRUE, killed>>
      BY <2>4 DEF row
    <3> QED
      BY <2>1, <3>2, <3>3, Zenon DEF EndsAsAsked
  <2>6. pc' \in {"Finish", "Done", "Thrown"} /\ pc' \notin {"Loop", "Finish"}
    BY <2>1
  <2> QED
    BY <1>1, <2>1, <2>2, <2>5, <2>6, Zenon DEF KillInv
<1>7. CASE CallSnapshot
  <2>1. /\ time' = time /\ Finish' = Finish /\ want_kill' = want_kill /\ killed' = killed
        /\ pc' = pc
    BY <1>7 DEF CallSnapshot, tables
  <2>2. EndsAsAsked'
    BY <1>2, <2>1 DEF EndsAsAsked
  <2> QED
    BY <1>1, <1>2, <2>1, <2>2, Zenon DEF KillInv
<1>8. CASE CallKillSim
  <2>1. /\ time' = time /\ Finish' = Finish /\ want_kill' = TRUE
        /\ killed' = (IF killed = -1 THEN time ELSE killed)
        /\ pc' = pc /\ pc \in Callbacks
    BY <1>0, <1>8 DEF CallKillSim, CanCall, tables
  <2>2. pc \notin {"Loop", "Finish", "Done", "Thrown"}
    BY <2>1 DEF Callbacks
  <2>3. killed' = time /\ killed' # -1
    <3>1. killed # -1 => killed = time
      BY <1>1, <2>2, Zenon
    <3> QED
      BY <1>0, <2>1, <3>1
  <2>4. Finish' = << >> /\ EndsAsAsked'
    <3>1. Finish' = << >> /\ DOMAIN Finish' = {}
      BY <1>2, <2>1, <2>2
    <3> QED
      BY <3>1, Zenon DEF EndsAsAsked
  <2> QED
    BY <2>1, <2>2, <2>3, <2>4, Zenon DEF KillInv
<1> QED
  BY <1>3, <1>4, <1>5, <1>6, <1>7, <1>8, RequestFrames

-----------------------------------------------------------------------------
(***************************************************************************)
(* Context::n_prototypes.  Names are counted by the agent that enters or   *)
(* leaves; the set of live agents of the prototype grows or shrinks by it. *)
(***************************************************************************)
LEMMA CountEnter ==
    ASSUME HeapTypes, RegistryTypes, CountInv, time \in Times,
           NEW a \in Addr \ agent_list, NEW p \in Proto,
           NEW par \in agent_list \cup {NULL}, Enter(a, p, par)
    PROVE  CountInv'
<1>1. /\ agent_list' = agent_list \cup {a} /\ mem'[a].proto = p
      /\ \A b \in agent_list : mem'[b].proto = mem[b].proto
  BY EnterEffect DEF Joined, Enter
<1>2. IsFiniteSet(agent_list')
  BY <1>1, FS_AddElement DEF CountInv
<1>3. n_prototypes' = IF Kind[p] = "Facility"
                      THEN [n_prototypes EXCEPT ![p] = n_prototypes[p] + 1] ELSE n_prototypes
  BY DEF Enter, EnterNotify
<1>4. ASSUME NEW q \in Proto, Kind[q] = "Facility"
      PROVE  n_prototypes'[q] = Cardinality(LiveOf(q)')
  <2>1. /\ IsFiniteSet(LiveOf(q)) /\ LiveOf(q) \subseteq agent_list
        /\ Cardinality(LiveOf(q)) = n_prototypes[q]
    BY <1>4, FS_Subset DEF CountInv, FacilitiesCounted, LiveOf
  <2>2. CASE q = p
    <3>1. LiveOf(q)' = LiveOf(q) \cup {a} /\ a \notin LiveOf(q)
      BY <1>1, <2>1, <2>2 DEF LiveOf
    <3>2. Cardinality(LiveOf(q) \cup {a}) = Cardinality(LiveOf(q)) + 1
      BY <2>1, <3>1, FS_AddElement
    <3> QED
      BY <1>3, <1>4, <2>1, <2>2, <3>1, <3>2 DEF RegistryTypes
  <2>3. CASE q # p
    <3>1. LiveOf(q)' = LiveOf(q)
      BY <1>1, <2>3 DEF LiveOf
    <3> QED
      BY <1>3, <2>1, <2>3, <3>1 DEF RegistryTypes
  <2> QED
    BY <2>2, <2>3
<1> QED
  BY <1>2, <1>4 DEF CountInv, FacilitiesCounted

\* An agent that leaves is taken off the count of its facilities.
LEMMA CountLeave ==
    ASSUME HeapTypes, RegistryTypes, CountInv,
           subj \in agent_list, subj \notin blocked, Decommission
    PROVE  CountInv'
<1>1. /\ agent_list' = agent_list \ {subj} /\ agent_list \subseteq Addr
      /\ \A b \in agent_list : mem'[b].proto = mem[b].proto
  BY DecommissionEffect DEF Left, HeapTypes
<1>2. IsFiniteSet(agent_list')
  BY <1>1, FS_RemoveElement DEF CountInv
<1>3. n_prototypes' = [n_prototypes EXCEPT ![mem[subj].proto] = n_prototypes[mem[subj].proto] - 1]
  BY DEF Decommission, UnregisterAgent
<1>4. ASSUME NEW q \in Proto, Kind[q] = "Facility"
      PROVE  n_prototypes'[q] = Cardinality(LiveOf(q)')
  <2>1. /\ IsFiniteSet(LiveOf(q)) /\ LiveOf(q) \subseteq agent_list
        /\ Cardinality(LiveOf(q)) = n_prototypes[q]
    BY <1>4, FS_Subset DEF CountInv, FacilitiesCounted, LiveOf
  <2>2. CASE q = mem[subj].proto
    <3>1. LiveOf(q)' = LiveOf(q) \ {subj} /\ subj \in LiveOf(q)
      BY <1>1, <2>1, <2>2 DEF LiveOf
    <3>2. Cardinality(LiveOf(q) \ {subj}) = Cardinality(LiveOf(q)) - 1
      BY <2>1, <3>1, FS_RemoveElement
    <3> QED
      BY <1>3, <1>4, <2>1, <2>2, <3>1, <3>2 DEF RegistryTypes
  <2>3. CASE q # mem[subj].proto
    <3>1. LiveOf(q)' = LiveOf(q)
      BY <1>1, <2>3 DEF LiveOf
    <3> QED
      BY <1>3, <2>1, <2>3, <3>1 DEF RegistryTypes
  <2> QED
    BY <2>2, <2>3
<1> QED
  BY <1>2, <1>4 DEF CountInv, FacilitiesCounted

(***************************************************************************)
(* How agents enter: loaded before the run or built in DoBuild, each from  *)
(* a prototype and below a live agent or nobody.                           *)
(***************************************************************************)
LEMMA WhoEnters ==
    ASSUME KernelInv, LoadInitialAgents \/ DoBuild
    PROVE  \/ UNCHANGED <<heap, regvars>>
           \/ \E a \in Addr \ agent_list, p \in Proto, par \in agent_list \cup {NULL} :
                 Enter(a, p, par)
<1> USE ConstantsAssumption
<1>1. /\ build_list \in Seq(Proto \X Ptr) /\ NULL \notin Addr /\ next_id \in Nat
  BY DEF KernelInv, TypeOK, ControlTypes, HeapTypes
<1>2. CASE LoadInitialAgents /\ next_id < Len(Initial)
  <2> DEFINE p == Initial[next_id + 1][1]
             k == Initial[next_id + 1][2]
  <2>1. p \in Proto
    <3>1. next_id + 1 \in 1..Len(Initial)
      BY <1>1, <1>2
    <3>2. Initial[next_id + 1] \in Proto \X Nat
      BY <3>1
    <3> QED
      BY <3>2
  <2>2. PICK a \in Addr \ agent_list,
             par \in IF k = 0 THEN {NULL} ELSE {b \in agent_list : mem[b].id = k - 1} :
                 Enter(a, p, par)
    BY <1>2 DEF LoadInitialAgents
  <2>3. par \in agent_list \cup {NULL}
    BY <2>2
  <2> HIDE DEF p, k
  <2> QED
    BY <2>1, <2>2, <2>3
<1>3. CASE LoadInitialAgents /\ ~(next_id < Len(Initial))
  BY <1>3 DEF LoadInitialAgents
<1>4. CASE DoBuild
  <2> DEFINE p   == Head(build_list)[1]
             par == Head(build_list)[2]
  <2>1. p \in Proto /\ par \in Ptr
    <3>1. Head(build_list) \in Proto \X Ptr
      BY <1>1, <1>4 DEF DoBuild
    <3> QED
      BY <3>1
  <2>2. CASE Dangling(par) \/ Addr = agent_list
    BY <1>4, <2>2 DEF DoBuild, Throw
  <2>3. CASE ~Dangling(par) /\ Addr # agent_list
    <3>1. PICK a \in Addr \ agent_list : Enter(a, p, par)
      BY <1>4, <2>3 DEF DoBuild
    <3>2. par \in agent_list \cup {NULL}
      BY <2>1, <2>3 DEF Dangling, Ptr
    <3> HIDE DEF p, par
    <3> QED
      BY <2>1, <3>1, <3>2
  <2> QED
    BY <2>2, <2>3
<1> QED
  BY <1>2, <1>3, <1>4

\* Every step keeps CountInv.
LEMMA CountStep ==
    ASSUME KernelInv, CountInv, [Next]_vars
    PROVE  CountInv'
<1>1. /\ HeapTypes /\ RegistryTypes /\ time \in Times /\ HeapFrame /\ RegistryFrame
  BY Frames DEF KernelInv, TypeOK, ControlTypes
<1>2. ASSUME agent_list' = agent_list, mem' = mem, n_prototypes' = n_prototypes
      PROVE  CountInv'
  BY <1>2 DEF CountInv, FacilitiesCounted, LiveOf
<1>3. CASE LoadInitialAgents \/ DoBuild
  <2>1. CASE UNCHANGED <<heap, regvars>>
    BY <1>2, <2>1 DEF heap, regvars
  <2>2. CASE \E a \in Addr \ agent_list, p \in Proto, par \in agent_list \cup {NULL} :
                 Enter(a, p, par)
    BY <1>1, <2>2, CountEnter
  <2> QED
    BY <1>3, <2>1, <2>2, WhoEnters
<1>4. CASE Decommission
  <2>1. CASE subj \in blocked
    BY <1>2, <1>4, <2>1 DEF Decommission, Throw, heap, regvars
  <2>2. CASE subj \notin blocked
    <3>1. subj \in agent_list
      BY <1>4 DEF Decommission, KernelInv, Control
    <3> QED
      BY <1>1, <1>4, <2>2, <3>1, CountLeave
  <2> QED
    BY <2>1, <2>2
<1>5. CASE ChangeCondition
  BY <1>2, <1>5 DEF ChangeCondition, regvars
<1>6. CASE UNCHANGED heap /\ UNCHANGED regvars
  BY <1>2, <1>6 DEF heap, regvars
<1> QED
  BY <1>1, <1>3, <1>4, <1>5, <1>6 DEF HeapFrame, RegistryFrame

-----------------------------------------------------------------------------
\* The three invariants hold at first.
LEMMA InitRequests == Init => SnapshotInv /\ KillInv /\ CountInv
<1> SUFFICES ASSUME Init PROVE SnapshotInv /\ KillInv /\ CountInv
  OBVIOUS
<1>1. DOMAIN Snapshots = {} /\ DOMAIN Finish = {} /\ asked = {} /\ pc = "Load"
      /\ Finish = << >> /\ killed = -1 /\ agent_list = {} /\ n_prototypes = [p \in Proto |-> 0]
  BY DEF Init
<1>2. want_snapshot = FALSE /\ want_kill = FALSE
  BY DEF Init
<1>3. SnapshotInv
  BY <1>1, <1>2, Zenon DEF SnapshotInv
<1>4. pc \notin {"Loop", "Finish", "Done"}
  BY <1>1
<1>5. KillInv
  BY <1>1, <1>2, <1>4, Zenon DEF KillInv, EndsAsAsked
<1>6. CountInv
  <2>1. \A p \in Proto : LiveOf(p) = {} /\ n_prototypes[p] = 0
    BY <1>1 DEF LiveOf
  <2> QED
    BY <1>1, <2>1, FS_EmptySet DEF CountInv, FacilitiesCounted
<1> QED
  BY <1>3, <1>5, <1>6

(***************************************************************************)
(* A snapshot asked for in a time step is taken at the beginning of the    *)
(* next one, once, whoever asks and from whichever callback; the only      *)
(* other snapshot is the final one (Timer::Snapshot and RunSim's loop).    *)
(***************************************************************************)
THEOREM SnapshotsTaken == Spec => []SnapshotsAsAsked
<1>1. Init => SnapshotInv
  BY InitRequests
<1>2. KernelInv /\ QueuedOnce /\ SnapshotInv /\ [Next]_vars => SnapshotInv'
  BY SnapshotStep
<1>3. SnapshotInv => SnapshotsAsAsked
  BY DEF SnapshotInv, SnapshotsAsAsked, Taken
<1> QED
  BY <1>1, <1>2, <1>3, Invariance, PTL DEF Spec

(***************************************************************************)
(* Requests to the timer are honoured in every simulation that has a time  *)
(* step: KillSim ends it with the step in which it was first called, and   *)
(* the Finish row says so.  (With a duration of 0 no step is left for a    *)
(* KillSim made while the schedules are loaded to end.)                    *)
(***************************************************************************)
THEOREM RequestsServed ==
    ASSUME Duration > 0
    PROVE  Spec => []RequestsHonoured
<1>1. Init => KillInv
  BY InitRequests
<1>2. KernelInv /\ QueuedOnce /\ KillInv /\ [Next]_vars => KillInv'
  BY KillStep
<1>3. KillInv /\ SnapshotsAsAsked => RequestsHonoured
  BY DEF KillInv, RequestsHonoured
<1> QED
  BY <1>1, <1>2, <1>3, Invariance, SnapshotsTaken, PTL DEF Spec

(***************************************************************************)
(* Context::n_prototypes answers the number of live facilities of a        *)
(* prototype after any sequence of builds and decommissionings.            *)
(***************************************************************************)
THEOREM CountsExact == Spec => []FacilitiesCounted
<1>1. Init => CountInv
  BY InitRequests
<1>2. KernelInv /\ QueuedOnce /\ CountInv /\ [Next]_vars => CountInv'
  BY CountStep
<1>3. CountInv => FacilitiesCounted
  BY DEF CountInv
<1> QED
  BY <1>1, <1>2, <1>3, Invariance, PTL DEF Spec

-----------------------------------------------------------------------------
(***************************************************************************)
(* PART 3.  The kernel keeps the schedules of orderly agents (Orderly): no *)
(* pointer to a deleted agent is followed, everybody enters and exits as   *)
(* was last scheduled, and Institution::Tock enforces lifetimes.           *)
(***************************************************************************)

(***************************************************************************)
(* The steps, as far as the schedules see them.                            *)
(***************************************************************************)
Middle == {"DoTick", "Tick", "DoResEx", "Trade", "DoTock", "InstTock", "Tock"}

SameHeap   == agent_list' = agent_list /\ mem' = mem /\ next_id' = next_id
SameDecoms == decom_queue' = decom_queue /\ DecomSchedule' = DecomSchedule
SameBuilds == build_queue' = build_queue /\ BuildSchedule' = BuildSchedule
SameLists  == build_list' = build_list /\ decom_list' = decom_list
SameRows   == AgentEntry' = AgentEntry /\ AgentExit' = AgentExit

Idle ==
    /\ SameHeap /\ SameDecoms /\ SameBuilds /\ SameLists /\ SameRows
    /\ time' = time /\ error' = error
    /\ \/ pc' = pc /\ self' = self
       \/ pc = "Load" /\ pc' = "LoadSched" /\ next_id >= Len(Initial)
       \/ pc = "LoadSched" /\ pc' = "Loop"
       \/ pc \in {"Loop", "Finish"} /\ pc' = "Done" /\ (pc = "Loop" => time >= Duration)
       \/ pc \in Building \ {"EnterNotify"} /\ pc' \in Building \ {"EnterNotify"}
       \/ pc = "DoBuild" /\ build_list = << >> /\ pc' \in Middle
       \/ pc \in Middle /\ pc' \in Middle
       \/ pc \in Closing /\ pc' \in Closing

\* Where nothing is thrown.
NoThrow == {"Load", "Loop", "Finish", "Done", "Thrown"}

Fails ==
    /\ SameHeap /\ SameDecoms /\ SameBuilds /\ SameLists /\ SameRows
    /\ time' = time /\ pc \notin NoThrow /\ pc' = "Thrown"
    /\ error' # "UseAfterFree"

Dangles ==
    \/ pc = "DoBuild" /\ build_list # << >> /\ Dangling(Head(build_list)[2])
    \/ pc = "DoDecom" /\ decom_list # << >> /\ Dangling(Head(decom_list))

LoadsOne(a, p, par) ==
    /\ Enter(a, p, par) /\ SameDecoms /\ SameBuilds /\ SameLists
    /\ pc = "Load" /\ pc' = "Load" /\ time' = time /\ error' = error
    /\ next_id < Len(Initial) /\ AgentExit' = AgentExit
    /\ AgentEntry' = AgentEntry \cup {<<mem'[a].id, mem'[a].proto, mem'[a].parent_id, time>>}

BuildsOne(a, p, par) ==
    /\ Enter(a, p, par) /\ SameDecoms /\ SameBuilds /\ SameRows
    /\ pc = "DoBuild" /\ pc' = "EnterNotify" /\ self' = a
    /\ time' = time /\ error' = error /\ decom_list' = decom_list
    /\ build_list # << >> /\ build_list' = Tail(build_list)
    /\ p = Head(build_list)[1] /\ par = Head(build_list)[2]

Begins ==
    /\ SameHeap /\ SameDecoms /\ SameBuilds /\ SameRows
    /\ time' = time /\ error' = error /\ decom_list' = decom_list
    /\ pc = "Loop" /\ pc' = "DoBuild" /\ time < Duration /\ build_list' = build_queue[time]

Records ==
    /\ SameHeap /\ SameDecoms /\ SameBuilds /\ SameLists
    /\ time' = time /\ error' = error /\ AgentExit' = AgentExit
    /\ pc = "EnterNotify" /\ pc' = "Build" /\ self' = self
    /\ AgentEntry' = AgentEntry \cup {<<mem[self].id, mem[self].proto, mem[self].parent_id, time>>}

Closes ==
    /\ SameHeap /\ SameDecoms /\ SameBuilds /\ SameRows
    /\ time' = time /\ error' = error /\ build_list' = build_list
    /\ pc = "DoTock" /\ pc' = "DoDecom" /\ decom_list' = decom_queue[time]

Leaves ==
    /\ Decommission /\ subj \notin blocked
    /\ subj \in agent_list /\ decom_list # << >> /\ subj = Head(decom_list)
    /\ SameDecoms /\ SameBuilds /\ next_id' = next_id /\ AgentEntry' = AgentEntry
    /\ time' = time /\ error' = error /\ build_list' = build_list
    /\ pc = "Decommission" /\ pc' = "DoDecom" /\ decom_list' = Tail(decom_list)
    /\ AgentExit' = Append(AgentExit, <<mem[subj].id, time>>)

Ends ==
    /\ SameHeap /\ SameDecoms /\ SameBuilds /\ SameLists /\ SameRows
    /\ error' = error /\ pc = "DoDecom" /\ decom_list = << >> /\ time < Duration
    /\ time' = time + 1 /\ pc' \in {"Finish", "Loop"}

Reschedules(m, t) ==
    /\ SameHeap /\ SameBuilds /\ SameLists /\ SameRows
    /\ time' = time /\ error' = error /\ pc' = pc /\ self' = self
    /\ pc \in Callers \cup {"InstTock"} /\ m \in Addr /\ t >= time /\ Mortal(m)
    /\ decom_queue' = Requeue(decom_queue, m, t)
    /\ DecomSchedule' = [DecomSchedule EXCEPT ![mem[m].id] = t]

Books(par, p, t) ==
    /\ SameHeap /\ SameDecoms /\ SameLists /\ SameRows
    /\ time' = time /\ error' = error /\ pc' = pc /\ self' = self
    /\ pc \in Callers /\ t > time /\ Lasting(par) /\ par \in Ptr
    /\ build_queue' = [build_queue EXCEPT ![t] = Append(build_queue[t], <<p, par>>)]
    /\ BuildSchedule' = Append(BuildSchedule, <<p, IdOf(par), t>>)

ScheduleSteps ==
    \/ Idle \/ Fails \/ Dangles \/ Begins \/ Records \/ Closes \/ Leaves \/ Ends
    \/ \E a \in Addr \ agent_list, p \in Proto, par \in agent_list \cup {NULL} :
          LoadsOne(a, p, par) \/ BuildsOne(a, p, par)
    \/ \E m \in agent_list, t \in Times : Reschedules(m, t)
    \/ \E par \in agent_list \cup {NULL}, p \in Proto, t \in Times : Books(par, p, t)

\* An agent's calls name live agents: itself, its children or, while the
\* schedules are loaded, anybody.
LEMMA ReachAlive ==
    ASSUME KernelInv, pc \in Callers
    PROVE  Reach \subseteq agent_list
<1>1. CASE pc = "LoadSched"
  BY <1>1 DEF Reach
<1>2. CASE pc # "LoadSched"
  <2>1. self \in agent_list
    BY <1>2, ConstantsAssumption DEF KernelInv, Control
  <2>2. \A c \in mem[self].children : c \in agent_list
    BY <2>1 DEF KernelInv, FamilyTree
  <2> QED
    BY <1>2, <2>1, <2>2 DEF Reach
<1> QED
  BY <1>1, <1>2

\* An error that is thrown ends the simulation.
LEMMA ThrowFails ==
    ASSUME NEW e, Throw(e), e # "UseAfterFree",
           pc \notin NoThrow
    PROVE  Fails
  BY DEF Throw, Fails, SameHeap, SameDecoms, SameBuilds, SameLists, SameRows,
         heap, queues, loopvars, tables

\* What entering an agent does to the schedules.
LEMMA EnterFrames ==
    ASSUME KernelInv, LoadInitialAgents \/ DoBuild
    PROVE  ScheduleSteps
<1> USE ConstantsAssumption
<1> USE DEF SameHeap, SameDecoms, SameBuilds, SameLists, SameRows, heap, queues, loopvars, tables
<1>1. /\ build_list \in Seq(Proto \X Ptr) /\ NULL \notin Addr /\ next_id \in Nat
      /\ Len(Initial) \in Nat
  BY DEF KernelInv, TypeOK, ControlTypes, HeapTypes
<1>2. CASE LoadInitialAgents /\ next_id < Len(Initial)
  <2> DEFINE p == Initial[next_id + 1][1]
             k == Initial[next_id + 1][2]
  <2>1. p \in Proto
    <3>1. next_id + 1 \in 1..Len(Initial)
      BY <1>1, <1>2
    <3>2. Initial[next_id + 1] \in Proto \X Nat
      BY <3>1
    <3> QED
      BY <3>2
  <2>2. PICK a \in Addr \ agent_list,
             par \in IF k = 0 THEN {NULL} ELSE {b \in agent_list : mem[b].id = k - 1} :
                 Enter(a, p, par) /\ AddToTable(a) /\ pc' = pc
    BY <1>2 DEF LoadInitialAgents
  <2>3. par \in agent_list \cup {NULL}
    BY <2>2
  <2> HIDE DEF p, k
  <2>4. LoadsOne(a, p, par)
    BY <1>2, <2>2 DEF LoadInitialAgents, LoadsOne, AddToTable
  <2> QED
    BY <2>1, <2>2, <2>3, <2>4 DEF ScheduleSteps
<1>3. CASE LoadInitialAgents /\ ~(next_id < Len(Initial))
  <2>1. /\ pc = "Load" /\ pc' = "LoadSched" /\ next_id >= Len(Initial)
        /\ SameHeap /\ SameDecoms /\ SameBuilds /\ SameLists /\ SameRows
        /\ time' = time /\ error' = error
    BY <1>1, <1>3 DEF LoadInitialAgents
  <2> QED
    BY <2>1 DEF ScheduleSteps, Idle, Outside
<1>4. CASE DoBuild
  <2> DEFINE p   == Head(build_list)[1]
             par == Head(build_list)[2]
  <2>1. p \in Proto /\ par \in Ptr
    <3>1. Head(build_list) \in Proto \X Ptr
      BY <1>1, <1>4 DEF DoBuild
    <3> QED
      BY <3>1
  <2>2. CASE Dangling(par)
    BY <1>4, <2>2 DEF DoBuild, ScheduleSteps, Dangles
  <2>3. CASE ~Dangling(par) /\ Addr = agent_list
    <3>1. Throw("BadAlloc") /\ pc \notin NoThrow
      BY <1>4, <2>3 DEF DoBuild, NoThrow
    <3> QED
      BY <3>1, ThrowFails DEF ScheduleSteps
  <2>4. CASE ~Dangling(par) /\ Addr # agent_list
    <3>1. PICK a \in Addr \ agent_list : BuildsOne(a, p, par)
      BY <1>4, <2>4 DEF DoBuild, BuildsOne
    <3>2. par \in agent_list \cup {NULL}
      BY <2>1, <2>4 DEF Dangling, Ptr
    <3> HIDE DEF p, par
    <3> QED
      BY <2>1, <3>1, <3>2 DEF ScheduleSteps
  <2> QED
    BY <2>2, <2>3, <2>4
<1> QED
  BY <1>2, <1>3, <1>4

\* What the calls of agents do to the schedules.
LEMMA CallFrames ==
    ASSUME KernelInv, CallSchedBuild \/ CallSchedDecom \/ InstTock
    PROVE  ScheduleSteps
<1> USE ConstantsAssumption
<1> USE DEF SameHeap, SameDecoms, SameBuilds, SameLists, SameRows, heap, queues, loopvars, tables
<1>1. /\ time \in Times /\ agent_list \subseteq Addr /\ Duration \in Nat
      /\ todo \subseteq agent_list
  BY DEF KernelInv, TypeOK, ControlTypes, HeapTypes, CallsReachLiveAgents
<1>2. CASE CallSchedBuild
  <2>0. pc \in Callers /\ Reach \subseteq agent_list /\ pc \notin NoThrow
    BY <1>2, ReachAlive DEF CallSchedBuild, CanCall, Callbacks, NoThrow
  <2>1. PICK par \in {a \in Reach : KindOf(a) \in BuildFor} \cup {NULL},
             p \in Proto, t0 \in Times \cup {-1} :
               (t0 # -1 \/ time < Duration) /\ SchedBuild(par, p, t0)
    BY <1>2 DEF CallSchedBuild
  <2>2. par \in agent_list \cup {NULL} /\ par \in Ptr /\ Lasting(par)
    BY <1>1, <2>0, <2>1 DEF Lasting, Ptr
  <2> DEFINE t == IF t0 = -1 THEN time + 1 ELSE t0
  <2>3. t \in Times
    BY <1>1, <2>1 DEF Times
  <2>4. CASE TooEarly(t)
    <3>1. Throw("ValueError")
      BY <2>1, <2>4 DEF SchedBuild
    <3> QED
      BY <2>0, <3>1, ThrowFails DEF ScheduleSteps
  <2>5. CASE ~TooEarly(t)
    <3>1. t > time
      BY <1>1, <2>3, <2>5 DEF TooEarly, Times
    <3>2. Books(par, p, t)
      BY <2>0, <2>1, <2>2, <2>5, <3>1 DEF SchedBuild, Books
    <3> HIDE DEF t
    <3> QED
      BY <2>1, <2>2, <2>3, <3>2 DEF ScheduleSteps
  <2> QED
    BY <2>4, <2>5
<1>3. CASE CallSchedDecom
  <2>0. pc \in Callers /\ Reach \subseteq agent_list /\ pc \notin NoThrow
    BY <1>3, ReachAlive DEF CallSchedDecom, CanCall, Callbacks, NoThrow
  <2>1. PICK m \in {a \in Reach : KindOf(a) \in Retire}, t0 \in Times \cup {-1} : SchedDecom(m, t0)
    BY <1>3 DEF CallSchedDecom
  <2>2. m \in agent_list /\ m \in Addr /\ Mortal(m)
    BY <1>1, <2>0, <2>1 DEF Mortal
  <2> DEFINE t == IF t0 = -1 THEN time ELSE t0
  <2>3. t \in Times
    BY <1>1, <2>1
  <2>4. CASE t < time
    <3>1. Throw("ValueError")
      BY <2>1, <2>4 DEF SchedDecom
    <3> QED
      BY <2>0, <3>1, ThrowFails DEF ScheduleSteps
  <2>5. CASE ~(t < time)
    <3>1. t >= time
      BY <1>1, <2>3, <2>5 DEF Times
    <3>2. Reschedules(m, t)
      BY <2>0, <2>1, <2>2, <2>5, <3>1 DEF SchedDecom, Reschedules
    <3> HIDE DEF t
    <3> QED
      BY <2>2, <2>3, <3>2 DEF ScheduleSteps
  <2> QED
    BY <2>4, <2>5
<1>4. CASE InstTock /\ todo = {}
  BY <1>4 DEF InstTock, ScheduleSteps, Idle, Middle
<1>5. CASE InstTock /\ todo # {}
  <2>1. PICK a \in todo :
             /\ decom_queue' = IF AtEndOfLife(a) THEN Requeue(decom_queue, a, time)
                               ELSE decom_queue
             /\ DecomSchedule' = IF AtEndOfLife(a)
                                  THEN [DecomSchedule EXCEPT ![mem[a].id] = time]
                                  ELSE DecomSchedule
             /\ pc' = pc
    BY <1>5 DEF InstTock
  <2>2. a \in agent_list /\ a \in Addr /\ time >= time
    BY <1>1, <2>1 DEF Times
  <2>3. CASE AtEndOfLife(a)
    <3>1. Reschedules(a, time)
      BY <1>5, <2>1, <2>2, <2>3 DEF InstTock, Reschedules, Mortal, AtEndOfLife
    <3> QED
      BY <1>1, <2>2, <3>1 DEF ScheduleSteps
  <2>4. CASE ~AtEndOfLife(a)
    BY <1>5, <2>1, <2>4 DEF InstTock, ScheduleSteps, Idle
  <2> QED
    BY <2>3, <2>4
<1> QED
  BY <1>2, <1>3, <1>4, <1>5

\* What every step does to the schedules.
LEMMA ScheduleFrames ==
    ASSUME KernelInv, [Next]_vars
    PROVE  ScheduleSteps
<1> USE DEF SameHeap, SameDecoms, SameBuilds, SameLists, SameRows, heap, queues, loopvars, tables
<1> USE DEF Outside, Building, Middle, Closing
<1>1. CASE LoadInitialAgents \/ DoBuild
  BY <1>1, EnterFrames
<1>2. CASE RunSim
  BY <1>2 DEF RunSim, ScheduleSteps, Idle
<1>3. CASE BeginStep
  BY <1>3 DEF BeginStep, ScheduleSteps, Begins
<1>5. CASE EnterNotifyReturns
  BY <1>5 DEF EnterNotifyReturns, AddToTable, ScheduleSteps, Records
<1>6. CASE BuildReturns
  BY <1>6 DEF BuildReturns, ScheduleSteps, Idle
<1>7. CASE BuildsDone
  BY <1>7 DEF BuildsDone, ScheduleSteps, Idle
<1>8. CASE DoTick
  BY <1>8 DEF DoTick, Listen, ScheduleSteps, Idle
<1>9. CASE TicksDone
  BY <1>9 DEF TicksDone, ScheduleSteps, Idle
<1>10. CASE DoResEx
  BY <1>10 DEF DoResEx, ScheduleSteps, Idle
<1>11. CASE TradesDone
  BY <1>11 DEF TradesDone, ScheduleSteps, Idle
<1>12. CASE DoTock
  BY <1>12 DEF DoTock, Listen, ScheduleSteps, Idle
<1>13. CASE InstTock \/ CallSchedBuild \/ CallSchedDecom
  BY <1>13, CallFrames
<1>14. CASE TocksDone
  BY <1>14 DEF TocksDone, ScheduleSteps, Closes
<1>15. CASE DoDecom
  <2>1. CASE Dangling(Head(decom_list))
    BY <1>15, <2>1 DEF DoDecom, ScheduleSteps, Dangles
  <2>2. CASE ~Dangling(Head(decom_list))
    <3>1. Idle
      BY <1>15, <2>2 DEF DoDecom, Idle
    <3> QED
      BY <3>1 DEF ScheduleSteps
  <2> QED
    BY <2>1, <2>2
<1>16. CASE Decommission
  <2>1. CASE subj \in blocked
    <3>1. Throw("Error") /\ pc \notin NoThrow
      BY <1>16, <2>1 DEF Decommission, NoThrow
    <3> QED
      BY <3>1, ThrowFails DEF ScheduleSteps
  <2>2. CASE subj \notin blocked
    <3>1. subj \in agent_list /\ decom_list # << >> /\ subj = Head(decom_list)
      BY <1>16 DEF Decommission, KernelInv, Control
    <3>2. Leaves
      BY <1>16, <2>2, <3>1 DEF Decommission, Leaves
    <3> QED
      BY <3>2 DEF ScheduleSteps
  <2> QED
    BY <2>1, <2>2
<1>17. CASE EndStep
  <2>1. pc' \in {"Finish", "Loop"}
    BY <1>17, Zenon DEF EndStep
  <2>2. time < Duration
    BY <1>17 DEF EndStep, KernelInv, Control
  <2> QED
    BY <1>17, <2>1, <2>2 DEF EndStep, ScheduleSteps, Ends
<1>18. CASE FinishSim
  BY <1>18 DEF FinishSim, ScheduleSteps, Idle
<1>19. CASE CallbackReturns
  <2>1. \/ pc = "BuildNotify" /\ pc' = "DoBuild"
        \/ pc = "Tick" /\ pc' = "DoTick"
        \/ pc = "Trade" /\ pc' = "DoResEx"
        \/ pc = "Tock" /\ pc' = "DoTock"
        \/ pc = "DecomNotify" /\ pc' = "Decommission"
    BY <1>19 DEF CallbackReturns, Caller
  <2> QED
    BY <1>19, <2>1 DEF CallbackReturns, ScheduleSteps, Idle
<1>22. CASE CallSnapshot
  BY <1>22 DEF CallSnapshot, ScheduleSteps, Idle
<1>23. CASE CallKillSim
  BY <1>23 DEF CallKillSim, ScheduleSteps, Idle
<1>24. CASE ChangeCondition
  BY <1>24 DEF ChangeCondition, ScheduleSteps, Idle
<1>25. CASE UNCHANGED vars
  BY <1>25 DEF vars, ScheduleSteps, Idle
<1> QED
  BY <1>1, <1>2, <1>3, <1>5, <1>6, <1>7, <1>8, <1>9, <1>10, <1>11, <1>12, <1>13, <1>14, <1>15, <1>16, <1>17, <1>18, <1>19, <1>22, <1>23, <1>24, <1>25
     DEF Next, Kernel, AgentCall, Stopped

-----------------------------------------------------------------------------
(***************************************************************************)
(* Timer::SchedDecom moves m to time t and touches nobody else.            *)
(***************************************************************************)
LEMMA EraseFirstKeeps ==
    ASSUME NEW s \in Seq(Addr), NEW m, Holds(s, m), NEW x, x # m, Holds(s, x)
    PROVE  Holds(EraseFirst(s, m), x)
<1>1. Len(s) \in Nat
  OBVIOUS
<1>2. PICK k \in 1..Len(s) :
         /\ s[k] = m
         /\ \A j \in 1..(Len(s) - 1) :
               EraseFirst(s, m)[j] = IF j < k THEN s[j] ELSE s[j + 1]
  BY EraseFirstRemoves DEF Holds
<1>3. Len(EraseFirst(s, m)) = Len(s) - 1
  BY EraseFirstRemoves DEF Holds
<1>4. PICK i \in 1..Len(s) : s[i] = x
  BY DEF Holds
<1>5. i # k
  BY <1>2, <1>4
<1> DEFINE j == IF i < k THEN i ELSE i - 1
<1>6. j \in 1..(Len(s) - 1) /\ (j < k <=> i < k) /\ (~(i < k) => j + 1 = i)
  BY <1>1, <1>2, <1>4, <1>5
<1>7. EraseFirst(s, m)[j] = s[i]
  <2>1. CASE i < k
    BY <1>2, <1>6, <2>1
  <2>2. CASE ~(i < k)
    <3>1. EraseFirst(s, m)[j] = s[j + 1]
      BY <1>2, <1>6, <2>2
    <3> QED
      BY <1>6, <2>2, <3>1
  <2> QED
    BY <2>1, <2>2
<1> HIDE DEF j
<1> QED
  BY <1>3, <1>4, <1>6, <1>7 DEF Holds

\* Taking one agent off a queue keeps the others on it.
LEMMA UnscheduleKeeps ==
    ASSUME NEW q \in Queues, NEW m \in Addr, NEW u \in Times, NEW x, x # m, Holds(q[u], x)
    PROVE  Holds(Unschedule(q, m)[u], x)
<1> USE ConstantsAssumption
<1>1. CASE Held(q, m) = {}
  BY <1>1 DEF Unschedule
<1>2. CASE Held(q, m) # {}
  <2> DEFINE f == CHOOSE t \in Held(q, m) : \A v \in Held(q, m) : t <= v
  <2>1. f \in Times /\ \E k \in 1..Len(q[f]) : q[f][k] = m
    <3>1. Held(q, m) \in SUBSET Nat
      BY DEF Held, Times
    <3>2. f \in Held(q, m)
      BY <1>2, <3>1, LeastNatural
    <3> QED
      BY <3>2 DEF Held
  <2>2. Unschedule(q, m) = [q EXCEPT ![f] = EraseFirst(q[f], m)]
    BY <1>2 DEF Unschedule
  <2> HIDE DEF f
  <2>3. CASE u = f
    <3>1. Unschedule(q, m)[u] = EraseFirst(q[u], m) /\ q[u] \in Seq(Addr) /\ Holds(q[u], m)
      BY <2>1, <2>2, <2>3 DEF Queues, Holds
    <3> QED
      BY <3>1, EraseFirstKeeps
  <2>4. CASE u # f
    BY <2>2, <2>4 DEF Queues
  <2> QED
    BY <2>3, <2>4
<1> QED
  BY <1>1, <1>2

\* After a new decommissioning date an agent is queued for that date only.
LEMMA RequeueHolds ==
    ASSUME NEW q \in Queues, Once(q), NEW m \in Addr, NEW t \in Times,
           NEW u \in Times, NEW x \in Addr
    PROVE  Holds(Requeue(q, m, t)[u], x) <=> IF x = m THEN u = t ELSE Holds(q[u], x)
<1> DEFINE r == Unschedule(q, m)
           n == Requeue(q, m, t)
<1>1. r \in Queues
  BY UnscheduleRemoves
<1>2. n = [r EXCEPT ![t] = Append(r[t], m)]
  BY DEF Requeue
<1>3. Holds(n[u], x) => IF x = m THEN u = t ELSE Holds(q[u], x)
  <2>1. \A i \in 1..Len(n[u]) : \/ n[u][i] = m /\ u = t
                                \/ n[u][i] # m /\ \E j \in 1..Len(q[u]) : n[u][i] = q[u][j]
    BY RequeueKeepsOnce
  <2> HIDE DEF n
  <2> QED
    BY <2>1 DEF Holds
<1>4. x # m /\ Holds(q[u], x) => Holds(r[u], x)
  BY UnscheduleKeeps
<1> HIDE DEF r, n
<1>5. r[t] \in Seq(Addr) /\ r[u] \in Seq(Addr)
  BY <1>1 DEF Queues
<1>6. Holds(Append(r[t], m), m) /\ \A y : Holds(r[t], y) => Holds(Append(r[t], m), y)
  BY <1>5 DEF Holds
<1>7. Holds(r[u], x) => Holds(n[u], x)
  BY <1>1, <1>2, <1>6 DEF Queues
<1>8. x = m /\ u = t => Holds(n[u], x)
  BY <1>1, <1>2, <1>6 DEF Queues
<1> QED
  BY <1>3, <1>4, <1>7, <1>8 DEF n

\* DoDecom's copy without its first entry.
LEMMA TailHolds ==
    ASSUME NEW s \in Seq(Addr), s # << >>,
           \A i, j \in DOMAIN s : s[i] = s[j] => i = j
    PROVE  /\ \A x : Holds(Tail(s), x) <=> Holds(s, x) /\ x # Head(s)
           /\ Holds(s, Head(s))
           /\ \A i, j \in DOMAIN Tail(s) : Tail(s)[i] = Tail(s)[j] => i = j
<1>1. /\ Tail(s) \in Seq(Addr) /\ Len(Tail(s)) = Len(s) - 1 /\ Len(s) \in Nat \ {0}
      /\ DOMAIN s = 1..Len(s) /\ DOMAIN Tail(s) = 1..(Len(s) - 1)
      /\ Head(s) = s[1]
      /\ \A i \in 1..(Len(s) - 1) : Tail(s)[i] = s[i + 1]
  BY EmptySeq, HeadTailProperties
<1>2. ASSUME NEW x, Holds(Tail(s), x)
      PROVE  Holds(s, x) /\ x # Head(s)
  <2>1. PICK i \in 1..(Len(s) - 1) : Tail(s)[i] = x
    BY <1>1, <1>2 DEF Holds
  <2>2. i + 1 \in 1..Len(s) /\ s[i + 1] = x /\ i + 1 # 1 /\ 1 \in 1..Len(s)
    BY <1>1, <2>1
  <2> QED
    BY <1>1, <2>2 DEF Holds
<1>3. ASSUME NEW x, Holds(s, x), x # Head(s)
      PROVE  Holds(Tail(s), x)
  <2>1. PICK i \in 1..Len(s) : s[i] = x
    BY <1>3 DEF Holds
  <2>2. i # 1 /\ i - 1 \in 1..(Len(s) - 1) /\ (i - 1) + 1 = i
    BY <1>1, <1>3, <2>1
  <2>3. Tail(s)[i - 1] = x
    BY <1>1, <2>1, <2>2
  <2> QED
    BY <1>1, <2>2, <2>3 DEF Holds
<1>4. Holds(s, Head(s))
  BY <1>1 DEF Holds
<1>5. ASSUME NEW i \in DOMAIN Tail(s), NEW j \in DOMAIN Tail(s), Tail(s)[i] = Tail(s)[j]
      PROVE  i = j
  <2>1. i + 1 \in DOMAIN s /\ j + 1 \in DOMAIN s /\ s[i + 1] = s[j + 1]
    BY <1>1, <1>5
  <2>2. i + 1 = j + 1
    BY <2>1
  <2> QED
    BY <1>1, <2>2
<1> QED
  BY <1>2, <1>3, <1>4, <1>5

-----------------------------------------------------------------------------
(***************************************************************************)
(* No pointer to a deleted agent is followed: a parent stored with a build *)
(* outlives it, and what is due is alive.                                  *)
(***************************************************************************)
LEMMA NeverDangles ==
    ASSUME KernelInv, ScheduleInv
    PROVE  ~Dangles
<1>1. /\ build_list \in Seq(Proto \X Ptr) /\ decom_list \in Seq(Addr) /\ time \in Times
  BY DEF KernelInv, TypeOK, ControlTypes
<1>2. ASSUME pc = "DoBuild", build_list # << >>
      PROVE  ~Dangling(Head(build_list)[2])
  <2>1. 1 \in DOMAIN build_list /\ Head(build_list) = build_list[1]
    BY <1>1, <1>2
  <2>2. Lasting(build_list[1][2])
    BY <2>1 DEF ScheduleInv, LastingInv
  <2> QED
    BY <2>1, <2>2 DEF Lasting, Dangling
<1>3. ASSUME pc = "DoDecom", decom_list # << >>
      PROVE  ~Dangling(Head(decom_list))
  <2>1. Holds(decom_list, Head(decom_list)) /\ Head(decom_list) \in Addr
    BY <1>1, <1>3 DEF Holds
  <2>2. Due(time) = decom_list /\ time >= time /\ pc # "Thrown"
    BY <1>1, <1>3, ConstantsAssumption DEF Due, Closing, Times
  <2>3. Head(decom_list) \in agent_list
    BY <1>1, <2>1, <2>2 DEF ScheduleInv, DueInv
  <2> QED
    BY <2>3 DEF Dangling
<1> QED
  BY <1>2, <1>3 DEF Dangles

Distinct(s) == \A i, j \in DOMAIN s : s[i] = s[j] => i = j

\* A step that changes neither the agents nor what is due.
LEMMA DueSame ==
    ASSUME KernelInv, DueInv, pc # "Thrown", SameHeap, DecomSchedule' = DecomSchedule,
           time' = time, \A t \in Times : t >= time => Due(t)' = Due(t),
           pc' \in Closing => Distinct(decom_list')
    PROVE  DueInv'
<1>1. ASSUME NEW t \in Times, NEW a \in Addr, t >= time, Holds(Due(t)', a)
      PROVE  a \in agent_list' /\ Mortal(a)' /\ DecomSchedule'[mem'[a].id] = t
  <2>1. Holds(Due(t), a)
    BY <1>1
  <2> QED
    BY <1>1, <2>1 DEF DueInv, SameHeap, Mortal, KindOf, LifeOf
<1>2. ASSUME NEW a \in agent_list', NEW t \in Times, DecomSchedule'[mem'[a].id] = t
      PROVE  t >= time' /\ Holds(Due(t)', a)
  <2>1. t >= time /\ Holds(Due(t), a)
    BY <1>2 DEF DueInv, SameHeap
  <2> QED
    BY <2>1
<1> QED
  BY <1>1, <1>2 DEF DueInv, Distinct

\* An agent that enters is queued when its lifetime ends.
LEMMA DueEnter ==
    ASSUME KernelInv, DueInv, ExitInv, pc \notin Closing, pc # "Thrown", pc' \notin Closing,
           SameDecoms, time' = time,
           NEW a \in Addr \ agent_list, NEW p \in Proto,
           NEW par \in agent_list \cup {NULL}, Enter(a, p, par)
    PROVE  DueInv'
<1>0. /\ HeapTypes /\ time \in Times
  BY DEF KernelInv, TypeOK, ControlTypes
<1>1. /\ agent_list' = agent_list \cup {a} /\ mem'[a].id = next_id
      /\ \A b \in agent_list : mem'[b].id = mem[b].id /\ mem'[b].proto = mem[b].proto
  BY <1>0, EnterEffect DEF Joined, Enter
<1>2. \A t \in Times : Due(t)' = Due(t)
  BY DEF Due, SameDecoms
<1>3. ASSUME NEW t \in Times, NEW b \in Addr, t >= time, Holds(Due(t)', b)
      PROVE  b \in agent_list' /\ Mortal(b)' /\ DecomSchedule'[mem'[b].id] = t
  <2>1. Holds(Due(t), b)
    BY <1>2, <1>3
  <2>2. b \in agent_list /\ Mortal(b) /\ DecomSchedule[mem[b].id] = t
    BY <1>3, <2>1 DEF DueInv
  <2> QED
    BY <1>1, <2>2 DEF SameDecoms, Mortal, KindOf, LifeOf
<1>4. ASSUME NEW b \in agent_list', NEW t \in Times, DecomSchedule'[mem'[b].id] = t
      PROVE  t >= time' /\ Holds(Due(t)', b)
  <2>1. b # a
    <3>1. next_id \in Ids /\ next_id >= next_id
      BY <1>0, ConstantsAssumption DEF HeapTypes, Ids, Enter
    <3>2. DecomSchedule[next_id] = -1
      BY <3>1 DEF ExitInv
    <3> QED
      BY <1>1, <1>4, <3>2, ConstantsAssumption DEF SameDecoms, Times
  <2>2. t >= time /\ Holds(Due(t), b)
    BY <1>1, <1>4, <2>1 DEF DueInv, SameDecoms
  <2> QED
    BY <1>2, <2>2
<1> QED
  BY <1>3, <1>4 DEF DueInv

\* An agent leaves at the date it was scheduled for.
LEMMA DueLeaves ==
    ASSUME KernelInv, DueInv, Leaves
    PROVE  DueInv' /\ DecomSchedule[mem[subj].id] = time /\ Mortal(subj)
<1>0. /\ HeapTypes /\ time \in Times /\ decom_list \in Seq(Addr) /\ agent_list \subseteq Addr
      /\ Registered /\ Duration \in Nat
  BY ConstantsAssumption DEF KernelInv, TypeOK, ControlTypes, HeapTypes
<1>1. /\ subj \in agent_list /\ subj \in Addr /\ subj \notin blocked /\ Decommission
      /\ decom_list # << >> /\ subj = Head(decom_list)
      /\ pc \in Closing /\ pc' \in Closing /\ pc # "Thrown" /\ time' = time
      /\ DecomSchedule' = DecomSchedule /\ decom_queue' = decom_queue
      /\ decom_list' = Tail(decom_list)
  BY <1>0 DEF Leaves, Closing, SameDecoms
<1>2. /\ agent_list' = agent_list \ {subj}
      /\ \A b \in Addr : mem'[b].id = mem[b].id /\ mem'[b].proto = mem[b].proto
  BY <1>0, <1>1, DecommissionEffect DEF Left
<1>3. Distinct(decom_list)
  BY <1>1 DEF DueInv, Distinct
<1>4. /\ \A x : Holds(Tail(decom_list), x) <=> Holds(decom_list, x) /\ x # subj
      /\ Holds(decom_list, subj)
      /\ Distinct(Tail(decom_list))
  BY <1>0, <1>1, <1>3, TailHolds DEF Distinct
<1>5. \A t \in Times : t = time => Due(t) = decom_list /\ Due(t)' = Tail(decom_list)
  BY <1>1 DEF Due
<1>6. \A t \in Times : t # time => Due(t) = decom_queue[t] /\ Due(t)' = decom_queue[t]
  BY <1>1 DEF Due
<1>7. DecomSchedule[mem[subj].id] = time /\ Mortal(subj)
  BY <1>0, <1>1, <1>4, <1>5 DEF DueInv, Times
<1>8. ASSUME NEW t \in Times, NEW b \in Addr, t >= time, Holds(Due(t)', b)
      PROVE  b \in agent_list' /\ Mortal(b)' /\ DecomSchedule'[mem'[b].id] = t
  <2>1. Holds(Due(t), b) /\ (t = time => b # subj)
    BY <1>4, <1>5, <1>6, <1>8
  <2>2. b \in agent_list /\ Mortal(b) /\ DecomSchedule[mem[b].id] = t
    BY <1>1, <1>8, <2>1 DEF DueInv
  <2>3. b # subj
    BY <1>7, <2>1, <2>2
  <2> QED
    BY <1>1, <1>2, <2>2, <2>3 DEF Mortal, KindOf, LifeOf
<1>9. ASSUME NEW b \in agent_list', NEW t \in Times, DecomSchedule'[mem'[b].id] = t
      PROVE  t >= time' /\ Holds(Due(t)', b)
  <2>1. b \in agent_list /\ b # subj /\ DecomSchedule[mem[b].id] = t
    BY <1>0, <1>1, <1>2, <1>9
  <2>2. t >= time /\ Holds(Due(t), b)
    BY <1>1, <2>1 DEF DueInv
  <2> QED
    BY <1>1, <1>4, <1>5, <1>6, <2>1, <2>2
<1>10. Distinct(decom_list')
  BY <1>1, <1>4
<1>11. DueInv'
  BY <1>1, <1>8, <1>9, <1>10 DEF DueInv, Distinct
<1> QED
  BY <1>7, <1>11

\* A new decommissioning date keeps DueInv.
LEMMA DueReschedules ==
    ASSUME KernelInv, QueuedOnce, Orderly, DueInv,
           NEW m \in agent_list, NEW t \in Times, Reschedules(m, t)
    PROVE  DueInv'
<1>0. /\ HeapTypes /\ time \in Times /\ agent_list \subseteq Addr
      /\ Registered /\ Duration \in Nat /\ decom_queue \in Queues /\ Once(decom_queue)
      /\ \A a \in agent_list : mem[a].id \in Ids
      /\ DecomSchedule \in [Ids -> Times \cup {-1}]
  BY ConstantsAssumption DEF KernelInv, TypeOK, ControlTypes, HeapTypes, QueueTypes, Queues,
     QueuedOnce, Once, AgentRec
<1>1. /\ m \in Addr /\ t >= time /\ Mortal(m) /\ agent_list' = agent_list /\ mem' = mem
      /\ decom_queue' = Requeue(decom_queue, m, t) /\ time' = time
      /\ DecomSchedule' = [DecomSchedule EXCEPT ![mem[m].id] = t]
      /\ pc \notin Closing /\ pc' \notin Closing /\ pc # "Thrown"
  BY ConstantsAssumption DEF Reschedules, SameHeap, Orderly, Closing, Callbacks
<1>2. \A u \in Times : Due(u) = decom_queue[u] /\ Due(u)' = decom_queue'[u]
  BY <1>1 DEF Due
<1>3. \A u \in Times, x \in Addr :
         Holds(decom_queue'[u], x) <=> IF x = m THEN u = t ELSE Holds(decom_queue[u], x)
  BY <1>0, <1>1, RequeueHolds
<1>4. \A b \in agent_list : DecomSchedule'[mem[b].id] = IF b = m THEN t ELSE DecomSchedule[mem[b].id]
  BY <1>0, <1>1 DEF Registered
<1>5. ASSUME NEW u \in Times, NEW b \in Addr, u >= time, Holds(Due(u)', b)
      PROVE  b \in agent_list' /\ Mortal(b)' /\ DecomSchedule'[mem'[b].id] = u
  <2>1. (b = m /\ u = t) \/ (b # m /\ Holds(Due(u), b))
    BY <1>2, <1>3, <1>5
  <2>2. b # m => b \in agent_list /\ Mortal(b) /\ DecomSchedule[mem[b].id] = u
    BY <1>1, <1>5, <2>1 DEF DueInv
  <2> QED
    BY <1>1, <1>4, <2>1, <2>2 DEF Mortal, KindOf, LifeOf
<1>6. ASSUME NEW b \in agent_list', NEW u \in Times, DecomSchedule'[mem'[b].id] = u
      PROVE  u >= time' /\ Holds(Due(u)', b)
  <2>1. b \in agent_list /\ b \in Addr
    BY <1>0, <1>1
  <2>2. CASE b = m
    <3>1. u = t
      BY <1>1, <1>4, <1>6, <2>1, <2>2
    <3> QED
      BY <1>1, <1>2, <1>3, <2>1, <2>2, <3>1
  <2>3. CASE b # m
    <3>1. DecomSchedule[mem[b].id] = u
      BY <1>1, <1>4, <1>6, <2>1, <2>3
    <3>2. u >= time /\ Holds(Due(u), b)
      BY <1>1, <2>1, <3>1 DEF DueInv
    <3> QED
      BY <1>1, <1>2, <1>3, <2>1, <2>3, <3>2
  <2> QED
    BY <2>2, <2>3
<1> QED
  BY <1>1, <1>5, <1>6 DEF DueInv

\* Every step keeps DueInv.
LEMMA DueStep ==
    ASSUME KernelInv, QueuedOnce, Orderly, ScheduleInv, [Next]_vars
    PROVE  DueInv'
<1>0. /\ time \in Times /\ decom_queue \in Queues /\ Duration \in Nat /\ Callers \subseteq Callbacks
      /\ DueInv /\ ExitInv /\ ScheduleSteps /\ ~Dangles
  BY ConstantsAssumption, NeverDangles, ScheduleFrames
     DEF KernelInv, TypeOK, ControlTypes, QueueTypes, Queues, ScheduleInv
<1>1. CASE Idle
  <2>1. CASE pc' = "Thrown"
    BY <2>1 DEF DueInv
  <2>2. CASE pc' # "Thrown"
    <3>1. pc # "Thrown" /\ (pc \in Closing <=> pc' \in Closing)
      BY <1>1, <2>2 DEF Idle, Outside, Building, Middle, Closing
    <3>2. \A t \in Times : Due(t)' = Due(t)
      BY <1>1, <3>1 DEF Idle, SameDecoms, SameLists, Due
    <3>3. pc' \in Closing => Distinct(decom_list')
      BY <1>0, <1>1, <3>1 DEF DueInv, Distinct, Idle, SameLists
    <3>4. SameHeap /\ DecomSchedule' = DecomSchedule /\ time' = time
      BY <1>1 DEF Idle, SameDecoms
    <3> QED
      BY <1>0, <3>1, <3>2, <3>3, <3>4, DueSame
  <2> QED
    BY <2>1, <2>2
<1>2. CASE Fails
  BY <1>2 DEF Fails, DueInv
<1>3. CASE Begins \/ Records \/ \E par \in agent_list \cup {NULL}, p \in Proto, t \in Times :
                                    Books(par, p, t)
  <2>1. pc # "Thrown" /\ (pc \in Closing <=> pc' \in Closing) /\ SameHeap
        /\ DecomSchedule' = DecomSchedule /\ time' = time /\ decom_queue' = decom_queue
        /\ decom_list' = decom_list
    BY <1>0, <1>3 DEF Begins, Records, Books, SameDecoms, SameLists, Closing, Callbacks
  <2>2. \A t \in Times : Due(t)' = Due(t)
    BY <2>1 DEF Due
  <2>3. pc' \in Closing => Distinct(decom_list')
    BY <1>0, <2>1 DEF DueInv, Distinct
  <2> QED
    BY <1>0, <2>1, <2>2, <2>3, DueSame
<1>4. CASE Closes
  <2>1. /\ pc # "Thrown" /\ pc \notin Closing /\ pc' \in Closing /\ SameHeap
        /\ DecomSchedule' = DecomSchedule /\ time' = time /\ decom_queue' = decom_queue
        /\ decom_list' = decom_queue[time]
    BY <1>4 DEF Closes, SameDecoms, Closing
  <2>2. \A t \in Times : Due(t)' = Due(t)
    BY <2>1 DEF Due
  <2>3. Distinct(decom_list')
    <3>1. decom_queue[time] \in Seq(Addr)
      BY <1>0 DEF Queues
    <3>2. DOMAIN decom_queue[time] = 1..Len(decom_queue[time])
      BY <3>1
    <3> QED
      BY <1>0, <2>1, <3>2 DEF QueuedOnce, Distinct
  <2> QED
    BY <1>0, <2>1, <2>2, <2>3, DueSame
<1>5. CASE Leaves
  BY <1>0, <1>5, DueLeaves
<1>6. CASE Ends
  <2>1. /\ pc = "DoDecom" /\ pc \in Closing /\ pc' \notin Closing /\ pc # "Thrown"
        /\ decom_list = << >> /\ agent_list' = agent_list /\ mem' = mem
        /\ DecomSchedule' = DecomSchedule /\ decom_queue' = decom_queue /\ time' = time + 1
    BY <1>6 DEF Ends, SameHeap, SameDecoms, Closing
  <2>2. Due(time) = << >> /\ \A t \in Times : Due(t)' = decom_queue[t]
    BY <2>1 DEF Due
  <2>3. \A t \in Times : t # time => Due(t) = decom_queue[t]
    BY <2>1 DEF Due
  <2>4. time \in Int /\ \A t \in Times : t \in Int
    BY <1>0 DEF Times
  <2>5. ASSUME NEW u \in Times, NEW b \in Addr, u >= time', Holds(Due(u)', b)
        PROVE  b \in agent_list' /\ Mortal(b)' /\ DecomSchedule'[mem'[b].id] = u
    <3>1. u # time /\ u >= time
      BY <2>1, <2>4, <2>5
    <3>2. Holds(Due(u), b)
      BY <2>2, <2>3, <2>5, <3>1
    <3> QED
      BY <1>0, <2>1, <3>1, <3>2 DEF DueInv, Mortal, KindOf, LifeOf
  <2>6. ASSUME NEW b \in agent_list', NEW u \in Times, DecomSchedule'[mem'[b].id] = u
        PROVE  u >= time' /\ Holds(Due(u)', b)
    <3>1. u >= time /\ Holds(Due(u), b)
      BY <1>0, <2>1, <2>6 DEF DueInv
    <3>2. u # time
      BY <2>2, <3>1 DEF Holds
    <3> QED
      BY <2>1, <2>2, <2>3, <2>4, <3>1, <3>2
  <2> QED
    BY <2>1, <2>5, <2>6 DEF DueInv
<1>7. CASE \E a \in Addr \ agent_list, p \in Proto, par \in agent_list \cup {NULL} :
              LoadsOne(a, p, par) \/ BuildsOne(a, p, par)
  <2>1. PICK a \in Addr \ agent_list, p \in Proto, par \in agent_list \cup {NULL} :
              LoadsOne(a, p, par) \/ BuildsOne(a, p, par)
    BY <1>7
  <2>2. /\ Enter(a, p, par) /\ SameDecoms /\ time' = time
        /\ pc \notin Closing /\ pc # "Thrown" /\ pc' \notin Closing
    BY <2>1 DEF LoadsOne, BuildsOne, Closing
  <2> QED
    BY <1>0, <2>1, <2>2, DueEnter
<1>8. CASE \E m \in agent_list, t \in Times : Reschedules(m, t)
  BY <1>0, <1>8, DueReschedules
<1> QED
  BY <1>0, <1>1, <1>2, <1>3, <1>4, <1>5, <1>6, <1>7, <1>8 DEF ScheduleSteps

(***************************************************************************)
(* The parents stored with builds outlive them: Orderly agents neither     *)
(* retire nor outlive those on whose behalf they build.                    *)
(***************************************************************************)
LEMMA LastingKept ==
    ASSUME KernelInv, Orderly, DueInv, NEW q, Lasting(q), q \in Ptr,
           \/ SameHeap
           \/ Leaves
           \/ \E a \in Addr \ agent_list, p \in Proto, par \in agent_list \cup {NULL} :
                 Enter(a, p, par)
    PROVE  Lasting(q)'
<1>0. /\ HeapTypes /\ time \in Times /\ agent_list \subseteq Addr
  BY DEF KernelInv, TypeOK, ControlTypes, HeapTypes
<1>1. SUFFICES ASSUME q # NULL
               PROVE  q \in agent_list' /\ KindOf(q)' \in BuildFor
  BY DEF Lasting
<1>2. q \in agent_list /\ KindOf(q) \in BuildFor /\ q \in Addr
  BY <1>0, <1>1 DEF Lasting
<1>3. CASE SameHeap
  BY <1>2, <1>3 DEF SameHeap, KindOf
<1>4. CASE Leaves
  <2>1. Mortal(subj) /\ subj \in agent_list /\ subj \notin blocked /\ Decommission
    BY <1>4, DueLeaves DEF Leaves
  <2>2. mem[subj].proto \in Proto
    BY <1>0, <2>1 DEF HeapTypes, AgentRec
  <2>3. q # subj
    BY <1>2, <2>1, <2>2 DEF Orderly, Mortal, KindOf, LifeOf
  <2>4. agent_list' = agent_list \ {subj} /\ mem'[q].proto = mem[q].proto
    BY <1>0, <1>2, <2>1, DecommissionEffect DEF Left
  <2> QED
    BY <1>2, <2>3, <2>4 DEF KindOf
<1>5. CASE \E a \in Addr \ agent_list, p \in Proto, par \in agent_list \cup {NULL} :
                 Enter(a, p, par)
  <2>1. PICK a \in Addr \ agent_list, p \in Proto, par \in agent_list \cup {NULL} :
                 Enter(a, p, par)
    BY <1>5
  <2>2. agent_list' = agent_list \cup {a} /\ mem'[q].proto = mem[q].proto
    BY <1>0, <1>2, <2>1, EnterEffect DEF Joined, Enter
  <2> QED
    BY <1>2, <2>2 DEF KindOf
<1> QED
  BY <1>3, <1>4, <1>5

\* Every step keeps LastingInv.
LEMMA LastingStep ==
    ASSUME KernelInv, Orderly, ScheduleInv, [Next]_vars
    PROVE  LastingInv'
<1>0. /\ time \in Times /\ build_queue \in [Times -> Seq(Proto \X Ptr)]
      /\ build_list \in Seq(Proto \X Ptr)
      /\ DueInv /\ LastingInv /\ ScheduleSteps /\ ~Dangles
  BY NeverDangles, ScheduleFrames DEF KernelInv, TypeOK, ControlTypes, QueueTypes, ScheduleInv
<1>1. /\ \A t \in Times : \A k \in DOMAIN build_queue[t] :
             Lasting(build_queue[t][k][2]) /\ build_queue[t][k][2] \in Ptr
      /\ \A k \in DOMAIN build_list : Lasting(build_list[k][2]) /\ build_list[k][2] \in Ptr
  <2>1. ASSUME NEW s \in Seq(Proto \X Ptr), NEW k \in DOMAIN s
        PROVE  s[k][2] \in Ptr
    <3>1. s[k] \in Proto \X Ptr
      OBVIOUS
    <3> QED
      BY <3>1
  <2>2. \A t \in Times : build_queue[t] \in Seq(Proto \X Ptr)
    BY <1>0
  <2> QED
    BY <1>0, <2>1, <2>2 DEF LastingInv
<1>2. \/ SameHeap
      \/ Leaves
      \/ \E a \in Addr \ agent_list, p \in Proto, par \in agent_list \cup {NULL} :
                 Enter(a, p, par)
  BY <1>0 DEF ScheduleSteps, Idle, Fails, Begins, Records, Closes, Ends, Reschedules, Books,
     LoadsOne, BuildsOne
<1>3. ASSUME NEW q, Lasting(q), q \in Ptr
      PROVE  Lasting(q)'
  BY <1>0, <1>2, <1>3, LastingKept
<1>4. ASSUME NEW t \in Times, NEW k \in DOMAIN build_queue'[t], NEW r, r = build_queue'[t][k][2]
      PROVE  Lasting(r)'
  <2>1. CASE build_queue' = build_queue
    BY <1>1, <1>3, <1>4, <2>1
  <2>2. CASE \E par \in agent_list \cup {NULL}, p \in Proto, u \in Times : Books(par, p, u)
    <3>1. PICK par \in agent_list \cup {NULL}, p \in Proto, u \in Times : Books(par, p, u)
      BY <2>2
    <3>2. /\ build_queue' = [build_queue EXCEPT ![u] = Append(build_queue[u], <<p, par>>)]
          /\ Lasting(par) /\ par \in Ptr
      BY <3>1 DEF Books
    <3>3. CASE t = u
      <4>1. build_queue'[t] = Append(build_queue[t], <<p, par>>) /\ build_queue[t] \in Seq(Proto \X Ptr)
        BY <1>0, <3>2, <3>3
      <4>2. <<p, par>> \in Proto \X Ptr
        BY <3>1, <3>2
      <4>3. \/ k \in DOMAIN build_queue[t] /\ build_queue'[t][k] = build_queue[t][k]
            \/ build_queue'[t][k] = <<p, par>>
        BY <4>1, <4>2
      <4>4. \/ k \in DOMAIN build_queue[t] /\ r = build_queue[t][k][2]
            \/ r = par
        BY <1>4, <4>3
      <4> QED
        BY <1>1, <1>3, <3>2, <4>4
    <3>4. CASE t # u
      <4>1. build_queue'[t] = build_queue[t]
        BY <1>0, <3>2, <3>4
      <4> QED
        BY <1>1, <1>3, <1>4, <4>1
    <3> QED
      BY <3>3, <3>4
  <2> QED
    BY <1>0, <2>1, <2>2 DEF ScheduleSteps, Idle, Fails, Begins, Records, Closes, Leaves, Ends,
       Reschedules, LoadsOne, BuildsOne, SameBuilds
<1>5. ASSUME NEW k \in DOMAIN build_list', NEW r, r = build_list'[k][2]
      PROVE  Lasting(r)'
  <2>1. CASE build_list' = build_list
    BY <1>1, <1>3, <1>5, <2>1
  <2>2. CASE Begins
    BY <1>0, <1>1, <1>3, <1>5, <2>2 DEF Begins
  <2>3. CASE build_list # << >> /\ build_list' = Tail(build_list)
    <3>1. k + 1 \in DOMAIN build_list /\ build_list'[k] = build_list[k + 1]
      BY <1>0, <2>3
    <3> QED
      BY <1>1, <1>3, <1>5, <3>1
  <2> QED
    BY <1>0, <2>1, <2>2, <2>3 DEF ScheduleSteps, Idle, Fails, Records, Closes, Leaves, Ends,
       Reschedules, Books, LoadsOne, BuildsOne, SameLists
<1> QED
  BY <1>4, <1>5 DEF LastingInv

-----------------------------------------------------------------------------
(***************************************************************************)
(* Ids: each belongs to one live agent or to one row of AgentExit.         *)
(***************************************************************************)
LEMMA ExitStep ==
    ASSUME KernelInv, Orderly, ScheduleInv, [Next]_vars
    PROVE  ExitInv'
<1>0. /\ time \in Times /\ HeapTypes /\ agent_list \subseteq Addr
      /\ DueInv /\ ExitInv /\ ScheduleSteps /\ ~Dangles /\ IdsBelowNext /\ Registered
      /\ AgentExit \in Seq(Ids \X Times) /\ next_id \in Nat
      /\ DecomSchedule \in [Ids -> Times \cup {-1}]
      /\ \A a \in agent_list : mem[a].id \in Ids
      /\ \A i \in Ids : i \in Nat
  <2>1. DueInv /\ ExitInv /\ ScheduleSteps /\ ~Dangles /\ IdsBelowNext /\ Registered
    BY NeverDangles, ScheduleFrames DEF KernelInv, ScheduleInv
  <2>2. MaxId \in Nat /\ mem \in [Addr -> AgentRec] /\ agent_list \subseteq Addr
        /\ next_id \in Nat /\ HeapTypes
    BY ConstantsAssumption DEF KernelInv, TypeOK, HeapTypes
  <2>3. /\ time \in Times /\ AgentExit \in Seq(Ids \X Times)
        /\ DecomSchedule \in [Ids -> Times \cup {-1}]
    BY DEF KernelInv, TypeOK, ControlTypes, OutputTypes, QueueTypes
  <2>4. \A a \in agent_list : mem[a].id \in Ids
    BY <2>2 DEF AgentRec
  <2>5. \A i \in Ids : i \in Nat
    BY <2>2 DEF Ids
  <2> QED
    BY <2>1, <2>2, <2>3, <2>4, <2>5
<1>1. ASSUME agent_list' = agent_list, mem' = mem, next_id' = next_id,
             DecomSchedule' = DecomSchedule, AgentExit' = AgentExit
      PROVE  ExitInv'
  BY <1>0, <1>1 DEF ExitInv
<1>2. CASE \E m \in agent_list, t \in Times : Reschedules(m, t)
  <2>1. PICK m \in agent_list, t \in Times : Reschedules(m, t)
    BY <1>2
  <2>2. /\ agent_list' = agent_list /\ mem' = mem /\ next_id' = next_id
        /\ AgentExit' = AgentExit
        /\ DecomSchedule' = [DecomSchedule EXCEPT ![mem[m].id] = t]
    BY <2>1 DEF Reschedules, SameHeap, SameRows
  <2>3. mem[m].id < next_id /\ mem[m].id \in Ids
    BY <1>0 DEF IdsBelowNext
  <2>4. \A i \in Ids : i >= next_id => DecomSchedule'[i] = -1
    BY <1>0, <2>2, <2>3 DEF ExitInv
  <2>5. \A k \in DOMAIN AgentExit : DecomSchedule'[AgentExit[k][1]] = AgentExit[k][2]
    <3> TAKE k \in DOMAIN AgentExit
    <3>1. AgentExit[k][1] \in Ids /\ AgentExit[k][1] # mem[m].id
      <4>1. AgentExit[k] \in Ids \X Times
        BY <1>0
      <4> QED
        BY <1>0, <4>1 DEF ExitInv
    <3> QED
      BY <1>0, <2>2, <3>1 DEF ExitInv
  <2> QED
    BY <1>0, <2>2, <2>4, <2>5 DEF ExitInv
<1>3. CASE \E a \in Addr \ agent_list, p \in Proto, par \in agent_list \cup {NULL} :
              LoadsOne(a, p, par) \/ BuildsOne(a, p, par)
  <2>1. PICK a \in Addr \ agent_list, p \in Proto, par \in agent_list \cup {NULL} :
              LoadsOne(a, p, par) \/ BuildsOne(a, p, par)
    BY <1>3
  <2>2. Enter(a, p, par) /\ DecomSchedule' = DecomSchedule /\ AgentExit' = AgentExit
    BY <2>1 DEF LoadsOne, BuildsOne, SameDecoms, SameRows
  <2>3. /\ agent_list' = agent_list \cup {a} /\ mem'[a].id = next_id /\ next_id' = next_id + 1
        /\ \A b \in agent_list : mem'[b].id = mem[b].id
    BY <1>0, <2>1, <2>2, EnterEffect DEF Joined, Enter
  <2>4. \A k \in DOMAIN AgentExit : AgentExit[k][1] \in Nat
    <3> TAKE k \in DOMAIN AgentExit
    <3>1. AgentExit[k] \in Ids \X Times
      BY <1>0
    <3> QED
      BY <1>0, <3>1
  <2>5. \A i \in Ids : i >= next_id' => DecomSchedule'[i] = -1
    BY <1>0, <2>2, <2>3 DEF ExitInv
  <2>6. \A k \in DOMAIN AgentExit' :
            /\ AgentExit'[k][1] < next_id'
            /\ DecomSchedule'[AgentExit'[k][1]] = AgentExit'[k][2]
            /\ \A b \in agent_list' : mem'[b].id # AgentExit'[k][1]
    BY <1>0, <2>2, <2>3, <2>4 DEF ExitInv
  <2>7. \A i \in Ids : i < next_id' =>
            \/ \E b \in agent_list' : mem'[b].id = i
            \/ \E k \in DOMAIN AgentExit' : AgentExit'[k][1] = i
    <3> SUFFICES ASSUME NEW i \in Ids, i < next_id'
                 PROVE  \/ \E b \in agent_list' : mem'[b].id = i
                        \/ \E k \in DOMAIN AgentExit' : AgentExit'[k][1] = i
      OBVIOUS
    <3>1. i = next_id \/ i < next_id
      BY <1>0, <2>3
    <3>2. CASE i = next_id
      BY <2>3, <3>2
    <3>3. CASE i < next_id
      BY <1>0, <2>2, <2>3, <3>3 DEF ExitInv
    <3> QED
      BY <3>1, <3>2, <3>3
  <2>8. \A k, l \in DOMAIN AgentExit' : AgentExit'[k][1] = AgentExit'[l][1] => k = l
    BY <1>0, <2>2 DEF ExitInv
  <2> QED
    BY <2>5, <2>6, <2>7, <2>8 DEF ExitInv
<1>4. CASE Leaves
  <2> DEFINE row == <<mem[subj].id, time>>
  <2>1. /\ subj \in agent_list /\ subj \notin blocked /\ Decommission
        /\ DecomSchedule' = DecomSchedule /\ next_id' = next_id
        /\ AgentExit' = Append(AgentExit, row)
    BY <1>4 DEF Leaves, SameDecoms
  <2>2. /\ agent_list' = agent_list \ {subj}
        /\ \A b \in agent_list : mem'[b].id = mem[b].id
    BY <1>0, <2>1, DecommissionEffect DEF Left
  <2>3. DecomSchedule[mem[subj].id] = time
    BY <1>0, <1>4, DueLeaves
  <2>4. row[1] = mem[subj].id /\ row[2] = time /\ row \in Ids \X Times /\ mem[subj].id < next_id
    BY <1>0, <2>1 DEF IdsBelowNext
  <2> HIDE DEF row
  <2>5. /\ DOMAIN AgentExit' = DOMAIN AgentExit \cup {Len(AgentExit) + 1}
        /\ AgentExit'[Len(AgentExit) + 1] = row
        /\ \A k \in DOMAIN AgentExit : AgentExit'[k] = AgentExit[k]
    BY <1>0, <2>1, <2>4
  <2>6. \A k \in DOMAIN AgentExit' :
            /\ AgentExit'[k][1] < next_id'
            /\ DecomSchedule'[AgentExit'[k][1]] = AgentExit'[k][2]
            /\ \A b \in agent_list' : mem'[b].id # AgentExit'[k][1]
    <3> TAKE k \in DOMAIN AgentExit'
    <3>1. CASE k \in DOMAIN AgentExit
      BY <1>0, <2>1, <2>2, <2>5, <3>1 DEF ExitInv
    <3>2. CASE k = Len(AgentExit) + 1
      BY <1>0, <2>1, <2>2, <2>3, <2>4, <2>5, <3>2 DEF Registered
    <3> QED
      BY <2>5, <3>1, <3>2
  <2>7. \A k \in DOMAIN AgentExit : AgentExit[k][1] # mem[subj].id
    BY <1>0, <2>1 DEF ExitInv
  <2>8. \A k, l \in DOMAIN AgentExit' : AgentExit'[k][1] = AgentExit'[l][1] => k = l
    BY <1>0, <2>4, <2>5, <2>7 DEF ExitInv
  <2>9. \A i \in Ids : i < next_id' =>
            \/ \E b \in agent_list' : mem'[b].id = i
            \/ \E k \in DOMAIN AgentExit' : AgentExit'[k][1] = i
    <3> SUFFICES ASSUME NEW i \in Ids, i < next_id
                 PROVE  \/ \E b \in agent_list' : mem'[b].id = i
                        \/ \E k \in DOMAIN AgentExit' : AgentExit'[k][1] = i
      BY <2>1
    <3>1. CASE i = mem[subj].id
      BY <2>4, <2>5, <3>1
    <3>2. CASE i # mem[subj].id
      <4>1. \/ \E b \in agent_list : mem[b].id = i
            \/ \E k \in DOMAIN AgentExit : AgentExit[k][1] = i
        BY <1>0 DEF ExitInv
      <4>2. ASSUME NEW b \in agent_list, mem[b].id = i
            PROVE  b \in agent_list' /\ mem'[b].id = i
        BY <2>2, <3>2, <4>2
      <4>3. ASSUME NEW k \in DOMAIN AgentExit, AgentExit[k][1] = i
            PROVE  k \in DOMAIN AgentExit' /\ AgentExit'[k][1] = i
        BY <2>5, <4>3
      <4> QED
        BY <4>1, <4>2, <4>3
    <3> QED
      BY <3>1, <3>2
  <2> QED
    BY <1>0, <2>1, <2>6, <2>8, <2>9 DEF ExitInv
<1> QED
  BY <1>0, <1>1, <1>2, <1>3, <1>4 DEF ScheduleSteps, Idle, Fails, Begins, Records, Closes, Ends,
     Books, SameHeap, SameDecoms, SameRows

\* The schedule invariant is inductive relative to the kernel's.
LEMMA ScheduleStep ==
    ASSUME KernelInv, QueuedOnce, Orderly, ScheduleInv, [Next]_vars
    PROVE  ScheduleInv'
<1>1. ScheduleSteps /\ ~Dangles /\ error # "UseAfterFree"
  BY NeverDangles, ScheduleFrames DEF ScheduleInv, NoUseAfterFree
<1>2. NoUseAfterFree'
  BY <1>1 DEF ScheduleSteps, Idle, Fails, Begins, Records, Closes, Leaves, Ends, Reschedules,
     Books, LoadsOne, BuildsOne, NoUseAfterFree
<1> QED
  BY <1>2, DueStep, LastingStep, ExitStep DEF ScheduleInv

-----------------------------------------------------------------------------
(***************************************************************************)
(* Counting builds.  Names of the counts with the agents' records explicit.*)
(***************************************************************************)
IdIn(m, q) == IF q = NULL THEN -1 ELSE m[q].id
Match(e, m, p, pid) == e[1] = p /\ IdIn(m, e[2]) = pid
MatchIn(s, m, p, pid) == {k \in DOMAIN s : Match(s[k], m, p, pid)}
Count(s, m, p, pid) == Cardinality(MatchIn(s, m, p, pid))
OneIf(e, m, p, pid) == IF Match(e, m, p, pid) THEN 1 ELSE 0

Lists == Seq(Proto \X Ptr)

\* A set of numbers moved by one has as many members.
LEMMA ShiftCardinality ==
    ASSUME NEW S \in SUBSET Int, IsFiniteSet(S), NEW T, T = {k + 1 : k \in S}
    PROVE  IsFiniteSet(T) /\ Cardinality(T) = Cardinality(S)
<1> DEFINE f == [k \in S |-> k + 1]
<1>1. f \in [S -> T] /\ \A a, b \in S : f[a] = f[b] => a = b
  OBVIOUS
<1>2. \A t \in T : \E s \in S : f[s] = t
  OBVIOUS
<1>3. f \in Bijection(S, T)
  BY <1>1, <1>2 DEF Bijection, Injection, Surjection, IsInjective
<1>4. ExistsBijection(S, T)
  BY <1>3 DEF ExistsBijection
<1> QED
  BY <1>4, FS_Bijection

\* The entries of a build list that match are finitely many.
LEMMA CountFinite ==
    ASSUME NEW s \in Lists, NEW m, NEW p, NEW pid
    PROVE  /\ IsFiniteSet(MatchIn(s, m, p, pid)) /\ MatchIn(s, m, p, pid) \in SUBSET (1..Len(s))
           /\ Count(s, m, p, pid) \in Nat
<1>1. DOMAIN s = 1..Len(s) /\ Len(s) \in Nat
  BY DEF Lists
<1>2. IsFiniteSet(1..Len(s))
  BY <1>1, FS_Interval
<1>3. MatchIn(s, m, p, pid) \in SUBSET (1..Len(s))
  BY <1>1 DEF MatchIn
<1>4. IsFiniteSet(MatchIn(s, m, p, pid))
  BY <1>2, <1>3, FS_Subset
<1> QED
  BY <1>3, <1>4, FS_CardinalityType DEF Count

\* One more entry in a build list.
LEMMA CountAppend ==
    ASSUME NEW s \in Lists, NEW e \in Proto \X Ptr, NEW m, NEW p, NEW pid
    PROVE  Count(Append(s, e), m, p, pid) = Count(s, m, p, pid) + OneIf(e, m, p, pid)
<1> DEFINE S == MatchIn(s, m, p, pid)
           n == Append(s, e)
           T == MatchIn(n, m, p, pid)
<1>1. /\ DOMAIN s = 1..Len(s) /\ Len(s) \in Nat /\ DOMAIN n = 1..(Len(s) + 1)
      /\ n[Len(s) + 1] = e /\ \A k \in 1..Len(s) : n[k] = s[k]
  BY DEF Lists
<1>2. IsFiniteSet(S) /\ Cardinality(S) \in Nat /\ Len(s) + 1 \notin S
  BY <1>1, CountFinite DEF Count
<1> HIDE DEF n
<1>3. CASE Match(e, m, p, pid)
  <2>1. T = S \cup {Len(s) + 1}
    BY <1>1, <1>3 DEF MatchIn
  <2> HIDE DEF S, T
  <2> QED
    BY <1>2, <1>3, <2>1, FS_AddElement DEF S, T, n, Count, OneIf
<1>4. CASE ~Match(e, m, p, pid)
  <2>1. T = S
    BY <1>1, <1>4 DEF MatchIn
  <2> HIDE DEF S, T
  <2> QED
    BY <1>2, <1>4, <2>1 DEF S, T, n, Count, OneIf
<1> QED
  BY <1>3, <1>4

\* One entry less in a build list.
LEMMA CountTail ==
    ASSUME NEW s \in Lists, s # << >>, NEW m, NEW p, NEW pid
    PROVE  Count(s, m, p, pid) = Count(Tail(s), m, p, pid) + OneIf(Head(s), m, p, pid)
<1> DEFINE r == Tail(s)
           R == MatchIn(r, m, p, pid)
           S == MatchIn(s, m, p, pid)
           T == {k + 1 : k \in R}
<1>1. /\ r \in Lists /\ Len(r) = Len(s) - 1 /\ Len(s) \in Nat \ {0}
      /\ DOMAIN s = 1..Len(s) /\ DOMAIN r = 1..(Len(s) - 1)
      /\ Head(s) = s[1]
      /\ \A i \in 1..(Len(s) - 1) : r[i] = s[i + 1]
  BY EmptySeq, HeadTailProperties DEF Lists
<1>2. IsFiniteSet(R) /\ R \in SUBSET (1..(Len(s) - 1)) /\ Cardinality(R) \in Nat
  BY <1>1, CountFinite DEF Count
<1>3. IsFiniteSet(T) /\ Cardinality(T) = Cardinality(R)
  <2>1. R \in SUBSET Int
    BY <1>2
  <2> HIDE DEF R
  <2> QED
    BY <1>2, <2>1, ShiftCardinality
<1>4. 1 \notin T
  BY <1>1, <1>2
<1> HIDE DEF r
<1>5. \A k \in 1..Len(s) : k # 1 => (k \in S <=> k \in T)
  <2> SUFFICES ASSUME NEW k \in 1..Len(s), k # 1
               PROVE  k \in S <=> k \in T
    OBVIOUS
  <2>1. k - 1 \in 1..(Len(s) - 1) /\ (k - 1) + 1 = k /\ r[k - 1] = s[k]
    BY <1>1
  <2>2. k \in S <=> k - 1 \in R
    BY <1>1, <2>1 DEF MatchIn
  <2>3. k - 1 \in R <=> k \in T
    <3>1. \A j \in R : j \in Int
      BY <1>1, <1>2
    <3> QED
      BY <2>1, <3>1
  <2> QED
    BY <2>2, <2>3
<1>6. S \subseteq 1..Len(s) /\ T \subseteq 1..Len(s)
  BY <1>1, <1>2 DEF MatchIn
<1>7. 1 \in S <=> Match(Head(s), m, p, pid)
  BY <1>1 DEF MatchIn
<1> HIDE DEF S, T, R
<1>8. CASE Match(Head(s), m, p, pid)
  <2>1. S = T \cup {1}
    BY <1>1, <1>4, <1>5, <1>6, <1>7, <1>8
  <2>2. Cardinality(S) = Cardinality(T) + 1
    BY <1>3, <1>4, <2>1, FS_AddElement
  <2> QED
    BY <1>2, <1>3, <1>8, <2>2 DEF S, R, r, Count, OneIf
<1>9. CASE ~Match(Head(s), m, p, pid)
  <2>1. \A k \in 1..Len(s) : k \in S <=> k \in T
    BY <1>4, <1>5, <1>7, <1>9
  <2>2. S = T
    BY <1>6, <2>1
  <2> QED
    BY <1>2, <1>3, <1>9, <2>2 DEF S, R, r, Count, OneIf
<1> QED
  BY <1>8, <1>9

\* Agents keep their ids, so the parents of pending builds do.
HeapSteps ==
    \/ SameHeap
    \/ Leaves
    \/ \E a \in Addr \ agent_list, p \in Proto, par \in agent_list \cup {NULL} :
          Enter(a, p, par)

\* The builders of pending entries outlast them.
LEMMA PendingLasting ==
    ASSUME KernelInv, LastingInv, NEW t \in Times
    PROVE  /\ Pending(t) \in Lists
           /\ \A k \in DOMAIN Pending(t) : Lasting(Pending(t)[k][2])
<1>1. build_queue[t] \in Lists /\ build_list \in Lists /\ << >> \in Lists
  BY DEF KernelInv, TypeOK, ControlTypes, QueueTypes, Lists
<1>2. DOMAIN << >> = {}
  OBVIOUS
<1> QED
  BY <1>1, <1>2 DEF Pending, LastingInv

\* The builders of a list outlast those of its tail.
LEMMA TailLasting ==
    ASSUME NEW s \in Lists, s # << >>, \A k \in DOMAIN s : Lasting(s[k][2])
    PROVE  Tail(s) \in Lists /\ \A k \in DOMAIN Tail(s) : Lasting(Tail(s)[k][2])
<1>1. /\ Tail(s) \in Lists /\ Len(s) \in Nat \ {0} /\ DOMAIN s = 1..Len(s)
      /\ DOMAIN Tail(s) = 1..(Len(s) - 1)
      /\ \A i \in 1..(Len(s) - 1) : Tail(s)[i] = s[i + 1]
  BY EmptySeq, HeadTailProperties DEF Lists
<1> DEFINE r == Tail(s)
<1> HIDE DEF r
<1>2. \A k \in 1..(Len(s) - 1) : Lasting(r[k][2])
  <2> TAKE k \in 1..(Len(s) - 1)
  <2>1. k + 1 \in DOMAIN s /\ r[k] = s[k + 1]
    BY <1>1 DEF r
  <2> QED
    BY <2>1
<1> QED
  BY <1>1, <1>2 DEF r

\* Agents that enter or leave do not change the entries of lasting builders.
LEMMA CountKept ==
    ASSUME KernelInv, Orderly, DueInv, LastingInv, HeapSteps,
           NEW s \in Lists, \A k \in DOMAIN s : Lasting(s[k][2]), NEW p, NEW pid
    PROVE  Count(s, mem', p, pid) = Count(s, mem, p, pid)
<1>0. /\ HeapTypes /\ time \in Times /\ agent_list \subseteq Addr /\ NULL \notin Addr
  BY ConstantsAssumption DEF KernelInv, TypeOK, ControlTypes, HeapTypes
<1>1. ASSUME NEW q \in agent_list
      PROVE  mem'[q].id = mem[q].id
  <2>1. CASE SameHeap
    BY <2>1 DEF SameHeap
  <2>2. CASE Leaves
    <3>1. subj \in agent_list /\ subj \notin blocked /\ Decommission
      BY <2>2 DEF Leaves
    <3> QED
      BY <1>0, <3>1, DecommissionEffect DEF Left
  <2>3. CASE \E a \in Addr \ agent_list, x \in Proto, par \in agent_list \cup {NULL} :
                 Enter(a, x, par)
    BY <1>0, <2>3, EnterEffect DEF Joined
  <2> QED
    BY <2>1, <2>2, <2>3 DEF HeapSteps
<1>2. \A k \in DOMAIN s : IdIn(mem', s[k][2]) = IdIn(mem, s[k][2])
  BY <1>1 DEF Lasting, IdIn
<1>3. MatchIn(s, mem', p, pid) = MatchIn(s, mem, p, pid)
  BY <1>2 DEF MatchIn, Match
<1> QED
  BY <1>3 DEF Count

Balanced(p, pid, t) ==
    Cardinality(ScheduledFor(p, pid, t)) =
        Cardinality(BuiltAt(p, pid, t)) + Count(Pending(t), mem, p, pid) + Entering(p, pid, t)

\* BuildInv, prototype by prototype.
LEMMA BuildInvBalanced ==
    /\ BuildInv <=> (pc # "Thrown" =>
         \A t \in Times, p \in Proto, pid \in Ids \cup {-1} : Balanced(p, pid, t))
    /\ BuildInv' <=> (pc' # "Thrown" =>
         \A t \in Times, p \in Proto, pid \in Ids \cup {-1} : Balanced(p, pid, t)')
<1>1. ASSUME NEW t, NEW p, NEW pid
      PROVE  Matches(Pending(t), p, pid) = MatchIn(Pending(t), mem, p, pid)
  BY DEF Matches, MatchIn, Match, IdIn, IdOf
<1>2. ASSUME NEW t, NEW p, NEW pid
      PROVE  Matches(Pending(t), p, pid)' = MatchIn(Pending(t)', mem', p, pid)
  BY DEF Matches, MatchIn, Match, IdIn, IdOf
<1>3. BuildInv <=> (pc # "Thrown" =>
         \A t \in Times, p \in Proto, pid \in Ids \cup {-1} : Balanced(p, pid, t))
  BY <1>1 DEF BuildInv, Balanced, Count
<1>4. BuildInv' <=> (pc' # "Thrown" =>
         \A t \in Times, p \in Proto, pid \in Ids \cup {-1} : Balanced(p, pid, t)')
  BY <1>2 DEF BuildInv, Balanced, Count
<1> QED
  BY <1>3, <1>4

\* A step that moves no build.
LEMMA BuildSame ==
    ASSUME KernelInv, Orderly, DueInv, LastingInv, BuildInv, HeapSteps, pc # "Thrown",
           BuildSchedule' = BuildSchedule, \A t \in Times : Pending(t)' = Pending(t),
           \A t \in Times, p \in Proto, pid \in Ids \cup {-1} :
              BuiltAt(p, pid, t)' = BuiltAt(p, pid, t) /\ Entering(p, pid, t)' = Entering(p, pid, t)
    PROVE  BuildInv'
<1> SUFFICES ASSUME NEW t \in Times, NEW p \in Proto, NEW pid \in Ids \cup {-1}
             PROVE  Balanced(p, pid, t)'
  BY BuildInvBalanced
<1>1. Balanced(p, pid, t)
  BY BuildInvBalanced
<1>2. Count(Pending(t), mem', p, pid) = Count(Pending(t), mem, p, pid)
  BY CountKept, PendingLasting
<1>3. Count(Pending(t)', mem', p, pid) = Count(Pending(t), mem, p, pid)
  BY <1>2
<1>4. ScheduledFor(p, pid, t)' = ScheduledFor(p, pid, t)
  BY DEF ScheduledFor
<1> QED
  BY <1>1, <1>3, <1>4 DEF Balanced

\* Every step keeps EntryInv.
LEMMA EntryStep ==
    ASSUME KernelInv, Orderly, ScheduleInv, EntryInv, [Next]_vars
    PROVE  EntryInv'
<1>0. /\ time \in Times /\ HeapTypes /\ next_id \in Nat /\ Len(Initial) \in Nat
      /\ ScheduleSteps /\ ~Dangles
      /\ \A e \in AgentEntry : e[1] \in Nat
  <2>1. ScheduleSteps /\ ~Dangles
    BY NeverDangles, ScheduleFrames
  <2>2. MaxId \in Nat /\ HeapTypes /\ next_id \in Nat /\ Len(Initial) \in Nat /\ time \in Times
    BY ConstantsAssumption DEF KernelInv, TypeOK, ControlTypes, HeapTypes
  <2>3. \A e \in AgentEntry : e[1] \in Ids
    BY DEF KernelInv, TypeOK, OutputTypes
  <2> QED
    BY <2>1, <2>2, <2>3 DEF Ids
<1>1. /\ IsFiniteSet(AgentEntry)
      /\ \A e \in AgentEntry : e[1] < next_id /\ (pc = "EnterNotify" => e[1] # mem[self].id)
      /\ pc # "Load" => next_id >= Len(Initial)
      /\ pc = "EnterNotify" => mem[self].id >= Len(Initial)
  BY DEF EntryInv
<1>2. ASSUME next_id' = next_id, AgentEntry' = AgentEntry, pc' # "EnterNotify",
             pc' # "Load" => next_id >= Len(Initial)
      PROVE  EntryInv'
  BY <1>1, <1>2 DEF EntryInv
<1>3. ASSUME next_id' = next_id, AgentEntry' = AgentEntry, mem' = mem, pc' = pc, self' = self
      PROVE  EntryInv'
  BY <1>1, <1>3 DEF EntryInv
<1>4. CASE Idle
  BY <1>1, <1>2, <1>3, <1>4 DEF Idle, SameHeap, SameRows, Building, Middle, Closing, Outside
<1>5. CASE Fails
  BY <1>1, <1>2, <1>5 DEF Fails, NoThrow, SameHeap, SameRows
<1>6. CASE Begins \/ Closes \/ Leaves \/ Ends
  BY <1>1, <1>2, <1>6 DEF Begins, Closes, Leaves, Ends, SameHeap, SameRows
<1>7. CASE \/ \E m \in agent_list, t \in Times : Reschedules(m, t)
           \/ \E par \in agent_list \cup {NULL}, p \in Proto, t \in Times : Books(par, p, t)
  BY <1>3, <1>7 DEF Reschedules, Books, SameHeap, SameRows
<1>8. CASE Records
  <2> DEFINE row == <<mem[self].id, mem[self].proto, mem[self].parent_id, time>>
  <2>1. /\ AgentEntry' = AgentEntry \cup {row} /\ row[1] = mem[self].id
        /\ next_id' = next_id /\ pc = "EnterNotify" /\ pc' = "Build"
    BY <1>8 DEF Records, SameHeap
  <2>2. mem[self].id < next_id
    BY <2>1 DEF KernelInv, Control, IdsBelowNext, Callbacks
  <2> HIDE DEF row
  <2>3. IsFiniteSet(AgentEntry')
    BY <1>1, <2>1, FS_AddElement
  <2> QED
    BY <1>1, <2>1, <2>2, <2>3 DEF EntryInv
<1>9. CASE \E a \in Addr \ agent_list, p \in Proto, par \in agent_list \cup {NULL} :
              LoadsOne(a, p, par)
  <2>1. PICK a \in Addr \ agent_list, p \in Proto, par \in agent_list \cup {NULL} :
              LoadsOne(a, p, par)
    BY <1>9
  <2> DEFINE row == <<mem'[a].id, mem'[a].proto, mem'[a].parent_id, time>>
  <2>2. /\ Enter(a, p, par) /\ pc' = "Load" /\ AgentEntry' = AgentEntry \cup {row}
    BY <2>1 DEF LoadsOne
  <2>3. next_id' = next_id + 1 /\ row[1] = next_id
    BY <1>0, <2>1, <2>2, EnterEffect DEF Joined, Enter
  <2> HIDE DEF row
  <2>4. IsFiniteSet(AgentEntry')
    BY <1>1, <2>2, FS_AddElement
  <2>5. \A e \in AgentEntry' : e[1] < next_id'
    BY <1>0, <1>1, <2>2, <2>3
  <2> QED
    BY <2>2, <2>4, <2>5 DEF EntryInv
<1>10. CASE \E a \in Addr \ agent_list, p \in Proto, par \in agent_list \cup {NULL} :
              BuildsOne(a, p, par)
  <2>1. PICK a \in Addr \ agent_list, p \in Proto, par \in agent_list \cup {NULL} :
              BuildsOne(a, p, par)
    BY <1>10
  <2>2. Enter(a, p, par) /\ pc = "DoBuild" /\ self' = a /\ AgentEntry' = AgentEntry
    BY <2>1 DEF BuildsOne, SameRows
  <2>3. next_id' = next_id + 1 /\ mem'[a].id = next_id
    BY <1>0, <2>1, <2>2, EnterEffect DEF Joined, Enter
  <2>4. next_id >= Len(Initial)
    BY <1>1, <2>2
  <2>5. \A e \in AgentEntry' : e[1] < next_id' /\ e[1] # mem'[self'].id
    BY <1>0, <1>1, <2>2, <2>3
  <2>6. next_id' >= Len(Initial) /\ mem'[self'].id >= Len(Initial)
    BY <1>0, <2>2, <2>3, <2>4
  <2> QED
    BY <1>1, <2>2, <2>5, <2>6 DEF EntryInv
<1> QED
  BY <1>0, <1>4, <1>5, <1>6, <1>7, <1>8, <1>9, <1>10 DEF ScheduleSteps

BuildRow == Proto \X (Ids \cup {-1}) \X Times
Equal(x, y) == IF x = y THEN 1 ELSE 0
Rows(s, r) == {k \in DOMAIN s : s[k] = r}

\* One more row in the record of builds.
LEMMA RowsAppend ==
    ASSUME NEW s \in Seq(BuildRow), NEW x \in BuildRow, NEW r
    PROVE  /\ Cardinality(Rows(s, r)) \in Nat
           /\ Cardinality(Rows(Append(s, x), r)) = Cardinality(Rows(s, r)) + Equal(x, r)
<1> DEFINE S == Rows(s, r)
           n == Append(s, x)
           T == Rows(n, r)
<1>1. /\ DOMAIN s = 1..Len(s) /\ Len(s) \in Nat /\ DOMAIN n = 1..(Len(s) + 1)
      /\ n[Len(s) + 1] = x /\ \A k \in 1..Len(s) : n[k] = s[k]
  OBVIOUS
<1>2. IsFiniteSet(S) /\ Len(s) + 1 \notin S
  <2>1. IsFiniteSet(1..Len(s)) /\ S \in SUBSET (1..Len(s))
    BY <1>1, FS_Interval DEF Rows
  <2> QED
    BY <1>1, <2>1, FS_Subset
<1>3. Cardinality(S) \in Nat
  BY <1>2, FS_CardinalityType
<1> HIDE DEF n
<1>4. CASE x = r
  <2>1. T = S \cup {Len(s) + 1}
    BY <1>1, <1>4 DEF Rows
  <2> HIDE DEF S, T
  <2> QED
    BY <1>2, <1>3, <1>4, <2>1, FS_AddElement DEF S, T, n, Equal
<1>5. CASE x # r
  <2>1. T = S
    BY <1>1, <1>5 DEF Rows
  <2> HIDE DEF S, T
  <2> QED
    BY <1>3, <1>5, <2>1 DEF S, T, n, Equal
<1> QED
  BY <1>4, <1>5

\* The four counts of Balanced are numbers.
LEMMA BalanceTypes ==
    ASSUME KernelInv, LastingInv, EntryInv, NEW p, NEW pid, NEW t \in Times
    PROVE  /\ Cardinality(BuiltAt(p, pid, t)) \in Nat /\ IsFiniteSet(BuiltAt(p, pid, t))
           /\ Count(Pending(t), mem, p, pid) \in Nat
           /\ Entering(p, pid, t) \in Nat
<1>1. IsFiniteSet(AgentEntry) /\ BuiltAt(p, pid, t) \in SUBSET AgentEntry
  BY DEF EntryInv, BuiltAt
<1>2. IsFiniteSet(BuiltAt(p, pid, t))
  BY <1>1, FS_Subset
<1>3. Cardinality(BuiltAt(p, pid, t)) \in Nat
  BY <1>2, FS_CardinalityType
<1>4. Count(Pending(t), mem, p, pid) \in Nat
  BY PendingLasting, CountFinite
<1> QED
  BY <1>2, <1>3, <1>4 DEF Entering

\* Context::SchedBuild: one more row, one more build pending.
LEMMA BuildBooks ==
    ASSUME KernelInv, LastingInv, EntryInv, BuildInv, pc # "Thrown",
           NEW q \in agent_list \cup {NULL}, NEW x \in Proto, NEW u \in Times, Books(q, x, u)
    PROVE  BuildInv'
<1> USE ConstantsAssumption
<1> DEFINE row == <<x, IdOf(q), u>>
<1>0. /\ build_queue \in [Times -> Lists] /\ time \in Int /\ Duration \in Int
      /\ BuildSchedule \in Seq(BuildRow)
      /\ \A a \in agent_list : mem[a].id \in Ids
  <2>1. mem \in [Addr -> AgentRec] /\ agent_list \subseteq Addr
    BY DEF KernelInv, TypeOK, HeapTypes
  <2>2. \A a \in agent_list : mem[a].id \in Ids
    BY <2>1 DEF AgentRec
  <2>3. time \in Int /\ Duration \in Int
    BY DEF KernelInv, TypeOK, ControlTypes, Times
  <2> QED
    BY <2>2, <2>3 DEF KernelInv, TypeOK, QueueTypes, Lists, BuildRow
<1>1. /\ mem' = mem /\ build_list' = build_list /\ AgentEntry' = AgentEntry
      /\ time' = time /\ pc' = pc /\ self' = self /\ u > time /\ q \in Ptr
      /\ build_queue' = [build_queue EXCEPT ![u] = Append(build_queue[u], <<x, q>>)]
      /\ BuildSchedule' = Append(BuildSchedule, row)
  BY DEF Books, SameHeap, SameLists, SameRows
<1>2. row \in BuildRow /\ <<x, q>> \in Proto \X Ptr
  BY <1>0, <1>1 DEF IdOf, BuildRow
<1> SUFFICES ASSUME NEW t \in Times, NEW p \in Proto, NEW pid \in Ids \cup {-1}
             PROVE  Balanced(p, pid, t)'
  BY BuildInvBalanced
<1> DEFINE hit == Equal(row, <<p, pid, t>>)
<1>3. Balanced(p, pid, t)
  BY BuildInvBalanced
<1>4. BuiltAt(p, pid, t)' = BuiltAt(p, pid, t) /\ Entering(p, pid, t)' = Entering(p, pid, t)
  BY <1>1 DEF BuiltAt, Entering
<1>5. /\ ScheduledFor(p, pid, t) = Rows(BuildSchedule, <<p, pid, t>>)
      /\ ScheduledFor(p, pid, t)' = Rows(BuildSchedule', <<p, pid, t>>)
  BY DEF ScheduledFor, Rows
<1>6. hit \in Int /\ Pending(t) \in Lists
  BY PendingLasting DEF Equal
<1>7. Match(<<x, q>>, mem, p, pid) /\ t = u <=> row = <<p, pid, t>>
  BY DEF Match, IdIn, IdOf
<1> HIDE DEF row
<1>8. Cardinality(ScheduledFor(p, pid, t)') = Cardinality(ScheduledFor(p, pid, t)) + hit
  <2>1. Cardinality(Rows(Append(BuildSchedule, row), <<p, pid, t>>))
           = Cardinality(Rows(BuildSchedule, <<p, pid, t>>)) + hit
    BY ONLY <1>0, <1>2, RowsAppend
  <2> QED
    BY <1>1, <1>5, <2>1
<1> HIDE DEF hit
<1>9. Count(Pending(t)', mem', p, pid) = Count(Pending(t), mem, p, pid) + hit
  <2>1. CASE t = u
    <3>1. Pending(t) = build_queue[t] /\ Pending(t)' = Append(build_queue[t], <<x, q>>)
      BY <1>0, <1>1, <2>1 DEF Pending
    <3>2. Count(Append(Pending(t), <<x, q>>), mem, p, pid) =
             Count(Pending(t), mem, p, pid) + OneIf(<<x, q>>, mem, p, pid)
      BY <1>2, <1>6, CountAppend
    <3>3. OneIf(<<x, q>>, mem, p, pid) = hit
      BY <1>7, <2>1 DEF OneIf, Equal, hit
    <3> QED
      BY <1>1, <3>1, <3>2, <3>3
  <2>2. CASE t # u
    <3>1. Pending(t)' = Pending(t)
      BY <1>0, <1>1, <2>2 DEF Pending
    <3>2. hit = 0
      BY <1>7, <2>2 DEF OneIf, Equal, hit
    <3>3. Count(Pending(t), mem, p, pid) \in Nat
      BY BalanceTypes
    <3> QED
      BY <1>1, <3>1, <3>2, <3>3
  <2> QED
    BY <2>1, <2>2
<1>10. /\ Cardinality(BuiltAt(p, pid, t)) \in Nat /\ Count(Pending(t), mem, p, pid) \in Nat
       /\ Entering(p, pid, t) \in Nat
  BY BalanceTypes
<1>11. Cardinality(ScheduledFor(p, pid, t)') =
         Cardinality(BuiltAt(p, pid, t)) + (Count(Pending(t), mem, p, pid) + hit)
            + Entering(p, pid, t)
  BY <1>3, <1>6, <1>8, <1>10 DEF Balanced
<1> QED
  BY <1>4, <1>9, <1>11 DEF Balanced

\* EnterNotify returns: the build being made becomes one that was made.
LEMMA BuildRecords ==
    ASSUME KernelInv, LastingInv, EntryInv, BuildInv, Records
    PROVE  BuildInv'
<1> DEFINE row == <<mem[self].id, mem[self].proto, mem[self].parent_id, time>>
<1>1. /\ mem' = mem /\ build_list' = build_list /\ build_queue' = build_queue
      /\ BuildSchedule' = BuildSchedule /\ time' = time /\ pc = "EnterNotify" /\ pc' = "Build"
      /\ AgentEntry' = AgentEntry \cup {row}
  BY DEF Records, SameHeap, SameBuilds, SameLists
<1>2. row \notin AgentEntry /\ row[1] >= Len(Initial)
  BY <1>1 DEF EntryInv
<1> SUFFICES ASSUME NEW t \in Times, NEW p \in Proto, NEW pid \in Ids \cup {-1}
             PROVE  Balanced(p, pid, t)'
  BY BuildInvBalanced
<1>3. Balanced(p, pid, t)
  BY <1>1, BuildInvBalanced
<1>4. /\ Cardinality(BuiltAt(p, pid, t)) \in Nat /\ IsFiniteSet(BuiltAt(p, pid, t))
      /\ Count(Pending(t), mem, p, pid) \in Nat
      /\ Entering(p, pid, t) \in Nat
  BY BalanceTypes
<1>5. Pending(t)' = Pending(t)
  BY <1>1 DEF Pending, Building, Outside
<1>6. ScheduledFor(p, pid, t)' = ScheduledFor(p, pid, t)
  BY <1>1 DEF ScheduledFor
<1>7. Entering(p, pid, t)' = 0
  BY <1>1 DEF Entering
<1>8. row[2] = mem[self].proto /\ row[3] = mem[self].parent_id /\ row[4] = time
  OBVIOUS
<1> HIDE DEF row
<1>9. CASE Entering(p, pid, t) = 1
  <2>1. t = time /\ mem[self].proto = p /\ mem[self].parent_id = pid
    BY <1>9 DEF Entering
  <2>2. BuiltAt(p, pid, t)' = BuiltAt(p, pid, t) \cup {row}
    BY <1>1, <1>2, <1>8, <2>1 DEF BuiltAt
  <2>3. row \notin BuiltAt(p, pid, t)
    BY <1>2 DEF BuiltAt
  <2>4. Cardinality(BuiltAt(p, pid, t)') = Cardinality(BuiltAt(p, pid, t)) + 1
    BY <1>4, <2>2, <2>3, FS_AddElement
  <2> QED
    BY <1>1, <1>3, <1>4, <1>5, <1>6, <1>7, <1>9, <2>4 DEF Balanced
<1>10. CASE Entering(p, pid, t) # 1
  <2>1. /\ Entering(p, pid, t) = 0
        /\ ~(t = time /\ mem[self].proto = p /\ mem[self].parent_id = pid)
    BY <1>1, <1>10 DEF Entering
  <2>2. BuiltAt(p, pid, t)' = BuiltAt(p, pid, t)
    BY <1>1, <1>8, <2>1 DEF BuiltAt
  <2> QED
    BY <1>1, <1>3, <1>4, <1>5, <1>6, <1>7, <2>1, <2>2 DEF Balanced
<1> QED
  BY <1>9, <1>10

\* One turn of DoBuild: a pending build becomes the one being made.
LEMMA BuildBuildsOne ==
    ASSUME KernelInv, Orderly, DueInv, LastingInv, EntryInv, BuildInv,
           NEW a \in Addr \ agent_list, NEW x \in Proto, NEW q \in agent_list \cup {NULL},
           BuildsOne(a, x, q)
    PROVE  BuildInv'
<1>1. /\ Enter(a, x, q) /\ build_list # << >> /\ build_list' = Tail(build_list)
      /\ build_queue' = build_queue /\ BuildSchedule' = BuildSchedule /\ time' = time
      /\ pc = "DoBuild" /\ pc' = "EnterNotify" /\ self' = a /\ AgentEntry' = AgentEntry
      /\ x = Head(build_list)[1] /\ q = Head(build_list)[2]
  BY DEF BuildsOne, SameBuilds, SameRows
<1>2. HeapTypes /\ time \in Times /\ build_list \in Lists /\ time \in Int
  BY ConstantsAssumption DEF KernelInv, TypeOK, ControlTypes, Lists, Times
<1>3. mem'[a].proto = x /\ mem'[a].parent_id = IdOf(q)
  BY <1>1, <1>2, EnterEffect DEF Joined
<1>4. HeapSteps
  BY <1>1 DEF HeapSteps
<1> SUFFICES ASSUME NEW t \in Times, NEW p \in Proto, NEW pid \in Ids \cup {-1}
             PROVE  Balanced(p, pid, t)'
  BY BuildInvBalanced
<1>5. Balanced(p, pid, t)
  BY <1>1, BuildInvBalanced
<1>6. /\ Cardinality(BuiltAt(p, pid, t)) \in Nat /\ Count(Pending(t), mem, p, pid) \in Nat
  BY BalanceTypes
<1>7. Entering(p, pid, t) = 0
  BY <1>1 DEF Entering
<1>8. ScheduledFor(p, pid, t)' = ScheduledFor(p, pid, t) /\ BuiltAt(p, pid, t)' = BuiltAt(p, pid, t)
  BY <1>1 DEF ScheduledFor, BuiltAt
<1>9. CASE t # time
  <2>1. Pending(t)' = Pending(t)
    BY <1>1, <1>9 DEF Pending, Building, Outside
  <2>2. Entering(p, pid, t)' = 0
    BY <1>1, <1>9 DEF Entering
  <2>3. Count(Pending(t), mem', p, pid) = Count(Pending(t), mem, p, pid)
    BY <1>4, CountKept, PendingLasting
  <2> QED
    BY <1>5, <1>6, <1>7, <1>8, <2>1, <2>2, <2>3 DEF Balanced
<1>10. CASE t = time
  <2>1. Pending(t) = build_list /\ Pending(t)' = Tail(build_list)
    BY <1>1, <1>2, <1>10 DEF Pending, Building, Outside
  <2>2. Entering(p, pid, t)' = OneIf(Head(build_list), mem, p, pid)
    BY <1>1, <1>3, <1>10 DEF Entering, OneIf, Match, IdIn, IdOf
  <2>3. /\ Tail(build_list) \in Lists
        /\ \A k \in DOMAIN Tail(build_list) : Lasting(Tail(build_list)[k][2])
    <3>1. \A k \in DOMAIN build_list : Lasting(build_list[k][2])
      BY DEF LastingInv
    <3> QED
      BY <1>1, <1>2, <3>1, TailLasting
  <2>4. Count(Tail(build_list), mem', p, pid) = Count(Tail(build_list), mem, p, pid)
    BY <1>4, <2>3, CountKept
  <2>5. Count(build_list, mem, p, pid)
          = Count(Tail(build_list), mem, p, pid) + OneIf(Head(build_list), mem, p, pid)
    BY <1>1, <1>2, CountTail
  <2>6. /\ Count(Tail(build_list), mem, p, pid) \in Nat
        /\ OneIf(Head(build_list), mem, p, pid) \in Nat
    BY <2>3, CountFinite DEF OneIf
  <2> QED
    BY <1>5, <1>6, <1>7, <1>8, <2>1, <2>2, <2>4, <2>5, <2>6 DEF Balanced
<1> QED
  BY <1>9, <1>10

\* Every step keeps BuildInv.
LEMMA BuildCountStep ==
    ASSUME KernelInv, Orderly, ScheduleInv, EntryInv, BuildInv, [Next]_vars
    PROVE  BuildInv'
<1> USE ConstantsAssumption
<1>0. /\ ScheduleSteps /\ ~Dangles /\ DueInv /\ LastingInv
      /\ time \in Int /\ Duration \in Int /\ HeapTypes /\ time \in Times
      /\ next_id \in Int /\ Len(Initial) \in Int
  <2>1. ScheduleSteps /\ ~Dangles
    BY NeverDangles, ScheduleFrames
  <2> QED
    BY <2>1 DEF ScheduleInv, KernelInv, TypeOK, ControlTypes, HeapTypes, Times
<1>1. CASE pc = "Thrown"
  <2>1. pc' = "Thrown"
    BY <1>0, <1>1, ConstantsAssumption DEF ScheduleSteps, Idle, Fails, Dangles, Begins, Records,
       Closes, Leaves, Ends, LoadsOne, BuildsOne, Reschedules, Books, Building, Closing, Outside,
       Middle, Callbacks
  <2> QED
    BY <2>1 DEF BuildInv
<1>2. CASE pc # "Thrown" /\ Idle
  <2>1. /\ HeapSteps /\ mem' = mem /\ AgentEntry' = AgentEntry /\ BuildSchedule' = BuildSchedule
        /\ build_queue' = build_queue /\ build_list' = build_list /\ time' = time
    BY <1>2 DEF Idle, SameHeap, SameBuilds, SameRows, SameLists, HeapSteps
  <2>2. ASSUME NEW t \in Times
        PROVE  Pending(t)' = Pending(t)
    BY <1>0, <1>2, <2>1 DEF Idle, Pending, Outside, Building, Middle, Closing
  <2>3. ASSUME NEW t \in Times, NEW p \in Proto, NEW pid \in Ids \cup {-1}
        PROVE  /\ BuiltAt(p, pid, t)' = BuiltAt(p, pid, t)
               /\ Entering(p, pid, t)' = Entering(p, pid, t)
    BY <1>2, <2>1 DEF Idle, BuiltAt, Entering, Outside, Building, Middle, Closing
  <2> QED
    BY <1>0, <1>2, <2>1, <2>2, <2>3, BuildSame
<1>3. CASE Fails
  BY <1>3 DEF Fails, BuildInv
<1>4. CASE pc # "Thrown" /\ (Begins \/ Closes \/ Leaves \/ Ends)
  <2>1. /\ HeapSteps /\ AgentEntry' = AgentEntry /\ BuildSchedule' = BuildSchedule
        /\ build_queue' = build_queue /\ pc # "EnterNotify" /\ pc' # "EnterNotify"
    BY <1>4 DEF Begins, Closes, Leaves, Ends, SameHeap, SameBuilds, SameRows, HeapSteps
  <2>2. ASSUME NEW t \in Times
        PROVE  Pending(t)' = Pending(t)
    <3>1. t \in Int
      BY DEF Times
    <3>2. CASE Begins
      BY <1>0, <2>1, <3>1, <3>2 DEF Begins, Pending, Outside, Building
    <3>3. CASE Closes
      BY <1>0, <2>1, <3>1, <3>3 DEF Closes, Pending, Outside, Building
    <3>4. CASE Leaves
      <4>1. time' = time /\ pc = "Decommission" /\ pc' = "DoDecom"
        BY <3>4 DEF Leaves
      <4> QED
        BY <1>0, <2>1, <3>1, <4>1 DEF Pending, Outside, Building
    <3>5. CASE Ends
      <4>1. time' = time + 1 /\ pc = "DoDecom" /\ pc' \in {"Finish", "Loop"}
        BY <3>5 DEF Ends
      <4>2. (t > time' \/ (t = time' /\ pc' \in Outside)) <=> t > time
        BY <1>0, <3>1, <4>1 DEF Outside
      <4>3. pc \notin Outside /\ pc \notin Building /\ pc' \notin Building
        BY <4>1 DEF Outside, Building
      <4> QED
        BY <2>1, <4>2, <4>3 DEF Pending
    <3> QED
      BY <1>4, <3>2, <3>3, <3>4, <3>5
  <2>3. ASSUME NEW t \in Times, NEW p \in Proto, NEW pid \in Ids \cup {-1}
        PROVE  /\ BuiltAt(p, pid, t)' = BuiltAt(p, pid, t)
               /\ Entering(p, pid, t)' = Entering(p, pid, t)
    BY <2>1 DEF BuiltAt, Entering
  <2> QED
    BY <1>0, <1>4, <2>1, <2>2, <2>3, BuildSame
<1>5. CASE \E m \in agent_list, t \in Times : pc # "Thrown" /\ Reschedules(m, t)
  <2>1. /\ HeapSteps /\ mem' = mem /\ AgentEntry' = AgentEntry /\ BuildSchedule' = BuildSchedule
        /\ build_queue' = build_queue /\ build_list' = build_list /\ time' = time
        /\ pc' = pc /\ self' = self /\ pc # "Thrown"
    BY <1>5 DEF Reschedules, SameHeap, SameBuilds, SameRows, SameLists, HeapSteps
  <2>2. ASSUME NEW t \in Times
        PROVE  Pending(t)' = Pending(t)
    BY <2>1 DEF Pending
  <2>3. ASSUME NEW t \in Times, NEW p \in Proto, NEW pid \in Ids \cup {-1}
        PROVE  /\ BuiltAt(p, pid, t)' = BuiltAt(p, pid, t)
               /\ Entering(p, pid, t)' = Entering(p, pid, t)
    BY <2>1 DEF BuiltAt, Entering
  <2> QED
    BY <1>0, <2>1, <2>2, <2>3, BuildSame
<1>6. CASE \E par \in agent_list \cup {NULL}, p \in Proto, t \in Times :
              pc # "Thrown" /\ Books(par, p, t)
  BY <1>0, <1>6, BuildBooks
<1>7. CASE Records
  BY <1>0, <1>7, BuildRecords
<1>8. CASE \E a \in Addr \ agent_list, p \in Proto, par \in agent_list \cup {NULL} :
              BuildsOne(a, p, par)
  BY <1>0, <1>8, BuildBuildsOne
<1>9. CASE \E a \in Addr \ agent_list, p \in Proto, par \in agent_list \cup {NULL} :
              LoadsOne(a, p, par)
  <2>1. PICK a \in Addr \ agent_list, x \in Proto, q \in agent_list \cup {NULL} :
              LoadsOne(a, x, q)
    BY <1>9
  <2> DEFINE row == <<mem'[a].id, mem'[a].proto, mem'[a].parent_id, time>>
  <2>2. /\ Enter(a, x, q) /\ build_list' = build_list /\ BuildSchedule' = BuildSchedule
        /\ build_queue' = build_queue /\ time' = time /\ pc = "Load" /\ pc' = "Load"
        /\ next_id < Len(Initial) /\ AgentEntry' = AgentEntry \cup {row}
    BY <2>1 DEF LoadsOne, SameBuilds, SameLists
  <2>3. HeapSteps
    BY <2>2 DEF HeapSteps
  <2>4. row[1] = next_id
    BY <1>0, <2>2, EnterEffect DEF Joined
  <2> HIDE DEF row
  <2>5. ASSUME NEW t \in Times
        PROVE  Pending(t)' = Pending(t)
    BY <2>2 DEF Pending
  <2>6. ASSUME NEW t \in Times, NEW p \in Proto, NEW pid \in Ids \cup {-1}
        PROVE  /\ BuiltAt(p, pid, t)' = BuiltAt(p, pid, t)
               /\ Entering(p, pid, t)' = Entering(p, pid, t)
    <3>1. ~(row[1] >= Len(Initial))
      BY <1>0, <2>2, <2>4
    <3> QED
      BY <2>2, <3>1 DEF BuiltAt, Entering
  <2> QED
    BY <1>0, <2>2, <2>3, <2>5, <2>6, BuildSame
<1> QED
  BY <1>0, <1>1, <1>2, <1>3, <1>4, <1>5, <1>6, <1>7, <1>8, <1>9 DEF ScheduleSteps

-----------------------------------------------------------------------------
(***************************************************************************)
(* Lifetimes.                                                              *)
(***************************************************************************)
Examining == {"DoTock", "InstTock", "Tock"} \cup Closing
Overdue(a) == InstParent(a) /\ LifeOf(a) # -1 /\ time >= ExitTime(a)
Kept(a)    == a \in blocked \/ DecomSchedule[mem[a].id] >= time

\* Facilities change their condition before the Tocks.
EarlyToggle == Toggle \cap {"Tock", "DecomNotify"} = {}

\* LifeInv, agent by agent.
LEMMA LifeInvKept ==
    /\ LifeInv <=> \A a \in agent_list : Overdue(a) /\ Examined(a) => Kept(a)
    /\ LifeInv' <=> \A a \in agent_list' : (Overdue(a) /\ Examined(a))' => Kept(a)'
  BY DEF LifeInv, Overdue, Kept

\* LifeInv is about the phase that examines lifetimes.
LEMMA NotExamining ==
    ASSUME pc' \notin Examining
    PROVE  LifeInv'
  BY DEF LifeInv, Examined, Examining

\* A step that changes neither the heap nor a schedule.
LEMMA LifeSame ==
    ASSUME LifeInv, SameHeap, blocked' = blocked, time' = time, DecomSchedule' = DecomSchedule,
           \A a \in agent_list : Overdue(a) /\ Examined(a)' => Examined(a)
    PROVE  LifeInv'
<1>1. agent_list' = agent_list /\ mem' = mem
  BY DEF SameHeap
<1> SUFFICES ASSUME NEW a \in agent_list, Overdue(a)', Examined(a)'
             PROVE  Kept(a)'
  BY <1>1, LifeInvKept
<1>2. Overdue(a)
  BY <1>1 DEF Overdue, InstParent, LifeOf, ExitTime, KindOf
<1>3. Kept(a)
  BY <1>2, LifeInvKept
<1> QED
  BY <1>1, <1>3 DEF Kept

\* The parent of an examined agent.
LEMMA ParentAlive ==
    ASSUME KernelInv, NEW a \in agent_list, Overdue(a)
    PROVE  /\ mem[a].parent \in agent_list /\ KindOf(mem[a].parent) = "Inst"
           /\ a \in mem[mem[a].parent].children /\ mem[mem[a].parent].id \in Ids
           /\ <<mem[mem[a].parent].id, mem[a].parent>> \in tickers
<1>1. mem[a].parent # NULL /\ KindOf(mem[a].parent) = "Inst"
  BY DEF Overdue, InstParent
<1>2. mem[a].parent \in agent_list /\ a \in mem[mem[a].parent].children
  BY <1>1 DEF KernelInv, FamilyTree
<1>3. <<mem[mem[a].parent].id, mem[a].parent>> \in tickers
  BY <1>2 DEF KernelInv, Registered
<1>4. tickers \subseteq Ids \X Addr
  BY DEF KernelInv, TypeOK, RegistryTypes
<1> QED
  BY <1>1, <1>2, <1>3, <1>4

\* DoTock: the next listener is the only one not examined so far.
LEMMA LifeDoTock ==
    ASSUME KernelInv, LifeInv, DoTock
    PROVE  LifeInv'
<1>0. cursor \in Int /\ \A i \in Ids : i \in Int
  BY ConstantsAssumption DEF KernelInv, TypeOK, ControlTypes, Ids
<1>1. PICK l \in Later :
        /\ \A k \in Later : l[1] <= k[1]
        /\ cursor' = l[1] /\ self' = l[2]
        /\ IF KindOf(l[2]) = "Inst"
           THEN pc' = "InstTock" /\ todo' = mem[l[2]].children
           ELSE pc' = "Tock" /\ UNCHANGED todo
  BY DEF DoTock, Listen
<1>2. /\ pc = "DoTock" /\ SameHeap /\ blocked' = blocked /\ time' = time
      /\ DecomSchedule' = DecomSchedule
  BY DEF DoTock, Listen, SameHeap, heap, queues
<1>3. l \in tickers /\ l[1] > cursor /\ l[2] \in agent_list /\ l[1] = mem[l[2]].id /\ l[1] \in Ids
  BY <1>1 DEF Later, KernelInv, Registered, TypeOK, RegistryTypes
<1>4. ASSUME NEW a \in agent_list, Overdue(a), Examined(a)'
      PROVE  Examined(a)
  <2> DEFINE par == mem[a].parent
             i == mem[par].id
  <2>1. /\ par \in agent_list /\ KindOf(par) = "Inst" /\ a \in mem[par].children
        /\ i \in Ids /\ <<i, par>> \in tickers
    BY <1>4, ParentAlive
  <2>2. i <= l[1] /\ ~(pc' = "InstTock" /\ a \in todo')
    BY <1>1, <1>2, <1>4 DEF Examined, SameHeap, Closing
  <2>3. CASE i <= cursor
    BY <1>2, <2>3 DEF Examined
  <2>4. CASE i > cursor
    <3>1. <<i, par>> \in Later
      BY <2>1, <2>4 DEF Later
    <3>2. l[1] = i
      BY <1>0, <1>1, <1>3, <2>1, <2>2, <3>1
    <3>3. l[2] = par
      BY <1>3, <2>1, <3>2 DEF KernelInv, Registered
    <3> QED
      BY <1>1, <2>1, <2>2, <3>3
  <2> QED
    BY <1>0, <2>1, <2>3, <2>4
<1> QED
  BY <1>2, <1>4, LifeSame

\* Institution::Tock: a child at the end of its life is scheduled, or its
\* condition keeps it.
LEMMA LifeInstTock ==
    ASSUME KernelInv, LifeInv, InstTock
    PROVE  LifeInv'
<1>0. /\ pc = "InstTock" /\ agent_list' = agent_list /\ mem' = mem /\ blocked' = blocked
      /\ time' = time /\ cursor' = cursor /\ SameHeap /\ time \in Int
      /\ todo \subseteq agent_list
      /\ DecomSchedule \in [Ids -> Times \cup {-1}]
      /\ \A a \in agent_list : mem[a].id \in Ids
  <2>1. mem \in [Addr -> AgentRec] /\ agent_list \subseteq Addr
    BY DEF KernelInv, TypeOK, HeapTypes
  <2>2. \A a \in agent_list : mem[a].id \in Ids
    BY <2>1 DEF AgentRec
  <2>3. /\ time \in Int /\ todo \subseteq agent_list /\ DecomSchedule \in [Ids -> Times \cup {-1}]
    BY ConstantsAssumption DEF KernelInv, TypeOK, ControlTypes, QueueTypes, Times,
       CallsReachLiveAgents
  <2> QED
    BY <2>2, <2>3 DEF InstTock, SameHeap, heap
<1>1. CASE todo = {}
  <2>1. pc' = "Tock" /\ todo' = todo /\ DecomSchedule' = DecomSchedule
    BY <1>0, <1>1 DEF InstTock
  <2>2. \A a \in agent_list : Overdue(a) /\ Examined(a)' => Examined(a)
    BY <1>0, <1>1, <2>1 DEF Examined, Closing
  <2> QED
    BY <1>0, <2>1, <2>2, LifeSame
<1>2. CASE todo # {}
  <2>1. PICK b \in todo :
          /\ todo' = todo \ {b} /\ pc' = pc
          /\ DecomSchedule' = IF AtEndOfLife(b)
                              THEN [DecomSchedule EXCEPT ![mem[b].id] = time]
                              ELSE DecomSchedule
    BY <1>0, <1>2 DEF InstTock
  <2> SUFFICES ASSUME NEW a \in agent_list, Overdue(a)', Examined(a)'
               PROVE  Kept(a)'
    BY <1>0, LifeInvKept
  <2>2. Overdue(a)
    BY <1>0 DEF Overdue, InstParent, LifeOf, ExitTime, KindOf
  <2>3. CASE a = b
    <3>1. CASE AtEndOfLife(b)
      <4>1. DecomSchedule'[mem[a].id] = time
        BY <1>0, <2>1, <2>3, <3>1
      <4> QED
        BY <1>0, <4>1 DEF Kept
    <3>2. CASE ~AtEndOfLife(b)
      BY <1>0, <2>2, <2>3, <3>2 DEF Kept, AtEndOfLife, Overdue
    <3> QED
      BY <3>1, <3>2
  <2>4. CASE a # b
    <3>1. Examined(a)
      BY <1>0, <2>1, <2>4 DEF Examined, Closing
    <3>2. Kept(a)
      BY <2>2, <3>1, LifeInvKept
    <3>3. mem[a].id # mem[b].id
      BY <1>0, <2>4 DEF KernelInv, Registered
    <3>4. DecomSchedule'[mem[a].id] = DecomSchedule[mem[a].id]
      BY <1>0, <2>1, <3>3
    <3> QED
      BY <1>0, <3>2, <3>4 DEF Kept
  <2> QED
    BY <2>3, <2>4
<1> QED
  BY <1>1, <1>2

\* Decommission: the children of the agent deleted have no institution any more.
LEMMA LifeDecommission ==
    ASSUME KernelInv, LifeInv, Decommission
    PROVE  LifeInv'
<1>1. CASE subj \in blocked
  <2>1. pc' = "Thrown"
    BY <1>1 DEF Decommission, Throw
  <2> QED
    BY <2>1, NotExamining DEF Examining, Closing
<1>2. CASE subj \notin blocked
  <2>1. /\ HeapTypes /\ subj \in agent_list /\ agent_list \subseteq Addr /\ NULL \notin Addr
        /\ mem \in [Addr -> AgentRec]
    BY ConstantsAssumption DEF KernelInv, TypeOK, HeapTypes, Control, Decommission
  <2>2. agent_list' = agent_list \ {subj} /\ Left(subj)
    BY <1>2, <2>1, DecommissionEffect
  <2>3. /\ blocked' = blocked /\ time' = time /\ DecomSchedule' = DecomSchedule
        /\ pc = "Decommission"
    BY <1>2 DEF Decommission, queues
  <2> SUFFICES ASSUME NEW a \in agent_list', Overdue(a)', Examined(a)'
               PROVE  Kept(a)'
    BY LifeInvKept
  <2>4. /\ a \in agent_list /\ a \in Addr
        /\ mem'[a].id = mem[a].id /\ mem'[a].proto = mem[a].proto
        /\ mem'[a].enter_time = mem[a].enter_time
        /\ mem'[a].parent # NULL => mem'[a].parent = mem[a].parent
    BY <2>1, <2>2 DEF Left
  <2>5. mem'[a].parent # NULL /\ mem[a].parent = mem'[a].parent
    BY <2>4 DEF Overdue, InstParent
  <2>6. mem[a].parent \in Addr /\ mem'[mem[a].parent].proto = mem[mem[a].parent].proto
    <3>1. mem[a].parent \in Addr
      BY <2>1, <2>4, <2>5 DEF AgentRec, Ptr
    <3> QED
      BY <2>2, <3>1 DEF Left
  <2>7. Overdue(a)
    BY <2>3, <2>4, <2>5, <2>6 DEF Overdue, InstParent, KindOf, LifeOf, ExitTime
  <2>8. Kept(a)
    BY <2>3, <2>4, <2>7, LifeInvKept DEF Examined, Closing
  <2> QED
    BY <2>3, <2>4, <2>8 DEF Kept
<1> QED
  BY <1>1, <1>2

\* Context::SchedDecom never schedules for the past.
LEMMA LifeSchedDecom ==
    ASSUME KernelInv, LifeInv, CallSchedDecom
    PROVE  LifeInv'
<1>0. /\ time \in Int /\ DecomSchedule \in [Ids -> Times \cup {-1}]
      /\ \A t \in Times : t \in Int
      /\ \A a \in agent_list : mem[a].id \in Ids
  <2>1. mem \in [Addr -> AgentRec] /\ agent_list \subseteq Addr
    BY DEF KernelInv, TypeOK, HeapTypes
  <2>2. \A a \in agent_list : mem[a].id \in Ids
    BY <2>1 DEF AgentRec
  <2>3. /\ time \in Int /\ DecomSchedule \in [Ids -> Times \cup {-1}]
        /\ \A t \in Times : t \in Int
    BY ConstantsAssumption DEF KernelInv, TypeOK, ControlTypes, QueueTypes, Times
  <2> QED
    BY <2>2, <2>3
<1>1. PICK m \in {a \in Reach : KindOf(a) \in Retire}, t0 \in Times \cup {-1} : SchedDecom(m, t0)
  BY DEF CallSchedDecom
<1>2. m \in agent_list
  BY <1>1, ReachAlive DEF CallSchedDecom, CanCall
<1> DEFINE t == IF t0 = -1 THEN time ELSE t0
<1>3. CASE t < time
  <2>1. pc' = "Thrown"
    BY <1>1, <1>3 DEF SchedDecom, Throw
  <2> QED
    BY <2>1, NotExamining DEF Examining, Closing
<1>4. CASE ~(t < time)
  <2>1. /\ DecomSchedule' = [DecomSchedule EXCEPT ![mem[m].id] = t]
        /\ agent_list' = agent_list /\ mem' = mem /\ blocked' = blocked /\ time' = time
        /\ pc' = pc /\ todo' = todo /\ cursor' = cursor
    BY <1>1, <1>4 DEF SchedDecom, heap, loopvars
  <2>2. t >= time
    BY <1>0, <1>4
  <2> HIDE DEF t
  <2> SUFFICES ASSUME NEW a \in agent_list, Overdue(a)', Examined(a)'
               PROVE  Kept(a)'
    BY <2>1, LifeInvKept
  <2>3. Overdue(a) /\ Examined(a)
    BY <2>1 DEF Overdue, InstParent, LifeOf, ExitTime, KindOf, Examined
  <2>4. Kept(a)
    BY <2>3, LifeInvKept
  <2> QED
    BY <1>0, <1>2, <2>1, <2>2, <2>4 DEF Kept
<1> QED
  BY <1>3, <1>4

\* Every step keeps LifeInv.
LEMMA LifeStep ==
    ASSUME KernelInv, EarlyToggle, LifeInv, [Next]_vars
    PROVE  LifeInv'
<1> USE DEF SameHeap, heap, queues, loopvars
<1>1. ASSUME SameHeap, blocked' = blocked, time' = time, DecomSchedule' = DecomSchedule,
             cursor' = cursor, todo' = todo,
             \/ pc' = pc
             \/ pc = "Tock" /\ pc' = "DoTock"
             \/ pc \in Closing /\ pc' \in Closing
      PROVE  LifeInv'
  <2>1. \A a \in agent_list : Examined(a)' => Examined(a)
    BY <1>1 DEF Examined, Closing
  <2> QED
    BY <1>1, <2>1, LifeSame
<1>2. CASE \/ LoadInitialAgents \/ RunSim \/ BeginStep \/ DoBuild \/ EnterNotifyReturns
           \/ BuildReturns \/ BuildsDone \/ DoTick \/ TicksDone \/ DoResEx \/ EndStep \/ FinishSim
  <2>1. pc' \notin Examining
    BY <1>2 DEF LoadInitialAgents, RunSim, BeginStep, DoBuild, Throw, EnterNotifyReturns,
       BuildReturns, BuildsDone, DoTick, Listen, TicksDone, DoResEx, EndStep, FinishSim,
       Examining, Closing
  <2> QED
    BY <2>1, NotExamining
<1>3. CASE TradesDone
  <2>1. /\ SameHeap /\ blocked' = blocked /\ time' = time /\ DecomSchedule' = DecomSchedule
        /\ pc' = "DoTock" /\ cursor' = -1
    BY <1>3 DEF TradesDone
  <2>2. ASSUME NEW a \in agent_list, Overdue(a), Examined(a)'
        PROVE  Examined(a)
    <3>1. mem[mem[a].parent].id \in Nat
      <4>1. mem[mem[a].parent].id \in Ids
        BY <2>2, ParentAlive
      <4> QED
        BY <4>1, ConstantsAssumption DEF Ids
    <3> QED
      BY <2>1, <2>2, <3>1 DEF Examined, Closing
  <2> QED
    BY <2>1, <2>2, LifeSame
<1>4. CASE DoTock
  BY <1>4, LifeDoTock
<1>5. CASE InstTock
  BY <1>5, LifeInstTock
<1>6. CASE TocksDone
  <2>1. /\ SameHeap /\ blocked' = blocked /\ time' = time /\ DecomSchedule' = DecomSchedule
        /\ pc = "DoTock" /\ Later = {}
    BY <1>6 DEF TocksDone
  <2>2. ASSUME NEW a \in agent_list, Overdue(a), Examined(a)'
        PROVE  Examined(a)
    <3> DEFINE i == mem[mem[a].parent].id
    <3>1. <<i, mem[a].parent>> \in tickers /\ i \in Int
      <4>1. <<i, mem[a].parent>> \in tickers /\ i \in Ids
        BY <2>2, ParentAlive
      <4> QED
        BY <4>1, ConstantsAssumption DEF Ids
    <3>2. ~(i > cursor)
      BY <2>1, <3>1 DEF Later
    <3>3. cursor \in Int
      BY ConstantsAssumption DEF KernelInv, TypeOK, ControlTypes, Ids
    <3> QED
      BY <2>1, <3>1, <3>2, <3>3 DEF Examined
  <2> QED
    BY <2>1, <2>2, LifeSame
<1>7. CASE DoDecom
  <2>1. CASE pc' = "Thrown"
    BY <2>1, NotExamining DEF Examining, Closing
  <2>2. CASE pc' # "Thrown"
    BY <1>1, <1>7, <2>2 DEF DoDecom, Throw, Closing
  <2> QED
    BY <2>1, <2>2
<1>8. CASE Decommission
  BY <1>8, LifeDecommission
<1>9. CASE CallbackReturns
  <2>1. pc \in DOMAIN Caller /\ pc' = Caller[pc]
    BY <1>9 DEF CallbackReturns
  <2>2. \/ pc' \in {"DoBuild", "DoTick", "DoResEx"}
        \/ pc = "Tock" /\ pc' = "DoTock"
        \/ pc = "DecomNotify" /\ pc' = "Decommission"
    BY <2>1 DEF Caller
  <2>3. CASE pc' \in {"DoBuild", "DoTick", "DoResEx"}
    BY <2>3, NotExamining DEF Examining, Closing
  <2> QED
    BY <1>1, <1>9, <2>2, <2>3 DEF CallbackReturns, Closing
<1>10. CASE CallSchedBuild
  <2>1. CASE pc' = "Thrown"
    BY <2>1, NotExamining DEF Examining, Closing
  <2>2. CASE pc' # "Thrown"
    <3>1. /\ SameHeap /\ blocked' = blocked /\ time' = time /\ DecomSchedule' = DecomSchedule
          /\ cursor' = cursor /\ todo' = todo /\ pc' = pc
      BY <1>10, <2>2 DEF CallSchedBuild, SchedBuild, Throw
    <3> QED
      BY <1>1, <3>1
  <2> QED
    BY <2>1, <2>2
<1>11. CASE CallSchedDecom
  BY <1>11, LifeSchedDecom
<1>12. CASE CallSnapshot \/ CallKillSim
  <2>1. /\ SameHeap /\ blocked' = blocked /\ time' = time /\ DecomSchedule' = DecomSchedule
        /\ cursor' = cursor /\ todo' = todo /\ pc' = pc
    BY <1>12 DEF CallSnapshot, CallKillSim
  <2> QED
    BY <1>1, <2>1
<1>13. CASE ChangeCondition
  <2>1. pc \in Toggle /\ pc \in Callbacks /\ pc' = pc
    BY <1>13, ConstantsAssumption DEF ChangeCondition
  <2>2. pc' \notin Examining
    BY <2>1 DEF EarlyToggle, Examining, Closing, Callbacks
  <2> QED
    BY <2>2, NotExamining
<1>14. CASE UNCHANGED vars
  <2>1. /\ SameHeap /\ blocked' = blocked /\ time' = time /\ DecomSchedule' = DecomSchedule
        /\ cursor' = cursor /\ todo' = todo /\ pc' = pc
    BY <1>14 DEF vars
  <2> QED
    BY <1>1, <2>1
<1> QED
  BY <1>2, <1>3, <1>4, <1>5, <1>6, <1>7, <1>8, <1>9, <1>10, <1>11, <1>12, <1>13, <1>14
     DEF Next, Kernel, AgentCall, Stopped

\* At the end of a time step, whoever was due in it has exited.
LEMMA LoopStep ==
    ASSUME KernelInv, DueInv, LifeInv, LifetimesEnforced, [Next]_vars
    PROVE  LifetimesEnforced'
<1> SUFFICES ASSUME pc' = "Loop"
             PROVE  LifetimesEnforced'
  BY DEF LifetimesEnforced
<1> USE DEF SameHeap, heap, queues, loopvars
<1>1. CASE RunSim
  BY <1>1 DEF RunSim, KernelInv, Control, LifetimesEnforced
<1>2. CASE EndStep
  <2>1. /\ pc = "DoDecom" /\ decom_list = << >> /\ time' = time + 1
        /\ agent_list' = agent_list /\ mem' = mem /\ blocked' = blocked
        /\ DecomSchedule' = DecomSchedule
    BY <1>2 DEF EndStep
  <2>2. /\ time \in Times /\ time \in Int /\ DecomSchedule \in [Ids -> Times \cup {-1}]
        /\ mem \in [Addr -> AgentRec] /\ agent_list \subseteq Addr
    BY ConstantsAssumption DEF KernelInv, TypeOK, ControlTypes, QueueTypes, HeapTypes, Times
  <2>0. \A t \in Times \cup Nat \cup {-1} : t \in Int
    BY ConstantsAssumption DEF Times
  <2> SUFFICES ASSUME NEW a \in agent_list,
                      (InstParent(a) /\ LifeOf(a) # -1 /\ time > ExitTime(a))'
               PROVE  (a \in blocked \/ DecomSchedule[mem[a].id] >= time)'
    BY <2>1 DEF LifetimesEnforced
  <2>3. InstParent(a) /\ LifeOf(a) # -1 /\ time' > ExitTime(a)
    BY <2>1 DEF InstParent, LifeOf, ExitTime, KindOf
  <2>4. ExitTime(a) \in Int /\ mem[a].id \in Ids
    <3>1. mem[a].proto \in Proto /\ mem[a].enter_time \in Times /\ mem[a].id \in Ids
      BY <2>2 DEF AgentRec
    <3> QED
      <4>1. Lifetime[mem[a].proto] \in Int /\ mem[a].enter_time \in Int
        <5>1. Lifetime \in [Proto -> Nat \cup {-1}]
          BY ConstantsAssumption
        <5>2. Lifetime[mem[a].proto] \in Nat \cup {-1}
          BY <3>1, <5>1
        <5> QED
          BY <2>0, <3>1, <5>2
      <4> QED
        BY <3>1, <4>1 DEF ExitTime, LifeOf
  <2>5. Overdue(a)
    BY <2>1, <2>2, <2>3, <2>4 DEF Overdue
  <2>6. Kept(a)
    BY <2>1, <2>5, LifeInvKept DEF Examined, Closing
  <2>7. DecomSchedule[mem[a].id] # time
    <3>1. ~Holds(Due(time), a)
      BY <2>1 DEF Due, Closing, Holds
    <3> QED
      BY <2>1, <2>2, <3>1 DEF DueInv
  <2> QED
    <3>1. DecomSchedule[mem[a].id] \in Int
      <4>1. DecomSchedule[mem[a].id] \in Times \cup {-1}
        BY <2>2, <2>4
      <4> QED
        BY <2>0, <4>1
    <3> QED
      BY <2>1, <2>2, <2>6, <2>7, <3>1 DEF Kept
<1>3. CASE UNCHANGED vars
  BY <1>3 DEF vars, LifetimesEnforced, InstParent, LifeOf, ExitTime, KindOf
<1>4. CASE \/ LoadInitialAgents \/ BeginStep \/ DoBuild \/ EnterNotifyReturns
           \/ BuildReturns \/ BuildsDone \/ DoTick \/ TicksDone \/ DoResEx \/ FinishSim
           \/ TradesDone \/ DoTock \/ InstTock \/ TocksDone \/ DoDecom \/ Decommission
           \/ CallbackReturns \/ AgentCall
  <2>1. pc' # "Loop"
    <3>1. CASE \/ LoadInitialAgents \/ BeginStep \/ DoBuild \/ EnterNotifyReturns
               \/ BuildReturns \/ BuildsDone \/ DoTick \/ TicksDone \/ DoResEx \/ FinishSim
      BY <3>1 DEF LoadInitialAgents, BeginStep, DoBuild, Throw, EnterNotifyReturns,
         BuildReturns, BuildsDone, DoTick, Listen, TicksDone, DoResEx, FinishSim
    <3>2. CASE TradesDone \/ DoTock \/ InstTock \/ TocksDone \/ DoDecom \/ Decommission
      BY <3>2 DEF TradesDone, DoTock, Listen, InstTock, TocksDone, DoDecom, Decommission, Throw
    <3>3. CASE CallbackReturns
      BY <3>3 DEF CallbackReturns, Caller
    <3>4. CASE AgentCall
      <4>1. pc \in Callbacks /\ (pc' = pc \/ pc' = "Thrown")
        BY <3>4, ConstantsAssumption DEF AgentCall, CallSchedBuild, SchedBuild, CallSchedDecom,
           SchedDecom, CallSnapshot, CallKillSim, ChangeCondition, CanCall, Throw
      <4> QED
        BY <4>1 DEF Callbacks
    <3> QED
      BY <1>4, <3>1, <3>2, <3>3, <3>4
  <2> QED
    BY <2>1
<1> QED
  BY <1>1, <1>2, <1>3, <1>4 DEF Next, Kernel, Stopped

-----------------------------------------------------------------------------
\* The invariants hold at first.
LEMMA InitSchedules ==
    ASSUME Init
    PROVE  ScheduleInv /\ EntryInv /\ BuildInv /\ LifeInv /\ LifetimesEnforced
<1> USE ConstantsAssumption
<1>1. /\ time = 0 /\ pc = "Load" /\ agent_list = {} /\ next_id = 0 /\ error = "none"
      /\ build_list = << >> /\ decom_list = << >>
      /\ build_queue = [t \in Times |-> << >>] /\ decom_queue = [t \in Times |-> << >>]
      /\ BuildSchedule = << >> /\ DecomSchedule = [i \in Ids |-> -1]
      /\ AgentEntry = {} /\ AgentExit = << >>
  BY DEF Init
<1>2. DOMAIN << >> = {} /\ Len(<< >>) = 0 /\ 1..0 = {}
  OBVIOUS
<1>3. DueInv
  <2>1. \A t \in Times : Due(t) = << >>
    BY <1>1 DEF Due, Closing
  <2> QED
    BY <1>1, <1>2, <2>1 DEF DueInv, Holds, Closing
<1>4. LastingInv
  BY <1>1, <1>2 DEF LastingInv
<1>5. ExitInv
  BY <1>1, <1>2 DEF ExitInv, Ids
<1>6. NoUseAfterFree
  BY <1>1 DEF NoUseAfterFree
<1>7. EntryInv
  BY <1>1, FS_EmptySet DEF EntryInv
<1>8. BuildInv
  <2>1. ASSUME NEW t \in Times, NEW p \in Proto, NEW pid \in Ids \cup {-1}
        PROVE  Cardinality(ScheduledFor(p, pid, t)) =
                 Cardinality(BuiltAt(p, pid, t)) + Cardinality(Matches(Pending(t), p, pid))
                   + Entering(p, pid, t)
    <3>1. Pending(t) = << >>
      BY <1>1 DEF Pending
    <3>2. /\ ScheduledFor(p, pid, t) = {} /\ BuiltAt(p, pid, t) = {}
          /\ Matches(Pending(t), p, pid) = {}
      BY <1>1, <1>2, <3>1 DEF ScheduledFor, BuiltAt, Matches
    <3>3. Entering(p, pid, t) = 0
      BY <1>1 DEF Entering
    <3> QED
      BY <3>2, <3>3, FS_EmptySet
  <2> QED
    BY <2>1 DEF BuildInv
<1>9. LifeInv /\ LifetimesEnforced
  BY <1>1 DEF LifeInv, LifetimesEnforced
<1> QED
  BY <1>3, <1>4, <1>5, <1>6, <1>7, <1>8, <1>9 DEF ScheduleInv

\* An id whose time has come belongs to an agent that has exited.
LEMMA ExitsFollow ==
    ASSUME KernelInv, ScheduleInv
    PROVE  ExitsAsScheduled
<1>1. /\ \A k \in DOMAIN AgentExit : DecomSchedule[AgentExit[k][1]] = AgentExit[k][2]
      /\ \A k, l \in DOMAIN AgentExit : AgentExit[k][1] = AgentExit[l][1] => k = l
  BY DEF ScheduleInv, ExitInv
<1>2. ASSUME pc # "Thrown", NEW i \in Ids, DecomSchedule[i] \in 0..(time - 1)
      PROVE  \E k \in DOMAIN AgentExit : AgentExit[k] = <<i, DecomSchedule[i]>>
  <2>1. /\ time \in 0..Duration /\ Duration \in Nat /\ next_id \in Int /\ i \in Int
        /\ \A k \in DOMAIN AgentExit : AgentExit[k] = <<AgentExit[k][1], AgentExit[k][2]>>
    <3>1. \A k \in DOMAIN AgentExit : AgentExit[k] \in Ids \X Times
      BY DEF KernelInv, TypeOK, OutputTypes
    <3> QED
      BY <3>1, ConstantsAssumption DEF KernelInv, TypeOK, ControlTypes, HeapTypes, Times, Ids
  <2>2. DecomSchedule[i] \in Times /\ DecomSchedule[i] # -1 /\ ~(DecomSchedule[i] >= time)
    BY <1>2, <2>1 DEF Times
  <2>3. i < next_id
    BY <2>1, <2>2 DEF ScheduleInv, ExitInv
  <2>4. ~\E a \in agent_list : mem[a].id = i
    BY <1>2, <2>2 DEF ScheduleInv, DueInv
  <2>5. PICK k \in DOMAIN AgentExit : AgentExit[k][1] = i
    BY <2>3, <2>4 DEF ScheduleInv, ExitInv
  <2>6. AgentExit[k] = <<i, DecomSchedule[i]>>
    BY <1>1, <2>1, <2>5
  <2> QED
    BY <2>6
<1> QED
  BY <1>1, <1>2 DEF ExitsAsScheduled

\* Once the builds of a time step are done none is pending or being made.
LEMMA BuildsFollow ==
    ASSUME KernelInv, ScheduleInv, EntryInv, BuildInv
    PROVE  BuildsAsScheduled
<1> SUFFICES ASSUME pc # "Thrown", NEW t \in 0..BuildsDoneUpTo, NEW p \in Proto,
                    NEW pid \in Ids \cup {-1}
             PROVE  Cardinality(BuiltAt(p, pid, t)) = Cardinality(ScheduledFor(p, pid, t))
  BY DEF BuildsAsScheduled
<1> DEFINE After == {"DoTick", "Tick", "DoResEx", "Trade", "DoTock", "InstTock",
                     "Tock", "DoDecom", "DecomNotify", "Decommission"}
<1>1. time \in 0..Duration /\ Duration \in Nat
  BY ConstantsAssumption DEF KernelInv, TypeOK, ControlTypes, Times
<1>2. t \in Nat /\ IF pc \in After THEN t <= time ELSE t < time
  BY <1>1 DEF BuildsDoneUpTo
<1>3. t \in Times /\ (t < time \/ (t = time /\ pc \in After))
  BY <1>1, <1>2 DEF Times
<1>4. Pending(t) = << >>
  BY <1>1, <1>2, <1>3 DEF Pending, Outside, Building
<1>5. Entering(p, pid, t) = 0
  BY <1>1, <1>2, <1>3 DEF Entering
<1>6. Cardinality(Matches(Pending(t), p, pid)) = 0
  <2>1. Matches(Pending(t), p, pid) = {}
    BY <1>4 DEF Matches
  <2> QED
    BY <2>1, FS_EmptySet
<1>7. Cardinality(BuiltAt(p, pid, t)) \in Nat
  BY <1>3, BalanceTypes DEF ScheduleInv
<1>8. Cardinality(ScheduledFor(p, pid, t)) =
        Cardinality(BuiltAt(p, pid, t)) + Cardinality(Matches(Pending(t), p, pid))
          + Entering(p, pid, t)
  BY <1>3 DEF BuildInv
<1> QED
  BY <1>5, <1>6, <1>7, <1>8

(***************************************************************************)
(* The schedules of orderly agents, whatever they are: the live agents     *)
(* with a decommissioning to come are exactly those queued for it, and     *)
(* every build scheduled is pending, being made or made.                   *)
(***************************************************************************)
THEOREM ScheduleInvariance ==
    ASSUME Orderly
    PROVE  Spec => [](ScheduleInv /\ EntryInv /\ BuildInv)
<1>1. Init => ScheduleInv /\ EntryInv /\ BuildInv
  BY InitSchedules
<1>2. KernelInv /\ QueuedOnce /\ (ScheduleInv /\ EntryInv /\ BuildInv) /\ [Next]_vars
        => (ScheduleInv /\ EntryInv /\ BuildInv)'
  BY ScheduleStep, EntryStep, BuildCountStep
<1> QED
  BY <1>1, <1>2, Invariance, PTL DEF Spec

(***************************************************************************)
(* Neither DoBuild (the parent stored with a scheduled build) nor DoDecom  *)
(* follows a pointer to a deleted agent, when no agent is decommissioned   *)
(* on whose behalf builds are scheduled and none schedules from            *)
(* DecomNotify.                                                            *)
(***************************************************************************)
THEOREM NoDanglingUse ==
    ASSUME Orderly
    PROVE  Spec => []NoUseAfterFree
<1>1. ScheduleInv /\ EntryInv /\ BuildInv => NoUseAfterFree
  BY DEF ScheduleInv
<1> QED
  BY <1>1, ScheduleInvariance, PTL

(***************************************************************************)
(* For the same agents the output tables agree: an agent exits once, at    *)
(* the time step Context::SchedDecom or Institution::Tock last scheduled,  *)
(* and each time step builds exactly what Context::SchedBuild was asked    *)
(* for it, under the parent it was asked for.                              *)
(***************************************************************************)
THEOREM SchedulesHonoured ==
    ASSUME Orderly
    PROVE  Spec => []SchedulesKept
<1>1. KernelInv /\ QueuedOnce /\ (ScheduleInv /\ EntryInv /\ BuildInv) => SchedulesKept
  BY ExitsFollow, BuildsFollow DEF SchedulesKept
<1> QED
  BY <1>1, Invariance, ScheduleInvariance, PTL

(***************************************************************************)
(* Institution::Tock enforces lifetimes: no child of an institution lives  *)
(* on past its exit time unless its decommission condition keeps it or an  *)
(* agent rescheduled it, when facilities change that condition before      *)
(* their institution's Tock.                                               *)
(***************************************************************************)
THEOREM LifetimesKept ==
    ASSUME Orderly, EarlyToggle
    PROVE  Spec => []LifetimesEnforced
<1>1. Init => LifeInv /\ LifetimesEnforced
  BY InitSchedules
<1>2. KernelInv /\ QueuedOnce /\ (ScheduleInv /\ EntryInv /\ BuildInv)
        /\ (LifeInv /\ LifetimesEnforced) /\ [Next]_vars
        => (LifeInv /\ LifetimesEnforced)'
  BY LifeStep, LoopStep DEF ScheduleInv
<1> QED
  BY <1>1, <1>2, Invariance, ScheduleInvariance, PTL DEF Spec

-----------------------------------------------------------------------------
(***************************************************************************)
(* PART 4.  The kernel implements AgentPlan (SimKernelPlan).               *)
(***************************************************************************)

(***************************************************************************)
(* The refinement of AgentPlan.  Between DoBuild's loops nothing is left   *)
(* of its copy of the queue, no build is due before the first time step,   *)
(* and DoDecom's copy holds the live agents of this step's queue.          *)
(***************************************************************************)
PlanInv ==
    /\ pc \in Middle \cup Closing \cup {"Load", "LoadSched"} => build_list = << >>
    /\ pc \in {"Load", "LoadSched"} => build_queue[0] = << >>
    /\ pc \in Closing =>
          \A a \in agent_list : Holds(decom_list, a) <=> Holds(decom_queue[time], a)

\* Every step keeps PlanInv.
LEMMA PlanInvStep ==
    ASSUME KernelInv, Orderly, ScheduleInv, PlanInv, [Next]_vars
    PROVE  PlanInv'
<1>0. /\ ScheduleSteps /\ ~ Dangles /\ time \in Times /\ HeapTypes
      /\ build_list \in Seq(Proto \X Ptr) /\ decom_list \in Seq(Addr)
      /\ build_queue \in [Times -> Seq(Proto \X Ptr)]
      /\ (pc \in {"Load", "LoadSched"} => time = 0)
  <2>1. ScheduleSteps /\ ~ Dangles
    BY NeverDangles, ScheduleFrames
  <2> QED
    BY <2>1 DEF KernelInv, TypeOK, ControlTypes, HeapTypes, QueueTypes, Control
<1> USE DEF Middle, Closing, Building
<1>1. CASE Idle
  BY <1>1 DEF Idle, SameHeap, SameDecoms, SameBuilds, SameLists, PlanInv
<1>2. CASE Fails
  BY <1>2 DEF Fails, PlanInv
<1>3. CASE Begins
  BY <1>3 DEF Begins, PlanInv
<1>4. CASE Records
  BY <1>4 DEF Records, PlanInv
<1>5. CASE Closes
  BY <1>5 DEF Closes, SameHeap, SameDecoms, PlanInv
<1>6. CASE Leaves
  <2>1. /\ agent_list' = agent_list \ {subj} /\ decom_list' = Tail(decom_list)
        /\ subj = Head(decom_list) /\ decom_list # << >> /\ time' = time
        /\ decom_queue' = decom_queue /\ build_list' = build_list /\ pc' = "DoDecom"
        /\ pc = "Decommission"
    BY <1>6 DEF Leaves, Decommission, SameDecoms
  <2>2. \A i, j \in DOMAIN decom_list : decom_list[i] = decom_list[j] => i = j
    BY <2>1 DEF ScheduleInv, DueInv
  <2>3. \A x : Holds(Tail(decom_list), x) <=> Holds(decom_list, x) /\ x # Head(decom_list)
    BY <1>0, <2>1, <2>2, TailHolds
  <2> QED
    BY <2>1, <2>3 DEF PlanInv
<1>7. CASE Ends
  BY <1>7 DEF Ends, PlanInv
<1>8. CASE \E a \in Addr \ agent_list, p \in Proto, par \in agent_list \cup {NULL} :
              LoadsOne(a, p, par)
  BY <1>8 DEF LoadsOne, SameBuilds, SameLists, PlanInv
<1>9. CASE \E a \in Addr \ agent_list, p \in Proto, par \in agent_list \cup {NULL} :
              BuildsOne(a, p, par)
  BY <1>9 DEF BuildsOne, PlanInv
<1>10. CASE \E m \in agent_list, t \in Times : Reschedules(m, t)
  <2>1. pc \notin Closing
    BY <1>10, ConstantsAssumption DEF Reschedules, Orderly, Callbacks
  <2> QED
    BY <1>10, <2>1 DEF Reschedules, SameBuilds, SameLists, PlanInv
<1>11. CASE \E par \in agent_list \cup {NULL}, p \in Proto, t \in Times : Books(par, p, t)
  <2>1. PICK par \in agent_list \cup {NULL}, p \in Proto, t \in Times : Books(par, p, t)
    BY <1>11
  <2>2. pc \in {"Load", "LoadSched"} => t # 0
    BY <1>0, <2>1 DEF Books, Times
  <2>3. pc \in {"Load", "LoadSched"} => build_queue'[0] = build_queue[0]
    BY <1>0, <2>1, <2>2 DEF Books, Times
  <2> QED
    BY <2>1, <2>3 DEF Books, SameHeap, SameDecoms, SameLists, PlanInv
<1> QED
  BY <1>0, <1>1, <1>2, <1>3, <1>4, <1>5, <1>6, <1>7, <1>8, <1>9, <1>10, <1>11 DEF ScheduleSteps

Alive == {mem[a].id : a \in agent_list}

(***************************************************************************)
(* The planned exits are what the DecomSchedule table says last of those   *)
(* who are alive.                                                          *)
(***************************************************************************)
LEMMA ExitsAre ==
    KernelInv /\ DueInv /\ PlanInv /\ pc # "Thrown" =>
        PlannedExits = [i \in Ids |-> IF i \in Alive THEN DecomSchedule[i] ELSE -1]
<1> SUFFICES ASSUME KernelInv, DueInv, PlanInv, pc # "Thrown"
             PROVE  PlannedExits = [i \in Ids |-> IF i \in Alive THEN DecomSchedule[i] ELSE -1]
  OBVIOUS
<1>1. /\ agent_list \subseteq Addr /\ time \in Int /\ DecomSchedule \in [Ids -> Times \cup {-1}]
      /\ \A a, b \in agent_list : mem[a].id = mem[b].id => a = b
      /\ \A a \in agent_list : mem[a].id \in Ids
  BY ConstantsAssumption DEF KernelInv, TypeOK, HeapTypes, ControlTypes, QueueTypes, Registered,
     AgentRec, Times
<1> DEFINE ts(i) == {t \in Times : t >= time /\ \E a \in agent_list :
                        mem[a].id = i /\ t \in Held(decom_queue, a)}
<1>2. ASSUME NEW a \in agent_list, NEW t \in Times, t >= time
      PROVE  t \in Held(decom_queue, a) <=> DecomSchedule[mem[a].id] = t
  <2>1. t \in Held(decom_queue, a) <=> Holds(decom_queue[t], a)
    BY DEF Held, Holds
  <2>2. Holds(decom_queue[t], a) <=> Holds(Due(t), a)
    BY DEF Due, PlanInv
  <2>3. a \in Addr
    BY <1>1
  <2> QED
    BY <1>2, <2>1, <2>2, <2>3 DEF DueInv
<1>3. ASSUME NEW a \in agent_list, DecomSchedule[mem[a].id] \in Times
      PROVE  DecomSchedule[mem[a].id] >= time
  BY <1>3 DEF DueInv
<1>4. ASSUME NEW i \in Ids
      PROVE  (IF ts(i) = {} THEN -1 ELSE CHOOSE t \in ts(i) : TRUE) =
             (IF i \in Alive THEN DecomSchedule[i] ELSE -1)
  <2>1. CASE i \notin Alive
    <3>1. ts(i) = {}
      BY <2>1 DEF Alive
    <3> QED
      BY <2>1, <3>1
  <2>2. CASE i \in Alive
    <3>1. PICK a \in agent_list : mem[a].id = i
      BY <2>2 DEF Alive
    <3>2. \A b \in agent_list : mem[b].id = i <=> b = a
      BY <1>1, <3>1
    <3>3. \A t : t \in ts(i) <=> t \in Times /\ t >= time /\ DecomSchedule[i] = t
      BY <1>2, <3>1, <3>2
    <3> HIDE DEF ts
    <3>4. CASE DecomSchedule[i] \in Times
      <4>1. ts(i) = {DecomSchedule[i]}
        BY <1>3, <3>1, <3>3, <3>4
      <4> QED
        BY <2>2, <4>1
    <3>5. CASE DecomSchedule[i] \notin Times
      <4>1. DecomSchedule[i] = -1
        BY <1>1, <3>5
      <4>2. ts(i) = {}
        BY <3>3, <3>5
      <4> QED
        BY <2>2, <4>1, <4>2
    <3> QED
      BY <3>4, <3>5
  <2> QED
    BY <2>1, <2>2
<1>5. PlannedExits = [i \in Ids |-> IF ts(i) = {} THEN -1 ELSE CHOOSE t \in ts(i) : TRUE]
  BY DEF PlannedExits
<1> HIDE DEF ts
<1> QED
  BY <1>4, <1>5

\* The same in the next state.
LEMMA ExitsArePrime ==
    ASSUME KernelInv', DueInv', PlanInv', pc' # "Thrown"
    PROVE  PlannedExits' = [i \in Ids |-> IF i \in Alive' THEN DecomSchedule'[i] ELSE -1]
<1>1. (KernelInv /\ DueInv /\ PlanInv /\ pc # "Thrown" =>
         PlannedExits = [i \in Ids |-> IF i \in Alive THEN DecomSchedule[i] ELSE -1])'
  BY ExitsAre, PTL
<1> QED
  BY <1>1

-----------------------------------------------------------------------------
(***************************************************************************)
(* The planned builds as a count for every prototype, parent and time.     *)
(***************************************************************************)
Counts    == [BuildRow -> Nat]
Sparse(n) == [k \in {x \in BuildRow : n[x] # 0} |-> n[k]]
Waiting   == [k \in BuildRow |-> Count(BuildsLeft(k[3]), mem, k[1], k[2])]

\* What is left to build is a list of prototypes and parents.
LEMMA BuildsLeftTyped ==
    ASSUME TypeOK, NEW t \in Times
    PROVE  BuildsLeft(t) \in Lists
<1>1. << >> \in Lists
  BY DEF Lists
<1> QED
  BY <1>1 DEF TypeOK, ControlTypes, QueueTypes, BuildsLeft, Lists

\* The bag of planned builds holds each as often as it is waiting.
LEMMA BuildsAre ==
    KernelInv => PlannedBuilds = Sparse(Waiting) /\ Waiting \in Counts
<1> SUFFICES ASSUME KernelInv PROVE PlannedBuilds = Sparse(Waiting) /\ Waiting \in Counts
  OBVIOUS
<1>1. ASSUME NEW t \in Times
      PROVE  BuildsLeft(t) \in Lists
  BY BuildsLeftTyped DEF KernelInv
<1>2. ASSUME NEW q \in Ptr
      PROVE  IdOf(q) \in Ids \cup {-1} /\ IdIn(mem, q) = IdOf(q)
  BY DEF KernelInv, TypeOK, HeapTypes, AgentRec, IdOf, IdIn, Ptr
<1>3. ASSUME NEW k \in BuildRow
      PROVE  /\ k[1] \in Proto /\ k[2] \in Ids \cup {-1} /\ k[3] \in Times
             /\ k = <<k[1], k[2], k[3]>>
  BY DEF BuildRow
<1>4. ASSUME NEW t \in Times, NEW j \in 1..Len(BuildsLeft(t))
      PROVE  /\ BuildKey(BuildsLeft(t)[j], t) \in BuildRow
             /\ BuildKey(BuildsLeft(t)[j], t)[3] = t
  <2>1. BuildsLeft(t)[j] \in Proto \X Ptr
    BY <1>1 DEF Lists
  <2> QED
    BY <1>2, <2>1 DEF BuildKey, BuildRow
<1> DEFINE at(k) == {j \in 1..Len(BuildsLeft(k[3])) : BuildKey(BuildsLeft(k[3])[j], k[3]) = k}
           keys  == UNION {{BuildKey(BuildsLeft(t)[j], t) : j \in 1..Len(BuildsLeft(t))} : t \in Times}
<1>5. ASSUME NEW k \in BuildRow
      PROVE  at(k) = MatchIn(BuildsLeft(k[3]), mem, k[1], k[2])
  <2>1. BuildsLeft(k[3]) \in Lists
    BY <1>1, <1>3
  <2>2. DOMAIN BuildsLeft(k[3]) = 1..Len(BuildsLeft(k[3]))
    BY <2>1 DEF Lists
  <2>3. ASSUME NEW j \in 1..Len(BuildsLeft(k[3]))
        PROVE  BuildKey(BuildsLeft(k[3])[j], k[3]) = k <=> Match(BuildsLeft(k[3])[j], mem, k[1], k[2])
    <3>1. BuildsLeft(k[3])[j] \in Proto \X Ptr
      BY <2>1 DEF Lists
    <3>2. IdIn(mem, BuildsLeft(k[3])[j][2]) = IdOf(BuildsLeft(k[3])[j][2])
      BY <1>2, <3>1
    <3> QED
      BY <1>3, <3>2 DEF BuildKey, Match
  <2> QED
    BY <2>2, <2>3 DEF MatchIn
<1>6. ASSUME NEW k \in BuildRow
      PROVE  /\ Waiting[k] = Cardinality(at(k)) /\ Waiting[k] \in Nat
             /\ Waiting[k] # 0 <=> at(k) # {}
  <2>1. BuildsLeft(k[3]) \in Lists
    BY <1>1, <1>3
  <2>2. at(k) = MatchIn(BuildsLeft(k[3]), mem, k[1], k[2])
    BY <1>5
  <2> HIDE DEF at
  <2>3. Waiting[k] = Count(BuildsLeft(k[3]), mem, k[1], k[2])
    BY DEF Waiting
  <2>4. IsFiniteSet(at(k)) /\ Waiting[k] = Cardinality(at(k)) /\ Waiting[k] \in Nat
    BY <2>1, <2>2, <2>3, CountFinite DEF Count
  <2> QED
    BY <2>4, FS_EmptySet
<1>7. keys = {k \in BuildRow : Waiting[k] # 0}
  <2>1. ASSUME NEW k \in keys
        PROVE  k \in BuildRow /\ at(k) # {}
    <3>1. PICK t \in Times : \E j \in 1..Len(BuildsLeft(t)) : k = BuildKey(BuildsLeft(t)[j], t)
      OBVIOUS
    <3>2. PICK j \in 1..Len(BuildsLeft(t)) : k = BuildKey(BuildsLeft(t)[j], t)
      BY <3>1
    <3>3. k \in BuildRow /\ k[3] = t
      BY <1>4, <3>2
    <3> QED
      BY <3>2, <3>3
  <2>2. ASSUME NEW k \in BuildRow, at(k) # {}
        PROVE  k \in keys
    <3>1. PICK j \in 1..Len(BuildsLeft(k[3])) : BuildKey(BuildsLeft(k[3])[j], k[3]) = k
      BY <2>2
    <3> QED
      BY <1>3, <3>1
  <2> HIDE DEF at, keys
  <2> QED
    BY <1>6, <2>1, <2>2
<1>8. PlannedBuilds = [k \in keys |-> Cardinality(at(k))]
  BY DEF PlannedBuilds
<1>9. Waiting \in Counts
  <2> HIDE DEF at
  <2>1. \A k \in BuildRow : Waiting[k] \in Nat
    BY <1>6
  <2> QED
    BY <2>1 DEF Waiting, Counts
<1> HIDE DEF at, keys
<1>10. [k \in keys |-> Cardinality(at(k))] = Sparse(Waiting)
  BY <1>6, <1>7 DEF Sparse
<1> QED
  BY <1>8, <1>9, <1>10

\* The same in the next state.
LEMMA BuildsArePrime ==
    ASSUME KernelInv'
    PROVE  PlannedBuilds' = Sparse(Waiting') /\ Waiting' \in Counts
<1>1. (KernelInv => PlannedBuilds = Sparse(Waiting) /\ Waiting \in Counts)'
  BY BuildsAre, PTL
<1>2. KernelInv' => PlannedBuilds' = Sparse(Waiting)' /\ Waiting' \in Counts
  BY <1>1
<1>3. Sparse(Waiting)' = Sparse(Waiting')
  BY DEF Sparse
<1> QED
  BY <1>2, <1>3

\* One build more in the bag.
LEMMA SparsePlus ==
    ASSUME NEW n \in Counts, NEW m \in Counts, NEW k \in BuildRow,
           \A x \in BuildRow : m[x] = n[x] + Equal(x, k)
    PROVE  /\ Sparse(m) = [e \in DOMAIN Sparse(n) \cup {k} |->
                 (IF e \in DOMAIN Sparse(n) THEN Sparse(n)[e] ELSE 0) + (IF e \in {k} THEN 1 ELSE 0)]
           /\ k \in DOMAIN Sparse(m)
           /\ Sparse(m) # Sparse(n)
<1>1. \A x \in BuildRow : m[x] \in Nat /\ n[x] \in Nat
  BY DEF Counts
<1>2. DOMAIN Sparse(n) = {x \in BuildRow : n[x] # 0} /\ DOMAIN Sparse(m) = {x \in BuildRow : m[x] # 0}
  BY DEF Sparse
<1>3. m[k] = n[k] + 1 /\ \A x \in BuildRow : x # k => m[x] = n[x]
  BY <1>1 DEF Equal
<1>4. DOMAIN Sparse(m) = DOMAIN Sparse(n) \cup {k}
  BY <1>1, <1>2, <1>3
<1>5. ASSUME NEW e \in DOMAIN Sparse(n) \cup {k}
      PROVE  m[e] = (IF e \in DOMAIN Sparse(n) THEN Sparse(n)[e] ELSE 0) + (IF e \in {k} THEN 1 ELSE 0)
  BY <1>1, <1>2, <1>3 DEF Sparse
<1>6. k \in DOMAIN Sparse(m)
  BY <1>4
<1>7. Sparse(m)[k] = m[k]
  BY <1>2, <1>6 DEF Sparse
<1>8. k \in DOMAIN Sparse(n) => Sparse(n)[k] = n[k]
  BY <1>2 DEF Sparse
<1>9. Sparse(m) # Sparse(n)
  BY <1>1, <1>3, <1>6, <1>7, <1>8
<1>10. Sparse(m) = [e \in DOMAIN Sparse(n) \cup {k} |-> m[e]]
  BY <1>2, <1>4 DEF Sparse
<1> QED
  BY <1>5, <1>6, <1>9, <1>10

Without(f, k) == [e \in DOMAIN f |-> IF e \in {k} THEN f[e] - 1 ELSE f[e]]

\* One build less in the bag.
LEMMA SparseMinus ==
    ASSUME NEW n \in Counts, NEW m \in Counts, NEW k \in BuildRow,
           \A x \in BuildRow : n[x] = m[x] + Equal(x, k)
    PROVE  /\ Sparse(m) = [e \in {d \in DOMAIN Without(Sparse(n), k) :
                                  Without(Sparse(n), k)[d] > 0} |-> Without(Sparse(n), k)[e]]
           /\ k \in DOMAIN Sparse(n)
<1> DEFINE B == Without(Sparse(n), k)
<1>1. \A x \in BuildRow : m[x] \in Nat /\ n[x] \in Nat
  BY DEF Counts
<1>2. DOMAIN Sparse(n) = {x \in BuildRow : n[x] # 0} /\ DOMAIN Sparse(m) = {x \in BuildRow : m[x] # 0}
  BY DEF Sparse
<1>3. n[k] = m[k] + 1 /\ \A x \in BuildRow : x # k => m[x] = n[x]
  BY <1>1 DEF Equal
<1>4. ASSUME NEW e \in DOMAIN Sparse(n)
      PROVE  B[e] = m[e] /\ e \in BuildRow
  BY <1>1, <1>2, <1>3, <1>4 DEF Sparse, Without
<1>5. DOMAIN B = DOMAIN Sparse(n)
  BY DEF Without
<1>6. {d \in DOMAIN B : B[d] > 0} = DOMAIN Sparse(m)
  BY <1>1, <1>2, <1>3, <1>4, <1>5
<1>7. Sparse(m) = [e \in DOMAIN Sparse(m) |-> m[e]]
  BY <1>2 DEF Sparse
<1>8. \A e \in DOMAIN Sparse(m) : B[e] = m[e]
  BY <1>4, <1>5, <1>6
<1>9. k \in DOMAIN Sparse(n)
  BY <1>1, <1>2, <1>3
<1> QED
  BY <1>6, <1>7, <1>8, <1>9

\* What is left to build is what is pending.
LEMMA LeftIsPending ==
    KernelInv /\ PlanInv /\ pc # "Thrown" => \A t \in Times : BuildsLeft(t) = Pending(t)
  BY DEF KernelInv, TypeOK, ControlTypes, PlanInv, BuildsLeft, Pending, Outside, Building, Middle,
     Closing, Callbacks

\* The same in the next state.
LEMMA LeftIsPendingPrime ==
    ASSUME KernelInv', PlanInv', pc' # "Thrown"
    PROVE  \A t \in Times : BuildsLeft(t)' = Pending(t)'
<1>1. (KernelInv /\ PlanInv /\ pc # "Thrown" => \A t \in Times : BuildsLeft(t) = Pending(t))'
  BY LeftIsPending, PTL
<1> QED
  BY <1>1

\* A step that moves no build.
LEMMA SameWaiting ==
    ASSUME KernelInv, KernelInv', Orderly, DueInv, LastingInv, PlanInv, PlanInv', HeapSteps,
           pc # "Thrown", pc' # "Thrown", \A t \in Times : Pending(t)' = Pending(t)
    PROVE  PlannedBuilds' = PlannedBuilds
<1>1. ASSUME NEW k \in BuildRow
      PROVE  Count(BuildsLeft(k[3])', mem', k[1], k[2]) = Count(BuildsLeft(k[3]), mem, k[1], k[2])
  <2>1. k[3] \in Times
    BY DEF BuildRow
  <2>2. BuildsLeft(k[3])' = Pending(k[3]) /\ BuildsLeft(k[3]) = Pending(k[3])
    BY <2>1, LeftIsPending, LeftIsPendingPrime
  <2>3. Count(Pending(k[3]), mem', k[1], k[2]) = Count(Pending(k[3]), mem, k[1], k[2])
    BY <2>1, CountKept, PendingLasting
  <2> QED
    BY <2>2, <2>3
<1>2. Waiting' = Waiting
  BY <1>1 DEF Waiting
<1> QED
  BY <1>2, BuildsAre, BuildsArePrime

\* A step that moves no exit.
LEMMA SameExits ==
    ASSUME KernelInv, KernelInv', DueInv, DueInv', PlanInv, PlanInv',
           pc # "Thrown", pc' # "Thrown", SameHeap, DecomSchedule' = DecomSchedule
    PROVE  PlannedExits' = PlannedExits
<1>1. Alive' = Alive
  BY DEF SameHeap, Alive
<1> QED
  BY <1>1, ExitsAre, ExitsArePrime

\* The pending builds after a step that neither plans nor makes one.
LEMMA PendingKept ==
    ASSUME KernelInv, pc # "Thrown",
           \/ Idle \/ Begins \/ Records \/ Closes \/ Leaves \/ Ends
           \/ \E a, p, par : LoadsOne(a, p, par)
           \/ \E m, t : Reschedules(m, t),
           NEW t \in Times
    PROVE  Pending(t)' = Pending(t)
<1>1. t \in Int /\ time \in Int
  BY ConstantsAssumption DEF Times, KernelInv, TypeOK, ControlTypes
<1> USE DEF Pending, Outside, Building
<1>2. CASE Idle
  <2>1. build_queue' = build_queue /\ build_list' = build_list /\ time' = time
    BY <1>2 DEF Idle, SameBuilds, SameLists
  <2> QED
    BY <1>1, <1>2, <2>1 DEF Idle, Middle, Closing
<1>3. CASE Begins
  BY <1>1, <1>3 DEF Begins, SameBuilds
<1>4. CASE Records
  BY <1>1, <1>4 DEF Records, SameBuilds, SameLists
<1>5. CASE Closes
  BY <1>1, <1>5 DEF Closes, SameBuilds
<1>6. CASE Leaves
  <2>1. time' = time /\ pc = "Decommission" /\ pc' = "DoDecom" /\ build_queue' = build_queue
    BY <1>6 DEF Leaves, SameBuilds
  <2> QED
    BY <1>1, <2>1
<1>7. CASE Ends
  <2>1. /\ time' = time + 1 /\ pc = "DoDecom" /\ pc' \in {"Finish", "Loop"}
        /\ build_queue' = build_queue
    BY <1>7 DEF Ends, SameBuilds
  <2>2. (t > time' \/ (t = time' /\ pc' \in Outside)) <=> t > time
    BY <1>1, <2>1
  <2> QED
    BY <2>1, <2>2
<1>8. CASE \E a, p, par : LoadsOne(a, p, par)
  BY <1>8 DEF LoadsOne, SameBuilds, SameLists
<1>9. CASE \E m, u : Reschedules(m, u)
  BY <1>9 DEF Reschedules, SameBuilds, SameLists
<1> QED
  BY <1>2, <1>3, <1>4, <1>5, <1>6, <1>7, <1>8, <1>9

-----------------------------------------------------------------------------
(***************************************************************************)
(* What AgentPlan sees of each kind of step.                               *)
(***************************************************************************)
PlanStep == [Plan!PlanNext]_(Plan!plan)

\* The part of the time step a point of RunSim belongs to.
LEMMA Parts ==
    /\ pc = "Load" => Part = "load"
    /\ pc \in {"LoadSched", "Loop"} \cup Building => Part = "open"
    /\ pc \in Middle => Part = "work"
    /\ pc \in Closing => Part = "close"
    /\ pc \in {"Finish", "Done"} => Part = "ended"
    /\ pc = "Thrown" => Part = "failed"
  BY DEF Part, Middle, Closing, Building

\* The same in the next state.
LEMMA PartsPrime ==
    /\ pc' = "Load" => Part' = "load"
    /\ pc' \in {"LoadSched", "Loop"} \cup Building => Part' = "open"
    /\ pc' \in Middle => Part' = "work"
    /\ pc' \in Closing => Part' = "close"
    /\ pc' \in {"Finish", "Done"} => Part' = "ended"
    /\ pc' = "Thrown" => Part' = "failed"
  BY DEF Part, Middle, Closing, Building

\* Nothing AgentPlan sees changes, or only the part of the time step.
LEMMA PlanIdle ==
    ASSUME KernelInv, KernelInv', Orderly, ScheduleInv, DueInv', PlanInv, PlanInv',
           pc # "Thrown", Idle \/ Begins \/ Records \/ Closes
    PROVE  PlanStep
<1>1. /\ SameHeap /\ time' = time /\ pc' # "Thrown" /\ DecomSchedule' = DecomSchedule
      /\ DueInv /\ LastingInv /\ HeapSteps
  BY DEF Idle, Begins, Records, Closes, SameDecoms, ScheduleInv, HeapSteps, Building, Middle, Closing
<1>2. PlannedBuilds' = PlannedBuilds
  BY <1>1, PendingKept, SameWaiting
<1>3. PlannedExits' = PlannedExits
  BY <1>1, SameExits
<1>4. Alive' = Alive /\ next_id' = next_id
  BY <1>1 DEF SameHeap, Alive
<1>5. /\ time' = time /\ (0..(next_id - 1))' = 0..(next_id - 1)
      /\ {mem[a].id : a \in agent_list}' = {mem[a].id : a \in agent_list}
  BY <1>1, <1>4 DEF Alive
<1> USE DEF PlanStep, Plan!plan
<1>6. CASE Part' = Part
  BY <1>2, <1>3, <1>5, <1>6
<1>7. CASE pc = "Load" /\ pc' = "LoadSched"
  <2>1. Plan!Start
    BY <1>2, <1>3, <1>5, <1>7, Parts, PartsPrime DEF Plan!Start
  <2> QED
    BY <2>1 DEF Plan!PlanNext
<1>8. CASE pc = "Loop" /\ pc' = "Done" /\ time >= Duration
  <2>1. time = Duration
    BY <1>8, ConstantsAssumption DEF KernelInv, TypeOK, ControlTypes, Times
  <2>2. Plan!End
    BY <1>2, <1>3, <1>5, <1>8, <2>1, Parts, PartsPrime DEF Plan!End
  <2> QED
    BY <2>2 DEF Plan!PlanNext
<1>9. CASE pc = "DoBuild" /\ build_list = << >> /\ pc' \in Middle
  <2>1. BuildsLeft(time) = << >>
    BY <1>9, ConstantsAssumption DEF BuildsLeft, KernelInv, TypeOK, ControlTypes, Times
  <2>2. ASSUME NEW k \in BuildRow, k[3] = time
        PROVE  Waiting[k] = 0
    <3>1. MatchIn(<< >>, mem, k[1], k[2]) = {}
      BY DEF MatchIn
    <3> QED
      BY <2>1, <2>2, <3>1, FS_EmptySet DEF Waiting, Count
  <2>3. PlannedBuilds = Sparse(Waiting)
    BY BuildsAre
  <2>4. Plan!Due = {}
    BY <2>2, <2>3 DEF Plan!Due, Plan!BagToSet, Sparse
  <2>5. Plan!Work
    <3>1. Part = "open" /\ Part' = "work"
      BY <1>9, Parts, PartsPrime DEF Building
    <3> QED
      BY <1>2, <1>3, <1>5, <2>4, <3>1 DEF Plan!Work
  <2> QED
    BY <2>5 DEF Plan!PlanNext
<1>10. CASE Closes
  <2>1. Part = "work" /\ Part' = "close"
    BY <1>10, Parts, PartsPrime DEF Closes, Middle, Closing
  <2>2. Plan!Close
    BY <1>2, <1>3, <1>5, <2>1 DEF Plan!Close
  <2> QED
    BY <2>2 DEF Plan!PlanNext
<1>11. CASE Begins \/ Records
  <2>1. Part = "open" /\ Part' = "open"
    BY <1>11, Parts, PartsPrime DEF Begins, Records, Building
  <2> QED
    BY <1>6, <2>1
<1>12. CASE Idle
  <2>1. CASE pc' = pc
    BY <1>6, <2>1 DEF Part
  <2>2. CASE pc = "LoadSched" /\ pc' = "Loop"
    BY <1>6, <2>2, Parts, PartsPrime
  <2>3. CASE pc = "Finish" /\ pc' = "Done"
    BY <1>6, <2>3, Parts, PartsPrime
  <2>4. CASE pc \in Building /\ pc' \in Building
    BY <1>6, <2>4, Parts, PartsPrime
  <2>5. CASE pc \in Middle /\ pc' \in Middle
    BY <1>6, <2>5, Parts, PartsPrime
  <2>6. CASE pc \in Closing /\ pc' \in Closing
    BY <1>6, <2>6, Parts, PartsPrime
  <2> QED
    BY <1>7, <1>8, <1>9, <1>12, <2>1, <2>2, <2>3, <2>4, <2>5, <2>6 DEF Idle
<1> QED
  BY <1>10, <1>11, <1>12

\* The next time step, when nobody is left to decommission.
LEMMA PlanEnds ==
    ASSUME KernelInv, KernelInv', Orderly, ScheduleInv, DueInv', PlanInv, PlanInv',
           pc # "Thrown", Ends
    PROVE  PlanStep
<1>1. /\ SameHeap /\ time' = time + 1 /\ pc' \in {"Finish", "Loop"} /\ DecomSchedule' = DecomSchedule
      /\ DueInv /\ LastingInv /\ HeapSteps /\ pc = "DoDecom" /\ decom_list = << >>
  BY DEF Ends, SameDecoms, ScheduleInv, HeapSteps
<1>2. PlannedBuilds' = PlannedBuilds
  BY <1>1, PendingKept, SameWaiting
<1>3. PlannedExits' = PlannedExits
  BY <1>1, SameExits
<1>4. PlannedExits = [i \in Ids |-> IF i \in Alive THEN DecomSchedule[i] ELSE -1]
  BY <1>1, ExitsAre
<1>5. ASSUME NEW a \in agent_list
      PROVE  DecomSchedule[mem[a].id] # time
  <2>1. Due(time) = << >> /\ time \in Times
    BY <1>1 DEF Due, Closing, KernelInv, TypeOK, ControlTypes
  <2>2. ~Holds(Due(time), a)
    BY <2>1 DEF Holds
  <2> QED
    BY <1>1, <2>1, <2>2 DEF DueInv
<1>6. \A i \in {mem[a].id : a \in agent_list} : PlannedExits[i] # time
  <2>1. \A a \in agent_list : mem[a].id \in Ids
    BY DEF KernelInv, TypeOK, HeapTypes, AgentRec
  <2> QED
    BY <1>4, <1>5, <2>1 DEF Alive
<1>7. /\ (0..(next_id - 1))' = 0..(next_id - 1)
      /\ {mem[a].id : a \in agent_list}' = {mem[a].id : a \in agent_list}
  BY <1>1 DEF SameHeap
<1>8. Part = "close" /\ Part' \in {"open", "ended"}
  BY <1>1, Parts, PartsPrime DEF Closing
<1>9. Plan!Advance
  BY <1>1, <1>2, <1>3, <1>6, <1>7, <1>8 DEF Plan!Advance
<1> QED
  BY <1>9 DEF PlanStep, Plan!PlanNext

\* An exception leaves the plan as it was.
LEMMA PlanFails ==
    ASSUME KernelInv, KernelInv', PlanInv, Fails \/ (pc = "Thrown" /\ Idle)
    PROVE  PlanStep
<1>1. /\ agent_list' = agent_list /\ mem' = mem /\ next_id' = next_id /\ time' = time
      /\ decom_queue' = decom_queue /\ build_queue' = build_queue /\ build_list' = build_list
      /\ pc' = "Thrown"
  BY DEF Fails, Idle, SameHeap, SameDecoms, SameBuilds, SameLists, Building, Middle, Closing
<1>2. ASSUME NEW t \in Times
      PROVE  BuildsLeft(t)' = BuildsLeft(t)
  <2>1. pc = "LoadSched" => time = 0 /\ build_queue[0] = build_list
    BY DEF KernelInv, Control, PlanInv
  <2>2. pc \notin {"Load", "Loop", "Finish", "Done"}
    BY DEF Fails, NoThrow
  <2> QED
    BY <1>1, <2>1, <2>2 DEF BuildsLeft
<1>3. Waiting' = Waiting
  BY <1>1, <1>2 DEF Waiting, BuildRow
<1>4. PlannedBuilds' = PlannedBuilds
  BY <1>3, BuildsAre, BuildsArePrime
<1>5. PlannedExits' = PlannedExits
  BY <1>1 DEF PlannedExits, Held
<1>6. /\ (0..(next_id - 1))' = 0..(next_id - 1)
      /\ {mem[a].id : a \in agent_list}' = {mem[a].id : a \in agent_list}
  BY <1>1
<1>7. CASE Fails
  <2>1. pc \in {"LoadSched"} \cup Building \cup Middle \cup Closing
    BY <1>7 DEF Fails, NoThrow, KernelInv, TypeOK, ControlTypes, Callbacks, Building, Middle, Closing
  <2>2. Part \in {"open", "work", "close"} /\ Part' = "failed"
    BY <1>1, <2>1, Parts, PartsPrime
  <2>3. Plan!Fail
    BY <1>1, <1>4, <1>5, <1>6, <2>2 DEF Plan!Fail, Plan!Running
  <2> QED
    BY <2>3 DEF PlanStep, Plan!PlanNext
<1>8. CASE pc = "Thrown"
  <2>1. Part' = Part
    BY <1>1, <1>8, Parts, PartsPrime
  <2> QED
    BY <1>1, <1>4, <1>5, <1>6, <2>1 DEF PlanStep, Plan!plan
<1> QED
  BY <1>7, <1>8

\* An agent that enters takes the next id and has no exit planned.
LEMMA PlanJoin ==
    ASSUME KernelInv, KernelInv', ScheduleInv, DueInv', PlanInv, PlanInv',
           pc # "Thrown", pc' # "Thrown", DecomSchedule' = DecomSchedule,
           NEW a \in Addr \ agent_list, NEW p \in Proto, NEW par \in agent_list \cup {NULL},
           Enter(a, p, par)
    PROVE  (\E i \in Ids : Plan!Join(i)) /\ PlannedExits' = PlannedExits
<1> USE ConstantsAssumption
<1>1. /\ agent_list \subseteq Addr /\ next_id \in 0..MaxId /\ next_id < MaxId /\ MaxId \in Nat
      /\ agent_list' = agent_list \cup {a} /\ next_id' = next_id + 1
      /\ HeapTypes /\ time \in Times
  BY DEF KernelInv, TypeOK, HeapTypes, ControlTypes, Enter
<1>2. mem'[a].id = next_id /\ \A b \in agent_list : mem'[b].id = mem[b].id
  BY <1>1, EnterEffect DEF Joined
<1>3. Alive' = Alive \cup {next_id}
  BY <1>1, <1>2 DEF Alive
<1>4. next_id \in Ids \ (0..(next_id - 1))
  BY <1>1 DEF Ids
<1>5. 0..(next_id' - 1) = (0..(next_id - 1)) \cup {next_id}
  BY <1>1
<1>6. \E i \in Ids : Plan!Join(i)
  <2>1. /\ 0..(next_id' - 1) = 0..(next_id - 1) \cup {next_id}
        /\ {mem'[b].id : b \in agent_list'} = {mem[b].id : b \in agent_list} \cup {next_id}
    BY <1>3, <1>5 DEF Alive
  <2> QED
    BY <1>4, <2>1 DEF Plan!Join
<1>7. DecomSchedule[next_id] = -1
  BY <1>1, <1>4 DEF ScheduleInv, ExitInv
<1>8. ScheduleInv => DueInv
  BY DEF ScheduleInv
<1>9. PlannedExits' = PlannedExits
  BY <1>3, <1>7, <1>8, ExitsAre, ExitsArePrime
<1> QED
  BY <1>6, <1>9

\* An agent of the input file.
LEMMA PlanLoads ==
    ASSUME KernelInv, KernelInv', Orderly, ScheduleInv, DueInv', PlanInv, PlanInv',
           NEW a \in Addr \ agent_list, NEW p \in Proto, NEW par \in agent_list \cup {NULL},
           LoadsOne(a, p, par)
    PROVE  PlanStep
<1>1. /\ Enter(a, p, par) /\ time' = time /\ pc = "Load" /\ pc' = "Load"
      /\ DecomSchedule' = DecomSchedule /\ DueInv /\ LastingInv
  BY DEF LoadsOne, SameDecoms, ScheduleInv
<1>2. HeapSteps
  BY <1>1 DEF HeapSteps
<1>3. PlannedBuilds' = PlannedBuilds
  BY <1>1, <1>2, PendingKept, SameWaiting
<1>4. (\E i \in Ids : Plan!Join(i)) /\ PlannedExits' = PlannedExits
  BY <1>1, PlanJoin
<1>5. Part = "load" /\ Part' = "load"
  BY <1>1, Parts, PartsPrime
<1>6. Plan!Load
  BY <1>1, <1>3, <1>4, <1>5 DEF Plan!Load
<1> QED
  BY <1>6 DEF PlanStep, Plan!PlanNext

\* A build of the plan is made when it is due.
LEMMA PlanBuildsOne ==
    ASSUME KernelInv, KernelInv', Orderly, ScheduleInv, DueInv', PlanInv, PlanInv',
           NEW a \in Addr \ agent_list, NEW p \in Proto, NEW par \in agent_list \cup {NULL},
           BuildsOne(a, p, par)
    PROVE  PlanStep
<1>1. /\ Enter(a, p, par) /\ build_list # << >> /\ build_list' = Tail(build_list)
      /\ build_queue' = build_queue /\ time' = time /\ DecomSchedule' = DecomSchedule
      /\ pc = "DoBuild" /\ pc' = "EnterNotify" /\ DueInv /\ LastingInv
      /\ p = Head(build_list)[1] /\ par = Head(build_list)[2]
  BY DEF BuildsOne, SameBuilds, SameDecoms, ScheduleInv
<1>2. time \in Times /\ build_list \in Lists /\ time \in Int /\ Times \subseteq Int
  BY ConstantsAssumption DEF KernelInv, TypeOK, ControlTypes, Lists, Times
<1>3. HeapSteps
  BY <1>1 DEF HeapSteps
<1> DEFINE key == <<p, IdOf(par), time>>
<1>4. IdOf(par) \in Alive \cup {-1} /\ IdOf(par) \in Ids \cup {-1}
  BY DEF IdOf, Alive, KernelInv, TypeOK, HeapTypes, AgentRec
<1>5. key \in BuildRow /\ key[2] = IdOf(par) /\ key[3] = time
  BY <1>2, <1>4 DEF BuildRow
<1>6. ASSUME NEW k \in BuildRow
      PROVE  Waiting[k] = Waiting'[k] + Equal(k, key)
  <2>0. k[1] \in Proto /\ k[2] \in Ids \cup {-1} /\ k[3] \in Times /\ k = <<k[1], k[2], k[3]>>
    BY DEF BuildRow
  <2>1. /\ Waiting[k] = Count(BuildsLeft(k[3]), mem, k[1], k[2])
        /\ Waiting'[k] = Count(BuildsLeft(k[3])', mem', k[1], k[2])
    BY DEF Waiting
  <2>2. CASE k[3] # time
    <3>1. BuildsLeft(k[3])' = BuildsLeft(k[3])
      BY <1>1, <2>2 DEF BuildsLeft
    <3>2. BuildsLeft(k[3]) = Pending(k[3])
      BY <1>1, <2>0, LeftIsPending
    <3>3. Count(Pending(k[3]), mem', k[1], k[2]) = Count(Pending(k[3]), mem, k[1], k[2])
      BY <1>1, <1>3, <2>0, CountKept, PendingLasting
    <3>4. Count(Pending(k[3]), mem, k[1], k[2]) \in Nat
      BY <1>1, <2>0, PendingLasting, CountFinite
    <3>5. Equal(k, key) = 0
      BY <1>5, <2>2 DEF Equal
    <3> QED
      BY <2>1, <3>1, <3>2, <3>3, <3>4, <3>5
  <2>3. CASE k[3] = time
    <3>1. BuildsLeft(k[3]) = build_list /\ BuildsLeft(k[3])' = Tail(build_list)
      BY <1>1, <1>2, <2>3 DEF BuildsLeft
    <3>2. \A j \in DOMAIN build_list : Lasting(build_list[j][2])
      BY <1>1 DEF LastingInv
    <3>3. /\ Tail(build_list) \in Lists
          /\ \A j \in DOMAIN Tail(build_list) : Lasting(Tail(build_list)[j][2])
      BY <1>1, <1>2, <3>2, TailLasting
    <3>4. Count(Tail(build_list), mem', k[1], k[2]) = Count(Tail(build_list), mem, k[1], k[2])
      BY <1>1, <1>3, <3>3, CountKept
    <3>5. Count(build_list, mem, k[1], k[2])
            = Count(Tail(build_list), mem, k[1], k[2]) + OneIf(Head(build_list), mem, k[1], k[2])
      BY <1>1, <1>2, CountTail
    <3>6. OneIf(Head(build_list), mem, k[1], k[2]) = Equal(k, key)
      BY <1>1, <2>0, <2>3 DEF OneIf, Match, IdIn, IdOf, Equal
    <3> QED
      BY <2>1, <3>1, <3>4, <3>5, <3>6
  <2> QED
    BY <2>2, <2>3
<1>7. /\ PlannedBuilds = Sparse(Waiting) /\ Waiting \in Counts
      /\ PlannedBuilds' = Sparse(Waiting') /\ Waiting' \in Counts
  BY BuildsAre, BuildsArePrime
<1> HIDE DEF key
<1> DEFINE B == Without(PlannedBuilds, key)
<1>9. /\ PlannedBuilds' = [e \in {d \in DOMAIN B : B[d] > 0} |-> B[e]]
      /\ key \in DOMAIN PlannedBuilds
  BY <1>5, <1>6, <1>7, SparseMinus
<1>10. (\E i \in Ids : Plan!Join(i)) /\ PlannedExits' = PlannedExits
  BY <1>1, PlanJoin
<1>11. Part = "open" /\ Part' = "open"
  BY <1>1, Parts, PartsPrime DEF Building
<1>12. key \in Plan!Due /\ key[2] \in {mem[b].id : b \in agent_list} \cup {-1}
  BY <1>4, <1>5, <1>9 DEF Plan!Due, Plan!BagToSet, Alive
<1>13. Plan!Enter
  BY <1>1, <1>9, <1>10, <1>11, <1>12 DEF Plan!Enter, Plan!(-), Plan!SetToBag, Without
<1> QED
  BY <1>13 DEF PlanStep, Plan!PlanNext

\* Context::SchedBuild adds a build to the plan.
LEMMA PlanBooks ==
    ASSUME KernelInv, KernelInv', Orderly, ScheduleInv, DueInv', PlanInv, PlanInv',
           NEW par \in agent_list \cup {NULL}, NEW p \in Proto, NEW t \in Times,
           Books(par, p, t)
    PROVE  PlanStep
<1>1. /\ SameHeap /\ time' = time /\ pc' = pc /\ DecomSchedule' = DecomSchedule
      /\ build_list' = build_list /\ t > time /\ pc \in Callers /\ par \in Ptr
      /\ build_queue' = [build_queue EXCEPT ![t] = Append(build_queue[t], <<p, par>>)]
      /\ DueInv /\ LastingInv
  BY DEF Books, SameDecoms, SameLists, ScheduleInv
<1>2. /\ time \in Int /\ Times \subseteq Int /\ build_queue \in [Times -> Lists]
      /\ pc \in Callbacks /\ pc \notin {"Load", "Thrown", "Finish", "Done"}
  <2>0. build_queue \in [Times -> Lists]
    BY DEF KernelInv, TypeOK, QueueTypes, Lists
  <2>1. time \in Int /\ Times \subseteq Int
    BY ConstantsAssumption DEF KernelInv, TypeOK, ControlTypes, Times
  <2>2. pc \in Callbacks
    BY <1>1, ConstantsAssumption
  <2> QED
    BY <2>0, <2>1, <2>2 DEF Callbacks
<1> DEFINE key == <<p, IdOf(par), t>>
<1>3. IdOf(par) \in Alive \cup {-1} /\ IdOf(par) \in Ids \cup {-1}
  BY DEF IdOf, Alive, KernelInv, TypeOK, HeapTypes, AgentRec
<1>4. key \in BuildRow /\ key[2] = IdOf(par) /\ key[3] = t
  BY <1>3 DEF BuildRow
<1>5. ASSUME NEW k \in BuildRow
      PROVE  Waiting'[k] = Waiting[k] + Equal(k, key)
  <2>0. k[1] \in Proto /\ k[2] \in Ids \cup {-1} /\ k[3] \in Times /\ k = <<k[1], k[2], k[3]>>
    BY DEF BuildRow
  <2>1. /\ Waiting[k] = Count(BuildsLeft(k[3]), mem, k[1], k[2])
        /\ Waiting'[k] = Count(BuildsLeft(k[3])', mem, k[1], k[2])
    BY <1>1 DEF Waiting, SameHeap
  <2>2. CASE k[3] # t
    <3>1. build_queue'[k[3]] = build_queue[k[3]]
      BY <1>1, <1>2, <2>0, <2>2
    <3>2. BuildsLeft(k[3])' = BuildsLeft(k[3])
      BY <1>1, <3>1 DEF BuildsLeft
    <3>3. Equal(k, key) = 0
      BY <1>4, <2>2 DEF Equal
    <3>4. Waiting[k] \in Nat
      BY BuildsAre DEF Counts
    <3> QED
      BY <2>1, <3>2, <3>3, <3>4
  <2>3. CASE k[3] = t
    <3>1. BuildsLeft(k[3]) = build_queue[t] /\ BuildsLeft(k[3])' = Append(build_queue[t], <<p, par>>)
      BY <1>1, <1>2, <2>3 DEF BuildsLeft
    <3>2. build_queue[t] \in Lists /\ <<p, par>> \in Proto \X Ptr
      BY <1>1, <1>2
    <3>3. Count(Append(build_queue[t], <<p, par>>), mem, k[1], k[2])
            = Count(build_queue[t], mem, k[1], k[2]) + OneIf(<<p, par>>, mem, k[1], k[2])
      BY <3>2, CountAppend
    <3>4. OneIf(<<p, par>>, mem, k[1], k[2]) = Equal(k, key)
      BY <2>0, <2>3 DEF OneIf, Match, IdIn, IdOf, Equal
    <3> QED
      BY <2>1, <3>1, <3>3, <3>4
  <2> QED
    BY <2>2, <2>3
<1>6. /\ PlannedBuilds = Sparse(Waiting) /\ Waiting \in Counts
      /\ PlannedBuilds' = Sparse(Waiting') /\ Waiting' \in Counts
  BY BuildsAre, BuildsArePrime
<1> HIDE DEF key
<1>7. /\ PlannedBuilds' = [e \in DOMAIN PlannedBuilds \cup {key} |->
            (IF e \in DOMAIN PlannedBuilds THEN PlannedBuilds[e] ELSE 0) + (IF e \in {key} THEN 1 ELSE 0)]
      /\ key \in DOMAIN PlannedBuilds' /\ PlannedBuilds' # PlannedBuilds
  <2> DEFINE n == Waiting
             m == Waiting'
  <2>1. n \in Counts /\ m \in Counts /\ key \in BuildRow
    BY <1>4, <1>6
  <2>2. \A x \in BuildRow : m[x] = n[x] + Equal(x, key)
    BY <1>5
  <2>3. PlannedBuilds = Sparse(n) /\ PlannedBuilds' = Sparse(m)
    BY <1>6
  <2> HIDE DEF n, m
  <2>4. /\ Sparse(m) = [e \in DOMAIN Sparse(n) \cup {key} |->
              (IF e \in DOMAIN Sparse(n) THEN Sparse(n)[e] ELSE 0) + (IF e \in {key} THEN 1 ELSE 0)]
        /\ key \in DOMAIN Sparse(m) /\ Sparse(m) # Sparse(n)
    BY <2>1, <2>2, SparsePlus
  <2> QED
    BY <2>3, <2>4
<1>8. PlannedExits' = PlannedExits
  BY <1>1, <1>2, SameExits
<1>9. Part' = Part /\ Part \in {"open", "work", "close"}
  BY <1>1, <1>2, Parts DEF Part, Callbacks, Building, Middle, Closing
<1>10. /\ (0..(next_id - 1))' = 0..(next_id - 1)
       /\ {mem[a].id : a \in agent_list}' = {mem[a].id : a \in agent_list}
  BY <1>1 DEF SameHeap
<1>11. /\ key[2] \in {mem[a].id : a \in agent_list} \cup {-1} /\ key[3] > time
       /\ key \in Plan!Key
  BY <1>1, <1>3, <1>4 DEF Alive, Plan!Key, Plan!Steps, BuildRow, Times
<1>12. Plan!PlanBuild
  BY <1>1, <1>7, <1>8, <1>9, <1>10, <1>11
     DEF Plan!PlanBuild, Plan!Running, Plan!BagToSet, Plan!(+), Plan!SetToBag
<1> QED
  BY <1>12 DEF PlanStep, Plan!PlanNext

\* Context::SchedDecom and Institution::Tock plan an exit or move it.
LEMMA PlanReschedules ==
    ASSUME KernelInv, KernelInv', Orderly, ScheduleInv, DueInv', PlanInv, PlanInv',
           NEW m \in agent_list, NEW t \in Times, Reschedules(m, t)
    PROVE  PlanStep
<1>1. /\ SameHeap /\ time' = time /\ pc' = pc /\ t >= time /\ pc \in Callers \cup {"InstTock"}
      /\ DecomSchedule' = [DecomSchedule EXCEPT ![mem[m].id] = t]
      /\ DueInv /\ LastingInv /\ HeapSteps
  BY DEF Reschedules, ScheduleInv, HeapSteps
<1>2. pc \in Callbacks \cup {"InstTock"} /\ pc \notin {"Load", "Thrown", "Finish", "Done"}
  <2>1. pc \in Callbacks \cup {"InstTock"}
    BY <1>1, ConstantsAssumption
  <2> QED
    BY <2>1 DEF Callbacks
<1>3. PlannedBuilds' = PlannedBuilds
  BY <1>1, <1>2, PendingKept, SameWaiting
<1>4. Alive' = Alive /\ mem[m].id \in Alive /\ mem[m].id \in Ids
  BY <1>1 DEF SameHeap, Alive, KernelInv, TypeOK, HeapTypes, AgentRec
<1>5. DecomSchedule \in [Ids -> Times \cup {-1}]
  BY DEF KernelInv, TypeOK, QueueTypes
<1>6. /\ PlannedExits = [i \in Ids |-> IF i \in Alive THEN DecomSchedule[i] ELSE -1]
      /\ PlannedExits' = [i \in Ids |-> IF i \in Alive THEN DecomSchedule'[i] ELSE -1]
  BY <1>1, <1>2, <1>4, ExitsAre, ExitsArePrime
<1>7. PlannedExits' = [PlannedExits EXCEPT ![mem[m].id] = t]
  BY <1>1, <1>4, <1>5, <1>6
<1>8. Part' = Part /\ Part \in {"open", "work", "close"}
  BY <1>1, <1>2, Parts DEF Part, Callbacks, Building, Middle, Closing
<1>9. /\ (0..(next_id - 1))' = 0..(next_id - 1)
      /\ {mem[a].id : a \in agent_list}' = {mem[a].id : a \in agent_list}
  BY <1>1 DEF SameHeap
<1>10. CASE PlannedExits' = PlannedExits
  BY <1>1, <1>3, <1>8, <1>9, <1>10 DEF PlanStep, Plan!plan
<1>11. CASE PlannedExits' # PlannedExits
  <2>1. \E i \in {mem[a].id : a \in agent_list}, u \in 0..Duration :
            u >= time /\ PlannedExits' = [PlannedExits EXCEPT ![i] = u]
    BY <1>1, <1>7 DEF Times
  <2>2. Plan!PlanExit
    BY <1>1, <1>3, <1>8, <1>9, <1>11, <2>1 DEF Plan!PlanExit, Plan!Running, Plan!Steps
  <2> QED
    BY <2>2 DEF PlanStep, Plan!PlanNext
<1> QED
  BY <1>10, <1>11

\* An agent exits when it was planned to.
LEMMA PlanLeaves ==
    ASSUME KernelInv, KernelInv', Orderly, ScheduleInv, DueInv', PlanInv, PlanInv', Leaves
    PROVE  PlanStep
<1>1. /\ Decommission /\ subj \notin blocked /\ subj \in agent_list
      /\ decom_list # << >> /\ subj = Head(decom_list)
      /\ DecomSchedule' = DecomSchedule /\ next_id' = next_id /\ time' = time
      /\ pc = "Decommission" /\ pc' = "DoDecom" /\ DueInv /\ LastingInv /\ HeapSteps
  BY DEF Leaves, SameDecoms, ScheduleInv, HeapSteps
<1>2. /\ HeapTypes /\ agent_list \subseteq Addr /\ time \in Times /\ time \in Int
      /\ decom_list \in Seq(Addr) /\ DecomSchedule \in [Ids -> Times \cup {-1}]
      /\ \A a, b \in agent_list : mem[a].id = mem[b].id => a = b
      /\ \A a \in agent_list : mem[a].id \in Ids
  <2>1. HeapTypes /\ Registered /\ time \in Times /\ decom_list \in Seq(Addr)
    BY DEF KernelInv, TypeOK, ControlTypes
  <2>2. DecomSchedule \in [Ids -> Times \cup {-1}]
    BY DEF KernelInv, TypeOK, QueueTypes
  <2>3. time \in Int
    BY <2>1, ConstantsAssumption DEF Times
  <2> QED
    BY <2>1, <2>2, <2>3 DEF HeapTypes, Registered, AgentRec
<1>3. agent_list' = agent_list \ {subj} /\ \A a \in agent_list : mem'[a].id = mem[a].id
  BY <1>1, <1>2, DecommissionEffect DEF Left
<1> DEFINE i == mem[subj].id
<1>4. Alive' = Alive \ {i} /\ i \in Alive /\ i \in Ids
  <2>1. \A a \in agent_list \ {subj} : mem[a].id # i
    BY <1>1, <1>2
  <2> QED
    BY <1>1, <1>2, <1>3, <2>1 DEF Alive
<1>5. DecomSchedule[i] = time
  <2>1. Holds(Due(time), subj)
    <3>1. Due(time) = decom_list
      BY <1>1 DEF Due, Closing
    <3>2. 1 \in 1..Len(decom_list) /\ decom_list[1] = subj
      BY <1>1, <1>2
    <3> QED
      BY <3>1, <3>2 DEF Holds
  <2> QED
    BY <1>1, <1>2, <2>1 DEF DueInv
<1> HIDE DEF i
<1>6. /\ PlannedExits = [j \in Ids |-> IF j \in Alive THEN DecomSchedule[j] ELSE -1]
      /\ PlannedExits' = [j \in Ids |-> IF j \in Alive' THEN DecomSchedule'[j] ELSE -1]
  BY <1>1, ExitsAre, ExitsArePrime
<1>7. PlannedExits[i] = time /\ PlannedExits' = [PlannedExits EXCEPT ![i] = -1]
  BY <1>1, <1>4, <1>5, <1>6
<1>8. PlannedBuilds' = PlannedBuilds
  BY <1>1, PendingKept, SameWaiting
<1>9. Part = "close" /\ Part' = "close"
  BY <1>1, Parts, PartsPrime DEF Closing
<1>10. /\ (0..(next_id - 1))' = 0..(next_id - 1)
       /\ {mem'[a].id : a \in agent_list'} = {mem[a].id : a \in agent_list} \ {i}
       /\ i \in {mem[a].id : a \in agent_list}
  BY <1>1, <1>4 DEF Alive
<1>11. Plan!Exit
  BY <1>1, <1>7, <1>8, <1>9, <1>10 DEF Plan!Exit
<1> QED
  BY <1>11 DEF PlanStep, Plan!PlanNext

\* Every step of the kernel is one of the plan.
LEMMA EveryStepPlanned ==
    ASSUME KernelInv, KernelInv', Orderly, ScheduleInv, DueInv', PlanInv, PlanInv', [Next]_vars
    PROVE  PlanStep
<1>0. ScheduleSteps /\ ~Dangles
  BY NeverDangles, ScheduleFrames
<1>1. CASE pc = "Thrown"
  <2>1. Idle
    BY <1>0, <1>1, ConstantsAssumption DEF ScheduleSteps, Fails, NoThrow, Dangles, Begins, Records,
       Closes, Leaves, Ends, LoadsOne, BuildsOne, Reschedules, Books, Callbacks
  <2> QED
    BY <1>1, <2>1, PlanFails
<1>2. CASE pc # "Thrown"
  BY <1>0, <1>2, PlanIdle, PlanEnds, PlanFails, PlanLoads, PlanBuildsOne, PlanBooks, PlanReschedules,
     PlanLeaves DEF ScheduleSteps
<1> QED
  BY <1>1, <1>2

\* The plan is empty at first.
LEMMA InitPlan ==
    ASSUME Init
    PROVE  PlanInv /\ Plan!PlanInit
<1>1. /\ time = 0 /\ pc = "Load" /\ agent_list = {} /\ next_id = 0
      /\ build_list = << >> /\ build_queue = [t \in Times |-> << >>]
      /\ 0 \in Times
  BY ConstantsAssumption DEF Init, Times
<1>2. PlanInv
  BY <1>1 DEF PlanInv, Closing
<1>3. KernelInv
  BY InitInv
<1>4. PlannedBuilds = Sparse(Waiting)
  BY <1>3, BuildsAre
<1>5. ASSUME NEW k \in BuildRow
      PROVE  Waiting[k] = 0
  <2>1. BuildsLeft(k[3]) = << >>
    BY <1>1 DEF BuildsLeft, BuildRow
  <2>2. MatchIn(<< >>, mem, k[1], k[2]) = {}
    BY DEF MatchIn
  <2> QED
    BY <2>1, <2>2, FS_EmptySet DEF Waiting, Count
<1>6. PlannedBuilds = [e \in {} |-> 1]
  BY <1>4, <1>5 DEF Sparse
<1>7. PlannedExits = [i \in Ids |-> -1]
  BY <1>1 DEF PlannedExits
<1>8. 0..(next_id - 1) = {} /\ {mem[a].id : a \in agent_list} = {}
  BY <1>1
<1>9. Part = "load"
  BY <1>1, Parts
<1> QED
  BY <1>1, <1>2, <1>6, <1>7, <1>8, <1>9 DEF Plan!PlanInit, Plan!EmptyBag, Plan!SetToBag

(***************************************************************************)
(* The kernel implements AgentPlan: the queues of pointers that SchedBuild *)
(* and SchedDecom write, and the copies DoBuild and DoDecom walk while     *)
(* callbacks write to those queues, amount to a plan in which every build  *)
(* happens once, when its time step opens, every agent has one exit, the   *)
(* last asked for, taken when that step closes, and time never passes      *)
(* anything due.                                                           *)
(***************************************************************************)
THEOREM PlanImplemented ==
    ASSUME Orderly
    PROVE  Spec => ImplementsPlan
<1>1. Init => PlanInv /\ Plan!PlanInit
  BY InitPlan
<1>2. KernelInv /\ ScheduleInv /\ PlanInv /\ [Next]_vars => PlanInv'
  BY PlanInvStep
<1>3. /\ KernelInv /\ ScheduleInv /\ PlanInv /\ [Next]_vars
      /\ KernelInv' /\ ScheduleInv' /\ PlanInv'
      => [Plan!PlanNext]_(Plan!plan)
  BY EveryStepPlanned DEF ScheduleInv, PlanStep
<1> QED
  BY <1>1, <1>2, <1>3, Invariance, ScheduleInvariance, PTL DEF Spec, ImplementsPlan, Plan!PlanSpec
==============================================================================
