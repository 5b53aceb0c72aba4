--------------------------- MODULE RecorderProofs ---------------------------
(***************************************************************************)
(* Proofs about the recorder for any back ends, dump counts and number of  *)
(* rows.                                                                   *)
(***************************************************************************)
EXTENDS Recorder, SequenceTheorems, TLAPS

\* A buffer of blank slots (set_dump_count).
LEMMA FreshSlots ==
    ASSUME NEW n \in Nat
    PROVE  Fresh(n) \in Seq(Slot) /\ Len(Fresh(n)) = n
<1>1. Blank \in Slot
  BY RecorderAssumption DEF Blank, Slot
<1>2. Fresh(n) \in [1..n -> Slot]
  BY <1>1 DEF Fresh
<1> QED
  BY <1>2, SeqDef

(***************************************************************************)
(* What a delivery does to one back end: it gets the list, or it is owed   *)
(* nothing of it (NotifyBackends).                                         *)
(***************************************************************************)
LEMMA DeliveryToOne ==
    ASSUME TypeOK, NEW list \in Seq(Slot), NEW k, NEW b \in Backends,
           Notify(list, k), GiveUp(Backends \ Reached(k))
    PROVE  \/ /\ b \in Reached(k)
              /\ received'[b] = received[b] \o list /\ received'[b] \in Seq(Slot)
              /\ Len(received'[b]) = Len(received[b]) + Len(list)
              /\ since'[b] = since[b]
           \/ /\ b \notin Reached(k)
              /\ received'[b] = received[b]
              /\ since'[b] = rows
<1>1. received[b] \in Seq(Slot)
  BY DEF TypeOK
<1>2. /\ received'[b] = IF b \in Reached(k) THEN received[b] \o list ELSE received[b]
      /\ since'[b] = IF b \in Backends \ Reached(k) THEN rows ELSE since[b]
  BY DEF Notify, GiveUp
<1>3. received[b] \o list \in Seq(Slot) /\ Len(received[b] \o list) = Len(received[b]) + Len(list)
  BY <1>1, ConcatProperties
<1> QED
  BY <1>2, <1>3

\* A delivery keeps the types of what it changes.
LEMMA DeliveryTyped ==
    ASSUME TypeOK, NEW list \in Seq(Slot), NEW k,
           Notify(list, k), GiveUp(Backends \ Reached(k))
    PROVE  /\ received' \in [Backends -> Seq(Slot)]
           /\ since' \in [Backends -> 0..MaxRows]
           /\ \A b \in Backends : Len(received[b]) <= Len(received'[b])
<1>1. /\ received' = [b \in Backends |-> received'[b]]
      /\ since' = [b \in Backends |-> since'[b]]
  BY DEF Notify, GiveUp
<1>2. \A b \in Backends : /\ received'[b] \in Seq(Slot) /\ since'[b] \in 0..MaxRows
                          /\ Len(received[b]) <= Len(received'[b])
  <2> TAKE b \in Backends
  <2>1. received[b] \in Seq(Slot) /\ since[b] \in 0..MaxRows /\ rows \in 0..MaxRows
    BY DEF TypeOK
  <2>2. Len(received[b]) \in Nat /\ Len(list) \in Nat
    BY <2>1, LenProperties
  <2>3. \/ /\ received'[b] \in Seq(Slot) /\ since'[b] = since[b]
           /\ Len(received'[b]) = Len(received[b]) + Len(list)
        \/ received'[b] = received[b] /\ since'[b] = rows
    BY DeliveryToOne
  <2> QED
    BY <2>1, <2>2, <2>3
<1> QED
  BY <1>1, <1>2

\* A flush that does not meet null pointers keeps the types.
LEMMA FlushTyped ==
    ASSUME TypeOK, NEW k, Flush(k), ~ FlushUndefined, k \in Outcomes
    PROVE  /\ index' = 0
           /\ received' \in [Backends -> Seq(Slot)] /\ durable' \in [Backends -> Nat]
           /\ since' \in [Backends -> 0..MaxRows]
           /\ \A b \in Backends : durable'[b] <= Len(received'[b])
<1> USE RecorderAssumption
<1>1. CASE index = 0
  BY <1>1 DEF Flush, TypeOK
<1>2. CASE index # 0 /\ index <= Len(data)
  <2> DEFINE list == SubSeq(data, 1, index)
  <2>1. /\ index' = 0 /\ Notify(list, k) /\ GiveUp(Backends \ Reached(k))
        /\ durable' = [b \in Backends |->
                          IF b \in Reached(k) THEN Len(received[b]) + index ELSE durable[b]]
    BY <1>2 DEF Flush
  <2>2. list \in Seq(Slot) /\ Len(list) = index
    <3>1. data \in Seq(Slot) /\ index \in Nat /\ Len(data) \in Nat
      BY DEF TypeOK
    <3>2. \A i \in 1..index : data[i] \in Slot
      BY <3>1, <1>2, ElementOfSeq
    <3> QED
      BY <3>1, <3>2, <1>2, SubSeqProperties
  <2> HIDE DEF list
  <2>3. \A b \in Backends : durable'[b] \in Nat /\ durable'[b] <= Len(received'[b])
    <3> TAKE b \in Backends
    <3>1. /\ durable[b] \in Nat /\ durable[b] <= Len(received[b]) /\ index \in Nat
          /\ Len(received[b]) \in Nat
      BY LenProperties DEF TypeOK
    <3> QED
      BY <3>1, <2>1, <2>2, DeliveryToOne
  <2> QED
    BY <2>1, <2>2, <2>3, DeliveryTyped
<1>3. CASE index # 0 /\ ~ (index <= Len(data))
  <2>1. index \in Nat /\ Len(data) \in Nat /\ backs = << >>
    BY <1>3 DEF TypeOK, FlushUndefined
  <2>2. Reached(k) = {}
    BY <2>1 DEF Reached, Position
  <2>3. /\ index' = 0
        /\ received' = [b \in Backends |-> received[b]]
        /\ durable' = [b \in Backends |-> durable[b]]
        /\ since' = [b \in Backends |-> rows]
    BY <1>3, <2>2 DEF Flush, Notify, GiveUp
  <2> QED
    BY <2>3 DEF TypeOK
<1> QED
  BY <1>1, <1>2, <1>3

\* The initial state is well typed.
LEMMA InitTyped == Init => TypeOK /\ PointersToSlots
<1> SUFFICES ASSUME Init PROVE TypeOK /\ PointersToSlots
  OBVIOUS
<1>1. data \in Seq(Slot)
  BY FreshSlots, RecorderAssumption DEF Init
<1>2. << >> \in Seq(Slot) /\ << >> \in Seq(Backends) /\ Len(<< >>) = 0
  BY EmptySeq
<1> QED
  BY <1>1, <1>2, RecorderAssumption DEF Init, TypeOK, PointersToSlots

\* Every action keeps the types and the callers' pointers, whatever callers do.
LEMMA TypeStep ==
    ASSUME TypeOK, PointersToSlots, [Next]_vars
    PROVE  TypeOK' /\ PointersToSlots'
<1> USE RecorderAssumption
<1>0. /\ data \in Seq(Slot) /\ Len(data) \in Nat /\ index \in 0..MaxRows
      /\ rows \in 0..MaxRows /\ backs \in Seq(Backends)
      /\ open \subseteq (1..MaxRows) \X (0..MaxRows)
  BY LenProperties DEF TypeOK
<1>1. ASSUME NEW what, Undefined(what) PROVE TypeOK' /\ PointersToSlots'
  BY <1>1 DEF Undefined, TypeOK, PointersToSlots
<1>2. CASE NewDatum
  <2>1. CASE index >= Len(data)
    BY <1>1, <1>2, <2>1 DEF NewDatum
  <2>2. CASE ~ (index >= Len(data))
    <3> DEFINE new == [title |-> rows + 1, vals |-> {}]
    <3>1. /\ data' = [data EXCEPT ![index + 1] = new]
          /\ open' = open \cup {<<rows + 1, index + 1>>}
          /\ index' = index + 1 /\ rows' = rows + 1 /\ rows < MaxRows
          /\ UNCHANGED <<backs, received, durable, since, config>>
      BY <1>2, <2>2 DEF NewDatum
    <3>2. new \in Slot /\ index + 1 \in 1..Len(data)
      BY <1>0, <2>2, <3>1 DEF Slot
    <3>3. data' \in Seq(Slot) /\ Len(data') = Len(data)
      BY <1>0, <3>1, <3>2, ExceptSeq
    <3>4. index <= rows /\ index + 1 <= rows + 1
      BY <1>0 DEF PointersToSlots
    <3>5. open' \subseteq (1..MaxRows) \X (0..MaxRows)
      BY <1>0, <3>1, <3>4
    <3>6. \A d \in open' : d[2] <= Len(data')
      BY <1>0, <3>1, <3>2, <3>3 DEF PointersToSlots
    <3> QED
      BY <1>0, <3>1, <3>3, <3>4, <3>5, <3>6 DEF TypeOK, PointersToSlots
  <2> QED
    BY <2>1, <2>2
<1>3. CASE AddVal
  <2>0. PICK d \in open :
         IF d[2] = 0 THEN Undefined("dangling datum")
         ELSE /\ data' = [data EXCEPT ![d[2]].vals = @ \cup {d[1]}]
              /\ UNCHANGED <<index, backs, open, rows, received, durable, since, config,
                             error>>
    BY <1>3 DEF AddVal
  <2>1. CASE d[2] = 0
    BY <2>0, <2>1, <1>1
  <2>2. CASE d[2] # 0
    <3> DEFINE new == [data[d[2]] EXCEPT !.vals = data[d[2]].vals \cup {d[1]}]
    <3>1. d[1] \in 1..MaxRows /\ d[2] \in 1..Len(data)
      BY <1>0, <2>2 DEF PointersToSlots
    <3>2. data[d[2]] \in Slot
      BY <3>1, <1>0, ElementOfSeq
    <3>3. new \in Slot
      BY <3>1, <3>2 DEF Slot
    <3>4. data' = [data EXCEPT ![d[2]] = new]
      BY <2>0, <2>2
    <3> HIDE DEF new
    <3>5. data' \in Seq(Slot) /\ Len(data') = Len(data)
      BY <1>0, <3>1, <3>3, <3>4, ExceptSeq
    <3> QED
      BY <2>0, <2>2, <3>5 DEF TypeOK, PointersToSlots
  <2> QED
    BY <2>1, <2>2
<1>4. CASE Record
  <2>0. PICK d \in open, k \in Outcomes :
         IF d[2] = 0 THEN Undefined("dangling datum")
         ELSE AddDatum(k) /\ open' = open \ {d} /\ UNCHANGED <<data, rows, config, error>>
    BY <1>4 DEF Record
  <2>1. CASE d[2] = 0
    BY <2>0, <2>1, <1>1
  <2>2. CASE d[2] # 0 /\ index >= Len(data)
    <3>1. /\ index' = 0 /\ Notify(data, k) /\ GiveUp(Backends \ Reached(k))
          /\ backs' = backs /\ durable' = durable /\ data' = data /\ rows' = rows
          /\ config' = config /\ open' = open \ {d}
      BY <2>0, <2>2 DEF AddDatum, NotifyBackends
    <3>2. /\ received' \in [Backends -> Seq(Slot)] /\ since' \in [Backends -> 0..MaxRows]
          /\ \A b \in Backends : Len(received[b]) <= Len(received'[b])
      BY <3>1, <1>0, DeliveryTyped
    <3>3. \A b \in Backends : durable'[b] <= Len(received'[b])
      <4> TAKE b \in Backends
      <4>1. durable[b] \in Nat /\ durable[b] <= Len(received[b])
        BY DEF TypeOK
      <4>2. Len(received[b]) \in Nat /\ Len(received'[b]) \in Nat
        BY <3>2, LenProperties DEF TypeOK
      <4> QED
        BY <3>1, <3>2, <4>1, <4>2
    <3> QED
      BY <1>0, <3>1, <3>2, <3>3 DEF TypeOK, PointersToSlots
  <2>3. CASE d[2] # 0 /\ ~ (index >= Len(data))
    BY <2>0, <2>3 DEF AddDatum, TypeOK, PointersToSlots
  <2> QED
    BY <2>1, <2>2, <2>3
<1>5. ASSUME NEW k \in Outcomes, ~ FlushUndefined, Flush(k), UNCHANGED <<data, open, rows, config>>,
             backs' \in {backs, << >>}
      PROVE  TypeOK' /\ PointersToSlots'
  <2>1. backs' \in Seq(Backends)
    BY <1>0, <1>5, EmptySeq
  <2> QED
    BY <1>0, <1>5, <2>1, FlushTyped DEF TypeOK, PointersToSlots
<1>6. CASE CallFlush
  BY <1>1, <1>5, <1>6 DEF CallFlush
<1>7. CASE Close
  BY <1>1, <1>5, <1>7 DEF Close
<1>8. CASE RegisterBackend
  <2> PICK b \in Backends : backs' = Append(backs, b) /\ since' = [since EXCEPT ![b] = rows - index]
    BY <1>8 DEF RegisterBackend
  <2>1. backs' \in Seq(Backends) /\ rows - index \in 0..MaxRows
    BY <1>0, AppendProperties DEF PointersToSlots
  <2>2. since' \in [Backends -> 0..MaxRows]
    BY <2>1 DEF TypeOK
  <2> QED
    BY <1>8, <2>1, <2>2 DEF RegisterBackend, TypeOK, PointersToSlots
<1>9. ASSUME Dangle
      PROVE  /\ open' \subseteq (1..MaxRows) \X (0..MaxRows)
             /\ \A d \in open' : d[2] = 0
  BY <1>0, <1>9 DEF Dangle
<1>10. CASE SetDumpCount
  <2> PICK n \in Counts : data' = Fresh(n)
    BY <1>10 DEF SetDumpCount
  <2>1. data' \in Seq(Slot) /\ Len(data') \in Nat
    BY FreshSlots
  <2>2. since' \in [Backends -> 0..MaxRows] /\ config' \in 0..MaxConfig
    BY <1>0, <1>10 DEF SetDumpCount, TypeOK
  <2> QED
    BY <1>9, <1>10, <2>1, <2>2 DEF SetDumpCount, TypeOK, PointersToSlots
<1>11. CASE InjectSimId
  <2>1. CASE FlushUndefined
    BY <1>1, <1>11, <2>1 DEF InjectSimId
  <2>2. CASE ~ FlushUndefined
    <3> PICK k \in Outcomes :
           /\ Flush(k)
           /\ IF k = Len(backs) THEN data' = Fresh(Len(data)) /\ Dangle
              ELSE UNCHANGED <<data, open>>
           /\ config' = config + 1
           /\ UNCHANGED <<backs, rows, error>>
      BY <1>11, <2>2 DEF InjectSimId
    <3>1. config' \in 0..MaxConfig
      <4>1. config < MaxConfig
        BY <1>11 DEF InjectSimId
      <4> QED
        BY <4>1 DEF TypeOK
    <3>2. data' \in Seq(Slot) /\ Len(data') = Len(data)
      BY <1>0, FreshSlots
    <3>3. open' \subseteq (1..MaxRows) \X (0..MaxRows) /\ \A d \in open' : d[2] <= Len(data')
      BY <1>0, <1>9, <3>2 DEF PointersToSlots
    <3> QED
      BY <1>0, <2>2, <3>1, <3>2, <3>3, FlushTyped DEF TypeOK, PointersToSlots
  <2> QED
    BY <2>1, <2>2
<1>12. CASE UNCHANGED vars
  BY <1>12 DEF vars, TypeOK, PointersToSlots
<1> QED
  BY <1>2, <1>3, <1>4, <1>6, <1>7, <1>8, <1>10, <1>11, <1>12 DEF Next

(***************************************************************************)
(* The fields of the recorder keep their types, and a Datum pointer that a *)
(* caller holds is null or to a slot of the buffer, for callers that do    *)
(* anything.                                                               *)
(***************************************************************************)
THEOREM TypeCorrect == Spec => [](TypeOK /\ PointersToSlots)
<1>1. TypeOK /\ PointersToSlots /\ [Next]_vars => (TypeOK /\ PointersToSlots)'
  BY TypeStep
<1> QED
  BY <1>1, InitTyped, PTL DEF Spec
-----------------------------------------------------------------------------
(***************************************************************************)
(* What the rows in the buffer become when they are delivered.             *)
(***************************************************************************)
Buffered(list) ==
    /\ list \in Seq(Slot) /\ Len(list) = index
    /\ \A i \in 1..index : list[i] = data[i] /\ data[i].vals = {data[i].title}

\* A list of rows appended to an earlier one.
LEMMA ConcatRows ==
    ASSUME NEW s \in Seq(Slot), NEW t \in Seq(Slot), NEW u, u = s \o t
    PROVE  /\ DOMAIN u = 1..(Len(s) + Len(t)) /\ DOMAIN s = 1..Len(s)
           /\ Len(s) \in Nat /\ Len(t) \in Nat
           /\ \A i \in 1..Len(s) : u[i] = s[i]
           /\ \A i \in 1..Len(t) : u[Len(s) + i] = t[i]
           /\ \A i \in DOMAIN u : \/ i \in 1..Len(s) /\ u[i] = s[i]
                                  \/ i - Len(s) \in 1..Len(t) /\ u[i] = t[i - Len(s)]
<1>1. u \in Seq(Slot) /\ Len(u) = Len(s) + Len(t)
  BY ConcatProperties
<1>2. Len(s) \in Nat /\ Len(t) \in Nat /\ DOMAIN u = 1..Len(u) /\ DOMAIN s = 1..Len(s)
  BY <1>1, LenProperties
<1>3. \A i \in 1..(Len(s) + Len(t)) : u[i] = IF i <= Len(s) THEN s[i] ELSE t[i - Len(s)]
  BY ConcatProperties
<1> QED
  BY <1>1, <1>2, <1>3

\* Complete rows up to row m; increasing rows; the complete rows that follow row m.
CompleteTo(s, m) == \A i \in DOMAIN s : s[i].vals = {s[i].title} /\ s[i].title <= m
Increasing(s) == \A i, j \in DOMAIN s : i < j => s[i].title < s[j].title
Follows(t, m) == \A i \in DOMAIN t : t[i].vals = {t[i].title} /\ t[i].title = m + i

\* The rows that follow the last one keep a list complete and increasing.
LEMMA OrderedRows ==
    ASSUME NEW s \in Seq(Slot), NEW t \in Seq(Slot), NEW u, u = s \o t, NEW m \in Nat,
           CompleteTo(s, m), Increasing(s), Follows(t, m)
    PROVE  CompleteTo(u, m + Len(t)) /\ Increasing(u)
<1>0. /\ DOMAIN s = 1..Len(s) /\ DOMAIN t = 1..Len(t)
      /\ \A i \in 1..Len(s) : s[i].vals = {s[i].title} /\ s[i].title <= m
      /\ \A i, j \in 1..Len(s) : i < j => s[i].title < s[j].title
      /\ \A i \in 1..Len(t) : t[i].vals = {t[i].title} /\ t[i].title = m + i
  BY LenProperties DEF CompleteTo, Increasing, Follows
<1> USE RecorderAssumption
<1>1. \A i \in 1..Len(s) : s[i].title \in Int
  <2> TAKE i \in 1..Len(s)
  <2>1. s[i] \in Slot
    BY ElementOfSeq
  <2> QED
    BY <2>1 DEF Slot
<1>2. Len(s) \in Nat /\ Len(t) \in Nat /\ DOMAIN u = 1..(Len(s) + Len(t))
  BY ConcatRows
<1>3. \A i \in DOMAIN u :
         \/ i \in 1..Len(s) /\ u[i] = s[i]
         \/ i - Len(s) \in 1..Len(t) /\ u[i] = t[i - Len(s)] /\ u[i].title = m + (i - Len(s))
  BY <1>0, ConcatRows
<1>4. \A i \in DOMAIN u : u[i].vals = {u[i].title} /\ u[i].title <= m + Len(t)
  <2> TAKE i \in DOMAIN u
  <2>1. CASE i \in 1..Len(s) /\ u[i] = s[i]
    BY <1>0, <1>1, <1>2, <2>1
  <2>2. CASE i - Len(s) \in 1..Len(t) /\ u[i] = t[i - Len(s)]
    BY <1>0, <1>2, <2>2
  <2> QED
    BY <1>3, <2>1, <2>2
<1>5. ASSUME NEW i \in DOMAIN u, NEW j \in DOMAIN u, i < j
      PROVE  u[i].title < u[j].title
  <2>1. CASE j \in 1..Len(s) /\ u[j] = s[j]
    <3>1. i \in 1..Len(s) /\ u[i] = s[i]
      BY <1>2, <1>3, <1>5, <2>1
    <3> QED
      BY <1>0, <1>5, <2>1, <3>1
  <2>2. CASE j - Len(s) \in 1..Len(t) /\ u[j].title = m + (j - Len(s))
    <3>1. CASE i \in 1..Len(s) /\ u[i] = s[i]
      BY <1>0, <1>1, <1>2, <2>2, <3>1
    <3>2. CASE u[i].title = m + (i - Len(s))
      BY <1>2, <1>5, <2>2, <3>2
    <3> QED
      BY <1>3, <3>1, <3>2
  <2> QED
    BY <1>3, <2>1, <2>2
<1> QED
  BY <1>4, <1>5 DEF CompleteTo, Increasing

\* One back end after a delivery: complete rows, in order, up to the last row.
LEMMA DeliveredInOrder ==
    ASSUME RecorderInv, NEW list, Buffered(list), NEW k, NEW b \in Backends,
           Notify(list, k), GiveUp(Backends \ Reached(k))
    PROVE  CompleteTo(received'[b], rows) /\ Increasing(received'[b])
<1>1. /\ TypeOK /\ list \in Seq(Slot) /\ Len(list) = index
      /\ received[b] \in Seq(Slot) /\ index \in Nat /\ rows \in Nat /\ index <= rows
  BY RecorderAssumption DEF RecorderInv, TypeOK, Buffered, PointersToSlots
<1>2. /\ rows - index \in Nat /\ (rows - index) + Len(list) = rows
      /\ DOMAIN list = 1..index
  BY <1>1, LenProperties
<1>3. CompleteTo(received[b], rows - index) /\ Increasing(received[b])
  BY DEF RecorderInv, DeliveredIntact, IntactRows, InOrderOnce, SeenBefore, CompleteTo, Increasing
<1>4. Follows(list, rows - index)
  BY <1>2 DEF RecorderInv, BufferInv, Buffered, Follows
<1>5. CASE received'[b] = received[b]
  <2>1. \A i \in DOMAIN received[b] : received[b][i].title <= rows
    <3> TAKE i \in DOMAIN received[b]
    <3>1. received[b][i] \in Slot
      BY <1>1, LenProperties, ElementOfSeq
    <3>2. received[b][i].title \in Int
      BY <3>1, RecorderAssumption DEF Slot
    <3>3. received[b][i].title <= rows - index
      BY <1>3 DEF CompleteTo
    <3> QED
      BY <1>1, <3>2, <3>3
  <2> QED
    BY <1>3, <1>5, <2>1 DEF CompleteTo
<1>6. CASE received'[b] = received[b] \o list
  <2>1. CompleteTo(received'[b], (rows - index) + Len(list)) /\ Increasing(received'[b])
    BY <1>1, <1>2, <1>3, <1>4, <1>6, OrderedRows, Zenon
  <2> QED
    BY <1>2, <2>1
<1> QED
  BY <1>1, <1>5, <1>6, DeliveryToOne

\* A registered back end that a delivery reaches has every row it is owed.
LEMMA DeliveredComplete ==
    ASSUME RecorderInv, NEW list, Buffered(list), NEW k, NEW b \in Backends,
           Notify(list, k), GiveUp(Backends \ Reached(k)),
           Position(b) # {}, b \in Reached(k)
    PROVE  (since[b] + 1)..rows \subseteq Titles(b)'
<1>1. /\ TypeOK /\ list \in Seq(Slot) /\ Len(list) = index
      /\ received[b] \in Seq(Slot) /\ index \in Nat /\ rows \in Nat /\ index <= rows
      /\ since[b] \in Nat
  BY RecorderAssumption DEF RecorderInv, TypeOK, Buffered, PointersToSlots
<1>2. received'[b] = received[b] \o list
  BY <1>1, DeliveryToOne
<1> DEFINE n == Len(received[b])
<1>3. /\ DOMAIN received'[b] = 1..(n + index) /\ DOMAIN received[b] = 1..n /\ n \in Nat
      /\ \A i \in 1..n : received'[b][i] = received[b][i]
      /\ \A i \in 1..index : received'[b][n + i] = list[i]
  <2> DEFINE s == received[b]
             u == received'[b]
  <2>1. s \in Seq(Slot) /\ list \in Seq(Slot) /\ u = s \o list
    BY <1>1, <1>2
  <2> HIDE DEF s, u
  <2>2. DOMAIN u = 1..(Len(s) + Len(list)) /\ DOMAIN s = 1..Len(s) /\ Len(s) \in Nat
    BY ONLY <2>1, ConcatRows
  <2>3. \A i \in 1..Len(s) : u[i] = s[i]
    BY ONLY <2>1, ConcatRows
  <2>4. \A i \in 1..Len(list) : u[Len(s) + i] = list[i]
    BY ONLY <2>1, ConcatRows
  <2> QED
    BY <1>1, <2>2, <2>3, <2>4 DEF s, u
<1> HIDE DEF n
<1>4. SUFFICES ASSUME NEW r \in (since[b] + 1)..rows
               PROVE  \E i \in DOMAIN received'[b] : received'[b][i].title = r
  BY DEF Titles
<1>5. CASE r <= rows - index
  <2>1. PICK j \in DOMAIN backs : backs[j] = b
    <3>1. backs \in Seq(Backends)
      BY <1>1 DEF TypeOK
    <3>2. DOMAIN backs = 1..Len(backs)
      BY <3>1, LenProperties
    <3> QED
      BY <3>2 DEF Position
  <2>2. r \in Titles(b)
    BY <1>1, <1>4, <1>5, <2>1 DEF RecorderInv, NothingLost
  <2>3. PICK i \in 1..n : received[b][i].title = r
    BY <1>3, <2>2 DEF Titles
  <2>4. i \in DOMAIN received'[b] /\ received'[b][i].title = r
    BY <1>1, <1>3, <2>3
  <2> QED
    BY <2>4
<1>6. CASE r > rows - index
  <2>1. r - (rows - index) \in 1..index
    BY <1>1, <1>4, <1>6
  <2>2. list[r - (rows - index)].title = r
    BY <1>1, <1>4, <2>1 DEF RecorderInv, BufferInv, Buffered
  <2>3. /\ n + (r - (rows - index)) \in DOMAIN received'[b]
        /\ received'[b][n + (r - (rows - index))].title = r
    BY <1>1, <1>3, <2>1, <2>2
  <2> QED
    BY <2>3
<1> QED
  BY <1>1, <1>4, <1>5, <1>6

\* What a flush of a disciplined program passes on is the buffer.
LEMMA FlushedBuffer ==
    ASSUME RecorderInv, open = {}, index # 0
    PROVE  Buffered(SubSeq(data, 1, index))
<1> DEFINE list == SubSeq(data, 1, index)
<1>1. data \in Seq(Slot) /\ index \in Nat /\ Len(data) \in Nat /\ index <= Len(data)
  BY LenProperties, RecorderAssumption DEF RecorderInv, TypeOK, BufferInv
<1>2. \A i \in 1..index : data[i] \in Slot
  BY <1>1, ElementOfSeq
<1>3. list \in Seq(Slot) /\ Len(list) = index /\ \A i \in 1..index : list[i] = data[i]
  BY <1>1, <1>2, SubSeqProperties
<1>4. \A i \in 1..index : data[i].vals = {data[i].title}
  BY DEF RecorderInv, BufferInv
<1> QED
  BY <1>3, <1>4 DEF Buffered

(***************************************************************************)
(* A delivery of the buffer keeps what back ends have seen right, also     *)
(* when one of them throws or they are unregistered afterwards.            *)
(***************************************************************************)
LEMMA DeliveryKeeps ==
    ASSUME RecorderInv, NEW list, Buffered(list), NEW k,
           Notify(list, k), GiveUp(Backends \ Reached(k)),
           index' = 0, rows' = rows, backs' = backs \/ backs' = << >>
    PROVE  SeenBefore' /\ DeliveredIntact' /\ NothingLost'
<1>1. rows \in Nat /\ rows - 0 = rows /\ backs \in Seq(Backends) /\ TypeOK
  BY RecorderAssumption DEF RecorderInv, TypeOK
<1>2. \A b \in Backends : CompleteTo(received'[b], rows) /\ Increasing(received'[b])
  BY DeliveredInOrder
<1>3. SeenBefore'
  BY <1>1, <1>2 DEF SeenBefore, CompleteTo
<1>4. DeliveredIntact'
  BY <1>2 DEF DeliveredIntact, IntactRows, InOrderOnce, CompleteTo, Increasing
<1>5. CASE backs' = << >>
  BY <1>3, <1>4, <1>5 DEF NothingLost
<1>6. CASE backs' = backs
  <2>a. \A j \in DOMAIN backs : backs[j] \in Backends
    BY <1>1, LenProperties, ElementOfSeq
  <2>0. SUFFICES ASSUME NEW b \in Backends, NEW j \in DOMAIN backs, b = backs[j]
                 PROVE  (since'[b] + 1)..rows \subseteq Titles(b)'
    BY <1>1, <1>3, <1>4, <1>6, <2>a DEF NothingLost, Titles
  <2>1. Position(b) # {}
    BY <1>1, <2>0, LenProperties DEF Position
  <2>2. list \in Seq(Slot)
    BY DEF Buffered
  <2>3. CASE b \in Reached(k)
    <3>1. (since[b] + 1)..rows \subseteq Titles(b)'
      BY <2>1, <2>3, DeliveredComplete
    <3>2. since'[b] = since[b]
      BY <1>1, <2>2, <2>3, DeliveryToOne
    <3> QED
      BY <3>1, <3>2
  <2>4. CASE b \notin Reached(k)
    <3>1. since'[b] = rows
      BY <1>1, <2>2, <2>4, DeliveryToOne
    <3>2. (since'[b] + 1)..rows = {}
      BY <1>1, <3>1
    <3> QED
      BY <3>2
  <2> QED
    BY <2>3, <2>4
<1> QED
  BY <1>5, <1>6

\* Flush between two rows, as CallFlush, Close and InjectSimId make it.
LEMMA FlushKeeps ==
    ASSUME RecorderInv, open = {}, NEW k, Flush(k), rows' = rows,
           backs' = backs \/ backs' = << >>
    PROVE  index' = 0 /\ SeenBefore' /\ DeliveredIntact' /\ NothingLost'
<1>1. CASE index = 0
  <2>1. index' = index /\ received' = received /\ since' = since
    BY <1>1 DEF Flush
  <2>2. SeenBefore' /\ DeliveredIntact'
    BY <2>1 DEF RecorderInv, SeenBefore, DeliveredIntact, IntactRows, InOrderOnce
  <2>3. NothingLost'
    BY <2>1 DEF RecorderInv, NothingLost, Titles
  <2> QED
    BY <1>1, <2>1, <2>2, <2>3
<1>2. CASE index # 0
  <2>1. /\ index' = 0 /\ Notify(SubSeq(data, 1, index), k)
        /\ GiveUp(Backends \ Reached(k))
    BY <1>2 DEF Flush
  <2> QED
    BY <1>2, <2>1, FlushedBuffer, DeliveryKeeps
<1> QED
  BY <1>1, <1>2

\* A buffer of blank slots, empty.
LEMMA BlankBuffer ==
    ASSUME NEW n \in Nat, data' = Fresh(n), index' = 0, open' = {}, rows' \in Nat
    PROVE  BufferInv'
<1>1. data' \in Seq(Slot) /\ Len(data') = n
  BY FreshSlots
<1>2. data' # << >> => n # 0
  BY <1>1, EmptySeq
<1> QED
  BY <1>1, <1>2 DEF BufferInv

\* The initial state satisfies the invariant.
LEMMA InvInit ==
    ASSUME Disciplined, Init
    PROVE  RecorderInv
<1>1. TypeOK /\ PointersToSlots
  BY InitTyped
<1>2. PICK n \in Counts : data = Fresh(n)
  BY DEF Init
<1>3. n \in Nat /\ data \in Seq(Slot) /\ Len(data) = n
  BY <1>2, RecorderAssumption, FreshSlots
<1>a. data # << >> => n # 0
  BY <1>3, EmptySeq
<1>4. BufferInv
  BY <1>3, <1>a DEF Init, BufferInv
<1>5. DOMAIN << >> = {}
  OBVIOUS
<1>6. SeenBefore /\ DeliveredIntact /\ NothingLost
  BY <1>5 DEF Init, SeenBefore, DeliveredIntact, IntactRows, InOrderOnce, NothingLost
<1> QED
  BY <1>1, <1>4, <1>6 DEF Init, RecorderInv, OnlyZeroUndefined

(***************************************************************************)
(* Every action of a disciplined program keeps the invariant.              *)
(***************************************************************************)
LEMMA InvStepRunning ==
    ASSUME Disciplined, RecorderInv, error = "none", [Next]_vars
    PROVE  RecorderInv'
<1> USE RecorderAssumption
<1>0. /\ data \in Seq(Slot) /\ Len(data) \in Nat /\ index \in Nat /\ rows \in Nat
      /\ index <= rows /\ index <= Len(data) /\ (open = {} /\ data # << >> => index < Len(data))
      /\ backs \in Seq(Backends) /\ error = "none" /\ TypeOK
  BY LenProperties DEF RecorderInv, TypeOK, PointersToSlots, BufferInv, OnlyZeroUndefined
<1>1. TypeOK' /\ PointersToSlots'
  BY TypeStep DEF RecorderInv
<1>2. ~ FlushUndefined
  BY <1>0 DEF FlushUndefined
<1>3. MayCall => open = {}
  BY DEF MayCall, Disciplined
<1>4. ASSUME received' = received, since' = since, backs' = backs, rows' - index' = rows - index
      PROVE  SeenBefore' /\ DeliveredIntact' /\ NothingLost'
  <2>1. SeenBefore' /\ DeliveredIntact'
    BY <1>4 DEF RecorderInv, SeenBefore, DeliveredIntact, IntactRows, InOrderOnce
  <2> QED
    BY <1>4, <2>1 DEF RecorderInv, NothingLost, Titles
<1>z. CASE NewDatum /\ data = << >>
  <2>1. index >= Len(data) /\ Undefined("out of range")
    <3>1. Len(data) = 0
      BY <1>z, EmptySeq
    <3>2. index >= Len(data)
      BY <1>0, <3>1
    <3> QED
      BY <1>z, <3>2 DEF NewDatum
  <2>2. /\ data' = data /\ index' = index /\ open' = open /\ rows' = rows /\ backs' = backs
        /\ received' = received /\ since' = since /\ error' = "out of range"
    BY <2>1 DEF Undefined
  <2>3. BufferInv' /\ OnlyZeroUndefined'
    BY <1>z, <2>2 DEF RecorderInv, BufferInv, OnlyZeroUndefined
  <2> QED
    BY <1>0, <1>1, <1>4, <2>2, <2>3 DEF RecorderInv
<1>5. CASE NewDatum /\ data # << >>
  <2> DEFINE new == [title |-> rows + 1, vals |-> {}]
  <2>1. /\ data' = [data EXCEPT ![index + 1] = new]
        /\ open' = open \cup {<<rows + 1, index + 1>>} /\ open = {}
        /\ index' = index + 1 /\ rows' = rows + 1
        /\ backs' = backs /\ received' = received /\ since' = since /\ error' = error
    <3>1. open = {}
      BY <1>3, <1>5 DEF NewDatum
    <3>2. ~ (index >= Len(data))
      BY <1>0, <1>5, <3>1
    <3> QED
      BY <1>5, <3>1, <3>2 DEF NewDatum
  <2>2. index + 1 \in 1..Len(data) /\ rows' - index' = rows - index
    BY <1>0, <1>5, <2>1
  <2>3. new \in Slot
    <3>1. rows < MaxRows
      BY <1>5 DEF NewDatum
    <3>2. rows + 1 \in 0..MaxRows
      BY <1>0, <3>1
    <3> QED
      BY <3>2 DEF Slot
  <2>4. /\ Len(data') = Len(data) /\ data'[index + 1] = new
        /\ \A i \in 1..index : data'[i] = data[i]
    BY <1>0, <2>1, <2>2, <2>3, ExceptSeq
  <2>5. \A i \in 1..index : data[i].title = (rows - index) + i /\ data[i].vals = {data[i].title}
    BY <2>1 DEF RecorderInv, BufferInv
  <2>6. BufferInv'
    <3>1. open' = {<<rows', index'>>} /\ index' >= 1 /\ index' <= Len(data')
      BY <1>0, <2>1, <2>2, <2>4
    <3>2. ASSUME NEW i \in 1..index'
          PROVE  /\ data'[i].title = (rows' - index') + i
                 /\ \/ data'[i].vals = {data'[i].title}
                    \/ i = index' /\ open' # {} /\ data'[i].vals = {}
      <4>1. CASE i = index + 1
        <5>1. new.title = rows + 1 /\ new.vals = {}
          OBVIOUS
        <5> QED
          BY <1>0, <2>1, <2>2, <2>4, <3>1, <4>1, <5>1
      <4>2. CASE i \in 1..index
        BY <1>0, <2>2, <2>4, <2>5, <4>2
      <4> QED
        BY <1>0, <2>1, <3>2, <4>1, <4>2
    <3> QED
      BY <3>1, <3>2 DEF BufferInv
  <2> QED
    BY <1>0, <1>1, <1>4, <2>1, <2>2, <2>6 DEF RecorderInv, OnlyZeroUndefined
<1>6. ASSUME NEW d \in open
      PROVE  /\ d = <<rows, index>> /\ index >= 1 /\ open = {d}
             /\ data[index].title = rows
             /\ data[index].vals = {rows} \/ data[index].vals = {}
  <2>1. index >= 1 /\ open = {<<rows, index>>}
    BY <1>6 DEF RecorderInv, BufferInv
  <2>2. index \in 1..index /\ (rows - index) + index = rows
    BY <1>0, <2>1
  <2>3. /\ data[index].title = (rows - index) + index
        /\ data[index].vals = {data[index].title} \/ data[index].vals = {}
    BY <2>2 DEF RecorderInv, BufferInv
  <2> QED
    BY <1>6, <2>1, <2>2, <2>3
<1>7. CASE AddVal
  <2>0. PICK d \in open :
          IF d[2] = 0 THEN Undefined("dangling datum")
          ELSE /\ d[1] \notin data[d[2]].vals
               /\ data' = [data EXCEPT ![d[2]].vals = @ \cup {d[1]}]
               /\ index' = index /\ backs' = backs /\ open' = open /\ rows' = rows
               /\ received' = received /\ since' = since /\ error' = error
    BY <1>7 DEF AddVal
  <2>1. /\ d[1] = rows /\ d[2] = index /\ index >= 1 /\ open = {<<rows, index>>}
        /\ data[index].title = rows /\ index \in 1..Len(data)
        /\ data[index].vals = {rows} \/ data[index].vals = {}
    BY <1>0, <1>6
  <2> DEFINE new == [data[index] EXCEPT !.vals = data[index].vals \cup {rows}]
  <2>2. /\ data' = [data EXCEPT ![index] = new]
        /\ index' = index /\ backs' = backs /\ open' = open /\ rows' = rows
        /\ received' = received /\ since' = since /\ error' = error
    <3>1. d[2] # 0 /\ d[1] = rows /\ d[2] = index
      BY <1>0, <2>1
    <3> QED
      BY <2>0, <3>1
  <2>3. data[index] \in Slot /\ rows \in 1..MaxRows
    <3>1. data[index] \in Slot
      BY <1>0, <2>1, ElementOfSeq
    <3>2. rows <= MaxRows /\ rows >= 1
      BY <1>0, <2>1 DEF TypeOK
    <3> QED
      BY <1>0, <3>1, <3>2
  <2>4. new \in Slot /\ new.title = rows /\ new.vals = {rows}
    BY <2>1, <2>3 DEF Slot
  <2> HIDE DEF new
  <2>5. /\ Len(data') = Len(data) /\ data'[index] = new
        /\ \A i \in 1..index : i # index => data'[i] = data[i]
    BY <1>0, <2>1, <2>2, <2>4, ExceptSeq
  <2>6. \A i \in 1..index : /\ data[i].title = (rows - index) + i
                            /\ i # index => data[i].vals = {data[i].title}
    BY DEF RecorderInv, BufferInv
  <2>7. \A i \in 1..index : /\ data'[i].title = (rows - index) + i
                            /\ data'[i].vals = {data'[i].title}
    BY <1>0, <2>1, <2>4, <2>5, <2>6
  <2>8. BufferInv'
    BY <1>0, <2>1, <2>2, <2>5, <2>7 DEF BufferInv
  <2> QED
    BY <1>0, <1>1, <1>4, <2>2, <2>8 DEF RecorderInv, OnlyZeroUndefined
<1>8. CASE Record
  <2>0. PICK d \in open, k \in Outcomes :
          IF d[2] = 0 THEN Undefined("dangling datum")
          ELSE /\ d[1] \in data[d[2]].vals /\ AddDatum(k) /\ open' = open \ {d}
               /\ data' = data /\ rows' = rows /\ error' = error
    BY <1>8 DEF Record
  <2>1. /\ d[1] = rows /\ d[2] = index /\ index >= 1 /\ open = {d} /\ index # 0
        /\ data[index].title = rows
        /\ data[index].vals = {rows} \/ data[index].vals = {}
    BY <1>0, <1>6
  <2>2. /\ rows \in data[index].vals /\ AddDatum(k) /\ open' = {}
        /\ data' = data /\ rows' = rows /\ error' = error
    BY <2>0, <2>1
  <2>3. data[index].vals = {data[index].title}
    BY <2>1, <2>2
  <2>4. \A i \in 1..index : /\ data[i].title = (rows - index) + i
                            /\ data[i].vals = {data[i].title}
    BY <2>3 DEF RecorderInv, BufferInv
  <2>5. CASE index >= Len(data)
    <3>1. /\ index' = 0 /\ Notify(data, k) /\ GiveUp(Backends \ Reached(k))
          /\ backs' = backs
      BY <2>2, <2>5 DEF AddDatum, NotifyBackends
    <3>2. Buffered(data)
      BY <1>0, <2>4, <2>5 DEF Buffered
    <3>3. SeenBefore' /\ DeliveredIntact' /\ NothingLost'
      BY <2>2, <3>1, <3>2, DeliveryKeeps
    <3>4. BufferInv'
      BY <1>0, <2>1, <2>2, <2>5, <3>1 DEF BufferInv
    <3> QED
      BY <1>0, <1>1, <2>2, <3>3, <3>4 DEF RecorderInv, OnlyZeroUndefined
  <2>6. CASE ~ (index >= Len(data))
    <3>1. index' = index /\ backs' = backs /\ received' = received /\ since' = since
      BY <2>2, <2>6 DEF AddDatum
    <3>2. BufferInv'
      BY <1>0, <2>2, <2>4, <2>6, <3>1 DEF BufferInv
    <3> QED
      BY <1>0, <1>1, <1>4, <2>2, <3>1, <3>2 DEF RecorderInv, OnlyZeroUndefined
  <2> QED
    BY <2>5, <2>6
<1>9. ASSUME MayCall, NEW k \in Outcomes, Flush(k), data' = data, open' = open, rows' = rows,
             error' = error, backs' = backs \/ backs' = << >>
      PROVE  RecorderInv'
  <2>1. open = {}
    BY <1>3, <1>9
  <2>2. index' = 0 /\ SeenBefore' /\ DeliveredIntact' /\ NothingLost'
    BY <1>9, <2>1, FlushKeeps
  <2>3. BufferInv'
    BY <1>0, <1>9, <2>1, <2>2 DEF BufferInv
  <2> QED
    BY <1>0, <1>1, <1>9, <2>2, <2>3 DEF RecorderInv, OnlyZeroUndefined
<1>10. CASE CallFlush
  BY <1>2, <1>9, <1>10 DEF CallFlush
<1>11. CASE Close
  BY <1>2, <1>9, <1>11 DEF Close
<1>12. CASE RegisterBackend
  <2>0. PICK b \in Backends : /\ backs' = Append(backs, b)
                              /\ since' = [since EXCEPT ![b] = rows - index]
    BY <1>12 DEF RegisterBackend
  <2>1. /\ data' = data /\ index' = index /\ open' = open /\ rows' = rows
        /\ received' = received /\ error' = error
    BY <1>12 DEF RegisterBackend
  <2>2. SeenBefore' /\ DeliveredIntact' /\ BufferInv'
    BY <2>1 DEF RecorderInv, SeenBefore, DeliveredIntact, IntactRows, InOrderOnce, BufferInv
  <2>3. ASSUME NEW j \in DOMAIN backs', NEW c \in Backends, c = backs'[j]
        PROVE  (since'[c] + 1)..(rows - index) \subseteq Titles(c)
    <3>1. CASE c = b
      <4>1. since'[c] = rows - index
        BY <2>0, <3>1 DEF RecorderInv, TypeOK
      <4>2. (since'[c] + 1)..(rows - index) = {}
        BY <1>0, <4>1
      <4> QED
        BY <4>2
    <3>2. CASE c # b
      <4>1. since'[c] = since[c]
        BY <2>0, <3>2 DEF RecorderInv, TypeOK
      <4>2. j \in DOMAIN backs /\ backs[j] = c
        BY <1>0, <2>0, <2>3, <3>2, AppendProperties, LenProperties
      <4> QED
        BY <4>1, <4>2 DEF RecorderInv, NothingLost
    <3> QED
      BY <3>1, <3>2
  <2>4. \A j \in DOMAIN backs' : backs'[j] \in Backends
    <3>1. backs' \in Seq(Backends)
      BY <1>1 DEF TypeOK
    <3> QED
      BY <3>1, LenProperties, ElementOfSeq
  <2>5. NothingLost'
    BY <2>1, <2>3, <2>4 DEF NothingLost, Titles
  <2> QED
    BY <1>0, <1>1, <2>1, <2>2, <2>5 DEF RecorderInv, OnlyZeroUndefined
<1>13. ASSUME open = {}, Dangle
       PROVE  open' = {}
  BY <1>13 DEF Dangle
<1>14. CASE SetDumpCount
  <2>0. PICK n \in Counts : data' = Fresh(n)
    BY <1>14 DEF SetDumpCount
  <2>1. n \in Nat
    OBVIOUS
  <2>2. open = {} /\ index = 0
    BY <1>3, <1>14 DEF SetDumpCount, Disciplined
  <2>3. /\ open' = {} /\ index' = 0 /\ rows' = rows /\ backs' = backs
        /\ received' = received /\ error' = error
        /\ since' = [b \in Backends |-> rows]
    BY <1>13, <1>14, <2>2 DEF SetDumpCount
  <2>4. BufferInv'
    BY <1>0, <2>0, <2>1, <2>3, BlankBuffer
  <2>5. SeenBefore' /\ DeliveredIntact'
    BY <2>2, <2>3 DEF RecorderInv, SeenBefore, DeliveredIntact, IntactRows, InOrderOnce
  <2>6. NothingLost'
    <3>1. \A j \in DOMAIN backs : backs[j] \in Backends
      BY <1>0, LenProperties, ElementOfSeq
    <3>2. (rows + 1)..(rows - 0) = {}
      BY <1>0
    <3> QED
      BY <2>3, <3>1, <3>2 DEF NothingLost
  <2> QED
    BY <1>0, <1>1, <2>3, <2>4, <2>5, <2>6 DEF RecorderInv, OnlyZeroUndefined
<1>15. CASE InjectSimId
  <2>0. PICK k \in Outcomes :
          /\ Flush(k)
          /\ IF k = Len(backs) THEN data' = Fresh(Len(data)) /\ Dangle
             ELSE data' = data /\ open' = open
          /\ backs' = backs /\ rows' = rows /\ error' = error
    BY <1>2, <1>15 DEF InjectSimId
  <2>1. open = {} /\ MayCall
    BY <1>3, <1>15 DEF InjectSimId
  <2>2. CASE k = Len(backs)
    <3>1. data' = Fresh(Len(data)) /\ open' = {}
      BY <1>13, <2>0, <2>1, <2>2
    <3>2. index' = 0 /\ SeenBefore' /\ DeliveredIntact' /\ NothingLost'
      BY <2>0, <2>1, FlushKeeps
    <3>4. BufferInv'
      BY <1>0, <2>0, <3>1, <3>2, BlankBuffer
    <3> QED
      BY <1>0, <1>1, <2>0, <3>2, <3>4 DEF RecorderInv, OnlyZeroUndefined
  <2>3. CASE k # Len(backs)
    BY <1>9, <2>0, <2>1, <2>3
  <2> QED
    BY <2>2, <2>3
<1>16. CASE UNCHANGED vars
  <2>1. /\ data' = data /\ index' = index /\ open' = open /\ rows' = rows /\ backs' = backs
        /\ received' = received /\ since' = since /\ error' = error
    BY <1>16 DEF vars
  <2>2. BufferInv'
    BY <2>1 DEF RecorderInv, BufferInv
  <2> QED
    BY <1>0, <1>1, <1>4, <2>1, <2>2 DEF RecorderInv, OnlyZeroUndefined
<1> QED
  BY <1>z, <1>5, <1>7, <1>8, <1>10, <1>11, <1>12, <1>14, <1>15, <1>16 DEF Next

\* After undefined behaviour the model takes no step.
LEMMA InvStep ==
    ASSUME Disciplined, RecorderInv, [Next]_vars
    PROVE  RecorderInv'
<1>1. CASE error = "none"
  BY <1>1, InvStepRunning
<1>2. CASE error # "none"
  <2>1. ~ Next
    BY <1>2 DEF Next, NewDatum, AddVal, Record, CallFlush, Close, RegisterBackend, SetDumpCount,
       InjectSimId, MayCall, Running
  <2>2. /\ data' = data /\ index' = index /\ open' = open /\ rows' = rows /\ backs' = backs
        /\ received' = received /\ since' = since /\ error' = error
    BY <2>1 DEF vars
  <2>3. TypeOK' /\ PointersToSlots'
    BY TypeStep DEF RecorderInv
  <2>4. BufferInv' /\ SeenBefore' /\ DeliveredIntact' /\ OnlyZeroUndefined'
    BY <2>2 DEF RecorderInv, BufferInv, SeenBefore, DeliveredIntact, IntactRows, InOrderOnce,
       OnlyZeroUndefined
  <2>5. NothingLost'
    BY <2>2 DEF RecorderInv, NothingLost, Titles
  <2> QED
    BY <2>3, <2>4, <2>5 DEF RecorderInv
<1> QED
  BY <1>1, <1>2

(***************************************************************************)
(* The invariant of a program that finishes one Datum before it asks for   *)
(* the next, for any back ends (throwing ones included), dump counts and   *)
(* number of rows.                                                         *)
(***************************************************************************)
THEOREM Invariance ==
    ASSUME Disciplined
    PROVE  Spec => []RecorderInv
<1>1. RecorderInv /\ [Next]_vars => RecorderInv'
  BY InvStep
<1>2. Init => RecorderInv
  BY InvInit
<1> QED
  BY <1>1, <1>2, PTL DEF Spec

(***************************************************************************)
(* Such a program makes NewDatum or Flush run off the slots only where its *)
(* dump count is 0.                                                        *)
(***************************************************************************)
THEOREM UndefinedOnlyAtZero ==
    ASSUME Disciplined
    PROVE  Spec => []OnlyZeroUndefined
<1>1. RecorderInv => OnlyZeroUndefined
  BY DEF RecorderInv
<1> QED
  BY <1>1, Invariance, PTL

(***************************************************************************)
(* Its rows reach every back end with their own values, in order and once, *)
(* although slots are reused and back ends may throw.                      *)
(***************************************************************************)
THEOREM RowsIntact ==
    ASSUME Disciplined
    PROVE  Spec => []DeliveredIntact
<1>1. RecorderInv => DeliveredIntact
  BY DEF RecorderInv
<1> QED
  BY <1>1, Invariance, PTL

(***************************************************************************)
(* Every row a registered back end is owed was delivered or is buffered.   *)
(***************************************************************************)
THEOREM RowsKept ==
    ASSUME Disciplined
    PROVE  Spec => []NothingLost
<1>1. RecorderInv => NothingLost
  BY DEF RecorderInv
<1> QED
  BY <1>1, Invariance, PTL

(***************************************************************************)
(* Close unregisters a back end only after it has received every row it is *)
(* owed.                                                                   *)
(***************************************************************************)
THEOREM CloseComplete ==
    ASSUME Disciplined
    PROVE  Spec => CloseDelivers
<1> DEFINE Complete == \A b \in Backends : Position(b) # {} /\ backs' = << >>
                           => (since[b] + 1)..rows \subseteq Titles(b)'
<1>1. ASSUME RecorderInv, [Next]_vars
      PROVE  [Complete]_vars
  <2> SUFFICES ASSUME NEW b \in Backends, Position(b) # {}, backs' = << >>
               PROVE  (since[b] + 1)..rows \subseteq Titles(b)'
    OBVIOUS
  <2>1. /\ backs \in Seq(Backends) /\ DOMAIN backs = 1..Len(backs) /\ Len(backs) \in Nat
        /\ index <= Len(data) /\ index \in Nat /\ Len(data) \in Nat /\ rows \in Nat
    BY <1>1, LenProperties, RecorderAssumption DEF RecorderInv, TypeOK, BufferInv
  <2>2. PICK j \in 1..Len(backs) : backs[j] = b
    BY DEF Position
  <2>3. backs # << >>
    BY <2>1, <2>2
  <2>4. \A c \in Backends : Append(backs, c) # << >>
    BY <2>1, AppendProperties
  <2>5. ~ FlushUndefined
    BY <2>1 DEF FlushUndefined
  <2>6. Close
    <3>1. backs' # backs
      BY <2>3
    <3>2. ~ NewDatum /\ ~ AddVal /\ ~ CallFlush /\ ~ SetDumpCount /\ ~ InjectSimId
      BY <3>1 DEF NewDatum, AddVal, CallFlush, SetDumpCount, InjectSimId, Undefined
    <3>3. ~ Record
      BY <3>1 DEF Record, Undefined, AddDatum, NotifyBackends
    <3>4. ~ RegisterBackend
      BY <2>4 DEF RegisterBackend
    <3> QED
      BY <1>1, <3>1, <3>2, <3>3, <3>4 DEF Next, vars
  <2>7. PICK k \in Outcomes : Flush(k) /\ backs' = IF k = Len(backs) THEN << >> ELSE backs
    BY <2>5, <2>6 DEF Close
  <2>8. k = Len(backs) /\ open = {}
    <3>1. k = Len(backs)
      BY <2>3, <2>7
    <3>2. open = {}
      BY <2>6 DEF Close, MayCall, Disciplined
    <3> QED
      BY <3>1, <3>2
  <2>9. CASE index = 0
    <3>1. received' = received /\ rows - index = rows
      BY <2>1, <2>7, <2>9 DEF Flush
    <3>2. (since[b] + 1)..(rows - index) \subseteq Titles(b)
      BY <1>1, <2>1, <2>2 DEF RecorderInv, NothingLost
    <3> QED
      BY <3>1, <3>2 DEF Titles
  <2>10. CASE index # 0
    <3>1. Notify(SubSeq(data, 1, index), k) /\ GiveUp(Backends \ Reached(k))
      BY <2>7, <2>10 DEF Flush
    <3>2. b \in Reached(k)
      BY <2>1, <2>2, <2>8 DEF Reached, Position
    <3> QED
      BY <1>1, <2>8, <2>10, <3>1, <3>2, FlushedBuffer, DeliveredComplete
  <2> QED
    BY <2>9, <2>10
<1> QED
  BY <1>1, Invariance, PTL DEF Spec, CloseDelivers
=============================================================================
