------------------------------ MODULE Recorder ------------------------------
(***************************************************************************)
(* Recorder and Datum: the buffer between the simulation and its output    *)
(* back ends.  The recorder owns dump_count_ Datum objects and hands them  *)
(* out in turn; the caller fills the one it was given (AddVal) and then    *)
(* calls Record.  A Datum is a slot that is overwritten when it is handed  *)
(* out again, so a row is whatever its slot holds when it is delivered.    *)
(*                                                                         *)
(* Rows are numbered in the order of the NewDatum calls; row numbers stand *)
(* for the title and the values of a row, which nothing here reads.        *)
(***************************************************************************)
EXTENDS Integers, Sequences, FiniteSets

CONSTANTS
    Backends,    \* the RecBackend objects
    Counts,      \* dump counts used
    Interleaved, \* programs call the recorder while they fill a Datum
    MaxOpen,     \* bound: Datum objects filled at a time
    MaxRows,     \* bound: number of NewDatum calls
    MaxConfig,   \* bound: number of set_dump_count and inject_sim_id calls
    AnyTime,     \* set_dump_count is called while data is buffered
    MayFail      \* back ends throw

ASSUME RecorderAssumption ==
    /\ Counts \subseteq Nat /\ Counts # {}
    /\ MaxOpen \in Nat \ {0} /\ MaxRows \in Nat /\ MaxConfig \in Nat
    /\ AnyTime \in BOOLEAN /\ MayFail \in BOOLEAN /\ Interleaved \in BOOLEAN

VARIABLES
    data,      \* Recorder::data_: the slots
    index,     \* Recorder::index_
    backs,     \* Recorder::backs_, in the order of registration
    open,      \* Datum pointers held by callers: <<row, slot>> (slot 0: deleted)
    rows,      \* history: number of NewDatum calls
    received,  \* back end -> the data passed to its Notify, in order
    durable,   \* back end -> how much of it its Flush was called for
    since,     \* history: back end -> rows it is not owed (delivered or deleted before)
    config,    \* number of set_dump_count and inject_sim_id calls
    error      \* "none", or the undefined behaviour reached

vars == <<data, index, backs, open, rows, received, durable, since, config, error>>

\* title: the row the slot was handed out for (0: never);
\* vals: the rows whose values were added to it since.
Slot  == [title : 0..MaxRows, vals : SUBSET (1..MaxRows)]
Blank == [title |-> 0, vals |-> {}]
Fresh(n) == [k \in 1..n |-> Blank]

Init ==
    /\ \E n \in Counts : data = Fresh(n)
    /\ index = 0 /\ backs = << >> /\ open = {} /\ rows = 0
    /\ received = [b \in Backends |-> << >>] /\ durable = [b \in Backends |-> 0]
    /\ since = [b \in Backends |-> 0]
    /\ config = 0 /\ error = "none"

Undefined(what) ==
    /\ error' = what
    /\ UNCHANGED <<data, index, backs, open, rows, received, durable, since, config>>

Running == error = "none"
MayCall == Running /\ (open = {} \/ Interleaved)

(***************************************************************************)
(* NewDatum hands out the next slot with its values cleared; nothing       *)
(* checks that there is one.                                               *)
(***************************************************************************)
NewDatum ==
    /\ MayCall /\ rows < MaxRows /\ Cardinality(open) < MaxOpen
    /\ IF index >= Len(data) THEN Undefined("out of range")
       ELSE /\ data' = [data EXCEPT ![index + 1] = [title |-> rows + 1, vals |-> {}]]
            /\ open' = open \cup {<<rows + 1, index + 1>>}
            /\ index' = index + 1
            /\ rows' = rows + 1
            /\ UNCHANGED <<backs, received, durable, since, config, error>>

\* The caller's chain of AddVal calls on the Datum it was given.
AddVal ==
    /\ Running
    /\ \E d \in open :
         IF d[2] = 0 THEN Undefined("dangling datum")
         ELSE /\ d[1] \notin data[d[2]].vals
              /\ data' = [data EXCEPT ![d[2]].vals = @ \cup {d[1]}]
              /\ UNCHANGED <<index, backs, open, rows, received, durable, since, config,
                             error>>

(***************************************************************************)
(* Delivery of list to the registered back ends in turn.  Back end k + 1   *)
(* throws, k = Len(backs) if none does: the ones after it are not called.  *)
(***************************************************************************)
Position(b) == {k \in 1..Len(backs) : backs[k] = b}
Reached(k)  == {b \in Backends : \E j \in Position(b) : j <= k}
Outcomes    == IF MayFail THEN 0..Len(backs) ELSE {Len(backs)}

Notify(list, k) ==
    received' = [b \in Backends |->
                   IF b \in Reached(k) THEN received[b] \o list ELSE received[b]]

\* Rows the back ends of S are owed no more: their delivery failed.
GiveUp(S) == since' = [b \in Backends |-> IF b \in S THEN rows ELSE since[b]]

\* Mutant: the row whose Record filled the buffer is left out.
NotifyBackendsShort(k) ==
    /\ index' = 0
    /\ Notify(SubSeq(data, 1, index - 1), k)
    /\ GiveUp(Backends \ Reached(k))
    /\ UNCHANGED <<backs, durable>>

NotifyBackends(k) ==
    /\ index' = 0
    /\ Notify(data, k)
    /\ GiveUp(Backends \ Reached(k))
    /\ UNCHANGED <<backs, durable>>

\* Mutant: the full buffer is not noticed.
AddDatumLate(k) ==
    IF index > Len(data) THEN NotifyBackends(k)
    ELSE k = Len(backs) /\ UNCHANGED <<index, backs, received, durable, since>>

\* Recorder::AddDatum
AddDatum(k) ==
    IF index >= Len(data) THEN NotifyBackends(k)
    ELSE k = Len(backs) /\ UNCHANGED <<index, backs, received, durable, since>>

\* Datum::Record: the recorder counts data, not which one was completed.
Record ==
    /\ Running
    /\ \E d \in open, k \in Outcomes :
         IF d[2] = 0 THEN Undefined("dangling datum")
         ELSE /\ d[1] \in data[d[2]].vals
              /\ AddDatum(k)
              /\ open' = open \ {d}
              /\ UNCHANGED <<data, rows, config, error>>

\* Mutant: what is delivered stays in the buffer.
FlushKeepsData(k) ==
    IF index = 0 THEN k = Len(backs) /\ UNCHANGED <<index, received, durable, since>>
    ELSE /\ index' = index
         /\ Notify(SubSeq(data, 1, index), k)
         /\ durable' = [b \in Backends |->
                          IF b \in Reached(k) THEN Len(received[b]) + index ELSE durable[b]]
         /\ GiveUp(Backends \ Reached(k))

(***************************************************************************)
(* Flush passes the slots handed out to every back end and flushes it.     *)
(* tmp.resize(index_) pads with null pointers when there are fewer slots.  *)
(***************************************************************************)
Flush(k) ==
    IF index = 0 THEN k = Len(backs) /\ UNCHANGED <<index, received, durable, since>>
    ELSE /\ index' = 0
         /\ Notify(SubSeq(data, 1, index), k)
         /\ durable' = [b \in Backends |->
                          IF b \in Reached(k) THEN Len(received[b]) + index ELSE durable[b]]
         /\ GiveUp(Backends \ Reached(k))

FlushUndefined == index > Len(data) /\ backs # << >>

CallFlush ==
    /\ MayCall
    /\ IF FlushUndefined THEN Undefined("null datum")
       ELSE \E k \in Outcomes :
              /\ Flush(k)
              /\ UNCHANGED <<data, backs, open, rows, config, error>>

\* Mutant: the back ends are unregistered without a flush.
CloseNoFlush ==
    /\ MayCall
    /\ IF FlushUndefined THEN Undefined("null datum")
       ELSE /\ backs' = << >>
            /\ index' = 0
            /\ UNCHANGED <<data, open, rows, received, durable, since, config, error>>

\* Close: an exception of Flush leaves the back ends registered.
Close ==
    /\ MayCall
    /\ IF FlushUndefined THEN Undefined("null datum")
       ELSE \E k \in Outcomes :
              /\ Flush(k)
              /\ backs' = IF k = Len(backs) THEN << >> ELSE backs
              /\ UNCHANGED <<data, open, rows, config, error>>

\* A back end is owed what is buffered when it is registered and all later rows.
RegisterBackend ==
    /\ MayCall
    /\ \E b \in Backends :
         /\ Position(b) = {}
         /\ backs' = Append(backs, b)
         /\ since' = [since EXCEPT ![b] = rows - index]
    /\ UNCHANGED <<data, index, open, rows, received, durable, config, error>>

\* Deleting the slots leaves the callers' pointers dangling.
Dangle == open' = {<<d[1], 0>> : d \in open}

(***************************************************************************)
(* set_dump_count deletes every slot and leaves index_ alone; inject_sim_id*)
(* calls Flush before it.                                                  *)
(***************************************************************************)
SetDumpCount ==
    /\ MayCall /\ config < MaxConfig
    /\ AnyTime \/ index = 0
    /\ \E n \in Counts : data' = Fresh(n)
    /\ since' = [b \in Backends |-> rows]
    /\ config' = config + 1
    /\ Dangle
    /\ UNCHANGED <<index, backs, rows, received, durable, error>>

InjectSimId ==
    /\ MayCall /\ config < MaxConfig
    /\ IF FlushUndefined THEN Undefined("null datum")
       ELSE \E k \in Outcomes :
              /\ Flush(k)
              /\ IF k = Len(backs) THEN data' = Fresh(Len(data)) /\ Dangle
                 ELSE UNCHANGED <<data, open>>
              /\ config' = config + 1
              /\ UNCHANGED <<backs, rows, error>>

Next == \/ NewDatum \/ AddVal \/ Record \/ CallFlush \/ Close
        \/ RegisterBackend \/ SetDumpCount \/ InjectSimId

Spec == Init /\ [][Next]_vars
-----------------------------------------------------------------------------
\* The recorder's fields and its callers' pointers keep their types.
TypeOK ==
    /\ data \in Seq(Slot) /\ index \in 0..MaxRows /\ backs \in Seq(Backends)
    /\ open \subseteq (1..MaxRows) \X (0..MaxRows) /\ rows \in 0..MaxRows
    /\ received \in [Backends -> Seq(Slot)] /\ durable \in [Backends -> Nat]
    /\ since \in [Backends -> 0..MaxRows]
    /\ \A b \in Backends : durable[b] <= Len(received[b])
    /\ config \in 0..MaxConfig

Titles(b) == {received[b][k].title : k \in DOMAIN received[b]}

(***************************************************************************)
(* A program that finishes one Datum before it asks for the next makes     *)
(* NewDatum or Flush run off the slots in one case only: its dump count is *)
(* 0 and it calls NewDatum.  recorder.h:72-73 allows that count ("If count *)
(* == 0 then Datum objects will be flushed immediately as they come"); the *)
(* code reads data_[0] of an empty vector.                                 *)
(***************************************************************************)
OnlyZeroUndefined == error = "none" \/ (error = "out of range" /\ data = << >>)

(***************************************************************************)
(* A row reaches a back end with its own values and no others, although    *)
(* its slot was used by other rows before.                                 *)
(***************************************************************************)
IntactRows ==
    \A b \in Backends : \A k \in DOMAIN received[b] :
        received[b][k].vals = {received[b][k].title}

(***************************************************************************)
(* Rows reach a back end in the order of NewDatum and at most once, also   *)
(* when back ends throw and the recorder goes on.                          *)
(***************************************************************************)
InOrderOnce ==
    \A b \in Backends : \A j, k \in DOMAIN received[b] :
        j < k => received[b][j].title < received[b][k].title

(***************************************************************************)
(* Rows reach back ends intact, in order and once (Recorder::NewDatum,     *)
(* AddDatum and NotifyBackends).                                           *)
(***************************************************************************)
DeliveredIntact == IntactRows /\ InOrderOnce

(***************************************************************************)
(* Every row a registered back end is owed was delivered to it or is still *)
(* buffered.                                                               *)
(***************************************************************************)
NothingLost ==
    \A k \in DOMAIN backs :
        (since[backs[k]] + 1)..(rows - index) \subseteq Titles(backs[k])

(***************************************************************************)
(* Close leaves nothing behind: the back ends it unregisters have received *)
(* every row they are owed.                                                *)
(***************************************************************************)
CloseDelivers ==
    [][\A b \in Backends : Position(b) # {} /\ backs' = << >>
           => (since[b] + 1)..rows \subseteq Titles(b)']_vars
-----------------------------------------------------------------------------
\* Callers finish one Datum before they ask for the next, and the dump count is
\* set on an empty buffer.
Disciplined == ~ Interleaved /\ ~ AnyTime

(***************************************************************************)
(* What holds of any program besides the types: a pointer a caller holds   *)
(* is null or to a slot there is.                                          *)
(***************************************************************************)
PointersToSlots ==
    /\ index <= rows
    /\ \A d \in open : d[2] <= Len(data)

(***************************************************************************)
(* The buffer of a disciplined program: the slots up to index hold the     *)
(* last rows in order, complete but for the one being filled, and one more *)
(* slot is free whenever none is being filled, if there are slots at all.  *)
(***************************************************************************)
BufferInv ==
    /\ index <= Len(data)
    /\ open = {} /\ data # << >> => index < Len(data)
    /\ open # {} => index >= 1 /\ open = {<<rows, index>>}
    /\ \A k \in 1..index :
          /\ data[k].title = (rows - index) + k
          /\ data[k].vals = {data[k].title}
                \/ (k = index /\ open # {} /\ data[k].vals = {})

\* Back ends have seen no row that is still in the buffer.
SeenBefore ==
    \A b \in Backends : \A k \in DOMAIN received[b] : received[b][k].title <= rows - index

RecorderInv == /\ TypeOK /\ PointersToSlots /\ OnlyZeroUndefined /\ BufferInv
               /\ SeenBefore /\ DeliveredIntact /\ NothingLost
=============================================================================
