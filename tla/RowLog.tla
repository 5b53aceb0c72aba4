------------------------------- MODULE RowLog -------------------------------
(***************************************************************************)
(* What a back end promises the recorder.  Rows are numbered in the order  *)
(* in which they are handed to it.  A call of Notify hands over the next   *)
(* few; it either stores them all and returns, or stores none and raises,  *)
(* or raises at a row that it refuses, having stored the ones before it.   *)
(* What is stored stays stored, and nothing else ever is.                  *)
(***************************************************************************)
EXTENDS Integers

CONSTANT MaxBatch  \* rows handed over in one call

VARIABLES handed,  \* number of rows handed over
          stored,  \* the rows a reader of the database finds
          acked,   \* the rows whose Notify returned normally
          refused  \* the rows that may be refused

Init == handed = 0 /\ stored = {} /\ acked = {} /\ refused = {}

Store(n) ==
    /\ handed' = handed + n
    /\ stored' = stored \cup (handed + 1)..(handed + n)
    /\ acked' = acked \cup (handed + 1)..(handed + n)

\* The call raises, or the program ends in it, after k of its n rows.
Fail(n, k) ==
    /\ k = 0 \/ handed + k + 1 \in refused
    /\ handed' = handed + n
    /\ stored' = stored \cup (handed + 1)..(handed + k)
    /\ UNCHANGED acked

Next ==
    /\ refused \subseteq refused'
    /\ \/ \E n \in 1..MaxBatch : Store(n) \/ \E k \in 0..(n - 1) : Fail(n, k)
       \/ UNCHANGED <<handed, stored, acked>>

Spec == Init /\ [][Next]_<<handed, stored, acked, refused>>
=============================================================================
