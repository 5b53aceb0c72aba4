------------------------------- MODULE ResBuf -------------------------------
(***************************************************************************)
(* toolkit::ResBuf, the buffer in which facilities keep resources: its     *)
(* operations as functions of the buffer.  A resource is an object and its *)
(* quantity.  A buffer keeps its resources in order (rs_) and, beside them,*)
(* the set of the objects (rs_present_) and the total quantity (qty_).     *)
(* Quantities are naturals, so the tolerance eps_rsrc() is zero.           *)
(***************************************************************************)
EXTENDS Integers, Sequences, SequencesExt

Total(rs) == FoldLeft(LAMBDA sum, r : sum + r.qty, 0, rs)

Objs(rs) == {rs[i].obj : i \in DOMAIN rs}

NewBuf(cap) == [cap |-> cap, qty |-> 0, rs |-> << >>, present |-> {}]

space(b) == IF b.cap > b.qty THEN b.cap - b.qty ELSE 0

\* With no resource or one, the total is taken anew.
UpdateQty(b) ==
    [b EXCEPT !.qty = IF b.rs = << >> THEN 0
                      ELSE IF Len(b.rs) = 1 THEN b.rs[1].qty ELSE @]

\* Push throws for want of space, and for an object that is there.
CanPush(b, r) == r.qty <= space(b) /\ r.obj \notin b.present

Push(b, r) ==
    UpdateQty([b EXCEPT !.rs = Append(@, r), !.present = @ \cup {r.obj}, !.qty = @ + r.qty])

(* toolkit::ResourceBuff, the inventory of Sink and KFacility, has the same *)
(* guards; after a push it adds up all its resources again.                 *)
BuffUpdateQty(b) == [b EXCEPT !.qty = Total(b.rs)]

BuffPush(b, r) == BuffUpdateQty([b EXCEPT !.rs = Append(@, r), !.present = @ \cup {r.obj}])

\* Push of several: all or none; an object that is among them twice passes.
CanPushAll(b, rs) == Total(rs) <= space(b) /\ Objs(rs) \cap b.present = {}

PushAll(b, rs) ==
    [b EXCEPT !.rs = @ \o rs, !.present = @ \cup Objs(rs), !.qty = @ + Total(rs)]

\* Mutant: the objects are still said to be there.
PopNForgets(b, n) ==
    UpdateQty([b EXCEPT !.rs = SubSeq(@, n + 1, Len(@)),
                        !.qty = @ - Total(SubSeq(b.rs, 1, n))])

\* What PopN leaves; Pop, of the front, is PopN of one.  They throw when
\* there are not as many.
PopN(b, n) ==
    LET out == SubSeq(b.rs, 1, n)
    IN  UpdateQty([b EXCEPT !.rs = SubSeq(@, n + 1, Len(@)),
                            !.present = @ \ Objs(out), !.qty = @ - Total(out)])

PopBack(b) ==
    LET r == Last(b.rs)
    IN  UpdateQty([b EXCEPT !.rs = Front(@), !.present = @ \ {r.obj}, !.qty = @ - r.qty])

\* How many of the first resources Pop(qty) takes out whole.
Whole(b, qty) ==
    CHOOSE n \in 0..Len(b.rs) :
       LET sum(k) == Total(SubSeq(b.rs, 1, k))
       IN  /\ sum(n) <= qty
           /\ n = Len(b.rs) \/ sum(n) = qty \/ sum(n + 1) > qty
           /\ \A k \in 0..(n - 1) : sum(k) < qty

\* Mutant: the resource that is split stays as it was.
PopQtyKeeps(b, qty, new) ==
    LET n    == Whole(b, qty)
        out  == SubSeq(b.rs, 1, n)
        left == qty - Total(out)
        b1   == PopN(b, n)
    IN  IF left = 0 THEN <<b1, out>>
        ELSE <<UpdateQty([b1 EXCEPT !.qty = @ - left]),
               Append(out, [obj |-> new, qty |-> left])>>

(***************************************************************************)
(* Pop(qty), of no more than there is: the buffer it leaves, and what it   *)
(* takes out.  The last resource is split, its piece being the new object. *)
(***************************************************************************)
PopQty(b, qty, new) ==
    LET n    == Whole(b, qty)
        out  == SubSeq(b.rs, 1, n)
        left == qty - Total(out)
        b1   == PopN(b, n)
    IN  IF left = 0 \/ b1.rs = << >> THEN <<b1, out>>
        ELSE <<UpdateQty([b1 EXCEPT !.rs[1].qty = @ - left, !.qty = @ - left]),
               Append(out, [obj |-> new, qty |-> left])>>

\* Pop(qty, eps): all there is when that is not more.
PopUpTo(b, qty, new) ==
    IF qty >= b.qty THEN <<PopN(b, Len(b.rs)), b.rs>> ELSE PopQty(b, qty, new)

\* Squash: the first resource absorbs the others; there must be one.
Squash(rs) == [obj |-> rs[1].obj, qty |-> Total(rs)]

\* The books of a buffer agree with what is in it, and it is within its limit.
Kept(b) ==
    /\ b.qty = Total(b.rs) /\ b.qty <= b.cap
    /\ b.present = Objs(b.rs)
    /\ \A i, j \in DOMAIN b.rs : b.rs[i].obj = b.rs[j].obj => i = j
=============================================================================
