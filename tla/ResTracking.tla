---------------------------- MODULE ResTracking ----------------------------
(***************************************************************************)
(* Resource, ResTracker, Material and Product: the resource objects agents *)
(* create, split, combine, transmute, decay and copy, and the rows these   *)
(* operations leave in the Resources and MaterialInfo tables.              *)
(*                                                                         *)
(* A composition is abstracted to the set of times its radioactive parts   *)
(* are accurate for: {} is a composition that does not decay noticeably,   *)
(* {t} one that is right for time t, a union the mixture of two.  Decaying *)
(* by dt adds dt to each.  Quantities are small naturals.                  *)
(***************************************************************************)
EXTENDS Integers, Sequences, FiniteSets, FiniteSetsExt

CONSTANTS
    Kinds,      \* the resource types used, of "Material" and "Product"
    Qualities,  \* the qualities of products
    Programs,   \* what the agents may do, and the bounds on it
    MaxQty,     \* bound: quantity of a created resource
    MaxObjs     \* bound: number of resource objects

(***************************************************************************)
(* A program has decay, SimInfo::decay; stable, whether it uses            *)
(* compositions that do not decay; copies, whether it makes, splits and    *)
(* combines clones and untracked resources; and the bounds rows, on the    *)
(* Resources table, and time, the last time step.                          *)
(***************************************************************************)
ASSUME ResTrackingAssumption ==
    /\ Kinds \subseteq {"Material", "Product"} /\ MaxQty \in Nat /\ MaxObjs \in Nat
    /\ \A p \in Programs :
         /\ p.decay \in {"never", "manual", "lazy"} /\ {p.stable, p.copies} \subseteq BOOLEAN
         /\ {p.rows, p.time} \subseteq Nat

VARIABLES
    prog,      \* the program
    objs,      \* the resource objects, in the order of their construction
    rows,      \* the Resources table joined with MaterialInfo
    nextState, \* Resource::nextstate_id_
    nextObj,   \* Resource::nextobj_id_
    qualids,   \* Product::qualids_ (Absent: no entry)
    products,  \* the Products table: <<QualId, Quality>>
    now,       \* Context::time
    created,   \* history: the quantity created by tracked Create calls
    error      \* "none", or the undefined behaviour reached

vars == <<prog, objs, rows, nextState, nextObj, qualids, products, now, created, error>>

DecayMode == prog.decay
Stable    == prog.stable
Copies    == prog.copies
MaxRows   == prog.rows
MaxTime   == prog.time

Absent == -1

(***************************************************************************)
(* Of an object: qual is its composition or its quality, ctx whether it    *)
(* has a context, res the object its tracker follows.  History: real is    *)
(* FALSE for copies, untracked resources and what is extracted from them,  *)
(* merged tells that the object was absorbed since its last row.           *)
(***************************************************************************)
Comp == SUBSET Int
Object ==
    [kind : Kinds, obj : Nat, state : Nat, qty : Nat, qual : Comp \cup Qualities,
     prev : Nat, tracked : BOOLEAN, ctx : BOOLEAN, res : Nat, real : BOOLEAN,
     merged : BOOLEAN]

Row == [id : Nat, obj : Nat, qty : Nat, qual : Comp \cup Int, prev : Nat,
        p1 : Nat, p2 : Nat]

Init ==
    /\ prog \in Programs
    /\ objs = << >> /\ rows = << >>
    /\ nextState = 1 /\ nextObj = 1
    /\ qualids = [q \in Qualities |-> Absent] /\ products = {}
    /\ now = 0 /\ created = 0 /\ error = "none"

(***************************************************************************)
(* The operations below are steps of one call, on the part of the state    *)
(* they change: w.next is Resource::nextstate_id_, w.ids Product::qualids_.*)
(***************************************************************************)
World == [objs |-> objs, rows |-> rows, next |-> nextState, ids |-> qualids,
          products |-> products, error |-> error]

\* Product::qual_id reads qualids_[quality_], which inserts 0 when there is none.
QualId(ids, o) ==
    IF o.kind = "Material" THEN o.qual
    ELSE IF ids[o.qual] = Absent THEN 0 ELSE ids[o.qual]

\* Mutant: nextstate_id_ is read and not counted up, so that the next state of any
\* resource gets the same id.
RecordNoBump(w, i, p1, p2) ==
    LET r == w.objs[i].res
        o == w.objs[r]
    IN  IF ~ w.objs[i].ctx THEN [w EXCEPT !.error = "null context"]
        ELSE [w EXCEPT
                !.objs[r].state = w.next, !.objs[r].merged = FALSE,
                !.rows = Append(@, [id |-> w.next, obj |-> o.obj, qty |-> o.qty,
                                    qual |-> QualId(w.ids, o), prev |-> o.prev,
                                    p1 |-> p1, p2 |-> p2])]

(***************************************************************************)
(* ResTracker::Record: the resource the tracker of object i follows gets a *)
(* new state id and its rows are written; a tracked product without a      *)
(* context dereferences a null pointer.                                    *)
(***************************************************************************)
Record(w, i, p1, p2) ==
    LET r == w.objs[i].res
        o == w.objs[r]
    IN  IF ~ w.objs[i].ctx THEN [w EXCEPT !.error = "null context"]
        ELSE [w EXCEPT
                !.objs[r].state = w.next, !.objs[r].merged = FALSE, !.next = @ + 1,
                !.rows = Append(@, [id |-> w.next, obj |-> o.obj, qty |-> o.qty,
                                    qual |-> QualId(w.ids, o), prev |-> o.prev,
                                    p1 |-> p1, p2 |-> p2])]

\* Mutant: the new state replaces the old one instead of descending from it.
ModifyNoParent(w, i) ==
    IF ~ w.objs[i].tracked THEN w ELSE Record(w, i, 0, 0)

Modify(w, i) ==
    IF ~ w.objs[i].tracked THEN w ELSE Record(w, i, w.objs[w.objs[i].res].state, 0)

\* Mutant: the removed piece descends from its own first state.
TrackExtractOwnParent(w, i, j) ==
    IF ~ w.objs[i].tracked THEN w
    ELSE Record(Record(w, i, w.objs[w.objs[i].res].state, 0), j, w.objs[j].state, 0)

\* ResTracker::Extract, called for object i, from which object j was removed.
TrackExtract(w, i, j) ==
    IF ~ w.objs[i].tracked THEN w
    ELSE LET p == w.objs[w.objs[i].res].state
         IN  Record(Record([w EXCEPT !.objs[j].tracked = TRUE], i, p, 0), j, p, 0)

\* ResTracker::Absorb
TrackAbsorb(w, i, j) ==
    IF ~ w.objs[i].tracked THEN w
    ELSE Record(w, i, w.objs[w.objs[i].res].state, w.objs[w.objs[j].res].state)

\* Material::Transmute: the rows are written before prev_decay_time_ is updated.
Transmute(w, i, c) ==
    LET w1 == Modify([w EXCEPT !.objs[i].qual = c], i)
    IN  IF w1.objs[i].ctx /\ now > w1.objs[i].prev
        THEN [w1 EXCEPT !.objs[i].prev = now] ELSE w1

Aged(c, dt) == {t + dt : t \in c}

\* Mutant: prev_decay_time_ is left to Transmute, whose time step has not changed.
DecayKeepsTime(w, i) ==
    IF w.objs[i].ctx /\ DecayMode = "never" THEN w
    ELSE LET o == w.objs[i]
         IN  IF o.prev = now \/ o.qual = {} THEN w
             ELSE Modify([w EXCEPT !.objs[i].qual = Aged(@, now - o.prev)], i)

(***************************************************************************)
(* Material::Decay up to the current time.  A composition none of whose    *)
(* nuclides changes noticeably leaves the material, its decay time         *)
(* included, as it is.                                                     *)
(***************************************************************************)
Decay(w, i) ==
    IF w.objs[i].ctx /\ DecayMode = "never" THEN w
    ELSE LET o == w.objs[i]
         IN  IF o.prev = now \/ o.qual = {} THEN w
             ELSE Transmute([w EXCEPT !.objs[i].prev = now], i, Aged(o.qual, now - o.prev))

\* Material::comp
Observe(w, i) == IF w.objs[i].ctx /\ DecayMode = "lazy" THEN Decay(w, i) ELSE w

\* Material::Absorb: the mixture has the decay time of the larger material.
Mix(w, i, j) ==
    [w EXCEPT !.objs[i].qual = @ \cup w.objs[j].qual,
              !.objs[i].prev = IF w.objs[i].qty < w.objs[j].qty THEN w.objs[j].prev ELSE @]

Pour(w, i, j) ==
    [w EXCEPT !.objs[i].qty = @ + w.objs[j].qty, !.objs[j].qty = 0,
              !.objs[j].merged = TRUE]
-----------------------------------------------------------------------------
(***************************************************************************)
(* The calls of the agents.                                                *)
(***************************************************************************)
Running == error = "none"
Room(k) == Len(objs) < MaxObjs /\ Len(rows) + k <= MaxRows
Become(w) ==
    /\ objs' = w.objs /\ rows' = w.rows /\ nextState' = w.next
    /\ qualids' = w.ids /\ products' = w.products /\ error' = w.error

Materials == {i \in DOMAIN objs : objs[i].kind = "Material"}
NewComps  == IF Stable THEN {{}, {now}} ELSE {{now}}

\* The constructors; a material without a context is not tracked, a product is.
New(w, kind, qty, qual, ctx, real) ==
    LET n == Len(w.objs) + 1
    IN  [w EXCEPT !.next = @ + 1,
            !.objs = Append(@, [kind |-> kind, obj |-> nextObj, state |-> w.next,
                qty |-> qty, qual |-> qual,
                prev |-> IF kind = "Material" /\ ctx THEN now ELSE 0,
                tracked |-> ctx \/ kind = "Product", ctx |-> ctx, res |-> n,
                real |-> real, merged |-> FALSE])]

\* Material::Create with ResTracker::Create
CreateMaterial ==
    /\ Running /\ "Material" \in Kinds /\ Room(1)
    /\ \E q \in 1..MaxQty, c \in NewComps :
         /\ Become(Record(New(World, "Material", q, c, TRUE, TRUE), Len(objs) + 1, 0, 0))
         /\ created' = created + q
    /\ nextObj' = nextObj + 1
    /\ UNCHANGED <<prog, now>>

\* Mutant: next_qualid_ is not counted up.
ProductIdReused(w, q) ==
    IF w.ids[q] # Absent THEN w
    ELSE [w EXCEPT !.ids[q] = 1, !.products = @ \cup {<<1, q>>}]

\* Product::Create: next_qualid_ is one more than the number of ids given.
ProductId(w, q) ==
    IF w.ids[q] # Absent THEN w
    ELSE LET n == Cardinality({p \in Qualities : w.ids[p] > 0}) + 1
         IN  [w EXCEPT !.ids[q] = n, !.products = @ \cup {<<n, q>>}]

CreateProduct ==
    /\ Running /\ "Product" \in Kinds /\ Room(1)
    /\ \E n \in 1..MaxQty, q \in Qualities :
         /\ LET w == New(ProductId(World, q), "Product", n, q, TRUE, TRUE)
            IN  Become(Record(w, Len(objs) + 1, 0, 0))
         /\ created' = created + n
    /\ nextObj' = nextObj + 1
    /\ UNCHANGED <<prog, now>>

CreateUntracked ==
    /\ Running /\ Room(0) /\ Copies
    /\ \E kind \in Kinds, n \in 1..MaxQty :
         \E q \in IF kind = "Material" THEN NewComps ELSE Qualities :
            LET w == New(World, kind, n, q, FALSE, FALSE)
            IN  Become([w EXCEPT !.objs[Len(objs) + 1].tracked = FALSE])
    /\ nextObj' = nextObj + 1
    /\ UNCHANGED <<prog, now, created>>

\* The copy constructor copies the ids and the tracker's pointer.
Clone ==
    /\ Running /\ Room(0) /\ Copies
    /\ \E i \in DOMAIN objs :
         objs' = Append(objs, [objs[i] EXCEPT !.tracked = FALSE, !.real = FALSE])
    /\ UNCHANGED <<prog, rows, nextState, nextObj, qualids, products, now, created, error>>

\* Whether there is as much as is to be extracted.
Enough(i, q) == q <= objs[i].qty

(***************************************************************************)
(* Material::ExtractComp and Product::Extract of no more than there is     *)
(* (more is a ValueError that changes nothing).  c is the composition of   *)
(* the piece, rest what compmath::Sub leaves of the remainder's.           *)
(***************************************************************************)
Extract ==
    /\ Running /\ Room(2)
    /\ \E i \in DOMAIN objs, q \in 0..(MaxQty * MaxObjs) :
         /\ Enough(i, q)
         /\ \E c, rest \in IF Stable /\ i \in Materials THEN SUBSET objs[i].qual
                           ELSE {objs[i].qual} :
              /\ IF c = objs[i].qual THEN rest = c
                 ELSE objs[i].qual \ c \subseteq rest
              /\ LET j  == Len(objs) + 1
                     w  == [World EXCEPT !.objs[i].qty = @ - q, !.objs[i].qual = rest]
                     w1 == New(w, objs[i].kind, q, c, objs[i].ctx, objs[i].real)
                 IN  Become(TrackExtract([w1 EXCEPT !.objs[j].prev = objs[i].prev], i, j))
    /\ nextObj' = nextObj + 1
    /\ UNCHANGED <<prog, now, created>>

\* Absorb; products of different qualities are refused with a ValueError.
\* That callers do not absorb a resource into itself is their discipline.
AbsorbMaterial ==
    /\ Running /\ Len(rows) + 3 <= MaxRows
    /\ \E i, j \in Materials :
         /\ i # j
         /\ LET w == Observe(Observe(World, i), j)
            IN  Become(TrackAbsorb(Pour(Mix(w, i, j), i, j), i, j))
    /\ UNCHANGED <<prog, nextObj, now, created>>

AbsorbProduct ==
    /\ Running /\ Len(rows) + 1 <= MaxRows
    /\ \E i, j \in DOMAIN objs \ Materials :
         /\ i # j /\ objs[i].qual = objs[j].qual
         /\ Become(TrackAbsorb(Pour(World, i, j), i, j))
    /\ UNCHANGED <<prog, nextObj, now, created>>

\* An agent gives a material a composition that is right for now.
CallTransmute ==
    /\ Running /\ Len(rows) + 1 <= MaxRows
    /\ \E i \in Materials, c \in NewComps : Become(Transmute(World, i, c))
    /\ UNCHANGED <<prog, nextObj, now, created>>

CallDecay ==
    /\ Running /\ Len(rows) + 1 <= MaxRows
    /\ \E i \in Materials : Decay(World, i) # World /\ Become(Decay(World, i))
    /\ UNCHANGED <<prog, nextObj, now, created>>

\* An agent reads the quality id of a product.
CallQualId ==
    /\ Running
    /\ \E i \in DOMAIN objs \ Materials :
         /\ qualids[objs[i].qual] = Absent
         /\ qualids' = [qualids EXCEPT ![objs[i].qual] = QualId(qualids, objs[i])]
    /\ UNCHANGED <<prog, objs, rows, nextState, nextObj, products, now, created, error>>

\* External: the timer moves on.
Tick ==
    /\ Running /\ now < MaxTime
    /\ now' = now + 1
    /\ UNCHANGED <<prog, objs, rows, nextState, nextObj, qualids, products, created, error>>

Next ==
    \/ CreateMaterial \/ CreateProduct \/ CreateUntracked \/ Clone \/ Extract
    \/ AbsorbMaterial \/ AbsorbProduct \/ CallTransmute \/ CallDecay \/ CallQualId \/ Tick

Spec == Init /\ [][Next]_vars
-----------------------------------------------------------------------------
\* Objects and rows keep their types.
TypeOK ==
    /\ DOMAIN objs = 1..Len(objs) /\ DOMAIN rows = 1..Len(rows)
    /\ \A i \in DOMAIN objs :
         /\ objs[i].kind \in Kinds /\ objs[i].qty \in Nat
         /\ objs[i].obj \in 1..(nextObj - 1) /\ objs[i].state \in 1..(nextState - 1)
         /\ objs[i].prev \in 0..now /\ objs[i].res \in DOMAIN objs
    /\ \A k \in DOMAIN rows :
         rows[k].id \in 1..(nextState - 1) /\ rows[k].qty \in Nat

Parents(k) == {rows[k].p1, rows[k].p2} \ {0}

(***************************************************************************)
(* The Resources table is a well-founded history, unless programs use      *)
(* copies: every state of a resource descends from states recorded before  *)
(* it.                                                                     *)
(***************************************************************************)
Provenance ==
    ~ Copies => \A k \in DOMAIN rows : \A p \in Parents(k) : \E j \in 1..(k - 1) : rows[j].id = p

(***************************************************************************)
(* Whatever programs do with copies, a resource id is recorded once and    *)
(* later states have larger ids; an object id is never given out again, so *)
(* that only copies of one object (whose trackers follow one object) share *)
(* it, and only they ever share a state id: both ids are unique across     *)
(* resource types (Resource::nextstate_id_ and nextobj_id_).               *)
(***************************************************************************)
IdsUnique ==
    /\ \A j, k \in DOMAIN rows : j < k => rows[j].id < rows[k].id
    /\ \A i, j \in DOMAIN objs : objs[i].state = objs[j].state => objs[i].obj = objs[j].obj
    /\ \A i, j \in DOMAIN objs : objs[i].obj = objs[j].obj <=> objs[i].res = objs[j].res

(***************************************************************************)
(* The latest states of the table, those nothing descends from, add up to  *)
(* what was created, however resources were split, combined and decayed,   *)
(* and so do the objects themselves, unless programs use copies.           *)
(***************************************************************************)
Leaves == {k \in DOMAIN rows : \A j \in DOMAIN rows : rows[k].id \notin Parents(j)}
MassBalance ==
    ~ Copies =>
    /\ MapThenSumSet(LAMBDA k : rows[k].qty, Leaves) = created
    /\ MapThenSumSet(LAMBDA i : objs[i].qty, {i \in DOMAIN objs : objs[i].real}) = created

(***************************************************************************)
(* What a tracked object holds is what the row of its state id says, until *)
(* the object is absorbed by another, unless programs use copies.          *)
(***************************************************************************)
BooksCurrent ==
    ~ Copies => \A i \in DOMAIN objs : objs[i].real /\ ~ objs[i].merged =>
        \E k \in DOMAIN rows :
            /\ rows[k].id = objs[i].state /\ rows[k].obj = objs[i].obj
            /\ rows[k].qty = objs[i].qty /\ rows[k].qual = QualId(qualids, objs[i])

(***************************************************************************)
(* The Resources table tells the truth about where resources come from and *)
(* what they are (ResTracker::Create, Modify, Extract and Absorb).         *)
(***************************************************************************)
RowsTruthful == Provenance /\ BooksCurrent

(***************************************************************************)
(* The Products table says what the rows of products are of: a tracked     *)
(* product's quality is in it with the id its rows carry, and no id stands *)
(* for two qualities.  Id 0 is no id: it is what qual_id() enters for a    *)
(* quality that only untracked products had when it was read.              *)
(***************************************************************************)
QualitiesRecorded ==
    /\ \A i \in DOMAIN objs \ Materials : objs[i].real =>
         \/ qualids[objs[i].qual] = 0
         \/ <<qualids[objs[i].qual], objs[i].qual>> \in products
    /\ \A p, q \in products : p[1] = q[1] => p = q

(***************************************************************************)
(* A composition is accurate for its material's previous decay time: no    *)
(* operation decays a material twice for the same time or leaves a time    *)
(* out, where the simulation decays lazily (otherwise Absorb mixes         *)
(* compositions of different times) and unless a program mixes in          *)
(* compositions that do not decay: these keep their material's old decay   *)
(* time, which the mixture may take over.                                  *)
(***************************************************************************)
CompositionTimely ==
    DecayMode = "lazy" /\ ~ Stable /\ ~ Copies =>
        \A i \in DOMAIN objs : objs[i].real /\ i \in Materials =>
            objs[i].qual \subseteq {objs[i].prev}
-----------------------------------------------------------------------------
(***************************************************************************)
(* The inductive invariants, of the worlds a call passes through.          *)
(***************************************************************************)
\* Behind IdsUnique: nextstate_id_ is ahead of every id given.
IdsInv(w) ==
    /\ \A k \in DOMAIN w.rows : w.rows[k].id < w.next
    /\ \A i \in DOMAIN w.objs : w.objs[i].state < w.next
    /\ \A j, k \in DOMAIN w.rows : j < k => w.rows[j].id < w.rows[k].id
    /\ \A i, j \in DOMAIN w.objs :
         w.objs[i].state = w.objs[j].state => w.objs[i].obj = w.objs[j].obj

\* ... and nextobj_id_ of every object id; no two resources have one object id.
ObjIdsInv ==
    /\ \A i \in DOMAIN objs : objs[i].obj < nextObj
    /\ \A i, j \in DOMAIN objs : objs[i].obj = objs[j].obj <=> objs[i].res = objs[j].res

\* Behind QualitiesRecorded: the ids given to qualities are counted up from 1.
Numbered(ids) == {q \in DOMAIN ids : ids[q] > 0}
QualitiesInv(w) ==
    /\ IsFiniteSet(Numbered(w.ids))
    /\ \A q \in Numbered(w.ids) : w.ids[q] <= Cardinality(Numbered(w.ids))
    /\ \A q, r \in Numbered(w.ids) : w.ids[q] = w.ids[r] => q = r
    /\ w.products = {<<w.ids[q], q>> : q \in Numbered(w.ids)}
    /\ \A i \in DOMAIN w.objs :
         w.objs[i].kind = "Product" /\ w.objs[i].real => w.ids[w.objs[i].qual] # Absent

(***************************************************************************)
(* Behind RowsTruthful, without copies: every object has a row for its     *)
(* state, unless it is fresh, and that row tells what it holds, unless it  *)
(* is dirty or was absorbed.                                               *)
(***************************************************************************)
Booked(w, i)  == \E k \in DOMAIN w.rows : w.rows[k].id = w.objs[i].state
Current(w, i) ==
    \E k \in DOMAIN w.rows :
        /\ w.rows[k].id = w.objs[i].state /\ w.rows[k].obj = w.objs[i].obj
        /\ w.rows[k].qty = w.objs[i].qty /\ w.rows[k].qual = QualId(w.ids, w.objs[i])
Descends(w) ==
    \A k \in DOMAIN w.rows : \A p \in {w.rows[k].p1, w.rows[k].p2} \ {0} :
        \E j \in 1..(k - 1) : w.rows[j].id = p
Own(w) ==
    \A i \in DOMAIN w.objs :
        w.objs[i].res = i /\ w.objs[i].ctx /\ w.objs[i].tracked /\ w.objs[i].real

(***************************************************************************)
(* Behind MassBalance, without copies: objects are in different states,    *)
(* every state that is no object's has a descendant, an object's state has *)
(* one only when the object was absorbed, and what was absorbed is empty.  *)
(***************************************************************************)
Cited(w, p) == \E k \in DOMAIN w.rows : p \in {w.rows[k].p1, w.rows[k].p2} \ {0}
Linked(w, dirty) ==
    /\ \A i \in DOMAIN w.objs : w.objs[i].state # 0
    /\ \A i, j \in DOMAIN w.objs : w.objs[i].state = w.objs[j].state => i = j
    /\ \A k \in DOMAIN w.rows :
         Cited(w, w.rows[k].id) \/ \E i \in DOMAIN w.objs : w.objs[i].state = w.rows[k].id
    /\ \A i \in DOMAIN w.objs :
         IF w.objs[i].merged
         THEN i \notin dirty => Cited(w, w.objs[i].state) /\ w.objs[i].qty = 0
         ELSE ~ Cited(w, w.objs[i].state)

HistoryInv(w, dirty, fresh) ==
    /\ Own(w) /\ Descends(w) /\ Linked(w, dirty)
    /\ \A i \in DOMAIN w.objs :
        /\ i \notin fresh <=> Booked(w, i)
        /\ i \notin dirty /\ ~ w.objs[i].merged => Current(w, i)

\* Behind CompositionTimely.
TimelyInv(w) ==
    \A i \in DOMAIN w.objs : w.objs[i].prev <= now /\
        (w.objs[i].kind = "Material" => w.objs[i].qual = {w.objs[i].prev})

ResInv ==
    /\ IdsInv(World) /\ ObjIdsInv /\ QualitiesInv(World)
    /\ ~ Copies => HistoryInv(World, {}, {})
    /\ DecayMode = "lazy" /\ ~ Stable /\ ~ Copies => TimelyInv(World)
=============================================================================
