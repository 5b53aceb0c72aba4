-------------------------- MODULE ResTrackingProofs --------------------------
(***************************************************************************)
(* Proofs about the resource objects and the Resources table, for every    *)
(* number of objects, rows, quantities and time steps.  A call passes      *)
(* through worlds; each elementary change of a world keeps the inductive   *)
(* invariants of ResTracking up to the objects it leaves fresh or dirty.   *)
(***************************************************************************)
EXTENDS ResTracking, SetSums

IdValues == Nat \cup {Absent}
Worlds == [objs : Seq(Object), rows : Seq(Row), next : Nat \ {0},
           ids : [Qualities -> IdValues], products : SUBSET (Int \X Qualities),
           error : {"none", "null context"}]

\* Types of a world that its components alone do not tell.
Coherent(o) == IF o.kind = "Material" THEN o.qual \in Comp ELSE o.qual \in Qualities
Shape(w) ==
    /\ w \in Worlds
    /\ \A i \in DOMAIN w.objs : w.objs[i].res \in DOMAIN w.objs /\ Coherent(w.objs[i])

\* The type invariant of the state.
Types ==
    /\ Shape(World) /\ prog \in Programs /\ prog.decay \in {"never", "manual", "lazy"}
    /\ prog.time \in Nat /\ nextObj \in Nat /\ now \in Nat /\ created \in Nat

-----------------------------------------------------------------------------
(***************************************************************************)
(* The elementary changes: an object takes another value, an object is     *)
(* appended, a row is written.                                             *)
(***************************************************************************)
SameRest(w, v) ==
    v.ids = w.ids /\ v.products = w.products /\ v.error = w.error

Alter(w, i, o) == [w EXCEPT !.objs = [w.objs EXCEPT ![i] = o]]

Altered(w, v, i, o) ==
    /\ v \in Worlds /\ v.rows = w.rows /\ v.next = w.next /\ SameRest(w, v)
    /\ DOMAIN v.objs = DOMAIN w.objs /\ Len(v.objs) = Len(w.objs) /\ v.objs[i] = o
    /\ \A k \in DOMAIN w.objs : k # i => v.objs[k] = w.objs[k]

Appended(w, v, o) ==
    /\ v \in Worlds /\ v.rows = w.rows /\ v.next >= w.next /\ SameRest(w, v)
    /\ DOMAIN v.objs = DOMAIN w.objs \cup {Len(w.objs) + 1}
    /\ Len(v.objs) = Len(w.objs) + 1 /\ v.objs[Len(w.objs) + 1] = o
    /\ \A k \in DOMAIN w.objs : v.objs[k] = w.objs[k]

\* What ResTracker::Record makes of object r, and the row it writes.
Stamped(w, r) == [w.objs[r] EXCEPT !.state = w.next, !.merged = FALSE]
RowFor(w, r, p1, p2) ==
    [id |-> w.next, obj |-> w.objs[r].obj, qty |-> w.objs[r].qty,
     qual |-> QualId(w.ids, w.objs[r]), prev |-> w.objs[r].prev, p1 |-> p1, p2 |-> p2]

Written(w, v, r, p1, p2) ==
    /\ v \in Worlds /\ v.next = w.next + 1 /\ SameRest(w, v)
    /\ DOMAIN v.objs = DOMAIN w.objs /\ Len(v.objs) = Len(w.objs) /\ v.objs[r] = Stamped(w, r)
    /\ \A k \in DOMAIN w.objs : k # r => v.objs[k] = w.objs[k]
    /\ DOMAIN v.rows = DOMAIN w.rows \cup {Len(w.rows) + 1}
    /\ Len(v.rows) = Len(w.rows) + 1 /\ v.rows[Len(w.rows) + 1] = RowFor(w, r, p1, p2)
    /\ \A k \in DOMAIN w.rows : v.rows[k] = w.rows[k]

\* The domain of a sequence, and the type of its elements.
LEMMA SeqDomain ==
    ASSUME NEW S, NEW s \in Seq(S)
    PROVE  DOMAIN s = 1..Len(s) /\ Len(s) \in Nat /\ \A k \in 1..Len(s) : s[k] \in S
  OBVIOUS

\* The types of the parts of a world.
LEMMA Components ==
    ASSUME NEW w \in Worlds
    PROVE  /\ w.objs \in Seq(Object) /\ w.rows \in Seq(Row) /\ w.next \in Nat \ {0}
           /\ w.ids \in [Qualities -> IdValues] /\ w.ids \in [Qualities -> Int]
           /\ w.products \in SUBSET (Int \X Qualities) /\ w.error \in {"none", "null context"}
           /\ DOMAIN w.objs = 1..Len(w.objs) /\ Len(w.objs) \in Nat
           /\ DOMAIN w.rows = 1..Len(w.rows) /\ Len(w.rows) \in Nat
<1>1. /\ w.objs \in Seq(Object) /\ w.rows \in Seq(Row) /\ w.next \in Nat \ {0}
      /\ w.ids \in [Qualities -> IdValues] /\ w.products \in SUBSET (Int \X Qualities)
      /\ w.error \in {"none", "null context"}
  BY DEF Worlds
<1>2. DOMAIN w.objs = 1..Len(w.objs) /\ Len(w.objs) \in Nat
  BY <1>1, SeqDomain
<1>3. DOMAIN w.rows = 1..Len(w.rows) /\ Len(w.rows) \in Nat
  BY <1>1, SeqDomain
<1>4. w.ids \in [Qualities -> Int]
  <2>1. IdValues \subseteq Int
    BY DEF IdValues, Absent
  <2> QED
    BY <1>1, <2>1
<1> QED
  BY <1>1, <1>2, <1>3, <1>4

\* The objects and rows of a world have their types.
LEMMA Values ==
    ASSUME NEW w \in Worlds
    PROVE  /\ \A k \in DOMAIN w.objs : w.objs[k] \in Object
           /\ \A k \in DOMAIN w.rows : w.rows[k] \in Row
           /\ \A k \in DOMAIN w.objs : w.objs[k].state \in Int
           /\ \A k \in DOMAIN w.rows : w.rows[k].id \in Int
           /\ w.next \in Int
<1>1. \A k \in DOMAIN w.objs : w.objs[k] \in Object
  BY Components, SeqDomain
<1>2. \A k \in DOMAIN w.rows : w.rows[k] \in Row
  BY Components, SeqDomain
<1>3. \A x \in Object : x.state \in Int
  BY DEF Object
<1>4. \A x \in Row : x.id \in Int
  BY DEF Row
<1>5. w.next \in Int
  <2>1. w.next \in Nat \ {0}
    BY Components
  <2> QED
    BY <2>1
<1> QED
  BY <1>1, <1>2, <1>3, <1>4, <1>5

\* Alter replaces one object and leaves the rest of the world alone.
LEMMA AlterEffect ==
    ASSUME NEW w \in Worlds, NEW i \in DOMAIN w.objs, NEW o \in Object
    PROVE  Altered(w, Alter(w, i, o), i, o)
<1> DEFINE s == w.objs
           n == [s EXCEPT ![i] = o]
           v == Alter(w, i, o)
<1>1. s \in Seq(Object) /\ DOMAIN s = 1..Len(s) /\ Len(s) \in Nat
  BY Components
<1>2. /\ n \in Seq(Object) /\ DOMAIN n = DOMAIN s /\ Len(n) = Len(s) /\ n[i] = o
      /\ \A k \in DOMAIN s : k # i => n[k] = s[k]
  BY <1>1
<1>3. /\ v.objs = n /\ v.rows = w.rows /\ v.next = w.next /\ v.ids = w.ids
      /\ v.products = w.products /\ v.error = w.error
  BY DEF Alter, Worlds
<1>4. v \in Worlds
  <2> HIDE DEF n
  <2> QED
    BY <1>2 DEF Alter, Worlds, n
<1> HIDE DEF n, v
<1> QED
  BY <1>2, <1>3, <1>4 DEF Altered, SameRest, v

\* ResTracker::Record bumps the state of the tracker's resource and writes
\* one row, or fails without a context.
LEMMA RecordEffect ==
    ASSUME NEW w \in Worlds, NEW i \in DOMAIN w.objs, w.objs[i].res \in DOMAIN w.objs,
           Coherent(w.objs[w.objs[i].res]), NEW p1 \in Nat, NEW p2 \in Nat,
           Kinds \subseteq {"Material", "Product"}
    PROVE  /\ ~ w.objs[i].ctx => Record(w, i, p1, p2) = [w EXCEPT !.error = "null context"]
           /\ w.objs[i].ctx => Written(w, Record(w, i, p1, p2), w.objs[i].res, p1, p2)
<1> DEFINE v == Record(w, i, p1, p2)
           r == w.objs[i].res
           o == w.objs[r]
           n == Stamped(w, r)
           row == RowFor(w, r, p1, p2)
           s == [w.objs EXCEPT ![r] = n]
           t == Append(w.rows, row)
<1>1. /\ w.objs \in Seq(Object) /\ DOMAIN w.objs = 1..Len(w.objs) /\ Len(w.objs) \in Nat
      /\ w.rows \in Seq(Row) /\ DOMAIN w.rows = 1..Len(w.rows) /\ Len(w.rows) \in Nat
      /\ w.next \in Nat \ {0} /\ w.ids \in [Qualities -> Int] /\ r \in DOMAIN w.objs
  BY Components
<1>2. o \in Object
  BY <1>1
<1>3. n \in Object
  BY <1>1, <1>2 DEF Object, Stamped
<1>4. QualId(w.ids, o) \in Comp \cup Int
  <2>1. o.kind \in {"Material", "Product"}
    BY <1>2 DEF Object
  <2> HIDE DEF o
  <2>2. Coherent(o)
    BY DEF o
  <2>3. CASE o.kind = "Material"
    BY <2>2, <2>3 DEF QualId, Coherent
  <2>4. CASE o.kind = "Product"
    BY <1>1, <2>2, <2>4 DEF QualId, Coherent
  <2> QED
    BY <2>1, <2>3, <2>4
<1>5. row \in Row
  <2>1. o.obj \in Nat /\ o.qty \in Nat /\ o.prev \in Nat
    BY <1>2 DEF Object
  <2> HIDE DEF o
  <2> QED
    BY <1>1, <1>4, <2>1 DEF Row, RowFor, o
<1>6. CASE ~ w.objs[i].ctx
  BY <1>6 DEF Record
<1>7. CASE w.objs[i].ctx
  <2>1. v = [w EXCEPT !.objs = s, !.next = w.next + 1, !.rows = t]
    BY <1>1, <1>2, <1>7 DEF Record, Worlds, Object, Stamped, RowFor
  <2> HIDE DEF n, row, v, o, r
  <2>2. /\ s \in Seq(Object) /\ DOMAIN s = DOMAIN w.objs /\ Len(s) = Len(w.objs) /\ s[r] = n
        /\ \A k \in DOMAIN w.objs : k # r => s[k] = w.objs[k]
    BY <1>1, <1>3
  <2>3. /\ t \in Seq(Row) /\ Len(t) = Len(w.rows) + 1 /\ DOMAIN t = 1..(Len(w.rows) + 1)
        /\ t[Len(w.rows) + 1] = row
        /\ \A k \in 1..Len(w.rows) : t[k] = w.rows[k]
    BY <1>1, <1>5
  <2> HIDE DEF s, t
  <2>4. /\ v.objs = s /\ v.rows = t /\ v.next = w.next + 1 /\ v.ids = w.ids
        /\ v.products = w.products /\ v.error = w.error
    BY <2>1 DEF Worlds
  <2>5. v \in Worlds
    <3>1. w.next + 1 \in Nat \ {0}
      BY <1>1
    <3> QED
      BY <2>1, <2>2, <2>3, <3>1 DEF Worlds
  <2>6. DOMAIN v.rows = DOMAIN w.rows \cup {Len(w.rows) + 1}
    BY <1>1, <2>3, <2>4
  <2>7. Written(w, v, r, p1, p2)
    BY <1>1, <2>2, <2>3, <2>4, <2>5, <2>6 DEF Written, SameRest, n, row
  <2> QED
    BY <1>7, <2>7 DEF v, r, o, n, row
<1> QED
  BY <1>6, <1>7

\* ResTracker::Record changes the state id of the object only.
LEMMA StampedFields ==
    ASSUME NEW w \in Worlds, NEW r \in DOMAIN w.objs
    PROVE  LET o == w.objs[r]
               n == Stamped(w, r)
           IN  /\ n \in Object /\ n.state = w.next /\ ~ n.merged
               /\ n.kind = o.kind /\ n.obj = o.obj /\ n.qty = o.qty /\ n.qual = o.qual
               /\ n.prev = o.prev /\ n.tracked = o.tracked /\ n.ctx = o.ctx /\ n.res = o.res
               /\ n.real = o.real
<1>1. w.objs[r] \in Object /\ w.next \in Nat
  BY Components, SeqDomain
<1> QED
  BY <1>1 DEF Object, Stamped

-----------------------------------------------------------------------------
(***************************************************************************)
(* The elementary changes keep the shape of a world.                       *)
(***************************************************************************)
LEMMA ShapeAltered ==
    ASSUME NEW w, Shape(w), NEW i \in DOMAIN w.objs, NEW o, NEW v, Altered(w, v, i, o),
           Coherent(o), o.res \in DOMAIN w.objs
    PROVE  Shape(v)
  BY DEF Shape, Altered

\* A new coherent object keeps the shape of the world.
LEMMA ShapeAppended ==
    ASSUME NEW w, Shape(w), NEW o, NEW v, Appended(w, v, o),
           Coherent(o), o.res \in DOMAIN v.objs
    PROVE  Shape(v)
  BY DEF Shape, Appended

\* A row written by Record keeps the shape of the world.
LEMMA ShapeWritten ==
    ASSUME NEW w, Shape(w), NEW r \in DOMAIN w.objs, NEW p1, NEW p2, NEW v,
           Written(w, v, r, p1, p2)
    PROVE  Shape(v)
<1>1. LET n == Stamped(w, r)
      IN  n.kind = w.objs[r].kind /\ n.qual = w.objs[r].qual /\ n.res = w.objs[r].res
  BY StampedFields DEF Shape
<1>2. Coherent(Stamped(w, r)) /\ Stamped(w, r).res \in DOMAIN w.objs
  BY <1>1 DEF Shape, Coherent
<1> QED
  BY <1>2 DEF Shape, Written

(***************************************************************************)
(* ... and the ids.                                                        *)
(***************************************************************************)
LEMMA IdsAltered ==
    ASSUME NEW w \in Worlds, IdsInv(w), NEW i \in DOMAIN w.objs, NEW o, NEW v,
           Altered(w, v, i, o), o.state = w.objs[i].state, o.obj = w.objs[i].obj
    PROVE  IdsInv(v)
<1>1. \A k \in DOMAIN w.objs : v.objs[k].state = w.objs[k].state /\ v.objs[k].obj = w.objs[k].obj
  BY DEF Altered
<1>2. v.rows = w.rows /\ v.next = w.next /\ DOMAIN v.objs = DOMAIN w.objs
  BY DEF Altered
<1> QED
  BY <1>1, <1>2 DEF IdsInv

\* A new object with a state id below the counter keeps ids unique.
LEMMA IdsAppended ==
    ASSUME NEW w \in Worlds, IdsInv(w), NEW o \in Object, NEW v, Appended(w, v, o), o.state < v.next,
           \A k \in DOMAIN w.objs : o.state = w.objs[k].state => o.obj = w.objs[k].obj
    PROVE  IdsInv(v)
<1>1. /\ v.rows = w.rows /\ v.next >= w.next /\ v.objs[Len(w.objs) + 1] = o
      /\ DOMAIN v.objs = DOMAIN w.objs \cup {Len(w.objs) + 1}
      /\ \A k \in DOMAIN w.objs : v.objs[k] = w.objs[k]
      /\ w.next \in Int /\ v.next \in Int
  <2>1. v \in Worlds
    BY DEF Appended
  <2>2. w.next \in Int /\ v.next \in Int
    BY <2>1, Values
  <2> QED
    BY <2>2 DEF Appended
<1>2. /\ \A k \in DOMAIN w.rows : w.rows[k].id \in Int
      /\ \A k \in DOMAIN w.objs : w.objs[k].state \in Int
  BY Values
<1>3. /\ \A k \in DOMAIN w.rows : w.rows[k].id < w.next
      /\ \A i \in DOMAIN w.objs : w.objs[i].state < w.next
      /\ \A j, k \in DOMAIN w.rows : j < k => w.rows[j].id < w.rows[k].id
      /\ \A i, j \in DOMAIN w.objs :
           w.objs[i].state = w.objs[j].state => w.objs[i].obj = w.objs[j].obj
  BY DEF IdsInv
<1>4. \A k \in DOMAIN v.rows : v.rows[k].id < v.next
  BY <1>1, <1>2, <1>3
<1>5. \A i \in DOMAIN v.objs : v.objs[i].state < v.next
  BY <1>1, <1>2, <1>3
<1>6. \A i, j \in DOMAIN v.objs :
           v.objs[i].state = v.objs[j].state => v.objs[i].obj = v.objs[j].obj
  BY <1>1, <1>3
<1> QED
  BY <1>1, <1>3, <1>4, <1>5, <1>6 DEF IdsInv

\* Record takes the next state id, so ids stay unique.
LEMMA IdsWritten ==
    ASSUME NEW w \in Worlds, IdsInv(w), NEW r \in DOMAIN w.objs, NEW p1, NEW p2, NEW v,
           Written(w, v, r, p1, p2)
    PROVE  IdsInv(v)
<1>1. /\ v.next = w.next + 1 /\ DOMAIN v.objs = DOMAIN w.objs
      /\ v.objs[r].state = w.next /\ v.objs[r].obj = w.objs[r].obj
      /\ \A k \in DOMAIN w.objs : k # r => v.objs[k] = w.objs[k]
      /\ DOMAIN v.rows = DOMAIN w.rows \cup {Len(w.rows) + 1}
      /\ v.rows[Len(w.rows) + 1].id = w.next
      /\ \A k \in DOMAIN w.rows : v.rows[k] = w.rows[k]
      /\ w.next \in Nat
  <2>1. Stamped(w, r).state = w.next /\ Stamped(w, r).obj = w.objs[r].obj
    BY StampedFields
  <2>2. RowFor(w, r, p1, p2).id = w.next
    BY DEF RowFor
  <2>3. w.next \in Nat
    BY Components
  <2> QED
    BY <2>1, <2>2, <2>3 DEF Written
<1>2. DOMAIN w.rows = 1..Len(w.rows) /\ Len(w.rows) \in Nat
  BY Components
<1>3. /\ \A k \in DOMAIN w.rows : w.rows[k].id \in Int
      /\ \A k \in DOMAIN w.objs : w.objs[k].state \in Int
  BY Values
<1>4. /\ \A k \in DOMAIN w.rows : w.rows[k].id < w.next
      /\ \A i \in DOMAIN w.objs : w.objs[i].state < w.next
      /\ \A j, k \in DOMAIN w.rows : j < k => w.rows[j].id < w.rows[k].id
      /\ \A i, j \in DOMAIN w.objs :
           w.objs[i].state = w.objs[j].state => w.objs[i].obj = w.objs[j].obj
  BY DEF IdsInv
<1>5. \A k \in DOMAIN v.rows : v.rows[k].id < v.next
  BY <1>1, <1>3, <1>4
<1>6. \A i \in DOMAIN v.objs : v.objs[i].state < v.next
  BY <1>1, <1>3, <1>4
<1>7. ASSUME NEW j \in DOMAIN v.rows, NEW k \in DOMAIN v.rows, j < k
      PROVE  v.rows[j].id < v.rows[k].id
  <2>1. j \in DOMAIN w.rows
    BY <1>1, <1>2, <1>7
  <2> QED
    BY <1>1, <1>4, <1>7, <2>1
<1>8. \A i, j \in DOMAIN v.objs :
           v.objs[i].state = v.objs[j].state => v.objs[i].obj = v.objs[j].obj
  BY <1>1, <1>3, <1>4
<1> QED
  BY <1>5, <1>6, <1>7, <1>8 DEF IdsInv

(***************************************************************************)
(* ... the ids of qualities ...                                            *)
(***************************************************************************)
LEMMA QualitiesSame ==
    ASSUME NEW w, QualitiesInv(w), NEW v, SameRest(w, v),
           \A i \in DOMAIN v.objs :
              v.objs[i].kind = "Product" /\ v.objs[i].real => w.ids[v.objs[i].qual] # Absent
    PROVE  QualitiesInv(v)
<1>1. v.ids = w.ids /\ v.products = w.products
  BY DEF SameRest
<1>2. /\ IsFiniteSet(Numbered(w.ids))
      /\ \A q \in Numbered(w.ids) : w.ids[q] <= Cardinality(Numbered(w.ids))
      /\ \A q, r \in Numbered(w.ids) : w.ids[q] = w.ids[r] => q = r
      /\ w.products = {<<w.ids[q], q>> : q \in Numbered(w.ids)}
  BY DEF QualitiesInv
<1> QED
  BY <1>1, <1>2 DEF QualitiesInv

\* A change that leaves a product's quality alone keeps the quality table
\* right.
LEMMA QualitiesAltered ==
    ASSUME NEW w, QualitiesInv(w), NEW i \in DOMAIN w.objs, NEW o, NEW v,
           Altered(w, v, i, o), o.kind = w.objs[i].kind, o.real = w.objs[i].real,
           o.kind = "Product" => o.qual = w.objs[i].qual
    PROVE  QualitiesInv(v)
<1>1. \A k \in DOMAIN w.objs :
        w.objs[k].kind = "Product" /\ w.objs[k].real => w.ids[w.objs[k].qual] # Absent
  BY DEF QualitiesInv
<1>2. /\ DOMAIN v.objs = DOMAIN w.objs /\ v.objs[i] = o /\ SameRest(w, v)
      /\ \A k \in DOMAIN w.objs : k # i => v.objs[k] = w.objs[k]
  BY DEF Altered
<1>3. \A k \in DOMAIN v.objs :
        v.objs[k].kind = "Product" /\ v.objs[k].real => w.ids[v.objs[k].qual] # Absent
  BY <1>1, <1>2
<1> QED
  BY <1>2, <1>3, QualitiesSame

\* A new product of a registered quality keeps the quality table right.
LEMMA QualitiesAppended ==
    ASSUME NEW w, QualitiesInv(w), NEW o, NEW v, Appended(w, v, o),
           o.kind = "Product" /\ o.real => w.ids[o.qual] # Absent
    PROVE  QualitiesInv(v)
<1>1. \A k \in DOMAIN w.objs :
        w.objs[k].kind = "Product" /\ w.objs[k].real => w.ids[w.objs[k].qual] # Absent
  BY DEF QualitiesInv
<1>2. /\ DOMAIN v.objs = DOMAIN w.objs \cup {Len(w.objs) + 1} /\ v.objs[Len(w.objs) + 1] = o
      /\ SameRest(w, v) /\ \A k \in DOMAIN w.objs : v.objs[k] = w.objs[k]
  BY DEF Appended
<1>3. \A k \in DOMAIN v.objs :
        v.objs[k].kind = "Product" /\ v.objs[k].real => w.ids[v.objs[k].qual] # Absent
  BY <1>1, <1>2
<1> QED
  BY <1>2, <1>3, QualitiesSame

\* A row written by Record carries a registered quality id.
LEMMA QualitiesWritten ==
    ASSUME NEW w \in Worlds, QualitiesInv(w), NEW r \in DOMAIN w.objs, NEW p1, NEW p2, NEW v,
           Written(w, v, r, p1, p2)
    PROVE  QualitiesInv(v)
<1>1. \A k \in DOMAIN w.objs :
        w.objs[k].kind = "Product" /\ w.objs[k].real => w.ids[w.objs[k].qual] # Absent
  BY DEF QualitiesInv
<1>2. /\ DOMAIN v.objs = DOMAIN w.objs /\ v.objs[r] = Stamped(w, r) /\ SameRest(w, v)
      /\ \A k \in DOMAIN w.objs : k # r => v.objs[k] = w.objs[k]
  BY DEF Written
<1>3. /\ Stamped(w, r).kind = w.objs[r].kind /\ Stamped(w, r).real = w.objs[r].real
      /\ Stamped(w, r).qual = w.objs[r].qual
  BY StampedFields
<1>4. \A k \in DOMAIN v.objs :
        v.objs[k].kind = "Product" /\ v.objs[k].real => w.ids[v.objs[k].qual] # Absent
  BY <1>1, <1>2, <1>3
<1> QED
  BY <1>2, <1>4, QualitiesSame

(***************************************************************************)
(* ... and the history the rows tell.                                      *)
(***************************************************************************)
Faithful(w, i, dirty, fresh) ==
    /\ i \notin fresh <=> Booked(w, i)
    /\ i \notin dirty /\ ~ w.objs[i].merged => Current(w, i)

\* HistoryInv, object by object.
LEMMA HistoryFaithful ==
    ASSUME NEW w, NEW D, NEW U
    PROVE  HistoryInv(w, D, U) <=>
             /\ Own(w) /\ Descends(w) /\ Linked(w, D)
             /\ \A i \in DOMAIN w.objs : Faithful(w, i, D, U)
  BY DEF HistoryInv, Faithful

\* What an object keeps when its content changes.
SameBook(o, n) ==
    /\ n.state = o.state /\ n.obj = o.obj /\ n.res = o.res /\ n.ctx = o.ctx
    /\ n.tracked = o.tracked /\ n.real = o.real /\ (o.merged => n.merged)

\* A change of one object keeps the others linked to the table.
LEMMA LinkedAltered ==
    ASSUME NEW w, NEW D, Linked(w, D), NEW i \in DOMAIN w.objs, NEW o, NEW v,
           Altered(w, v, i, o), o.state = w.objs[i].state, w.objs[i].merged => o.merged
    PROVE  Linked(v, D \cup {i})
<1>1. /\ DOMAIN v.objs = DOMAIN w.objs /\ v.objs[i] = o /\ v.rows = w.rows
      /\ \A k \in DOMAIN w.objs : k # i => v.objs[k] = w.objs[k]
  BY DEF Altered
<1>2. \A k \in DOMAIN w.objs : v.objs[k].state = w.objs[k].state
  BY <1>1
<1>3. \A p : Cited(v, p) <=> Cited(w, p)
  BY <1>1 DEF Cited
<1>4. ASSUME NEW k \in DOMAIN v.objs
      PROVE  IF v.objs[k].merged
             THEN k \notin D \cup {i} => Cited(v, v.objs[k].state) /\ v.objs[k].qty = 0
             ELSE ~ Cited(v, v.objs[k].state)
  <2>1. CASE k = i
    BY <1>1, <1>3, <2>1 DEF Linked
  <2>2. CASE k # i
    BY <1>1, <1>3, <2>2 DEF Linked
  <2> QED
    BY <2>1, <2>2
<1> QED
  BY <1>1, <1>2, <1>3, <1>4 DEF Linked

\* A change that is not recorded yet leaves only the changed object open.
LEMMA HistoryAltered ==
    ASSUME NEW w, NEW D, NEW U, HistoryInv(w, D, U), NEW i \in DOMAIN w.objs, NEW o, NEW v,
           Altered(w, v, i, o), SameBook(w.objs[i], o)
    PROVE  HistoryInv(v, D \cup {i}, U)
<1>1. Own(w) /\ Descends(w) /\ Linked(w, D) /\ \A k \in DOMAIN w.objs : Faithful(w, k, D, U)
  BY HistoryFaithful
<1>2. /\ DOMAIN v.objs = DOMAIN w.objs /\ v.objs[i] = o /\ v.rows = w.rows /\ v.ids = w.ids
      /\ \A k \in DOMAIN w.objs : k # i => v.objs[k] = w.objs[k]
  BY DEF Altered, SameRest
<1>3. Own(v)
  BY <1>1, <1>2 DEF Own, SameBook
<1>4. Descends(v)
  BY <1>1, <1>2 DEF Descends
<1>5. ASSUME NEW k \in DOMAIN v.objs
      PROVE  Faithful(v, k, D \cup {i}, U)
  <2>1. CASE k = i
    BY <1>1, <1>2, <2>1 DEF Faithful, Booked, SameBook
  <2>2. CASE k # i
    BY <1>1, <1>2, <2>2 DEF Faithful, Booked, Current
  <2> QED
    BY <2>1, <2>2
<1>6. Linked(v, D \cup {i})
  BY <1>1, LinkedAltered DEF SameBook
<1> QED
  BY <1>3, <1>4, <1>5, <1>6, HistoryFaithful

\* An absorbed object need not be what its row says.
LEMMA HistoryMerged ==
    ASSUME NEW w, NEW D, NEW U, NEW i \in DOMAIN w.objs, HistoryInv(w, D \cup {i}, U),
           w.objs[i].merged, w.objs[i].qty = 0, Cited(w, w.objs[i].state)
    PROVE  HistoryInv(w, D, U)
<1>1. Linked(w, D)
  BY DEF HistoryInv, Linked
<1> QED
  BY <1>1 DEF HistoryInv

\* A state that was not given yet is nobody's parent.
LEMMA NextUncited ==
    ASSUME NEW w \in Worlds, Descends(w), IdsInv(w)
    PROVE  ~ Cited(w, w.next)
<1> SUFFICES ASSUME NEW k \in DOMAIN w.rows, w.next \in {w.rows[k].p1, w.rows[k].p2} \ {0}
             PROVE  FALSE
  BY DEF Cited
<1>1. DOMAIN w.rows = 1..Len(w.rows) /\ Len(w.rows) \in Nat /\ w.next \in Int
  BY Components, Values
<1>2. PICK j \in 1..(k - 1) : w.rows[j].id = w.next
  BY DEF Descends
<1>3. j \in DOMAIN w.rows
  BY <1>1
<1>4. w.rows[j].id < w.next
  BY <1>3 DEF IdsInv
<1> QED
  BY <1>1, <1>2, <1>4

\* A state that was not given yet is nobody's, and no row's.
LEMMA NextUnused ==
    ASSUME NEW w \in Worlds, IdsInv(w)
    PROVE  /\ \A k \in DOMAIN w.objs : w.objs[k].state # w.next
           /\ \A k \in DOMAIN w.rows : w.rows[k].id # w.next
           /\ w.next # 0
<1>1. w.next \in Int /\ w.next # 0
  BY Components, Values
<1> QED
  BY <1>1 DEF IdsInv

\* A new tracked object is open and unrecorded until its first row is
\* written.
LEMMA HistoryAppended ==
    ASSUME NEW w \in Worlds, NEW D, NEW U, HistoryInv(w, D, U), NEW o, NEW v, Appended(w, v, o),
           o.res = Len(w.objs) + 1, o.ctx, o.tracked, o.real, IdsInv(w), o.state = w.next,
           ~ o.merged
    PROVE  HistoryInv(v, D \cup {Len(w.objs) + 1}, U \cup {Len(w.objs) + 1})
<1> DEFINE n == Len(w.objs) + 1
<1>1. Own(w) /\ Descends(w) /\ Linked(w, D) /\ \A k \in DOMAIN w.objs : Faithful(w, k, D, U)
  BY HistoryFaithful
<1>2. /\ DOMAIN v.objs = DOMAIN w.objs \cup {n} /\ v.objs[n] = o /\ v.rows = w.rows
      /\ v.ids = w.ids /\ \A k \in DOMAIN w.objs : v.objs[k] = w.objs[k]
  BY DEF Appended, SameRest
<1> HIDE DEF n
<1>3. Own(v)
  BY <1>1, <1>2 DEF Own, n
<1>4. Descends(v)
  BY <1>1, <1>2 DEF Descends
<1>5. ASSUME NEW k \in DOMAIN v.objs
      PROVE  Faithful(v, k, D \cup {n}, U \cup {n})
  <2>1. CASE k = n
    <3>1. ~ Booked(v, n)
      BY <1>2, NextUnused DEF Booked
    <3> QED
      BY <2>1, <3>1 DEF Faithful
  <2>2. CASE k # n
    BY <1>1, <1>2, <2>2 DEF Faithful, Booked, Current
  <2> QED
    BY <2>1, <2>2
<1>6. Linked(v, D \cup {n})
  <2>1. \A p : Cited(v, p) <=> Cited(w, p)
    BY <1>2 DEF Cited
  <2>2. ~ Cited(w, w.next)
    BY <1>1, NextUncited
  <2>3. \A k \in DOMAIN w.objs : w.objs[k].state # w.next
    BY NextUnused
  <2>4. \A k \in DOMAIN v.objs : v.objs[k].state # 0
    BY <1>1, <1>2, NextUnused DEF Linked
  <2>5. \A j, k \in DOMAIN v.objs : v.objs[j].state = v.objs[k].state => j = k
    BY <1>1, <1>2, <2>3 DEF Linked
  <2>6. ASSUME NEW k \in DOMAIN v.rows
        PROVE  Cited(v, v.rows[k].id) \/ \E j \in DOMAIN v.objs : v.objs[j].state = v.rows[k].id
    BY <1>1, <1>2, <2>1 DEF Linked
  <2>7. ASSUME NEW k \in DOMAIN v.objs
        PROVE  IF v.objs[k].merged
               THEN k \notin D \cup {n} => Cited(v, v.objs[k].state) /\ v.objs[k].qty = 0
               ELSE ~ Cited(v, v.objs[k].state)
    <3>1. CASE k = n
      BY <1>2, <2>1, <2>2, <3>1
    <3>2. CASE k # n
      BY <1>1, <1>2, <2>1, <3>2 DEF Linked
    <3> QED
      BY <3>1, <3>2
  <2> QED
    BY <2>4, <2>5, <2>6, <2>7 DEF Linked
<1> QED
  BY <1>3, <1>4, <1>5, <1>6, HistoryFaithful DEF n

\* The states a row may descend from.
Known(w, p) == p = 0 \/ \E k \in DOMAIN w.rows : w.rows[k].id = p

(***************************************************************************)
(* The parents of a row: the state the object leaves, unless it is new,    *)
(* and none that another object is in, unless that was absorbed.           *)
(***************************************************************************)
Follows(w, r, p1, p2, fresh) ==
    /\ r \in fresh \/ w.objs[r].state \in {p1, p2}
    /\ \A k \in DOMAIN w.objs : k # r /\ ~ w.objs[k].merged => w.objs[k].state \notin {p1, p2}

\* Writing an object's row closes it: its newest row again describes it.
LEMMA HistoryWritten ==
    ASSUME NEW w \in Worlds, NEW D, NEW U, HistoryInv(w, D, U), NEW r \in DOMAIN w.objs,
           NEW p1, NEW p2, Known(w, p1), Known(w, p2), NEW v, Written(w, v, r, p1, p2),
           IdsInv(w), Follows(w, r, p1, p2, U)
    PROVE  /\ HistoryInv(v, D \ {r}, U \ {r})
           /\ \A p : Known(w, p) => Known(v, p)
<1> DEFINE m == Len(w.rows) + 1
<1>1. Own(w) /\ Descends(w) /\ Linked(w, D) /\ \A k \in DOMAIN w.objs : Faithful(w, k, D, U)
  BY HistoryFaithful
<1>2. /\ DOMAIN v.objs = DOMAIN w.objs /\ v.objs[r] = Stamped(w, r) /\ v.ids = w.ids
      /\ \A k \in DOMAIN w.objs : k # r => v.objs[k] = w.objs[k]
      /\ DOMAIN v.rows = DOMAIN w.rows \cup {m} /\ v.rows[m] = RowFor(w, r, p1, p2)
      /\ \A k \in DOMAIN w.rows : v.rows[k] = w.rows[k]
  BY DEF Written, SameRest
<1>3. /\ Stamped(w, r).res = w.objs[r].res /\ Stamped(w, r).ctx = w.objs[r].ctx
      /\ Stamped(w, r).tracked = w.objs[r].tracked /\ Stamped(w, r).real = w.objs[r].real
      /\ Stamped(w, r).state = w.next /\ Stamped(w, r).obj = w.objs[r].obj
      /\ Stamped(w, r).qty = w.objs[r].qty /\ Stamped(w, r).kind = w.objs[r].kind
      /\ Stamped(w, r).qual = w.objs[r].qual
  BY StampedFields
<1>4. /\ RowFor(w, r, p1, p2).id = w.next /\ RowFor(w, r, p1, p2).obj = w.objs[r].obj
      /\ RowFor(w, r, p1, p2).qty = w.objs[r].qty
      /\ RowFor(w, r, p1, p2).qual = QualId(w.ids, w.objs[r])
      /\ RowFor(w, r, p1, p2).p1 = p1 /\ RowFor(w, r, p1, p2).p2 = p2
  BY DEF RowFor
<1>5. DOMAIN w.rows = 1..Len(w.rows) /\ Len(w.rows) \in Nat
  BY Components
<1>6. Own(v)
  BY <1>1, <1>2, <1>3 DEF Own
<1>7. Descends(v)
  <2> SUFFICES ASSUME NEW k \in DOMAIN v.rows, NEW p \in {v.rows[k].p1, v.rows[k].p2} \ {0}
               PROVE  \E j \in 1..(k - 1) : v.rows[j].id = p
    BY DEF Descends
  <2>1. CASE k \in DOMAIN w.rows
    <3>1. PICK j \in 1..(k - 1) : w.rows[j].id = p
      BY <1>1, <1>2, <2>1 DEF Descends
    <3>2. j \in DOMAIN w.rows
      BY <1>5, <2>1
    <3> QED
      BY <1>2, <3>1, <3>2
  <2>2. CASE k = m
    <3>1. p = p1 \/ p = p2
      BY <1>2, <1>4, <2>2
    <3>2. PICK j \in DOMAIN w.rows : w.rows[j].id = p
      BY <3>1 DEF Known
    <3>3. j \in 1..(k - 1)
      BY <1>5, <2>2
    <3> QED
      BY <1>2, <3>2, <3>3
  <2> QED
    BY <1>2, <2>1, <2>2
<1> HIDE DEF m
<1>8. ASSUME NEW k \in DOMAIN v.objs
      PROVE  Faithful(v, k, D \ {r}, U \ {r})
  <2>1. CASE k = r
    <3>1. QualId(v.ids, v.objs[r]) = QualId(w.ids, w.objs[r])
      BY <1>2, <1>3 DEF QualId
    <3>2. Booked(v, r) /\ Current(v, r)
      BY <1>2, <1>3, <1>4, <3>1 DEF Booked, Current
    <3> QED
      BY <2>1, <3>2 DEF Faithful
  <2>2. CASE k # r
    <3>1. Faithful(w, k, D, U) /\ v.objs[k] = w.objs[k]
      BY <1>1, <1>2, <2>2
    <3>2. Booked(w, k) <=> Booked(v, k)
      BY <1>2, <1>4, <3>1, NextUnused DEF Booked
    <3>3. Current(w, k) => Current(v, k)
      BY <1>2, <3>1 DEF Current
    <3> QED
      BY <2>2, <3>1, <3>2, <3>3 DEF Faithful
  <2> QED
    BY <2>1, <2>2
<1>9. \A p : Known(w, p) => Known(v, p)
  BY <1>2 DEF Known
<1>10. Linked(v, D \ {r})
  <2>1. \A p : Cited(v, p) <=> Cited(w, p) \/ p \in {p1, p2} \ {0}
    BY <1>2, <1>4 DEF Cited
  <2>2. ~ Cited(v, w.next)
    <3>1. ~ Cited(w, w.next)
      BY <1>1, NextUncited
    <3>2. w.next \notin {p1, p2} \ {0}
      BY NextUnused DEF Known
    <3> QED
      BY <2>1, <3>1, <3>2
  <2>3. \A k \in DOMAIN w.objs : w.objs[k].state # w.next
    BY NextUnused
  <2>4. v.objs[r].state = w.next /\ ~ v.objs[r].merged
    BY <1>2, <1>3, StampedFields
  <2>5. \A k \in DOMAIN v.objs : v.objs[k].state # 0
    BY <1>1, <1>2, <2>4, NextUnused DEF Linked
  <2>6. \A j, k \in DOMAIN v.objs : v.objs[j].state = v.objs[k].state => j = k
    BY <1>1, <1>2, <2>3, <2>4 DEF Linked
  <2>7. ASSUME NEW k \in DOMAIN v.rows
        PROVE  Cited(v, v.rows[k].id) \/ \E j \in DOMAIN v.objs : v.objs[j].state = v.rows[k].id
    <3>1. CASE k = m
      BY <1>2, <1>4, <2>4, <3>1
    <3>2. CASE k \in DOMAIN w.rows
      <4>1. CASE Cited(w, w.rows[k].id)
        BY <1>2, <2>1, <3>2, <4>1
      <4>2. CASE ~ Cited(w, w.rows[k].id)
        <5>1. PICK j \in DOMAIN w.objs : w.objs[j].state = w.rows[k].id
          BY <1>1, <3>2, <4>2 DEF Linked
        <5>2. CASE j # r
          BY <1>2, <3>2, <5>1, <5>2
        <5>3. CASE j = r
          <6>1. Booked(w, r)
            BY <3>2, <5>1, <5>3 DEF Booked
          <6>2. r \notin U
            BY <1>1, <6>1 DEF Faithful
          <6>3. w.objs[r].state \in {p1, p2} \ {0}
            BY <1>1, <6>2 DEF Follows, Linked
          <6> QED
            BY <1>2, <2>1, <3>2, <5>1, <5>3, <6>3
        <5> QED
          BY <5>2, <5>3
      <4> QED
        BY <4>1, <4>2
    <3> QED
      BY <1>2, <3>1, <3>2
  <2>8. ASSUME NEW k \in DOMAIN v.objs
        PROVE  IF v.objs[k].merged
               THEN k \notin D \ {r} => Cited(v, v.objs[k].state) /\ v.objs[k].qty = 0
               ELSE ~ Cited(v, v.objs[k].state)
    <3>1. CASE k = r
      BY <2>2, <2>4, <3>1
    <3>2. CASE k # r
      <4>1. /\ v.objs[k] = w.objs[k]
            /\ ~ w.objs[k].merged => w.objs[k].state \notin {p1, p2}
        BY <1>2, <3>2 DEF Follows
      <4>2. IF w.objs[k].merged
            THEN k \notin D => Cited(w, w.objs[k].state) /\ w.objs[k].qty = 0
            ELSE ~ Cited(w, w.objs[k].state)
        BY <1>1, <1>2 DEF Linked
      <4> QED
        BY <2>1, <3>2, <4>1, <4>2
    <3> QED
      BY <3>1, <3>2
  <2> QED
    BY <2>5, <2>6, <2>7, <2>8 DEF Linked
<1> QED
  BY <1>6, <1>7, <1>8, <1>9, <1>10, HistoryFaithful

-----------------------------------------------------------------------------
(***************************************************************************)
(* The steps of a call keep a world sound, whatever programs do.           *)
(***************************************************************************)
Sound(w) == Shape(w) /\ IdsInv(w) /\ QualitiesInv(w)

SameKinds(w, v) ==
    /\ DOMAIN v.objs = DOMAIN w.objs
    /\ \A k \in DOMAIN w.objs : /\ v.objs[k].kind = w.objs[k].kind
                               /\ v.objs[k].obj = w.objs[k].obj /\ v.objs[k].res = w.objs[k].res

\* The objects are as they were but for a new one, with object id m, whose
\* tracker follows object r.
Grown(w, v, m, r) ==
    /\ DOMAIN v.objs = DOMAIN w.objs \cup {Len(w.objs) + 1}
    /\ \A k \in DOMAIN w.objs : v.objs[k].obj = w.objs[k].obj /\ v.objs[k].res = w.objs[k].res
    /\ v.objs[Len(w.objs) + 1].obj = m /\ v.objs[Len(w.objs) + 1].res = r

Keeps(w, v) == Sound(v) /\ SameKinds(w, v)

\* What the calls never change of an object.
SameObject(o, n) ==
    /\ n \in Object /\ Coherent(n)
    /\ n.kind = o.kind /\ n.obj = o.obj /\ n.state = o.state /\ n.res = o.res
    /\ n.ctx = o.ctx /\ n.real = o.real
    /\ n.kind = "Product" => n.qual = o.qual
    /\ o.merged => n.merged

\* A change of what may change in an object keeps a world sound.
LEMMA SoundAlter ==
    ASSUME NEW w, Sound(w), NEW i \in DOMAIN w.objs, NEW o, SameObject(w.objs[i], o)
    PROVE  Keeps(w, Alter(w, i, o)) /\ Altered(w, Alter(w, i, o), i, o)
<1> DEFINE v == Alter(w, i, o)
<1>1. w \in Worlds /\ o \in Object /\ Shape(w) /\ IdsInv(w) /\ QualitiesInv(w)
      /\ w.objs[i].res \in DOMAIN w.objs
  BY DEF Sound, Shape, SameObject
<1>2. Altered(w, v, i, o)
  BY <1>1, AlterEffect
<1> HIDE DEF v
<1>3. Shape(v)
  BY <1>1, <1>2, ShapeAltered DEF SameObject
<1>4. IdsInv(v)
  BY <1>1, <1>2, IdsAltered DEF SameObject
<1>5. QualitiesInv(v)
  BY <1>1, <1>2, QualitiesAltered DEF SameObject
<1>6. SameKinds(w, v)
  BY <1>2 DEF SameKinds, Altered, SameObject
<1> QED
  BY <1>2, <1>3, <1>4, <1>5, <1>6 DEF Keeps, Sound, v

\* Record keeps a world sound.
LEMMA SoundRecord ==
    ASSUME NEW w, Sound(w), NEW i \in DOMAIN w.objs, NEW p1 \in Nat, NEW p2 \in Nat
    PROVE  Keeps(w, Record(w, i, p1, p2))
<1> DEFINE v == Record(w, i, p1, p2)
           r == w.objs[i].res
<1>1. /\ w \in Worlds /\ Shape(w) /\ IdsInv(w) /\ QualitiesInv(w)
      /\ r \in DOMAIN w.objs /\ Coherent(w.objs[r])
  BY DEF Sound, Shape
<1>2. /\ ~ w.objs[i].ctx => v = [w EXCEPT !.error = "null context"]
      /\ w.objs[i].ctx => Written(w, v, r, p1, p2)
  BY <1>1, RecordEffect, ResTrackingAssumption
<1> HIDE DEF v, r
<1>3. CASE ~ w.objs[i].ctx
  <2>1. v = [w EXCEPT !.error = "null context"]
    BY <1>2, <1>3
  <2>2. /\ v \in Worlds /\ v.objs = w.objs /\ v.rows = w.rows /\ v.next = w.next
        /\ v.ids = w.ids /\ v.products = w.products
    BY <1>1, <2>1 DEF Worlds
  <2>3. Shape(v)
    BY <1>1, <2>2 DEF Shape
  <2>4. IdsInv(v)
    BY <1>1, <2>2 DEF IdsInv
  <2>5. QualitiesInv(v)
    BY <1>1, <2>2 DEF QualitiesInv
  <2> QED
    BY <2>2, <2>3, <2>4, <2>5 DEF Keeps, Sound, SameKinds, v
<1>4. CASE w.objs[i].ctx
  <2>1. Written(w, v, r, p1, p2)
    BY <1>2, <1>4
  <2>2. Shape(v)
    BY <1>1, <2>1, ShapeWritten
  <2>3. IdsInv(v)
    BY <1>1, <2>1, IdsWritten
  <2>4. QualitiesInv(v)
    BY <1>1, <2>1, QualitiesWritten
  <2>5. /\ Stamped(w, r).kind = w.objs[r].kind /\ Stamped(w, r).obj = w.objs[r].obj
        /\ Stamped(w, r).res = w.objs[r].res
    BY <1>1, StampedFields
  <2>6. SameKinds(w, v)
    BY <2>1, <2>5 DEF Written, SameKinds
  <2> QED
    BY <2>2, <2>3, <2>4, <2>6 DEF Keeps, Sound, v
<1> QED
  BY <1>3, <1>4

\* The object a constructor makes.
Born(w, kind, qty, qual, ctx, real) ==
    [kind |-> kind, obj |-> nextObj, state |-> w.next, qty |-> qty, qual |-> qual,
     prev |-> IF kind = "Material" /\ ctx THEN now ELSE 0,
     tracked |-> ctx \/ kind = "Product", ctx |-> ctx, res |-> Len(w.objs) + 1,
     real |-> real, merged |-> FALSE]

\* The constructors of Material and Product keep a world sound.
LEMMA SoundNew ==
    ASSUME NEW w, Sound(w), nextObj \in Nat, now \in Nat, NEW kind \in Kinds, NEW qty \in Nat,
           NEW qual, IF kind = "Material" THEN qual \in Comp ELSE qual \in Qualities,
           NEW ctx \in BOOLEAN, NEW real \in BOOLEAN,
           kind = "Product" /\ real => w.ids[qual] # Absent
    PROVE  LET v == New(w, kind, qty, qual, ctx, real)
               o == Born(w, kind, qty, qual, ctx, real)
           IN  Sound(v) /\ Appended(w, v, o) /\ o \in Object /\ Coherent(o)
<1> DEFINE v == New(w, kind, qty, qual, ctx, real)
           o == Born(w, kind, qty, qual, ctx, real)
           s == Append(w.objs, o)
<1>0. w \in Worlds /\ Shape(w) /\ IdsInv(w) /\ QualitiesInv(w)
  BY DEF Sound, Shape
<1>1. /\ w.objs \in Seq(Object) /\ DOMAIN w.objs = 1..Len(w.objs) /\ Len(w.objs) \in Nat
      /\ w.next \in Nat \ {0}
  BY <1>0, Components
<1>2. o \in Object
  <2>1. (IF kind = "Material" /\ ctx THEN now ELSE 0) \in Nat /\ (ctx \/ kind = "Product") \in BOOLEAN
    OBVIOUS
  <2>2. w.next \in Nat /\ Len(w.objs) + 1 \in Nat
    BY <1>1
  <2>3. qual \in Comp \cup Qualities
    OBVIOUS
  <2> QED
    BY <2>1, <2>2, <2>3 DEF Object, Born
<1>3. /\ o.kind = kind /\ o.qual = qual /\ o.real = real /\ o.state = w.next
      /\ o.res = Len(w.objs) + 1
  BY DEF Born
<1>4. Coherent(o)
  BY <1>3 DEF Coherent
<1>5. v = [w EXCEPT !.next = w.next + 1, !.objs = s]
  BY <1>0 DEF New, Worlds, Born
<1> HIDE DEF o
<1>6. /\ s \in Seq(Object) /\ Len(s) = Len(w.objs) + 1 /\ DOMAIN s = 1..(Len(w.objs) + 1)
      /\ s[Len(w.objs) + 1] = o /\ \A k \in 1..Len(w.objs) : s[k] = w.objs[k]
  BY <1>1, <1>2
<1> HIDE DEF s, v
<1>7. /\ v.objs = s /\ v.rows = w.rows /\ v.next = w.next + 1 /\ v.ids = w.ids
      /\ v.products = w.products /\ v.error = w.error
  BY <1>0, <1>5 DEF Worlds
<1>8. v \in Worlds
  <2>1. w.next + 1 \in Nat \ {0}
    BY <1>1
  <2> QED
    BY <1>0, <1>5, <1>6, <2>1 DEF Worlds
<1>9. Appended(w, v, o)
  <2>1. DOMAIN v.objs = DOMAIN w.objs \cup {Len(w.objs) + 1}
    BY <1>1, <1>6, <1>7
  <2>2. v.next >= w.next
    BY <1>1, <1>7
  <2> QED
    BY <1>1, <1>6, <1>7, <1>8, <2>1, <2>2 DEF Appended, SameRest
<1>10. Shape(v)
  <2>1. o.res \in DOMAIN v.objs
    BY <1>3, <1>9 DEF Appended
  <2> QED
    BY <1>0, <1>4, <1>9, <2>1, ShapeAppended
<1>11. IdsInv(v)
  <2>1. o.state < v.next
    BY <1>1, <1>3, <1>7
  <2>2. \A k \in DOMAIN w.objs : w.objs[k].state < w.next /\ w.objs[k].state \in Int
    BY <1>0, Values DEF IdsInv
  <2>3. \A k \in DOMAIN w.objs : o.state # w.objs[k].state
    BY <1>1, <1>3, <2>2
  <2> QED
    BY <1>0, <1>2, <1>9, <2>1, <2>3, IdsAppended
<1>12. QualitiesInv(v)
  BY <1>0, <1>3, <1>9, QualitiesAppended
<1> QED
  BY <1>2, <1>4, <1>9, <1>10, <1>11, <1>12 DEF Sound, o, v

\* ResTracker::Modify keeps a world sound.
LEMMA SoundModify ==
    ASSUME NEW w, Sound(w), NEW i \in DOMAIN w.objs
    PROVE  Keeps(w, Modify(w, i))
<1>1. w \in Worlds /\ w.objs[i].res \in DOMAIN w.objs
  BY DEF Sound, Shape
<1>2. w.objs[w.objs[i].res].state \in Nat
  BY <1>1, Values DEF Object
<1>3. Keeps(w, Record(w, i, w.objs[w.objs[i].res].state, 0))
  BY <1>2, SoundRecord
<1> QED
  BY <1>3 DEF Modify, Keeps, SameKinds

\* The fields the calls set.
LEMMA SetQual ==
    ASSUME NEW o \in Object, o.kind = "Material", NEW c \in Comp
    PROVE  LET n == [o EXCEPT !.qual = c]
           IN  /\ SameObject(o, n) /\ n.qual = c /\ n.qty = o.qty /\ n.prev = o.prev
               /\ n.tracked = o.tracked /\ n.merged = o.merged
<1> DEFINE n == [o EXCEPT !.qual = c]
<1>1. /\ n \in Object /\ n.kind = o.kind /\ n.obj = o.obj /\ n.state = o.state /\ n.res = o.res
      /\ n.ctx = o.ctx /\ n.real = o.real /\ n.qual = c /\ n.qty = o.qty /\ n.prev = o.prev
      /\ n.tracked = o.tracked /\ n.merged = o.merged
  BY DEF Object
<1> HIDE DEF n
<1> QED
  BY <1>1 DEF SameObject, Coherent, n

\* Setting the time of the last decay changes nothing else.
LEMMA SetPrev ==
    ASSUME NEW o \in Object, Coherent(o), NEW t \in Nat
    PROVE  LET n == [o EXCEPT !.prev = t]
           IN  /\ SameObject(o, n) /\ n.qual = o.qual /\ n.qty = o.qty /\ n.prev = t
               /\ n.tracked = o.tracked /\ n.merged = o.merged
<1> DEFINE n == [o EXCEPT !.prev = t]
<1>1. /\ n \in Object /\ n.kind = o.kind /\ n.obj = o.obj /\ n.state = o.state /\ n.res = o.res
      /\ n.ctx = o.ctx /\ n.real = o.real /\ n.qual = o.qual /\ n.qty = o.qty /\ n.prev = t
      /\ n.tracked = o.tracked /\ n.merged = o.merged
  BY DEF Object
<1> HIDE DEF n
<1> QED
  BY <1>1 DEF SameObject, Coherent, n

\* Setting the quantity changes nothing else.
LEMMA SetQty ==
    ASSUME NEW o \in Object, Coherent(o), NEW q \in Nat
    PROVE  LET n == [o EXCEPT !.qty = q]
           IN  /\ SameObject(o, n) /\ n.qual = o.qual /\ n.qty = q /\ n.prev = o.prev
               /\ n.tracked = o.tracked /\ n.merged = o.merged
<1> DEFINE n == [o EXCEPT !.qty = q]
<1>1. /\ n \in Object /\ n.kind = o.kind /\ n.obj = o.obj /\ n.state = o.state /\ n.res = o.res
      /\ n.ctx = o.ctx /\ n.real = o.real /\ n.qual = o.qual /\ n.qty = q /\ n.prev = o.prev
      /\ n.tracked = o.tracked /\ n.merged = o.merged
  BY DEF Object
<1> HIDE DEF n
<1> QED
  BY <1>1 DEF SameObject, Coherent, n

\* Switching tracking changes nothing else.
LEMMA SetTracked ==
    ASSUME NEW o \in Object, Coherent(o), NEW b \in BOOLEAN
    PROVE  LET n == [o EXCEPT !.tracked = b]
           IN  /\ SameObject(o, n) /\ n.qual = o.qual /\ n.qty = o.qty /\ n.prev = o.prev
               /\ n.tracked = b /\ n.merged = o.merged
<1> DEFINE n == [o EXCEPT !.tracked = b]
<1>1. /\ n \in Object /\ n.kind = o.kind /\ n.obj = o.obj /\ n.state = o.state /\ n.res = o.res
      /\ n.ctx = o.ctx /\ n.real = o.real /\ n.qual = o.qual /\ n.qty = o.qty /\ n.prev = o.prev
      /\ n.tracked = b /\ n.merged = o.merged
  BY DEF Object
<1> HIDE DEF n
<1> QED
  BY <1>1 DEF SameObject, Coherent, n

\* Emptying a merged object changes nothing else.
LEMMA SetMerged ==
    ASSUME NEW o \in Object, Coherent(o)
    PROVE  LET n == [o EXCEPT !.qty = 0, !.merged = TRUE]
           IN  /\ SameObject(o, n) /\ n.qual = o.qual /\ n.qty = 0 /\ n.prev = o.prev
               /\ n.tracked = o.tracked /\ n.merged
<1> DEFINE n == [o EXCEPT !.qty = 0, !.merged = TRUE]
<1>1. /\ n \in Object /\ n.kind = o.kind /\ n.obj = o.obj /\ n.state = o.state /\ n.res = o.res
      /\ n.ctx = o.ctx /\ n.real = o.real /\ n.qual = o.qual /\ n.qty = 0 /\ n.prev = o.prev
      /\ n.tracked = o.tracked /\ n.merged
  BY DEF Object
<1> HIDE DEF n
<1> QED
  BY <1>1 DEF SameObject, Coherent, n

\* Keeps is transitive.
LEMMA KeepsTrans ==
    ASSUME NEW w, NEW v, NEW x, Keeps(w, v), Keeps(v, x)
    PROVE  Keeps(w, x)
  BY DEF Keeps, SameKinds

\* The objects of a sound world have their types.
LEMMA SoundObject ==
    ASSUME NEW w, Sound(w), NEW i \in DOMAIN w.objs
    PROVE  w \in Worlds /\ w.objs[i] \in Object /\ Coherent(w.objs[i])
<1>1. w \in Worlds /\ Coherent(w.objs[i])
  BY DEF Sound, Shape
<1> QED
  BY <1>1, Values

\* Material::Transmute keeps a world sound.
LEMMA SoundTransmute ==
    ASSUME NEW w, Sound(w), NEW i \in DOMAIN w.objs, w.objs[i].kind = "Material",
           NEW c \in Comp, now \in Nat
    PROVE  Keeps(w, Transmute(w, i, c))
<1> DEFINE n  == [w.objs[i] EXCEPT !.qual = c]
           w0 == Alter(w, i, n)
           w1 == Modify(w0, i)
           m  == [w1.objs[i] EXCEPT !.prev = now]
<1>1. w \in Worlds /\ w.objs[i] \in Object
  BY SoundObject
<1>2. [w EXCEPT !.objs[i].qual = c] = w0
  BY <1>1 DEF Alter, Worlds
<1>3. Keeps(w, w0)
  BY <1>1, SetQual, SoundAlter
<1> HIDE DEF w0
<1>4. i \in DOMAIN w0.objs
  BY <1>3 DEF Keeps, SameKinds
<1>5. Keeps(w0, w1)
  BY <1>3, <1>4, SoundModify DEF Keeps
<1>6. Keeps(w, w1)
  BY <1>3, <1>5, KeepsTrans
<1> HIDE DEF w1
<1>7. w1 \in Worlds /\ i \in DOMAIN w1.objs /\ w1.objs[i] \in Object /\ Coherent(w1.objs[i])
      /\ Sound(w1)
  BY <1>6, SoundObject DEF Keeps, SameKinds
<1>8. Keeps(w1, Alter(w1, i, m))
  BY <1>7, SetPrev, SoundAlter
<1>9. [w1 EXCEPT !.objs[i].prev = now] = Alter(w1, i, m)
  BY <1>7 DEF Alter, Worlds
<1>10. Keeps(w, Alter(w1, i, m))
  BY <1>6, <1>8, KeepsTrans
<1>11. Transmute(w, i, c) = w1 \/ Transmute(w, i, c) = Alter(w1, i, m)
  <2> HIDE DEF m
  <2> QED
    BY <1>2, <1>9 DEF Transmute, w1
<1> QED
  BY <1>6, <1>10, <1>11

\* A composition stays one as it decays.
LEMMA AgedComp ==
    ASSUME NEW c \in Comp, NEW d \in Int
    PROVE  Aged(c, d) \in Comp
  BY DEF Aged, Comp

\* Material::Decay and an observation of the composition keep a world sound.
LEMMA SoundDecay ==
    ASSUME NEW w, Sound(w), NEW i \in DOMAIN w.objs, w.objs[i].kind = "Material", now \in Nat
    PROVE  Keeps(w, Decay(w, i)) /\ Keeps(w, Observe(w, i))
<1> DEFINE n  == [w.objs[i] EXCEPT !.prev = now]
           w0 == Alter(w, i, n)
           c  == Aged(w.objs[i].qual, now - w.objs[i].prev)
<1>1. w \in Worlds /\ w.objs[i] \in Object /\ Coherent(w.objs[i])
  BY SoundObject
<1>2. [w EXCEPT !.objs[i].prev = now] = w0
  BY <1>1 DEF Alter, Worlds
<1>3. Keeps(w, w0)
  BY <1>1, SetPrev, SoundAlter
<1>4. c \in Comp
  <2>1. w.objs[i].qual \in Comp /\ w.objs[i].prev \in Nat
    BY <1>1 DEF Coherent, Object
  <2> QED
    BY <2>1, AgedComp
<1> HIDE DEF w0, c
<1>5. Sound(w0) /\ i \in DOMAIN w0.objs /\ w0.objs[i].kind = "Material"
  BY <1>3 DEF Keeps, SameKinds
<1>6. Keeps(w0, Transmute(w0, i, c))
  BY <1>4, <1>5, SoundTransmute
<1>7. Keeps(w, Transmute(w0, i, c))
  BY <1>3, <1>6, KeepsTrans
<1>8. Decay(w, i) = w \/ Decay(w, i) = Transmute(w0, i, c)
  BY <1>2 DEF Decay, c
<1>9. Keeps(w, w)
  BY DEF Keeps, SameKinds
<1>10. Keeps(w, Decay(w, i))
  BY <1>7, <1>8, <1>9
<1> QED
  BY <1>9, <1>10 DEF Observe

\* What Material::Absorb makes of the absorbing object.
Mixed(w, i, j) ==
    LET o == w.objs[i]
    IN  [[o EXCEPT !.qual = o.qual \cup w.objs[j].qual] EXCEPT
            !.prev = IF o.qty < w.objs[j].qty THEN w.objs[j].prev ELSE o.prev]

\* What mixing compositions in Material::Absorb changes.
LEMMA SoundMix ==
    ASSUME NEW w, Sound(w), NEW i \in DOMAIN w.objs, NEW j \in DOMAIN w.objs,
           w.objs[i].kind = "Material", w.objs[j].kind = "Material"
    PROVE  LET o == w.objs[i]
               n == Mixed(w, i, j)
           IN  /\ Mix(w, i, j) = Alter(w, i, n) /\ SameObject(o, n)
               /\ n.tracked = o.tracked /\ n.merged = o.merged /\ n.qty = o.qty
               /\ n.qual = o.qual \cup w.objs[j].qual
               /\ n.prev = IF o.qty < w.objs[j].qty THEN w.objs[j].prev ELSE o.prev
<1> DEFINE o == w.objs[i]
           c == o.qual \cup w.objs[j].qual
           t == IF o.qty < w.objs[j].qty THEN w.objs[j].prev ELSE o.prev
           m == [o EXCEPT !.qual = c]
           n == [m EXCEPT !.prev = t]
<1>1. /\ w \in Worlds /\ o \in Object /\ Coherent(o)
      /\ w.objs[j] \in Object /\ Coherent(w.objs[j])
  BY SoundObject
<1>2. c \in Comp
  <2>1. o.qual \in Comp /\ w.objs[j].qual \in Comp
    BY <1>1 DEF Coherent
  <2> QED
    BY <2>1 DEF Comp
<1>3. t \in Nat
  <2>1. o.prev \in Nat /\ w.objs[j].prev \in Nat
    BY <1>1 DEF Object
  <2> QED
    BY <2>1
<1>4. Mix(w, i, j) = Alter(w, i, n)
  BY <1>1 DEF Mix, Alter, Worlds, Object
<1> HIDE DEF c, t
<1>5. /\ SameObject(o, m) /\ m.qual = c /\ m.qty = o.qty
      /\ m.tracked = o.tracked /\ m.merged = o.merged
  BY <1>1, <1>2, SetQual
<1>6. m \in Object /\ Coherent(m)
  BY <1>5 DEF SameObject
<1> HIDE DEF m
<1>7. /\ SameObject(m, n) /\ n.qual = m.qual /\ n.qty = m.qty /\ n.prev = t
      /\ n.tracked = m.tracked /\ n.merged = m.merged
  BY <1>3, <1>6, SetPrev
<1>8. SameObject(o, n)
  BY <1>5, <1>7 DEF SameObject
<1> QED
  BY <1>4, <1>5, <1>7, <1>8 DEF Mixed, m, c, t

\* What Absorb makes of the quantities.
Filled(w, i, j) == [w.objs[i] EXCEPT !.qty = w.objs[i].qty + w.objs[j].qty]
Emptied(w, j)   == [w.objs[j] EXCEPT !.qty = 0, !.merged = TRUE]

\* Absorbing fills one object and empties the other.
LEMMA PourEffect ==
    ASSUME NEW w, Sound(w), NEW i \in DOMAIN w.objs, NEW j \in DOMAIN w.objs, i # j
    PROVE  LET n == Filled(w, i, j)
               m == Emptied(w, j)
           IN  /\ Pour(w, i, j) = Alter(Alter(w, i, n), j, m)
               /\ SameObject(w.objs[i], n) /\ SameObject(w.objs[j], m)
               /\ n.tracked = w.objs[i].tracked /\ m.tracked = w.objs[j].tracked /\ m.merged
               /\ n.qual = w.objs[i].qual /\ m.qual = w.objs[j].qual
               /\ n.prev = w.objs[i].prev /\ m.prev = w.objs[j].prev
               /\ n.qty = w.objs[i].qty + w.objs[j].qty /\ m.qty = 0
<1> DEFINE n == [w.objs[i] EXCEPT !.qty = w.objs[i].qty + w.objs[j].qty]
           m == [w.objs[j] EXCEPT !.qty = 0, !.merged = TRUE]
<1>1. /\ w \in Worlds /\ w.objs[i] \in Object /\ Coherent(w.objs[i])
      /\ w.objs[j] \in Object /\ Coherent(w.objs[j])
  BY SoundObject
<1>2. w.objs[i].qty + w.objs[j].qty \in Nat
  <2>1. w.objs[i].qty \in Nat /\ w.objs[j].qty \in Nat
    BY <1>1 DEF Object
  <2> QED
    BY <2>1
<1>3. Pour(w, i, j) = Alter(Alter(w, i, n), j, m)
  BY <1>1 DEF Pour, Alter, Worlds, Object
<1>4. /\ SameObject(w.objs[i], n) /\ n.tracked = w.objs[i].tracked
      /\ n.qual = w.objs[i].qual /\ n.prev = w.objs[i].prev
      /\ n.qty = w.objs[i].qty + w.objs[j].qty
  BY <1>1, <1>2, SetQty
<1>5. /\ SameObject(w.objs[j], m) /\ m.tracked = w.objs[j].tracked /\ m.merged /\ m.qty = 0
      /\ m.qual = w.objs[j].qual /\ m.prev = w.objs[j].prev
  BY <1>1, SetMerged
<1> QED
  BY <1>3, <1>4, <1>5 DEF Filled, Emptied

\* Absorbing keeps a world sound.
LEMMA SoundPour ==
    ASSUME NEW w, Sound(w), NEW i \in DOMAIN w.objs, NEW j \in DOMAIN w.objs, i # j
    PROVE  Keeps(w, Pour(w, i, j))
<1> DEFINE n == Filled(w, i, j)
           m == Emptied(w, j)
           v == Alter(w, i, n)
<1>1. /\ Pour(w, i, j) = Alter(v, j, m)
      /\ SameObject(w.objs[i], n) /\ SameObject(w.objs[j], m)
  BY PourEffect
<1> HIDE DEF n, m
<1>2. Keeps(w, v) /\ Altered(w, v, i, n)
  BY <1>1, SoundAlter
<1> HIDE DEF v
<1>3. Sound(v) /\ j \in DOMAIN v.objs /\ v.objs[j] = w.objs[j]
  BY <1>2 DEF Keeps, Altered
<1>4. Keeps(v, Alter(v, j, m))
  BY <1>1, <1>3, SoundAlter
<1> QED
  BY <1>1, <1>2, <1>4, KeepsTrans

\* The state id of a tracker's resource is a number.
LEMMA SoundState ==
    ASSUME NEW w, Sound(w), NEW i \in DOMAIN w.objs
    PROVE  w.objs[i].res \in DOMAIN w.objs /\ w.objs[w.objs[i].res].state \in Nat
<1>1. w \in Worlds /\ w.objs[i].res \in DOMAIN w.objs
  BY DEF Sound, Shape
<1>2. w.objs[w.objs[i].res] \in Object
  BY <1>1, Values
<1> QED
  BY <1>1, <1>2 DEF Object

\* ResTracker::Absorb keeps a world sound.
LEMMA SoundAbsorb ==
    ASSUME NEW w, Sound(w), NEW i \in DOMAIN w.objs, NEW j \in DOMAIN w.objs, i # j
    PROVE  Keeps(w, TrackAbsorb(Pour(w, i, j), i, j))
<1> DEFINE v == Pour(w, i, j)
<1>1. Keeps(w, v)
  BY SoundPour
<1> HIDE DEF v
<1>2. Sound(v) /\ i \in DOMAIN v.objs /\ j \in DOMAIN v.objs
  BY <1>1 DEF Keeps, SameKinds
<1>3. v.objs[v.objs[i].res].state \in Nat /\ v.objs[v.objs[j].res].state \in Nat
  BY <1>2, SoundState
<1>4. Keeps(v, Record(v, i, v.objs[v.objs[i].res].state, v.objs[v.objs[j].res].state))
  BY <1>2, <1>3, SoundRecord
<1>5. TrackAbsorb(v, i, j) = v \/ Keeps(v, TrackAbsorb(v, i, j))
  BY <1>4 DEF TrackAbsorb
<1> QED
  BY <1>1, <1>5, KeepsTrans DEF v

\* ResTracker::Extract keeps a world sound.
LEMMA SoundTrackExtract ==
    ASSUME NEW w, Sound(w), NEW i \in DOMAIN w.objs, NEW j \in DOMAIN w.objs
    PROVE  Keeps(w, TrackExtract(w, i, j))
<1> DEFINE n == [w.objs[j] EXCEPT !.tracked = TRUE]
           v == Alter(w, j, n)
           p == w.objs[w.objs[i].res].state
           x == Record(v, i, p, 0)
<1>1. w \in Worlds /\ w.objs[j] \in Object /\ Coherent(w.objs[j])
  BY SoundObject
<1>2. [w EXCEPT !.objs[j].tracked = TRUE] = v
  BY <1>1 DEF Alter, Worlds
<1>3. Keeps(w, v)
  BY <1>1, SetTracked, SoundAlter
<1> HIDE DEF v
<1>4. Sound(v) /\ i \in DOMAIN v.objs /\ j \in DOMAIN v.objs /\ p \in Nat
  BY <1>3, SoundState DEF Keeps, SameKinds
<1> HIDE DEF p
<1>5. Keeps(v, x)
  BY <1>4, SoundRecord
<1> HIDE DEF x
<1>6. Sound(x) /\ j \in DOMAIN x.objs
  BY <1>4, <1>5 DEF Keeps, SameKinds
<1>7. Keeps(x, Record(x, j, p, 0))
  BY <1>4, <1>6, SoundRecord
<1>8. Keeps(w, Record(x, j, p, 0))
  BY <1>3, <1>5, <1>7, KeepsTrans
<1>9. Keeps(w, w)
  BY DEF Keeps, SameKinds
<1>10. TrackExtract(w, i, j) = w \/ TrackExtract(w, i, j) = Record(x, j, p, 0)
  BY <1>2 DEF TrackExtract, x, p
<1> QED
  BY <1>8, <1>9, <1>10

\* Product::Create gives a quality that has none the next id.
LEMMA SoundProductId ==
    ASSUME NEW w, Sound(w), NEW q \in Qualities
    PROVE  LET v == ProductId(w, q)
           IN  /\ Sound(v) /\ v.ids[q] # Absent /\ v.objs = w.objs /\ v.rows = w.rows
               /\ v.next = w.next
               /\ \A p \in Qualities : p # q => v.ids[p] = w.ids[p]
               /\ (w.ids[q] # Absent => v = w)
<1> DEFINE v == ProductId(w, q)
           N == Numbered(w.ids)
           c == Cardinality(N)
<1>0. w \in Worlds /\ Shape(w) /\ IdsInv(w) /\ QualitiesInv(w)
  BY DEF Sound, Shape
<1>1. /\ w.ids \in [Qualities -> Int] /\ w.ids \in [Qualities -> IdValues]
      /\ w.products \in SUBSET (Int \X Qualities)
  BY <1>0, Components
<1>2. CASE w.ids[q] # Absent
  BY <1>2 DEF ProductId
<1>3. CASE w.ids[q] = Absent
  <2>1. N = {p \in Qualities : w.ids[p] > 0} /\ q \notin N
    BY <1>1, <1>3 DEF Numbered, Absent
  <2>2. /\ IsFiniteSet(N) /\ \A p \in N : w.ids[p] <= c
        /\ \A p, r \in N : w.ids[p] = w.ids[r] => p = r
        /\ w.products = {<<w.ids[p], p>> : p \in N}
        /\ \A i \in DOMAIN w.objs :
             w.objs[i].kind = "Product" /\ w.objs[i].real => w.ids[w.objs[i].qual] # Absent
    BY <1>0 DEF QualitiesInv
  <2>3. c \in Nat
    BY <2>2, FS_CardinalityType
  <2> DEFINE ids == [w.ids EXCEPT ![q] = c + 1]
             prods == w.products \cup {<<c + 1, q>>}
             M == Numbered(ids)
  <2>4. v = [w EXCEPT !.ids = ids, !.products = prods]
    BY <1>0, <1>3, <2>1 DEF ProductId, Worlds
  <2> HIDE DEF N, c
  <2>5a. ids \in [Qualities -> IdValues]
    <3>1. c + 1 \in IdValues
      BY <2>3 DEF IdValues
    <3> QED
      BY <1>1, <3>1
  <2>5. ids \in [Qualities -> Int] /\ ids[q] = c + 1 /\ \A p \in Qualities : p # q => ids[p] = w.ids[p]
    BY <1>1, <2>3
  <2>6. M = N \cup {q}
    BY <1>1, <2>1, <2>3, <2>5 DEF Numbered
  <2>7. prods \in SUBSET (Int \X Qualities)
    BY <1>1, <2>3
  <2> HIDE DEF ids, prods, v, M
  <2>8. v \in Worlds
    BY <1>0, <2>4, <2>5a, <2>7 DEF Worlds
  <2>9. /\ v.ids = ids /\ v.products = prods /\ v.objs = w.objs /\ v.rows = w.rows
        /\ v.next = w.next
    BY <1>0, <2>4 DEF Worlds
  <2>10. IsFiniteSet(M) /\ Cardinality(M) = c + 1
    BY <2>1, <2>2, <2>6, FS_AddElement DEF c
  <2>11. N \subseteq Qualities /\ \A p \in N : w.ids[p] \in Int
    BY <1>1, <2>1
  <2>12. \A p \in M : ids[p] <= c + 1
    BY <2>1, <2>2, <2>3, <2>5, <2>6, <2>11
  <2>13. \A p, r \in M : ids[p] = ids[r] => p = r
    BY <2>1, <2>2, <2>3, <2>5, <2>6, <2>11
  <2>14. prods = {<<ids[p], p>> : p \in M}
    <3>1. {<<ids[p], p>> : p \in M} = {<<ids[p], p>> : p \in N} \cup {<<ids[q], q>>}
      BY <2>6
    <3>2. {<<ids[p], p>> : p \in N} = {<<w.ids[p], p>> : p \in N}
      BY <2>1, <2>5, <2>11
    <3> QED
      BY <2>2, <2>5, <3>1, <3>2 DEF prods
  <2>15. \A i \in DOMAIN w.objs :
             w.objs[i].kind = "Product" /\ w.objs[i].real => ids[w.objs[i].qual] # Absent
    <3> SUFFICES ASSUME NEW i \in DOMAIN w.objs, w.objs[i].kind = "Product", w.objs[i].real
                 PROVE  ids[w.objs[i].qual] # Absent
      OBVIOUS
    <3>1. w.objs[i].qual \in Qualities /\ w.ids[w.objs[i].qual] # Absent
      BY <1>0, <2>2 DEF Shape, Coherent
    <3> QED
      BY <1>3, <2>5, <3>1
  <2>16. QualitiesInv(v)
    BY <2>9, <2>10, <2>12, <2>13, <2>14, <2>15 DEF QualitiesInv, M
  <2>17. Shape(v)
    BY <1>0, <2>8, <2>9 DEF Shape
  <2>18. IdsInv(v)
    BY <1>0, <2>9 DEF IdsInv
  <2>19. v.ids[q] # Absent
    BY <2>3, <2>5, <2>9 DEF Absent
  <2> QED
    BY <1>3, <2>5, <2>9, <2>16, <2>17, <2>18, <2>19 DEF Sound, v
<1> QED
  BY <1>2, <1>3

-----------------------------------------------------------------------------
(***************************************************************************)
(* The calls keep the world sound.                                         *)
(***************************************************************************)
LEMMA BecomeWorld ==
    ASSUME NEW w \in Worlds, Become(w)
    PROVE  World' = w
<1>1. w = [objs |-> w.objs, rows |-> w.rows, next |-> w.next, ids |-> w.ids,
           products |-> w.products, error |-> w.error]
  BY DEF Worlds
<1> QED
  BY <1>1 DEF Become, World

\* Soundness of the next world is soundness in the next state.
LEMMA SoundPrime ==
    ASSUME Sound(World')
    PROVE  Sound(World)'
  BY DEF Sound, Shape, Coherent, IdsInv, QualitiesInv, Numbered, Worlds

\* The next world is the one an action computes.
LEMMA SoundBecome ==
    ASSUME NEW w, Sound(w), Become(w)
    PROVE  Sound(World') /\ World' = w
<1>1. World' = w
  BY BecomeWorld DEF Sound, Shape
<1> QED
  BY <1>1

\* A world's parts are the variables.
LEMMA WorldParts ==
    /\ World.objs = objs /\ World.rows = rows /\ World.next = nextState
    /\ World.ids = qualids /\ World.products = products /\ World.error = error
  BY DEF World

\* A new material's composition has its type.
LEMMA NewCompsTyped ==
    ASSUME now \in Nat
    PROVE  \A c \in NewComps : c \in Comp
  BY DEF NewComps, Comp

\* A constructor's object has the next object id and is what its tracker follows.
LEMMA BornGrows ==
    ASSUME NEW w, NEW v, NEW kind, NEW qty, NEW qual, NEW ctx, NEW real,
           Appended(w, v, Born(w, kind, qty, qual, ctx, real))
    PROVE  Grown(w, v, nextObj, Len(w.objs) + 1)
<1>1. LET o == Born(w, kind, qty, qual, ctx, real) IN o.obj = nextObj /\ o.res = Len(w.objs) + 1
  BY DEF Born
<1> QED
  BY <1>1 DEF Appended, Grown

\* What is recorded afterwards does not change that.
LEMMA GrownKept ==
    ASSUME NEW w, NEW v, NEW x, NEW m, NEW r, Grown(w, v, m, r), SameKinds(v, x)
    PROVE  Grown(w, x, m, r)
  BY DEF Grown, SameKinds

\* Creating a resource and recording it keeps a world sound.
LEMMA SoundCreate ==
    ASSUME NEW w, Sound(w), nextObj \in Nat, now \in Nat, NEW kind \in Kinds, NEW qty \in Nat,
           NEW qual, IF kind = "Material" THEN qual \in Comp ELSE qual \in Qualities,
           kind = "Product" => w.ids[qual] # Absent
    PROVE  LET v == Record(New(w, kind, qty, qual, TRUE, TRUE), Len(w.objs) + 1, 0, 0)
           IN  Sound(v) /\ Grown(w, v, nextObj, Len(w.objs) + 1)
<1> DEFINE v == New(w, kind, qty, qual, TRUE, TRUE)
           o == Born(w, kind, qty, qual, TRUE, TRUE)
           n == Len(w.objs) + 1
<1>1. Sound(v) /\ Appended(w, v, o)
  BY SoundNew
<1>2. n \in DOMAIN v.objs
  BY <1>1 DEF Appended
<1>3. Grown(w, v, nextObj, n)
  BY <1>1, BornGrows
<1> HIDE DEF v
<1>4. Keeps(v, Record(v, n, 0, 0))
  BY <1>1, <1>2, SoundRecord
<1> QED
  BY <1>3, <1>4, GrownKept DEF Keeps, v

\* Material::Create and Product::Create keep the world sound.
LEMMA CreatesSound ==
    ASSUME Types, Sound(World), CreateMaterial \/ CreateProduct
    PROVE  Sound(World') /\ Grown(World, World', nextObj, Len(objs) + 1)
<1>1. /\ nextObj \in Nat /\ now \in Nat /\ World.objs = objs
      /\ MaxQty \in Nat /\ \A q \in 1..MaxQty : q \in Nat
  BY WorldParts, ResTrackingAssumption DEF Types
<1>2. CASE CreateMaterial
  <2>1. PICK q \in 1..MaxQty, c \in NewComps :
          Become(Record(New(World, "Material", q, c, TRUE, TRUE), Len(objs) + 1, 0, 0))
    BY <1>2 DEF CreateMaterial
  <2>2. c \in Comp /\ "Material" \in Kinds /\ q \in Nat
    BY <1>1, <1>2, NewCompsTyped DEF CreateMaterial
  <2> DEFINE x == Record(New(World, "Material", q, c, TRUE, TRUE), Len(World.objs) + 1, 0, 0)
  <2>3. Sound(x) /\ Grown(World, x, nextObj, Len(World.objs) + 1)
    BY <1>1, <2>2, SoundCreate
  <2>4. Become(x)
    BY <1>1, <2>1
  <2> HIDE DEF x
  <2> QED
    BY <1>1, <2>3, <2>4, SoundBecome
<1>3. CASE CreateProduct
  <2>1. PICK n \in 1..MaxQty, q \in Qualities :
          Become(Record(New(ProductId(World, q), "Product", n, q, TRUE, TRUE), Len(objs) + 1, 0, 0))
    BY <1>3 DEF CreateProduct
  <2> DEFINE v == ProductId(World, q)
  <2>2. "Product" \in Kinds /\ n \in Nat
    BY <1>1, <1>3 DEF CreateProduct
  <2>3. Sound(v) /\ v.ids[q] # Absent /\ v.objs = World.objs
    BY SoundProductId
  <2> HIDE DEF v
  <2> DEFINE x == Record(New(v, "Product", n, q, TRUE, TRUE), Len(v.objs) + 1, 0, 0)
  <2>4. Sound(x) /\ Grown(v, x, nextObj, Len(v.objs) + 1)
    BY <1>1, <2>2, <2>3, SoundCreate
  <2>5. Become(x)
    BY <1>1, <2>1, <2>3 DEF v
  <2> HIDE DEF x
  <2>6. Grown(World, x, nextObj, Len(objs) + 1)
    BY <1>1, <2>3, <2>4 DEF Grown
  <2> QED
    BY <2>4, <2>5, <2>6, SoundBecome
<1> QED
  BY <1>2, <1>3

\* CreateUntracked keeps the world sound.
LEMMA UntrackedSound ==
    ASSUME Types, Sound(World), CreateUntracked
    PROVE  Sound(World') /\ Grown(World, World', nextObj, Len(objs) + 1)
<1>1. PICK kind \in Kinds, n \in 1..MaxQty :
        \E q \in IF kind = "Material" THEN NewComps ELSE Qualities :
           Become([New(World, kind, n, q, FALSE, FALSE) EXCEPT !.objs[Len(objs) + 1].tracked = FALSE])
  BY DEF CreateUntracked
<1>2. PICK q \in IF kind = "Material" THEN NewComps ELSE Qualities :
        Become([New(World, kind, n, q, FALSE, FALSE) EXCEPT !.objs[Len(objs) + 1].tracked = FALSE])
  BY <1>1
<1> DEFINE w == New(World, kind, n, q, FALSE, FALSE)
           o == Born(World, kind, n, q, FALSE, FALSE)
           j == Len(objs) + 1
<1>3. nextObj \in Nat /\ now \in Nat /\ World.objs = objs /\ n \in Nat
  BY WorldParts, ResTrackingAssumption DEF Types
<1>4. IF kind = "Material" THEN q \in Comp ELSE q \in Qualities
  BY <1>2, <1>3, NewCompsTyped
<1>5. Sound(w) /\ Appended(World, w, o)
  BY <1>3, <1>4, SoundNew
<1>a. Grown(World, w, nextObj, Len(objs) + 1)
  BY <1>3, <1>5, BornGrows
<1> HIDE DEF w, o
<1>6. j \in DOMAIN w.objs
  BY <1>3, <1>5 DEF Appended
<1>7. w \in Worlds /\ w.objs[j] \in Object /\ Coherent(w.objs[j])
  BY <1>5, <1>6, SoundObject
<1> HIDE DEF j
<1>8. SameObject(w.objs[j], [w.objs[j] EXCEPT !.tracked = FALSE])
  BY <1>7, SetTracked
<1>9. [w EXCEPT !.objs[j].tracked = FALSE] = Alter(w, j, [w.objs[j] EXCEPT !.tracked = FALSE])
  BY <1>7 DEF Alter, Worlds
<1> DEFINE x == Alter(w, j, [w.objs[j] EXCEPT !.tracked = FALSE])
<1>10. Keeps(w, x)
  BY <1>5, <1>6, <1>8, SoundAlter
<1>11. Become(x)
  BY <1>2, <1>9 DEF w, j
<1> HIDE DEF x
<1>12. Sound(x) /\ Grown(World, x, nextObj, Len(objs) + 1)
  BY <1>a, <1>10, GrownKept DEF Keeps
<1> QED
  BY <1>11, <1>12, SoundBecome

\* The copy constructor: the copy shares ids and tracked object with its original.
LEMMA CloneSound ==
    ASSUME Types, Sound(World), Clone
    PROVE  Sound(World') /\ \E i \in DOMAIN objs : Grown(World, World', objs[i].obj, objs[i].res)
<1>1. PICK i \in DOMAIN objs :
        objs' = Append(objs, [objs[i] EXCEPT !.tracked = FALSE, !.real = FALSE])
  BY DEF Clone
<1> DEFINE w == World
           v == World'
           o == [objs[i] EXCEPT !.tracked = FALSE, !.real = FALSE]
           s == Append(objs, o)
<1>2. w.objs = objs /\ w.rows = rows /\ w.next = nextState /\ w.ids = qualids
      /\ w.products = products /\ w.error = error
  BY WorldParts
<1>3. v.objs = s /\ v.rows = rows /\ v.next = nextState /\ v.ids = qualids
      /\ v.products = products /\ v.error = error
  BY <1>1 DEF Clone, World
<1>4. w \in Worlds /\ Shape(w) /\ IdsInv(w) /\ QualitiesInv(w) /\ objs[i] \in Object
      /\ Coherent(objs[i]) /\ objs[i].res \in DOMAIN objs
  BY <1>2, SoundObject DEF Sound, Shape
<1>5. /\ o \in Object /\ o.state = objs[i].state /\ o.obj = objs[i].obj /\ o.kind = objs[i].kind
      /\ o.qual = objs[i].qual /\ o.res = objs[i].res /\ ~ o.real
  BY <1>4 DEF Object
<1>6. /\ objs \in Seq(Object) /\ DOMAIN objs = 1..Len(objs) /\ Len(objs) \in Nat
      /\ w.next \in Nat \ {0}
  BY <1>2, <1>4, Components
<1> HIDE DEF o
<1>7. /\ s \in Seq(Object) /\ Len(s) = Len(objs) + 1 /\ DOMAIN s = 1..(Len(objs) + 1)
      /\ s[Len(objs) + 1] = o /\ \A k \in 1..Len(objs) : s[k] = objs[k]
  BY <1>5, <1>6
<1> HIDE DEF s
<1>8. v = [objs |-> s, rows |-> w.rows, next |-> w.next, ids |-> w.ids,
           products |-> w.products, error |-> w.error]
  <2>1. v = [objs |-> s, rows |-> rows, next |-> nextState, ids |-> qualids,
             products |-> products, error |-> error]
    BY <1>1 DEF Clone, World, s, o
  <2> QED
    BY <1>2, <2>1
<1> HIDE DEF v, w
<1>9. v \in Worlds
  <2>1. /\ w.rows \in Seq(Row) /\ w.next \in Nat \ {0} /\ w.ids \in [Qualities -> IdValues]
        /\ w.products \in SUBSET (Int \X Qualities) /\ w.error \in {"none", "null context"}
    BY <1>4, Components
  <2> QED
    BY <1>7, <1>8, <2>1 DEF Worlds
<1>10. Appended(w, v, o)
  <2>1. DOMAIN v.objs = DOMAIN w.objs \cup {Len(w.objs) + 1}
    BY <1>2, <1>3, <1>6, <1>7
  <2>2. v.next >= w.next
    BY <1>2, <1>3, <1>6
  <2> QED
    BY <1>2, <1>3, <1>6, <1>7, <1>9, <2>1, <2>2 DEF Appended, SameRest
<1>11. Shape(v)
  <2>1. o.res \in DOMAIN v.objs /\ Coherent(o)
    BY <1>2, <1>4, <1>5, <1>10 DEF Appended, Coherent
  <2> QED
    BY <1>4, <1>10, <2>1, ShapeAppended
<1>12. IdsInv(v)
  <2>1. /\ w.objs[i].state < w.next /\ v.next = w.next
        /\ \A k \in DOMAIN w.objs : w.objs[i].state = w.objs[k].state => w.objs[i].obj = w.objs[k].obj
    BY <1>2, <1>3, <1>4 DEF IdsInv
  <2>2. /\ o.state < v.next
        /\ \A k \in DOMAIN w.objs : o.state = w.objs[k].state => o.obj = w.objs[k].obj
    BY <1>2, <1>5, <2>1
  <2> QED
    BY <1>4, <1>5, <1>10, <2>2, IdsAppended
<1>13. QualitiesInv(v)
  BY <1>4, <1>5, <1>10, QualitiesAppended
<1>14. Grown(w, v, objs[i].obj, objs[i].res)
  BY <1>5, <1>10 DEF Grown, Appended
<1> QED
  BY <1>11, <1>12, <1>13, <1>14 DEF Sound, v, w

(***************************************************************************)
(* An extraction: the original shrinks, the piece is made, and both are    *)
(* recorded.                                                               *)
(***************************************************************************)
Remainder(w, i, q, rest) == [[w.objs[i] EXCEPT !.qty = w.objs[i].qty - q] EXCEPT !.qual = rest]
Shrunk(w, i, q, rest)    == Alter(w, i, Remainder(w, i, q, rest))
Removed(w, i, q, c, rest) ==
    New(Shrunk(w, i, q, rest), w.objs[i].kind, q, c, w.objs[i].ctx, w.objs[i].real)
Newborn(w, i, q, c, rest) ==
    Born(Shrunk(w, i, q, rest), w.objs[i].kind, q, c, w.objs[i].ctx, w.objs[i].real)
Piece(w, i, q, c, rest) == [Newborn(w, i, q, c, rest) EXCEPT !.prev = w.objs[i].prev]
Cut(w, i, q, c, rest) ==
    Alter(Removed(w, i, q, c, rest), Len(w.objs) + 1, Piece(w, i, q, c, rest))

\* The operations of Extract.
Split(w, i, q, c, rest) ==
    LET j  == Len(w.objs) + 1
        w0 == [w EXCEPT !.objs[i].qty = @ - q, !.objs[i].qual = rest]
        w1 == New(w0, w.objs[i].kind, q, c, w.objs[i].ctx, w.objs[i].real)
    IN  TrackExtract([w1 EXCEPT !.objs[j].prev = w.objs[i].prev], i, j)

\* Taking a quantity out of an object: the remainder, the new object and the
\* world between them are sound.
LEMMA ExtractSound ==
    ASSUME NEW w, Sound(w), nextObj \in Nat, now \in Nat, NEW i \in DOMAIN w.objs,
           NEW q \in Nat, q <= w.objs[i].qty, NEW c, NEW rest,
           IF w.objs[i].kind = "Material" THEN c \in Comp /\ rest \in Comp
           ELSE c = w.objs[i].qual /\ rest = c
    PROVE  LET n  == Remainder(w, i, q, rest)
               w0 == Shrunk(w, i, q, rest)
               w1 == Removed(w, i, q, c, rest)
               o  == Newborn(w, i, q, c, rest)
               m  == Piece(w, i, q, c, rest)
               w2 == Cut(w, i, q, c, rest)
               j  == Len(w.objs) + 1
           IN  /\ Split(w, i, q, c, rest) = TrackExtract(w2, i, j)
               /\ SameObject(w.objs[i], n) /\ Keeps(w, w0) /\ Altered(w, w0, i, n)
               /\ n.tracked = w.objs[i].tracked /\ n.prev = w.objs[i].prev /\ n.qual = rest
               /\ n.qty = w.objs[i].qty - q /\ m.qty = q
               /\ Sound(w1) /\ Appended(w0, w1, o)
               /\ SameObject(o, m) /\ Sound(w2) /\ Altered(w1, w2, j, m)
               /\ m.tracked = o.tracked /\ m.prev = w.objs[i].prev /\ m.qual = c
               /\ i \in DOMAIN w2.objs /\ j \in DOMAIN w2.objs
               /\ Sound(TrackExtract(w2, i, j)) /\ Grown(w, TrackExtract(w2, i, j), nextObj, j)
<1> DEFINE u  == [w.objs[i] EXCEPT !.qty = w.objs[i].qty - q]
           n  == [u EXCEPT !.qual = rest]
           w0 == Alter(w, i, n)
           kind == w.objs[i].kind
           ctx == w.objs[i].ctx
           real == w.objs[i].real
           w1 == New(w0, kind, q, c, ctx, real)
           o  == Born(w0, kind, q, c, ctx, real)
           j  == Len(w.objs) + 1
           m  == [o EXCEPT !.prev = w.objs[i].prev]
           w2 == Alter(w1, j, m)
<1>0. /\ n = Remainder(w, i, q, rest) /\ w0 = Shrunk(w, i, q, rest) /\ w1 = Removed(w, i, q, c, rest)
      /\ o = Newborn(w, i, q, c, rest) /\ m = Piece(w, i, q, c, rest) /\ w2 = Cut(w, i, q, c, rest)
  BY DEF Remainder, Shrunk, Removed, Newborn, Piece, Cut
<1>1. w \in Worlds /\ w.objs[i] \in Object /\ Coherent(w.objs[i])
  BY SoundObject
<1>2. /\ kind \in Kinds /\ kind \in {"Material", "Product"} /\ w.objs[i].qty \in Nat
      /\ ctx \in BOOLEAN /\ real \in BOOLEAN /\ w.objs[i].prev \in Nat
  BY <1>1, ResTrackingAssumption DEF Object
<1>3. w.objs[i].qty - q \in Nat
  BY <1>2
<1>4. /\ SameObject(w.objs[i], u) /\ u.tracked = w.objs[i].tracked /\ u.prev = w.objs[i].prev
      /\ u.qual = w.objs[i].qual /\ u.qty = w.objs[i].qty - q
  BY <1>1, <1>3, SetQty
<1>5. [w EXCEPT !.objs[i].qty = @ - q, !.objs[i].qual = rest] = w0
  BY <1>1 DEF Alter, Worlds, Object
<1>6. u \in Object /\ Coherent(u) /\ u.kind = kind
  BY <1>4 DEF SameObject
<1> HIDE DEF u
<1>7. /\ SameObject(u, n) /\ n.tracked = u.tracked /\ n.prev = u.prev /\ n.qual = rest
      /\ n.qty = u.qty
  <2>1. CASE kind = "Material"
    BY <1>6, <2>1, SetQual
  <2>2. CASE kind = "Product"
    <3>1. n = u
      BY <1>4, <1>6, <2>2 DEF Object
    <3> QED
      BY <1>4, <1>6, <2>2, <3>1 DEF SameObject
  <2> QED
    BY <1>2, <2>1, <2>2
<1> HIDE DEF n
<1>8. SameObject(w.objs[i], n) /\ n.tracked = w.objs[i].tracked /\ n.prev = w.objs[i].prev
      /\ n.qual = rest /\ n.qty = w.objs[i].qty - q
  BY <1>4, <1>7 DEF SameObject
<1>9. Keeps(w, w0) /\ Altered(w, w0, i, n)
  BY <1>8, SoundAlter
<1> HIDE DEF w0
<1>10. Sound(w0) /\ Len(w0.objs) = Len(w.objs) /\ w0.ids = w.ids /\ i \in DOMAIN w0.objs
  BY <1>9 DEF Keeps, Altered, SameRest
<1>11. kind = "Product" /\ real => w0.ids[c] # Absent
  BY <1>10 DEF Sound, QualitiesInv
<1>12. IF kind = "Material" THEN c \in Comp ELSE c \in Qualities
  BY <1>1 DEF Coherent
<1> HIDE DEF kind, ctx, real
<1>13. Sound(w1) /\ Appended(w0, w1, o)
  BY <1>2, <1>10, <1>11, <1>12, SoundNew
<1>13a. o.qual = c /\ o.qty = q
  BY DEF Born
<1>13b. Grown(w, w1, nextObj, j)
  <2>1. Grown(w0, w1, nextObj, j)
    BY <1>10, <1>13, BornGrows
  <2> HIDE DEF w1, j
  <2> QED
    BY <1>9, <1>10, <2>1 DEF Grown, Keeps, SameKinds
<1> HIDE DEF w1, o
<1>14. j \in DOMAIN w1.objs /\ w1.objs[j] = o /\ i \in DOMAIN w1.objs
  BY <1>10, <1>13 DEF Appended
<1>15. w1 \in Worlds /\ w1.objs[j] \in Object /\ Coherent(w1.objs[j])
  BY <1>13, <1>14, SoundObject
<1>16. [w1 EXCEPT !.objs[j].prev = w.objs[i].prev] = w2
  BY <1>14, <1>15 DEF Alter, Worlds
<1>16a. Split(w, i, q, c, rest) = TrackExtract(w2, i, j)
  BY <1>5, <1>16 DEF Split, w1, kind, ctx, real
<1> HIDE DEF j
<1>17. SameObject(o, m) /\ m.tracked = o.tracked /\ m.prev = w.objs[i].prev /\ m.qual = o.qual
      /\ m.qty = o.qty
  BY <1>2, <1>14, <1>15, SetPrev
<1> HIDE DEF m
<1>18. Keeps(w1, w2) /\ Altered(w1, w2, j, m)
  BY <1>13, <1>14, <1>17, SoundAlter
<1> HIDE DEF w2
<1>19. Sound(w2) /\ i \in DOMAIN w2.objs /\ j \in DOMAIN w2.objs
  BY <1>14, <1>18 DEF Keeps, SameKinds
<1>20. Keeps(w2, TrackExtract(w2, i, j))
  BY <1>19, SoundTrackExtract
<1>21. Sound(TrackExtract(w2, i, j)) /\ Grown(w, TrackExtract(w2, i, j), nextObj, j)
  BY <1>13b, <1>18, <1>20, GrownKept DEF Keeps
<1> QED
  BY <1>0, <1>8, <1>9, <1>13, <1>13a, <1>16a, <1>17, <1>18, <1>19, <1>21 DEF j

\* What Extract chooses: the composition of the piece and of the remainder.
LEMMA ExtractChoice ==
    ASSUME Types, Sound(World), Extract
    PROVE  \E i \in DOMAIN World.objs, q \in Nat : \E c, rest :
              /\ q <= World.objs[i].qty /\ Become(Split(World, i, q, c, rest))
              /\ IF World.objs[i].kind = "Material" THEN c \in Comp /\ rest \in Comp
                 ELSE c = World.objs[i].qual /\ rest = c
              /\ ~ Stable => c = World.objs[i].qual /\ rest = c
<1>1. PICK i \in DOMAIN objs, q \in 0..(MaxQty * MaxObjs) :
        /\ Enough(i, q)
        /\ \E c, rest \in IF Stable /\ i \in Materials THEN SUBSET objs[i].qual
                          ELSE {objs[i].qual} :
             /\ IF c = objs[i].qual THEN rest = c ELSE objs[i].qual \ c \subseteq rest
             /\ LET j  == Len(objs) + 1
                    w  == [World EXCEPT !.objs[i].qty = @ - q, !.objs[i].qual = rest]
                    w1 == New(w, objs[i].kind, q, c, objs[i].ctx, objs[i].real)
                IN  Become(TrackExtract([w1 EXCEPT !.objs[j].prev = objs[i].prev], i, j))
  BY DEF Extract
<1>2. PICK c \in (IF Stable /\ i \in Materials THEN SUBSET objs[i].qual ELSE {objs[i].qual}),
           rest \in (IF Stable /\ i \in Materials THEN SUBSET objs[i].qual ELSE {objs[i].qual}) :
        LET j  == Len(objs) + 1
            w  == [World EXCEPT !.objs[i].qty = @ - q, !.objs[i].qual = rest]
            w1 == New(w, objs[i].kind, q, c, objs[i].ctx, objs[i].real)
        IN  Become(TrackExtract([w1 EXCEPT !.objs[j].prev = objs[i].prev], i, j))
  BY <1>1
<1>3. World.objs = objs
  BY WorldParts
<1>4. Become(Split(World, i, q, c, rest))
  BY <1>2, <1>3 DEF Split
<1>5. q \in Nat /\ q <= objs[i].qty
  BY <1>1 DEF Enough
<1>6. IF objs[i].kind = "Material" THEN c \in Comp /\ rest \in Comp
      ELSE c = objs[i].qual /\ rest = c
  <2>1. Coherent(objs[i])
    BY <1>3, SoundObject
  <2>2. CASE objs[i].kind = "Material"
    <3>1. objs[i].qual \in Comp
      BY <2>1, <2>2 DEF Coherent
    <3>2. c \subseteq objs[i].qual /\ rest \subseteq objs[i].qual
      BY <1>2
    <3> QED
      BY <2>2, <3>1, <3>2 DEF Comp
  <2>3. CASE objs[i].kind # "Material"
    <3>1. i \notin Materials
      BY <2>3 DEF Materials
    <3> QED
      BY <1>2, <2>3, <3>1
  <2> QED
    BY <2>2, <2>3
<1>7. ~ Stable => c = objs[i].qual /\ rest = c
  BY <1>2
<1> QED
  BY <1>3, <1>4, <1>5, <1>6, <1>7

\* Extracting and recording both halves keeps a world sound.
LEMMA SplitSound ==
    ASSUME NEW w, Sound(w), nextObj \in Nat, now \in Nat, NEW i \in DOMAIN w.objs,
           NEW q \in Nat, q <= w.objs[i].qty, NEW c, NEW rest,
           IF w.objs[i].kind = "Material" THEN c \in Comp /\ rest \in Comp
           ELSE c = w.objs[i].qual /\ rest = c
    PROVE  /\ Sound(Split(w, i, q, c, rest))
           /\ Grown(w, Split(w, i, q, c, rest), nextObj, Len(w.objs) + 1)
  BY ExtractSound

\* Material::Absorb and Product::Absorb keep the world sound.
LEMMA AbsorbsSound ==
    ASSUME Types, Sound(World), AbsorbMaterial \/ AbsorbProduct
    PROVE  Keeps(World, World')
<1>1. now \in Nat /\ World.objs = objs
  BY WorldParts DEF Types
<1>2. CASE AbsorbMaterial
  <2>1. PICK i \in Materials, j \in Materials :
          /\ i # j
          /\ LET w == Observe(Observe(World, i), j)
             IN  Become(TrackAbsorb(Pour(Mix(w, i, j), i, j), i, j))
    BY <1>2 DEF AbsorbMaterial
  <2>2. /\ i \in DOMAIN World.objs /\ World.objs[i].kind = "Material"
        /\ j \in DOMAIN World.objs /\ World.objs[j].kind = "Material"
    BY <1>1 DEF Materials
  <2> DEFINE w1 == Observe(World, i)
             w2 == Observe(w1, j)
             n == Mixed(w2, i, j)
             w3 == Mix(w2, i, j)
  <2>3. Keeps(World, w1)
    BY <1>1, <2>2, SoundDecay
  <2> HIDE DEF w1
  <2>4. /\ Sound(w1) /\ i \in DOMAIN w1.objs /\ w1.objs[i].kind = "Material"
        /\ j \in DOMAIN w1.objs /\ w1.objs[j].kind = "Material"
    BY <2>2, <2>3 DEF Keeps, SameKinds
  <2>5. Keeps(w1, w2)
    BY <1>1, <2>4, SoundDecay
  <2> HIDE DEF w2
  <2>6. /\ Sound(w2) /\ i \in DOMAIN w2.objs /\ w2.objs[i].kind = "Material"
        /\ j \in DOMAIN w2.objs /\ w2.objs[j].kind = "Material"
    BY <2>4, <2>5 DEF Keeps, SameKinds
  <2>7. w3 = Alter(w2, i, n) /\ SameObject(w2.objs[i], n)
    BY <2>6, SoundMix
  <2> HIDE DEF w3, n
  <2>a. Keeps(w2, w3)
    BY <2>6, <2>7, SoundAlter
  <2>8. Sound(w3) /\ i \in DOMAIN w3.objs /\ j \in DOMAIN w3.objs
    BY <2>6, <2>a DEF Keeps, SameKinds
  <2> DEFINE x == TrackAbsorb(Pour(w3, i, j), i, j)
  <2>9. Keeps(w3, x)
    BY <2>1, <2>8, SoundAbsorb
  <2>10. Become(x)
    BY <2>1 DEF w1, w2, w3
  <2> HIDE DEF x
  <2>11. Keeps(World, x)
    BY <2>3, <2>5, <2>a, <2>9, KeepsTrans
  <2> QED
    BY <2>10, <2>11, SoundBecome DEF Keeps
<1>3. CASE AbsorbProduct
  <2>1. PICK i \in DOMAIN objs \ Materials, j \in DOMAIN objs \ Materials :
          i # j /\ Become(TrackAbsorb(Pour(World, i, j), i, j))
    BY <1>3 DEF AbsorbProduct
  <2>2. Keeps(World, TrackAbsorb(Pour(World, i, j), i, j))
    BY <1>1, <2>1, SoundAbsorb
  <2> QED
    BY <2>1, <2>2, SoundBecome DEF Keeps
<1> QED
  BY <1>2, <1>3

\* Transmute and Decay keep the world sound.
LEMMA ChangesSound ==
    ASSUME Types, Sound(World), CallTransmute \/ CallDecay
    PROVE  Keeps(World, World')
<1>1. now \in Nat /\ World.objs = objs
  BY WorldParts DEF Types
<1>2. CASE CallTransmute
  <2>1. PICK i \in Materials, c \in NewComps : Become(Transmute(World, i, c))
    BY <1>2 DEF CallTransmute
  <2>2. i \in DOMAIN World.objs /\ World.objs[i].kind = "Material" /\ c \in Comp
    BY <1>1, NewCompsTyped DEF Materials
  <2>3. Keeps(World, Transmute(World, i, c))
    BY <1>1, <2>2, SoundTransmute
  <2> QED
    BY <2>1, <2>3, SoundBecome DEF Keeps
<1>3. CASE CallDecay
  <2>1. PICK i \in Materials : Become(Decay(World, i))
    BY <1>3 DEF CallDecay
  <2>2. i \in DOMAIN World.objs /\ World.objs[i].kind = "Material"
    BY <1>1 DEF Materials
  <2>3. Keeps(World, Decay(World, i))
    BY <1>1, <2>2, SoundDecay
  <2> QED
    BY <2>1, <2>3, SoundBecome DEF Keeps
<1> QED
  BY <1>2, <1>3

\* Product::qual_id enters 0 for a quality that has no id.
LEMMA QualIdSound ==
    ASSUME Types, Sound(World), CallQualId
    PROVE  /\ Sound(World') /\ objs' = objs /\ rows' = rows /\ UNCHANGED <<prog, now>>
           /\ \A q \in Qualities : qualids[q] # Absent => qualids'[q] = qualids[q]
<1>0. /\ objs' = objs /\ rows' = rows /\ nextState' = nextState /\ products' = products
      /\ error' = error /\ UNCHANGED <<prog, now>>
  BY DEF CallQualId
<1>1. PICK i \in DOMAIN objs \ Materials :
        /\ qualids[objs[i].qual] = Absent
        /\ qualids' = [qualids EXCEPT ![objs[i].qual] = QualId(qualids, objs[i])]
  BY DEF CallQualId
<1> DEFINE w == World
           v == World'
           q == objs[i].qual
<1>2. w.objs = objs /\ w.rows = rows /\ w.next = nextState /\ w.ids = qualids
      /\ w.products = products /\ w.error = error
  BY WorldParts
<1>3. v.objs = objs /\ v.rows = rows /\ v.next = nextState /\ v.ids = qualids'
      /\ v.products = products /\ v.error = error
  BY <1>0 DEF World
<1>4. w \in Worlds /\ Shape(w) /\ IdsInv(w) /\ QualitiesInv(w) /\ Coherent(objs[i])
  BY <1>2, SoundObject DEF Sound, Shape
<1>5. qualids \in [Qualities -> Int] /\ qualids \in [Qualities -> IdValues]
  BY <1>2, <1>4, Components
<1>6. objs[i].kind # "Material" /\ q \in Qualities
  BY <1>4 DEF Materials, Coherent
<1>7. QualId(qualids, objs[i]) = 0
  BY <1>1, <1>6 DEF QualId
<1> HIDE DEF q
<1>8a. qualids' \in [Qualities -> IdValues]
  <2>1. 0 \in IdValues
    BY DEF IdValues
  <2> QED
    BY <1>1, <1>5, <1>6, <1>7, <2>1 DEF q
<1>8. /\ qualids' \in [Qualities -> Int] /\ qualids'[q] = 0
      /\ \A p \in Qualities : p # q => qualids'[p] = qualids[p]
  BY <1>1, <1>5, <1>6, <1>7 DEF q
<1>9. Numbered(qualids') = Numbered(qualids) /\ q \notin Numbered(qualids)
  BY <1>1, <1>5, <1>6, <1>8 DEF Numbered, Absent, q
<1>10. v \in Worlds
  <2>1. v = [objs |-> objs, rows |-> rows, next |-> nextState, ids |-> qualids',
             products |-> products, error |-> error]
    BY <1>0 DEF World
  <2>2. /\ objs \in Seq(Object) /\ rows \in Seq(Row) /\ nextState \in Nat \ {0}
        /\ products \in SUBSET (Int \X Qualities) /\ error \in {"none", "null context"}
    BY <1>2, <1>4, Components
  <2> QED
    BY <1>8a, <2>1, <2>2 DEF Worlds
<1> HIDE DEF v, w
<1>11. Shape(v)
  BY <1>2, <1>3, <1>4, <1>10 DEF Shape
<1>12. IdsInv(v)
  BY <1>2, <1>3, <1>4 DEF IdsInv
<1>13. QualitiesInv(v)
  <2>1. /\ IsFiniteSet(Numbered(qualids))
        /\ \A p \in Numbered(qualids) : qualids[p] <= Cardinality(Numbered(qualids))
        /\ \A p, r \in Numbered(qualids) : qualids[p] = qualids[r] => p = r
        /\ products = {<<qualids[p], p>> : p \in Numbered(qualids)}
        /\ \A k \in DOMAIN objs : objs[k].kind = "Product" /\ objs[k].real => qualids[objs[k].qual] # Absent
    BY <1>2, <1>4 DEF QualitiesInv
  <2>2. \A p \in Numbered(qualids) : qualids'[p] = qualids[p]
    BY <1>5, <1>8, <1>9 DEF Numbered
  <2>3. products = {<<qualids'[p], p>> : p \in Numbered(qualids)}
    BY <2>1, <2>2
  <2>4. \A k \in DOMAIN objs : objs[k].kind = "Product" /\ objs[k].real => qualids'[objs[k].qual] # Absent
    <3> SUFFICES ASSUME NEW k \in DOMAIN objs, objs[k].kind = "Product", objs[k].real
                 PROVE  qualids'[objs[k].qual] # Absent
      OBVIOUS
    <3>1. objs[k].qual \in Qualities /\ qualids[objs[k].qual] # Absent
      BY <1>2, <1>4, <2>1 DEF Shape, Coherent
    <3> QED
      BY <1>8, <3>1 DEF Absent
  <2> QED
    BY <1>3, <1>9, <2>1, <2>2, <2>3, <2>4 DEF QualitiesInv
<1>14. \A p \in Qualities : qualids[p] # Absent => qualids'[p] = qualids[p]
  BY <1>1, <1>8 DEF q
<1> QED
  BY <1>0, <1>11, <1>12, <1>13, <1>14 DEF Sound, v

\* Every step keeps the types and the soundness of the world.
LEMMA StepSound ==
    ASSUME Types, Sound(World), [Next]_vars
    PROVE  Types' /\ Sound(World')
<1>9. Sound(World')
  <2>1. CASE CreateMaterial \/ CreateProduct
    BY <2>1, CreatesSound
  <2>2. CASE CreateUntracked
    BY <2>2, UntrackedSound
  <2>3. CASE Clone
    BY <2>3, CloneSound
  <2>4. CASE Extract
    <3>0. PICK i \in DOMAIN World.objs, q \in Nat : \E c, rest :
            /\ q <= World.objs[i].qty /\ Become(Split(World, i, q, c, rest))
            /\ IF World.objs[i].kind = "Material" THEN c \in Comp /\ rest \in Comp
               ELSE c = World.objs[i].qual /\ rest = c
      BY <2>4, ExtractChoice
    <3>1. PICK c, rest :
            /\ q <= World.objs[i].qty /\ Become(Split(World, i, q, c, rest))
            /\ IF World.objs[i].kind = "Material" THEN c \in Comp /\ rest \in Comp
               ELSE c = World.objs[i].qual /\ rest = c
      BY <3>0
    <3>2. nextObj \in Nat /\ now \in Nat
      BY DEF Types
    <3>3. Sound(Split(World, i, q, c, rest))
      BY <3>1, <3>2, SplitSound
    <3> QED
      BY <3>1, <3>3, SoundBecome
  <2>5. CASE AbsorbMaterial \/ AbsorbProduct
    BY <2>5, AbsorbsSound DEF Keeps
  <2>6. CASE CallTransmute \/ CallDecay
    BY <2>6, ChangesSound DEF Keeps
  <2>7. CASE CallQualId
    BY <2>7, QualIdSound
  <2>8. CASE Tick \/ UNCHANGED vars
    <3>1. World' = World
      BY <2>8 DEF Tick, vars, World
    <3> QED
      BY <3>1
  <2> QED
    BY <2>1, <2>2, <2>3, <2>4, <2>5, <2>6, <2>7, <2>8 DEF Next
<1>10. /\ prog' = prog /\ (nextObj' = nextObj \/ nextObj' = nextObj + 1)
       /\ (now' = now \/ now' = now + 1)
  BY DEF Next, CreateMaterial, CreateProduct, CreateUntracked, Clone, Extract, AbsorbMaterial,
         AbsorbProduct, CallTransmute, CallDecay, CallQualId, Tick, vars
<1>11. created' = created \/ \E q \in 1..MaxQty : created' = created + q
  BY DEF Next, CreateMaterial, CreateProduct, CreateUntracked, Clone, Extract, AbsorbMaterial,
         AbsorbProduct, CallTransmute, CallDecay, CallQualId, Tick, vars
<1>12. nextObj' \in Nat /\ now' \in Nat /\ created' \in Nat
  BY <1>10, <1>11, ResTrackingAssumption DEF Types
<1>13. /\ prog' \in Programs /\ prog'.decay \in {"never", "manual", "lazy"} /\ prog'.time \in Nat
  BY <1>10 DEF Types
<1>14. Shape(World)'
  BY <1>9, SoundPrime DEF Sound
<1> QED
  BY <1>9, <1>12, <1>13, <1>14 DEF Types

-----------------------------------------------------------------------------
\* The first world is sound.
LEMMA StartsSound ==
    ASSUME Init
    PROVE  Types /\ Sound(World)
<1>1. /\ World.objs = << >> /\ World.rows = << >> /\ World.next = 1
      /\ World.ids = [q \in Qualities |-> Absent] /\ World.products = {} /\ World.error = "none"
  BY WorldParts DEF Init
<1> DEFINE w == World
<1>2. w \in Worlds
  <2>1. << >> \in Seq(Object) /\ << >> \in Seq(Row) /\ 1 \in Nat \ {0}
    OBVIOUS
  <2>2. [q \in Qualities |-> Absent] \in [Qualities -> IdValues]
    BY DEF IdValues
  <2>3. w = [objs |-> << >>, rows |-> << >>, next |-> 1, ids |-> [q \in Qualities |-> Absent],
             products |-> {}, error |-> "none"]
    BY DEF World, Init
  <2> QED
    BY <2>1, <2>2, <2>3 DEF Worlds
<1> HIDE DEF w
<1>3. Numbered(w.ids) = {}
  BY <1>1 DEF Numbered, Absent, w
<1>4. DOMAIN w.objs = {} /\ DOMAIN w.rows = {}
  BY <1>1 DEF w
<1>5. Shape(w) /\ IdsInv(w)
  BY <1>2, <1>4 DEF Shape, IdsInv
<1>6. QualitiesInv(w)
  <2>1. w.products = {} /\ IsFiniteSet({})
    BY <1>1, FS_EmptySet DEF w
  <2> QED
    BY <1>3, <1>4, <2>1 DEF QualitiesInv
<1>7. prog \in Programs /\ prog.decay \in {"never", "manual", "lazy"} /\ prog.time \in Nat
  BY ResTrackingAssumption DEF Init
<1> QED
  BY <1>5, <1>6, <1>7 DEF Types, Sound, w, Init

\* Object ids are counted up: a constructor's is new, and nothing changes one.
LEMMA ObjIdsStep ==
    ASSUME Types, Sound(World), ObjIdsInv, [Next]_vars
    PROVE  ObjIdsInv'
<1>1. /\ World.objs = objs /\ World'.objs = objs' /\ nextObj \in Nat /\ World \in Worlds
      /\ nextObj + 1 > nextObj
  BY WorldParts DEF World, Types, Shape
<1>2. /\ DOMAIN objs = 1..Len(objs) /\ Len(objs) \in Nat
      /\ \A i \in DOMAIN objs : objs[i].obj \in Nat /\ objs[i].res \in DOMAIN objs
  <2>1. DOMAIN objs = 1..Len(objs) /\ Len(objs) \in Nat
    BY <1>1, Components
  <2>2. \A i \in DOMAIN objs : objs[i] \in Object
    BY <1>1, Values
  <2> QED
    BY <1>1, <2>1, <2>2 DEF Object, Sound, Shape
<1>3. Len(objs) + 1 \notin DOMAIN objs
  BY <1>2
<1>4. ASSUME DOMAIN objs' = DOMAIN objs, nextObj' = nextObj,
             \A k \in DOMAIN objs : objs'[k].obj = objs[k].obj /\ objs'[k].res = objs[k].res
      PROVE  ObjIdsInv'
  BY <1>4 DEF ObjIdsInv
<1>5. ASSUME Keeps(World, World'), nextObj' = nextObj
      PROVE  ObjIdsInv'
  BY <1>1, <1>4, <1>5 DEF Keeps, SameKinds
<1>6. ASSUME Grown(World, World', nextObj, Len(objs) + 1), nextObj' = nextObj + 1
      PROVE  ObjIdsInv'
  <2>1. /\ DOMAIN objs' = DOMAIN objs \cup {Len(objs) + 1}
        /\ \A k \in DOMAIN objs : objs'[k].obj = objs[k].obj /\ objs'[k].res = objs[k].res
        /\ objs'[Len(objs) + 1].obj = nextObj /\ objs'[Len(objs) + 1].res = Len(objs) + 1
    BY <1>1, <1>6 DEF Grown
  <2>2. \A k \in DOMAIN objs : objs[k].obj # nextObj /\ objs[k].obj < nextObj + 1
                                /\ objs[k].res # Len(objs) + 1
    BY <1>1, <1>2, <1>3 DEF ObjIdsInv
  <2> QED
    BY <1>1, <1>6, <2>1, <2>2 DEF ObjIdsInv
<1>7. CASE CreateMaterial \/ CreateProduct
  BY <1>6, <1>7, CreatesSound DEF CreateMaterial, CreateProduct
<1>8. CASE CreateUntracked
  BY <1>6, <1>8, UntrackedSound DEF CreateUntracked
<1>9. CASE Clone
  <2>1. PICK i \in DOMAIN objs : Grown(World, World', objs[i].obj, objs[i].res)
    BY <1>9, CloneSound
  <2>2. /\ DOMAIN objs' = DOMAIN objs \cup {Len(objs) + 1} /\ nextObj' = nextObj
        /\ \A k \in DOMAIN objs : objs'[k].obj = objs[k].obj /\ objs'[k].res = objs[k].res
        /\ objs'[Len(objs) + 1].obj = objs[i].obj /\ objs'[Len(objs) + 1].res = objs[i].res
    BY <1>1, <1>9, <2>1 DEF Grown, Clone
  <2> QED
    BY <2>2 DEF ObjIdsInv
<1>10. CASE Extract
  <2>1. nextObj' = nextObj + 1 /\ nextObj \in Nat /\ now \in Nat
    BY <1>10 DEF Extract, Types
  <2>2. PICK i \in DOMAIN World.objs, q \in Nat : \E c, rest :
          /\ q <= World.objs[i].qty /\ Become(Split(World, i, q, c, rest))
          /\ IF World.objs[i].kind = "Material" THEN c \in Comp /\ rest \in Comp
             ELSE c = World.objs[i].qual /\ rest = c
    BY <1>10, ExtractChoice
  <2>3. PICK c, rest :
          /\ q <= World.objs[i].qty /\ Become(Split(World, i, q, c, rest))
          /\ IF World.objs[i].kind = "Material" THEN c \in Comp /\ rest \in Comp
             ELSE c = World.objs[i].qual /\ rest = c
    BY <2>2
  <2> DEFINE x == Split(World, i, q, c, rest)
  <2>4. Sound(x) /\ Grown(World, x, nextObj, Len(World.objs) + 1) /\ Become(x)
    BY <2>1, <2>3, SplitSound
  <2> HIDE DEF x
  <2>5. Grown(World, World', nextObj, Len(objs) + 1)
    BY <1>1, <2>4, SoundBecome
  <2> QED
    BY <1>6, <2>1, <2>5
<1>11. CASE AbsorbMaterial \/ AbsorbProduct
  BY <1>5, <1>11, AbsorbsSound DEF AbsorbMaterial, AbsorbProduct
<1>12. CASE CallTransmute \/ CallDecay
  BY <1>5, <1>12, ChangesSound DEF CallTransmute, CallDecay
<1>13. CASE CallQualId \/ Tick \/ UNCHANGED vars
  <2>1. objs' = objs /\ nextObj' = nextObj
    BY <1>13 DEF CallQualId, Tick, vars
  <2> QED
    BY <1>4, <2>1
<1> QED
  BY <1>7, <1>8, <1>9, <1>10, <1>11, <1>12, <1>13 DEF Next

\* Soundness gives unique ids and a right quality table.
LEMMA SoundGives ==
    ASSUME Types, Sound(World)
    PROVE  (ObjIdsInv => IdsUnique) /\ QualitiesRecorded
<1>1. World.objs = objs /\ World.rows = rows /\ World.ids = qualids /\ World.products = products
  BY WorldParts
<1>2. IdsInv(World) /\ QualitiesInv(World) /\ Shape(World) /\ World \in Worlds
  BY DEF Sound, Shape
<1>3. ObjIdsInv => IdsUnique
  BY <1>1, <1>2 DEF IdsInv, ObjIdsInv, IdsUnique
<1>4. qualids \in [Qualities -> IdValues]
  BY <1>1, <1>2, Components
<1>5. /\ \A q, r \in Numbered(qualids) : qualids[q] = qualids[r] => q = r
      /\ products = {<<qualids[q], q>> : q \in Numbered(qualids)}
      /\ \A i \in DOMAIN objs :
           objs[i].kind = "Product" /\ objs[i].real => qualids[objs[i].qual] # Absent
  BY <1>1, <1>2 DEF QualitiesInv
<1>6. ASSUME NEW i \in DOMAIN objs \ Materials, objs[i].real
      PROVE  \/ qualids[objs[i].qual] = 0
             \/ <<qualids[objs[i].qual], objs[i].qual>> \in products
  <2>1. objs[i] \in Object /\ Coherent(objs[i])
    BY <1>1, SoundObject
  <2>2. objs[i].kind \in {"Material", "Product"}
    BY <2>1, ResTrackingAssumption DEF Object
  <2>3. objs[i].kind = "Product"
    BY <2>2 DEF Materials
  <2>4. objs[i].qual \in Qualities /\ qualids[objs[i].qual] # Absent
    BY <1>5, <1>6, <2>1, <2>3 DEF Coherent
  <2>5. qualids[objs[i].qual] = 0 \/ objs[i].qual \in Numbered(qualids)
    BY <1>4, <2>4 DEF Numbered, IdValues, Absent
  <2> QED
    BY <1>5, <2>5
<1>7. \A p, q \in products : p[1] = q[1] => p = q
  BY <1>5
<1> QED
  BY <1>3, <1>6, <1>7 DEF QualitiesRecorded

(***************************************************************************)
(* Whatever programs do with copies, untracked and extracted resources,    *)
(* the objects, the two tables and the ids keep their types, and every     *)
(* tracker follows an object that exists (res_tracker.cc, resource.cc).    *)
(***************************************************************************)
THEOREM TypeCorrect == Spec => []Types
<1>1. Init => Types /\ Sound(World)
  BY StartsSound
<1>2. Types /\ Sound(World) /\ [Next]_vars => Types' /\ Sound(World)'
  BY StepSound, SoundPrime
<1> QED
  BY <1>1, <1>2, PTL DEF Spec

(***************************************************************************)
(* Resource::nextstate_id_ and nextobj_id_ make ids unique: a state id is  *)
(* recorded once and ids grow along the table, and only copies of one      *)
(* object share its object id or a state id, for every program and any     *)
(* number of objects and rows.                                             *)
(***************************************************************************)
THEOREM IdsNeverReused == Spec => []IdsUnique
<1>1. Init => Types /\ Sound(World) /\ ObjIdsInv
  <2>1. Init => ObjIdsInv
    BY DEF Init, ObjIdsInv
  <2> QED
    BY <2>1, StartsSound
<1>2. Types /\ Sound(World) /\ ObjIdsInv /\ [Next]_vars
        => Types' /\ Sound(World)' /\ ObjIdsInv'
  BY StepSound, SoundPrime, ObjIdsStep
<1>3. Types /\ Sound(World) /\ ObjIdsInv => IdsUnique
  BY SoundGives
<1> QED
  BY <1>1, <1>2, <1>3, PTL DEF Spec

(***************************************************************************)
(* Product::Create and qual_id together keep the Products table right: an  *)
(* id stands for one quality, and the quality of a tracked product is in   *)
(* the table or has the id 0 that qual_id entered.                         *)
(***************************************************************************)
THEOREM QualityIdsRight == Spec => []QualitiesRecorded
<1>1. Init => Types /\ Sound(World)
  BY StartsSound
<1>2. Types /\ Sound(World) /\ [Next]_vars => Types' /\ Sound(World)'
  BY StepSound, SoundPrime
<1>3. Types /\ Sound(World) => QualitiesRecorded
  BY SoundGives
<1> QED
  BY <1>1, <1>2, <1>3, PTL DEF Spec

-----------------------------------------------------------------------------
(***************************************************************************)
(* Without copies and untracked resources, the rows tell the truth.        *)
(***************************************************************************)
Right(w, dirty, fresh) == Sound(w) /\ HistoryInv(w, dirty, fresh)

\* In a right world every object is tracked and has its own tracker.
LEMMA RightOwn ==
    ASSUME NEW w, NEW D, NEW U, Right(w, D, U), NEW i \in DOMAIN w.objs
    PROVE  /\ Sound(w) /\ w \in Worlds /\ w.objs[i] \in Object /\ Coherent(w.objs[i])
           /\ w.objs[i].res = i /\ w.objs[i].ctx /\ w.objs[i].tracked /\ w.objs[i].real
           /\ w.objs[i].state \in Nat /\ (i \notin U => Known(w, w.objs[i].state))
<1>1. Sound(w) /\ HistoryInv(w, D, U)
  BY DEF Right
<1>2. w \in Worlds /\ w.objs[i] \in Object /\ Coherent(w.objs[i])
  BY <1>1, SoundObject
<1>3. w.objs[i].res = i /\ w.objs[i].ctx /\ w.objs[i].tracked /\ w.objs[i].real
  BY <1>1 DEF HistoryInv, Own
<1>4. w.objs[i].state \in Nat
  BY <1>2 DEF Object
<1>5. i \notin U => Known(w, w.objs[i].state)
  BY <1>1 DEF HistoryInv, Booked, Known
<1> QED
  BY <1>1, <1>2, <1>3, <1>4, <1>5

\* An unrecorded change leaves only the changed object open.
LEMMA RightAlter ==
    ASSUME NEW w, NEW D, NEW U, Right(w, D, U), NEW i \in DOMAIN w.objs, NEW o,
           SameObject(w.objs[i], o), o.tracked = w.objs[i].tracked
    PROVE  /\ Right(Alter(w, i, o), D \cup {i}, U) /\ Keeps(w, Alter(w, i, o))
           /\ Altered(w, Alter(w, i, o), i, o)
<1>1. Sound(w) /\ HistoryInv(w, D, U)
  BY DEF Right
<1>2. Keeps(w, Alter(w, i, o)) /\ Altered(w, Alter(w, i, o), i, o)
  BY <1>1, SoundAlter
<1>3. SameBook(w.objs[i], o)
  BY DEF SameBook, SameObject
<1>4. HistoryInv(Alter(w, i, o), D \cup {i}, U)
  BY <1>1, <1>2, <1>3, HistoryAltered
<1> QED
  BY <1>2, <1>4 DEF Right, Keeps

\* A change of the decay time alone leaves the rows right.
LEMMA RightPrev ==
    ASSUME NEW w, NEW D, NEW U, Right(w, D, U), NEW i \in DOMAIN w.objs, NEW o,
           SameObject(w.objs[i], o), o.tracked = w.objs[i].tracked, o.qty = w.objs[i].qty,
           o.qual = w.objs[i].qual, o.merged = w.objs[i].merged
    PROVE  /\ Right(Alter(w, i, o), D, U) /\ Keeps(w, Alter(w, i, o))
           /\ Altered(w, Alter(w, i, o), i, o)
<1> DEFINE v == Alter(w, i, o)
<1>1. Own(w) /\ Descends(w) /\ Linked(w, D) /\ \A k \in DOMAIN w.objs : Faithful(w, k, D, U)
  BY HistoryFaithful DEF Right
<1>2. Right(v, D \cup {i}, U) /\ Keeps(w, v) /\ Altered(w, v, i, o)
  BY RightAlter
<1> HIDE DEF v
<1>3. /\ Own(v) /\ Descends(v) /\ Linked(v, D \cup {i})
      /\ \A k \in DOMAIN v.objs : Faithful(v, k, D \cup {i}, U)
  BY <1>2, HistoryFaithful DEF Right
<1>4. DOMAIN v.objs = DOMAIN w.objs /\ v.rows = w.rows /\ v.ids = w.ids /\ v.objs[i] = o
  BY <1>2 DEF Altered, SameRest
<1>5. ASSUME NEW k \in DOMAIN v.objs
      PROVE  Faithful(v, k, D, U)
  <2>1. CASE k # i
    BY <1>3, <2>1 DEF Faithful
  <2>2. CASE k = i
    <3>1. QualId(v.ids, v.objs[i]) = QualId(w.ids, w.objs[i])
      BY <1>4 DEF QualId, SameObject
    <3>2. o.state = w.objs[i].state /\ o.obj = w.objs[i].obj
      BY DEF SameObject
    <3>3. (Booked(w, i) <=> Booked(v, i)) /\ (Current(w, i) => Current(v, i))
      BY <1>4, <3>1, <3>2 DEF Booked, Current
    <3>4. Faithful(w, i, D, U)
      BY <1>1
    <3> QED
      BY <1>4, <2>2, <3>3, <3>4 DEF Faithful
  <2> QED
    BY <2>1, <2>2
<1>6. Linked(v, D)
  <2>1. \A p : Cited(v, p) <=> Cited(w, p)
    BY <1>4 DEF Cited
  <2>2. IF v.objs[i].merged
        THEN i \notin D => Cited(v, v.objs[i].state) /\ v.objs[i].qty = 0
        ELSE ~ Cited(v, v.objs[i].state)
    BY <1>1, <1>4, <2>1 DEF Linked, SameObject
  <2> QED
    BY <1>3, <2>2 DEF Linked
<1>7. HistoryInv(v, D, U)
  BY <1>3, <1>5, <1>6, HistoryFaithful
<1> QED
  BY <1>2, <1>7 DEF Right, v

\* Record closes the object it writes a row for.
LEMMA RightRecord ==
    ASSUME NEW w, NEW D, NEW U, Right(w, D, U), NEW i \in DOMAIN w.objs,
           NEW p1 \in Nat, NEW p2 \in Nat, Known(w, p1), Known(w, p2), Follows(w, i, p1, p2, U)
    PROVE  LET v == Record(w, i, p1, p2)
           IN  /\ Right(v, D \ {i}, U \ {i}) /\ Keeps(w, v) /\ Written(w, v, i, p1, p2)
               /\ \A p : Known(w, p) => Known(v, p)
<1> DEFINE v == Record(w, i, p1, p2)
<1>1. /\ Sound(w) /\ w \in Worlds /\ w.objs[i].res = i /\ w.objs[i].ctx /\ Coherent(w.objs[i])
      /\ HistoryInv(w, D, U) /\ IdsInv(w)
  BY RightOwn DEF Right, Sound
<1>2. Keeps(w, v)
  BY <1>1, SoundRecord
<1>3. Written(w, v, i, p1, p2)
  <2>1. w.objs[i].res \in DOMAIN w.objs /\ Coherent(w.objs[w.objs[i].res])
    BY <1>1
  <2>2. Written(w, v, w.objs[i].res, p1, p2)
    BY <1>1, <2>1, RecordEffect, ResTrackingAssumption
  <2> QED
    BY <1>1, <2>2
<1> HIDE DEF v
<1>4. HistoryInv(v, D \ {i}, U \ {i}) /\ \A p : Known(w, p) => Known(v, p)
  BY <1>1, <1>3, HistoryWritten
<1> QED
  BY <1>2, <1>3, <1>4 DEF Right, Keeps, v

\* Modify closes the one open object.
LEMMA RightModify ==
    ASSUME NEW w, NEW i \in DOMAIN w.objs, Right(w, {i}, {})
    PROVE  Right(Modify(w, i), {}, {}) /\ Written(w, Modify(w, i), i, w.objs[i].state, 0)
<1>1. /\ w.objs[i].res = i /\ w.objs[i].tracked /\ w.objs[i].state \in Nat
      /\ Known(w, w.objs[i].state)
  BY RightOwn
<1>2. Known(w, 0)
  BY DEF Known
<1>3. Modify(w, i) = Record(w, i, w.objs[i].state, 0)
  BY <1>1 DEF Modify
<1>4. {i} \ {i} = {} /\ {} \ {i} = {}
  OBVIOUS
<1>5. /\ Right(Record(w, i, w.objs[i].state, 0), {i} \ {i}, {} \ {i})
      /\ Written(w, Record(w, i, w.objs[i].state, 0), i, w.objs[i].state, 0)
  <2>1. Linked(w, {i})
    BY DEF Right, HistoryInv
  <2>2. Follows(w, i, w.objs[i].state, 0, {})
    BY <2>1 DEF Linked, Follows
  <2> QED
    BY <1>1, <1>2, <2>2, RightRecord
<1> QED
  BY <1>3, <1>4, <1>5

\* What a call leaves of an object's content and time; the others are as they were.
Content(w, v, i, c, t) ==
    /\ DOMAIN v.objs = DOMAIN w.objs /\ v.objs[i].kind = w.objs[i].kind
    /\ v.objs[i].qual = c /\ v.objs[i].prev = t /\ v.objs[i].qty = w.objs[i].qty
    /\ \A k \in DOMAIN w.objs : k # i => v.objs[k] = w.objs[k]

\* Transmute keeps a world right, with the composition and time it sets.
LEMMA RightTransmute ==
    ASSUME NEW w, Right(w, {}, {}), NEW i \in DOMAIN w.objs, w.objs[i].kind = "Material",
           NEW c \in Comp, now \in Nat
    PROVE  /\ Right(Transmute(w, i, c), {}, {})
           /\ Content(w, Transmute(w, i, c), i, c, IF now > w.objs[i].prev THEN now ELSE w.objs[i].prev)
<1> DEFINE n  == [w.objs[i] EXCEPT !.qual = c]
           w0 == Alter(w, i, n)
           w1 == Modify(w0, i)
           m  == [w1.objs[i] EXCEPT !.prev = now]
           w2 == Alter(w1, i, m)
<1>1. w \in Worlds /\ w.objs[i] \in Object
  BY RightOwn
<1>2. [w EXCEPT !.objs[i].qual = c] = w0
  BY <1>1 DEF Alter, Worlds
<1>3. /\ SameObject(w.objs[i], n) /\ n.tracked = w.objs[i].tracked /\ n.prev = w.objs[i].prev
      /\ n.qual = c /\ n.qty = w.objs[i].qty
  BY <1>1, SetQual
<1> HIDE DEF n
<1>4. Right(w0, {i}, {}) /\ Altered(w, w0, i, n)
  <2>1. Right(w0, {} \cup {i}, {}) /\ Altered(w, w0, i, n)
    BY <1>3, RightAlter
  <2>2. {} \cup {i} = {i}
    OBVIOUS
  <2> QED
    BY <2>1, <2>2
<1> HIDE DEF w0
<1>5. i \in DOMAIN w0.objs /\ w0.objs[i] = n
  BY <1>4 DEF Altered
<1>6. Right(w1, {}, {}) /\ Written(w0, w1, i, w0.objs[i].state, 0)
  BY <1>4, <1>5, RightModify
<1> HIDE DEF w1
<1>7. /\ Stamped(w0, i).kind = n.kind /\ Stamped(w0, i).qual = n.qual
      /\ Stamped(w0, i).prev = n.prev /\ Stamped(w0, i).qty = n.qty
  BY <1>4, <1>5, RightOwn, StampedFields
<1>8. Content(w, w1, i, c, w.objs[i].prev)
  BY <1>3, <1>4, <1>6, <1>7 DEF Content, Altered, Written, SameObject
<1>9. i \in DOMAIN w1.objs
  BY <1>8 DEF Content
<1>10. w1 \in Worlds /\ w1.objs[i] \in Object /\ Coherent(w1.objs[i]) /\ w1.objs[i].ctx
  BY <1>6, <1>9, RightOwn
<1>11. [w1 EXCEPT !.objs[i].prev = now] = w2
  BY <1>10 DEF Alter, Worlds
<1>12. /\ SameObject(w1.objs[i], m) /\ m.tracked = w1.objs[i].tracked /\ m.qty = w1.objs[i].qty
       /\ m.qual = w1.objs[i].qual /\ m.merged = w1.objs[i].merged /\ m.prev = now
  BY <1>10, SetPrev
<1> HIDE DEF m
<1>13. Right(w2, {}, {}) /\ Altered(w1, w2, i, m)
  BY <1>6, <1>9, <1>12, RightPrev
<1> HIDE DEF w2
<1>14. Content(w, w2, i, c, now)
  BY <1>8, <1>12, <1>13 DEF Content, Altered, SameObject
<1>15. w1.objs[i].prev = w.objs[i].prev
  BY <1>8 DEF Content
<1>16. CASE now > w.objs[i].prev
  <2>1. Transmute(w, i, c) = w2
    BY <1>2, <1>10, <1>11, <1>15, <1>16 DEF Transmute, w1
  <2> QED
    BY <1>13, <1>14, <1>16, <2>1
<1>17. CASE ~ (now > w.objs[i].prev)
  <2>1. Transmute(w, i, c) = w1
    BY <1>2, <1>15, <1>17 DEF Transmute, w1
  <2> QED
    BY <1>6, <1>8, <1>17, <2>1
<1> QED
  BY <1>16, <1>17

\* Material::Decay: the composition is aged to now, and so is the decay time.
LEMMA RightDecay ==
    ASSUME NEW w, Right(w, {}, {}), NEW i \in DOMAIN w.objs, w.objs[i].kind = "Material",
           now \in Nat
    PROVE  /\ Right(Decay(w, i), {}, {})
           /\ \/ Decay(w, i) = w /\ (DecayMode = "never" \/ w.objs[i].prev = now \/ w.objs[i].qual = {})
              \/ Content(w, Decay(w, i), i, Aged(w.objs[i].qual, now - w.objs[i].prev), now)
<1> DEFINE n  == [w.objs[i] EXCEPT !.prev = now]
           w0 == Alter(w, i, n)
           c  == Aged(w.objs[i].qual, now - w.objs[i].prev)
<1>1. w \in Worlds /\ w.objs[i] \in Object /\ Coherent(w.objs[i])
  BY RightOwn
<1>2. [w EXCEPT !.objs[i].prev = now] = w0
  BY <1>1 DEF Alter, Worlds
<1>3. /\ SameObject(w.objs[i], n) /\ n.tracked = w.objs[i].tracked /\ n.qty = w.objs[i].qty
      /\ n.qual = w.objs[i].qual /\ n.merged = w.objs[i].merged /\ n.prev = now
  BY <1>1, SetPrev
<1> HIDE DEF n
<1>4. Right(w0, {}, {}) /\ Altered(w, w0, i, n)
  BY <1>3, RightPrev
<1>5. c \in Comp
  <2>1. w.objs[i].qual \in Comp /\ w.objs[i].prev \in Nat
    BY <1>1 DEF Coherent, Object
  <2> QED
    BY <2>1, AgedComp
<1> HIDE DEF w0, c
<1>6. i \in DOMAIN w0.objs /\ w0.objs[i].kind = "Material" /\ w0.objs[i].prev = now
  BY <1>3, <1>4 DEF Altered, SameObject
<1>7. /\ Right(Transmute(w0, i, c), {}, {})
      /\ Content(w0, Transmute(w0, i, c), i, c, IF now > w0.objs[i].prev THEN now ELSE w0.objs[i].prev)
  BY <1>4, <1>5, <1>6, RightTransmute
<1>8. (IF now > w0.objs[i].prev THEN now ELSE w0.objs[i].prev) = now
  BY <1>6
<1>9. Content(w0, Transmute(w0, i, c), i, c, now)
  BY <1>7, <1>8
<1>10. Content(w, Transmute(w0, i, c), i, c, now)
  BY <1>3, <1>4, <1>9 DEF Content, Altered, SameObject
<1>11. \/ Decay(w, i) = w /\ (DecayMode = "never" \/ w.objs[i].prev = now \/ w.objs[i].qual = {})
       \/ Decay(w, i) = Transmute(w0, i, c)
  BY <1>2 DEF Decay, c
<1> QED
  BY <1>7, <1>10, <1>11 DEF c

\* The objects keep their quantities.
SameQtys(w, v) ==
    DOMAIN v.objs = DOMAIN w.objs /\ \A k \in DOMAIN w.objs : v.objs[k].qty = w.objs[k].qty

\* A row changes no quantity.
LEMMA SameQtysWritten ==
    ASSUME NEW w \in Worlds, NEW r \in DOMAIN w.objs, NEW p1, NEW p2, NEW v,
           Written(w, v, r, p1, p2)
    PROVE  SameQtys(w, v)
<1>1. Stamped(w, r).qty = w.objs[r].qty
  BY StampedFields
<1> QED
  BY <1>1 DEF Written, SameQtys

\* Equality of quantities is transitive.
LEMMA SameQtysTrans ==
    ASSUME NEW w, NEW v, NEW x, SameQtys(w, v), SameQtys(v, x)
    PROVE  SameQtys(w, x)
  BY DEF SameQtys

\* What Absorb does to the quantities.
Poured(w, v, i, j) ==
    /\ DOMAIN v.objs = DOMAIN w.objs
    /\ v.objs[i].qty = w.objs[i].qty + w.objs[j].qty /\ v.objs[j].qty = 0
    /\ \A k \in DOMAIN w.objs \ {i, j} : v.objs[k].qty = w.objs[k].qty

(***************************************************************************)
(* The quantity all objects hold, and how the calls change it.             *)
(***************************************************************************)
Amounts(w) == [k \in DOMAIN w.objs |-> w.objs[k].qty]
Stock(w)   == Total(Amounts(w), DOMAIN w.objs)

\* The amounts of the objects, and their sum.
LEMMA AmountsTyped ==
    ASSUME NEW w \in Worlds
    PROVE  /\ IsFiniteSet(DOMAIN w.objs) /\ DOMAIN Amounts(w) = DOMAIN w.objs
           /\ \A k \in DOMAIN w.objs : Amounts(w)[k] = w.objs[k].qty /\ Amounts(w)[k] \in Nat
           /\ Stock(w) \in Nat
<1>1. IsFiniteSet(DOMAIN w.objs)
  <2>1. DOMAIN w.objs = 1..Len(w.objs) /\ Len(w.objs) \in Nat
    BY Components
  <2>2. 1 \in Int /\ Len(w.objs) \in Int
    BY <2>1
  <2>3. IsFiniteSet(1..Len(w.objs))
    BY <2>2, FS_Interval
  <2> QED
    BY <2>1, <2>3
<1>2. \A k \in DOMAIN w.objs : w.objs[k].qty \in Nat
  <2>1. \A o \in Object : o.qty \in Nat
    BY DEF Object
  <2> QED
    BY <2>1, Values
<1>3. /\ DOMAIN Amounts(w) = DOMAIN w.objs
      /\ \A k \in DOMAIN w.objs : Amounts(w)[k] = w.objs[k].qty /\ Amounts(w)[k] \in Nat
  BY <1>2 DEF Amounts
<1>4. Stock(w) \in Nat
  BY <1>1, <1>3, TotalNat DEF Stock
<1> QED
  BY <1>1, <1>3, <1>4

\* Equal quantities have equal sums.
LEMMA StockSame ==
    ASSUME NEW w, NEW v, SameQtys(w, v)
    PROVE  Stock(v) = Stock(w)
<1>1. Amounts(v) = Amounts(w) /\ DOMAIN v.objs = DOMAIN w.objs
  BY DEF Amounts, SameQtys
<1> QED
  BY <1>1 DEF Stock

\* Absorb moves a quantity from one object to another.
LEMMA StockPoured ==
    ASSUME NEW w \in Worlds, NEW v \in Worlds, NEW i \in DOMAIN w.objs, NEW j \in DOMAIN w.objs,
           i # j, Poured(w, v, i, j)
    PROVE  Stock(v) = Stock(w)
<1> DEFINE f == Amounts(w)
           g == Amounts(v)
           S == DOMAIN w.objs
           R == S \ {i}
           Q == R \ {j}
<1>1. /\ IsFiniteSet(S) /\ DOMAIN v.objs = S
      /\ \A k \in S : f[k] = w.objs[k].qty /\ f[k] \in Int /\ g[k] = v.objs[k].qty /\ g[k] \in Int
  BY AmountsTyped DEF Poured
<1>2. g[i] = f[i] + f[j] /\ g[j] = 0 /\ \A k \in Q : g[k] = f[k]
  BY <1>1 DEF Poured
<1> HIDE DEF f, g
<1>3. IsFiniteSet(R) /\ IsFiniteSet(Q) /\ j \in R /\ R \subseteq S /\ Q \subseteq S
  BY <1>1, FS_Subset
<1>4. Total(f, S) = f[i] + Total(f, R) /\ Total(g, S) = g[i] + Total(g, R)
  BY <1>1, TotalRemove
<1> HIDE DEF S, R
<1>5. Total(f, R) = f[j] + Total(f, Q) /\ Total(g, R) = g[j] + Total(g, Q)
  BY <1>1, <1>3, TotalRemove
<1>6. Total(f, Q) = Total(g, Q)
  BY <1>2, <1>3, TotalCong
<1>7. Total(f, Q) \in Int
  BY <1>1, <1>3, TotalInt
<1>8. i \in S /\ j \in S
  BY DEF S
<1>9. f[i] \in Int /\ f[j] \in Int
  BY <1>1, <1>8
<1>10. Total(g, S) = Total(f, S)
  <2> HIDE DEF Q
  <2> QED
    BY <1>2, <1>4, <1>5, <1>6, <1>7, <1>9
<1> QED
  BY <1>1, <1>10 DEF Stock, f, g, S

\* A new object adds what it holds; a piece holds what its original lost.
LEMMA StockGrown ==
    ASSUME NEW w \in Worlds, NEW v \in Worlds, NEW n, n \notin DOMAIN w.objs,
           DOMAIN v.objs = DOMAIN w.objs \cup {n},
           \A k \in DOMAIN w.objs : v.objs[k].qty = w.objs[k].qty
    PROVE  Stock(v) = Stock(w) + v.objs[n].qty
<1> DEFINE f == Amounts(w)
           g == Amounts(v)
           S == DOMAIN w.objs
<1>1. /\ IsFiniteSet(S) /\ DOMAIN v.objs = S \cup {n}
      /\ \A k \in S : g[k] = f[k] /\ g[k] \in Int
      /\ g[n] = v.objs[n].qty /\ g[n] \in Int
  BY AmountsTyped
<1> HIDE DEF f, g, S
<1>2. n \notin S
  BY DEF S
<1>3. Total(g, S \cup {n}) = Total(g, S) + g[n]
  BY <1>1, <1>2, TotalAdd
<1>4. Total(g, S) = Total(f, S)
  BY <1>1, TotalCong
<1> QED
  BY <1>1, <1>3, <1>4 DEF Stock, f, g, S

\* Taking a part out of one object into a new one keeps the sum.
LEMMA StockSplit ==
    ASSUME NEW w \in Worlds, NEW v \in Worlds, NEW n, n \notin DOMAIN w.objs,
           NEW i \in DOMAIN w.objs, DOMAIN v.objs = DOMAIN w.objs \cup {n},
           v.objs[i].qty = w.objs[i].qty - v.objs[n].qty,
           \A k \in DOMAIN w.objs \ {i} : v.objs[k].qty = w.objs[k].qty
    PROVE  Stock(v) = Stock(w)
<1> DEFINE f == Amounts(w)
           g == Amounts(v)
           S == DOMAIN w.objs
           R == S \ {i}
<1>1. /\ IsFiniteSet(S) /\ DOMAIN v.objs = S \cup {n}
      /\ \A k \in S : f[k] \in Int /\ g[k] \in Int
      /\ \A k \in R : g[k] = f[k]
      /\ g[n] \in Int /\ g[i] = f[i] - g[n]
  BY AmountsTyped
<1> HIDE DEF f, g
<1>2. IsFiniteSet(R) /\ i \in S /\ n \notin S
  BY <1>1, FS_Subset
<1> HIDE DEF S
<1>3. Total(g, S \cup {n}) = Total(g, S) + g[n]
  BY <1>1, <1>2, TotalAdd
<1>4. Total(f, S) = f[i] + Total(f, R) /\ Total(g, S) = g[i] + Total(g, R)
  BY <1>1, <1>2, TotalRemove
<1>5. Total(g, R) = Total(f, R)
  BY <1>1, <1>2, TotalCong
<1>6. Total(f, R) \in Int
  BY <1>1, <1>2, TotalInt
<1>7. f[i] \in Int
  BY <1>1, <1>2
<1>8. Total(g, S \cup {n}) = Total(f, S)
  <2> HIDE DEF R
  <2> QED
    BY <1>1, <1>3, <1>4, <1>5, <1>6, <1>7
<1> QED
  BY <1>1, <1>8 DEF Stock, f, g, S

\* A fresh composition of time t is one of time s after s - t steps of decay.
LEMMA AgedOne ==
    ASSUME NEW t \in Nat, NEW s \in Nat
    PROVE  Aged({t}, s - t) = {s}
<1>1. t + (s - t) = s
  OBVIOUS
<1> QED
  BY <1>1 DEF Aged

\* Material::comp in a simulation that decays lazily brings the composition up to now.
LEMMA RightObserve ==
    ASSUME NEW w, Right(w, {}, {}), NEW i \in DOMAIN w.objs, w.objs[i].kind = "Material",
           now \in Nat
    PROVE  LET v == Observe(w, i)
           IN  /\ Right(v, {}, {}) /\ Keeps(w, v) /\ SameQtys(w, v)
               /\ DecayMode = "lazy" /\ TimelyInv(w) =>
                    /\ TimelyInv(v) /\ v.objs[i].prev = now
                    /\ \A k \in DOMAIN w.objs : k # i => v.objs[k] = w.objs[k]
<1> DEFINE v == Observe(w, i)
           d == Decay(w, i)
           c == Aged(w.objs[i].qual, now - w.objs[i].prev)
<1>1. /\ Right(d, {}, {})
      /\ \/ d = w /\ (DecayMode = "never" \/ w.objs[i].prev = now \/ w.objs[i].qual = {})
         \/ Content(w, d, i, c, now)
  BY RightDecay
<1>2. Keeps(w, v) /\ w.objs[i].ctx /\ w.objs[i] \in Object
  BY RightOwn, SoundDecay
<1> HIDE DEF d
<1>3. v = w \/ v = d
  BY DEF Observe, d
<1>4. Right(v, {}, {})
  BY <1>1, <1>3
<1>5. ASSUME DecayMode = "lazy", TimelyInv(w)
      PROVE  /\ TimelyInv(v) /\ v.objs[i].prev = now
             /\ \A k \in DOMAIN w.objs : k # i => v.objs[k] = w.objs[k]
  <2>1. v = d
    BY <1>2, <1>5 DEF Observe, d
  <2>2. w.objs[i].qual = {w.objs[i].prev} /\ w.objs[i].prev \in Nat
    BY <1>2, <1>5 DEF TimelyInv, Object
  <2>3. c = {now}
    BY <2>2, AgedOne
  <2> HIDE DEF c, v
  <2>4. CASE d = w /\ (DecayMode = "never" \/ w.objs[i].prev = now \/ w.objs[i].qual = {})
    BY <1>5, <2>1, <2>2, <2>4
  <2>5. CASE Content(w, d, i, c, now)
    <3>1. /\ DOMAIN v.objs = DOMAIN w.objs /\ v.objs[i].qual = {now} /\ v.objs[i].prev = now
          /\ \A k \in DOMAIN w.objs : k # i => v.objs[k] = w.objs[k]
      BY <2>1, <2>3, <2>5 DEF Content
    <3>2. TimelyInv(v)
      <4> SUFFICES ASSUME NEW k \in DOMAIN v.objs
                   PROVE  /\ v.objs[k].prev <= now
                          /\ v.objs[k].kind = "Material" => v.objs[k].qual = {v.objs[k].prev}
        BY DEF TimelyInv
      <4>1. CASE k = i
        BY <3>1, <4>1
      <4>2. CASE k # i
        BY <1>5, <3>1, <4>2 DEF TimelyInv
      <4> QED
        BY <4>1, <4>2
    <3> QED
      BY <3>1, <3>2
  <2> QED
    BY <1>1, <2>4, <2>5
<1>6. SameQtys(w, v)
  BY <1>1, <1>3 DEF SameQtys, Content
<1> QED
  BY <1>2, <1>4, <1>5, <1>6

\* The objects keep composition or quality and decay time.
SameTimes(w, v) ==
    /\ DOMAIN v.objs = DOMAIN w.objs
    /\ \A k \in DOMAIN w.objs : /\ v.objs[k].kind = w.objs[k].kind
                                /\ v.objs[k].qual = w.objs[k].qual
                                /\ v.objs[k].prev = w.objs[k].prev

\* Equal contents are equally timely.
LEMMA TimelySame ==
    ASSUME NEW w, NEW v, SameTimes(w, v), TimelyInv(w)
    PROVE  TimelyInv(v)
  BY DEF SameTimes, TimelyInv

\* A row changes no content.
LEMMA SameTimesWritten ==
    ASSUME NEW w \in Worlds, NEW r \in DOMAIN w.objs, NEW p1, NEW p2, NEW v,
           Written(w, v, r, p1, p2)
    PROVE  SameTimes(w, v)
<1>1. /\ Stamped(w, r).kind = w.objs[r].kind /\ Stamped(w, r).qual = w.objs[r].qual
      /\ Stamped(w, r).prev = w.objs[r].prev
  BY StampedFields
<1> QED
  BY <1>1 DEF Written, SameTimes

\* A change of the quantity alone changes no content.
LEMMA SameTimesAltered ==
    ASSUME NEW w, NEW i \in DOMAIN w.objs, NEW o, NEW v, Altered(w, v, i, o),
           o.kind = w.objs[i].kind, o.qual = w.objs[i].qual, o.prev = w.objs[i].prev
    PROVE  SameTimes(w, v)
  BY DEF Altered, SameTimes

\* Equality of contents is transitive.
LEMMA SameTimesTrans ==
    ASSUME NEW w, NEW v, NEW x, SameTimes(w, v), SameTimes(v, x)
    PROVE  SameTimes(w, x)
  BY DEF SameTimes

\* The end of Absorb: the absorbing object is recorded, the absorbed one is empty.
LEMMA RightAbsorb ==
    ASSUME NEW w, NEW i \in DOMAIN w.objs, NEW j \in DOMAIN w.objs, i # j, Right(w, {i}, {})
    PROVE  LET v == TrackAbsorb(Pour(w, i, j), i, j)
           IN  Right(v, {}, {}) /\ SameTimes(w, v) /\ Poured(w, v, i, j)
<1> DEFINE n  == Filled(w, i, j)
           m  == Emptied(w, j)
           w0 == Alter(w, i, n)
           w1 == Alter(w0, j, m)
           p1 == w1.objs[i].state
           p2 == w1.objs[j].state
           w2 == Record(w1, i, p1, p2)
<1>1. /\ Pour(w, i, j) = w1
      /\ SameObject(w.objs[i], n) /\ SameObject(w.objs[j], m)
      /\ n.tracked = w.objs[i].tracked /\ m.tracked = w.objs[j].tracked /\ m.merged
      /\ n.qual = w.objs[i].qual /\ m.qual = w.objs[j].qual
      /\ n.prev = w.objs[i].prev /\ m.prev = w.objs[j].prev
      /\ n.qty = w.objs[i].qty + w.objs[j].qty /\ m.qty = 0
  <2>1. Sound(w)
    BY DEF Right
  <2> QED
    BY <2>1, PourEffect
<1> HIDE DEF n, m
<1>2. Right(w0, {i}, {}) /\ Altered(w, w0, i, n)
  <2>1. Right(w0, {i} \cup {i}, {}) /\ Altered(w, w0, i, n)
    BY <1>1, RightAlter
  <2>2. {i} \cup {i} = {i}
    OBVIOUS
  <2> QED
    BY <2>1, <2>2
<1> HIDE DEF w0
<1>3. i \in DOMAIN w0.objs /\ j \in DOMAIN w0.objs /\ w0.objs[j] = w.objs[j]
  BY <1>2 DEF Altered
<1>4. Right(w1, {i} \cup {j}, {}) /\ Altered(w0, w1, j, m)
  BY <1>1, <1>2, <1>3, RightAlter
<1> HIDE DEF w1
<1>5. i \in DOMAIN w1.objs /\ j \in DOMAIN w1.objs /\ w1.objs[j] = m
  BY <1>3, <1>4 DEF Altered
<1>6. /\ w1.objs[i].res = i /\ w1.objs[i].tracked /\ p1 \in Nat /\ Known(w1, p1)
      /\ w1.objs[j].res = j /\ p2 \in Nat /\ Known(w1, p2) /\ w1 \in Worlds
  <2>1. i \notin {} /\ j \notin {}
    OBVIOUS
  <2>2. Right(w1, {i} \cup {j}, {})
    BY <1>4
  <2> QED
    BY <1>5, <2>1, <2>2, RightOwn
<1>7. TrackAbsorb(w1, i, j) = w2
  BY <1>6 DEF TrackAbsorb
<1>8. Linked(w1, {i} \cup {j}) /\ w1.objs[j].merged
  BY <1>1, <1>4, <1>5 DEF Right, HistoryInv
<1>9. Follows(w1, i, p1, p2, {})
  BY <1>5, <1>8 DEF Linked, Follows
<1> HIDE DEF p1, p2
<1>10. Right(w2, ({i} \cup {j}) \ {i}, {} \ {i}) /\ Written(w1, w2, i, p1, p2)
  BY <1>4, <1>5, <1>6, <1>9, RightRecord
<1> HIDE DEF w2
<1>10a. ({i} \cup {j}) \ {i} = {} \cup {j} /\ {} \ {i} = {}
  OBVIOUS
<1>10b. j \in DOMAIN w2.objs /\ w2.objs[j] = m
  BY <1>5, <1>10 DEF Written
<1>10c. Cited(w2, w2.objs[j].state)
  <2>1. w2.objs[j].state = p2 /\ p2 # 0
    BY <1>5, <1>8, <1>10b DEF Linked, p2
  <2>2. Len(w1.rows) + 1 \in DOMAIN w2.rows /\ w2.rows[Len(w1.rows) + 1].p2 = p2
    BY <1>10 DEF Written, RowFor
  <2> QED
    BY <2>1, <2>2 DEF Cited
<1>11. Right(w2, {}, {})
  <2>1. Sound(w2) /\ HistoryInv(w2, {} \cup {j}, {})
    BY <1>10, <1>10a DEF Right
  <2>2. HistoryInv(w2, {}, {})
    BY <1>1, <1>10b, <1>10c, <2>1, HistoryMerged
  <2> QED
    BY <2>1, <2>2 DEF Right
<1>12. SameTimes(w, w0)
  BY <1>1, <1>2, SameTimesAltered DEF SameObject
<1>13. SameTimes(w0, w1)
  BY <1>1, <1>3, <1>4, SameTimesAltered DEF SameObject
<1>14. SameTimes(w1, w2) /\ SameQtys(w1, w2)
  BY <1>5, <1>6, <1>10, SameTimesWritten, SameQtysWritten
<1>15. SameTimes(w, w2)
  BY <1>12, <1>13, <1>14, SameTimesTrans
<1>16. Poured(w, w2, i, j)
  BY <1>1, <1>2, <1>4, <1>14 DEF Poured, SameQtys, Altered
<1> QED
  BY <1>1, <1>7, <1>11, <1>15, <1>16

\* A quality that gets an id changes no row's meaning: tracked products have theirs.
LEMMA HistoryIds ==
    ASSUME NEW w, NEW v, Sound(w), HistoryInv(w, {}, {}), v.objs = w.objs, v.rows = w.rows,
           \A q \in Qualities : w.ids[q] # Absent => v.ids[q] = w.ids[q]
    PROVE  HistoryInv(v, {}, {})
<1>1. Own(w) /\ Descends(w) /\ Linked(w, {}) /\ \A k \in DOMAIN w.objs : Faithful(w, k, {}, {})
  BY HistoryFaithful
<1>2. Own(v) /\ Descends(v) /\ Linked(v, {})
  BY <1>1 DEF Own, Descends, Linked, Cited
<1>3. ASSUME NEW k \in DOMAIN v.objs
      PROVE  Faithful(v, k, {}, {})
  <2>1. w.objs[k] \in Object /\ Coherent(w.objs[k]) /\ w.objs[k].real
    BY <1>1, SoundObject DEF Own
  <2>2. w.objs[k].kind \in {"Material", "Product"}
    BY <2>1, ResTrackingAssumption DEF Object
  <2>3. QualId(v.ids, v.objs[k]) = QualId(w.ids, w.objs[k])
    <3>1. CASE w.objs[k].kind = "Material"
      BY <3>1 DEF QualId
    <3>2. CASE w.objs[k].kind = "Product"
      <4>1. w.objs[k].qual \in Qualities /\ w.ids[w.objs[k].qual] # Absent
        BY <2>1, <3>2 DEF Coherent, Sound, QualitiesInv
      <4> QED
        BY <3>2, <4>1 DEF QualId
    <3> QED
      BY <2>2, <3>1, <3>2
  <2>4. (Booked(w, k) <=> Booked(v, k)) /\ (Current(w, k) => Current(v, k))
    BY <2>3 DEF Booked, Current
  <2>5. Faithful(w, k, {}, {})
    BY <1>1
  <2> QED
    BY <2>4, <2>5 DEF Faithful
<1> QED
  BY <1>2, <1>3, HistoryFaithful

\* The programs for which compositions are timely.
Prompt == DecayMode = "lazy" /\ ~ Stable

\* A new object with a fresh composition is timely.
LEMMA TimelyAppended ==
    ASSUME NEW w \in Worlds, TimelyInv(w), NEW o, NEW v, Appended(w, v, o), o.prev <= now,
           o.kind = "Material" => o.qual = {o.prev}
    PROVE  TimelyInv(v)
  BY DEF TimelyInv, Appended

\* Creating a resource adds its quantity to the stock and a first row to the
\* table.
LEMMA RightCreate ==
    ASSUME NEW w, Right(w, {}, {}), nextObj \in Nat, now \in Nat, NEW kind \in Kinds,
           NEW qty \in Nat, NEW qual,
           IF kind = "Material" THEN qual \in Comp ELSE qual \in Qualities,
           kind = "Product" => w.ids[qual] # Absent
    PROVE  LET v == Record(New(w, kind, qty, qual, TRUE, TRUE), Len(w.objs) + 1, 0, 0)
           IN  /\ Right(v, {}, {}) /\ Stock(v) = Stock(w) + qty
               /\ TimelyInv(w) /\ (kind = "Material" => qual = {now}) => TimelyInv(v)
<1> DEFINE x == New(w, kind, qty, qual, TRUE, TRUE)
           o == Born(w, kind, qty, qual, TRUE, TRUE)
           n == Len(w.objs) + 1
           v == Record(x, n, 0, 0)
<1>1. Sound(w) /\ HistoryInv(w, {}, {}) /\ w \in Worlds /\ IdsInv(w)
  BY DEF Right, Sound, Shape
<1>2. Sound(x) /\ Appended(w, x, o)
  BY <1>1, SoundNew
<1>3. /\ o.res = n /\ o.ctx /\ o.tracked /\ o.real /\ o.kind = kind /\ o.qual = qual
      /\ o.prev = IF kind = "Material" THEN now ELSE 0
      /\ o.state = w.next /\ ~ o.merged /\ o.qty = qty
  BY DEF Born
<1> HIDE DEF x, o
<1>4. HistoryInv(x, {} \cup {n}, {} \cup {n})
  BY <1>1, <1>2, <1>3, HistoryAppended
<1>5. {} \cup {n} = {n} /\ {n} \ {n} = {}
  OBVIOUS
<1>6. Right(x, {n}, {n})
  BY <1>2, <1>4, <1>5 DEF Right
<1>7. n \in DOMAIN x.objs /\ x \in Worlds
  BY <1>2 DEF Appended
<1>8. Known(x, 0)
  BY DEF Known
<1> HIDE DEF n
<1>9. Right(v, {n} \ {n}, {n} \ {n}) /\ Written(x, v, n, 0, 0)
  <2>1. Follows(x, n, 0, 0, {n})
    BY <1>6 DEF Follows, Right, HistoryInv, Linked
  <2> QED
    BY <1>6, <1>7, <1>8, <2>1, RightRecord
<1> HIDE DEF v
<1>10. Right(v, {}, {})
  BY <1>5, <1>9
<1>11. SameTimes(x, v)
  BY <1>7, <1>9, SameTimesWritten
<1>12. ASSUME TimelyInv(w), kind = "Material" => qual = {now}
       PROVE  TimelyInv(v)
  <2>1. o.prev <= now /\ (o.kind = "Material" => o.qual = {o.prev})
    BY <1>3, <1>12
  <2>2. TimelyInv(x)
    BY <1>1, <1>2, <1>12, <2>1, TimelyAppended
  <2> QED
    BY <1>11, <2>2, TimelySame
<1>13. Stock(v) = Stock(w) + qty
  <2>1. SameQtys(x, v) /\ v \in Worlds
    BY <1>7, <1>9, SameQtysWritten DEF Written
  <2>2. /\ DOMAIN x.objs = DOMAIN w.objs \cup {n} /\ x.objs[n].qty = qty
        /\ \A k \in DOMAIN w.objs : x.objs[k].qty = w.objs[k].qty
    BY <1>2, <1>3 DEF Appended, n
  <2>3. n \notin DOMAIN w.objs
    <3>1. DOMAIN w.objs = 1..Len(w.objs) /\ Len(w.objs) \in Nat
      BY <1>1, Components
    <3> QED
      BY <3>1 DEF n
  <2>4. Stock(x) = Stock(w) + qty
    BY <1>1, <1>7, <2>2, <2>3, StockGrown
  <2> QED
    BY <2>1, <2>4, StockSame
<1> QED
  BY <1>10, <1>12, <1>13 DEF v, x, n

\* Material::Create and Product::Create keep the table truthful, the contents
\* timely and the balance.
LEMMA CreatesRight ==
    ASSUME Types, Right(World, {}, {}), CreateMaterial \/ CreateProduct
    PROVE  /\ Right(World', {}, {}) /\ (Prompt /\ TimelyInv(World) => TimelyInv(World'))
           /\ Stock(World) = created => Stock(World') = created'
<1>1. /\ nextObj \in Nat /\ now \in Nat /\ World.objs = objs
      /\ MaxQty \in Nat /\ \A q \in 1..MaxQty : q \in Nat
  BY WorldParts, ResTrackingAssumption DEF Types
<1>2. CASE CreateMaterial
  <2>1. PICK q \in 1..MaxQty, c \in NewComps :
          /\ Become(Record(New(World, "Material", q, c, TRUE, TRUE), Len(objs) + 1, 0, 0))
          /\ created' = created + q
    BY <1>2 DEF CreateMaterial
  <2> DEFINE v == Record(New(World, "Material", q, c, TRUE, TRUE), Len(World.objs) + 1, 0, 0)
  <2>2. c \in Comp /\ "Material" \in Kinds /\ q \in Nat
    BY <1>1, <1>2, NewCompsTyped DEF CreateMaterial
  <2>3. /\ Right(v, {}, {}) /\ (TimelyInv(World) /\ c = {now} => TimelyInv(v))
        /\ Stock(v) = Stock(World) + q
    BY <1>1, <2>2, RightCreate
  <2>4. Prompt => c = {now}
    BY DEF NewComps, Prompt
  <2>5. World' = v
    BY <1>1, <2>1, <2>3, SoundBecome DEF Right
  <2> QED
    BY <2>1, <2>3, <2>4, <2>5
<1>3. CASE CreateProduct
  <2>1. PICK n \in 1..MaxQty, q \in Qualities :
          /\ Become(Record(New(ProductId(World, q), "Product", n, q, TRUE, TRUE), Len(objs) + 1, 0, 0))
          /\ created' = created + n
    BY <1>3 DEF CreateProduct
  <2> DEFINE x == ProductId(World, q)
             v == Record(New(x, "Product", n, q, TRUE, TRUE), Len(x.objs) + 1, 0, 0)
  <2>2. "Product" \in Kinds /\ n \in Nat
    BY <1>1, <1>3 DEF CreateProduct
  <2>3. /\ Sound(x) /\ x.ids[q] # Absent /\ x.objs = World.objs /\ x.rows = World.rows
        /\ \A p \in Qualities : p # q => x.ids[p] = World.ids[p]
        /\ (World.ids[q] # Absent => x = World)
    BY SoundProductId DEF Right
  <2> HIDE DEF x
  <2>4. HistoryInv(x, {}, {})
    <3>1. \A p \in Qualities : World.ids[p] # Absent => x.ids[p] = World.ids[p]
      BY <2>3
    <3> QED
      BY <2>3, <3>1, HistoryIds DEF Right
  <2>5. Right(x, {}, {})
    BY <2>3, <2>4 DEF Right
  <2>6. Right(v, {}, {}) /\ (TimelyInv(x) => TimelyInv(v)) /\ Stock(v) = Stock(x) + n
    BY <1>1, <2>2, <2>3, <2>5, RightCreate
  <2>7. (TimelyInv(World) => TimelyInv(x)) /\ Stock(x) = Stock(World)
    BY <2>3 DEF TimelyInv, Stock, Amounts
  <2>8. World' = v
    BY <1>1, <2>1, <2>3, <2>6, SoundBecome DEF Right, x
  <2> QED
    BY <2>1, <2>6, <2>7, <2>8
<1> QED
  BY <1>2, <1>3

\* ResTracker::Extract: both states descend from the original's last one.
LEMMA RightTrackExtract ==
    ASSUME NEW w, NEW i \in DOMAIN w.objs, NEW j \in DOMAIN w.objs, i # j,
           Right(w, {i, j}, {j})
    PROVE  LET v == TrackExtract(w, i, j)
           IN  Right(v, {}, {}) /\ SameTimes(w, v) /\ SameQtys(w, v)
<1> DEFINE n == [w.objs[j] EXCEPT !.tracked = TRUE]
           w0 == Alter(w, j, n)
           p == w.objs[i].state
           w1 == Record(w0, i, p, 0)
           w2 == Record(w1, j, p, 0)
<1>1. /\ w \in Worlds /\ w.objs[j] \in Object /\ Coherent(w.objs[j]) /\ w.objs[j].tracked
      /\ w.objs[i].res = i /\ w.objs[i].tracked /\ p \in Nat /\ Known(w, p)
  BY RightOwn
<1>2. [w EXCEPT !.objs[j].tracked = TRUE] = w0
  BY <1>1 DEF Alter, Worlds
<1>3. /\ SameObject(w.objs[j], n) /\ n.qual = w.objs[j].qual /\ n.prev = w.objs[j].prev /\ n.tracked
      /\ n.qty = w.objs[j].qty
  BY <1>1, SetTracked
<1>4. n.tracked = w.objs[j].tracked
  <2>1. w.objs[j].tracked = TRUE
    BY <1>1 DEF Object
  <2> QED
    BY <1>1, <2>1 DEF Object
<1> HIDE DEF n
<1>5. Right(w0, {i, j} \cup {j}, {j}) /\ Altered(w, w0, j, n)
  BY <1>3, <1>4, RightAlter
<1>6. {i, j} \cup {j} = {i, j} /\ {i, j} \ {i} = {j} /\ {j} \ {i} = {j} /\ {j} \ {j} = {}
  OBVIOUS
<1> HIDE DEF w0, p
<1>7. i \in DOMAIN w0.objs /\ j \in DOMAIN w0.objs /\ w0.rows = w.rows /\ w0 \in Worlds
  BY <1>5 DEF Altered
<1>8. Known(w0, p) /\ Known(w0, 0)
  BY <1>1, <1>7 DEF Known
<1>9. Right(w0, {i, j}, {j})
  BY <1>5, <1>6
<1>10. /\ Right(w1, {i, j} \ {i}, {j} \ {i}) /\ Written(w0, w1, i, p, 0)
       /\ \A x : Known(w0, x) => Known(w1, x)
  <2>1. Linked(w0, {i, j}) /\ w0.objs[i].state = p
    BY <1>5, <1>9 DEF Right, HistoryInv, Altered, p
  <2>2. Follows(w0, i, p, 0, {j})
    BY <1>7, <2>1 DEF Linked, Follows
  <2> QED
    BY <1>1, <1>7, <1>8, <1>9, <2>2, RightRecord
<1> HIDE DEF w1
<1>11. Right(w1, {j}, {j}) /\ Known(w1, p) /\ Known(w1, 0)
  BY <1>6, <1>8, <1>10
<1>12. j \in DOMAIN w1.objs /\ w1 \in Worlds
  BY <1>7, <1>10 DEF Written
<1>13. Right(w2, {j} \ {j}, {j} \ {j}) /\ Written(w1, w2, j, p, 0)
  <2>1. Linked(w0, {i, j}) /\ w0.objs[i].state = p /\ IdsInv(w0)
    BY <1>5, <1>9 DEF Right, Sound, HistoryInv, Altered, p
  <2>2. /\ DOMAIN w1.objs = DOMAIN w0.objs /\ w1.objs[i].state = w0.next
        /\ \A k \in DOMAIN w0.objs : k # i => w1.objs[k] = w0.objs[k]
    BY <1>7, <1>10, StampedFields DEF Written
  <2>3. w0.next # p /\ w0.next # 0
    BY <1>7, <2>1, NextUnused
  <2>4. Follows(w1, j, p, 0, {j})
    BY <1>7, <2>1, <2>2, <2>3 DEF Linked, Follows
  <2> QED
    BY <1>1, <1>11, <1>12, <2>4, RightRecord
<1> HIDE DEF w2
<1>14. Right(w2, {}, {})
  BY <1>6, <1>13
<1>15. SameTimes(w, w0)
  BY <1>3, <1>5, SameTimesAltered DEF SameObject
<1>16. SameTimes(w0, w1)
  BY <1>7, <1>10, SameTimesWritten
<1>17. SameTimes(w1, w2)
  BY <1>12, <1>13, SameTimesWritten
<1>18. SameTimes(w, w2)
  BY <1>15, <1>16, <1>17, SameTimesTrans
<1>18a. SameQtys(w, w2)
  <2>1. SameQtys(w, w0)
    BY <1>3, <1>5 DEF SameQtys, Altered
  <2>2. SameQtys(w0, w1) /\ SameQtys(w1, w2)
    BY <1>7, <1>10, <1>12, <1>13, SameQtysWritten
  <2> QED
    BY <2>1, <2>2, SameQtysTrans
<1>19. TrackExtract(w, i, j) = w2
  BY <1>1, <1>2 DEF TrackExtract, w1, w2, p
<1> QED
  BY <1>14, <1>18, <1>18a, <1>19

\* Extracting keeps the table truthful and the balance, and the contents
\* timely when the composition is not asked to differ.
LEMMA SplitRight ==
    ASSUME NEW w, Right(w, {}, {}), nextObj \in Nat, now \in Nat, NEW i \in DOMAIN w.objs,
           NEW q \in Nat, q <= w.objs[i].qty, NEW c, NEW rest,
           IF w.objs[i].kind = "Material" THEN c \in Comp /\ rest \in Comp
           ELSE c = w.objs[i].qual /\ rest = c
    PROVE  LET v == Split(w, i, q, c, rest)
           IN  /\ Right(v, {}, {}) /\ Stock(v) = Stock(w)
               /\ TimelyInv(w) /\ c = w.objs[i].qual /\ rest = c => TimelyInv(v)
<1> DEFINE n  == Remainder(w, i, q, rest)
           w0 == Shrunk(w, i, q, rest)
           w1 == Removed(w, i, q, c, rest)
           o  == Newborn(w, i, q, c, rest)
           m  == Piece(w, i, q, c, rest)
           w2 == Cut(w, i, q, c, rest)
           j  == Len(w.objs) + 1
           v  == Split(w, i, q, c, rest)
<1>1. Sound(w) /\ HistoryInv(w, {}, {}) /\ w \in Worlds
  BY DEF Right, Sound, Shape
<1>2. /\ v = TrackExtract(w2, i, j)
      /\ SameObject(w.objs[i], n) /\ Keeps(w, w0) /\ Altered(w, w0, i, n)
      /\ n.tracked = w.objs[i].tracked /\ n.prev = w.objs[i].prev /\ n.qual = rest
      /\ n.qty = w.objs[i].qty - q /\ m.qty = q
      /\ Sound(w1) /\ Appended(w0, w1, o)
      /\ SameObject(o, m) /\ Sound(w2) /\ Altered(w1, w2, j, m)
      /\ m.tracked = o.tracked /\ m.prev = w.objs[i].prev /\ m.qual = c
      /\ i \in DOMAIN w2.objs /\ j \in DOMAIN w2.objs
  BY <1>1, ExtractSound
<1>3. /\ o.res = Len(w0.objs) + 1 /\ o.ctx = w.objs[i].ctx /\ o.real = w.objs[i].real
      /\ o.tracked = (w.objs[i].ctx \/ w.objs[i].kind = "Product") /\ o.kind = w.objs[i].kind
      /\ o.state = w0.next /\ ~ o.merged
  BY DEF Newborn, Born
<1>4. w.objs[i].ctx /\ w.objs[i].real
  BY RightOwn
<1> HIDE DEF n, w0, w1, o, m, w2, v
<1>5. DOMAIN w.objs = 1..Len(w.objs) /\ Len(w.objs) \in Nat /\ Len(w0.objs) = Len(w.objs)
      /\ w0 \in Worlds
  BY <1>1, <1>2, Components DEF Altered
<1>6. i # j
  BY <1>5
<1>7. HistoryInv(w0, {i}, {})
  <2>1. SameBook(w.objs[i], n)
    BY <1>2 DEF SameBook, SameObject
  <2>2. HistoryInv(w0, {} \cup {i}, {})
    BY <1>1, <1>2, <2>1, HistoryAltered
  <2>3. {} \cup {i} = {i}
    OBVIOUS
  <2> QED
    BY <2>2, <2>3
<1>8. HistoryInv(w1, {i, j}, {j})
  <2>1. o.ctx /\ o.tracked /\ o.real /\ IdsInv(w0)
    BY <1>2, <1>3, <1>4 DEF Keeps, Sound
  <2>2. HistoryInv(w1, {i} \cup {j}, {} \cup {j})
    BY <1>3, <1>5, <1>7, <2>1, <1>2, HistoryAppended
  <2>3. {i} \cup {j} = {i, j} /\ {} \cup {j} = {j}
    OBVIOUS
  <2> QED
    BY <2>2, <2>3
<1>9. j \in DOMAIN w1.objs /\ w1.objs[j] = o
  BY <1>2, <1>5 DEF Appended
<1> HIDE DEF j
<1>10. Right(w2, {i, j}, {j})
  <2>1. SameBook(w1.objs[j], m)
    BY <1>2, <1>9 DEF SameBook, SameObject
  <2>2. HistoryInv(w2, {i, j} \cup {j}, {j})
    BY <1>2, <1>8, <1>9, <2>1, HistoryAltered
  <2>3. {i, j} \cup {j} = {i, j}
    OBVIOUS
  <2> QED
    BY <1>2, <2>2, <2>3 DEF Right
<1>11. /\ Right(TrackExtract(w2, i, j), {}, {}) /\ SameTimes(w2, TrackExtract(w2, i, j))
       /\ SameQtys(w2, TrackExtract(w2, i, j))
  BY <1>2, <1>6, <1>10, RightTrackExtract
<1>12. ASSUME TimelyInv(w), c = w.objs[i].qual, rest = c
       PROVE  TimelyInv(v)
  <2>1. TimelyInv(w0)
    <3>1. SameTimes(w, w0)
      BY <1>2, <1>12, SameTimesAltered DEF SameObject
    <3> QED
      BY <1>12, <3>1, TimelySame
  <2>2. w.objs[i].prev <= now /\ (w.objs[i].kind = "Material" => w.objs[i].qual = {w.objs[i].prev})
    BY <1>12 DEF TimelyInv
  <2>3. m.prev <= now /\ (m.kind = "Material" => m.qual = {m.prev})
    BY <1>2, <1>3, <1>12, <2>2 DEF SameObject
  <2>4. TimelyInv(w2)
    <3> SUFFICES ASSUME NEW k \in DOMAIN w2.objs
                 PROVE  /\ w2.objs[k].prev <= now
                        /\ w2.objs[k].kind = "Material" => w2.objs[k].qual = {w2.objs[k].prev}
      BY DEF TimelyInv
    <3>1. CASE k = j
      BY <1>2, <2>3, <3>1 DEF Altered
    <3>2. CASE k # j
      <4>1. k \in DOMAIN w0.objs /\ w2.objs[k] = w0.objs[k]
        BY <1>2, <1>5, <3>2 DEF Altered, Appended, j
      <4> QED
        BY <2>1, <4>1 DEF TimelyInv
    <3> QED
      BY <3>1, <3>2
  <2> QED
    BY <1>2, <1>11, <2>4, TimelySame
<1>13. Stock(v) = Stock(w)
  <2>1. j \notin DOMAIN w.objs
    BY <1>5 DEF j
  <2>2. /\ DOMAIN w2.objs = DOMAIN w.objs \cup {j} /\ w2.objs[j].qty = q
        /\ w2.objs[i].qty = w.objs[i].qty - q
        /\ \A k \in DOMAIN w.objs \ {i} : w2.objs[k].qty = w.objs[k].qty
    BY <1>2, <1>5, <1>6, <2>1 DEF Altered, Appended, j
  <2>3. w2 \in Worlds
    BY <1>2 DEF Altered
  <2>4. Stock(w2) = Stock(w)
    BY <1>1, <2>1, <2>2, <2>3, StockSplit
  <2> QED
    BY <1>2, <1>11, <2>4, StockSame
<1> QED
  BY <1>2, <1>11, <1>12, <1>13 DEF v

\* An object may be called open.
LEMMA HistoryWeaken ==
    ASSUME NEW w, HistoryInv(w, {}, {}), NEW i
    PROVE  HistoryInv(w, {i}, {})
  BY DEF HistoryInv, Linked

\* Material::Absorb: two compositions that are right for now make one that is.
LEMMA AbsorbsRight ==
    ASSUME Types, Right(World, {}, {}), AbsorbMaterial \/ AbsorbProduct
    PROVE  /\ Right(World', {}, {}) /\ (Prompt /\ TimelyInv(World) => TimelyInv(World'))
           /\ Stock(World') = Stock(World)
<1>1. now \in Nat /\ World.objs = objs
  BY WorldParts DEF Types
<1>2. CASE AbsorbMaterial
  <2>1. PICK i \in Materials, j \in Materials :
          /\ i # j
          /\ LET w == Observe(Observe(World, i), j)
             IN  Become(TrackAbsorb(Pour(Mix(w, i, j), i, j), i, j))
    BY <1>2 DEF AbsorbMaterial
  <2>2. /\ i \in DOMAIN World.objs /\ World.objs[i].kind = "Material"
        /\ j \in DOMAIN World.objs /\ World.objs[j].kind = "Material"
    BY <1>1 DEF Materials
  <2> DEFINE w == World
             w1 == Observe(w, i)
             w2 == Observe(w1, j)
             n  == Mixed(w2, i, j)
             w3 == Mix(w2, i, j)
             v  == TrackAbsorb(Pour(w3, i, j), i, j)
  <2> HIDE DEF w
  <2>3. /\ Right(w1, {}, {}) /\ Keeps(w, w1) /\ SameQtys(w, w1)
        /\ DecayMode = "lazy" /\ TimelyInv(w) =>
             /\ TimelyInv(w1) /\ w1.objs[i].prev = now
             /\ \A k \in DOMAIN w.objs : k # i => w1.objs[k] = w.objs[k]
    BY <1>1, <2>2, RightObserve DEF w
  <2> HIDE DEF w1
  <2>4. /\ i \in DOMAIN w1.objs /\ w1.objs[i].kind = "Material"
        /\ j \in DOMAIN w1.objs /\ w1.objs[j].kind = "Material"
    BY <2>2, <2>3 DEF Keeps, SameKinds, w
  <2>5. /\ Right(w2, {}, {}) /\ Keeps(w1, w2) /\ SameQtys(w1, w2)
        /\ DecayMode = "lazy" /\ TimelyInv(w1) =>
             /\ TimelyInv(w2) /\ w2.objs[j].prev = now
             /\ \A k \in DOMAIN w1.objs : k # j => w2.objs[k] = w1.objs[k]
    BY <1>1, <2>3, <2>4, RightObserve
  <2> HIDE DEF w2
  <2>6. /\ i \in DOMAIN w2.objs /\ w2.objs[i].kind = "Material"
        /\ j \in DOMAIN w2.objs /\ w2.objs[j].kind = "Material" /\ Sound(w2)
    BY <2>4, <2>5 DEF Keeps, SameKinds
  <2>7. /\ w3 = Alter(w2, i, n) /\ SameObject(w2.objs[i], n) /\ n.tracked = w2.objs[i].tracked
        /\ n.qty = w2.objs[i].qty
        /\ n.qual = w2.objs[i].qual \cup w2.objs[j].qual
        /\ n.prev = IF w2.objs[i].qty < w2.objs[j].qty THEN w2.objs[j].prev ELSE w2.objs[i].prev
    BY <2>6, SoundMix
  <2> HIDE DEF w3, n
  <2>8. Right(w3, {i}, {}) /\ Altered(w2, w3, i, n)
    <3>1. Right(w3, {} \cup {i}, {}) /\ Altered(w2, w3, i, n)
      BY <2>5, <2>6, <2>7, RightAlter
    <3>2. {} \cup {i} = {i}
      OBVIOUS
    <3> QED
      BY <3>1, <3>2
  <2>9. i \in DOMAIN w3.objs /\ j \in DOMAIN w3.objs
    BY <2>6, <2>8 DEF Altered
  <2>10. Right(v, {}, {}) /\ SameTimes(w3, v) /\ Poured(w3, v, i, j)
    BY <2>1, <2>8, <2>9, RightAbsorb
  <2>11. World' = v
    BY <2>1, <2>10, SoundBecome DEF Right, v, w3, w2, w1, w
  <2> HIDE DEF v
  <2>12. ASSUME Prompt, TimelyInv(w)
         PROVE  TimelyInv(v)
    <3>1. TimelyInv(w2) /\ w2.objs[i].prev = now /\ w2.objs[j].prev = now
      BY <2>1, <2>3, <2>4, <2>5, <2>12 DEF Prompt
    <3>2. w2.objs[i].qual = {now} /\ w2.objs[j].qual = {now}
      BY <2>6, <3>1 DEF TimelyInv
    <3>3. n.qual = {now} /\ n.prev = now
      BY <2>7, <3>1, <3>2
    <3>4. TimelyInv(w3)
      <4> SUFFICES ASSUME NEW k \in DOMAIN w3.objs
                   PROVE  /\ w3.objs[k].prev <= now
                          /\ w3.objs[k].kind = "Material" => w3.objs[k].qual = {w3.objs[k].prev}
        BY DEF TimelyInv
      <4>1. CASE k = i
        BY <1>1, <2>8, <3>3, <4>1 DEF Altered
      <4>2. CASE k # i
        BY <2>8, <3>1, <4>2 DEF Altered, TimelyInv
      <4> QED
        BY <4>1, <4>2
    <3> QED
      BY <2>10, <3>4, TimelySame
  <2>13. Stock(v) = Stock(w)
    <3>1. SameQtys(w2, w3)
      BY <2>7, <2>8 DEF SameQtys, Altered
    <3>2. Stock(w3) = Stock(w)
      BY <2>3, <2>5, <3>1, StockSame
    <3>3. w3 \in Worlds /\ v \in Worlds
      BY <2>8, <2>10 DEF Right, Sound, Shape
    <3>4. Stock(v) = Stock(w3)
      BY <2>1, <2>9, <2>10, <3>3, StockPoured
    <3> QED
      BY <3>2, <3>4
  <2> QED
    BY <2>10, <2>11, <2>12, <2>13 DEF w
<1>3. CASE AbsorbProduct
  <2>1. PICK i \in DOMAIN objs \ Materials, j \in DOMAIN objs \ Materials :
          i # j /\ Become(TrackAbsorb(Pour(World, i, j), i, j))
    BY <1>3 DEF AbsorbProduct
  <2> DEFINE v == TrackAbsorb(Pour(World, i, j), i, j)
  <2>2. i \in DOMAIN World.objs /\ j \in DOMAIN World.objs
    BY <1>1
  <2>3. Right(World, {i}, {})
    BY HistoryWeaken DEF Right
  <2>4. Right(v, {}, {}) /\ SameTimes(World, v) /\ Poured(World, v, i, j)
    BY <2>1, <2>2, <2>3, RightAbsorb
  <2>5. World' = v
    BY <2>1, <2>4, SoundBecome DEF Right
  <2>6. World \in Worlds /\ v \in Worlds
    BY <2>3, <2>4 DEF Right, Sound, Shape
  <2>7. Stock(v) = Stock(World)
    <3> HIDE DEF v
    <3> QED
      BY <2>1, <2>2, <2>4, <2>6, StockPoured
  <2> QED
    BY <2>4, <2>5, <2>7, TimelySame
<1> QED
  BY <1>2, <1>3

\* An object whose content is set to that of now is timely.
LEMMA TimelyContent ==
    ASSUME NEW w, NEW v, NEW i \in DOMAIN w.objs, TimelyInv(w), now \in Nat,
           Content(w, v, i, {now}, now)
    PROVE  TimelyInv(v)
<1> SUFFICES ASSUME NEW k \in DOMAIN v.objs
             PROVE  /\ v.objs[k].prev <= now
                    /\ v.objs[k].kind = "Material" => v.objs[k].qual = {v.objs[k].prev}
  BY DEF TimelyInv
<1>1. CASE k = i
  BY <1>1 DEF Content
<1>2. CASE k # i
  BY <1>2 DEF Content, TimelyInv
<1> QED
  BY <1>1, <1>2

\* Transmute and Decay keep the table truthful, the contents timely and the
\* balance.
LEMMA ChangesRight ==
    ASSUME Types, Right(World, {}, {}), CallTransmute \/ CallDecay
    PROVE  /\ Right(World', {}, {}) /\ (Prompt /\ TimelyInv(World) => TimelyInv(World'))
           /\ Stock(World') = Stock(World)
<1> DEFINE w == World
<1>1. now \in Nat /\ w.objs = objs /\ Right(w, {}, {})
  BY WorldParts DEF Types
<1> HIDE DEF w
<1>2. CASE CallTransmute
  <2>1. PICK i \in Materials, c \in NewComps : Become(Transmute(w, i, c))
    BY <1>2 DEF CallTransmute, w
  <2> DEFINE v == Transmute(w, i, c)
             t == IF now > w.objs[i].prev THEN now ELSE w.objs[i].prev
  <2>2. i \in DOMAIN w.objs /\ w.objs[i].kind = "Material" /\ c \in Comp
    BY <1>1, NewCompsTyped DEF Materials
  <2>3. Right(v, {}, {}) /\ Content(w, v, i, c, t)
    BY <1>1, <2>2, RightTransmute
  <2>4. World' = v
    BY <2>1, <2>3, SoundBecome DEF Right
  <2>5. ASSUME Prompt, TimelyInv(w)
        PROVE  TimelyInv(v)
    <3>1. c = {now}
      BY <2>1, <2>5 DEF NewComps, Prompt
    <3>2. t = now
      <4>1. w.objs[i].prev <= now /\ w.objs[i] \in Object
        BY <1>1, <2>2, <2>5, RightOwn DEF TimelyInv
      <4>2. w.objs[i].prev \in Nat
        BY <4>1 DEF Object
      <4> QED
        BY <1>1, <4>1, <4>2
    <3> HIDE DEF v, t
    <3> QED
      BY <1>1, <2>2, <2>3, <2>5, <3>1, <3>2, TimelyContent
  <2>6. Stock(v) = Stock(w)
    <3>1. SameQtys(w, v)
      BY <2>2, <2>3 DEF Content, SameQtys
    <3> QED
      BY <3>1, StockSame
  <2> QED
    BY <2>3, <2>4, <2>5, <2>6 DEF w
<1>3. CASE CallDecay
  <2>1. PICK i \in Materials : Become(Decay(w, i))
    BY <1>3 DEF CallDecay, w
  <2> DEFINE v == Decay(w, i)
             c == Aged(w.objs[i].qual, now - w.objs[i].prev)
  <2>2. i \in DOMAIN w.objs /\ w.objs[i].kind = "Material"
    BY <1>1 DEF Materials
  <2>3. Right(v, {}, {}) /\ (v = w \/ Content(w, v, i, c, now))
    BY <1>1, <2>2, RightDecay
  <2>4. World' = v
    BY <2>1, <2>3, SoundBecome DEF Right
  <2> HIDE DEF v
  <2>5. ASSUME Prompt, TimelyInv(w)
        PROVE  TimelyInv(v)
    <3>1. w.objs[i].qual = {w.objs[i].prev} /\ w.objs[i] \in Object
      BY <1>1, <2>2, <2>5, RightOwn DEF TimelyInv
    <3>2. w.objs[i].prev \in Nat
      BY <3>1 DEF Object
    <3>3. c = {now}
      BY <1>1, <3>1, <3>2, AgedOne
    <3> HIDE DEF c
    <3> QED
      BY <1>1, <2>2, <2>3, <2>5, <3>3, TimelyContent
  <2>6. Stock(v) = Stock(w)
    <3>1. SameQtys(w, v)
      BY <2>2, <2>3 DEF Content, SameQtys
    <3> QED
      BY <3>1, StockSame
  <2> QED
    BY <2>3, <2>4, <2>5, <2>6 DEF w
<1> QED
  BY <1>2, <1>3

\* The history of the next world is that of the next state.
LEMMA HistoryPrime ==
    ASSUME HistoryInv(World', {}, {})
    PROVE  HistoryInv(World, {}, {})'
  BY DEF HistoryInv, Own, Descends, Linked, Cited, Booked, Current, QualId

\* Every step of a program without copied trackers keeps all three.
LEMMA StepRight ==
    ASSUME Types, Right(World, {}, {}), ~ Copies, [Next]_vars
    PROVE  /\ Right(World', {}, {})
           /\ Prompt /\ TimelyInv(World) => TimelyInv(World)'
           /\ Stock(World) = created => Stock(World') = created'
<1>1. CASE Tick
  <2>1. World' = World /\ now' = now + 1 /\ created' = created
    BY <1>1 DEF Tick, World
  <2>2. ASSUME TimelyInv(World)
        PROVE  TimelyInv(World)'
    <3>1. \A k \in DOMAIN World.objs : World.objs[k] \in Object
      BY RightOwn
    <3>2. \A k \in DOMAIN World.objs : World.objs[k].prev \in Nat
      BY <3>1 DEF Object
    <3>3. \A k \in DOMAIN World.objs : World.objs[k].prev <= now + 1
      BY <2>2, <3>2 DEF TimelyInv, Types
    <3> QED
      BY <2>1, <2>2, <3>3 DEF TimelyInv
  <2> QED
    BY <2>1, <2>2
<1>2. CASE ~ Tick
  <2>1. now' = now
    BY <1>2 DEF Next, CreateMaterial, CreateProduct, CreateUntracked, Clone, Extract, AbsorbMaterial,
         AbsorbProduct, CallTransmute, CallDecay, CallQualId, vars
  <2>2. /\ Right(World', {}, {}) /\ (Prompt /\ TimelyInv(World) => TimelyInv(World'))
        /\ Stock(World) = created => Stock(World') = created'
    <3>1. CASE CreateMaterial \/ CreateProduct
      BY <3>1, CreatesRight
    <3>2. CASE CreateUntracked \/ Clone
      BY <3>2 DEF CreateUntracked, Clone
    <3>3. CASE Extract
      <4>0. PICK i \in DOMAIN World.objs, q \in Nat : \E c, rest :
              /\ q <= World.objs[i].qty /\ Become(Split(World, i, q, c, rest))
              /\ IF World.objs[i].kind = "Material" THEN c \in Comp /\ rest \in Comp
                 ELSE c = World.objs[i].qual /\ rest = c
              /\ ~ Stable => c = World.objs[i].qual /\ rest = c
        BY <3>3, ExtractChoice DEF Right
      <4>1. PICK c, rest :
              /\ q <= World.objs[i].qty /\ Become(Split(World, i, q, c, rest))
              /\ IF World.objs[i].kind = "Material" THEN c \in Comp /\ rest \in Comp
                 ELSE c = World.objs[i].qual /\ rest = c
              /\ ~ Stable => c = World.objs[i].qual /\ rest = c
        BY <4>0
      <4> DEFINE v == Split(World, i, q, c, rest)
      <4>2. nextObj \in Nat /\ now \in Nat
        BY DEF Types
      <4>3. /\ Right(v, {}, {}) /\ Stock(v) = Stock(World)
            /\ TimelyInv(World) /\ c = World.objs[i].qual /\ rest = c => TimelyInv(v)
        BY <4>1, <4>2, SplitRight
      <4>4. World' = v
        BY <4>1, <4>3, SoundBecome DEF Right
      <4>5. created' = created
        BY <3>3 DEF Extract
      <4> QED
        BY <4>1, <4>3, <4>4, <4>5 DEF Prompt
    <3>4. CASE AbsorbMaterial \/ AbsorbProduct
      <4>1. created' = created
        BY <3>4 DEF AbsorbMaterial, AbsorbProduct
      <4> QED
        BY <3>4, <4>1, AbsorbsRight
    <3>5. CASE CallTransmute \/ CallDecay
      <4>1. created' = created
        BY <3>5 DEF CallTransmute, CallDecay
      <4> QED
        BY <3>5, <4>1, ChangesRight
    <3>6. CASE CallQualId
      <4>1. /\ Sound(World') /\ objs' = objs /\ rows' = rows
            /\ \A q \in Qualities : qualids[q] # Absent => qualids'[q] = qualids[q]
        BY <3>6, QualIdSound DEF Right
      <4>2. /\ World.objs = objs /\ World.rows = rows /\ World.ids = qualids
            /\ World'.objs = objs' /\ World'.rows = rows' /\ World'.ids = qualids'
        BY DEF World
      <4> DEFINE v == World'
      <4> HIDE DEF v
      <4>3. v.objs = World.objs /\ v.rows = World.rows
        BY <4>1, <4>2 DEF v
      <4>4. \A q \in Qualities : World.ids[q] # Absent => v.ids[q] = World.ids[q]
        BY <4>1, <4>2 DEF v
      <4>5. HistoryInv(v, {}, {})
        BY <4>3, <4>4, HistoryIds DEF Right
      <4>6. (TimelyInv(World) => TimelyInv(v)) /\ Stock(v) = Stock(World)
        BY <4>3 DEF TimelyInv, Stock, Amounts
      <4>7. created' = created
        BY <3>6 DEF CallQualId
      <4> QED
        BY <4>1, <4>5, <4>6, <4>7 DEF Right, v
    <3>7. CASE UNCHANGED vars
      <4>1. World' = World /\ created' = created
        BY <3>7 DEF vars, World
      <4> QED
        BY <4>1
    <3> QED
      BY <1>2, <3>1, <3>2, <3>3, <3>4, <3>5, <3>6, <3>7 DEF Next
  <2>3. TimelyInv(World') => TimelyInv(World)'
    BY <2>1 DEF TimelyInv
  <2> QED
    BY <2>2, <2>3
<1> QED
  BY <1>1, <1>2

-----------------------------------------------------------------------------
(***************************************************************************)
(* The inductive invariant of the theorems about programs without copies.  *)
(***************************************************************************)
Truth ==
    /\ Types /\ Sound(World)
    /\ ~ Copies => HistoryInv(World, {}, {})
    /\ ~ Copies /\ Prompt => TimelyInv(World)
    /\ ~ Copies => Stock(World) = created

\* Truth holds at first: nothing is created or recorded.
LEMMA StartsTrue == Init => Truth
<1> SUFFICES ASSUME Init
             PROVE  Truth
  OBVIOUS
<1>1. Types /\ Sound(World)
  BY StartsSound
<1>2. DOMAIN World.objs = {} /\ DOMAIN World.rows = {}
  BY WorldParts DEF Init
<1>3. HistoryInv(World, {}, {}) /\ TimelyInv(World)
  BY <1>2 DEF HistoryInv, Own, Descends, Linked, TimelyInv
<1>4. Stock(World) = created
  BY <1>2, TotalEmpty DEF Stock, Init
<1> QED
  BY <1>1, <1>3, <1>4 DEF Truth

\* The stock of the next world is that of the next state.
LEMMA StockPrime ==
    Stock(World)' = Stock(World')
  BY DEF Stock, Amounts, Total, MapThenSumSet, MapThenFoldSet

\* Truth is inductive.
LEMMA StepTrue == Truth /\ [Next]_vars => Truth'
<1> SUFFICES ASSUME Truth, [Next]_vars
             PROVE  Truth'
  OBVIOUS
<1>1. Types' /\ Sound(World)'
  BY StepSound, SoundPrime DEF Truth
<1>2. prog' = prog
  BY DEF Next, CreateMaterial, CreateProduct, CreateUntracked, Clone, Extract, AbsorbMaterial,
         AbsorbProduct, CallTransmute, CallDecay, CallQualId, Tick, vars
<1>3. Copies' = Copies /\ Prompt' = Prompt
  BY <1>2 DEF Copies, Prompt, DecayMode, Stable
<1>4. CASE Copies
  BY <1>1, <1>3, <1>4 DEF Truth
<1>5. CASE ~ Copies
  <2>1. Right(World, {}, {}) /\ (Prompt => TimelyInv(World)) /\ Stock(World) = created
    BY <1>5 DEF Truth, Right
  <2>2. /\ Right(World', {}, {}) /\ (Prompt /\ TimelyInv(World) => TimelyInv(World)')
        /\ Stock(World') = created'
    BY <1>5, <2>1, StepRight DEF Truth
  <2>3. HistoryInv(World, {}, {})'
    BY <2>2, HistoryPrime DEF Right
  <2>4. (Stock(World) = created)'
    BY <2>2, StockPrime
  <2> QED
    BY <1>1, <1>3, <2>1, <2>2, <2>3, <2>4 DEF Truth
<1> QED
  BY <1>4, <1>5

\* Truth gives the two properties of rows and contents.
LEMMA TruthGives == Truth => RowsTruthful /\ CompositionTimely
<1> SUFFICES ASSUME Truth
             PROVE  RowsTruthful /\ CompositionTimely
  OBVIOUS
<1>1. World.objs = objs /\ World.rows = rows /\ World.ids = qualids
  BY WorldParts
<1>2. ASSUME ~ Copies
      PROVE  Provenance /\ BooksCurrent
  <2>1. HistoryInv(World, {}, {})
    BY <1>2 DEF Truth
  <2>2. Provenance
    BY <1>1, <2>1 DEF HistoryInv, Descends, Provenance, Parents
  <2>3. BooksCurrent
    BY <1>1, <2>1 DEF HistoryInv, Current, BooksCurrent
  <2> QED
    BY <2>2, <2>3
<1>3. RowsTruthful
  BY <1>2 DEF RowsTruthful, Provenance, BooksCurrent
<1>4. ASSUME DecayMode = "lazy", ~ Stable, ~ Copies, NEW i \in DOMAIN objs, objs[i].real,
             i \in Materials
      PROVE  objs[i].qual \subseteq {objs[i].prev}
  <2>1. TimelyInv(World)
    BY <1>4 DEF Truth, Prompt
  <2> QED
    BY <1>1, <1>4, <2>1 DEF TimelyInv, Materials
<1> QED
  BY <1>3, <1>4 DEF CompositionTimely

(***************************************************************************)
(* The leaves of the table are the rows of the objects that were not       *)
(* absorbed, one each.                                                     *)
(***************************************************************************)
Present(w) == {i \in DOMAIN w.objs : ~ w.objs[i].merged}
Ends(w)    == {k \in DOMAIN w.rows : ~ Cited(w, w.rows[k].id)}
RowOf(w)   == [i \in Present(w) |-> CHOOSE k \in DOMAIN w.rows :
                 w.rows[k].id = w.objs[i].state /\ w.rows[k].qty = w.objs[i].qty]
RowQtys(w) == [k \in Ends(w) |-> w.rows[k].qty]

\* The objects that are present correspond one to one to the rows no other
\* row has as a parent.
LEMMA RowOfPresent ==
    ASSUME NEW w, Right(w, {}, {})
    PROVE  /\ \A i \in Present(w) :
                /\ RowOf(w)[i] \in Ends(w) /\ w.rows[RowOf(w)[i]].id = w.objs[i].state
                /\ w.rows[RowOf(w)[i]].qty = w.objs[i].qty
           /\ \A i, j \in Present(w) : RowOf(w)[i] = RowOf(w)[j] => i = j
           /\ \A k \in Ends(w) : \E i \in Present(w) : RowOf(w)[i] = k
<1>1. Linked(w, {}) /\ \A i \in DOMAIN w.objs : ~ w.objs[i].merged => Current(w, i)
  BY DEF Right, HistoryInv
<1>2. ASSUME NEW i \in Present(w)
      PROVE  /\ RowOf(w)[i] \in DOMAIN w.rows /\ w.rows[RowOf(w)[i]].id = w.objs[i].state
             /\ w.rows[RowOf(w)[i]].qty = w.objs[i].qty
  <2>1. \E k \in DOMAIN w.rows : w.rows[k].id = w.objs[i].state /\ w.rows[k].qty = w.objs[i].qty
    BY <1>1 DEF Current, Present
  <2> QED
    BY <2>1 DEF RowOf
<1>3. ASSUME NEW i \in Present(w)
      PROVE  RowOf(w)[i] \in Ends(w)
  <2>1. ~ Cited(w, w.objs[i].state)
    BY <1>1 DEF Linked, Present
  <2> QED
    BY <1>2, <2>1 DEF Ends
<1>4. ASSUME NEW i \in Present(w), NEW j \in Present(w), RowOf(w)[i] = RowOf(w)[j]
      PROVE  i = j
  <2>1. w.objs[i].state = w.objs[j].state
    BY <1>2, <1>4
  <2> QED
    BY <1>1, <2>1 DEF Linked, Present
<1>5. ASSUME NEW k \in Ends(w)
      PROVE  \E i \in Present(w) : RowOf(w)[i] = k
  <2>1. PICK i \in DOMAIN w.objs : w.objs[i].state = w.rows[k].id
    BY <1>1 DEF Linked, Ends
  <2>2. ~ Cited(w, w.objs[i].state)
    BY <2>1 DEF Ends
  <2>3. i \in Present(w)
    BY <1>1, <2>2 DEF Linked, Present
  <2>4. w.rows[RowOf(w)[i]].id = w.rows[k].id /\ RowOf(w)[i] \in DOMAIN w.rows /\ k \in DOMAIN w.rows
    BY <1>2, <2>1, <2>3 DEF Ends
  <2>5. w \in Worlds /\ IdsInv(w)
    BY DEF Right, Sound, Shape
  <2>6. \A a, b \in DOMAIN w.rows : a < b => w.rows[a].id < w.rows[b].id
    BY <2>5 DEF IdsInv
  <2>7. \A a \in DOMAIN w.rows : w.rows[a].id \in Nat
    BY <2>5, Values DEF Row
  <2>8. DOMAIN w.rows = 1..Len(w.rows) /\ Len(w.rows) \in Nat
    BY <2>5, Components
  <2>9. RowOf(w)[i] \in Int /\ k \in Int
    BY <2>4, <2>8
  <2>10. RowOf(w)[i] = k
    BY <2>4, <2>6, <2>7, <2>9
  <2> QED
    BY <2>3, <2>10
<1> QED
  BY <1>2, <1>3, <1>4, <1>5

\* The quantities of those rows sum up to the stock.
LEMMA LeavesStock ==
    ASSUME NEW w, Right(w, {}, {})
    PROVE  IsFiniteSet(Ends(w)) /\ Total(RowQtys(w), Ends(w)) = Stock(w)
<1>1. w \in Worlds /\ Linked(w, {})
  BY DEF Right, HistoryInv, Sound, Shape
<1>2. IsFiniteSet(Ends(w))
  <2>1. DOMAIN w.rows = 1..Len(w.rows) /\ Len(w.rows) \in Nat
    BY <1>1, Components
  <2>2. 1 \in Int /\ Len(w.rows) \in Int
    BY <2>1
  <2>3. IsFiniteSet(1..Len(w.rows))
    BY <2>2, FS_Interval
  <2>4. Ends(w) \subseteq 1..Len(w.rows)
    BY <2>1 DEF Ends
  <2> QED
    BY <2>3, <2>4, FS_Subset
<1>3. /\ IsFiniteSet(DOMAIN w.objs)
      /\ \A k \in DOMAIN w.objs : Amounts(w)[k] = w.objs[k].qty /\ Amounts(w)[k] \in Int
  BY <1>1, AmountsTyped
<1>4. Present(w) \in SUBSET DOMAIN w.objs /\ IsFiniteSet(Present(w))
  BY <1>3, FS_Subset DEF Present
<1>5. \A i \in DOMAIN w.objs \ Present(w) : Amounts(w)[i] = 0
  BY <1>1, <1>3 DEF Linked, Present
<1>6. Total(Amounts(w), Present(w)) = Stock(w)
  BY <1>3, <1>4, <1>5, TotalZeros DEF Stock
<1>7. \A k \in Ends(w) : RowQtys(w)[k] = w.rows[k].qty /\ RowQtys(w)[k] \in Int
  <2>1. \A k \in Ends(w) : w.rows[k].qty \in Nat
    BY <1>1, Values DEF Row, Ends
  <2> QED
    BY <2>1 DEF RowQtys
<1>8. \A i \in Present(w) : Amounts(w)[i] = w.objs[i].qty /\ Amounts(w)[i] \in Int
  BY <1>3 DEF Present
<1>9. \A i \in Present(w) : RowOf(w)[i] \in Ends(w) /\ Amounts(w)[i] = RowQtys(w)[RowOf(w)[i]]
  BY <1>7, <1>8, RowOfPresent
<1>10. /\ \A i, j \in Present(w) : RowOf(w)[i] = RowOf(w)[j] => i = j
       /\ \A k \in Ends(w) : \E i \in Present(w) : RowOf(w)[i] = k
  BY RowOfPresent
<1>11. Total(Amounts(w), Present(w)) = Total(RowQtys(w), Ends(w))
  BY <1>2, <1>4, <1>7, <1>8, <1>9, <1>10, TotalRename
<1> QED
  BY <1>2, <1>6, <1>11

\* Truth gives the mass balance.
LEMMA TruthBalances == Truth => MassBalance
<1> SUFFICES ASSUME Truth, ~ Copies
             PROVE  /\ MapThenSumSet(LAMBDA k : rows[k].qty, Leaves) = created
                    /\ MapThenSumSet(LAMBDA i : objs[i].qty, {i \in DOMAIN objs : objs[i].real}) = created
  BY DEF MassBalance
<1>1. World.objs = objs /\ World.rows = rows
  BY WorldParts
<1>2. Right(World, {}, {}) /\ Stock(World) = created /\ World \in Worlds
  BY DEF Truth, Right, Sound, Shape
<1>3. MapThenSumSet(LAMBDA k : rows[k].qty, Leaves) = created
  <2>1. Leaves = Ends(World)
    BY <1>1 DEF Leaves, Ends, Cited, Parents
  <2>2. IsFiniteSet(Leaves) /\ Total(RowQtys(World), Leaves) = created
    BY <1>2, <2>1, LeavesStock
  <2>3. RowQtys(World) = [k \in Leaves |-> rows[k].qty]
    BY <1>1, <2>1 DEF RowQtys
  <2>4. MapThenSumSet(LAMBDA k : rows[k].qty, Leaves) = Total([k \in Leaves |-> rows[k].qty], Leaves)
    BY <2>2, QtyTotal
  <2> QED
    BY <2>2, <2>3, <2>4
<1>4. {i \in DOMAIN objs : objs[i].real} = DOMAIN objs
  <2>1. Own(World)
    BY <1>2 DEF Right, HistoryInv
  <2> QED
    BY <1>1, <2>1 DEF Own
<1>5. MapThenSumSet(LAMBDA i : objs[i].qty, DOMAIN objs) = created
  <2>1. IsFiniteSet(DOMAIN objs)
    BY <1>1, <1>2, AmountsTyped
  <2>2. MapThenSumSet(LAMBDA i : objs[i].qty, DOMAIN objs) = Total([i \in DOMAIN objs |-> objs[i].qty], DOMAIN objs)
    BY <2>1, QtyTotal
  <2> QED
    BY <1>1, <1>2, <2>2 DEF Stock, Amounts
<1> QED
  BY <1>3, <1>4, <1>5

(***************************************************************************)
(* The Resources table tells the truth, for any number of objects, rows    *)
(* and calls, unless programs copy resources: every recorded state         *)
(* descends from states recorded before it, and what a resource holds is   *)
(* what its last row says (ResTracker::Create, Modify, Extract, Absorb).   *)
(***************************************************************************)
THEOREM TableTruthful == Spec => []RowsTruthful
<1>1. Init => Truth
  BY StartsTrue
<1>2. Truth /\ [Next]_vars => Truth'
  BY StepTrue
<1>3. Truth => RowsTruthful
  BY TruthGives
<1> QED
  BY <1>1, <1>2, <1>3, PTL DEF Spec

(***************************************************************************)
(* In a simulation that decays lazily no material is decayed twice for     *)
(* the same time or left undecayed for some, however materials are split,  *)
(* combined, transmuted and observed (Material::Decay, Absorb, comp).      *)
(***************************************************************************)
THEOREM DecayTimely == Spec => []CompositionTimely
<1>1. Init => Truth
  BY StartsTrue
<1>2. Truth /\ [Next]_vars => Truth'
  BY StepTrue
<1>3. Truth => CompositionTimely
  BY TruthGives
<1> QED
  BY <1>1, <1>2, <1>3, PTL DEF Spec

(***************************************************************************)
(* Mass is conserved, for any number of objects and calls and unless       *)
(* programs copy resources: the quantities of the states nothing descends  *)
(* from, and those the objects hold, both add up to what was created,      *)
(* however resources were split, absorbed, transmuted and decayed          *)
(* (ResTracker, Material and Product Extract and Absorb).                  *)
(***************************************************************************)
THEOREM MassConserved == Spec => []MassBalance
<1>1. Init => Truth
  BY StartsTrue
<1>2. Truth /\ [Next]_vars => Truth'
  BY StepTrue
<1>3. Truth => MassBalance
  BY TruthBalances
<1> QED
  BY <1>1, <1>2, <1>3, PTL DEF Spec
=============================================================================
