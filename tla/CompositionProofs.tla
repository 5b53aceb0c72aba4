------------------------- MODULE CompositionProofs -------------------------
(***************************************************************************)
(* Proofs about compositions and the materials that share them, for any    *)
(* recipes, materials, decays and time steps, and through a restart.       *)
(***************************************************************************)
EXTENDS Composition, FiniteSetTheorems, TLAPS

NRec == Cardinality(Recipes)

(***************************************************************************)
(* The invariant of a world.  Shape gives its types and pointers; Caches   *)
(* says that a decay line holds compositions of its own under their total  *)
(* decay; Kin that those on one line are the first one, decayed, and for   *)
(* how long, unless a call with another length of a time step is behind    *)
(* them; Ids that an id, in an object or in the table, is of one content   *)
(* and was given out.                                                      *)
(***************************************************************************)
Worlds == [comps : Seq(Comp), lines : Seq(SUBSET (Nat \X Nat)), next : Nat \ {0},
           mats : Seq(Mat), table : SUBSET (Nat \X Recipes \X Nat)]

Shape(w) ==
    /\ w \in Worlds
    /\ NRec <= Len(w.comps)
    /\ \A c \in DOMAIN w.comps : w.comps[c].line \in DOMAIN w.lines
    /\ \A m \in DOMAIN w.mats : w.mats[m].comp \in DOMAIN w.comps

Caches(w) ==
    \A l \in DOMAIN w.lines : \A e \in w.lines[l] :
        e[2] \in DOMAIN w.comps /\ w.comps[e[2]].line = l /\ w.comps[e[2]].prev = e[1]

\* The age composition c is to have: that of the first one of its decay line,
\* and the time steps it has been decayed for since.
Due(w, c) == w.comps[w.comps[c].line].age + w.comps[c].prev * Dt

Kin(w) ==
    /\ DOMAIN w.lines \subseteq DOMAIN w.comps
    /\ \A c \in DOMAIN w.comps : ~ w.comps[c].off => w.comps[c].age = Due(w, c)

Row(o) == <<o.id, o.recipe, o.age>>

Ids(w) ==
    /\ \A c \in DOMAIN w.comps :
          /\ w.comps[c].id < w.next
          /\ w.comps[c].recorded => Row(w.comps[c]) \in w.table
          /\ \A x \in w.table : x[1] = w.comps[c].id => x = Row(w.comps[c])
          /\ \A d \in DOMAIN w.comps :
                w.comps[c].id = w.comps[d].id => Row(w.comps[c]) = Row(w.comps[d])
    /\ \A x \in w.table : x[1] < w.next
    /\ \A x, y \in w.table : x[1] = y[1] => x = y
    /\ \A c \in 1..NRec : w.comps[c].recorded

\* A material's composition is due what DecayedOnce says, off or not.
Dated(w, m) ==
    ~ w.mats[m].stale =>
        Due(w, w.mats[m].comp) =
            w.mats[m].age + (w.mats[m].prev - w.mats[m].since) * Dt

\* The row of a tracked material names its composition, which is recorded,
\* and its decay time, unless Transmute has moved that since.
Booked(w, m) ==
    w.mats[m].ctx =>
        /\ w.mats[m].row.qual = w.comps[w.mats[m].comp].id
        /\ w.comps[w.mats[m].comp].recorded
        /\ w.mats[m].row.prev <= w.mats[m].prev
        /\ w.mats[m].prev > w.mats[m].row.prev => w.mats[m].since = w.mats[m].prev

Sound(w) == /\ Shape(w) /\ Caches(w) /\ Ids(w) /\ Kin(w)

\* The materials of a world, but for those in S.
Fine(w, S) ==
    \A m \in DOMAIN w.mats \ S : Booked(w, m) /\ Dated(w, m)

(***************************************************************************)
(* What a snapshot knows, until a restart uses it: the row of each of its  *)
(* materials names a row of the Compositions table with the content the    *)
(* material's composition had.                                             *)
(***************************************************************************)
WasDated(was) == ~ was.stale => was.comp[2] = was.age + (was.prev - was.since) * Dt

\* What a snapshot knows of its k-th material.
Taken(k) ==
    LET was == snap.was[k]
    IN  /\ was.comp = <<was.comp[1], was.comp[2]>>
        /\ snap.rows[k].qual < snap.next
        /\ was.prev \in Nat /\ was.since \in Nat /\ was.age \in Nat /\ was.stale \in BOOLEAN
        /\ snap.rows[k].prev <= was.prev
        /\ was.prev > snap.rows[k].prev => was.since = was.prev
        /\ WasDated(was)

Pictures(w) ==
    snap # NoSnap /\ ~ restarted =>
        /\ snap.time \in 0..MaxTime /\ snap.next \in Nat \ {0} /\ snap.next <= w.next
        /\ snap.rows \in Seq([qual : Nat, prev : Nat]) /\ DOMAIN snap.was = DOMAIN snap.rows
        /\ \A c \in 1..NRec : w.comps[c].id < snap.next
        /\ \A k \in DOMAIN snap.rows :
              /\ <<snap.rows[k].qual, snap.was[k].comp[1], snap.was[k].comp[2]>> \in w.table
              /\ Taken(k)

CompositionInv ==
    /\ now \in 0..MaxTime /\ restarted \in BOOLEAN
    /\ Sound(World) /\ Fine(World, {}) /\ Pictures(World)

-----------------------------------------------------------------------------
(***************************************************************************)
(* Worlds and their parts.                                                 *)
(***************************************************************************)
\* The domain of a sequence, and the type of its elements.
LEMMA SeqDomain ==
    ASSUME NEW S, NEW s \in Seq(S)
    PROVE  DOMAIN s = 1..Len(s) /\ Len(s) \in Nat /\ \A k \in 1..Len(s) : s[k] \in S
  OBVIOUS

\* The types of the parts of a world.
LEMMA Parts ==
    ASSUME NEW w \in Worlds
    PROVE  /\ w.comps \in Seq(Comp) /\ w.lines \in Seq(SUBSET (Nat \X Nat))
           /\ w.next \in Nat \ {0} /\ w.mats \in Seq(Mat)
           /\ w.table \subseteq Nat \X Recipes \X Nat
           /\ DOMAIN w.comps = 1..Len(w.comps) /\ Len(w.comps) \in Nat
           /\ DOMAIN w.lines = 1..Len(w.lines) /\ Len(w.lines) \in Nat
           /\ DOMAIN w.mats = 1..Len(w.mats) /\ Len(w.mats) \in Nat
           /\ \A c \in DOMAIN w.comps : w.comps[c] \in Comp
           /\ \A l \in DOMAIN w.lines : w.lines[l] \subseteq Nat \X Nat
           /\ \A m \in DOMAIN w.mats : w.mats[m] \in Mat
<1>1. /\ w.comps \in Seq(Comp) /\ w.lines \in Seq(SUBSET (Nat \X Nat))
      /\ w.next \in Nat \ {0} /\ w.mats \in Seq(Mat)
      /\ w.table \subseteq Nat \X Recipes \X Nat
  BY DEF Worlds
<1>2. /\ DOMAIN w.comps = 1..Len(w.comps) /\ Len(w.comps) \in Nat
      /\ \A c \in DOMAIN w.comps : w.comps[c] \in Comp
  BY <1>1, SeqDomain
<1>3. /\ DOMAIN w.lines = 1..Len(w.lines) /\ Len(w.lines) \in Nat
      /\ \A l \in DOMAIN w.lines : w.lines[l] \in SUBSET (Nat \X Nat)
  BY <1>1, SeqDomain
<1>4. /\ DOMAIN w.mats = 1..Len(w.mats) /\ Len(w.mats) \in Nat
      /\ \A m \in DOMAIN w.mats : w.mats[m] \in Mat
  BY <1>1, SeqDomain
<1> QED
  BY <1>1, <1>2, <1>3, <1>4

\* The types of a composition's and of a material's fields.
LEMMA Fields ==
    /\ \A o \in Comp : /\ o.id \in Nat /\ o.recipe \in Recipes /\ o.age \in Nat
                       /\ o.prev \in Nat /\ o.line \in Nat /\ o.recorded \in BOOLEAN
                       /\ o.off \in BOOLEAN
    /\ \A o \in Mat : /\ o.comp \in Nat /\ o.prev \in Nat /\ o.ctx \in BOOLEAN
                      /\ o.row \in [qual : Nat, prev : Nat]
                      /\ o.row.qual \in Nat /\ o.row.prev \in Nat
                      /\ o.since \in Nat /\ o.age \in Nat /\ o.stale \in BOOLEAN
  BY DEF Comp, Mat

\* What no step takes back: the compositions there are and the rows written.
Grows(w, v) ==
    /\ DOMAIN w.comps \subseteq DOMAIN v.comps
    /\ \A c \in DOMAIN w.comps :
          /\ v.comps[c].id = w.comps[c].id /\ v.comps[c].recipe = w.comps[c].recipe
          /\ v.comps[c].age = w.comps[c].age /\ v.comps[c].prev = w.comps[c].prev
          /\ v.comps[c].line = w.comps[c].line /\ v.comps[c].off = w.comps[c].off
          /\ w.comps[c].recorded => v.comps[c].recorded
    /\ w.table \subseteq v.table /\ w.next <= v.next

\* Growing is transitive.
LEMMA GrowsTrans ==
    ASSUME NEW u, NEW v, NEW w, u.next \in Nat, v.next \in Nat, w.next \in Nat,
           Grows(u, v), Grows(v, w)
    PROVE  Grows(u, w)
  BY DEF Grows

\* Every world grows into itself.
LEMMA GrowsSame ==
    ASSUME NEW w, w.next \in Nat
    PROVE  Grows(w, w)
  BY DEF Grows

\* What a composition is due does not change.
LEMMA GrowsDue ==
    ASSUME NEW w, NEW v, Sound(w), Grows(w, v), NEW c \in DOMAIN w.comps
    PROVE  Due(v, c) = Due(w, c)
<1>1. w.comps[c].line \in DOMAIN w.comps
  BY DEF Sound, Shape, Kin
<1> QED
  BY <1>1 DEF Grows, Due

\* A material that is not touched stays fine when its world grows.
LEMMA GrowsKeeps ==
    ASSUME NEW w, NEW v, Sound(w), Grows(w, v),
           NEW m \in DOMAIN w.mats, NEW n, v.mats[n] = w.mats[m]
    PROVE  /\ Booked(w, m) => Booked(v, n)
           /\ Dated(w, m) => Dated(v, n)
<1>1. w.mats[m].comp \in DOMAIN w.comps
  BY DEF Sound, Shape
<1>2. Due(v, w.mats[m].comp) = Due(w, w.mats[m].comp)
  BY <1>1, GrowsDue
<1>3. Dated(w, m) => Dated(v, n)
  BY <1>2 DEF Dated
<1> QED
  BY <1>1, <1>3 DEF Grows, Booked

(***************************************************************************)
(* One material is replaced.                                               *)
(***************************************************************************)
LEMMA SetMat ==
    ASSUME NEW w, Sound(w), NEW m \in DOMAIN w.mats, NEW o \in Mat, o.comp \in DOMAIN w.comps,
           NEW v \in Worlds, v.mats = [w.mats EXCEPT ![m] = o], v.comps = w.comps,
           v.lines = w.lines, v.next = w.next, v.table = w.table
    PROVE  Sound(v) /\ Grows(w, v) /\ DOMAIN v.mats = DOMAIN w.mats
<1>1. w \in Worlds
  BY DEF Sound, Shape
<1>2. DOMAIN v.mats = DOMAIN w.mats /\ \A k \in DOMAIN v.mats : v.mats[k].comp \in DOMAIN v.comps
  BY <1>1, Parts DEF Sound, Shape
<1>3. Shape(v)
  BY <1>2 DEF Sound, Shape
<1>4. Caches(v) /\ Ids(v) /\ Kin(v)
  BY DEF Sound, Caches, Ids, Kin, Due
<1>5. w.next \in Nat
  BY <1>1, Parts
<1> QED
  BY <1>2, <1>3, <1>4, <1>5 DEF Sound, Grows

\* Composition::Record enters the composition once, and changes nothing else.
LEMMA RecordEffect ==
    ASSUME NEW w, Sound(w), NEW c \in DOMAIN w.comps
    PROVE  LET v == Record(w, c)
           IN  /\ Sound(v) /\ Grows(w, v) /\ v.mats = w.mats
               /\ DOMAIN v.comps = DOMAIN w.comps /\ v.comps[c].recorded
<1> DEFINE o == w.comps[c]
           p == [o EXCEPT !.recorded = TRUE]
           v == [w EXCEPT !.comps[c].recorded = TRUE, !.table = @ \cup {Row(o)}]
<1>1. w \in Worlds /\ w.next \in Nat
  BY Parts DEF Sound, Shape
<1>2. CASE o.recorded
  BY <1>1, <1>2, GrowsSame DEF Record
<1>3. CASE ~ o.recorded
  <2>1. Record(w, c) = v
    BY <1>3 DEF Record, Row
  <2>2. /\ w.comps \in Seq(Comp) /\ DOMAIN w.comps = 1..Len(w.comps) /\ Len(w.comps) \in Nat
        /\ w.table \subseteq Nat \X Recipes \X Nat /\ o \in Comp
    BY <1>1, Parts
  <2>3. /\ p \in Comp /\ p.id = o.id /\ p.recipe = o.recipe /\ p.age = o.age
        /\ p.prev = o.prev /\ p.line = o.line /\ p.recorded /\ p.off = o.off
    BY <2>2 DEF Comp
  <2>4. Row(o) \in Nat \X Recipes \X Nat
    BY <2>2, Fields DEF Row
  <2>5. /\ v.comps = [w.comps EXCEPT ![c] = p] /\ v.table = w.table \cup {Row(o)}
        /\ v.mats = w.mats /\ v.lines = w.lines /\ v.next = w.next
    BY <1>1 DEF Worlds
  <2> HIDE DEF p
  <2>6. [w.comps EXCEPT ![c] = p] \in Seq(Comp)
    BY <2>2, <2>3
  <2>7. v = [w EXCEPT !.comps = [w.comps EXCEPT ![c] = p], !.table = w.table \cup {Row(o)}]
    BY DEF p
  <2>8. v \in Worlds
    BY <1>1, <2>2, <2>4, <2>6, <2>7 DEF Worlds
  <2> HIDE DEF v
  <2>9. /\ DOMAIN v.comps = DOMAIN w.comps /\ Len(v.comps) = Len(w.comps)
        /\ v.comps[c] = p /\ \A d \in DOMAIN w.comps : d # c => v.comps[d] = w.comps[d]
    BY <2>2, <2>5, <2>6
  <2>10. \A d \in DOMAIN w.comps :
            /\ v.comps[d].id = w.comps[d].id /\ v.comps[d].recipe = w.comps[d].recipe
            /\ v.comps[d].age = w.comps[d].age /\ v.comps[d].prev = w.comps[d].prev
            /\ v.comps[d].line = w.comps[d].line /\ Row(v.comps[d]) = Row(w.comps[d])
            /\ v.comps[d].off = w.comps[d].off
            /\ w.comps[d].recorded => v.comps[d].recorded
            /\ v.comps[d].recorded => w.comps[d].recorded \/ d = c
    BY <2>3, <2>9 DEF Row
  <2> HIDE DEF o
  <2>11. Shape(v)
    BY <2>5, <2>8, <2>9, <2>10 DEF Sound, Shape
  <2>12. Caches(v)
    BY <2>5, <2>9, <2>10 DEF Sound, Caches
  <2>13. Kin(v)
    <3>1. Kin(w) /\ \A d \in DOMAIN w.comps : w.comps[d].line \in DOMAIN w.comps
      BY DEF Sound, Shape, Kin
    <3>2. \A d \in DOMAIN w.comps : Due(v, d) = Due(w, d)
      BY <2>10, <3>1 DEF Due
    <3> QED
      BY <2>5, <2>9, <2>10, <3>1, <3>2 DEF Kin
  <2>14. Ids(v)
    <3>1. Row(o)[1] = w.comps[c].id /\ Row(o) = Row(w.comps[c])
      BY DEF Row, o
    <3>2. Ids(w)
      BY DEF Sound
    <3>3. \A d \in DOMAIN v.comps :
            /\ v.comps[d].id < v.next
            /\ v.comps[d].recorded => Row(v.comps[d]) \in v.table
            /\ \A x \in v.table : x[1] = v.comps[d].id => x = Row(v.comps[d])
            /\ \A e \in DOMAIN v.comps :
                  v.comps[d].id = v.comps[e].id => Row(v.comps[d]) = Row(v.comps[e])
      BY <2>5, <2>9, <2>10, <3>1, <3>2 DEF Ids
    <3>4. \A x \in v.table : x[1] < v.next
      BY <2>5, <3>1, <3>2 DEF Ids
    <3>5. \A x, y \in v.table : x[1] = y[1] => x = y
      BY <2>5, <3>1, <3>2 DEF Ids
    <3>6. \A d \in 1..NRec : v.comps[d].recorded
      <4>1. \A d \in 1..NRec : d \in DOMAIN w.comps
        BY <1>1, Parts, <2>2, FS_CardinalityType, CompositionAssumption DEF Sound, Shape, NRec
      <4> QED
        BY <2>10, <3>2, <4>1 DEF Ids
    <3> QED
      BY <3>3, <3>4, <3>5, <3>6 DEF Ids
  <2>15. Grows(w, v)
    BY <1>1, <2>5, <2>9, <2>10 DEF Grows
  <2> QED
    BY <2>1, <2>3, <2>5, <2>9, <2>11, <2>12, <2>13, <2>14, <2>15 DEF Sound
<1> QED
  BY <1>2, <1>3

(***************************************************************************)
(* The row a tracked material writes is right, and nothing else of the     *)
(* materials is changed (ResTracker::Record, Material::Record).            *)
(***************************************************************************)
LEMMA RecordMatEffect ==
    ASSUME NEW w, Sound(w), NEW m \in DOMAIN w.mats
    PROVE  LET v == RecordMat(w, m)
           IN  /\ Sound(v) /\ Grows(w, v) /\ DOMAIN v.mats = DOMAIN w.mats
               /\ DOMAIN v.comps = DOMAIN w.comps
               /\ \A k \in DOMAIN w.mats : k # m => v.mats[k] = w.mats[k]
               /\ v.mats[m] \in Mat /\ v.mats[m].comp = w.mats[m].comp
               /\ v.mats[m].prev = w.mats[m].prev /\ v.mats[m].ctx = w.mats[m].ctx
               /\ v.mats[m].since = w.mats[m].since /\ v.mats[m].age = w.mats[m].age
               /\ v.mats[m].stale = w.mats[m].stale
               /\ v.mats[m].ctx => v.mats[m].row.prev = w.mats[m].prev
               /\ Booked(v, m)
<1> DEFINE o == w.mats[m]
           row == [qual |-> w.comps[o.comp].id, prev |-> o.prev]
           p == [o EXCEPT !.row = row]
           u == [w EXCEPT !.mats[m].row = row]
           v == Record(u, o.comp)
<1>1. w \in Worlds /\ w.next \in Nat /\ o \in Mat /\ o.comp \in DOMAIN w.comps
  BY Parts DEF Sound, Shape
<1>2. CASE ~ o.ctx
  BY <1>1, <1>2, GrowsSame DEF RecordMat, Booked
<1>3. CASE o.ctx
  <2>1. RecordMat(w, m) = v
    BY <1>3 DEF RecordMat
  <2>2. row \in [qual : Nat, prev : Nat] /\ row.qual = w.comps[o.comp].id /\ row.prev = o.prev
    BY <1>1, Parts, Fields
  <2> HIDE DEF row
  <2>3. /\ p \in Mat /\ p.row = row /\ p.comp = o.comp /\ p.prev = o.prev /\ p.ctx = o.ctx
        /\ p.since = o.since /\ p.age = o.age /\ p.stale = o.stale
    BY <1>1, <2>2 DEF Mat
  <2>4. u = [w EXCEPT !.mats = [w.mats EXCEPT ![m] = p]]
    OBVIOUS
  <2> HIDE DEF p
  <2>5. [w.mats EXCEPT ![m] = p] \in Seq(Mat)
    BY <1>1, <2>3, Parts
  <2>6. /\ u \in Worlds /\ u.mats = [w.mats EXCEPT ![m] = p] /\ u.comps = w.comps
        /\ u.lines = w.lines /\ u.next = w.next /\ u.table = w.table
    BY <1>1, <2>4, <2>5 DEF Worlds
  <2> HIDE DEF u
  <2>7. Sound(u) /\ Grows(w, u) /\ DOMAIN u.mats = DOMAIN w.mats
    BY <1>1, <2>3, <2>6, SetMat
  <2>8. /\ Sound(v) /\ Grows(u, v) /\ v.mats = u.mats
        /\ DOMAIN v.comps = DOMAIN u.comps /\ v.comps[o.comp].recorded
    BY <1>1, <2>6, <2>7, RecordEffect
  <2> HIDE DEF v
  <2>9. v.next \in Nat /\ v \in Worlds
    BY <2>8, Parts DEF Sound, Shape
  <2>10. Grows(w, v)
    BY <1>1, <2>6, <2>7, <2>8, <2>9, GrowsTrans
  <2>11. v.mats[m] = p /\ \A k \in DOMAIN w.mats : k # m => v.mats[k] = w.mats[k]
    BY <2>6, <2>7, <2>8
  <2>12. v.comps[o.comp].id = w.comps[o.comp].id
    BY <1>1, <2>10 DEF Grows
  <2>13. Booked(v, m)
    BY <1>1, <2>2, <2>3, <2>8, <2>11, <2>12, Fields DEF Booked
  <2> QED
    BY <2>1, <2>2, <2>3, <2>6, <2>7, <2>8, <2>10, <2>11, <2>13
<1> QED
  BY <1>2, <1>3

\* Decaying for a and then for b is decaying for a + b.
LEMMA Distributive ==
    ASSUME NEW a \in Int, NEW b \in Int, NEW d \in Int
    PROVE  /\ (a + b) * d = a * d + b * d /\ (a - b) * d = a * d - b * d
           /\ a * d \in Int /\ b * d \in Int
  OBVIOUS

\* Decaying for natural numbers of steps and seconds ages.
LEMMA ProductNat ==
    ASSUME NEW a \in Nat, NEW b \in Nat
    PROVE  a * b \in Nat
  OBVIOUS

\* The constants' types.
LEMMA Constants ==
    /\ Dt \in Nat /\ DefaultDt \in Nat /\ NRec \in Nat
    /\ \A r \in Recipes : Noticeable[r] \in Nat /\ Noticeable[r] > 0
    /\ MaxComps \in Nat /\ MaxMats \in Nat /\ MaxTime \in Nat
  BY CompositionAssumption, FS_CardinalityType DEF NRec

(***************************************************************************)
(* The decayed composition is the one asked for, whether the line held it  *)
(* or not, and the caches, the ids and the table stay right.               *)
(***************************************************************************)
LEMMA DecayEffect ==
    ASSUME NEW w, Sound(w), NEW c \in DOMAIN w.comps, NEW delta \in Nat,
           NEW secs \in {Dt, DefaultDt}
    PROVE  LET d == Decay(w, c, delta, secs)
           IN  /\ Sound(d[1]) /\ Grows(w, d[1]) /\ d[1].mats = w.mats
               /\ d[2] \in DOMAIN d[1].comps
               /\ d[1].comps[d[2]].line = w.comps[c].line
               /\ d[1].comps[d[2]].prev = w.comps[c].prev + delta
<1> DEFINE o   == w.comps[c]
           tot == o.prev + delta
           hit == Cached(w, c, tot)
           n   == Len(w.comps) + 1
           age == o.age + delta * secs
           p   == [o EXCEPT !.id = w.next, !.age = age, !.prev = tot, !.recorded = FALSE,
                            !.off = o.off \/ secs # Dt]
           v   == [w EXCEPT !.next = @ + 1, !.comps = Append(@, p),
                            !.lines[o.line] = @ \cup {<<tot, n>>}]
<1>1. /\ w \in Worlds /\ w.next \in Nat \ {0} /\ o \in Comp /\ o.line \in DOMAIN w.lines
      /\ w.comps \in Seq(Comp) /\ DOMAIN w.comps = 1..Len(w.comps) /\ Len(w.comps) \in Nat
      /\ w.lines \in Seq(SUBSET (Nat \X Nat))
  BY Parts DEF Sound, Shape
<1>2. /\ o.id \in Nat /\ o.recipe \in Recipes /\ o.age \in Nat /\ o.prev \in Nat /\ tot \in Nat
  BY <1>1, Fields
<1>3. ASSUME hit # {}
      PROVE  LET d == Decay(w, c, delta, secs)
             IN  /\ Sound(d[1]) /\ Grows(w, d[1]) /\ d[1].mats = w.mats
                 /\ d[2] \in DOMAIN d[1].comps
                 /\ d[1].comps[d[2]].line = w.comps[c].line
                 /\ d[1].comps[d[2]].prev = w.comps[c].prev + delta
  <2> DEFINE e == CHOOSE x \in hit : TRUE
  <2>1. e \in hit
    BY <1>3
  <2>2. Decay(w, c, delta, secs) = <<w, e[2]>>
    BY <1>3 DEF Decay
  <2>3. e \in w.lines[o.line] /\ e[1] = tot
    BY <2>1 DEF Cached
  <2> HIDE DEF e, hit
  <2>4. e[2] \in DOMAIN w.comps /\ w.comps[e[2]].line = o.line /\ w.comps[e[2]].prev = tot
    BY <1>1, <2>3 DEF Sound, Caches
  <2>5. Grows(w, w)
    BY <1>1, GrowsSame
  <2> QED
    BY <2>2, <2>4, <2>5
<1>4. ASSUME hit = {}
      PROVE  LET d == Decay(w, c, delta, secs)
             IN  /\ Sound(d[1]) /\ Grows(w, d[1]) /\ d[1].mats = w.mats
                 /\ d[2] \in DOMAIN d[1].comps
                 /\ d[1].comps[d[2]].line = w.comps[c].line
                 /\ d[1].comps[d[2]].prev = w.comps[c].prev + delta
  <2> DEFINE w1 == NewDecay(w, c, delta, secs)
  <2>1. w1 = [w EXCEPT !.next = @ + 1, !.comps = Append(@, p)]
    BY DEF NewDecay
  <2>2. w1.comps = Append(w.comps, p) /\ w1.lines = w.lines
    BY <1>1, <2>1 DEF Worlds
  <2>3. Len(w1.comps) = n
    BY <1>1, <2>2
  <2>4. Decay(w, c, delta, secs) = <<[w1 EXCEPT !.lines[o.line] = @ \cup {<<tot, n>>}], n>>
    BY <1>4, <2>3 DEF Decay
  <2>5. [w1 EXCEPT !.lines[o.line] = @ \cup {<<tot, n>>}] = v
    BY <2>1
  <2>6. age \in Nat /\ tot \in Nat /\ w.next \in Nat /\ o \in Comp
    <3>1. secs \in Nat
      BY Constants
    <3>2. delta * secs \in Nat
      BY <3>1, ProductNat
    <3> QED
      BY <1>1, <1>2, <3>2
  <2>7. /\ p \in Comp /\ p.id = w.next /\ p.recipe = o.recipe /\ p.age = age
        /\ p.prev = tot /\ p.line = o.line /\ p.recorded = FALSE
        /\ p.off = (o.off \/ secs # Dt)
    <3> HIDE DEF age, tot, o
    <3> QED
      BY <2>6 DEF Comp
  <2> HIDE DEF age
  <2> HIDE DEF p, w1, hit
  <2>8. [w.lines EXCEPT ![o.line] = @ \cup {<<tot, n>>}] \in Seq(SUBSET (Nat \X Nat))
    <3>1. w.lines[o.line] \cup {<<tot, n>>} \in SUBSET (Nat \X Nat)
      BY <1>1, <1>2, Parts
    <3> QED
      BY <1>1, <3>1
  <2>9. Append(w.comps, p) \in Seq(Comp) /\ w.next + 1 \in Nat \ {0}
    BY <1>1, <2>7
  <2>10. v = [w EXCEPT !.next = w.next + 1, !.comps = Append(w.comps, p),
                       !.lines = [w.lines EXCEPT ![o.line] = @ \cup {<<tot, n>>}]]
    OBVIOUS
  <2>11. v \in Worlds
    BY <1>1, <2>8, <2>9, <2>10 DEF Worlds
  <2>12. /\ v.comps = Append(w.comps, p) /\ v.next = w.next + 1 /\ v.mats = w.mats
         /\ v.table = w.table /\ v.lines = [w.lines EXCEPT ![o.line] = @ \cup {<<tot, n>>}]
    BY <1>1, <2>10 DEF Worlds
  <2> HIDE DEF v
  <2>13. /\ DOMAIN v.comps = DOMAIN w.comps \cup {n} /\ n \notin DOMAIN w.comps
         /\ Len(v.comps) = n /\ v.comps[n] = p
         /\ \A d \in DOMAIN w.comps : v.comps[d] = w.comps[d]
    BY <1>1, <2>7, <2>12
  <2>14. /\ DOMAIN v.lines = DOMAIN w.lines /\ v.lines[o.line] = w.lines[o.line] \cup {<<tot, n>>}
         /\ \A l \in DOMAIN w.lines : l # o.line => v.lines[l] = w.lines[l]
    BY <1>1, <2>12
  <2>15. Shape(v)
    <3>1. NRec <= Len(v.comps)
      BY <1>1, <2>13, Constants DEF Sound, Shape
    <3>2. \A d \in DOMAIN v.comps : v.comps[d].line \in DOMAIN v.lines
      BY <1>1, <2>7, <2>13, <2>14 DEF Sound, Shape
    <3>3. \A m \in DOMAIN v.mats : v.mats[m].comp \in DOMAIN v.comps
      BY <2>12, <2>13 DEF Sound, Shape
    <3> QED
      BY <2>11, <3>1, <3>2, <3>3 DEF Shape
  <2> HIDE DEF n, tot
  <2>16. Caches(v)
    <3>1. SUFFICES ASSUME NEW l \in DOMAIN v.lines, NEW e \in v.lines[l]
                   PROVE  e[2] \in DOMAIN v.comps /\ v.comps[e[2]].line = l
                          /\ v.comps[e[2]].prev = e[1]
      BY DEF Caches
    <3>2. CASE e \in w.lines[l]
      BY <2>13, <2>14, <3>2 DEF Sound, Caches
    <3>3. CASE e = <<tot, n>> /\ l = o.line
      BY <2>7, <2>13, <3>3
    <3> QED
      BY <2>14, <3>2, <3>3
  <2>17. Ids(v)
    <3>1. Ids(w) /\ (\A d \in DOMAIN w.comps : w.comps[d].id \in Nat)
      BY <1>1, Parts, Fields DEF Sound
    <3>2. \A x \in w.table : x[1] < w.next /\ x[1] \in Nat
      BY <1>1, <3>1, Parts DEF Ids
    <3>3. \A d \in DOMAIN w.comps : w.comps[d].id < w.next
      BY <3>1 DEF Ids
    <3>4. \A d \in DOMAIN v.comps :
            /\ v.comps[d].id < v.next
            /\ v.comps[d].recorded => Row(v.comps[d]) \in v.table
            /\ \A x \in v.table : x[1] = v.comps[d].id => x = Row(v.comps[d])
            /\ \A e \in DOMAIN v.comps :
                  v.comps[d].id = v.comps[e].id => Row(v.comps[d]) = Row(v.comps[e])
      <4> TAKE d \in DOMAIN v.comps
      <4>1. CASE d = n
        BY <1>1, <2>7, <2>12, <2>13, <3>1, <3>2, <3>3, <4>1
      <4>2. CASE d \in DOMAIN w.comps
        <5>1. v.comps[d] = w.comps[d] /\ w.comps[d].id < w.next /\ w.comps[d].id \in Nat
          BY <2>13, <3>1, <3>3, <4>2
        <5>2. ASSUME NEW e \in DOMAIN v.comps, v.comps[d].id = v.comps[e].id
              PROVE  Row(v.comps[d]) = Row(v.comps[e])
          <6>1. e # n
            BY <1>1, <2>7, <2>13, <5>1, <5>2
          <6>2. e \in DOMAIN w.comps /\ v.comps[e] = w.comps[e]
            BY <2>13, <6>1
          <6> QED
            BY <3>1, <4>2, <5>1, <5>2, <6>2 DEF Ids
        <5> QED
          BY <1>1, <2>12, <3>1, <4>2, <5>1, <5>2 DEF Ids
      <4> QED
        BY <2>13, <4>1, <4>2
    <3>5. \A x \in v.table : x[1] < v.next
      BY <1>1, <2>12, <3>2
    <3>6. \A x, y \in v.table : x[1] = y[1] => x = y
      BY <2>12, <3>1 DEF Ids
    <3>7. \A d \in 1..NRec : v.comps[d].recorded
      <4>1. \A d \in 1..NRec : d \in DOMAIN w.comps
        BY <1>1, Constants DEF Sound, Shape
      <4> QED
        BY <2>13, <3>1, <4>1 DEF Ids
    <3> QED
      BY <3>4, <3>5, <3>6, <3>7 DEF Ids
  <2>18. Kin(v)
    <3>1. Kin(w) /\ \A d \in DOMAIN w.comps : w.comps[d].line \in DOMAIN w.comps
      BY DEF Sound, Shape, Kin
    <3>2. \A d \in DOMAIN w.comps : Due(v, d) = Due(w, d)
      BY <2>13, <3>1 DEF Due
    <3>3. DOMAIN v.lines \subseteq DOMAIN v.comps
      BY <2>13, <2>14, <3>1 DEF Kin
    <3>4. ASSUME ~ p.off PROVE p.age = Due(v, n)
      <4>1. ~ o.off /\ secs = Dt
        BY <2>7, <3>4
      <4>2. o.age = Due(w, c)
        BY <3>1, <4>1 DEF Kin
      <4>3. Due(v, n) = w.comps[o.line].age + tot * Dt
        BY <2>7, <2>13, <3>1 DEF Due
      <4>4. Due(w, c) = w.comps[o.line].age + o.prev * Dt
        BY DEF Due
      <4>5. w.comps[o.line].age \in Int
        BY <1>1, <3>1, Parts, Fields
      <4>6. tot = o.prev + delta
        BY DEF tot
      <4>7. p.age = o.age + delta * Dt
        BY <2>7, <4>1 DEF age
      <4> DEFINE a == w.comps[o.line].age
                 b == o.prev
      <4> HIDE DEF o, a, b
      <4>8. b \in Int /\ delta \in Int /\ Dt \in Int
        BY <1>2, Constants DEF b
      <4>9. tot * Dt = b * Dt + delta * Dt /\ b * Dt \in Int /\ delta * Dt \in Int
        BY <4>6, <4>8, Distributive DEF b
      <4>10. a \in Int /\ Due(v, n) = a + tot * Dt /\ o.age = a + b * Dt
        BY <4>2, <4>3, <4>4, <4>5 DEF a, b
      <4> QED
        BY <4>7, <4>9, <4>10
    <3> QED
      BY <2>13, <3>1, <3>2, <3>3, <3>4 DEF Kin
  <2>19. Grows(w, v)
    BY <1>1, <2>12, <2>13 DEF Grows
  <2>20. Sound(v)
    BY <2>15, <2>16, <2>17, <2>18 DEF Sound
  <2>21. n \in DOMAIN v.comps /\ v.comps[n].line = o.line /\ v.comps[n].prev = o.prev + delta
    BY <2>7, <2>13 DEF tot
  <2>22. Decay(w, c, delta, secs) = <<v, n>>
    BY <2>4, <2>5
  <2> QED
    BY <2>12, <2>19, <2>20, <2>21, <2>22
<1> QED
  BY <1>3, <1>4

(***************************************************************************)
(* Material::Transmute.  The material has the composition, its row is      *)
(* right, and its decay time is now if that is later than it was.          *)
(***************************************************************************)
LEMMA TransmuteEffect ==
    ASSUME NEW w, Sound(w), NEW m \in DOMAIN w.mats, NEW c \in DOMAIN w.comps, now \in Nat
    PROVE  LET v == Transmute(w, m, c)
           IN  /\ Sound(v) /\ Grows(w, v) /\ DOMAIN v.mats = DOMAIN w.mats
               /\ \A k \in DOMAIN w.mats : k # m => v.mats[k] = w.mats[k]
               /\ v.mats[m] \in Mat /\ v.mats[m].comp = c /\ v.mats[m].ctx = w.mats[m].ctx
               /\ v.mats[m].since = w.mats[m].since /\ v.mats[m].age = w.mats[m].age
               /\ v.mats[m].stale = w.mats[m].stale
               /\ w.mats[m].prev <= v.mats[m].prev
               /\ w.mats[m].prev >= now => v.mats[m].prev = w.mats[m].prev
               /\ v.mats[m].ctx => /\ v.mats[m].row.prev = w.mats[m].prev
                                   /\ v.mats[m].row.qual = v.comps[c].id
                                   /\ v.comps[c].recorded
<1> DEFINE o == w.mats[m]
           p == [o EXCEPT !.comp = c]
           u == [w EXCEPT !.mats[m].comp = c]
           w1 == RecordMat(u, m)
           q == w1.mats[m]
           r == [q EXCEPT !.prev = now]
           v == [w1 EXCEPT !.mats[m].prev = now]
<1>1. w \in Worlds /\ w.next \in Nat /\ o \in Mat /\ c \in Nat
  BY Parts DEF Sound, Shape
<1>2. /\ p \in Mat /\ p.row = o.row /\ p.comp = c /\ p.prev = o.prev /\ p.ctx = o.ctx
      /\ p.since = o.since /\ p.age = o.age /\ p.stale = o.stale
  <2> HIDE DEF o
  <2> QED
    BY <1>1 DEF Mat
<1>3. u = [w EXCEPT !.mats = [w.mats EXCEPT ![m] = p]]
  OBVIOUS
<1> HIDE DEF p
<1>4. [w.mats EXCEPT ![m] = p] \in Seq(Mat)
  BY <1>1, <1>2, Parts
<1>5. /\ u \in Worlds /\ u.mats = [w.mats EXCEPT ![m] = p] /\ u.comps = w.comps
      /\ u.lines = w.lines /\ u.next = w.next /\ u.table = w.table
  BY <1>1, <1>3, <1>4 DEF Worlds
<1>6. Transmute(w, m, c) = IF q.ctx /\ now > q.prev THEN v ELSE w1
  BY DEF Transmute
<1> HIDE DEF u
<1>7. Sound(u) /\ Grows(w, u) /\ DOMAIN u.mats = DOMAIN w.mats
  BY <1>1, <1>2, <1>5, SetMat
<1>8. u.mats[m] = p /\ \A k \in DOMAIN w.mats : k # m => u.mats[k] = w.mats[k]
  BY <1>5, <1>7
<1>9. /\ Sound(w1) /\ Grows(u, w1) /\ DOMAIN w1.mats = DOMAIN u.mats
      /\ DOMAIN w1.comps = DOMAIN u.comps
      /\ \A k \in DOMAIN u.mats : k # m => w1.mats[k] = u.mats[k]
      /\ q \in Mat /\ q.comp = p.comp /\ q.prev = p.prev /\ q.ctx = p.ctx
      /\ q.since = p.since /\ q.age = p.age /\ q.stale = p.stale
      /\ q.ctx => q.row.prev = p.prev
      /\ Booked(w1, m)
  BY <1>7, <1>8, RecordMatEffect
<1> HIDE DEF w1
<1>10. w1 \in Worlds /\ w1.next \in Nat
  BY <1>9, Parts DEF Sound, Shape
<1>11. Grows(w, w1)
  BY <1>1, <1>5, <1>7, <1>9, <1>10, GrowsTrans
<1>12. q.ctx => q.row.qual = w1.comps[c].id /\ w1.comps[c].recorded
  BY <1>2, <1>9 DEF Booked
<1>13. CASE ~ (q.ctx /\ now > q.prev)
  <2>1. o.prev <= q.prev /\ (o.prev >= now => q.prev = o.prev)
    BY <1>1, <1>2, <1>9, Fields
  <2> HIDE DEF q, o
  <2> QED
    BY <1>2, <1>5, <1>6, <1>7, <1>8, <1>9, <1>11, <1>12, <1>13, <2>1 DEF q, o
<1>14. CASE q.ctx /\ now > q.prev
  <2>1. /\ r \in Mat /\ r.row = q.row /\ r.comp = q.comp /\ r.prev = now /\ r.ctx = q.ctx
        /\ r.since = q.since /\ r.age = q.age /\ r.stale = q.stale
    <3> HIDE DEF q
    <3> QED
      BY <1>9 DEF Mat
  <2>2. v = [w1 EXCEPT !.mats = [w1.mats EXCEPT ![m] = r]]
    OBVIOUS
  <2> HIDE DEF r
  <2>3. [w1.mats EXCEPT ![m] = r] \in Seq(Mat)
    BY <1>7, <1>9, <1>10, <2>1, Parts
  <2>4. /\ v \in Worlds /\ v.mats = [w1.mats EXCEPT ![m] = r] /\ v.comps = w1.comps
        /\ v.lines = w1.lines /\ v.next = w1.next /\ v.table = w1.table
    BY <1>10, <2>2, <2>3 DEF Worlds
  <2> HIDE DEF v
  <2>5. Sound(v) /\ Grows(w1, v) /\ DOMAIN v.mats = DOMAIN w1.mats
    BY <1>2, <1>5, <1>7, <1>9, <2>1, <2>4, SetMat
  <2>6. Grows(w, v)
    BY <1>1, <1>10, <1>11, <2>4, <2>5, GrowsTrans
  <2>7. v.mats[m] = r /\ \A k \in DOMAIN w.mats : k # m => v.mats[k] = w.mats[k]
    BY <1>7, <1>8, <1>9, <2>4, <2>5
  <2>8. o.prev <= r.prev /\ (o.prev >= now => r.prev = o.prev)
    BY <1>1, <1>2, <1>9, <1>14, <2>1, Fields
  <2>9. Transmute(w, m, c) = v
    BY <1>6, <1>14
  <2> HIDE DEF q, o
  <2> QED
    BY <1>2, <1>7, <1>8, <1>9, <1>12, <2>1, <2>4, <2>5, <2>6, <2>7, <2>8, <2>9 DEF o
<1> QED
  BY <1>13, <1>14

(***************************************************************************)
(* Material::Decay: if the material was right before it, so it is after.   *)
(***************************************************************************)
LEMMA DecayMatEffect ==
    ASSUME NEW w, Sound(w), NEW m \in DOMAIN w.mats, now \in Nat, Fine(w, {})
    PROVE  LET v == DecayMat(w, m)
           IN  Sound(v) /\ Grows(w, v) /\ DOMAIN v.mats = DOMAIN w.mats /\ Fine(v, {})
<1> DEFINE o == w.mats[m]
           c == o.comp
           delta == now - o.prev
           secs == IF o.ctx THEN Dt ELSE DefaultDt
           d == Decay(w, c, delta, secs)
           w1 == d[1]
           p == [o EXCEPT !.prev = now]
           u == [w1 EXCEPT !.mats[m].prev = now]
           v == Transmute(u, m, d[2])
<1>1. w \in Worlds /\ w.next \in Nat /\ o \in Mat /\ c \in DOMAIN w.comps /\ w.comps[c] \in Comp
  BY Parts DEF Sound, Shape
<1>2. CASE delta < Noticeable[w.comps[c].recipe]
  <2>1. DecayMat(w, m) = w
    BY <1>2 DEF DecayMat
  <2> QED
    BY <1>1, <2>1, GrowsSame
<1>3. CASE ~ (delta < Noticeable[w.comps[c].recipe])
  <2>1. DecayMat(w, m) = v
    BY <1>3 DEF DecayMat
  <2>2. delta \in Nat
    <3>1. Noticeable[w.comps[c].recipe] \in Nat /\ o.prev \in Nat
      BY <1>1, Fields, Constants
    <3> HIDE DEF o, c
    <3> QED
      BY <1>3, <3>1
  <2>3. /\ Sound(w1) /\ Grows(w, w1) /\ w1.mats = w.mats /\ d[2] \in DOMAIN w1.comps
        /\ w1.comps[d[2]].line = w.comps[c].line
        /\ w1.comps[d[2]].prev = w.comps[c].prev + delta
    <3>1. secs \in {Dt, DefaultDt}
      OBVIOUS
    <3> HIDE DEF secs, delta, c
    <3> QED
      BY <1>1, <2>2, <3>1, DecayEffect
  <2> HIDE DEF d
  <2>4. w1 \in Worlds /\ w1.next \in Nat
    BY <2>3, Parts DEF Sound, Shape
  <2>5. /\ p \in Mat /\ p.row = o.row /\ p.comp = c /\ p.prev = now /\ p.ctx = o.ctx
        /\ p.since = o.since /\ p.age = o.age /\ p.stale = o.stale
    <3> HIDE DEF o
    <3> QED
      BY <1>1 DEF Mat
  <2>6. u = [w1 EXCEPT !.mats = [w1.mats EXCEPT ![m] = p]]
    BY <2>3
  <2> HIDE DEF p
  <2>7. [w1.mats EXCEPT ![m] = p] \in Seq(Mat)
    BY <2>3, <2>4, <2>5, Parts
  <2>8. /\ u \in Worlds /\ u.mats = [w1.mats EXCEPT ![m] = p] /\ u.comps = w1.comps
        /\ u.lines = w1.lines /\ u.next = w1.next /\ u.table = w1.table
    BY <2>4, <2>6, <2>7 DEF Worlds
  <2> HIDE DEF u
  <2>9. p.comp \in DOMAIN w1.comps
    BY <1>1, <2>3, <2>5 DEF Grows
  <2>10. Sound(u) /\ Grows(w1, u) /\ DOMAIN u.mats = DOMAIN w.mats
    BY <2>3, <2>5, <2>8, <2>9, SetMat
  <2>11. u.mats[m] = p /\ \A k \in DOMAIN w.mats : k # m => u.mats[k] = w.mats[k]
    BY <2>3, <2>8
  <2>12. /\ Sound(v) /\ Grows(u, v) /\ DOMAIN v.mats = DOMAIN u.mats
         /\ \A k \in DOMAIN u.mats : k # m => v.mats[k] = u.mats[k]
         /\ v.mats[m] \in Mat /\ v.mats[m].comp = d[2] /\ v.mats[m].ctx = u.mats[m].ctx
         /\ v.mats[m].since = u.mats[m].since /\ v.mats[m].age = u.mats[m].age
         /\ v.mats[m].stale = u.mats[m].stale
         /\ u.mats[m].prev >= now => v.mats[m].prev = u.mats[m].prev
         /\ v.mats[m].ctx => /\ v.mats[m].row.prev = u.mats[m].prev
                             /\ v.mats[m].row.qual = v.comps[d[2]].id
                             /\ v.comps[d[2]].recorded
    BY <2>3, <2>8, <2>10, TransmuteEffect
  <2> HIDE DEF v
  <2>13. v \in Worlds /\ v.next \in Nat
    BY <2>12, Parts DEF Sound, Shape
  <2>14. Grows(w, v)
    BY <1>1, <2>3, <2>4, <2>8, <2>10, <2>12, <2>13, GrowsTrans
  <2>15. v.mats[m].prev = now
    BY <2>5, <2>11, <2>12
  <2>16. Booked(v, m)
    BY <2>5, <2>11, <2>12, <2>15 DEF Booked
  <2>17. Dated(v, m)
    <3> DEFINE a == w.comps[w.comps[c].line].age
               b == w.comps[c].prev
    <3>1. w.comps[c].line \in DOMAIN w.comps
      BY <1>1 DEF Sound, Shape, Kin
    <3>2. Due(v, d[2]) = a + (b + delta) * Dt
      <4>1. v.comps[d[2]].line = w.comps[c].line /\ v.comps[d[2]].prev = b + delta
        BY <2>3, <2>8, <2>12 DEF Grows
      <4>2. v.comps[w.comps[c].line].age = a
        BY <2>14, <3>1 DEF Grows
      <4> QED
        BY <4>1, <4>2 DEF Due
    <3>3. ~ o.stale => a + b * Dt = o.age + (o.prev - o.since) * Dt
      BY DEF Fine, Dated, Due
    <3>4. delta = now - o.prev
      BY DEF delta
    <3>5. /\ o.prev \in Int /\ o.since \in Int /\ o.age \in Int /\ Dt \in Int
          /\ now \in Int /\ a \in Int /\ b \in Int /\ delta \in Int
      <4>1. o.prev \in Nat /\ o.since \in Nat /\ o.age \in Nat /\ Dt \in Nat
        BY <1>1, Fields, Constants
      <4>2. w.comps[w.comps[c].line] \in Comp /\ w.comps[c] \in Comp
        BY <1>1, <3>1, Parts
      <4>3. a \in Nat /\ b \in Nat
        BY <4>2, Fields
      <4> HIDE DEF o, a, b, delta
      <4> QED
        BY <2>2, <4>1, <4>3
    <3> HIDE DEF delta, o, c, a, b
    <3>6. delta * Dt = now * Dt - o.prev * Dt /\ now * Dt \in Int /\ o.prev * Dt \in Int
      BY <3>4, <3>5, Distributive
    <3>7. (o.prev - o.since) * Dt = o.prev * Dt - o.since * Dt /\ o.since * Dt \in Int
      BY <3>5, Distributive
    <3>8. (now - o.since) * Dt = now * Dt - o.since * Dt
      BY <3>5, Distributive
    <3>9. (b + delta) * Dt = b * Dt + delta * Dt /\ b * Dt \in Int
      BY <3>5, Distributive
    <3>10. ~ o.stale => Due(v, d[2]) = o.age + (now - o.since) * Dt
      <4> DEFINE nd == now * Dt
                 pd == o.prev * Dt
                 sd == o.since * Dt
                 bd == b * Dt
      <4>1. nd \in Int /\ pd \in Int /\ sd \in Int /\ bd \in Int /\ a \in Int /\ o.age \in Int
        BY <3>5, <3>6, <3>7, <3>9
      <4>2. Due(v, d[2]) = a + (bd + (nd - pd))
        BY <3>2, <3>6, <3>9
      <4>3. ~ o.stale => a + bd = o.age + (pd - sd)
        BY <3>3, <3>7
      <4>4. (now - o.since) * Dt = nd - sd
        BY <3>8
      <4> HIDE DEF nd, pd, sd, bd
      <4> QED
        BY <4>1, <4>2, <4>3, <4>4
    <3> QED
      BY <2>5, <2>11, <2>12, <2>15, <3>10 DEF Dated
  <2>18. \A k \in DOMAIN w.mats : k # m => v.mats[k] = w.mats[k]
    BY <2>10, <2>11, <2>12
  <2>19. Fine(v, {})
    <3>1. SUFFICES ASSUME NEW k \in DOMAIN w.mats
                   PROVE  Booked(v, k) /\ Dated(v, k)
      BY <2>10, <2>12 DEF Fine
    <3>2. CASE k = m
      BY <2>16, <2>17, <3>2
    <3>3. CASE k # m
      <4>1. v.mats[k] = w.mats[k]
        BY <2>18, <3>3
      <4>2. Booked(w, k) /\ Dated(w, k)
        BY DEF Fine
      <4> QED
        BY <2>14, <4>1, <4>2, GrowsKeeps
    <3> QED
      BY <3>2, <3>3
  <2> QED
    BY <2>1, <2>10, <2>12, <2>14, <2>19
<1> QED
  BY <1>2, <1>3

\* A material that has just been given its composition is right by definition.
LEMMA GivenEffect ==
    ASSUME NEW w, Sound(w), NEW m \in DOMAIN w.mats
    PROVE  LET v == Given(w, m)
           IN  /\ Sound(v) /\ Grows(w, v) /\ DOMAIN v.mats = DOMAIN w.mats
               /\ v.comps = w.comps
               /\ \A k \in DOMAIN w.mats : k # m => v.mats[k] = w.mats[k]
               /\ v.mats[m].comp = w.mats[m].comp /\ v.mats[m].prev = w.mats[m].prev
               /\ v.mats[m].ctx = w.mats[m].ctx /\ v.mats[m].row = w.mats[m].row
               /\ v.mats[m].since = w.mats[m].prev
               /\ Dated(v, m)
<1> DEFINE o == w.mats[m]
           age == w.comps[o.comp].age
           off == w.comps[o.comp].off
           p == [o EXCEPT !.since = o.prev, !.stale = off, !.age = age]
           v == Given(w, m)
<1>1. w \in Worlds /\ o \in Mat /\ o.comp \in DOMAIN w.comps /\ w.comps[o.comp] \in Comp
  BY Parts DEF Sound, Shape
<1>2. age \in Nat /\ o.prev \in Nat /\ off \in BOOLEAN
  BY <1>1, Fields
<1>3. v = [w EXCEPT !.mats = [w.mats EXCEPT ![m] = p]]
  BY <1>1 DEF Given, Worlds
<1>4. /\ p \in Mat /\ p.row = o.row /\ p.comp = o.comp /\ p.prev = o.prev /\ p.ctx = o.ctx
      /\ p.since = o.prev /\ p.age = age /\ p.stale = off
  <2> HIDE DEF o, age, off
  <2> QED
    BY <1>1, <1>2 DEF Mat
<1> HIDE DEF p, v
<1>5. [w.mats EXCEPT ![m] = p] \in Seq(Mat)
  BY <1>1, <1>4, Parts
<1>6. /\ v \in Worlds /\ v.mats = [w.mats EXCEPT ![m] = p] /\ v.comps = w.comps
      /\ v.lines = w.lines /\ v.next = w.next /\ v.table = w.table
  BY <1>1, <1>3, <1>5 DEF Worlds
<1>7. Sound(v) /\ Grows(w, v) /\ DOMAIN v.mats = DOMAIN w.mats
  BY <1>1, <1>4, <1>6, SetMat
<1>8. v.mats[m] = p /\ \A k \in DOMAIN w.mats : k # m => v.mats[k] = w.mats[k]
  BY <1>6, <1>7
<1>9. Dated(v, m)
  <2>1. (p.prev - p.since) * Dt = 0
    BY <1>2, <1>4, Constants
  <2>2. ~ p.stale => Due(v, p.comp) = p.age
    BY <1>1, <1>4, <1>6, <1>7 DEF Sound, Kin
  <2>3. p.age \in Nat
    BY <1>2, <1>4
  <2> QED
    BY <1>8, <2>1, <2>2, <2>3 DEF Dated
<1> QED
  BY <1>4, <1>6, <1>7, <1>8, <1>9 DEF v

-----------------------------------------------------------------------------
(***************************************************************************)
(* The calls keep the invariant.                                           *)
(***************************************************************************)
LEMMA BecomeWorld ==
    ASSUME NEW w \in Worlds, Become(w)
    PROVE  World' = w
<1>1. w = [comps |-> w.comps, lines |-> w.lines, next |-> w.next, mats |-> w.mats,
           table |-> w.table]
  BY DEF Worlds
<1> QED
  BY <1>1 DEF Become, World

\* A world's parts are the variables.
LEMMA WorldParts ==
    /\ World.comps = comps /\ World.lines = lines /\ World.next = next_id
    /\ World.mats = mats /\ World.table = table
  BY DEF World

\* The compositions agents use are there.
LEMMA AtHandThere ==
    ASSUME Sound(World)
    PROVE  AtHand \subseteq DOMAIN comps
<1>1. Shape(World) /\ World \in Worlds
  BY DEF Sound, Shape
<1>2. 1..Cardinality(Recipes) \subseteq DOMAIN comps
  <2>1. DOMAIN comps = 1..Len(comps) /\ Len(comps) \in Nat
    BY <1>1, Parts, WorldParts
  <2>2. NRec <= Len(comps)
    BY <1>1, WorldParts DEF Shape
  <2> QED
    BY <2>1, <2>2, Constants DEF NRec
<1>3. \A m \in DOMAIN mats : mats[m].comp \in DOMAIN comps
  BY <1>1, WorldParts DEF Shape
<1> QED
  BY <1>2, <1>3 DEF AtHand

\* A snapshot stays right while the world grows.
LEMMA PicturesKeep ==
    ASSUME CompositionInv, Sound(World'), Grows(World, World'), UNCHANGED <<snap, restarted>>
    PROVE  Pictures(World)'
<1>1. World \in Worlds /\ Shape(World) /\ World' \in Worlds
  BY DEF CompositionInv, Sound, Shape
<1>2. \A c \in 1..NRec : c \in DOMAIN World.comps
  BY <1>1, Parts, Constants DEF Shape
<1>3. World.next \in Nat /\ World'.next \in Nat /\ World.next <= World'.next
      /\ World.table \subseteq World'.table
  BY <1>1, Parts DEF Grows
<1>4. \A c \in 1..NRec : World'.comps[c].id = World.comps[c].id
  BY <1>2 DEF Grows
<1>5. Pictures(World)
  BY DEF CompositionInv
<1>6. Pictures(World')
  <2> DEFINE w == World
             v == World'
  <2> HIDE DEF w, v
  <2>1. w.next \in Nat /\ v.next \in Nat /\ w.next <= v.next /\ w.table \subseteq v.table
        /\ \A c \in 1..NRec : v.comps[c].id = w.comps[c].id
    BY <1>3, <1>4 DEF w, v
  <2>2. ASSUME Pictures(w), snap # NoSnap, ~ restarted
        PROVE  Pictures(v)
    <3>1. snap.next \in Nat /\ snap.next <= v.next
      BY <2>1, <2>2 DEF Pictures
    <3>2. \A c \in 1..NRec : v.comps[c].id < snap.next
      BY <2>1, <2>2 DEF Pictures
    <3>3. \A k \in DOMAIN snap.rows :
             <<snap.rows[k].qual, snap.was[k].comp[1], snap.was[k].comp[2]>> \in v.table
      BY <2>1, <2>2 DEF Pictures
    <3> QED
      BY <2>2, <3>1, <3>2, <3>3, Zenon DEF Pictures
  <2>3. snap = NoSnap \/ restarted => Pictures(v)
    BY DEF Pictures
  <2> QED
    BY <1>5, <2>2, <2>3 DEF w, v
<1> QED
  BY <1>6 DEF Pictures, Taken, World

\* A call that leaves a sound and fine world keeps the invariant.
LEMMA CallKeeps ==
    ASSUME CompositionInv, NEW v, Become(v), Sound(v), Fine(v, {}), Grows(World, v),
           UNCHANGED <<now, snap, restarted>>
    PROVE  CompositionInv'
<1>1. World' = v
  BY BecomeWorld DEF Sound, Shape
<1>2. Sound(World') /\ Fine(World', {}) /\ Grows(World, World')
  BY <1>1
<1>3. Pictures(World)'
  BY <1>2, PicturesKeep
<1>4. (now \in 0..MaxTime)' /\ (restarted \in BOOLEAN)'
  BY DEF CompositionInv
<1>5. Sound(World)' /\ Fine(World, {})'
  BY <1>2
<1> QED
  BY <1>3, <1>4, <1>5 DEF CompositionInv

\* A material is added.
LEMMA AddMat ==
    ASSUME NEW w, Sound(w), NEW o \in Mat, o.comp \in DOMAIN w.comps
    PROVE  LET v == [w EXCEPT !.mats = Append(@, o)]
               n == Len(w.mats) + 1
           IN  /\ Sound(v) /\ Grows(w, v) /\ v.comps = w.comps /\ Len(v.mats) = n
               /\ DOMAIN v.mats = DOMAIN w.mats \cup {n} /\ n \notin DOMAIN w.mats
               /\ v.mats[n] = o /\ \A k \in DOMAIN w.mats : v.mats[k] = w.mats[k]
<1> DEFINE v == [w EXCEPT !.mats = Append(@, o)]
           n == Len(w.mats) + 1
<1>1. /\ w \in Worlds /\ w.mats \in Seq(Mat) /\ DOMAIN w.mats = 1..Len(w.mats)
      /\ Len(w.mats) \in Nat /\ w.next \in Nat
  BY Parts DEF Sound, Shape
<1>2. Append(w.mats, o) \in Seq(Mat)
  BY <1>1
<1>3. /\ v \in Worlds /\ v.mats = Append(w.mats, o) /\ v.comps = w.comps
      /\ v.lines = w.lines /\ v.next = w.next /\ v.table = w.table
  BY <1>1, <1>2 DEF Worlds
<1> HIDE DEF v
<1>4. /\ DOMAIN v.mats = DOMAIN w.mats \cup {n} /\ n \notin DOMAIN w.mats /\ Len(v.mats) = n
      /\ v.mats[n] = o /\ \A k \in DOMAIN w.mats : v.mats[k] = w.mats[k]
  BY <1>1, <1>3
<1> HIDE DEF n
<1>5. Shape(v)
  BY <1>3, <1>4 DEF Sound, Shape
<1>6. Caches(v) /\ Ids(v) /\ Kin(v)
  BY <1>3 DEF Sound, Caches, Ids, Kin, Due
<1>7. Grows(w, v)
  BY <1>1, <1>3 DEF Grows
<1> QED
  BY <1>3, <1>4, <1>5, <1>6, <1>7 DEF Sound, v, n

\* The materials that a step does not touch stay fine.
LEMMA OthersFine ==
    ASSUME NEW w, NEW v, Sound(w), Fine(w, {}), Grows(w, v), NEW m,
           DOMAIN v.mats \subseteq DOMAIN w.mats \cup {m},
           \A k \in DOMAIN w.mats : k # m => v.mats[k] = w.mats[k],
           m \in DOMAIN v.mats => Booked(v, m) /\ Dated(v, m)
    PROVE  Fine(v, {})
<1>1. SUFFICES ASSUME NEW k \in DOMAIN v.mats, k # m
               PROVE  Booked(v, k) /\ Dated(v, k)
  BY DEF Fine
<1>2. k \in DOMAIN w.mats /\ v.mats[k] = w.mats[k]
  BY <1>1
<1>3. Booked(w, k) /\ Dated(w, k)
  BY <1>2 DEF Fine
<1> QED
  BY <1>2, <1>3, GrowsKeeps

\* Material::Create and CreateUntracked.
LEMMA StepCreateMat ==
    ASSUME CompositionInv, NEW c \in AtHand, NEW ctx \in BOOLEAN, CreateMat(c, ctx)
    PROVE  CompositionInv'
<1> DEFINE m == Len(mats) + 1
           o == [comp |-> c, prev |-> IF ctx THEN now ELSE 0, ctx |-> ctx,
                 row |-> [qual |-> 0, prev |-> 0], since |-> 0, age |-> 0, stale |-> FALSE]
           w0 == [World EXCEPT !.mats = Append(@, o)]
           w1 == RecordMat(w0, m)
           w2 == Given(w1, m)
<1>1. Become(w2) /\ UNCHANGED <<now, snap, restarted>>
  BY DEF CreateMat
<1>2. Sound(World) /\ Fine(World, {}) /\ now \in Nat
  BY Constants DEF CompositionInv
<1>3. c \in DOMAIN World.comps /\ World \in Worlds /\ World.next \in Nat
  BY <1>2, AtHandThere, WorldParts, Parts DEF Sound, Shape
<1>4. c \in Nat
  BY <1>3, Parts
<1>5. o \in Mat /\ o.comp = c
  BY <1>2, <1>4 DEF Mat
<1> HIDE DEF o
<1>6. Len(World.mats) + 1 = m
  BY WorldParts
<1>7. /\ Sound(w0) /\ Grows(World, w0) /\ DOMAIN w0.mats = DOMAIN World.mats \cup {m}
      /\ m \notin DOMAIN World.mats
      /\ \A k \in DOMAIN World.mats : w0.mats[k] = World.mats[k]
  BY <1>2, <1>3, <1>5, <1>6, AddMat
<1> HIDE DEF w0
<1>8. /\ Sound(w1) /\ Grows(w0, w1) /\ DOMAIN w1.mats = DOMAIN w0.mats
      /\ \A k \in DOMAIN w0.mats : k # m => w1.mats[k] = w0.mats[k]
      /\ Booked(w1, m) /\ w1.mats[m] \in Mat
      /\ w1.mats[m].ctx => w1.mats[m].row.prev = w1.mats[m].prev
  BY <1>7, RecordMatEffect
<1> HIDE DEF w1
<1>9. /\ Sound(w2) /\ Grows(w1, w2) /\ DOMAIN w2.mats = DOMAIN w1.mats /\ w2.comps = w1.comps
      /\ \A k \in DOMAIN w1.mats : k # m => w2.mats[k] = w1.mats[k]
      /\ w2.mats[m].comp = w1.mats[m].comp /\ w2.mats[m].prev = w1.mats[m].prev
      /\ w2.mats[m].ctx = w1.mats[m].ctx /\ w2.mats[m].row = w1.mats[m].row
      /\ w2.mats[m].since = w1.mats[m].prev /\ Dated(w2, m)
  BY <1>7, <1>8, GivenEffect
<1> HIDE DEF w2
<1>10. w0.next \in Nat /\ w1.next \in Nat /\ w2.next \in Nat
  BY <1>7, <1>8, <1>9, Parts DEF Sound, Shape
<1>11. Grows(World, w2)
  BY <1>3, <1>7, <1>8, <1>9, <1>10, GrowsTrans
<1>12. Booked(w2, m)
  BY <1>8, <1>9, Fields DEF Booked
<1> HIDE DEF m
<1>13. /\ DOMAIN w2.mats \subseteq DOMAIN World.mats \cup {m}
       /\ \A k \in DOMAIN World.mats : k # m => w2.mats[k] = World.mats[k]
  BY <1>7, <1>8, <1>9
<1>14. Fine(w2, {})
  BY <1>2, <1>9, <1>11, <1>12, <1>13, OthersFine
<1> QED
  BY <1>1, <1>9, <1>11, <1>14, CallKeeps

\* A material that differs by its row only has the right composition, too.
LEMMA DatedSame ==
    ASSUME NEW w, NEW v, Sound(w), Grows(w, v), NEW m \in DOMAIN w.mats, NEW n,
           v.mats[n].comp = w.mats[m].comp, v.mats[n].prev = w.mats[m].prev,
           v.mats[n].since = w.mats[m].since, v.mats[n].age = w.mats[m].age,
           v.mats[n].stale = w.mats[m].stale, Dated(w, m)
    PROVE  Dated(v, n)
<1>1. w.mats[m].comp \in DOMAIN w.comps
  BY DEF Sound, Shape
<1>2. Due(v, w.mats[m].comp) = Due(w, w.mats[m].comp)
  BY <1>1, GrowsDue
<1> QED
  BY <1>2 DEF Dated

\* Recording a material keeps it and the others fine.
LEMMA RecordMatFine ==
    ASSUME NEW w, Sound(w), NEW m \in DOMAIN w.mats, Fine(w, {m}),
           Dated(w, m)
    PROVE  LET v == RecordMat(w, m)
           IN  Sound(v) /\ Grows(w, v) /\ DOMAIN v.mats = DOMAIN w.mats /\ Fine(v, {})
<1> DEFINE v == RecordMat(w, m)
<1>1. /\ Sound(v) /\ Grows(w, v) /\ DOMAIN v.mats = DOMAIN w.mats
      /\ \A k \in DOMAIN w.mats : k # m => v.mats[k] = w.mats[k]
      /\ v.mats[m].comp = w.mats[m].comp /\ v.mats[m].prev = w.mats[m].prev
      /\ v.mats[m].since = w.mats[m].since /\ v.mats[m].age = w.mats[m].age
      /\ v.mats[m].stale = w.mats[m].stale /\ Booked(v, m)
  BY RecordMatEffect
<1> HIDE DEF v
<1>3. Dated(v, m)
  BY <1>1, DatedSame
<1>4. ASSUME NEW k \in DOMAIN w.mats, k # m
      PROVE  Booked(v, k) /\ Dated(v, k)
  <2>1. Booked(w, k) /\ Dated(w, k) /\ v.mats[k] = w.mats[k]
    BY <1>1, <1>4 DEF Fine
  <2> QED
    BY <1>1, <2>1, GrowsKeeps
<1> QED
  BY <1>1, <1>3, <1>4 DEF Fine, v

\* Material::ExtractQty.
LEMMA StepExtractQty ==
    ASSUME CompositionInv, NEW m \in DOMAIN mats, ExtractQty(m)
    PROVE  CompositionInv'
<1> DEFINE n  == Len(mats) + 1
           w0 == [World EXCEPT !.mats = Append(@, mats[m])]
           w1 == RecordMat(w0, m)
           w2 == RecordMat(w1, n)
<1>1. Sound(World) /\ Fine(World, {}) /\ World \in Worlds /\ World.next \in Nat
  BY Parts DEF CompositionInv, Sound, Shape
<1>2. /\ m \in DOMAIN World.mats /\ mats[m] = World.mats[m] /\ mats[m] \in Mat
      /\ mats[m].comp \in DOMAIN World.comps /\ Len(World.mats) + 1 = n
  BY <1>1, WorldParts, Parts DEF Sound, Shape
<1>3. /\ Sound(w0) /\ Grows(World, w0) /\ DOMAIN w0.mats = DOMAIN World.mats \cup {n}
      /\ n \notin DOMAIN World.mats /\ Len(w0.mats) = n /\ w0.mats[n] = mats[m]
      /\ \A k \in DOMAIN World.mats : w0.mats[k] = World.mats[k]
  BY <1>1, <1>2, AddMat
<1>4. Become(w2) /\ UNCHANGED <<now, snap, restarted>>
  BY <1>3 DEF ExtractQty
<1> HIDE DEF w0, n
<1>6. \A k \in DOMAIN w0.mats : Booked(w0, k) /\ Dated(w0, k)
  <2>1. SUFFICES ASSUME NEW k \in DOMAIN w0.mats
                 PROVE  Booked(w0, k) /\ Dated(w0, k)
    OBVIOUS
  <2>2. PICK j \in DOMAIN World.mats : w0.mats[k] = World.mats[j]
    BY <1>2, <1>3
  <2>3. Booked(World, j) /\ Dated(World, j)
    BY <1>1 DEF Fine
  <2> QED
    BY <1>1, <1>3, <2>2, <2>3, GrowsKeeps
<1>7. Sound(w1) /\ Grows(w0, w1) /\ DOMAIN w1.mats = DOMAIN w0.mats /\ Fine(w1, {})
  <2>1. m \in DOMAIN w0.mats /\ Fine(w0, {m}) /\ Dated(w0, m)
    BY <1>2, <1>3, <1>6 DEF Fine
  <2> QED
    BY <1>3, <2>1, RecordMatFine
<1> HIDE DEF w1
<1>8. Sound(w2) /\ Grows(w1, w2) /\ Fine(w2, {})
  <2>1. n \in DOMAIN w1.mats /\ Fine(w1, {n}) /\ Dated(w1, n)
    BY <1>3, <1>7 DEF Fine
  <2> QED
    BY <1>7, <2>1, RecordMatFine
<1> HIDE DEF w2
<1>9. w0.next \in Nat /\ w1.next \in Nat /\ w2.next \in Nat
  BY <1>3, <1>7, <1>8, Parts DEF Sound, Shape
<1>10. Grows(World, w2)
  BY <1>1, <1>3, <1>7, <1>8, <1>9, GrowsTrans
<1> QED
  BY <1>4, <1>8, <1>10, CallKeeps

\* A call of Material::Transmute.
LEMMA StepCallTransmute ==
    ASSUME CompositionInv, NEW m \in DOMAIN mats, NEW c \in AtHand, CallTransmute(m, c)
    PROVE  CompositionInv'
<1> DEFINE w1 == Transmute(World, m, c)
           w2 == Given(w1, m)
<1>1. Become(w2) /\ UNCHANGED <<now, snap, restarted>>
  BY DEF CallTransmute
<1>2. Sound(World) /\ Fine(World, {}) /\ World \in Worlds /\ World.next \in Nat /\ now \in Nat
  BY Parts, Constants DEF CompositionInv, Sound, Shape
<1>3. m \in DOMAIN World.mats /\ c \in DOMAIN World.comps /\ World.mats[m] \in Mat
  BY <1>2, AtHandThere, WorldParts, Parts
<1>4. /\ Sound(w1) /\ Grows(World, w1) /\ DOMAIN w1.mats = DOMAIN World.mats
      /\ \A k \in DOMAIN World.mats : k # m => w1.mats[k] = World.mats[k]
      /\ w1.mats[m] \in Mat /\ w1.mats[m].comp = c
      /\ World.mats[m].prev <= w1.mats[m].prev
      /\ w1.mats[m].ctx => /\ w1.mats[m].row.prev = World.mats[m].prev
                           /\ w1.mats[m].row.qual = w1.comps[c].id
                           /\ w1.comps[c].recorded
  BY <1>2, <1>3, TransmuteEffect
<1> HIDE DEF w1
<1>5. /\ Sound(w2) /\ Grows(w1, w2) /\ DOMAIN w2.mats = DOMAIN w1.mats /\ w2.comps = w1.comps
      /\ \A k \in DOMAIN w1.mats : k # m => w2.mats[k] = w1.mats[k]
      /\ w2.mats[m].comp = w1.mats[m].comp /\ w2.mats[m].prev = w1.mats[m].prev
      /\ w2.mats[m].ctx = w1.mats[m].ctx /\ w2.mats[m].row = w1.mats[m].row
      /\ w2.mats[m].since = w1.mats[m].prev /\ Dated(w2, m)
  BY <1>3, <1>4, GivenEffect
<1> HIDE DEF w2
<1>6. w1.next \in Nat /\ w2.next \in Nat
  BY <1>4, <1>5, Parts DEF Sound, Shape
<1>7. Grows(World, w2)
  BY <1>2, <1>4, <1>5, <1>6, GrowsTrans
<1>8. Booked(w2, m)
  BY <1>4, <1>5 DEF Booked
<1>9. /\ DOMAIN w2.mats \subseteq DOMAIN World.mats \cup {m}
      /\ \A k \in DOMAIN World.mats : k # m => w2.mats[k] = World.mats[k]
  BY <1>4, <1>5
<1>10. Fine(w2, {})
  BY <1>2, <1>5, <1>7, <1>8, <1>9, OthersFine
<1> QED
  BY <1>1, <1>5, <1>7, <1>10, CallKeeps

\* A call of Material::Decay.
LEMMA StepCallDecay ==
    ASSUME CompositionInv, NEW m \in DOMAIN mats, CallDecay(m)
    PROVE  CompositionInv'
<1> DEFINE v == DecayMat(World, m)
<1>1. Become(v) /\ UNCHANGED <<now, snap, restarted>>
  BY DEF CallDecay
<1>2. Sound(World) /\ Fine(World, {}) /\ now \in Nat /\ m \in DOMAIN World.mats
  BY Constants, WorldParts DEF CompositionInv
<1>3. Sound(v) /\ Grows(World, v) /\ Fine(v, {})
  BY <1>2, DecayMatEffect
<1> HIDE DEF v
<1> QED
  BY <1>1, <1>3, CallKeeps

\* An agent's call of Composition::Decay.
LEMMA StepDecayComp ==
    ASSUME CompositionInv, NEW c \in AtHand, NEW delta \in 0..1, DecayComp(c, delta, DefaultDt)
    PROVE  CompositionInv'
<1> DEFINE d == Decay(World, c, delta, DefaultDt)
           v == d[1]
<1>1. Become(v) /\ UNCHANGED <<now, snap, restarted>>
  BY DEF DecayComp
<1>2. Sound(World) /\ Fine(World, {}) /\ c \in DOMAIN World.comps /\ delta \in Nat
  BY AtHandThere, WorldParts DEF CompositionInv
<1>3. Sound(v) /\ Grows(World, v) /\ v.mats = World.mats
  BY <1>2, DecayEffect
<1> HIDE DEF v
<1>4. Fine(v, {})
  <2>1. SUFFICES ASSUME NEW k \in DOMAIN World.mats
                 PROVE  Booked(v, k) /\ Dated(v, k)
    BY <1>3 DEF Fine
  <2>2. Booked(World, k) /\ Dated(World, k)
    BY <1>2 DEF Fine
  <2> QED
    BY <1>2, <1>3, <2>2, GrowsKeeps
<1> QED
  BY <1>1, <1>3, <1>4, CallKeeps

-----------------------------------------------------------------------------
(***************************************************************************)
(* Time steps, snapshots and the restart.                                  *)
(***************************************************************************)
\* A function on 1..n is a sequence.
LEMMA FunctionSeq ==
    ASSUME NEW n \in Nat, NEW S, NEW f \in [1..n -> S]
    PROVE  f \in Seq(S) /\ Len(f) = n /\ DOMAIN f = 1..n
  OBVIOUS

\* The elements of a finite set can be numbered.
LEMMA Numbering ==
    ASSUME NEW S, IsFiniteSet(S)
    PROVE  /\ Cardinality(S) \in Nat /\ SetToSeq(S) \in [1..Cardinality(S) -> S]
           /\ IsInjective(SetToSeq(S))
<1>1. Cardinality(S) \in Nat /\ ExistsBijection(1..Cardinality(S), S)
  BY FS_CardinalityType
<1>2. \E f \in [1..Cardinality(S) -> S] : IsInjective(f)
  BY <1>1 DEF ExistsBijection, Bijection, Injection
<1> QED
  BY <1>1, <1>2 DEF SetToSeq

\* The materials a snapshot is of.
LEMMA InventoryOf ==
    ASSUME CompositionInv
    PROVE  \E n \in Nat : /\ DOMAIN Inventory = 1..n
                          /\ \A k \in 1..n : \E m \in DOMAIN mats :
                                mats[m].ctx /\ Inventory[k] = mats[m]
<1> DEFINE S == {m \in DOMAIN mats : mats[m].ctx}
           t == SetToSeq(S)
<1>1. DOMAIN mats = 1..Len(mats) /\ Len(mats) \in Nat
  BY Parts, WorldParts DEF CompositionInv, Sound, Shape
<1>2. IsFiniteSet(S)
  <2>1. IsFiniteSet(1..Len(mats)) /\ S \subseteq 1..Len(mats)
    BY <1>1, FS_Interval
  <2> QED
    BY <2>1, FS_Subset
<1>3. Cardinality(S) \in Nat /\ t \in [1..Cardinality(S) -> S]
  BY <1>2, Numbering
<1>4. Inventory = [k \in DOMAIN t |-> mats[t[k]]]
  BY DEF Inventory
<1> HIDE DEF t
<1>5. DOMAIN Inventory = 1..Cardinality(S)
  BY <1>3, <1>4
<1>6. ASSUME NEW k \in 1..Cardinality(S)
      PROVE  \E m \in DOMAIN mats : mats[m].ctx /\ Inventory[k] = mats[m]
  <2>1. t[k] \in S /\ Inventory[k] = mats[t[k]]
    BY <1>3, <1>4
  <2> QED
    BY <2>1
<1> QED
  BY <1>3, <1>5, <1>6

\* A snapshot is right of the world it is taken in.
LEMMA SnapshotRight ==
    ASSUME CompositionInv, now < MaxTime, snap' = Snapshot, World' = World
    PROVE  Pictures(World)'
<1>1. PICK n \in Nat : /\ DOMAIN Inventory = 1..n
                       /\ \A k \in 1..n : \E m \in DOMAIN mats :
                             mats[m].ctx /\ Inventory[k] = mats[m]
  BY InventoryOf
<1> DEFINE rows == [k \in DOMAIN Inventory |-> Inventory[k].row]
           was  == [k \in DOMAIN Inventory |->
                     [Inventory[k] EXCEPT !.comp = <<comps[@].recipe, comps[@].age>>,
                                          !.stale = @ \/ comps[Inventory[k].comp].off]]
<1>2. snap' = [time |-> now + 1, next |-> next_id, rows |-> rows, was |-> was]
  BY DEF Snapshot
<1>3. /\ Sound(World) /\ Fine(World, {}) /\ Shape(World) /\ Ids(World) /\ World \in Worlds
      /\ now \in Nat
  BY Constants DEF CompositionInv, Sound, Shape
<1>4. /\ \A m \in DOMAIN mats : mats[m] \in Mat /\ mats[m].comp \in DOMAIN comps
      /\ \A c \in DOMAIN comps : comps[c] \in Comp
      /\ next_id \in Nat \ {0} /\ DOMAIN comps = 1..Len(comps) /\ Len(comps) \in Nat
      /\ NRec <= Len(comps)
  BY <1>3, Parts, WorldParts DEF Shape
<1>5. rows \in Seq([qual : Nat, prev : Nat]) /\ DOMAIN rows = 1..n /\ DOMAIN was = 1..n
  <2>1. rows \in [1..n -> [qual : Nat, prev : Nat]]
    BY <1>1, <1>4, Fields
  <2> QED
    BY <1>1, <2>1, FunctionSeq
<1>6. \A c \in 1..NRec : comps[c].id < next_id
  BY <1>3, <1>4, Constants, WorldParts DEF Ids
<1>7. ASSUME NEW k \in 1..n
      PROVE  /\ <<rows[k].qual, was[k].comp[1], was[k].comp[2]>> \in table
             /\ was[k].comp = <<was[k].comp[1], was[k].comp[2]>>
             /\ rows[k].qual < next_id
             /\ was[k].prev \in Nat /\ was[k].since \in Nat /\ was[k].age \in Nat
             /\ was[k].stale \in BOOLEAN
             /\ rows[k].prev <= was[k].prev
             /\ was[k].prev > rows[k].prev => was[k].since = was[k].prev
             /\ WasDated(was[k])
  <2>1. PICK m \in DOMAIN mats : mats[m].ctx /\ Inventory[k] = mats[m]
    BY <1>1
  <2> DEFINE o == mats[m]
             x == <<comps[o.comp].recipe, comps[o.comp].age>>
             off == comps[o.comp].off
  <2>2. rows[k] = o.row /\ was[k] = [o EXCEPT !.comp = x, !.stale = o.stale \/ off]
    BY <1>1, <2>1
  <2>3. o \in Mat /\ o.comp \in DOMAIN comps
    BY <1>4
  <2>4. /\ was[k].comp = x /\ was[k].prev = o.prev /\ was[k].since = o.since
        /\ was[k].age = o.age /\ was[k].stale = (o.stale \/ off)
    <3> HIDE DEF o, x, off, was
    <3> QED
      BY <2>2, <2>3 DEF Mat
  <2> HIDE DEF was, rows
  <2>5. Booked(World, m) /\ Dated(World, m)
    BY <1>3, WorldParts DEF Fine
  <2>6. /\ o.row.qual = comps[o.comp].id /\ comps[o.comp].recorded
        /\ o.row.prev <= o.prev /\ (o.prev > o.row.prev => o.since = o.prev)
    BY <2>1, <2>5, WorldParts DEF Booked
  <2>7. Row(comps[o.comp]) \in table /\ comps[o.comp].id < next_id
    BY <1>3, <2>3, <2>6, WorldParts DEF Ids
  <2>8. <<o.row.qual, x[1], x[2]>> \in table /\ x = <<x[1], x[2]>>
    BY <2>6, <2>7 DEF Row
  <2>9. ~ o.stale /\ ~ off => x[2] = o.age + (o.prev - o.since) * Dt
    <3>1. ~ off => x[2] = Due(World, o.comp)
      BY <1>3, <2>3, WorldParts DEF Sound, Kin
    <3> QED
      BY <2>5, <3>1, WorldParts DEF Dated
  <2>10. o.prev \in Nat /\ o.since \in Nat /\ o.age \in Nat /\ (o.stale \/ off) \in BOOLEAN
    BY <2>3, Fields
  <2> HIDE DEF o, x, off
  <2>11. WasDated(was[k])
    BY <2>4, <2>9 DEF WasDated
  <2> QED
    BY <2>2, <2>4, <2>6, <2>7, <2>8, <2>10, <2>11
<1>8. now + 1 \in 0..MaxTime
  BY <1>3, Constants
<1> HIDE DEF rows, was
<1>9. /\ snap'.time = now + 1 /\ snap'.next = next_id /\ snap'.rows = rows /\ snap'.was = was
  BY <1>2
<1>10. /\ World'.next = next_id /\ World'.comps = comps /\ World'.table = table
  BY WorldParts
<1>11. /\ snap'.time \in 0..MaxTime /\ snap'.next \in Nat \ {0} /\ snap'.next <= World'.next
       /\ snap'.rows \in Seq([qual : Nat, prev : Nat]) /\ DOMAIN snap'.was = DOMAIN snap'.rows
  BY <1>4, <1>5, <1>8, <1>9, <1>10
<1>12. \A c \in 1..NRec : World'.comps[c].id < snap'.next
  BY <1>6, <1>9, <1>10
<1>13. \A k \in DOMAIN snap'.rows :
          /\ <<snap'.rows[k].qual, snap'.was[k].comp[1], snap'.was[k].comp[2]>> \in World'.table
          /\ snap'.was[k].comp = <<snap'.was[k].comp[1], snap'.was[k].comp[2]>>
          /\ snap'.rows[k].qual < snap'.next
          /\ snap'.was[k].prev \in Nat /\ snap'.was[k].since \in Nat
          /\ snap'.was[k].age \in Nat /\ snap'.was[k].stale \in BOOLEAN
          /\ snap'.rows[k].prev <= snap'.was[k].prev
          /\ snap'.was[k].prev > snap'.rows[k].prev => snap'.was[k].since = snap'.was[k].prev
          /\ WasDated(snap'.was[k])
  BY <1>5, <1>7, <1>9, <1>10
<1> HIDE <1>2
<1> QED
  BY <1>11, <1>12, <1>13 DEF Pictures, Taken

\* A time step.
LEMMA StepTick ==
    ASSUME CompositionInv, NEW take \in BOOLEAN, Tick(take)
    PROVE  CompositionInv'
<1>1. World' = World
  BY DEF Tick, World, objects
<1>2. Sound(World) /\ Fine(World, {}) /\ World \in Worlds /\ World.next \in Nat /\ now \in Nat
  BY Parts, Constants DEF CompositionInv, Sound, Shape
<1>3. (now \in 0..MaxTime)' /\ (restarted \in BOOLEAN)'
  BY <1>2, Constants DEF Tick, CompositionInv
<1>4. Sound(World') /\ Fine(World', {}) /\ Grows(World, World')
  BY <1>1, <1>2, GrowsSame
<1>5. Pictures(World)'
  <2>1. CASE take
    BY <1>1, <2>1, SnapshotRight DEF Tick
  <2>2. CASE ~ take
    BY <1>4, <2>2, PicturesKeep DEF Tick
  <2> QED
    BY <2>1, <2>2
<1>6. Sound(World)' /\ Fine(World, {})'
  BY <1>4
<1> QED
  BY <1>3, <1>5, <1>6 DEF CompositionInv

\* LoadComposition finds the row it looks for, if there is one.
LEMMA Found ==
    ASSUME Sound(World), NEW x \in table, NEW k
    PROVE  LoadComposition(k, x[1]) = Create(k, x[1], x[2], x[3])
<1>1. \A y \in table : y[1] = x[1] => y = x
  BY WorldParts DEF Sound, Ids
<1>2. (CHOOSE y \in table : y[1] = x[1]) = x
  BY <1>1
<1> QED
  BY <1>2 DEF LoadComposition

(***************************************************************************)
(* The row the k-th composition of a restarted simulation is loaded from:  *)
(* that of a recipe or, after them, of a material of the snapshot.         *)
(***************************************************************************)
RowOf(k) ==
    IF k <= NRec THEN Row(comps[k])
    ELSE <<snap.rows[k - NRec].qual, snap.was[k - NRec].comp[1], snap.was[k - NRec].comp[2]>>

\* What a restart makes of the compositions and the materials.
LEMMA RestartLoads ==
    ASSUME CompositionInv, Restart
    PROVE  LET len == Len(snap.rows)
               n   == NRec + len
           IN  /\ len \in Nat /\ DOMAIN snap.rows = 1..len /\ DOMAIN snap.was = 1..len
               /\ comps' = [k \in 1..n |-> Create(k, RowOf(k)[1], RowOf(k)[2], RowOf(k)[3])]
               /\ lines' = [k \in 1..n |-> {}]
               /\ \A k \in 1..n : RowOf(k) \in table' /\ RowOf(k)[1] < snap.next
               /\ table' \subseteq table
<1> DEFINE len == Len(snap.rows)
           n   == NRec + len
           ids == [k \in 1..n |-> IF k <= NRec THEN comps[k].id ELSE snap.rows[k - NRec].qual]
<1>1. /\ Sound(World) /\ Pictures(World) /\ snap # NoSnap /\ ~ restarted
      /\ comps' = [k \in DOMAIN ids |-> LoadComposition(k, ids[k])]
      /\ lines' = [k \in DOMAIN ids |-> {}]
      /\ table' = {x \in table : x[1] < snap.next}
  BY DEF CompositionInv, Restart, NRec
<1>2. /\ snap.rows \in Seq([qual : Nat, prev : Nat]) /\ DOMAIN snap.was = DOMAIN snap.rows
      /\ \A c \in 1..NRec : comps[c].id < snap.next
      /\ \A k \in DOMAIN snap.rows :
            /\ <<snap.rows[k].qual, snap.was[k].comp[1], snap.was[k].comp[2]>> \in table
            /\ snap.rows[k].qual < snap.next
  BY <1>1, WorldParts DEF Pictures, Taken
<1>3. len \in Nat /\ DOMAIN snap.rows = 1..len
  BY <1>2
<1>4. \A c \in 1..NRec : Row(comps[c]) \in table
  <2>1. \A c \in 1..NRec : c \in DOMAIN comps
    BY <1>1, Parts, WorldParts, Constants DEF Sound, Shape
  <2> QED
    BY <1>1, <2>1, WorldParts DEF Sound, Ids
<1>5. ASSUME NEW k \in 1..n
      PROVE  /\ RowOf(k) \in table /\ RowOf(k)[1] < snap.next /\ ids[k] = RowOf(k)[1]
  <2>1. CASE k <= NRec
    BY <1>2, <1>4, <2>1, Constants DEF RowOf, Row
  <2>2. CASE ~ (k <= NRec)
    <3>1. k - NRec \in DOMAIN snap.rows
      BY <1>3, <2>2, Constants
    <3> QED
      BY <1>2, <2>2, <3>1 DEF RowOf
  <2> QED
    BY <2>1, <2>2
<1> HIDE DEF ids
<1>6. DOMAIN ids = 1..n
  BY DEF ids
<1>7. \A k \in 1..n : LoadComposition(k, ids[k]) =
                        Create(k, RowOf(k)[1], RowOf(k)[2], RowOf(k)[3])
  BY <1>1, <1>5, Found
<1>8. comps' = [k \in 1..n |-> Create(k, RowOf(k)[1], RowOf(k)[2], RowOf(k)[3])]
  BY <1>1, <1>6, <1>7
<1>9. \A k \in 1..n : RowOf(k) \in table' /\ RowOf(k)[1] < snap.next
  BY <1>1, <1>5
<1> QED
  BY <1>1, <1>2, <1>3, <1>6, <1>8, <1>9

\* The fields of a snapshot's rows.
LEMMA RowsTyped ==
    ASSUME NEW rows \in Seq([qual : Nat, prev : Nat]), NEW k \in DOMAIN rows
    PROVE  rows[k] \in [qual : Nat, prev : Nat] /\ rows[k].qual \in Nat /\ rows[k].prev \in Nat
<1>1. rows[k] \in [qual : Nat, prev : Nat]
  BY SeqDomain
<1> QED
  BY <1>1

\* The world a restart makes is sound.
LEMMA RestartSound ==
    ASSUME CompositionInv, Restart
    PROVE  /\ Sound(World')
           /\ \A k \in DOMAIN snap.rows :
                 LET o == comps'[mats'[k].comp]
                 IN  /\ k \in DOMAIN mats' /\ mats'[k].comp \in DOMAIN comps'
                     /\ o.id = snap.rows[k].qual /\ o.recorded /\ ~ o.off
                     /\ o.recipe = snap.was[k].comp[1] /\ o.age = snap.was[k].comp[2]
<1> DEFINE len == Len(snap.rows)
           n   == NRec + len
           at(k) == Create(k, RowOf(k)[1], RowOf(k)[2], RowOf(k)[3])
<1>1. /\ len \in Nat /\ DOMAIN snap.rows = 1..len /\ DOMAIN snap.was = 1..len
      /\ comps' = [k \in 1..n |-> at(k)]
      /\ lines' = [k \in 1..n |-> {}]
      /\ \A k \in 1..n : RowOf(k) \in table' /\ RowOf(k)[1] < snap.next
      /\ table' \subseteq table
  BY RestartLoads
<1>2. /\ Sound(World) /\ Pictures(World) /\ snap # NoSnap /\ ~ restarted
      /\ table' = {x \in table : x[1] < snap.next} /\ next_id' = snap.next
      /\ mats' = [k \in DOMAIN snap.rows |->
                    [comp |-> NRec + k, prev |-> snap.rows[k].prev, ctx |-> TRUE,
                     row |-> snap.rows[k], since |-> snap.was[k].since,
                     age |-> snap.was[k].age,
                     stale |-> snap.was[k].stale \/ snap.rows[k].prev # snap.was[k].prev]]
  BY DEF CompositionInv, Restart, NRec
<1>3. /\ snap.next \in Nat \ {0} /\ snap.rows \in Seq([qual : Nat, prev : Nat])
      /\ \A k \in DOMAIN snap.rows :
            snap.was[k].since \in Nat /\ snap.was[k].age \in Nat /\ snap.was[k].stale \in BOOLEAN
  BY <1>2 DEF Pictures, Taken
<1>4. n \in Nat /\ NRec \in Nat /\ table \subseteq Nat \X Recipes \X Nat
  BY <1>1, <1>2, Constants, Parts, WorldParts DEF Sound, Shape
<1>5. ASSUME NEW k \in 1..n
      PROVE  /\ at(k) \in Comp /\ at(k).id = RowOf(k)[1] /\ at(k).line = k
             /\ at(k).recipe = RowOf(k)[2] /\ at(k).age = RowOf(k)[3] /\ at(k).recorded
             /\ at(k).prev = 0 /\ ~ at(k).off
             /\ RowOf(k) = Row(at(k))
  <2>1. RowOf(k) \in Nat \X Recipes \X Nat
    BY <1>1, <1>4
  <2>2. /\ RowOf(k)[1] \in Nat /\ RowOf(k)[2] \in Recipes /\ RowOf(k)[3] \in Nat
        /\ RowOf(k) = <<RowOf(k)[1], RowOf(k)[2], RowOf(k)[3]>>
    BY <2>1
  <2>3. k \in Nat
    BY <1>4
  <2> QED
    BY <2>2, <2>3 DEF Create, Comp, Row
<1> HIDE DEF at
<1>6. comps' \in [1..n -> Comp] /\ lines' \in [1..n -> SUBSET (Nat \X Nat)]
  BY <1>1, <1>5
<1>7. mats' \in [1..len -> Mat]
  <2>1. \A k \in 1..len : snap.rows[k] \in [qual : Nat, prev : Nat] /\ snap.rows[k].prev \in Nat
    BY <1>1, <1>3, RowsTyped
  <2>2. \A k \in 1..len : snap.was[k].since \in Nat /\ snap.was[k].age \in Nat
    BY <1>1, <1>3
  <2> QED
    BY <1>1, <1>2, <1>4, <2>1, <2>2 DEF Mat
<1>8. /\ comps' \in Seq(Comp) /\ lines' \in Seq(SUBSET (Nat \X Nat)) /\ mats' \in Seq(Mat)
      /\ Len(comps') = n /\ DOMAIN comps' = 1..n /\ DOMAIN lines' = 1..n
      /\ DOMAIN mats' = 1..len
  BY <1>1, <1>4, <1>6, <1>7, FunctionSeq
<1>9. World' = [comps |-> comps', lines |-> lines', next |-> next_id', mats |-> mats',
                table |-> table']
  BY DEF World
<1> DEFINE v == World'
<1>10. /\ v.comps = comps' /\ v.lines = lines' /\ v.next = next_id' /\ v.mats = mats'
       /\ v.table = table'
  BY <1>9
<1>11. v \in Worlds
  BY <1>1, <1>2, <1>3, <1>4, <1>8, <1>9 DEF Worlds
<1> HIDE DEF v
<1>12. \A k \in 1..n : v.comps[k] = at(k) /\ v.lines[k] = {}
  BY <1>1, <1>10
<1>13. \A k \in 1..len : v.mats[k].comp = NRec + k /\ NRec + k \in 1..n
  BY <1>1, <1>2, <1>4, <1>10
<1>14. Shape(v)
  <2>1. NRec <= Len(v.comps)
    BY <1>1, <1>4, <1>8, <1>10
  <2> QED
    BY <1>5, <1>8, <1>10, <1>11, <1>12, <1>13, <2>1 DEF Shape
<1>15. Caches(v) /\ Kin(v)
  <2>1. \A k \in 1..n : v.comps[k].line = k /\ v.comps[k].prev = 0 /\ v.comps[k].age \in Int
    BY <1>5, <1>12, Fields
  <2>2. \A k \in 1..n : Due(v, k) = v.comps[k].age
    BY <2>1, Constants DEF Due
  <2> QED
    BY <1>8, <1>10, <1>12, <2>2 DEF Caches, Kin
<1>16. Ids(v)
  <2>1. \A x, y \in v.table : x[1] = y[1] => x = y
    BY <1>1, <1>2, <1>10, WorldParts DEF Sound, Ids
  <2>2. \A k \in 1..n : /\ v.comps[k].id = RowOf(k)[1] /\ Row(v.comps[k]) = RowOf(k)
                        /\ RowOf(k) \in v.table /\ v.comps[k].id < v.next /\ v.comps[k].recorded
    BY <1>1, <1>2, <1>5, <1>10, <1>12
  <2>3. \A k \in 1..n :
          /\ \A x \in v.table : x[1] = v.comps[k].id => x = Row(v.comps[k])
          /\ \A j \in 1..n : v.comps[k].id = v.comps[j].id => Row(v.comps[k]) = Row(v.comps[j])
    BY <2>1, <2>2
  <2>4. \A x \in v.table : x[1] < v.next
    BY <1>2, <1>10
  <2>5. \A k \in 1..NRec : k \in 1..n
    BY <1>1, <1>4
  <2> QED
    BY <1>8, <1>10, <2>1, <2>2, <2>3, <2>4, <2>5 DEF Ids
<1>17. Sound(v)
  BY <1>14, <1>15, <1>16 DEF Sound
<1>18. ASSUME NEW k \in DOMAIN snap.rows
       PROVE  LET o == comps'[mats'[k].comp]
              IN  /\ k \in DOMAIN mats' /\ mats'[k].comp \in DOMAIN comps'
                  /\ o.id = snap.rows[k].qual /\ o.recorded /\ ~ o.off
                  /\ o.recipe = snap.was[k].comp[1] /\ o.age = snap.was[k].comp[2]
  <2>1. k \in 1..len /\ mats'[k].comp = NRec + k /\ NRec + k \in 1..n
    BY <1>1, <1>10, <1>13
  <2>2. RowOf(NRec + k) = <<snap.rows[k].qual, snap.was[k].comp[1], snap.was[k].comp[2]>>
    <3>1. ~ (NRec + k <= NRec) /\ (NRec + k) - NRec = k
      BY <1>1, <1>4, <2>1
    <3> QED
      BY <3>1 DEF RowOf
  <2>3. comps'[NRec + k] = at(NRec + k)
    BY <1>1, <2>1
  <2> QED
    BY <1>5, <1>8, <2>1, <2>2, <2>3
<1> QED
  BY <1>17, <1>18 DEF v

\* The restart.
LEMMA StepRestart ==
    ASSUME CompositionInv, Restart
    PROVE  CompositionInv'
<1>1. /\ Sound(World')
      /\ \A k \in DOMAIN snap.rows :
            LET o == comps'[mats'[k].comp]
            IN  /\ k \in DOMAIN mats' /\ mats'[k].comp \in DOMAIN comps'
                /\ o.id = snap.rows[k].qual /\ o.recorded /\ ~ o.off
                /\ o.recipe = snap.was[k].comp[1] /\ o.age = snap.was[k].comp[2]
  BY RestartSound
<1>2. /\ Pictures(World) /\ snap # NoSnap /\ ~ restarted
      /\ mats' = [k \in DOMAIN snap.rows |->
                    [comp |-> NRec + k, prev |-> snap.rows[k].prev, ctx |-> TRUE,
                     row |-> snap.rows[k], since |-> snap.was[k].since,
                     age |-> snap.was[k].age,
                     stale |-> snap.was[k].stale \/ snap.rows[k].prev # snap.was[k].prev]]
      /\ now' = snap.time /\ restarted' = TRUE
  BY DEF CompositionInv, Restart, NRec
<1>3. snap.time \in 0..MaxTime /\ snap.rows \in Seq([qual : Nat, prev : Nat])
  BY <1>2 DEF Pictures, Taken
<1>4. /\ World'.comps = comps' /\ World'.mats = mats'
  BY DEF World
<1>5. ASSUME NEW k \in DOMAIN snap.rows
      PROVE  Booked(World', k) /\ Dated(World', k)
  <2> DEFINE o == comps'[mats'[k].comp]
             row == snap.rows[k]
             was == snap.was[k]
  <2>1. /\ mats'[k].prev = row.prev /\ mats'[k].row = row
        /\ mats'[k].since = was.since /\ mats'[k].age = was.age
        /\ mats'[k].stale = (was.stale \/ row.prev # was.prev)
    BY <1>2
  <2>2. o.id = row.qual /\ o.recorded /\ o.age = was.comp[2] /\ ~ o.off
        /\ mats'[k].comp \in DOMAIN comps'
    BY <1>1
  <2>3. row.prev \in Nat
    BY <1>3, RowsTyped
  <2>4. ~ was.stale =>
            was.comp[2] = was.age + (was.prev - was.since) * Dt
    BY <1>2 DEF Pictures, Taken, WasDated
  <2> HIDE DEF row, was
  <2>5. Booked(World', k)
    BY <1>4, <2>1, <2>2, <2>3 DEF Booked
  <2>6. Dated(World', k)
    <3>1. ~ mats'[k].stale => ~ was.stale /\ row.prev = was.prev
      BY <2>1
    <3>2. o.age = Due(World', mats'[k].comp)
      BY <1>1, <1>4, <2>2 DEF Sound, Kin
    <3> QED
      BY <1>4, <2>1, <2>2, <2>4, <3>1, <3>2 DEF Dated
  <2> QED
    BY <2>5, <2>6
<1>6. DOMAIN mats' = DOMAIN snap.rows
  BY <1>2
<1>7. Fine(World', {})
  BY <1>4, <1>5, <1>6 DEF Fine
<1>8. Pictures(World)'
  BY <1>2 DEF Pictures, Taken
<1>9. (now \in 0..MaxTime)' /\ (restarted \in BOOLEAN)'
  BY <1>2, <1>3
<1>10. Sound(World)' /\ Fine(World, {})'
  BY <1>1, <1>7
<1> QED
  BY <1>8, <1>9, <1>10 DEF CompositionInv

-----------------------------------------------------------------------------
(***************************************************************************)
(* A new simulation has the recipes' compositions, each with an id and a   *)
(* row of its own.                                                         *)
(***************************************************************************)
LEMMA StartsRight ==
    ASSUME Init
    PROVE  CompositionInv
<1> DEFINE r == RecipeOrder
           n == NRec
           w == World
<1>1. n \in Nat /\ r \in [1..n -> Recipes] /\ DOMAIN r = 1..n /\ Len(r) = n
  <2>1. Cardinality(Recipes) \in Nat /\ SetToSeq(Recipes) \in [1..Cardinality(Recipes) -> Recipes]
    BY CompositionAssumption, Numbering
  <2> QED
    BY <2>1, FunctionSeq DEF RecipeOrder, NRec
<1>2. /\ comps = [k \in 1..n |-> Create(k, k, r[k], 0)] /\ lines = [k \in 1..n |-> {}]
      /\ next_id = n + 1 /\ table = {<<k, r[k], 0>> : k \in 1..n}
      /\ mats = << >> /\ now = 0 /\ snap = NoSnap /\ restarted = FALSE
  BY <1>1 DEF Init, AddRecipe
<1> HIDE DEF r, n
<1>3. \A k \in 1..n : Create(k, k, r[k], 0) \in Comp
  BY <1>1 DEF Create, Comp
<1>4. /\ comps \in Seq(Comp) /\ Len(comps) = n /\ DOMAIN comps = 1..n
      /\ lines \in Seq(SUBSET (Nat \X Nat)) /\ DOMAIN lines = 1..n
  <2>1. comps \in [1..n -> Comp] /\ lines \in [1..n -> SUBSET (Nat \X Nat)]
    BY <1>2, <1>3
  <2> QED
    BY <1>1, <2>1, FunctionSeq
<1>5. table \subseteq Nat \X Recipes \X Nat
  BY <1>1, <1>2
<1>6. w \in Worlds /\ w.comps = comps /\ w.lines = lines /\ w.next = next_id /\ w.mats = mats
      /\ w.table = table /\ DOMAIN mats = {}
  BY <1>1, <1>2, <1>4, <1>5 DEF World, Worlds
<1> HIDE DEF w
<1>7. \A k \in 1..n : /\ w.comps[k].id = k /\ w.comps[k].line = k /\ w.comps[k].recorded
                      /\ Row(w.comps[k]) = <<k, r[k], 0>>
                      /\ w.comps[k].prev = 0 /\ w.comps[k].age = 0
  BY <1>2, <1>6 DEF Create, Row
<1>8. Shape(w)
  BY <1>1, <1>4, <1>6, <1>7 DEF Shape, n
<1>9. Caches(w) /\ Kin(w)
  <2>1. \A k \in 1..n : Due(w, k) = w.comps[k].age
    BY <1>7, Constants DEF Due
  <2> QED
    BY <1>2, <1>4, <1>6, <1>7, <2>1 DEF Caches, Kin
<1>10. Ids(w)
  <2>1. \A x \in w.table : x[1] \in 1..n /\ x = <<x[1], r[x[1]], 0>>
    BY <1>2, <1>6
  <2>2. \A x \in w.table : x[1] < w.next
    BY <1>1, <1>2, <1>6, <2>1
  <2>3. \A x, y \in w.table : x[1] = y[1] => x = y
    BY <2>1
  <2>4. \A c \in 1..n : /\ w.comps[c].id < w.next /\ Row(w.comps[c]) \in w.table
                        /\ \A x \in w.table : x[1] = w.comps[c].id => x = Row(w.comps[c])
                        /\ \A d \in 1..n : w.comps[c].id = w.comps[d].id => c = d
    <3>1. \A c \in 1..n : w.comps[c].id = c /\ Row(w.comps[c]) = <<c, r[c], 0>>
      BY <1>7
    <3>2. w.table = {<<k, r[k], 0>> : k \in 1..n} /\ w.next = n + 1
      BY <1>2, <1>6
    <3>3. \A c \in 1..n : w.comps[c].id < w.next
      BY <1>1, <3>1, <3>2
    <3>4. \A c \in 1..n : <<c, r[c], 0>> \in w.table
      BY <3>2
    <3>5. \A c \in 1..n : \A x \in w.table : x[1] = c => x = <<c, r[c], 0>>
      BY <2>1
    <3> QED
      BY <3>1, <3>3, <3>4, <3>5
  <2> QED
    BY <1>4, <1>6, <1>7, <2>2, <2>3, <2>4 DEF Ids, n
<1>11. Sound(w) /\ Fine(w, {}) /\ Pictures(w)
  BY <1>2, <1>6, <1>8, <1>9, <1>10 DEF Sound, Fine, Pictures, Taken
<1>12. now \in 0..MaxTime /\ restarted \in BOOLEAN
  <2>1. now = 0 /\ MaxTime \in Nat
    BY <1>2, Constants
  <2>2. now \in 0..MaxTime
    BY <2>1
  <2>3. restarted \in BOOLEAN
    BY <1>2
  <2> QED
    BY <2>2, <2>3
<1> QED
  BY <1>11, <1>12 DEF CompositionInv, w

\* Every step keeps the invariant.
LEMMA StepKeeps ==
    ASSUME CompositionInv, [Next]_vars
    PROVE  CompositionInv'
<1>1. CASE UNCHANGED vars
  <2>1. World' = World /\ UNCHANGED <<now, snap, restarted>>
    BY <1>1 DEF vars, objects, World
  <2>2. Sound(World) /\ Fine(World, {}) /\ World.next \in Nat
    BY Parts DEF CompositionInv, Sound, Shape
  <2>3. Sound(World') /\ Fine(World', {}) /\ Grows(World, World')
    BY <2>1, <2>2, GrowsSame
  <2>4. Pictures(World)'
    BY <2>1, <2>3, PicturesKeep
  <2>5. Sound(World)' /\ Fine(World, {})'
    BY <2>3
  <2> QED
    BY <2>1, <2>4, <2>5 DEF CompositionInv
<1>2. CASE \E c \in AtHand, ctx \in BOOLEAN : CreateMat(c, ctx)
  BY <1>2, StepCreateMat
<1>3. CASE \E m \in DOMAIN mats : ExtractQty(m)
  BY <1>3, StepExtractQty
<1>4. CASE \E m \in DOMAIN mats : CallDecay(m)
  BY <1>4, StepCallDecay
<1>5. CASE \E m \in DOMAIN mats, c \in AtHand : CallTransmute(m, c)
  BY <1>5, StepCallTransmute
<1>6. CASE \E c \in AtHand, delta \in 0..1 : DecayComp(c, delta, DefaultDt)
  BY <1>6, StepDecayComp
<1>7. CASE \E take \in BOOLEAN : Tick(take)
  BY <1>7, StepTick
<1>8. CASE Restart
  BY <1>8, StepRestart
<1> QED
  BY <1>1, <1>2, <1>3, <1>4, <1>5, <1>6, <1>7, <1>8 DEF Next

(***************************************************************************)
(* The inductive invariant: decay lines hold what their keys say, ids and  *)
(* the table have one meaning, rows of materials are right, and so is what *)
(* a snapshot holds (Composition, Material, SimInit).                      *)
(***************************************************************************)
THEOREM Invariance == Spec => []CompositionInv
<1>1. Init => CompositionInv
  BY StartsRight
<1>2. CompositionInv /\ [Next]_vars => CompositionInv'
  BY StepKeeps
<1> QED
  BY <1>1, <1>2, PTL DEF Spec

(***************************************************************************)
(* No step of the compositions, materials and restarts leaves the types of *)
(* the state, and no pointer of a material or of a composition dangles.    *)
(***************************************************************************)
THEOREM TypeCorrect == Spec => []TypeOK
<1>1. CompositionInv => TypeOK
  <2> SUFFICES ASSUME CompositionInv PROVE TypeOK
    OBVIOUS
  <2>1. Shape(World) /\ World \in Worlds
    BY DEF CompositionInv, Sound, Shape
  <2>2. /\ comps \in Seq(Comp) /\ mats \in Seq(Mat) /\ next_id \in Nat \ {0}
        /\ table \subseteq Nat \X Recipes \X Nat
    BY <2>1, Parts, WorldParts
  <2> QED
    BY <2>1, <2>2, WorldParts DEF CompositionInv, Shape, TypeOK
<1> QED
  BY <1>1, Invariance, PTL

(***************************************************************************)
(* A QualId is of one composition, in the objects, in the Compositions     *)
(* table and in the rows of materials, before and after a restart          *)
(* (Composition::Record, Material::Record, SimInit::LoadNextIds).          *)
(***************************************************************************)
THEOREM QualIds == Spec => []QualIdsMeanOne
<1>1. CompositionInv => QualIdsMeanOne
  <2> SUFFICES ASSUME CompositionInv PROVE QualIdsMeanOne
    OBVIOUS
  <2>1. Ids(World) /\ Shape(World) /\ Fine(World, {})
    BY DEF CompositionInv, Sound
  <2>2. \A c \in DOMAIN comps :
          /\ comps[c].id < next_id
          /\ comps[c].recorded => Row(comps[c]) \in table
          /\ \A x \in table : x[1] = comps[c].id => x = Row(comps[c])
          /\ \A d \in DOMAIN comps : comps[c].id = comps[d].id => Row(comps[c]) = Row(comps[d])
    BY <2>1, WorldParts DEF Ids
  <2>3. \A m \in DOMAIN mats : mats[m].ctx =>
          /\ mats[m].comp \in DOMAIN comps /\ mats[m].row.qual = comps[mats[m].comp].id
          /\ comps[mats[m].comp].recorded
    BY <2>1, WorldParts DEF Fine, Booked, Shape
  <2>4. \A c \in DOMAIN comps : \A x \in table : x[1] = comps[c].id =>
          x[2] = comps[c].recipe /\ x[3] = comps[c].age
    <3>1. \A c \in DOMAIN comps : /\ Row(comps[c])[2] = comps[c].recipe
                                  /\ Row(comps[c])[3] = comps[c].age
      BY DEF Row
    <3> QED
      BY <2>2, <3>1
  <2>5. \A c, d \in DOMAIN comps : comps[c].id = comps[d].id =>
          comps[c].recipe = comps[d].recipe /\ comps[c].age = comps[d].age
    BY <2>2 DEF Row
  <2>6. \A m \in DOMAIN mats : mats[m].ctx => \E x \in table : x[1] = mats[m].row.qual
    <3> TAKE m \in DOMAIN mats
    <3> HAVE mats[m].ctx
    <3>1. Row(comps[mats[m].comp]) \in table
      BY <2>2, <2>3
    <3>2. Row(comps[mats[m].comp])[1] = mats[m].row.qual
      BY <2>3 DEF Row
    <3> QED
      BY <3>1, <3>2
  <2> QED
    BY <2>2, <2>3, <2>4, <2>5, <2>6 DEF QualIdsMeanOne
<1> QED
  BY <1>1, Invariance, PTL

(***************************************************************************)
(* Materials that share a decay line are each decayed once for every step  *)
(* since they were given their composition, whatever the length of a time  *)
(* step, as long as no call with another length is behind the composition  *)
(* they are given: a line is keyed by the number of steps, and agents and  *)
(* untracked materials decay on it by the default length                   *)
(* (Composition::Decay, Material::Decay).                                  *)
(***************************************************************************)
THEOREM Decays == Spec => []DecayedOnce
<1>1. CompositionInv => DecayedOnce
  <2> SUFFICES ASSUME CompositionInv, NEW m \in DOMAIN mats, ~ mats[m].stale,
                      ~ comps[mats[m].comp].off
               PROVE  comps[mats[m].comp].age =
                          mats[m].age + (mats[m].prev - mats[m].since) * Dt
    BY DEF DecayedOnce
  <2>1. mats[m].comp \in DOMAIN comps /\ Kin(World) /\ Dated(World, m)
    BY WorldParts DEF CompositionInv, Sound, Shape, Fine
  <2>2. comps[mats[m].comp].age = Due(World, mats[m].comp)
    BY <2>1, WorldParts DEF Kin
  <2> QED
    BY <2>1, <2>2, WorldParts DEF Dated
<1> QED
  BY <1>1, Invariance, PTL

(***************************************************************************)
(* A restart gives every material of the snapshot the composition it had,  *)
(* and its decay time as far as its row holds it (SimInit::LoadMaterial,   *)
(* LoadComposition).                                                       *)
(***************************************************************************)
THEOREM RestartIsFaithful == Spec => RestartFaithful
<1> DEFINE Faithful ==
             restarted' # restarted =>
                \A k \in DOMAIN snap.was :
                   LET c == comps'[mats'[k].comp]
                   IN  /\ <<c.recipe, c.age>> = snap.was[k].comp
                       /\ mats'[k].prev <= snap.was[k].prev
                       /\ snap.was[k].prev > snap.rows[k].prev =>
                             snap.was[k].since = snap.was[k].prev
<1>1. CompositionInv /\ [Next]_vars => [Faithful]_vars
  <2> SUFFICES ASSUME CompositionInv, Next, restarted' # restarted
               PROVE  \A k \in DOMAIN snap.was :
                         LET c == comps'[mats'[k].comp]
                         IN  /\ <<c.recipe, c.age>> = snap.was[k].comp
                             /\ mats'[k].prev <= snap.was[k].prev
                             /\ snap.was[k].prev > snap.rows[k].prev =>
                                   snap.was[k].since = snap.was[k].prev
    OBVIOUS
  <2>1. Restart
    BY DEF Next, CreateMat, ExtractQty, CallDecay, CallTransmute, DecayComp, Tick
  <2>2. Pictures(World) /\ snap # NoSnap /\ ~ restarted
    BY <2>1 DEF CompositionInv, Restart
  <2>3. DOMAIN snap.was = DOMAIN snap.rows
    BY <2>2 DEF Pictures, Taken
  <2> TAKE k \in DOMAIN snap.was
  <2>4. mats'[k].prev = snap.rows[k].prev
    BY <2>1, <2>3 DEF Restart
  <2>5. /\ comps'[mats'[k].comp].recipe = snap.was[k].comp[1]
        /\ comps'[mats'[k].comp].age = snap.was[k].comp[2]
    BY <2>1, <2>3, RestartSound
  <2>6. /\ snap.was[k].comp = <<snap.was[k].comp[1], snap.was[k].comp[2]>>
        /\ snap.rows[k].prev <= snap.was[k].prev
        /\ snap.was[k].prev > snap.rows[k].prev => snap.was[k].since = snap.was[k].prev
    BY <2>2, <2>3 DEF Pictures, Taken
  <2> QED
    BY <2>4, <2>5, <2>6
<1> QED
  BY <1>1, Invariance, PTL DEF Spec, RestartFaithful
=============================================================================
