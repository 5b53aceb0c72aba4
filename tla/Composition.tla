---------------------------- MODULE Composition ----------------------------
(***************************************************************************)
(* Composition, the decay of materials that share compositions, and what   *)
(* a restart makes of both.  Compositions are immutable and shared; those  *)
(* decayed from a common ancestor share a decay line that caches them by   *)
(* the number of time steps they have been decayed for.  A material knows  *)
(* the time its composition is right for.  Both are recorded when the      *)
(* material is, and SimInit::Restart builds them again from these rows.    *)
(*                                                                         *)
(* The content of a composition is its recipe and how long it has decayed; *)
(* decaying for a and then for b is decaying for a + b.  The quantities,   *)
(* splits and mixtures of materials are the subject of ResTracking.        *)
(***************************************************************************)
EXTENDS Integers, Sequences, FiniteSets, SequencesExt

CONSTANTS
    Recipes,     \* the recipes of the simulation
    Noticeable,  \* recipe -> time steps after which its decay is noticed
    Dt,          \* SimInfo::dt
    DefaultDt,   \* kDefaultTimeStepDur
    MaxComps,    \* bound: composition objects
    MaxMats,     \* bound: material objects
    MaxTime      \* bound: the last time step

ASSUME CompositionAssumption ==
    /\ IsFiniteSet(Recipes)
    /\ Noticeable \in [Recipes -> Nat \ {0}]
    /\ {Dt, DefaultDt, MaxComps, MaxMats, MaxTime} \subseteq Nat

VARIABLES
    comps,     \* the composition objects
    lines,     \* the decay lines: sets of <<time steps, composition>>
    next_id,   \* Composition::next_id_
    mats,      \* the material objects
    table,     \* the Compositions table: <<QualId, recipe, age>>
    now,       \* Context::time
    snap,      \* the last snapshot (NoSnap: none)
    restarted  \* this simulation is a restart

objects == <<comps, lines, next_id, mats>>
vars    == <<objects, table, now, snap, restarted>>

NoSnap == << >>

(***************************************************************************)
(* Of a composition: prev is prev_decay_, line its decay_line_.  Of a      *)
(* material: prev is prev_decay_time_, row what its last row says (QualId  *)
(* and PrevDecayTime).  History: off tells that the composition, or one it *)
(* was decayed from, was decayed by a call with another length of a time   *)
(* step than the simulation's; since and age are the value of prev, and    *)
(* the age of its composition, when the material was given one; stale that *)
(* this composition was off, or that the material was loaded with another  *)
(* decay time than it had.                                                 *)
(***************************************************************************)
Comp == [id : Nat, recipe : Recipes, age : Nat, prev : Nat, line : Nat,
         recorded : BOOLEAN, off : BOOLEAN]
Mat  == [comp : Nat, prev : Nat, ctx : BOOLEAN, row : [qual : Nat, prev : Nat],
         since : Nat, age : Nat, stale : BOOLEAN]

(***************************************************************************)
(* The operations are steps of one call, on the part of the state they     *)
(* change.                                                                 *)
(***************************************************************************)
World == [comps |-> comps, lines |-> lines, next |-> next_id, mats |-> mats,
          table |-> table]

Become(w) ==
    /\ Len(w.comps) <= MaxComps /\ Len(w.mats) <= MaxMats
    /\ comps' = w.comps /\ lines' = w.lines /\ next_id' = w.next
    /\ mats' = w.mats /\ table' = w.table

(***************************************************************************)
(* CreateFromAtom and CreateFromMass, for the k-th composition of a        *)
(* program: it has a decay line of its own.  The first ones are those of   *)
(* recipes and, in a restart, of materials, which are in the table.        *)
(***************************************************************************)
Create(k, id, recipe, age) ==
    [id |-> id, recipe |-> recipe, age |-> age, prev |-> 0, line |-> k,
     recorded |-> TRUE, off |-> FALSE]

\* NewDecay: the composition joins the decay line.
NewDecay(w, c, delta, secs) ==
    LET o == w.comps[c]
    IN  [w EXCEPT !.next = @ + 1,
                  !.comps = Append(@, [o EXCEPT !.id = w.next, !.age = @ + delta * secs,
                                                !.prev = @ + delta, !.recorded = FALSE,
                                                !.off = @ \/ secs # Dt])]

Cached(w, c, tot) == {e \in w.lines[w.comps[c].line] : e[1] = tot}

\* Mutant: the line is searched for the time since this composition.
DecayKeyDelta(w, c, delta, secs) ==
    LET hit == Cached(w, c, delta)
        w1  == NewDecay(w, c, delta, secs)
    IN  IF hit # {} THEN <<w, (CHOOSE e \in hit : TRUE)[2]>>
        ELSE <<[w1 EXCEPT !.lines[w.comps[c].line] = @ \cup {<<delta, Len(w1.comps)>>}],
               Len(w1.comps)>>

(***************************************************************************)
(* Decay of composition c by delta time steps: the world after it and the  *)
(* decayed composition, which the line may hold already.                   *)
(***************************************************************************)
Decay(w, c, delta, secs) ==
    LET tot == w.comps[c].prev + delta
        hit == Cached(w, c, tot)
        w1  == NewDecay(w, c, delta, secs)
    IN  IF hit # {} THEN <<w, (CHOOSE e \in hit : TRUE)[2]>>
        ELSE <<[w1 EXCEPT !.lines[w.comps[c].line] = @ \cup {<<tot, Len(w1.comps)>>}],
               Len(w1.comps)>>

\* Composition::Record
Record(w, c) ==
    LET o == w.comps[c]
    IN  IF o.recorded THEN w
        ELSE [w EXCEPT !.comps[c].recorded = TRUE,
                       !.table = @ \cup {<<o.id, o.recipe, o.age>>}]

\* ResTracker::Record with Material::Record, if the material is tracked.
RecordMat(w, m) ==
    LET o == w.mats[m]
    IN  IF ~ o.ctx THEN w
        ELSE Record([w EXCEPT !.mats[m].row = [qual |-> w.comps[o.comp].id, prev |-> o.prev]],
                    o.comp)

\* Material::Transmute: the row is written before prev_decay_time_ is updated.
Transmute(w, m, c) ==
    LET w1 == RecordMat([w EXCEPT !.mats[m].comp = c], m)
        o  == w1.mats[m]
    IN  IF o.ctx /\ now > o.prev THEN [w1 EXCEPT !.mats[m].prev = now] ELSE w1

\* Mutant: the decay time is noted after the call of Transmute.
DecayMatLate(w, m) ==
    LET o == w.mats[m]
        d == Decay(w, o.comp, now - o.prev, IF o.ctx THEN Dt ELSE DefaultDt)
    IN  IF now - o.prev < Noticeable[w.comps[o.comp].recipe] THEN w
        ELSE [Transmute(d[1], m, d[2]) EXCEPT !.mats[m].prev = now]

(***************************************************************************)
(* Material::Decay up to now.  Without a noticeable change the time is     *)
(* left to add up.                                                         *)
(***************************************************************************)
DecayMat(w, m) ==
    LET o == w.mats[m]
        d == Decay(w, o.comp, now - o.prev, IF o.ctx THEN Dt ELSE DefaultDt)
    IN  IF now - o.prev < Noticeable[w.comps[o.comp].recipe] THEN w
        ELSE Transmute([d[1] EXCEPT !.mats[m].prev = now], m, d[2])

\* The material has been given its composition (history).
Given(w, m) ==
    [w EXCEPT !.mats[m].since = w.mats[m].prev,
              !.mats[m].stale = w.comps[w.mats[m].comp].off,
              !.mats[m].age = w.comps[w.mats[m].comp].age]

\* The recipes, numbered as they are loaded.
RecipeOrder == SetToSeq(Recipes)

\* Context::AddRecipe of every recipe of the input.
AddRecipe(k) == Create(k, k, RecipeOrder[k], 0)

Init ==
    /\ comps = [k \in DOMAIN RecipeOrder |-> AddRecipe(k)]
    /\ lines = [k \in DOMAIN RecipeOrder |-> {}]
    /\ next_id = Len(RecipeOrder) + 1
    /\ table = {<<k, RecipeOrder[k], 0>> : k \in DOMAIN RecipeOrder}
    /\ mats = << >> /\ now = 0 /\ snap = NoSnap /\ restarted = FALSE
-----------------------------------------------------------------------------
(* The calls of the agents and of the timer. *)

\* The compositions at hand: those of recipes and of materials.
AtHand == 1..Cardinality(Recipes) \cup {mats[m].comp : m \in DOMAIN mats}

\* Material::Create and CreateUntracked
CreateMat(c, ctx) ==
    /\ LET m == Len(mats) + 1
           o == [comp |-> c, prev |-> IF ctx THEN now ELSE 0, ctx |-> ctx,
                 row |-> [qual |-> 0, prev |-> 0], since |-> 0, age |-> 0, stale |-> FALSE]
       IN  Become(Given(RecordMat([World EXCEPT !.mats = Append(@, o)], m), m))
    /\ UNCHANGED <<now, snap, restarted>>

\* Material::ExtractQty: the piece shares the composition and the decay time.
ExtractQty(m) ==
    /\ LET w == [World EXCEPT !.mats = Append(@, mats[m])]
       IN  Become(RecordMat(RecordMat(w, m), Len(w.mats)))
    /\ UNCHANGED <<now, snap, restarted>>

CallTransmute(m, c) ==
    /\ Become(Given(Transmute(World, m, c), m))
    /\ UNCHANGED <<now, snap, restarted>>

CallDecay(m) ==
    /\ Become(DecayMat(World, m))
    /\ mats' # mats
    /\ UNCHANGED <<now, snap, restarted>>

\* An agent decays a composition itself; the default duration is of a month.
DecayComp(c, delta, secs) ==
    /\ Become(Decay(World, c, delta, secs)[1])
    /\ comps' # comps
    /\ UNCHANGED <<now, snap, restarted>>

(***************************************************************************)
(* The next time step, at the start of which a snapshot may be taken: the  *)
(* rows of the materials in inventories and Composition's next id.  was is *)
(* history: what these materials were.                                     *)
(***************************************************************************)
Inventory ==
    LET tracked == SetToSeq({m \in DOMAIN mats : mats[m].ctx})
    IN  [k \in DOMAIN tracked |-> mats[tracked[k]]]

Snapshot ==
    [time |-> now + 1, next |-> next_id,
     rows |-> [k \in DOMAIN Inventory |-> Inventory[k].row],
     was |-> [k \in DOMAIN Inventory |->
                [Inventory[k] EXCEPT !.comp = <<comps[@].recipe, comps[@].age>>,
                                     !.stale = @ \/ comps[Inventory[k].comp].off]]]

Tick(take) ==
    /\ now < MaxTime
    /\ now' = now + 1
    /\ snap' = IF take THEN Snapshot ELSE snap
    /\ UNCHANGED <<objects, table, restarted>>

\* Mutant: the composition keeps the id it was created with.
LoadCompositionNewId(k, id) ==
    LET e == CHOOSE x \in table : x[1] = id
    IN  Create(k, next_id + k - 1, e[2], e[3])

\* SimInit::LoadComposition, of the k-th composition that is loaded.
LoadComposition(k, id) ==
    LET e == CHOOSE x \in table : x[1] = id
    IN  Create(k, id, e[2], e[3])

(***************************************************************************)
(* Restart at the snapshot in a new program: LoadRecipes, LoadInventories  *)
(* with LoadMaterial, and last LoadNextIds.  What the parent recorded of   *)
(* compositions created after the snapshot is not in this simulation.      *)
(***************************************************************************)
Restart ==
    /\ snap # NoSnap /\ ~ restarted
    /\ LET n   == Cardinality(Recipes)
           ids == [k \in 1..(n + Len(snap.rows)) |->
                     IF k <= n THEN comps[k].id ELSE snap.rows[k - n].qual]
       IN  /\ comps' = [k \in DOMAIN ids |-> LoadComposition(k, ids[k])]
           /\ lines' = [k \in DOMAIN ids |-> {}] /\ next_id' = snap.next
           /\ mats' = [k \in DOMAIN snap.rows |->
                         [comp |-> n + k, prev |-> snap.rows[k].prev, ctx |-> TRUE,
                          row |-> snap.rows[k], since |-> snap.was[k].since,
                          age |-> snap.was[k].age,
                          stale |-> snap.was[k].stale \/ snap.rows[k].prev # snap.was[k].prev]]
    /\ table' = {x \in table : x[1] < snap.next}
    /\ now' = snap.time /\ restarted' = TRUE
    /\ UNCHANGED snap

Next ==
    \/ \E c \in AtHand, ctx \in BOOLEAN : CreateMat(c, ctx)
    \/ \E m \in DOMAIN mats : ExtractQty(m) \/ CallDecay(m)
    \/ \E m \in DOMAIN mats, c \in AtHand : CallTransmute(m, c)
    \/ \E c \in AtHand, delta \in 0..1 : DecayComp(c, delta, DefaultDt)
    \/ \E take \in BOOLEAN : Tick(take)
    \/ Restart

Spec == Init /\ [][Next]_vars
-----------------------------------------------------------------------------
\* Types.
TypeOK ==
    /\ comps \in Seq(Comp) /\ mats \in Seq(Mat) /\ now \in 0..MaxTime
    /\ next_id \in Nat \ {0} /\ restarted \in BOOLEAN
    /\ \A m \in DOMAIN mats : mats[m].comp \in DOMAIN comps
    /\ \A c \in DOMAIN comps : comps[c].line \in DOMAIN lines
    /\ table \subseteq Nat \X Recipes \X Nat

(***************************************************************************)
(* The composition of every material is the one it was given, decayed for  *)
(* exactly the time between then and its previous decay time, whichever of *)
(* the materials, pieces and agents that share its decay line filled the   *)
(* line's cache, and before and after a restart (Composition::Decay).      *)
(* Excepted are a material loaded with another decay time than it had, and *)
(* one whose composition came from a call with another length of a time    *)
(* step: Decay(delta), and the decay of a material without a context, take *)
(* the default length, and as the cache is by time steps such a            *)
(* composition is also what a caller with the simulation's length is       *)
(* given, where composition.h says "using the seconds to timestep          *)
(* conversion specified".                                                  *)
(***************************************************************************)
DecayedOnce ==
    \A m \in DOMAIN mats : ~ mats[m].stale /\ ~ comps[mats[m].comp].off =>
        comps[mats[m].comp].age = mats[m].age + (mats[m].prev - mats[m].since) * Dt

(***************************************************************************)
(* A QualId means one composition: objects that have the same id are equal *)
(* in content, a row of the Compositions table is about the composition    *)
(* that has its id, and the composition every tracked material's row names *)
(* is in the table, in a restarted simulation too.                         *)
(***************************************************************************)
QualIdsMeanOne ==
    /\ \A c \in DOMAIN comps : comps[c].id < next_id
    /\ \A c, e \in DOMAIN comps : comps[c].id = comps[e].id =>
          comps[c].recipe = comps[e].recipe /\ comps[c].age = comps[e].age
    /\ \A c \in DOMAIN comps : \A x \in table : x[1] = comps[c].id =>
          x[2] = comps[c].recipe /\ x[3] = comps[c].age
    /\ \A m \in DOMAIN mats : mats[m].ctx =>
          /\ mats[m].row.qual = comps[mats[m].comp].id
          /\ \E x \in table : x[1] = mats[m].row.qual

(***************************************************************************)
(* A restart at the time of a snapshot gives every material the            *)
(* composition it had, and a decay time that is never later than the one   *)
(* it had: it is the same unless Transmute has moved it since it wrote the *)
(* row (LoadMaterial, LoadComposition).                                    *)
(***************************************************************************)
RestartFaithful ==
    [][restarted' # restarted =>
         \A k \in DOMAIN snap.was :
            LET c == comps'[mats'[k].comp]
            IN  /\ <<c.recipe, c.age>> = snap.was[k].comp
                /\ mats'[k].prev <= snap.was[k].prev
                /\ snap.was[k].prev > snap.rows[k].prev => snap.was[k].since = snap.was[k].prev
      ]_vars
=============================================================================
