-------------------------- MODULE SimRestartProofs --------------------------
(***************************************************************************)
(* Proofs that SimInit gives back what a snapshot was taken of, for every  *)
(* number of agents and calls and every duration.                          *)
(***************************************************************************)
EXTENDS SimRestart, FiniteSetTheorems, SequenceTheorems, WellFoundedInduction, TLAPS

-----------------------------------------------------------------------------
(***************************************************************************)
(* The queues and the tables their entries come from.  Rank counts the     *)
(* builds of time t among the first m rows.                                *)
(***************************************************************************)
BuildTable == Seq([parent : Nat, time : Times])
DecomTable == Seq([id : Nat, time : Times])

At(list, m, t)   == {k \in 1..m : list[k].time = t}
Rank(list, m, t) == Cardinality(At(list, m, t))
Known(p, S)      == IF p \in S THEN p ELSE None

\* s holds the builds of time t among the first n rows, parents outside S left out.
Listed(s, list, n, t, S) ==
    /\ Len(s) = Rank(list, n, t)
    /\ \A m \in At(list, n, t) : /\ Rank(list, m, t) \in 1..Len(s)
                                 /\ s[Rank(list, m, t)] = Known(list[m].parent, S)
    /\ \A j \in 1..Len(s) : \E m \in At(list, n, t) : Rank(list, m, t) = j

\* f holds the last row of every agent among the first n, of those not before s.
LastOf(f, list, n, s) ==
    /\ \A a \in DOMAIN f : \E k \in 1..n :
          /\ list[k].id = a /\ list[k].time >= s /\ f[a] = list[k].time
          /\ \A l \in (k + 1)..n : list[l].id = a => list[l].time < s
    /\ \A k \in 1..n : list[k].time >= s => list[k].id \in DOMAIN f

-----------------------------------------------------------------------------
(***************************************************************************)
(* The inductive invariant.                                                *)
(***************************************************************************)
Simulating == {"input", "begin", "events", "ended"}
Loading    == {"connect", "builds", "decoms", "ids", "loaded", "crashed"}

\* The simulation and its tables.
TableTypes ==
    /\ phase \in Simulating \cup Loading
    /\ time \in Times /\ nextId \in Nat /\ calls \in Nat
    /\ alive \in [DOMAIN alive -> Nat]
    /\ builds \in [Times -> Seq(Nat)] /\ decoms \in [DOMAIN decoms -> Times]
    /\ bsched \in BuildTable /\ dsched \in DecomTable
    /\ entry \subseteq [id : Nat, parent : Nat, enter : 0..time]
    /\ exits \subseteq [id : Nat, time : 0..(time - 1)]

\* p is the parent the row of agent a gives, where this is in S or there is none.
Parented(a, p, ent, S) == \E e \in ent : e.id = a /\ (e.parent \in S \cup {None} => p = e.parent)

\* The tables AgentEntry and AgentExit say who is alive, and who has a parent that is.
AgentsInv ==
    /\ \A e, f \in entry : e.id = f.id => e = f
    /\ \A e \in entry : e.id < nextId /\ e.parent < nextId
    /\ \A x \in exits : x.id < nextId
    /\ \A a \in DOMAIN alive : Parented(a, alive[a], entry, DOMAIN alive)
    /\ \A e \in entry : e.id \in DOMAIN alive <=> ~ \E x \in exits : x.id = e.id
    /\ phase # "events" => \A e \in entry : e.enter < time \/ time = 0
    /\ phase = "input" => time = 0 /\ snaps = Empty /\ nextIds = {}
    /\ phase = "events" => time < Duration

\* The tables BuildSchedule and DecomSchedule say what is planned.
PlansInv ==
    /\ builds[0] = << >>
    /\ \A t \in Times : t > time => Listed(builds[t], bsched, Len(bsched), t, Nat)
    /\ time = 0 => \A t \in Times : \A k \in DOMAIN builds[t] :
                      builds[t][k] \in DOMAIN alive \cup {None}
    /\ DOMAIN decoms \subseteq DOMAIN alive
    /\ \A a \in DOMAIN decoms :
          decoms[a] >= time /\ \E k \in DOMAIN dsched : dsched[k].id = a /\ dsched[k].time = decoms[a]
    /\ time = 0 => LastOf(decoms, dsched, Len(dsched), 0)

\* Who is loaded at s from tables of entries and exits.
Chosen(s, ent, ex) ==
    {e.id : e \in {e \in ent : /\ e.enter <= s /\ ~(s > 0 /\ e.enter = s)
                             /\ ~ \E x \in ex : x.id = e.id /\ x.time < s}}
Selected(s) == Chosen(s, entry, exits)

Now == [alive |-> alive, builds |-> builds, decoms |-> decoms, next |-> nextId]

\* What tables still say of a state r a snapshot was taken in at s.
KeptIn(s, r, ent, ex, bs, ds) ==
    /\ r.alive \in [Chosen(s, ent, ex) -> Nat] /\ r.builds \in [Times -> Seq(Nat)] /\ r.next \in Nat
    /\ \A a \in Chosen(s, ent, ex) : Parented(a, r.alive[a], ent, Chosen(s, ent, ex))
    /\ \A t \in Times : t > s => \E n \in 0..Len(bs) : Listed(r.builds[t], bs, n, t, Nat)
    /\ \A a \in DOMAIN r.decoms : \E k \in DOMAIN ds : ds[k].id = a /\ ds[k].time >= s
Kept(s, r) == KeptIn(s, r, entry, exits, bsched, dsched)

SnapsInv ==
    /\ \A s \in DOMAIN snaps : s \in 0..time /\ Kept(s, snaps[s]) /\ <<s, snaps[s].next>> \in nextIds
    /\ \A n \in nextIds : n[1] \in DOMAIN snaps /\ n[2] = snaps[n[1]].next
    /\ time > 0 /\ phase = "begin" => time \notin DOMAIN snaps
    /\ time = 0 /\ phase \notin {"input", "events"} => 0 \in DOMAIN snaps /\ snaps[0] = Now

\* SimInit.
LoadTypes ==
    /\ row \in Nat /\ loaded.builds \in [Times -> Seq(Nat)]
    /\ loaded.decoms \in [DOMAIN loaded.decoms -> Times]
    /\ loaded = [builds |-> loaded.builds, decoms |-> loaded.decoms, next |-> loaded.next]
    /\ agents \in [DOMAIN agents -> Nat]

Fresh == row = 1 /\ loaded = [builds |-> NoBuilds, decoms |-> Empty, next |-> 0]

BuildsTo(n) ==
    \A t \in Times : /\ t > from => Listed(loaded.builds[t], bsched, n, t, DOMAIN agents)
                     /\ ~(t > from) => loaded.builds[t] = << >>

\* The agent is loaded with the parent of its row, which is loaded too.
Connected(i) ==
    \E e \in entry : /\ e.id = i /\ e.parent = agents[i]
                     /\ e.parent \in DOMAIN agents \cup {None}

LoadInv ==
    /\ phase \in Simulating => Fresh /\ agents = Empty /\ from = 0 /\ unbuilt = {} /\ it = 0
    /\ phase \in Loading =>
         /\ from \in DOMAIN snaps
         /\ unbuilt \cup DOMAIN agents = Selected(from)
         /\ \A i \in DOMAIN agents : Connected(i)
    /\ phase = "connect" => Fresh /\ it \in unbuilt
    /\ phase \in Loading \ {"connect"} => unbuilt = {} /\ it = 0
    /\ phase = "builds" => row \in 1..(Len(bsched) + 1) /\ BuildsTo(row - 1) /\ loaded.decoms = Empty
    /\ phase \in {"decoms", "ids", "loaded"} => BuildsTo(Len(bsched))
    /\ phase = "decoms" =>
         row \in 1..(Len(dsched) + 1) /\ LastOf(loaded.decoms, dsched, row - 1, from)
    /\ phase \in {"ids", "loaded"} => LastOf(loaded.decoms, dsched, Len(dsched), from)
    /\ phase = "loaded" => loaded.next = snaps[from].next

RestartInv == TableTypes /\ AgentsInv /\ PlansInv /\ SnapsInv /\ LoadTypes /\ LoadInv

-----------------------------------------------------------------------------
(***************************************************************************)
(* Lemmas about rows and queues.                                           *)
(***************************************************************************)
\* A set of numbers that is not empty has a least one, where map::begin points.
LEMMA Least ==
    ASSUME NEW S, S \subseteq Nat, S # {}
    PROVE  Min(S) \in S
<1>1. PICK x \in S : \A y \in S : <<y, x>> \notin OpToRel(<, Nat)
  BY NatLessThanWellFounded, WFMin
<1>2. x \in Nat /\ \A y \in S : y \in Nat /\ ~(y < x)
  BY <1>1 DEF OpToRel
<1>3. \A y \in S : x =< y
  BY <1>2
<1> QED
  BY <1>3 DEF Min

\* Counting the builds of t: one row more.
LEMMA RankStep ==
    ASSUME NEW list, NEW m \in Nat, NEW t
    PROVE  /\ IsFiniteSet(At(list, m, t)) /\ Rank(list, m, t) \in Nat
           /\ list[m + 1].time = t => /\ At(list, m + 1, t) = At(list, m, t) \cup {m + 1}
                                      /\ Rank(list, m + 1, t) = Rank(list, m, t) + 1
           /\ list[m + 1].time # t => At(list, m + 1, t) = At(list, m, t)
<1>1. IsFiniteSet(1..m) /\ At(list, m, t) \subseteq 1..m
  BY FS_Interval DEF At
<1>2. IsFiniteSet(At(list, m, t))
  BY <1>1, FS_Subset
<1>3. Rank(list, m, t) \in Nat
  BY <1>2, FS_CardinalityType DEF Rank
<1>4. 1..(m + 1) = 1..m \cup {m + 1} /\ m + 1 \notin 1..m
  OBVIOUS
<1>5. /\ list[m + 1].time = t => At(list, m + 1, t) = At(list, m, t) \cup {m + 1}
      /\ list[m + 1].time # t => At(list, m + 1, t) = At(list, m, t)
  BY <1>4 DEF At
<1>6. m + 1 \notin At(list, m, t)
  BY <1>1, <1>4
<1>7. Cardinality(At(list, m, t) \cup {m + 1}) = Cardinality(At(list, m, t)) + 1
  BY <1>2, <1>6, FS_AddElement
<1> QED
  BY <1>2, <1>3, <1>5, <1>6, <1>7 DEF Rank

\* No rows, no builds.
LEMMA ListedNone ==
    ASSUME NEW list, NEW t, NEW S
    PROVE  Listed(<< >>, list, 0, t, S)
<1>1. At(list, 0, t) = {}
  BY DEF At
<1> QED
  BY <1>1, FS_EmptySet DEF Listed, Rank

\* The next row is put at the end of its queue.
LEMMA ListedNext ==
    ASSUME NEW s \in Seq(Nat), NEW list, NEW n \in Nat, NEW t, NEW S, NEW r \in Seq(Nat),
           Listed(s, list, n, t, S), Known(list[n + 1].parent, S) \in Nat,
           r = IF list[n + 1].time = t THEN Append(s, Known(list[n + 1].parent, S)) ELSE s
    PROVE  Listed(r, list, n + 1, t, S)
<1>1. /\ Rank(list, n, t) \in Nat
      /\ list[n + 1].time = t => /\ At(list, n + 1, t) = At(list, n, t) \cup {n + 1}
                                 /\ Rank(list, n + 1, t) = Rank(list, n, t) + 1
      /\ list[n + 1].time # t => At(list, n + 1, t) = At(list, n, t)
  BY RankStep
<1>2. CASE list[n + 1].time # t
  BY <1>1, <1>2 DEF Listed, Rank
<1>3. CASE list[n + 1].time = t
  <2>1. /\ Len(s) = Rank(list, n, t) /\ Len(s) \in Nat
        /\ \A m \in At(list, n, t) : /\ Rank(list, m, t) \in 1..Len(s)
                                     /\ s[Rank(list, m, t)] = Known(list[m].parent, S)
        /\ \A j \in 1..Len(s) : \E m \in At(list, n, t) : Rank(list, m, t) = j
    BY DEF Listed
  <2>2. /\ Len(r) = Len(s) + 1 /\ r[Len(s) + 1] = Known(list[n + 1].parent, S)
        /\ \A j \in 1..Len(s) : r[j] = s[j]
    BY <1>3
  <2>3. Len(r) = Rank(list, n + 1, t)
    BY <1>1, <1>3, <2>1, <2>2
  <2>4. ASSUME NEW m \in At(list, n + 1, t)
        PROVE  Rank(list, m, t) \in 1..Len(r) /\ r[Rank(list, m, t)] = Known(list[m].parent, S)
    <3>1. CASE m = n + 1
      BY <2>1, <2>2, <2>3, <3>1
    <3>2. CASE m \in At(list, n, t)
      BY <2>1, <2>2, <3>2
    <3> QED
      BY <1>1, <1>3, <3>1, <3>2
  <2>5. ASSUME NEW j \in 1..Len(r)
        PROVE  \E m \in At(list, n + 1, t) : Rank(list, m, t) = j
    <3>1. CASE j = Len(s) + 1
      BY <1>1, <1>3, <2>2, <2>3, <3>1
    <3>2. CASE j \in 1..Len(s)
      BY <1>1, <1>3, <2>1, <3>2
    <3> QED
      BY <2>1, <2>2, <3>1, <3>2
  <2> QED
    BY <2>3, <2>4, <2>5 DEF Listed
<1> QED
  BY <1>2, <1>3

\* Rows that are written later do not matter.
LEMMA ListedKept ==
    ASSUME NEW s, NEW list, NEW long, NEW n \in Nat, NEW t, NEW S,
           \A k \in 1..n : long[k] = list[k]
    PROVE  Listed(s, long, n, t, S) <=> Listed(s, list, n, t, S)
<1>1. \A m \in 0..n : At(long, m, t) = At(list, m, t)
  BY DEF At
<1>2. \A m \in 0..n : Rank(long, m, t) = Rank(list, m, t)
  BY <1>1 DEF Rank
<1>3. \A m \in At(list, n, t) : m \in 0..n /\ m \in 1..n
  BY DEF At
<1>4. At(long, n, t) = At(list, n, t) /\ Rank(long, n, t) = Rank(list, n, t)
  BY <1>1, <1>2
<1>5. \A m \in At(list, n, t) : Rank(long, m, t) = Rank(list, m, t) /\ long[m] = list[m]
  BY <1>2, <1>3
<1> QED
  BY <1>4, <1>5 DEF Listed

\* What more rows say begins with what fewer say.
LEMMA ListedPrefix ==
    ASSUME NEW s, NEW r, NEW list, NEW n \in Nat, NEW m \in Nat, n <= m, NEW t, NEW S,
           Listed(s, list, n, t, Nat), Listed(r, list, m, t, S),
           \A k \in 1..n : list[k].parent \in Nat
    PROVE  \A k \in 1..Len(s) : k \in 1..Len(r) /\ r[k] = Known(s[k], S)
<1> TAKE k \in 1..Len(s)
<1>1. PICK i \in At(list, n, t) : Rank(list, i, t) = k
  BY DEF Listed
<1>2. i \in At(list, m, t) /\ i \in 1..n
  BY DEF At
<1>3. s[k] = list[i].parent
  BY <1>1, <1>2 DEF Listed, Known
<1>4. k \in 1..Len(r) /\ r[k] = Known(list[i].parent, S)
  BY <1>1, <1>2 DEF Listed
<1> QED
  BY <1>3, <1>4

\* The last rows of agents: one row more.
LEMMA LastOfNext ==
    ASSUME NEW f, NEW g, NEW list, NEW n \in Nat, NEW s \in Nat, f \in [DOMAIN f -> Nat],
           \A k \in 1..(n + 1) : list[k].time \in Nat, LastOf(f, list, n, s),
           g = IF list[n + 1].time >= s THEN With(f, list[n + 1].id, list[n + 1].time) ELSE f
    PROVE  LastOf(g, list, n + 1, s)
<1>1. /\ \A a \in DOMAIN f : \E k \in 1..n :
            /\ list[k].id = a /\ list[k].time >= s /\ f[a] = list[k].time
            /\ \A l \in (k + 1)..n : list[l].id = a => list[l].time < s
      /\ \A k \in 1..n : list[k].time >= s => list[k].id \in DOMAIN f
  BY DEF LastOf
<1>2. list[n + 1].time \in Nat
  OBVIOUS
<1>3. /\ \A a \in DOMAIN g : a \in DOMAIN f \/ (list[n + 1].time >= s /\ a = list[n + 1].id)
      /\ list[n + 1].time >= s => list[n + 1].id \in DOMAIN g /\ g[list[n + 1].id] = list[n + 1].time
      /\ DOMAIN f \subseteq DOMAIN g
      /\ \A a \in DOMAIN f : ~(list[n + 1].time >= s /\ a = list[n + 1].id) => g[a] = f[a]
  BY <1>2 DEF With
<1>4. ASSUME NEW a \in DOMAIN g
      PROVE  \E k \in 1..(n + 1) :
               /\ list[k].id = a /\ list[k].time >= s /\ g[a] = list[k].time
               /\ \A l \in (k + 1)..(n + 1) : list[l].id = a => list[l].time < s
  <2>1. CASE list[n + 1].time >= s /\ a = list[n + 1].id
    <3>1. n + 1 \in 1..(n + 1) /\ ((n + 1) + 1)..(n + 1) = {}
      OBVIOUS
    <3> QED
      BY <1>3, <2>1, <3>1
  <2>2. CASE ~(list[n + 1].time >= s /\ a = list[n + 1].id)
    <3>1. PICK k \in 1..n :
            /\ list[k].id = a /\ list[k].time >= s /\ f[a] = list[k].time
            /\ \A l \in (k + 1)..n : list[l].id = a => list[l].time < s
      BY <1>1, <1>3, <2>2
    <3>2. g[a] = f[a]
      BY <1>3, <2>2
    <3>3. ASSUME NEW l \in (k + 1)..(n + 1), list[l].id = a
          PROVE  list[l].time < s
      BY <1>2, <2>2, <3>1, <3>3
    <3> QED
      BY <3>1, <3>2, <3>3
  <2> QED
    BY <2>1, <2>2
<1>5. ASSUME NEW k \in 1..(n + 1), list[k].time >= s
      PROVE  list[k].id \in DOMAIN g
  <2>1. CASE k = n + 1
    BY <1>3, <1>5, <2>1
  <2>2. CASE k \in 1..n
    BY <1>1, <1>3, <1>5, <2>2
  <2> QED
    BY <2>1, <2>2
<1> QED
  BY <1>4, <1>5 DEF LastOf

\* Rows that are written later do not matter.
LEMMA LastOfKept ==
    ASSUME NEW f, NEW list, NEW long, NEW n \in Nat, NEW s, \A k \in 1..n : long[k] = list[k]
    PROVE  LastOf(f, long, n, s) <=> LastOf(f, list, n, s)
<1>1. \A k \in 1..n : \A l \in (k + 1)..n : l \in 1..n
  OBVIOUS
<1>2. LastOf(f, long, n, s) => LastOf(f, list, n, s)
  BY <1>1 DEF LastOf
<1>3. LastOf(f, list, n, s) => LastOf(f, long, n, s)
  BY <1>1 DEF LastOf
<1> QED
  BY <1>2, <1>3

\* There is one last row.
LEMMA LastOfEqual ==
    ASSUME NEW f, NEW g, NEW T, NEW list, NEW n \in Nat, NEW s \in Nat, f \in [DOMAIN f -> T],
           g \in [DOMAIN g -> T], \A k \in 1..n : list[k].time \in Nat,
           LastOf(f, list, n, s), LastOf(g, list, n, s)
    PROVE  f = g
<1>1. DOMAIN f = DOMAIN g
  BY DEF LastOf
<1>2. ASSUME NEW a \in DOMAIN f
      PROVE  f[a] = g[a]
  <2>1. PICK k \in 1..n : /\ list[k].id = a /\ list[k].time >= s /\ f[a] = list[k].time
                          /\ \A l \in (k + 1)..n : list[l].id = a => list[l].time < s
    BY DEF LastOf
  <2>2. PICK m \in 1..n : /\ list[m].id = a /\ list[m].time >= s /\ g[a] = list[m].time
                          /\ \A l \in (m + 1)..n : list[l].id = a => list[l].time < s
    BY <1>1 DEF LastOf
  <2>3. ~(k < m) /\ ~(m < k)
    BY <2>1, <2>2
  <2> QED
    BY <2>1, <2>2, <2>3
<1> QED
  BY <1>1, <1>2

-----------------------------------------------------------------------------
(***************************************************************************)
(* What was true of a snapshot stays true: whoever enters or exits later   *)
(* does so at a time the conditions of LoadInitialAgents leave out.        *)
(***************************************************************************)
LEMMA ChosenKept ==
    ASSUME NEW s \in Nat, NEW ent, NEW ex, NEW ent2, NEW ex2, ent \subseteq ent2, ex \subseteq ex2,
           \A e \in ent2 : e.enter \in Nat, \A x \in ex2 : x.time \in Nat,
           \A e \in ent2 : e \in ent \/ (e.enter >= s /\ (s > 0 \/ e.enter > 0)),
           \A x \in ex2 : x \in ex \/ x.time >= s
    PROVE  Chosen(s, ent2, ex2) = Chosen(s, ent, ex)
<1> DEFINE in(e) == /\ e.enter <= s /\ ~(s > 0 /\ e.enter = s)
                    /\ ~ \E x \in ex : x.id = e.id /\ x.time < s
           now(e) == /\ e.enter <= s /\ ~(s > 0 /\ e.enter = s)
                     /\ ~ \E x \in ex2 : x.id = e.id /\ x.time < s
<1>1. \A e \in ent2 : now(e) <=> in(e)
  OBVIOUS
<1>2. \A e \in ent2 : in(e) => e \in ent
  OBVIOUS
<1>3. {e \in ent2 : now(e)} = {e \in ent : in(e)}
  BY <1>1, <1>2
<1> QED
  BY <1>3 DEF Chosen

\* One table begins with another.
Extends(long, list) == Len(list) <= Len(long) /\ \A k \in 1..Len(list) : long[k] = list[k]

\* Later rows do not change what the tables say of a snapshot.
LEMMA KeptLater ==
    ASSUME NEW s \in Nat, NEW r, NEW ent, NEW ex, NEW ent2, NEW ex2,
           NEW bs \in BuildTable, NEW bs2 \in BuildTable,
           NEW ds \in DecomTable, NEW ds2 \in DecomTable,
           KeptIn(s, r, ent, ex, bs, ds), Chosen(s, ent2, ex2) = Chosen(s, ent, ex),
           ent \subseteq ent2, Extends(bs2, bs), Extends(ds2, ds)
    PROVE  KeptIn(s, r, ent2, ex2, bs2, ds2)
<1>0. /\ Len(bs) \in Nat /\ Len(bs2) \in Nat /\ Len(ds) \in Nat /\ Len(ds2) \in Nat
      /\ DOMAIN ds = 1..Len(ds) /\ DOMAIN ds2 = 1..Len(ds2)
  BY DEF BuildTable, DecomTable
<1>1. \A a \in Chosen(s, ent2, ex2) : Parented(a, r.alive[a], ent2, Chosen(s, ent2, ex2))
  <2> TAKE a \in Chosen(s, ent2, ex2)
  <2>1. Parented(a, r.alive[a], ent, Chosen(s, ent2, ex2))
    BY DEF KeptIn
  <2> QED
    BY <2>1 DEF Parented
<1>2. ASSUME NEW t \in Times, t > s
      PROVE  \E n \in 0..Len(bs2) : Listed(r.builds[t], bs2, n, t, Nat)
  <2>1. PICK n \in 0..Len(bs) : Listed(r.builds[t], bs, n, t, Nat)
    BY <1>2 DEF KeptIn
  <2>2. n \in Nat /\ \A k \in 1..n : bs2[k] = bs[k]
    BY <1>0 DEF Extends
  <2>3. Listed(r.builds[t], bs2, n, t, Nat)
    BY <2>1, <2>2, ListedKept
  <2> QED
    BY <1>0, <2>3 DEF Extends
<1>3. \A a \in DOMAIN r.decoms : \E k \in DOMAIN ds2 : ds2[k].id = a /\ ds2[k].time >= s
  <2> TAKE a \in DOMAIN r.decoms
  <2>1. PICK k \in DOMAIN ds : ds[k].id = a /\ ds[k].time >= s
    BY DEF KeptIn
  <2>2. k \in DOMAIN ds2 /\ ds2[k] = ds[k]
    BY <1>0 DEF Extends
  <2> QED
    BY <2>1, <2>2
<1>4. /\ r.alive \in [Chosen(s, ent2, ex2) -> Nat] /\ r.builds \in [Times -> Seq(Nat)]
      /\ r.next \in Nat
  BY DEF KeptIn
<1> QED
  BY <1>1, <1>2, <1>3, <1>4 DEF KeptIn

\* The tables' types, and the numbers in them.
LEMMA TableNumbers ==
    ASSUME TableTypes, AgentsInv
    PROVE  /\ Duration \in Nat /\ time \in Nat /\ Times \subseteq Nat /\ Times = 0..Duration
           /\ Len(bsched) \in Nat /\ DOMAIN bsched = 1..Len(bsched)
           /\ Len(dsched) \in Nat /\ DOMAIN dsched = 1..Len(dsched)
           /\ \A k \in 1..Len(bsched) : bsched[k] \in [parent : Nat, time : Times]
           /\ \A k \in 1..Len(dsched) : dsched[k] \in [id : Nat, time : Times]
           /\ \A e \in entry : e.id \in Nat /\ e.parent \in Nat /\ e.enter \in Nat /\ e.enter <= time
           /\ \A x \in exits : x.id \in Nat /\ x.time \in Nat /\ x.time < time
           /\ DOMAIN alive \subseteq Nat
<1>1. Duration \in Nat /\ time \in Nat /\ Times \subseteq Nat /\ Times = 0..Duration
  BY SimRestartAssumption DEF TableTypes, Times
<1>2. bsched \in Seq([parent : Nat, time : Times]) /\ dsched \in Seq([id : Nat, time : Times])
  BY DEF TableTypes, BuildTable, DecomTable
<1>3. /\ Len(bsched) \in Nat /\ DOMAIN bsched = 1..Len(bsched)
      /\ \A k \in 1..Len(bsched) : bsched[k] \in [parent : Nat, time : Times]
  <2> DEFINE R == [parent : Nat, time : Times]
  <2>1. bsched \in Seq(R)
    BY <1>2
  <2> HIDE DEF R
  <2>2. Len(bsched) \in Nat /\ DOMAIN bsched = 1..Len(bsched) /\ \A k \in 1..Len(bsched) : bsched[k] \in R
    BY <2>1
  <2> QED
    BY <2>2 DEF R
<1>4. /\ Len(dsched) \in Nat /\ DOMAIN dsched = 1..Len(dsched)
      /\ \A k \in 1..Len(dsched) : dsched[k] \in [id : Nat, time : Times]
  <2> DEFINE R == [id : Nat, time : Times]
  <2>1. dsched \in Seq(R)
    BY <1>2
  <2> HIDE DEF R
  <2>2. Len(dsched) \in Nat /\ DOMAIN dsched = 1..Len(dsched) /\ \A k \in 1..Len(dsched) : dsched[k] \in R
    BY <2>1
  <2> QED
    BY <2>2 DEF R
<1>5. /\ \A e \in entry : e.id \in Nat /\ e.parent \in Nat /\ e.enter \in Nat /\ e.enter <= time
      /\ \A x \in exits : x.id \in Nat /\ x.time \in Nat /\ x.time < time
  BY <1>1 DEF TableTypes
<1>6. DOMAIN alive \subseteq Nat
  BY <1>5 DEF AgentsInv, Parented
<1> QED
  BY <1>1, <1>3, <1>4, <1>5, <1>6

\* Between time steps the tables select the agents that are alive.
LEMMA SelectedNow ==
    ASSUME TableTypes, AgentsInv, phase # "events"
    PROVE  Selected(time) = DOMAIN alive
<1>1. /\ time \in Nat /\ \A e \in entry : e.enter \in Nat /\ e.enter <= time
      /\ \A x \in exits : x.time \in Nat /\ x.time < time
  BY TableNumbers
<1> DEFINE in(e) == /\ e.enter <= time /\ ~(time > 0 /\ e.enter = time)
                    /\ ~ \E x \in exits : x.id = e.id /\ x.time < time
<1>2. ASSUME NEW e \in entry
      PROVE  in(e) <=> e.id \in DOMAIN alive
  BY <1>1 DEF AgentsInv
<1>3. \A a \in DOMAIN alive : \E e \in entry : e.id = a
  BY DEF AgentsInv, Parented
<1>4. Selected(time) = {e.id : e \in {e \in entry : in(e)}}
  BY DEF Selected, Chosen
<1> HIDE DEF in
<1> QED
  BY <1>2, <1>3, <1>4

\* So a snapshot taken now is what the tables say.
LEMMA KeptNow ==
    ASSUME TableTypes, AgentsInv, PlansInv, phase # "events"
    PROVE  Kept(time, Now)
<1>1. Chosen(time, entry, exits) = DOMAIN alive
  BY SelectedNow DEF Selected
<1>2. Now.alive = alive /\ Now.builds = builds /\ Now.decoms = decoms /\ Now.next = nextId
  BY DEF Now
<1>3. \A t \in Times : t > time => \E n \in 0..Len(bsched) : Listed(builds[t], bsched, n, t, Nat)
  <2>1. Len(bsched) \in 0..Len(bsched)
    BY TableNumbers
  <2> QED
    BY <2>1 DEF PlansInv
<1>4. \A a \in DOMAIN decoms : \E k \in DOMAIN dsched : dsched[k].id = a /\ dsched[k].time >= time
  BY DEF PlansInv
<1>5. alive \in [DOMAIN alive -> Nat] /\ builds \in [Times -> Seq(Nat)] /\ nextId \in Nat
  BY DEF TableTypes
<1>6. \A a \in DOMAIN alive : Parented(a, alive[a], entry, DOMAIN alive)
  BY DEF AgentsInv
<1> HIDE DEF Now
<1> QED
  BY <1>1, <1>2, <1>3, <1>4, <1>5, <1>6 DEF Kept, KeptIn

-----------------------------------------------------------------------------
(***************************************************************************)
(* The steps of the simulation.                                            *)
(***************************************************************************)
\* SimInit has not begun.
LEMMA SimKeepsLoad ==
    ASSUME LoadTypes, LoadInv, phase \in Simulating, phase' \in Simulating, init' = init
    PROVE  LoadTypes' /\ LoadInv'
<1>1. row' = row /\ loaded' = loaded /\ agents' = agents /\ from' = from /\ unbuilt' = unbuilt /\ it' = it
  BY DEF init
<1> QED
  BY <1>1 DEF LoadTypes, LoadInv, Fresh, Simulating, Loading

\* The rows a step of the simulation adds to the tables.
Grows ==
    /\ entry \subseteq entry' /\ exits \subseteq exits'
    /\ bsched' \in BuildTable /\ dsched' \in DecomTable
    /\ Extends(bsched', bsched) /\ Extends(dsched', dsched)
    /\ \A e \in entry' : e.enter \in Nat /\ (e \in entry \/ (e.enter = time /\ time > 0))
    /\ \A x \in exits' : x.time \in Nat /\ (x \in exits \/ x.time = time)

\* They leave what is known of a snapshot as it is.
LEMMA GrowsKeeps ==
    ASSUME TableTypes, AgentsInv, Grows, NEW s \in 0..time, NEW r, Kept(s, r)
    PROVE  KeptIn(s, r, entry', exits', bsched', dsched')
<1>1. time \in Nat /\ s \in Nat /\ s <= time
  BY TableNumbers
<1>2. /\ \A e \in entry' : e \in entry \/ (e.enter >= s /\ (s > 0 \/ e.enter > 0))
      /\ \A x \in exits' : x \in exits \/ x.time >= s
  BY <1>1 DEF Grows
<1>3. Chosen(s, entry', exits') = Chosen(s, entry, exits)
  BY <1>1, <1>2, ChosenKept DEF Grows
<1>4. bsched \in BuildTable /\ dsched \in DecomTable
  BY DEF TableTypes
<1> QED
  BY <1>1, <1>3, <1>4, KeptLater DEF Grows, Kept

\* Steps without a snapshot.
LEMMA SnapsSame ==
    ASSUME TableTypes, AgentsInv, SnapsInv, Grows, snaps' = snaps, nextIds' = nextIds,
           time' \in Nat, time' >= time, phase' = "begin" => time' > time, phase' \in Simulating \ {"ended"}
    PROVE  SnapsInv'
<1>0. time \in Nat /\ \A s \in DOMAIN snaps : s \in 0..time /\ Kept(s, snaps[s])
  <2>1. time \in Nat
    BY TableNumbers
  <2> QED
    BY <2>1 DEF SnapsInv
<1>1. ASSUME NEW s \in DOMAIN snaps
      PROVE  s \in 0..time' /\ KeptIn(s, snaps[s], entry', exits', bsched', dsched')
  <2>1. s \in 0..time'
    BY <1>0
  <2>2. KeptIn(s, snaps[s], entry', exits', bsched', dsched')
    BY <1>0, GrowsKeeps
  <2> QED
    BY <2>1, <2>2
<1>2. time' > time => time' \notin DOMAIN snaps
  BY <1>0
<1>3. phase' = "begin" => time' # 0
  BY TableNumbers
<1>4. phase' \in {"input", "events", "begin"}
  BY DEF Simulating
<1>5. \A n \in nextIds : n[1] \in DOMAIN snaps /\ n[2] = snaps[n[1]].next
  BY DEF SnapsInv
<1>6. \A s \in DOMAIN snaps : <<s, snaps[s].next>> \in nextIds
  BY DEF SnapsInv
<1> QED
  BY <1>1, <1>2, <1>3, <1>4, <1>5, <1>6 DEF SnapsInv, Kept

\* The state a snapshot is taken in enters the history, and its time NextIds.
LEMMA SnapsTaken ==
    ASSUME TableTypes, AgentsInv, PlansInv, SnapsInv, Grows, Snapshot, phase \in {"input", "begin"},
           time' = time, phase' \in {"begin", "events", "ended"}, phase' = "begin" => time = 0,
           phase' # "events" => Now' = Now
    PROVE  SnapsInv'
<1>1. snaps' = With(snaps, time, Now) /\ nextIds' = nextIds \cup {<<time, nextId>>} /\ Now.next = nextId
  BY DEF Snapshot, Now
<1>2. /\ DOMAIN snaps' = DOMAIN snaps \cup {time} /\ snaps'[time] = Now
      /\ \A s \in DOMAIN snaps : s # time => snaps'[s] = snaps[s]
  BY <1>1 DEF With
<1>3. phase = "begin" /\ time \in DOMAIN snaps => snaps[time] = Now
  BY TableNumbers DEF SnapsInv
<1>4. time \in 0..time
  BY TableNumbers
<1>5. Kept(time, Now)
  BY KeptNow
<1>6. ASSUME NEW s \in DOMAIN snaps'
      PROVE  /\ s \in 0..time /\ KeptIn(s, snaps'[s], entry', exits', bsched', dsched')
             /\ <<s, snaps'[s].next>> \in nextIds'
  <2>1. CASE s = time
    <3>1. KeptIn(s, Now, entry', exits', bsched', dsched')
      BY <1>4, <1>5, <2>1, GrowsKeeps
    <3> QED
      BY <1>1, <1>2, <1>4, <2>1, <3>1
  <2>2. CASE s # time
    <3>1. s \in DOMAIN snaps /\ snaps'[s] = snaps[s]
      BY <1>2, <2>2
    <3>2. s \in 0..time /\ Kept(s, snaps[s]) /\ <<s, snaps[s].next>> \in nextIds
      BY <3>1 DEF SnapsInv
    <3>3. KeptIn(s, snaps[s], entry', exits', bsched', dsched')
      BY <3>2, GrowsKeeps
    <3> QED
      BY <1>1, <3>1, <3>2, <3>3
  <2> QED
    BY <2>1, <2>2
<1>7. ASSUME NEW n \in nextIds'
      PROVE  n[1] \in DOMAIN snaps' /\ n[2] = snaps'[n[1]].next
  <2>1. CASE n = <<time, nextId>>
    BY <1>1, <1>2, <2>1
  <2>2. CASE n \in nextIds
    <3>1. n[1] \in DOMAIN snaps /\ n[2] = snaps[n[1]].next /\ phase = "begin"
      BY <2>2 DEF SnapsInv, AgentsInv
    <3> QED
      BY <1>2, <1>3, <3>1
  <2> QED
    BY <1>1, <2>1, <2>2
<1>8. time > 0 => phase' # "begin"
  BY TableNumbers
<1>9. time = 0 /\ phase' # "events" => 0 \in DOMAIN snaps' /\ snaps'[0] = Now'
  BY <1>2
<1> HIDE DEF Now
<1> QED
  BY <1>6, <1>7, <1>8, <1>9 DEF SnapsInv, Kept

SimInv == TableTypes /\ AgentsInv /\ PlansInv /\ SnapsInv

\* One row more at the end of a table.
LEMMA ExtendsAppend ==
    ASSUME NEW T, NEW list \in Seq(T), NEW r \in T
    PROVE  /\ Append(list, r) \in Seq(T) /\ Extends(Append(list, r), list)
           /\ Extends(list, list) /\ Len(Append(list, r)) = Len(list) + 1
           /\ Append(list, r)[Len(list) + 1] = r /\ Len(list) \in Nat
           /\ \A k \in 1..Len(list) : Append(list, r)[k] = list[k]
  BY DEF Extends

\* Context::SchedBuild
LEMMA SchedBuildKeeps ==
    ASSUME SimInv, SchedBuild
    PROVE  SimInv'
<1>0. TableTypes /\ AgentsInv /\ PlansInv /\ SnapsInv
  BY DEF SimInv
<1>1. PICK p \in DOMAIN alive \cup {None}, t \in (time + 1)..Duration :
         /\ builds' = [builds EXCEPT ![t] = Append(builds[t], p)]
         /\ bsched' = Append(bsched, [parent |-> p, time |-> t])
  BY DEF SchedBuild
<1>2. /\ phase' = phase /\ time' = time /\ alive' = alive /\ decoms' = decoms /\ nextId' = nextId
      /\ entry' = entry /\ exits' = exits /\ dsched' = dsched /\ nextIds' = nextIds /\ snaps' = snaps
      /\ phase \in {"input", "events"} /\ calls' = calls + 1
  BY DEF SchedBuild, MayCall
<1>3. p \in Nat /\ t \in Times /\ t > time /\ t > 0 /\ time \in Nat /\ Len(bsched) \in Nat
  BY <1>0, <1>1, TableNumbers DEF None
<1> DEFINE b == [parent |-> p, time |-> t]
<1>4. b \in [parent : Nat, time : Times] /\ b.parent = p /\ b.time = t
  BY <1>3
<1>5. /\ bsched' \in BuildTable /\ Extends(bsched', bsched) /\ Len(bsched') = Len(bsched) + 1
      /\ bsched'[Len(bsched) + 1] = b /\ \A k \in 1..Len(bsched) : bsched'[k] = bsched[k]
  <2> DEFINE R == [parent : Nat, time : Times]
  <2>1. bsched \in Seq(R)  /\ BuildTable = Seq(R)
    BY <1>0 DEF TableTypes, BuildTable
  <2>2. b \in R /\ bsched' = Append(bsched, b)
    BY <1>1, <1>4
  <2> HIDE DEF b, R
  <2>3. /\ Append(bsched, b) \in Seq(R) /\ Extends(Append(bsched, b), bsched)
        /\ Len(Append(bsched, b)) = Len(bsched) + 1 /\ Append(bsched, b)[Len(bsched) + 1] = b
        /\ \A k \in 1..Len(bsched) : Append(bsched, b)[k] = bsched[k]
    BY <2>1, <2>2, ExtendsAppend
  <2> QED
    BY <2>1, <2>2, <2>3
<1>6. dsched \in DecomTable /\ Extends(dsched, dsched)
  <2>1. dsched \in DecomTable /\ Len(dsched) \in Nat
    BY <1>0, TableNumbers DEF TableTypes
  <2> QED
    BY <2>1 DEF Extends
<1>7. builds \in [Times -> Seq(Nat)] /\ builds' \in [Times -> Seq(Nat)]
  BY <1>0, <1>1, <1>3 DEF TableTypes
<1>8. /\ builds'[t] = Append(builds[t], p)
      /\ \A u \in Times : u # t => builds'[u] = builds[u]
  BY <1>1, <1>3, <1>7
<1>9. TableTypes'
  BY <1>0, <1>2, <1>5, <1>7 DEF TableTypes
<1>10. AgentsInv'
  BY <1>0, <1>2 DEF AgentsInv
<1>11. PlansInv'
  <2>1. ASSUME NEW u \in Times, u > time
        PROVE  Listed(builds'[u], bsched', Len(bsched'), u, Nat)
    <3>1. Listed(builds[u], bsched, Len(bsched), u, Nat)
      BY <1>0, <2>1 DEF PlansInv
    <3>2. Listed(builds[u], bsched', Len(bsched), u, Nat)
      BY <1>3, <1>5, <3>1, ListedKept
    <3>3. /\ builds[u] \in Seq(Nat) /\ builds'[u] \in Seq(Nat)
          /\ Known(bsched'[Len(bsched) + 1].parent, Nat) = p
          /\ bsched'[Len(bsched) + 1].time = t
      BY <1>3, <1>4, <1>5, <1>7 DEF Known
    <3>4. builds'[u] = IF bsched'[Len(bsched) + 1].time = u
                       THEN Append(builds[u], Known(bsched'[Len(bsched) + 1].parent, Nat)) ELSE builds[u]
      BY <1>8, <3>3
    <3>5. Listed(builds'[u], bsched', Len(bsched) + 1, u, Nat)
      BY <1>3, <3>2, <3>3, <3>4, ListedNext
    <3> QED
      BY <1>5, <3>5
  <2>2. builds'[0] = << >>
    <3>1. 0 \in Times /\ 0 # t
      BY <1>0, <1>3, TableNumbers
    <3> QED
      BY <1>0, <1>8, <3>1 DEF PlansInv
  <2>3. ASSUME time = 0, NEW u \in Times, NEW k \in DOMAIN builds'[u]
        PROVE  builds'[u][k] \in DOMAIN alive \cup {None}
    <3>1. \A j \in DOMAIN builds[u] : builds[u][j] \in DOMAIN alive \cup {None}
      BY <1>0, <2>3 DEF PlansInv
    <3>2. CASE u # t
      BY <1>8, <2>3, <3>1, <3>2
    <3>3. CASE u = t
      <4>1. /\ builds[t] \in Seq(Nat) /\ DOMAIN builds[t] = 1..Len(builds[t])
        BY <1>3, <1>7
      <4>2. k \in 1..(Len(builds[t]) + 1) /\ Len(builds[t]) \in Nat
        BY <1>3, <1>8, <2>3, <3>3, <4>1
      <4>3. \/ k \in 1..Len(builds[t]) /\ builds'[t][k] = builds[t][k]
            \/ k = Len(builds[t]) + 1 /\ builds'[t][k] = p
        BY <1>3, <1>8, <4>1, <4>2
      <4> QED
        BY <1>1, <3>1, <3>3, <4>1, <4>3
    <3> QED
      BY <3>2, <3>3
  <2>4. /\ DOMAIN decoms \subseteq DOMAIN alive
        /\ \A a \in DOMAIN decoms :
             decoms[a] >= time /\ \E k \in DOMAIN dsched : dsched[k].id = a /\ dsched[k].time = decoms[a]
        /\ time = 0 => LastOf(decoms, dsched, Len(dsched), 0)
    BY <1>0 DEF PlansInv
  <2> QED
    BY <1>2, <2>1, <2>2, <2>3, <2>4 DEF PlansInv
<1>12. Grows
  <2>1. \A e \in entry : e.enter \in Nat
    BY <1>0, TableNumbers
  <2>2. \A x \in exits : x.time \in Nat
    BY <1>0, TableNumbers
  <2> QED
    BY <1>2, <1>5, <1>6, <2>1, <2>2 DEF Grows
<1>13. SnapsInv'
  <2>1. phase' # "begin" /\ phase' \in Simulating \ {"ended"} /\ time' >= time /\ time' \in Nat
    BY <1>2, <1>3 DEF Simulating
  <2> QED
    BY <1>0, <1>2, <1>12, <2>1, SnapsSame
<1> QED
  BY <1>9, <1>10, <1>11, <1>13 DEF SimInv

\* Context::SchedDecom
LEMMA SchedDecomKeeps ==
    ASSUME SimInv, SchedDecom
    PROVE  SimInv'
<1>0. TableTypes /\ AgentsInv /\ PlansInv /\ SnapsInv
  BY DEF SimInv
<1>1. PICK a \in DOMAIN alive, t \in time..Duration :
         /\ decoms' = With(decoms, a, t)
         /\ dsched' = Append(dsched, [id |-> a, time |-> t])
  BY DEF SchedDecom
<1>2. /\ phase' = phase /\ time' = time /\ alive' = alive /\ builds' = builds /\ nextId' = nextId
      /\ entry' = entry /\ exits' = exits /\ bsched' = bsched /\ nextIds' = nextIds /\ snaps' = snaps
      /\ phase \in {"input", "events"} /\ calls' = calls + 1
  BY DEF SchedDecom, MayCall
<1>3. a \in Nat /\ t \in Times /\ t >= time /\ time \in Nat /\ Len(dsched) \in Nat
  BY <1>0, <1>1, TableNumbers
<1> DEFINE d == [id |-> a, time |-> t]
<1>4. d \in [id : Nat, time : Times] /\ d.id = a /\ d.time = t
  BY <1>3
<1>5. /\ dsched' \in DecomTable /\ Extends(dsched', dsched) /\ Len(dsched') = Len(dsched) + 1
      /\ dsched'[Len(dsched) + 1] = d /\ \A k \in 1..Len(dsched) : dsched'[k] = dsched[k]
  <2> DEFINE R == [id : Nat, time : Times]
  <2>1. dsched \in Seq(R)  /\ DecomTable = Seq(R)
    BY <1>0 DEF TableTypes, DecomTable
  <2>2. d \in R /\ dsched' = Append(dsched, d)
    BY <1>1, <1>4
  <2> HIDE DEF d, R
  <2>3. /\ Append(dsched, d) \in Seq(R) /\ Extends(Append(dsched, d), dsched)
        /\ Len(Append(dsched, d)) = Len(dsched) + 1 /\ Append(dsched, d)[Len(dsched) + 1] = d
        /\ \A k \in 1..Len(dsched) : Append(dsched, d)[k] = dsched[k]
    BY <2>1, <2>2, ExtendsAppend
  <2> QED
    BY <2>1, <2>2, <2>3
<1>6. bsched \in BuildTable /\ Extends(bsched, bsched)
  <2>1. bsched \in BuildTable /\ Len(bsched) \in Nat
    BY <1>0, TableNumbers DEF TableTypes
  <2> QED
    BY <2>1 DEF Extends
<1>7. decoms \in [DOMAIN decoms -> Times] /\ Times \subseteq Nat /\ DOMAIN decoms \subseteq DOMAIN alive
  BY <1>0, TableNumbers DEF TableTypes, PlansInv
<1>8. /\ decoms' \in [DOMAIN decoms' -> Times] /\ DOMAIN decoms' = DOMAIN decoms \cup {a}
      /\ decoms'[a] = t /\ \A x \in DOMAIN decoms : x # a => decoms'[x] = decoms[x]
  <2>1. /\ With(decoms, a, t) \in [DOMAIN decoms \cup {a} -> Times]
        /\ DOMAIN With(decoms, a, t) = DOMAIN decoms \cup {a} /\ With(decoms, a, t)[a] = t
        /\ \A x \in DOMAIN decoms : x # a => With(decoms, a, t)[x] = decoms[x]
    <3>1. t \in Times /\ decoms \in [DOMAIN decoms -> Times]
      BY <1>3, <1>7
    <3> QED
      BY <3>1 DEF With
  <2> QED
    BY <1>1, <2>1
<1>9. TableTypes'
  BY <1>0, <1>2, <1>5, <1>8 DEF TableTypes
<1>10. AgentsInv'
  BY <1>0, <1>2 DEF AgentsInv
<1>11. PlansInv'
  <2>1. ASSUME NEW x \in DOMAIN decoms'
        PROVE  decoms'[x] >= time /\ \E k \in DOMAIN dsched' : dsched'[k].id = x /\ dsched'[k].time = decoms'[x]
    <3>0. DOMAIN dsched' = 1..(Len(dsched) + 1) /\ DOMAIN dsched = 1..Len(dsched)
      BY <1>0, <1>5, TableNumbers DEF DecomTable
    <3>1. CASE x = a
      <4>1. Len(dsched) + 1 \in DOMAIN dsched'
        BY <1>3, <3>0
      <4> QED
        BY <1>3, <1>4, <1>5, <1>8, <3>1, <4>1
    <3>2. CASE x # a
      <4>1. x \in DOMAIN decoms /\ decoms'[x] = decoms[x]
        BY <1>8, <3>2
      <4>2. decoms[x] >= time /\ \E k \in DOMAIN dsched : dsched[k].id = x /\ dsched[k].time = decoms[x]
        BY <1>0, <4>1 DEF PlansInv
      <4>3. PICK k \in DOMAIN dsched : dsched[k].id = x /\ dsched[k].time = decoms[x]
        BY <4>2
      <4>4. k \in DOMAIN dsched' /\ dsched'[k] = dsched[k]
        BY <1>3, <1>5, <3>0
      <4> QED
        BY <4>1, <4>2, <4>3, <4>4
    <3> QED
      BY <3>1, <3>2
  <2>2. time = 0 => LastOf(decoms', dsched', Len(dsched'), 0)
    <3> HAVE time = 0
    <3>1. LastOf(decoms, dsched, Len(dsched), 0)
      BY <1>0 DEF PlansInv
    <3>2. LastOf(decoms, dsched', Len(dsched), 0)
      BY <1>3, <1>5, <3>1, LastOfKept
    <3>3. \A k \in 1..(Len(dsched) + 1) : dsched'[k].time \in Nat
      <4>1. \A k \in 1..Len(dsched) : dsched[k].time \in Nat
        BY <1>0, <1>7, TableNumbers
      <4> QED
        BY <1>3, <1>4, <1>5, <1>7, <4>1
    <3>4. decoms' = IF dsched'[Len(dsched) + 1].time >= 0
                    THEN With(decoms, dsched'[Len(dsched) + 1].id, dsched'[Len(dsched) + 1].time) ELSE decoms
      BY <1>1, <1>3, <1>4, <1>5, <1>7
    <3>5. decoms \in [DOMAIN decoms -> Nat]
      BY <1>7
    <3>6. LastOf(decoms', dsched', Len(dsched) + 1, 0)
      BY <1>3, <3>2, <3>3, <3>4, <3>5, LastOfNext
    <3> QED
      BY <1>5, <3>6
  <2>3. /\ builds[0] = << >>
        /\ \A u \in Times : u > time => Listed(builds[u], bsched, Len(bsched), u, Nat)
        /\ time = 0 => \A u \in Times : \A k \in DOMAIN builds[u] :
                          builds[u][k] \in DOMAIN alive \cup {None}
    BY <1>0 DEF PlansInv
  <2> QED
    BY <1>2, <1>7, <1>8, <2>1, <2>2, <2>3 DEF PlansInv
<1>12. Grows
  <2>1. \A e \in entry : e.enter \in Nat
    BY <1>0, TableNumbers
  <2>2. \A x \in exits : x.time \in Nat
    BY <1>0, TableNumbers
  <2> QED
    BY <1>2, <1>5, <1>6, <2>1, <2>2 DEF Grows
<1>13. SnapsInv'
  <2>1. phase' # "begin" /\ phase' \in Simulating \ {"ended"} /\ time' >= time /\ time' \in Nat
    BY <1>2, <1>3 DEF Simulating
  <2> QED
    BY <1>0, <1>2, <1>12, <2>1, SnapsSame
<1> QED
  BY <1>9, <1>10, <1>11, <1>13 DEF SimInv

\* The tables as they are.
LEMMA GrowsSame ==
    ASSUME TableTypes, AgentsInv, entry' = entry, exits' = exits, bsched' = bsched, dsched' = dsched
    PROVE  Grows
<1>1. /\ \A e \in entry : e.enter \in Nat
      /\ \A x \in exits : x.time \in Nat
      /\ Len(bsched) \in Nat /\ Len(dsched) \in Nat
  BY TableNumbers
<1>2. bsched \in BuildTable /\ dsched \in DecomTable
  BY DEF TableTypes
<1>3. Extends(bsched, bsched) /\ Extends(dsched, dsched)
  BY <1>1 DEF Extends
<1> QED
  BY <1>1, <1>2, <1>3 DEF Grows

\* The loader's snapshot and the last one.
LEMMA SnapshotKeeps ==
    ASSUME SimInv, InputRead \/ FinishSim
    PROVE  SimInv'
<1>0. TableTypes /\ AgentsInv /\ PlansInv /\ SnapsInv
  BY DEF SimInv
<1>1. /\ time' = time /\ alive' = alive /\ builds' = builds /\ decoms' = decoms /\ nextId' = nextId
      /\ entry' = entry /\ exits' = exits /\ bsched' = bsched /\ dsched' = dsched /\ calls' = calls
      /\ Snapshot /\ phase \in {"input", "begin"} /\ phase' \in {"begin", "ended"}
      /\ phase' = "begin" => phase = "input"
  BY DEF InputRead, FinishSim
<1>2. TableTypes'
  BY <1>0, <1>1 DEF TableTypes, Simulating
<1>3. AgentsInv'
  BY <1>0, <1>1 DEF AgentsInv
<1>4. PlansInv'
  BY <1>0, <1>1 DEF PlansInv
<1>5. Grows
  BY <1>0, <1>1, GrowsSame
<1>6. Now' = Now /\ (phase' = "begin" => time = 0)
  BY <1>0, <1>1 DEF Now, AgentsInv
<1>7. SnapsInv'
  BY <1>0, <1>1, <1>5, <1>6, SnapsTaken
<1> QED
  BY <1>2, <1>3, <1>4, <1>7 DEF SimInv

\* DoBuild: the agents due enter with the next ids, in the order they were scheduled in.
LEMMA BeginStepKeeps ==
    ASSUME SimInv, BeginStep
    PROVE  SimInv'
<1>0. TableTypes /\ AgentsInv /\ PlansInv /\ SnapsInv
  BY DEF SimInv
<1> DEFINE due == builds[time]
           new == nextId..(nextId + Len(due) - 1)
<1>1. PICK par \in [new -> 0..(nextId + Len(due) - 1)] :
      /\ (time > 0 /\ Snapshot) \/ (nextIds' = nextIds /\ snaps' = snaps)
      /\ alive' = [i \in DOMAIN alive \cup new |-> IF i \in new THEN par[i] ELSE alive[i]]
      /\ entry' = entry \cup {[id |-> i, parent |-> par[i], enter |-> time] : i \in new}
      /\ nextId' = nextId + Len(due)
      /\ builds' = [builds EXCEPT ![time] = << >>]
  BY DEF BeginStep
<1>2. /\ phase = "begin" /\ time < Duration /\ phase' = "events"
      /\ time' = time /\ decoms' = decoms /\ exits' = exits
      /\ bsched' = bsched /\ dsched' = dsched /\ calls' = calls
  BY DEF BeginStep
<1>3. /\ time \in Times /\ time \in Nat /\ nextId \in Nat /\ builds \in [Times -> Seq(Nat)]
      /\ alive \in [DOMAIN alive -> Nat] /\ DOMAIN alive \subseteq Nat /\ Times \subseteq Nat
      /\ entry \subseteq [id : Nat, parent : Nat, enter : 0..time]
  BY <1>0, TableNumbers DEF TableTypes
<1>4. due \in Seq(Nat) /\ Len(due) \in Nat /\ DOMAIN due = 1..Len(due) /\ \A k \in 1..Len(due) : due[k] \in Nat
  BY <1>3
<1>5. ASSUME NEW i \in new
      PROVE  /\ i \in Nat /\ i >= nextId /\ i < nextId + Len(due)
             /\ par[i] \in Nat /\ par[i] < nextId + Len(due)
  <2>1. i \in Nat /\ i >= nextId /\ i < nextId + Len(due)
    BY <1>3, <1>4
  <2>2. par[i] \in 0..(nextId + Len(due) - 1)
    BY <1>1
  <2> QED
    BY <1>3, <1>4, <2>1, <2>2
<1> HIDE DEF new
<1>6. /\ DOMAIN alive' = DOMAIN alive \cup new /\ alive' \in [DOMAIN alive' -> Nat]
      /\ \A i \in new : alive'[i] = par[i]
      /\ \A i \in DOMAIN alive : i \notin new => alive'[i] = alive[i]
  BY <1>1, <1>3, <1>5
<1>7. /\ \A e \in entry : e.id < nextId /\ e.id \in Nat /\ e.parent < nextId /\ e.parent \in Nat
      /\ \A a \in DOMAIN alive : a < nextId /\ a \in Nat
      /\ \A x \in exits : x.id \in Nat /\ x.time \in Nat
  BY <1>0, <1>3, TableNumbers DEF AgentsInv, Parented
<1>8. ASSUME NEW e \in entry'
      PROVE  \/ e \in entry
             \/ /\ e.id \in new /\ e.parent = par[e.id] /\ e.enter = time
                /\ e = [id |-> e.id, parent |-> par[e.id], enter |-> time]
  BY <1>1
<1>9. ASSUME NEW i \in new
      PROVE  \E e \in entry' : e.id = i /\ e.parent = par[i]
  <2> DEFINE e == [id |-> i, parent |-> par[i], enter |-> time]
  <2>1. e \in entry' /\ e.id = i /\ e.parent = par[i]
    BY <1>1
  <2> QED
    BY <2>1
<1>10. \A i \in new : i \notin DOMAIN alive /\ ~ \E x \in exits : x.id = i
  <2>1. \A x \in exits : x.id < nextId
    BY <1>0 DEF AgentsInv
  <2> QED
    BY <1>3, <1>5, <1>7, <2>1
<1>11. builds' \in [Times -> Seq(Nat)] /\ builds'[time] = << >> /\ \A u \in Times : u # time => builds'[u] = builds[u]
  BY <1>1, <1>3
<1>12. TableTypes'
  <2>1. entry' \subseteq [id : Nat, parent : Nat, enter : 0..time]
    <3>1. \A i \in new : [id |-> i, parent |-> par[i], enter |-> time] \in [id : Nat, parent : Nat, enter : 0..time]
      BY <1>3, <1>5
    <3> QED
      BY <1>1, <1>3, <3>1
  <2>2. nextId' \in Nat
    BY <1>1, <1>3, <1>4
  <2>3. phase' \in Simulating \cup Loading
    BY <1>2 DEF Simulating
  <2> QED
    BY <1>0, <1>2, <1>6, <1>11, <2>1, <2>2, <2>3 DEF TableTypes
<1>13. AgentsInv'
  <2>1. ASSUME NEW e \in entry', NEW f \in entry', e.id = f.id
        PROVE  e = f
    <3>1. \A g \in entry : g.id \notin new
      BY <1>3, <1>5, <1>7
    <3>2. e \in entry /\ f \in entry => e = f
      BY <1>0, <2>1 DEF AgentsInv
    <3> QED
      BY <1>8, <2>1, <3>1, <3>2
  <2>2. nextId' \in Nat /\ nextId' >= nextId /\ \A i \in new : i < nextId'
    BY <1>1, <1>3, <1>4, <1>5
  <2>3. \A e \in entry' : e.id < nextId' /\ e.parent < nextId'
    BY <1>1, <1>3, <1>5, <1>7, <1>8, <2>2
  <2>4. \A x \in exits : x.id < nextId'
    BY <1>0, <1>3, <1>7, <2>2 DEF AgentsInv
  <2>5. ASSUME NEW a \in DOMAIN alive'
        PROVE  Parented(a, alive'[a], entry', DOMAIN alive')
    <3>1. CASE a \in new
      BY <1>6, <1>9, <3>1 DEF Parented
    <3>2. CASE a \notin new
      <4>1. a \in DOMAIN alive /\ alive'[a] = alive[a]
        BY <1>6, <3>2
      <4>2. PICK e \in entry : e.id = a /\ (e.parent \in DOMAIN alive \cup {None} => alive[a] = e.parent)
        BY <1>0, <4>1 DEF AgentsInv, Parented
      <4>3. e \in entry' /\ e.parent \notin new
        BY <1>1, <1>3, <1>5, <1>7
      <4> QED
        BY <1>6, <4>1, <4>2, <4>3 DEF Parented
    <3> QED
      BY <3>1, <3>2
  <2>6. \A e \in entry' : e.id \in DOMAIN alive' <=> ~ \E x \in exits : x.id = e.id
    <3>1. \A e \in entry : e.id \notin new
      BY <1>3, <1>5, <1>7
    <3>2. \A e \in entry : e.id \in DOMAIN alive <=> ~ \E x \in exits : x.id = e.id
      BY <1>0 DEF AgentsInv
    <3> QED
      BY <1>6, <1>8, <1>10, <3>1, <3>2
  <2> QED
    BY <1>2, <2>1, <2>3, <2>4, <2>5, <2>6 DEF AgentsInv
<1>14. PlansInv'
  <2>1. /\ builds[0] = << >>
        /\ \A t \in Times : t > time => Listed(builds[t], bsched, Len(bsched), t, Nat)
        /\ time = 0 => \A t \in Times : \A k \in DOMAIN builds[t] :
                          builds[t][k] \in DOMAIN alive \cup {None}
        /\ DOMAIN decoms \subseteq DOMAIN alive
        /\ \A a \in DOMAIN decoms :
             decoms[a] >= time /\ \E k \in DOMAIN dsched : dsched[k].id = a /\ dsched[k].time = decoms[a]
        /\ time = 0 => LastOf(decoms, dsched, Len(dsched), 0)
    BY <1>0 DEF PlansInv
  <2>2. builds'[0] = << >>
    <3>1. 0 \in Times
      BY <1>0, TableNumbers
    <3> QED
      BY <1>11, <2>1, <3>1
  <2>3. \A t \in Times : t > time => builds'[t] = builds[t]
    BY <1>3, <1>11
  <2>4. ASSUME time = 0, NEW t \in Times, NEW k \in DOMAIN builds'[t]
        PROVE  builds'[t][k] \in DOMAIN alive' \cup {None}
    BY <1>6, <1>11, <2>1, <2>4
  <2> QED
    BY <1>2, <1>6, <2>1, <2>2, <2>3, <2>4 DEF PlansInv
<1>15. Grows
  <2>1. new # {} => time > 0
    <3>1. builds[0] = << >>
      BY <1>0 DEF PlansInv
    <3>2. time = 0 => Len(due) = 0
      BY <3>1
    <3> QED
      BY <1>3, <1>5, <3>2
  <2>2. \A e \in entry' : e.enter \in Nat /\ (e \in entry \/ (e.enter = time /\ time > 0))
    BY <1>0, <1>3, <1>8, <2>1, TableNumbers
  <2>3. entry \subseteq entry' /\ \A x \in exits : x.time \in Nat
    BY <1>1, <1>7
  <2>4. /\ bsched \in BuildTable /\ dsched \in DecomTable /\ Len(bsched) \in Nat /\ Len(dsched) \in Nat
    BY <1>0, TableNumbers DEF TableTypes
  <2>5. Extends(bsched, bsched) /\ Extends(dsched, dsched)
    BY <2>4 DEF Extends
  <2> QED
    BY <1>2, <2>2, <2>3, <2>4, <2>5 DEF Grows
<1>16. SnapsInv'
  <2>1. CASE time > 0 /\ Snapshot
    BY <1>0, <1>2, <1>15, <2>1, SnapsTaken
  <2>2. CASE nextIds' = nextIds /\ snaps' = snaps
    <3>1. phase' # "begin" /\ phase' \in Simulating \ {"ended"} /\ time' >= time /\ time' \in Nat
      BY <1>2, <1>3 DEF Simulating
    <3> QED
      BY <1>0, <1>15, <2>2, <3>1, SnapsSame
  <2> QED
    BY <1>1, <2>1, <2>2
<1> QED
  BY <1>12, <1>13, <1>14, <1>16 DEF SimInv

\* DoDecom and the next time step.
LEMMA EndStepKeeps ==
    ASSUME SimInv, EndStep
    PROVE  SimInv'
<1>0. TableTypes /\ AgentsInv /\ PlansInv /\ SnapsInv
  BY DEF SimInv
<1> DEFINE due == {a \in DOMAIN decoms : decoms[a] = time}
<1>1. /\ alive' = [a \in DOMAIN alive \ due |-> IF alive[a] \in due THEN None ELSE alive[a]]
      /\ decoms' = Drop(decoms, due)
      /\ exits' = exits \cup {[id |-> a, time |-> time] : a \in due}
  BY DEF EndStep
<1>2. /\ phase = "events" /\ phase' = "begin" /\ time' = time + 1
      /\ builds' = builds /\ nextId' = nextId /\ entry' = entry /\ bsched' = bsched
      /\ dsched' = dsched /\ nextIds' = nextIds /\ snaps' = snaps /\ calls' = calls
  BY DEF EndStep
<1>3. /\ time \in Nat /\ time < Duration /\ Duration \in Nat /\ Times = 0..Duration
      /\ nextId \in Nat /\ alive \in [DOMAIN alive -> Nat] /\ decoms \in [DOMAIN decoms -> Times]
      /\ DOMAIN alive \subseteq Nat
  BY <1>0, <1>2, TableNumbers DEF TableTypes, AgentsInv
<1>4. /\ builds[0] = << >>
      /\ \A t \in Times : t > time => Listed(builds[t], bsched, Len(bsched), t, Nat)
      /\ DOMAIN decoms \subseteq DOMAIN alive
      /\ \A a \in DOMAIN decoms :
           decoms[a] >= time /\ \E k \in DOMAIN dsched : dsched[k].id = a /\ dsched[k].time = decoms[a]
  BY <1>0 DEF PlansInv
<1>5. due \subseteq DOMAIN decoms /\ due \subseteq DOMAIN alive /\ \A a \in due : a \in Nat
  BY <1>3, <1>4
<1>6. \A a \in DOMAIN decoms : a \notin due => decoms[a] >= time + 1
  BY <1>3, <1>4
<1> HIDE DEF due
<1>7. /\ DOMAIN alive' = DOMAIN alive \ due
      /\ \A a \in DOMAIN alive' : alive'[a] = IF alive[a] \in due THEN None ELSE alive[a]
      /\ alive' \in [DOMAIN alive' -> Nat]
  BY <1>1, <1>3 DEF None
<1>8. /\ DOMAIN decoms' = DOMAIN decoms \ due /\ \A a \in DOMAIN decoms' : decoms'[a] = decoms[a]
      /\ decoms' \in [DOMAIN decoms' -> Times]
  BY <1>1, <1>3 DEF Drop
<1>9. /\ exits \subseteq exits'
      /\ \A x \in exits' : x \in exits \/ (x.id \in due /\ x.time = time)
      /\ \A a \in due : \E x \in exits' : x.id = a
  <2>1. ASSUME NEW a \in due
        PROVE  \E x \in exits' : x.id = a
    <3> DEFINE x == [id |-> a, time |-> time]
    <3>1. x \in exits' /\ x.id = a
      BY <1>1
    <3> QED
      BY <3>1
  <2> QED
    BY <1>1, <2>1
<1>10. time' \in Nat /\ time' \in Times /\ time' > time /\ time' # 0 /\ 0..time \subseteq 0..time'
       /\ 0..(time - 1) \subseteq 0..(time' - 1) /\ time \in 0..(time' - 1)
  BY <1>2, <1>3
<1>11. TableTypes'
  <2>1. entry \subseteq [id : Nat, parent : Nat, enter : 0..time']
    <3>1. entry \subseteq [id : Nat, parent : Nat, enter : 0..time]
      BY <1>0 DEF TableTypes
    <3> QED
      BY <1>10, <3>1
  <2>2. exits' \subseteq [id : Nat, time : 0..(time' - 1)]
    <3>1. exits \subseteq [id : Nat, time : 0..(time - 1)]
      BY <1>0 DEF TableTypes
    <3>2. \A a \in due : [id |-> a, time |-> time] \in [id : Nat, time : 0..(time' - 1)]
      BY <1>5, <1>10
    <3>3. exits \subseteq [id : Nat, time : 0..(time' - 1)]
      BY <1>10, <3>1
    <3> QED
      BY <1>1, <3>2, <3>3
  <2>3. phase' \in Simulating \cup Loading
    BY <1>2 DEF Simulating
  <2> QED
    BY <1>0, <1>2, <1>7, <1>8, <1>10, <2>1, <2>2, <2>3 DEF TableTypes
<1>12. AgentsInv'
  <2>1. /\ \A e, f \in entry : e.id = f.id => e = f
        /\ \A e \in entry : e.id < nextId /\ e.parent < nextId
        /\ \A x \in exits : x.id < nextId
        /\ \A a \in DOMAIN alive : Parented(a, alive[a], entry, DOMAIN alive)
        /\ \A e \in entry : e.id \in DOMAIN alive <=> ~ \E x \in exits : x.id = e.id
    BY <1>0 DEF AgentsInv
  <2>2. \A a \in due : a < nextId
    BY <1>5, <2>1 DEF Parented
  <2>3. \A x \in exits' : x.id < nextId
    BY <1>9, <2>1, <2>2
  <2>4. \A e \in entry : e.id \in DOMAIN alive' <=> ~ \E x \in exits' : x.id = e.id
    BY <1>5, <1>7, <1>9, <2>1
  <2>5. ASSUME NEW a \in DOMAIN alive'
        PROVE  Parented(a, alive'[a], entry, DOMAIN alive')
    <3>1. a \in DOMAIN alive /\ alive'[a] = IF alive[a] \in due THEN None ELSE alive[a]
      BY <1>7
    <3>2. PICK e \in entry : e.id = a /\ (e.parent \in DOMAIN alive \cup {None} => alive[a] = e.parent)
      BY <2>1, <3>1 DEF Parented
    <3>3. e.parent \in DOMAIN alive' \cup {None} => alive'[a] = e.parent
      BY <1>7, <3>1, <3>2
    <3> QED
      BY <3>2, <3>3 DEF Parented
  <2>6. \A e \in entry : e.enter < time'
    <3>1. \A e \in entry : e.enter \in Nat /\ e.enter <= time
      BY <1>0, TableNumbers
    <3> QED
      BY <1>2, <1>3, <3>1
  <2> QED
    BY <1>2, <2>1, <2>3, <2>4, <2>5, <2>6 DEF AgentsInv
<1>13. PlansInv'
  <2>1. \A t \in Times : t > time' => t > time
    BY <1>2, <1>3
  <2>3. ASSUME NEW a \in DOMAIN decoms'
        PROVE  /\ decoms'[a] >= time'
               /\ \E k \in DOMAIN dsched : dsched[k].id = a /\ dsched[k].time = decoms'[a]
    BY <1>2, <1>4, <1>6, <1>8
  <2>4. DOMAIN decoms' \subseteq DOMAIN alive'
    BY <1>4, <1>7, <1>8
  <2> QED
    BY <1>2, <1>4, <1>10, <2>1, <2>3, <2>4 DEF PlansInv
<1>14. Grows
  <2>1. \A e \in entry : e.enter \in Nat
    BY <1>0, TableNumbers
  <2>2. \A x \in exits' : x.time \in Nat /\ (x \in exits \/ x.time = time)
    BY <1>0, <1>3, <1>9, TableNumbers
  <2>3. /\ bsched \in BuildTable /\ dsched \in DecomTable /\ Len(bsched) \in Nat /\ Len(dsched) \in Nat
    BY <1>0, TableNumbers DEF TableTypes
  <2>4. Extends(bsched, bsched) /\ Extends(dsched, dsched)
    BY <2>3 DEF Extends
  <2> QED
    BY <1>2, <1>9, <2>1, <2>2, <2>3, <2>4 DEF Grows
<1>15. SnapsInv'
  <2>1. phase' \in Simulating \ {"ended"} /\ time' >= time
    BY <1>2, <1>3 DEF Simulating
  <2> QED
    BY <1>0, <1>2, <1>10, <1>14, <2>1, SnapsSame
<1> QED
  BY <1>11, <1>12, <1>13, <1>15 DEF SimInv

-----------------------------------------------------------------------------
(***************************************************************************)
(* The steps of SimInit.                                                   *)
(***************************************************************************)
\* The tables and the queues of the simulation are left alone.
LEMMA LoadKeepsSim ==
    ASSUME SimInv, sim' = sim, phase' \in Loading,
           phase \in Loading \/ phase = "ended" \/ (phase = "begin" /\ time = 0)
    PROVE  SimInv'
<1>0. TableTypes /\ AgentsInv /\ PlansInv /\ SnapsInv
  BY DEF SimInv
<1>1. /\ time' = time /\ alive' = alive /\ builds' = builds /\ decoms' = decoms /\ nextId' = nextId
      /\ entry' = entry /\ exits' = exits /\ bsched' = bsched /\ dsched' = dsched
      /\ nextIds' = nextIds /\ snaps' = snaps /\ calls' = calls
  BY DEF sim
<1>2. phase' \notin {"input", "begin", "events"} /\ phase \notin {"input", "events"}
  BY DEF Loading
<1>3. TableTypes'
  BY <1>0, <1>1 DEF TableTypes
<1>4. AgentsInv'
  BY <1>0, <1>1, <1>2 DEF AgentsInv
<1>5. PlansInv'
  BY <1>0, <1>1 DEF PlansInv
<1>6. SnapsInv'
  <2>1. \A s \in DOMAIN snaps : s \in 0..time /\ Kept(s, snaps[s]) /\ <<s, snaps[s].next>> \in nextIds
    BY <1>0 DEF SnapsInv
  <2>2. \A n \in nextIds : n[1] \in DOMAIN snaps /\ n[2] = snaps[n[1]].next
    BY <1>0 DEF SnapsInv
  <2>3. time = 0 => 0 \in DOMAIN snaps /\ snaps[0] = Now
    BY <1>0, <1>2 DEF SnapsInv
  <2>4. Now' = Now
    BY <1>1 DEF Now
  <2> QED
    BY <1>1, <1>2, <2>1, <2>2, <2>3, <2>4 DEF SnapsInv, Kept
<1> QED
  BY <1>3, <1>4, <1>5, <1>6 DEF SimInv

\* AgentEntry has one row of an agent.
LEMMA ParentOfRow ==
    ASSUME AgentsInv, NEW e \in entry
    PROVE  ParentOf(e.id) = e.parent
<1> DEFINE f == CHOOSE f \in entry : f.id = e.id
<1>1. f \in entry /\ f.id = e.id
  OBVIOUS
<1>2. f = e
  BY <1>1 DEF AgentsInv
<1> QED
  BY <1>2 DEF ParentOf

\* What the phases share: agents that are connected or to be connected.
SharedInv ==
    /\ from \in DOMAIN snaps
    /\ unbuilt \cup DOMAIN agents = Selected(from)
    /\ \A i \in DOMAIN agents : Connected(i)

\* Nothing is loaded before the first row.
LEMMA BuildsNone ==
    ASSUME LoadTypes, Fresh
    PROVE  BuildsTo(0) /\ loaded.decoms = Empty
<1>1. loaded.builds = NoBuilds /\ loaded.decoms = Empty
  BY DEF Fresh
<1>2. ASSUME NEW t \in Times
      PROVE  loaded.builds[t] = << >> /\ Listed(<< >>, bsched, 0, t, DOMAIN agents)
  <2>1. loaded.builds[t] = << >>
    BY <1>1 DEF NoBuilds
  <2> QED
    BY <2>1, ListedNone
<1>3. ASSUME NEW t \in Times
      PROVE  /\ t > from => Listed(loaded.builds[t], bsched, 0, t, DOMAIN agents)
             /\ ~(t > from) => loaded.builds[t] = << >>
  <2>1. loaded.builds[t] = << >> /\ Listed(loaded.builds[t], bsched, 0, t, DOMAIN agents)
    BY <1>2
  <2> QED
    BY <2>1
<1> QED
  BY <1>1, <1>3 DEF BuildsTo

\* The agents are connected, the tables not yet read.
LEMMA ReadingBegins ==
    (LoadTypes /\ Fresh /\ SharedInv /\ unbuilt = {} /\ it = 0 /\ phase = "builds" /\ Len(bsched) \in Nat) => LoadInv
<1> SUFFICES ASSUME LoadTypes, Fresh, SharedInv, unbuilt = {}, it = 0, phase = "builds", Len(bsched) \in Nat
             PROVE  LoadInv
  OBVIOUS
<1>1. BuildsTo(0) /\ loaded.decoms = Empty /\ row = 1
  BY BuildsNone DEF Fresh
<1>2. row \in 1..(Len(bsched) + 1) /\ BuildsTo(row - 1)
  BY <1>1
<1> QED
  BY <1>1, <1>2 DEF LoadInv, SharedInv, Simulating, Loading

\* The agents are being connected.
LEMMA Connecting ==
    (LoadTypes /\ Fresh /\ SharedInv /\ it \in unbuilt /\ phase = "connect") => LoadInv
  BY DEF LoadInv, SharedInv, Simulating, Loading

\* LoadInitialAgents collects the agents that are to be loaded.
LEMMA LoadInitialAgentsKeeps ==
    ASSUME SimInv, LoadTypes, LoadInv, LoadInitialAgents
    PROVE  SimInv' /\ LoadTypes' /\ LoadInv'
<1>0. TableTypes /\ AgentsInv /\ PlansInv /\ SnapsInv
  BY DEF SimInv
<1>1. PICK t \in DOMAIN snaps :
         /\ (phase = "begin" /\ time = 0 /\ t = 0) \/ phase = "ended"
         /\ from' = t
         /\ unbuilt' = {e.id : e \in {e \in Entered(t) : ~ ToBeBuilt(e, t) /\ ~ Gone(e, t)}}
         /\ it' = IF unbuilt' = {} THEN 0 ELSE Min(unbuilt')
  BY DEF LoadInitialAgents
<1>2. /\ phase' = IF unbuilt' = {} THEN "builds" ELSE "connect"
      /\ sim' = sim /\ agents' = agents /\ row' = row /\ loaded' = loaded
  BY DEF LoadInitialAgents
<1>3. /\ entry' = entry /\ exits' = exits /\ snaps' = snaps /\ bsched' = bsched
  BY <1>2 DEF sim
<1>4. phase' \in Loading /\ phase \in Simulating
  BY <1>1, <1>2 DEF Loading, Simulating
<1>5. SimInv'
  BY <1>1, <1>2, <1>4, LoadKeepsSim
<1>6. Fresh /\ agents = Empty
  BY <1>4 DEF LoadInv
<1>7. LoadTypes' /\ Fresh'
  BY <1>2, <1>6 DEF LoadTypes, Fresh
<1>8. unbuilt' = Chosen(t, entry, exits)
  <2>1. {e \in Entered(t) : ~ ToBeBuilt(e, t) /\ ~ Gone(e, t)}
          = {e \in entry : /\ e.enter <= t /\ ~(t > 0 /\ e.enter = t)
                           /\ ~ \E x \in exits : x.id = e.id /\ x.time < t}
    BY DEF Entered, ToBeBuilt, Gone
  <2> QED
    BY <1>1, <2>1 DEF Chosen
<1>9. DOMAIN agents' = {}
  BY <1>2, <1>6 DEF Empty
<1>10. SharedInv'
  <2>1. unbuilt' \cup DOMAIN agents' = Chosen(from', entry', exits')
    BY <1>1, <1>3, <1>8, <1>9
  <2> QED
    BY <1>1, <1>3, <1>9, <2>1 DEF SharedInv, Selected
<1>11. CASE unbuilt' = {}
  <2>1. phase' = "builds" /\ it' = 0 /\ Len(bsched') \in Nat
    BY <1>0, <1>1, <1>2, <1>3, <1>11, TableNumbers
  <2>2. LoadInv'
    <3>1. (LoadTypes /\ Fresh /\ SharedInv /\ unbuilt = {} /\ it = 0 /\ phase = "builds" /\ Len(bsched) \in Nat)'
      BY <1>7, <1>10, <1>11, <2>1
    <3> QED
      BY <3>1, ReadingBegins, PTL
  <2> QED
    BY <1>5, <1>7, <2>2
<1>12. CASE unbuilt' # {}
  <2>1. unbuilt' \subseteq Nat
    BY <1>0, <1>8, TableNumbers DEF Chosen
  <2>2. it' \in unbuilt' /\ phase' = "connect"
    BY <1>1, <1>2, <1>12, <2>1, Least
  <2>3. LoadInv'
    <3>1. (LoadTypes /\ Fresh /\ SharedInv /\ it \in unbuilt /\ phase = "connect")'
      BY <1>7, <1>10, <2>2
    <3> QED
      BY <3>1, Connecting, PTL
  <2> QED
    BY <1>5, <1>7, <2>3
<1> QED
  BY <1>11, <1>12

\* The iterator stays in the set.
LEMMA AfterIn ==
    ASSUME NEW S, S \subseteq Nat, S # {}, NEW i \in Nat
    PROVE  After(S, i) \in S
<1>1. Min(S) \in S
  BY Least
<1>2. CASE \E j \in S : j > i
  <2>1. {j \in S : j > i} \subseteq Nat /\ {j \in S : j > i} # {}
    BY <1>2
  <2>2. Min({j \in S : j > i}) \in {j \in S : j > i}
    BY <2>1, Least
  <2> QED
    BY <1>2, <2>2 DEF After
<1>3. CASE ~ \E j \in S : j > i
  BY <1>1, <1>3 DEF After
<1> QED
  BY <1>2, <1>3

\* An agent that is connected has the parent AgentEntry gives it.
LEMMA ConnectKeeps ==
    ASSUME SimInv, LoadTypes, LoadInv, Connect
    PROVE  SimInv' /\ LoadTypes' /\ LoadInv'
<1>0. TableTypes /\ AgentsInv /\ PlansInv /\ SnapsInv
  BY DEF SimInv
<1>1. /\ phase = "connect" /\ it' = After(unbuilt', it)
      /\ phase' = IF unbuilt' = {} THEN "builds" ELSE "connect"
      /\ sim' = sim /\ from' = from /\ row' = row /\ loaded' = loaded
  BY DEF Connect
<1>2. /\ entry' = entry /\ exits' = exits /\ snaps' = snaps /\ bsched' = bsched
  BY <1>1 DEF sim
<1>3. phase' \in Loading /\ phase \in Loading
  BY <1>1 DEF Loading
<1>4. SimInv'
  BY <1>1, <1>3, LoadKeepsSim
<1>5. /\ Fresh /\ it \in unbuilt /\ from \in DOMAIN snaps /\ unbuilt \cup DOMAIN agents = Selected(from)
      /\ \A i \in DOMAIN agents : Connected(i)
  BY <1>1, <1>3 DEF LoadInv
<1>6. agents \in [DOMAIN agents -> Nat]
  BY DEF LoadTypes
<1>7. Selected(from) \subseteq Nat
  BY <1>0, TableNumbers DEF Selected, Chosen
<1>8. PICK e \in entry : e.id = it
  BY <1>5 DEF Selected, Chosen
<1>9. ParentOf(it) = e.parent /\ e.parent \in Nat
  BY <1>0, <1>8, ParentOfRow, TableNumbers
<1>10. /\ agents' \in [DOMAIN agents' -> Nat] /\ unbuilt' \cup DOMAIN agents' = Selected(from)
       /\ \A i \in DOMAIN agents' : Connected(i)'
  <2>1. CASE ~ Ready(it)
    <3>1. agents' = agents /\ unbuilt' = unbuilt
      BY <2>1 DEF Connect
    <3> QED
      BY <1>2, <1>5, <1>6, <3>1 DEF Connected
  <2>2. CASE Ready(it)
    <3>1. /\ agents' = With(agents, it, IF ParentOf(it) \in DOMAIN agents THEN ParentOf(it) ELSE None)
          /\ unbuilt' = unbuilt \ {it}
      BY <2>2 DEF Connect
    <3>2. (IF ParentOf(it) \in DOMAIN agents THEN ParentOf(it) ELSE None) = e.parent
      BY <1>9, <2>2 DEF Ready
    <3>3. agents' = With(agents, it, e.parent)
      BY <3>1, <3>2
    <3>4. /\ DOMAIN agents' = DOMAIN agents \cup {it} /\ agents'[it] = e.parent
          /\ \A i \in DOMAIN agents : i # it => agents'[i] = agents[i]
          /\ agents' \in [DOMAIN agents' -> Nat]
      BY <1>6, <1>9, <3>3 DEF With
    <3>5. unbuilt' \cup DOMAIN agents' = unbuilt \cup DOMAIN agents
      BY <1>5, <3>1, <3>4
    <3>6. e.parent \in DOMAIN agents' \cup {None}
      BY <1>9, <2>2, <3>4 DEF Ready
    <3>7. ASSUME NEW i \in DOMAIN agents'
          PROVE  Connected(i)'
      <4>1. CASE i = it
        BY <1>2, <1>8, <3>4, <3>6, <4>1 DEF Connected
      <4>2. CASE i # it
        <5>1. i \in DOMAIN agents /\ agents'[i] = agents[i] /\ Connected(i)
          BY <1>5, <3>4, <4>2
        <5> QED
          BY <1>2, <3>4, <5>1 DEF Connected
      <4> QED
        BY <4>1, <4>2
    <3> QED
      BY <1>5, <3>4, <3>5, <3>7
  <2> QED
    BY <2>1, <2>2
<1>11. LoadTypes' /\ Fresh'
  BY <1>1, <1>5, <1>10 DEF LoadTypes, Fresh
<1>12. SharedInv'
  BY <1>1, <1>2, <1>5, <1>10 DEF SharedInv, Selected
<1>13. CASE unbuilt' = {}
  <2>1. phase' = "builds" /\ it' = 0 /\ Len(bsched') \in Nat
    BY <1>0, <1>1, <1>2, <1>13, TableNumbers DEF After
  <2>2. LoadInv'
    <3>1. (LoadTypes /\ Fresh /\ SharedInv /\ unbuilt = {} /\ it = 0 /\ phase = "builds" /\ Len(bsched) \in Nat)'
      BY <1>11, <1>12, <1>13, <2>1
    <3> QED
      BY <3>1, ReadingBegins, PTL
  <2> QED
    BY <1>4, <1>11, <2>2
<1>14. CASE unbuilt' # {}
  <2>1. unbuilt' \subseteq Nat /\ it \in Nat
    BY <1>5, <1>7, <1>10
  <2>2. it' \in unbuilt' /\ phase' = "connect"
    BY <1>1, <1>14, <2>1, AfterIn
  <2>3. LoadInv'
    <3>1. (LoadTypes /\ Fresh /\ SharedInv /\ it \in unbuilt /\ phase = "connect")'
      BY <1>11, <1>12, <2>2
    <3> QED
      BY <3>1, Connecting, PTL
  <2> QED
    BY <1>4, <1>11, <2>3
<1> QED
  BY <1>13, <1>14

\* What the steps that read the tables have in common.
LEMMA ReadingShared ==
    ASSUME SimInv, LoadInv, sim' = sim, from' = from, unbuilt' = unbuilt, it' = it, agents' = agents,
           phase \in Loading \ {"connect"}, phase' \in Loading \ {"connect"}
    PROVE  /\ SimInv' /\ SharedInv' /\ unbuilt' = {} /\ it' = 0
           /\ from \in Nat /\ from \in DOMAIN snaps
           /\ bsched' = bsched /\ dsched' = dsched /\ snaps' = snaps
<1>1. SimInv'
  BY LoadKeepsSim
<1>2. /\ entry' = entry /\ exits' = exits /\ snaps' = snaps /\ bsched' = bsched /\ dsched' = dsched
  BY DEF sim
<1>3. SharedInv /\ unbuilt = {} /\ it = 0
  BY DEF LoadInv, SharedInv
<1>4. SharedInv'
  BY <1>2, <1>3 DEF SharedInv, Selected, Connected
<1>5. from \in DOMAIN snaps /\ from \in Nat
  <2>1. from \in DOMAIN snaps
    BY <1>3 DEF SharedInv
  <2>2. time \in Nat /\ from \in 0..time
    BY <2>1, TableNumbers DEF SimInv, SnapsInv
  <2> QED
    BY <2>1, <2>2
<1> QED
  BY <1>1, <1>2, <1>3, <1>4, <1>5

\* LoadBuildSched
LEMMA LoadBuildSchedKeeps ==
    ASSUME SimInv, LoadTypes, LoadInv, LoadBuildSched
    PROVE  SimInv' /\ LoadTypes' /\ LoadInv'
<1>0. TableTypes /\ AgentsInv /\ PlansInv /\ SnapsInv
  BY DEF SimInv
<1>1. /\ phase = "builds" /\ sim' = sim /\ from' = from /\ unbuilt' = unbuilt /\ it' = it /\ agents' = agents
      /\ phase' \in {"builds", "decoms"}
  BY DEF LoadBuildSched
<1>2. /\ SimInv' /\ SharedInv' /\ unbuilt' = {} /\ it' = 0 /\ from \in Nat /\ from \in DOMAIN snaps
      /\ bsched' = bsched /\ dsched' = dsched
  BY <1>1, ReadingShared DEF Loading
<1>3. /\ row \in 1..(Len(bsched) + 1) /\ BuildsTo(row - 1) /\ loaded.decoms = Empty
  BY <1>1 DEF LoadInv
<1>4. /\ Len(bsched) \in Nat /\ Times \subseteq Nat /\ Len(dsched) \in Nat
      /\ \A k \in 1..Len(bsched) : bsched[k] \in [parent : Nat, time : Times]
  BY <1>0, TableNumbers
<1>5. /\ loaded.builds \in [Times -> Seq(Nat)] /\ agents \in [DOMAIN agents -> Nat]
      /\ loaded = [builds |-> loaded.builds, decoms |-> loaded.decoms, next |-> loaded.next]
      /\ row \in Nat /\ loaded.decoms \in [DOMAIN loaded.decoms -> Times]
  BY DEF LoadTypes
<1>6. CASE row <= Len(bsched)
  <2> DEFINE b == bsched[row]
             p == IF b.parent \in DOMAIN agents THEN b.parent ELSE None
             more == [loaded.builds EXCEPT ![b.time] = Append(loaded.builds[b.time], p)]
             new == IF b.time > from THEN more ELSE loaded.builds
  <2>1. row \in 1..Len(bsched) /\ row - 1 \in Nat /\ (row - 1) + 1 = row
    BY <1>3, <1>4, <1>6
  <2>2. b.parent \in Nat /\ b.time \in Times /\ b.time \in Nat
    BY <1>4, <2>1
  <2>3. p \in Nat /\ p = Known(bsched[row].parent, DOMAIN agents)
    BY <2>2 DEF Known, None
  <2>4. /\ row' = row + 1 /\ phase' = "builds"
        /\ loaded' = IF b.time > from THEN [loaded EXCEPT !.builds[b.time] = Append(@, p)] ELSE loaded
    BY <1>6 DEF LoadBuildSched, Later
  <2> HIDE DEF p, b
  <2>5. more \in [Times -> Seq(Nat)]
    BY <1>5, <2>2, <2>3
  <2>6. loaded' = [builds |-> new, decoms |-> loaded.decoms, next |-> loaded.next]
    <3>1. CASE b.time > from
      BY <1>5, <2>4, <3>1
    <3>2. CASE ~(b.time > from)
      BY <1>5, <2>4, <3>2
    <3> QED
      BY <3>1, <3>2
  <2>7. new \in [Times -> Seq(Nat)] /\ (b.time > from => new = more) /\ (~(b.time > from) => new = loaded.builds)
    BY <1>5, <2>5
  <2> HIDE DEF new
  <2>8. loaded'.builds = new /\ loaded'.decoms = loaded.decoms /\ loaded'.next = loaded.next
    BY <2>6
  <2>9. \A t \in Times : /\ t > from => Listed(new[t], bsched, (row - 1) + 1, t, DOMAIN agents)
                         /\ ~(t > from) => new[t] = << >>
    <3> DEFINE n == row - 1
    <3>1. n \in Nat /\ BuildsTo(n) /\ bsched[n + 1] = b
      BY <1>3, <2>1 DEF b
    <3> HIDE DEF n
    <3>2. p = Known(bsched[n + 1].parent, DOMAIN agents)
      BY <2>3, <3>1 DEF b
    <3>3. /\ bsched[n + 1].time \in Times /\ \A t \in Times : t \in Nat
      BY <1>4, <2>2, <3>1
    <3>4. ASSUME NEW t \in Times
          PROVE  /\ bsched[n + 1].time = t /\ t > from => new[t] = Append(loaded.builds[t], p)
                 /\ ~(bsched[n + 1].time = t /\ t > from) => new[t] = loaded.builds[t]
      BY <1>5, <2>2, <2>7, <3>1
    <3>5. \A t \in Times : /\ t > from => Listed(new[t], bsched, n + 1, t, DOMAIN agents)
                           /\ ~(t > from) => new[t] = << >>
      <4> TAKE t \in Times
      <4>1. /\ t > from => Listed(loaded.builds[t], bsched, n, t, DOMAIN agents)
            /\ ~(t > from) => loaded.builds[t] = << >>
        BY <3>1 DEF BuildsTo
      <4>2. ASSUME t > from
            PROVE  Listed(new[t], bsched, n + 1, t, DOMAIN agents)
        <5>1. new[t] = IF bsched[n + 1].time = t THEN Append(loaded.builds[t], p) ELSE loaded.builds[t]
          BY <3>4, <4>2
        <5>2. loaded.builds[t] \in Seq(Nat) /\ new[t] \in Seq(Nat)
          BY <1>5, <2>7
        <5>3. new[t] = IF bsched[n + 1].time = t
                       THEN Append(loaded.builds[t], Known(bsched[n + 1].parent, DOMAIN agents))
                       ELSE loaded.builds[t]
          BY <3>2, <5>1
        <5> QED
          BY <2>3, <3>1, <3>2, <4>1, <4>2, <5>2, <5>3, ListedNext
      <4>3. ASSUME ~(t > from)
            PROVE  new[t] = << >>
        BY <3>4, <4>1, <4>3
      <4> QED
        BY <4>2, <4>3
    <3> QED
      BY <3>5 DEF n
  <2>10. row' - 1 = (row - 1) + 1 /\ row' \in 1..(Len(bsched') + 1) /\ row' \in Nat
    BY <1>2, <1>4, <2>1, <2>4
  <2>11. BuildsTo(row - 1)'
    <3>1. \A t \in Times : /\ t > from => Listed(new[t], bsched, row' - 1, t, DOMAIN agents)
                           /\ ~(t > from) => new[t] = << >>
      BY <2>9, <2>10
    <3> QED
      BY <1>1, <1>2, <2>8, <3>1 DEF BuildsTo
  <2>12. LoadTypes'
    BY <1>1, <1>5, <2>6, <2>7, <2>8, <2>10 DEF LoadTypes
  <2>13. LoadInv'
    BY <1>2, <1>3, <2>4, <2>8, <2>10, <2>11 DEF LoadInv, SharedInv, Simulating, Loading
  <2> QED
    BY <1>2, <2>12, <2>13
<1>7. CASE ~(row <= Len(bsched))
  <2>1. phase' = "decoms" /\ row' = 1 /\ loaded' = loaded
    BY <1>7 DEF LoadBuildSched
  <2>2. row - 1 = Len(bsched)
    BY <1>3, <1>4, <1>7
  <2>3. BuildsTo(Len(bsched))
    BY <1>3, <2>2
  <2>4. BuildsTo(Len(bsched))'
    BY <1>1, <1>2, <2>1, <2>3 DEF BuildsTo
  <2>5. LoadTypes'
    BY <1>1, <2>1 DEF LoadTypes
  <2>6. row' \in 1..(Len(dsched') + 1) /\ row' - 1 = 0
    BY <1>2, <1>4, <2>1
  <2>7. LastOf(Empty, dsched, 0, from)
    BY DEF LastOf, Empty
  <2>8. LastOf(loaded'.decoms, dsched', row' - 1, from')
    BY <1>1, <1>2, <1>3, <2>1, <2>6, <2>7
  <2>9. LoadInv'
    BY <1>2, <2>1, <2>4, <2>6, <2>8 DEF LoadInv, SharedInv, Simulating, Loading
  <2> QED
    BY <1>2, <2>5, <2>9
<1> QED
  BY <1>6, <1>7

\* LoadDecomSched: a row of an agent that was not loaded ends it.
LEMMA LoadDecomSchedKeeps ==
    ASSUME SimInv, LoadTypes, LoadInv, LoadDecomSched
    PROVE  SimInv' /\ LoadTypes' /\ LoadInv'
<1>0. TableTypes /\ AgentsInv /\ PlansInv /\ SnapsInv
  BY DEF SimInv
<1>1. /\ phase = "decoms" /\ sim' = sim /\ from' = from /\ unbuilt' = unbuilt /\ it' = it /\ agents' = agents
      /\ phase' \in {"decoms", "crashed", "ids"}
  BY DEF LoadDecomSched
<1>2. /\ SimInv' /\ SharedInv' /\ unbuilt' = {} /\ it' = 0 /\ from \in Nat /\ from \in DOMAIN snaps
      /\ bsched' = bsched /\ dsched' = dsched
  BY <1>1, ReadingShared DEF Loading
<1>3. /\ row \in 1..(Len(dsched) + 1) /\ BuildsTo(Len(bsched))
      /\ LastOf(loaded.decoms, dsched, row - 1, from)
  BY <1>1 DEF LoadInv
<1>4. /\ Len(dsched) \in Nat /\ Times \subseteq Nat
      /\ \A k \in 1..Len(dsched) : dsched[k] \in [id : Nat, time : Times]
  BY <1>0, TableNumbers
<1>5. /\ loaded.builds \in [Times -> Seq(Nat)] /\ agents \in [DOMAIN agents -> Nat]
      /\ loaded = [builds |-> loaded.builds, decoms |-> loaded.decoms, next |-> loaded.next]
      /\ row \in Nat /\ loaded.decoms \in [DOMAIN loaded.decoms -> Times]
  BY DEF LoadTypes
<1>6. CASE row <= Len(dsched)
  <2> DEFINE d == dsched[row]
             null == d.time >= from /\ d.id \notin DOMAIN agents
             new == IF d.time >= from /\ ~ null THEN With(loaded.decoms, d.id, d.time) ELSE loaded.decoms
  <2>1. row \in 1..Len(dsched) /\ row - 1 \in Nat /\ (row - 1) + 1 = row
    BY <1>3, <1>4, <1>6
  <2>2. d.id \in Nat /\ d.time \in Times /\ d.time \in Nat
    BY <1>4, <2>1
  <2>3. /\ row' = row + 1 /\ phase' = IF null THEN "crashed" ELSE "decoms"
        /\ loaded' = IF d.time >= from /\ ~ null
                     THEN [loaded EXCEPT !.decoms = With(loaded.decoms, d.id, d.time)] ELSE loaded
    BY <1>6 DEF LoadDecomSched, NotBefore
  <2> HIDE DEF d, null
  <2>4. loaded' = [builds |-> loaded.builds, decoms |-> new, next |-> loaded.next]
    <3>1. CASE d.time >= from /\ ~ null
      BY <1>5, <2>3, <3>1
    <3>2. CASE ~(d.time >= from /\ ~ null)
      BY <1>5, <2>3, <3>2
    <3> QED
      BY <3>1, <3>2
  <2>5. new \in [DOMAIN new -> Times]
    <3>1. With(loaded.decoms, d.id, d.time) \in [DOMAIN With(loaded.decoms, d.id, d.time) -> Times]
      BY <1>5, <2>2 DEF With
    <3> QED
      BY <1>5, <3>1
  <2>6. ~ null => LastOf(new, dsched, (row - 1) + 1, from)
    <3> HAVE ~ null
    <3>1. new = IF dsched[(row - 1) + 1].time >= from
                THEN With(loaded.decoms, dsched[(row - 1) + 1].id, dsched[(row - 1) + 1].time)
                ELSE loaded.decoms
      BY <2>1 DEF d
    <3>2. loaded.decoms \in [DOMAIN loaded.decoms -> Nat]
      BY <1>4, <1>5
    <3>3. \A k \in 1..((row - 1) + 1) : dsched[k].time \in Nat
      <4>1. \A k \in 1..Len(dsched) : dsched[k].time \in Nat
        BY <1>4
      <4> QED
        BY <1>4, <2>1, <4>1
    <3> HIDE DEF new
    <3> QED
      BY <1>2, <1>3, <2>1, <3>1, <3>2, <3>3, LastOfNext
  <2> HIDE DEF new
  <2>7. loaded'.builds = loaded.builds /\ loaded'.decoms = new /\ loaded'.next = loaded.next
    BY <2>4
  <2>8. row' - 1 = (row - 1) + 1 /\ row' \in 1..(Len(dsched') + 1) /\ row' \in Nat
    BY <1>2, <1>4, <2>1, <2>3
  <2>9. LoadTypes'
    BY <1>1, <1>5, <2>4, <2>5, <2>7, <2>8 DEF LoadTypes
  <2>10. BuildsTo(Len(bsched))'
    BY <1>1, <1>2, <1>3, <2>7 DEF BuildsTo
  <2>11. CASE null
    <3>1. phase' = "crashed"
      BY <2>3, <2>11
    <3>2. LoadInv'
      BY <1>2, <3>1 DEF LoadInv, SharedInv, Simulating, Loading
    <3> QED
      BY <1>2, <2>9, <3>2
  <2>12. CASE ~ null
    <3>1. phase' = "decoms"
      BY <2>3, <2>12
    <3>2. LastOf(loaded'.decoms, dsched', row' - 1, from')
      BY <1>1, <1>2, <2>6, <2>7, <2>8, <2>12
    <3>3. LoadInv'
      BY <1>2, <2>8, <2>10, <3>1, <3>2 DEF LoadInv, SharedInv, Simulating, Loading
    <3> QED
      BY <1>2, <2>9, <3>3
  <2> QED
    BY <2>11, <2>12
<1>7. CASE ~(row <= Len(dsched))
  <2>1. phase' = "ids" /\ row' = 1 /\ loaded' = loaded
    BY <1>7 DEF LoadDecomSched
  <2>2. row - 1 = Len(dsched)
    BY <1>3, <1>4, <1>7
  <2>3. LastOf(loaded'.decoms, dsched', Len(dsched'), from')
    BY <1>1, <1>2, <1>3, <2>1, <2>2
  <2>4. BuildsTo(Len(bsched))'
    BY <1>1, <1>2, <1>3, <2>1 DEF BuildsTo
  <2>5. LoadTypes'
    BY <1>1, <2>1 DEF LoadTypes
  <2>6. LoadInv'
    BY <1>2, <2>1, <2>3, <2>4 DEF LoadInv, SharedInv, Simulating, Loading
  <2> QED
    BY <1>2, <2>5, <2>6
<1> QED
  BY <1>6, <1>7

\* LoadNextIds
LEMMA LoadNextIdsKeeps ==
    ASSUME SimInv, LoadTypes, LoadInv, LoadNextIds
    PROVE  SimInv' /\ LoadTypes' /\ LoadInv'
<1>1. /\ phase = "ids" /\ phase' = "loaded" /\ sim' = sim /\ from' = from /\ unbuilt' = unbuilt
      /\ it' = it /\ agents' = agents /\ row' = row
  BY DEF LoadNextIds
<1>2. /\ SimInv' /\ SharedInv' /\ unbuilt' = {} /\ it' = 0 /\ from \in DOMAIN snaps
      /\ bsched' = bsched /\ dsched' = dsched /\ snaps' = snaps
  BY <1>1, ReadingShared DEF Loading
<1>3. PICK n \in nextIds : n[1] = from /\ loaded' = [loaded EXCEPT !.next = n[2]]
  BY DEF LoadNextIds
<1>4. n[2] = snaps[from].next
  BY <1>3 DEF SimInv, SnapsInv
<1>5. loaded = [builds |-> loaded.builds, decoms |-> loaded.decoms, next |-> loaded.next]
  BY DEF LoadTypes
<1>6. loaded' = [builds |-> loaded.builds, decoms |-> loaded.decoms, next |-> n[2]]
  BY <1>3, <1>5
<1>7. loaded'.builds = loaded.builds /\ loaded'.decoms = loaded.decoms /\ loaded'.next = n[2]
  BY <1>6
<1>8. LoadTypes'
  BY <1>1, <1>6, <1>7 DEF LoadTypes
<1>9. BuildsTo(Len(bsched))'
  BY <1>1, <1>2, <1>7 DEF BuildsTo, LoadInv
<1>10. LastOf(loaded'.decoms, dsched', Len(dsched'), from')
  BY <1>1, <1>2, <1>7 DEF LoadInv
<1>11. LoadInv'
  BY <1>1, <1>2, <1>4, <1>7, <1>9, <1>10 DEF LoadInv, SharedInv, Simulating, Loading
<1> QED
  BY <1>2, <1>8, <1>11

-----------------------------------------------------------------------------
(***************************************************************************)
(* The invariant.                                                          *)
(***************************************************************************)
\* The input file's agents are in the table AgentEntry and nothing is planned.
LEMMA InitInv ==
    ASSUME Init
    PROVE  RestartInv
<1>1. Initial \in Nat /\ Duration \in Nat /\ Times = 0..Duration /\ Times \subseteq Nat
  BY SimRestartAssumption DEF Times
<1>2. \A i \in 1..Initial : /\ i \in Nat /\ i < Initial + 1
                            /\ InitialParent(i) \in Nat /\ InitialParent(i) < Initial + 1
  BY <1>1 DEF InitialParent, None
<1>3. /\ DOMAIN alive = 1..Initial /\ alive \in [DOMAIN alive -> Nat]
      /\ \A i \in 1..Initial : alive[i] = InitialParent(i)
  BY <1>2 DEF Init
<1>4. entry = {[id |-> i, parent |-> InitialParent(i), enter |-> 0] : i \in 1..Initial}
  BY DEF Init
<1>5. \A e \in entry : /\ e.id \in 1..Initial /\ e.enter = 0
                       /\ e = [id |-> e.id, parent |-> InitialParent(e.id), enter |-> 0]
  BY <1>4
<1>6. ASSUME NEW i \in 1..Initial
      PROVE  \E e \in entry : e.id = i /\ e.parent = InitialParent(i)
  <2> DEFINE e == [id |-> i, parent |-> InitialParent(i), enter |-> 0]
  <2>1. e \in entry /\ e.id = i /\ e.parent = InitialParent(i)
    BY <1>4
  <2> QED
    BY <2>1
<1>7. /\ time = 0 /\ phase = "input" /\ nextId = Initial + 1 /\ calls = 0 /\ exits = {}
      /\ bsched = << >> /\ dsched = << >> /\ nextIds = {} /\ snaps = Empty /\ decoms = Empty
      /\ builds = NoBuilds /\ agents = Empty /\ row = 1 /\ from = 0 /\ unbuilt = {} /\ it = 0
      /\ loaded = [builds |-> NoBuilds, decoms |-> Empty, next |-> 0]
  BY DEF Init
<1>8. NoBuilds \in [Times -> Seq(Nat)] /\ \A t \in Times : NoBuilds[t] = << >>
  BY DEF NoBuilds
<1>9. DOMAIN Empty = {} /\ \A T : Empty \in [{} -> T]
  BY DEF Empty
<1>10. TableTypes
  <2>1. entry \subseteq [id : Nat, parent : Nat, enter : 0..time]
    BY <1>2, <1>5, <1>7
  <2>2. bsched \in BuildTable /\ dsched \in DecomTable
    BY <1>7 DEF BuildTable, DecomTable
  <2>3. time \in Times /\ nextId \in Nat /\ calls \in Nat /\ phase \in Simulating
    BY <1>1, <1>7 DEF Simulating
  <2> QED
    BY <1>3, <1>7, <1>8, <1>9, <2>1, <2>2, <2>3 DEF TableTypes
<1>11. AgentsInv
  <2>1. \A e, f \in entry : e.id = f.id => e = f
    BY <1>5
  <2>2. \A e \in entry : e.id < nextId /\ e.parent < nextId
    BY <1>2, <1>5, <1>7
  <2>3. \A a \in DOMAIN alive : Parented(a, alive[a], entry, DOMAIN alive)
    BY <1>3, <1>6 DEF Parented
  <2>4. \A e \in entry : e.id \in DOMAIN alive <=> ~ \E x \in exits : x.id = e.id
    BY <1>3, <1>5, <1>7
  <2> QED
    BY <1>7, <2>1, <2>2, <2>3, <2>4 DEF AgentsInv
<1>12. PlansInv
  <2>1. 0 \in Times /\ Len(bsched) = 0 /\ Len(dsched) = 0
    BY <1>1, <1>7
  <2>2. \A t \in Times : Listed(builds[t], bsched, Len(bsched), t, Nat)
    BY <1>7, <1>8, <2>1, ListedNone
  <2>3. LastOf(decoms, dsched, Len(dsched), 0)
    BY <1>7, <1>9, <2>1 DEF LastOf
  <2>4. \A t \in Times : DOMAIN builds[t] = {}
    BY <1>7, <1>8
  <2> QED
    BY <1>7, <1>8, <1>9, <2>1, <2>2, <2>3, <2>4 DEF PlansInv
<1>13. SnapsInv
  BY <1>7, <1>9 DEF SnapsInv
<1>14. LoadTypes
  BY <1>7, <1>8, <1>9 DEF LoadTypes
<1>15. LoadInv
  BY <1>7 DEF LoadInv, Fresh, Simulating, Loading
<1> QED
  BY <1>10, <1>11, <1>12, <1>13, <1>14, <1>15 DEF RestartInv

\* Nothing changes in a stuttering step.
LEMMA StutterInv ==
    ASSUME RestartInv, vars' = vars
    PROVE  RestartInv'
<1>1. phase' = phase /\ sim' = sim /\ init' = init
  BY DEF vars
<1>2. /\ time' = time /\ alive' = alive /\ builds' = builds /\ decoms' = decoms /\ nextId' = nextId
      /\ entry' = entry /\ exits' = exits /\ bsched' = bsched /\ dsched' = dsched
      /\ nextIds' = nextIds /\ snaps' = snaps /\ calls' = calls
  BY <1>1 DEF sim
<1>3. /\ from' = from /\ unbuilt' = unbuilt /\ it' = it /\ agents' = agents /\ row' = row
      /\ loaded' = loaded
  BY <1>1 DEF init
<1>4. TableTypes' /\ AgentsInv' /\ PlansInv'
  BY <1>1, <1>2 DEF RestartInv, TableTypes, AgentsInv, PlansInv
<1>5. SnapsInv'
  BY <1>1, <1>2 DEF RestartInv, SnapsInv, Kept, Now
<1>6. LoadTypes' /\ LoadInv'
  BY <1>1, <1>2, <1>3 DEF RestartInv, LoadTypes, LoadInv, Fresh, BuildsTo, Selected, Connected
<1> QED
  BY <1>4, <1>5, <1>6 DEF RestartInv

\* Every step keeps the invariant.
LEMMA NextInv ==
    ASSUME RestartInv, [Next]_vars
    PROVE  RestartInv'
<1>0. SimInv /\ LoadTypes /\ LoadInv
  BY DEF RestartInv, SimInv
<1>1. ASSUME SchedBuild \/ SchedDecom \/ InputRead \/ BeginStep \/ EndStep \/ FinishSim
      PROVE  RestartInv'
  <2>1. SimInv'
    BY <1>0, <1>1, SchedBuildKeeps, SchedDecomKeeps, SnapshotKeeps, BeginStepKeeps, EndStepKeeps
  <2>2. phase \in Simulating /\ phase' \in Simulating /\ init' = init
    BY <1>1 DEF SchedBuild, SchedDecom, MayCall, InputRead, BeginStep, EndStep, FinishSim, Simulating
  <2>3. LoadTypes' /\ LoadInv'
    BY <1>0, <2>2, SimKeepsLoad
  <2> QED
    BY <2>1, <2>3 DEF RestartInv, SimInv
<1>2. ASSUME LoadInitialAgents \/ Connect \/ LoadBuildSched \/ LoadDecomSched \/ LoadNextIds
      PROVE  RestartInv'
  <2>1. SimInv' /\ LoadTypes' /\ LoadInv'
    BY <1>0, <1>2, LoadInitialAgentsKeeps, ConnectKeeps, LoadBuildSchedKeeps, LoadDecomSchedKeeps,
       LoadNextIdsKeeps
  <2> QED
    BY <2>1 DEF RestartInv, SimInv
<1>3. ASSUME Done \/ vars' = vars
      PROVE  RestartInv'
  BY <1>3, StutterInv DEF Done
<1> QED
  BY <1>1, <1>2, <1>3 DEF Next

\* The inductive invariant of the simulation, its tables and SimInit.
THEOREM Invariance == Spec => []RestartInv
<1>1. Init => RestartInv
  BY InitInv
<1>2. RestartInv /\ [Next]_vars => RestartInv'
  BY NextInv
<1> QED
  BY <1>1, <1>2, PTL DEF Spec

-----------------------------------------------------------------------------
(***************************************************************************)
(* What SimInit gives back.                                                *)
(***************************************************************************)
\* What is known when SimInit has ended.
LEMMA AtEnd ==
    ASSUME RestartInv, phase = "loaded"
    PROVE  /\ TableTypes /\ AgentsInv /\ PlansInv /\ SnapsInv /\ LoadTypes
           /\ from \in DOMAIN snaps /\ from \in Nat /\ Kept(from, snaps[from])
           /\ DOMAIN agents = Chosen(from, entry, exits)
           /\ \A i \in DOMAIN agents : Connected(i)
           /\ BuildsTo(Len(bsched)) /\ LastOf(loaded.decoms, dsched, Len(dsched), from)
           /\ loaded.next = snaps[from].next
<1>1. TableTypes /\ AgentsInv /\ PlansInv /\ SnapsInv /\ LoadTypes /\ LoadInv
  BY DEF RestartInv
<1>2. /\ from \in DOMAIN snaps /\ unbuilt \cup DOMAIN agents = Selected(from) /\ unbuilt = {}
      /\ \A i \in DOMAIN agents : Connected(i)
      /\ BuildsTo(Len(bsched)) /\ LastOf(loaded.decoms, dsched, Len(dsched), from)
      /\ loaded.next = snaps[from].next
  BY <1>1 DEF LoadInv, Loading
<1>3. from \in 0..time /\ Kept(from, snaps[from]) /\ time \in Nat
  BY <1>1, <1>2, TableNumbers DEF SnapsInv
<1>4. DOMAIN agents = Chosen(from, entry, exits) /\ from \in Nat
  BY <1>2, <1>3 DEF Selected
<1> QED
  BY <1>1, <1>2, <1>3, <1>4

\* The agents of the snapshot, with their parents.
LEMMA SameAgents ==
    ASSUME RestartInv, phase = "loaded"
    PROVE  agents = snaps[from].alive /\ loaded.next = snaps[from].next
<1> DEFINE r == snaps[from]
<1>1. /\ AgentsInv /\ LoadTypes /\ Kept(from, r) /\ DOMAIN agents = Chosen(from, entry, exits)
      /\ \A i \in DOMAIN agents : Connected(i)
      /\ loaded.next = r.next
  BY AtEnd
<1> HIDE DEF r
<1>2. /\ r.alive \in [DOMAIN agents -> Nat]
      /\ \A a \in DOMAIN agents : Parented(a, r.alive[a], entry, DOMAIN agents)
  BY <1>1 DEF Kept, KeptIn
<1>3. agents \in [DOMAIN agents -> Nat]
  BY <1>1 DEF LoadTypes
<1>4. ASSUME NEW a \in DOMAIN agents
      PROVE  agents[a] = r.alive[a]
  BY <1>1, <1>2 DEF AgentsInv, Parented, Connected
<1>5. agents = r.alive
  BY <1>2, <1>3, <1>4
<1> QED
  BY <1>1, <1>5 DEF r

\* The builds that were pending, first in their queues.
LEMMA SameBuilds ==
    ASSUME RestartInv, phase = "loaded", NEW t \in Times, t > from
    PROVE  \A k \in DOMAIN snaps[from].builds[t] : /\ k \in DOMAIN loaded.builds[t]
                                                   /\ loaded.builds[t][k] =
                                                        Known(snaps[from].builds[t][k], DOMAIN agents)
<1> DEFINE r == snaps[from]
<1>1. /\ TableTypes /\ AgentsInv /\ LoadTypes /\ Kept(from, r) /\ BuildsTo(Len(bsched))
      /\ DOMAIN agents = Chosen(from, entry, exits)
  BY AtEnd
<1> HIDE DEF r
<1>2. /\ r.builds \in [Times -> Seq(Nat)] /\ \E n \in 0..Len(bsched) : Listed(r.builds[t], bsched, n, t, Nat)
  BY <1>1 DEF Kept, KeptIn
<1>3. PICK n \in 0..Len(bsched) : Listed(r.builds[t], bsched, n, t, Nat)
  BY <1>2
<1>4. Listed(loaded.builds[t], bsched, Len(bsched), t, DOMAIN agents)
  BY <1>1 DEF BuildsTo
<1>5. /\ Len(bsched) \in Nat /\ n \in Nat /\ n <= Len(bsched)
      /\ \A k \in 1..n : bsched[k].parent \in Nat
  <2>1. Len(bsched) \in Nat /\ \A k \in 1..Len(bsched) : bsched[k] \in [parent : Nat, time : Times]
    BY <1>1, TableNumbers
  <2>2. \A k \in 1..Len(bsched) : bsched[k].parent \in Nat
    BY <2>1
  <2> QED
    BY <2>1, <2>2
<1>6. /\ DOMAIN r.builds[t] = 1..Len(r.builds[t]) /\ DOMAIN loaded.builds[t] = 1..Len(loaded.builds[t])
  <2>1. loaded.builds \in [Times -> Seq(Nat)]
    BY <1>1 DEF LoadTypes
  <2> QED
    BY <1>2, <2>1
<1>7. \A k \in 1..Len(r.builds[t]) : /\ k \in 1..Len(loaded.builds[t])
                                     /\ loaded.builds[t][k] = Known(r.builds[t][k], DOMAIN agents)
  <2> DEFINE old == r.builds[t]
             new == loaded.builds[t]
             S == DOMAIN agents
             m == Len(bsched)
  <2>1. /\ Listed(old, bsched, n, t, Nat) /\ Listed(new, bsched, m, t, S)
        /\ m \in Nat /\ n \in Nat /\ n <= m
    BY <1>3, <1>4, <1>5
  <2> HIDE DEF old, new, S, m
  <2>2. \A k \in 1..Len(old) : k \in 1..Len(new) /\ new[k] = Known(old[k], S)
    BY <1>5, <2>1, ListedPrefix
  <2> QED
    BY <2>2 DEF old, new, S
<1> QED
  BY <1>6, <1>7 DEF r

\* What was planned at the snapshot for later.
LEMMA SamePlans ==
    ASSUME RestartInv
    PROVE  PlansRestored
<1> SUFFICES ASSUME phase = "loaded"
             PROVE  PendingDecomsKept /\ FutureBuildsKept
  BY DEF PlansRestored, PendingDecomsKept, FutureBuildsKept, Loaded
<1> DEFINE r == snaps[from]
<1>1. /\ TableTypes /\ AgentsInv /\ Kept(from, r) /\ LastOf(loaded.decoms, dsched, Len(dsched), from)
  BY AtEnd
<1>2. FutureBuildsKept
  BY SameBuilds, SameAgents DEF FutureBuildsKept, Known
<1> HIDE DEF r
<1>3. DOMAIN r.decoms \subseteq DOMAIN loaded.decoms
  <2> SUFFICES ASSUME NEW a \in DOMAIN r.decoms
               PROVE  a \in DOMAIN loaded.decoms
    OBVIOUS
  <2>1. PICK k \in DOMAIN dsched : dsched[k].id = a /\ dsched[k].time >= from
    BY <1>1 DEF Kept, KeptIn
  <2>2. k \in 1..Len(dsched)
    BY <1>1, TableNumbers
  <2> QED
    BY <1>1, <2>1, <2>2 DEF LastOf
<1>4. \A a \in DOMAIN loaded.decoms : loaded.decoms[a] >= from
  BY <1>1 DEF LastOf
<1>5. PendingDecomsKept
  BY <1>3, <1>4 DEF PendingDecomsKept, r
<1> QED
  BY <1>2, <1>5

\* An initialization gives back the simulation as the input file described it.
LEMMA SameSimulation ==
    ASSUME RestartInv
    PROVE  InitFaithful
<1> SUFFICES ASSUME phase = "loaded", from = 0, time = 0
             PROVE  /\ agents = snaps[0].alive /\ loaded.next = snaps[0].next
                    /\ loaded.builds = snaps[0].builds /\ loaded.decoms = snaps[0].decoms
  BY DEF InitFaithful, Loaded
<1>1. /\ TableTypes /\ AgentsInv /\ PlansInv /\ SnapsInv /\ LoadTypes /\ Kept(0, snaps[0])
      /\ BuildsTo(Len(bsched)) /\ LastOf(loaded.decoms, dsched, Len(dsched), 0)
  BY AtEnd
<1>2. snaps[0].builds = builds /\ snaps[0].decoms = decoms /\ snaps[0].alive = alive
  <2>1. snaps[0] = Now
    BY <1>1 DEF SnapsInv
  <2> QED
    BY <2>1 DEF Now
<1>3. /\ builds \in [Times -> Seq(Nat)] /\ loaded.builds \in [Times -> Seq(Nat)]
      /\ decoms \in [DOMAIN decoms -> Times] /\ loaded.decoms \in [DOMAIN loaded.decoms -> Times]
  BY <1>1 DEF TableTypes, LoadTypes
<1>4. /\ Times \subseteq Nat /\ Len(dsched) \in Nat
      /\ \A k \in 1..Len(dsched) : dsched[k].time \in Nat
  <2>1. /\ Times \subseteq Nat /\ Len(dsched) \in Nat
        /\ \A k \in 1..Len(dsched) : dsched[k] \in [id : Nat, time : Times]
    BY <1>1, TableNumbers
  <2> QED
    BY <2>1
<1>5. ASSUME NEW t \in Times
      PROVE  loaded.builds[t] = builds[t]
  <2>1. CASE t > 0
    <3>1. /\ Len(builds[t]) = Rank(bsched, Len(bsched), t)
          /\ Len(loaded.builds[t]) = Rank(bsched, Len(bsched), t)
      BY <1>1, <2>1 DEF PlansInv, BuildsTo, Listed
    <3>2. builds[t] \in Seq(Nat) /\ loaded.builds[t] \in Seq(Nat)
      BY <1>3
    <3>3. \A k \in DOMAIN builds[t] : loaded.builds[t][k] = builds[t][k]
      <4>1. \A k \in DOMAIN builds[t] : builds[t][k] \in DOMAIN alive \cup {None}
        BY <1>1 DEF PlansInv
      <4>2. DOMAIN agents = DOMAIN alive
        BY <1>2, SameAgents
      <4> QED
        BY <1>2, <2>1, <4>1, <4>2, SameBuilds DEF Known
    <3> QED
      BY <3>1, <3>2, <3>3, SeqEqual
  <2>2. CASE ~(t > 0)
    <3>1. t = 0
      BY <1>4, <2>2
    <3> QED
      BY <1>1, <2>2, <3>1 DEF PlansInv, BuildsTo
  <2> QED
    BY <2>1, <2>2
<1>6. loaded.builds = builds
  BY <1>3, <1>5
<1>7. LastOf(decoms, dsched, Len(dsched), 0)
  BY <1>1 DEF PlansInv
<1>8. loaded.decoms = decoms
  BY <1>1, <1>3, <1>4, <1>7, LastOfEqual
<1>9. agents = snaps[0].alive /\ loaded.next = snaps[0].next
  BY SameAgents
<1> QED
  BY <1>2, <1>6, <1>8, <1>9

\* A restart brings back the agents of its snapshot and no others, with their parents, and
\* the next id (SimInit::LoadInitialAgents, LoadNextIds).
THEOREM RestartsAgents == Spec => []AgentsRestored
<1>1. RestartInv => AgentsRestored
  BY SameAgents DEF AgentsRestored, Loaded
<1> QED
  BY <1>1, Invariance, PTL

\* What was planned at the snapshot for later time steps is planned after a restart
\* (SimInit::LoadBuildSched, LoadDecomSched).
THEOREM RestartsPlans == Spec => []PlansRestored
<1>1. RestartInv => PlansRestored
  BY SamePlans
<1> QED
  BY <1>1, Invariance, PTL

\* Initialization from the loader's tables gives back the agents, both queues and the next
\* id as the input file described them (SimInit::Init).
THEOREM InitIsFaithful == Spec => []InitFaithful
<1>1. RestartInv => InitFaithful
  BY SameSimulation
<1> QED
  BY <1>1, Invariance, PTL

\* The types the invariant gives.
LEMMA InvTypes ==
    ASSUME RestartInv
    PROVE  TypeOK
<1>1. TableTypes /\ AgentsInv /\ PlansInv /\ SnapsInv /\ LoadTypes /\ LoadInv
  BY DEF RestartInv
<1>2. /\ time \in Nat /\ nextId \in Nat /\ Times = 0..Duration /\ Duration \in Nat
      /\ \A e \in entry : e.id \in Nat /\ e.id < nextId
      /\ \A x \in exits : x.id \in Nat /\ x.id < nextId
  BY <1>1, TableNumbers DEF TableTypes, AgentsInv
<1>3. entry \subseteq [id : 0..(nextId - 1), parent : Nat, enter : 0..time]
  <2>1. entry \subseteq [id : Nat, parent : Nat, enter : 0..time]
    BY <1>1 DEF TableTypes
  <2> QED
    BY <1>2, <2>1
<1>4. exits \subseteq [id : 0..(nextId - 1), time : 0..(time - 1)]
  <2>1. exits \subseteq [id : Nat, time : 0..(time - 1)]
    BY <1>1 DEF TableTypes
  <2> QED
    BY <1>2, <2>1
<1>5. decoms \in [DOMAIN decoms -> time..Duration]
  <2>1. decoms \in [DOMAIN decoms -> Times] /\ \A a \in DOMAIN decoms : decoms[a] >= time
    BY <1>1 DEF TableTypes, PlansInv
  <2> QED
    BY <1>2, <2>1
<1>6. /\ DOMAIN snaps \subseteq 0..time /\ from \in DOMAIN snaps \cup {0} /\ it \in unbuilt \cup {0}
  <2>1. phase \in Simulating \/ phase \in Loading
    BY <1>1 DEF TableTypes
  <2> QED
    BY <1>1, <2>1 DEF SnapsInv, LoadInv
<1>7. /\ unbuilt \subseteq {e.id : e \in entry} /\ DOMAIN agents \subseteq {e.id : e \in entry}
  <2>1. CASE phase \in Simulating
    <3>1. unbuilt = {} /\ agents = Empty
      BY <1>1, <2>1 DEF LoadInv
    <3> QED
      BY <3>1 DEF Empty
  <2>2. CASE phase \in Loading
    <3>1. unbuilt \cup DOMAIN agents = Selected(from)
      BY <1>1, <2>2 DEF LoadInv
    <3>2. Selected(from) \subseteq {e.id : e \in entry}
      BY DEF Selected, Chosen
    <3> QED
      BY <3>1, <3>2
  <2> QED
    BY <1>1, <2>1, <2>2 DEF TableTypes
<1>8. /\ phase \in {"input", "begin", "events", "ended", "connect", "builds", "decoms", "ids",
                    "loaded", "crashed"}
  BY <1>1 DEF TableTypes, Simulating, Loading
<1>9. /\ time \in Times /\ calls \in Nat /\ alive \in [DOMAIN alive -> Nat]
      /\ builds \in [Times -> Seq(Nat)]
      /\ bsched \in Seq([parent : Nat, time : Times]) /\ dsched \in Seq([id : Nat, time : Times])
  BY <1>1 DEF TableTypes, BuildTable, DecomTable
<1>10. DOMAIN decoms \subseteq DOMAIN alive
  BY <1>1 DEF PlansInv
<1>11. /\ row \in Nat /\ agents \in [DOMAIN agents -> Nat] /\ loaded.builds \in [Times -> Seq(Nat)]
       /\ loaded.decoms \in [DOMAIN loaded.decoms -> Times]
  BY <1>1 DEF LoadTypes
<1> QED
  BY <1>2, <1>3, <1>4, <1>5, <1>6, <1>7, <1>8, <1>9, <1>10, <1>11 DEF TypeOK

\* The variables of the simulation, its tables and SimInit keep their types.
THEOREM TypeCorrect == Spec => []TypeOK
<1>1. RestartInv => TypeOK
  BY InvTypes
<1> QED
  BY <1>1, Invariance, PTL
=============================================================================
