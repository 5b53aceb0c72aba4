------------------------------ MODULE SetSums ------------------------------
(***************************************************************************)
(* Sums and products over finite sets, and their least and greatest        *)
(* members.  MapThenSumSet and FoldSet are defined by recursion over the   *)
(* subsets of their set; what they compute is proved by induction over     *)
(* finite sets, in the form that a set of finite sets that is not empty    *)
(* has a smallest member.                                                  *)
(***************************************************************************)
EXTENDS Integers, FiniteSetsExt, FiniteSetTheorems, TLAPS

\* The sum of g[x] over the members x of S.
Total(g, S) == MapThenSumSet(LAMBDA x : g[x], S)

\* The recursion behind sums and products: h[s] is that over the subset s of S.
Pick(s) == CHOOSE x \in s : TRUE
Base(m) == IF m = "sum" THEN 0 ELSE 1
Step(m, a, v) == IF m = "sum" THEN a + v ELSE a * v
Rec(m, h, g, S) ==
    h = [s \in SUBSET S |->
           IF s = {} THEN Base(m) ELSE Step(m, g[Pick(s)], h[s \ {Pick(s)}])]

\* Induction over finite sets: among subsets of a finite set there is a
\* smallest one.
LEMMA SmallestSet ==
    ASSUME NEW S, IsFiniteSet(S), NEW T, T \subseteq SUBSET S, T # {}
    PROVE  \E A \in T : \A B \in T : ~ (B \subseteq A /\ B # A)
<1>1. IsWellFoundedOn(StrictSubsetOrdering(S), FiniteSubsetsOf(S))
  BY FS_StrictSubsetOrderingWellFounded
<1>2. FiniteSubsetsOf(S) = SUBSET S
  BY FS_FiniteSubsetsOfFinite
<1>3. PICK A \in T : \A B \in T : ~ (<<B, A>> \in StrictSubsetOrdering(S))
  BY <1>1, <1>2, WFMin
<1> QED
  BY <1>3 DEF StrictSubsetOrdering

\* The picked member is one.
LEMMA PickIn ==
    ASSUME NEW s, s # {}
    PROVE  Pick(s) \in s
  BY DEF Pick

\* The recursion at a subset.
LEMMA RecValue ==
    ASSUME NEW m, NEW S, NEW g, NEW h, Rec(m, h, g, S), NEW A \in SUBSET S
    PROVE  h[A] = IF A = {} THEN Base(m) ELSE Step(m, g[Pick(A)], h[A \ {Pick(A)}])
  BY DEF Rec

\* Two recursions over equal values agree, also from different sets.
LEMMA RecUnique ==
    ASSUME NEW m, NEW R, NEW S, NEW f, NEW g, NEW h, NEW k, Rec(m, h, f, R), Rec(m, k, g, S),
           NEW A \in SUBSET R, A \in SUBSET S, IsFiniteSet(A), \A x \in A : f[x] = g[x]
    PROVE  h[A] = k[A]
<1> SUFFICES ASSUME h[A] # k[A]
             PROVE  FALSE
  OBVIOUS
<1> DEFINE T == {B \in SUBSET A : h[B] # k[B]}
<1>1. T \subseteq SUBSET A /\ T # {}
  OBVIOUS
<1>2. PICK B \in T : \A C \in T : ~ (C \subseteq B /\ C # B)
  <2> HIDE DEF T
  <2> QED
    BY <1>1, SmallestSet
<1>3. B \in SUBSET R /\ B \in SUBSET S /\ h[B] # k[B]
  BY <1>2
<1>4. h[B] = IF B = {} THEN Base(m) ELSE Step(m, f[Pick(B)], h[B \ {Pick(B)}])
  BY <1>3 DEF Rec
<1>5. k[B] = IF B = {} THEN Base(m) ELSE Step(m, g[Pick(B)], k[B \ {Pick(B)}])
  BY <1>3 DEF Rec
<1>6. B # {}
  BY <1>3, <1>4, <1>5
<1> DEFINE p == Pick(B)
<1>7. p \in B
  BY <1>6, PickIn
<1>8. h[B \ {p}] = k[B \ {p}]
  BY <1>2, <1>7
<1>9. f[p] = g[p]
  BY <1>2, <1>7
<1> QED
  BY <1>3, <1>4, <1>5, <1>6, <1>8, <1>9

\* The recursion over a finite set defines a function.
LEMMA RecExists ==
    ASSUME NEW m, NEW S, IsFiniteSet(S), NEW g
    PROVE  \E h : Rec(m, h, g, S)
<1> SUFFICES ASSUME ~ \E h : Rec(m, h, g, S)
             PROVE  FALSE
  OBVIOUS
<1> DEFINE T == {B \in SUBSET S : ~ \E h : Rec(m, h, g, B)}
<1>1. T \subseteq SUBSET S /\ T # {}
  OBVIOUS
<1>2. PICK A \in T : \A C \in T : ~ (C \subseteq A /\ C # A)
  <2> HIDE DEF T
  <2> QED
    BY <1>1, SmallestSet
<1>3. IsFiniteSet(A) /\ \A B \in SUBSET A : IsFiniteSet(B)
  BY <1>2, FS_Subset
<1> DEFINE K(B) == CHOOSE k : Rec(m, k, g, B)
           less(s) == s \ {Pick(s)}
           h == [s \in SUBSET A |-> IF s = {} THEN Base(m) ELSE Step(m, g[Pick(s)], K(less(s))[less(s)])]
<1>4. \A B \in SUBSET A : B # A => Rec(m, K(B), g, B)
  BY <1>2
<1>5. \A s \in SUBSET A : s # {} => less(s) \in SUBSET A /\ less(s) # A /\ less(s) # s
  BY PickIn
<1> HIDE DEF K
<1>6. ASSUME NEW s \in SUBSET A, s # {}
      PROVE  K(less(s))[less(s)] = h[less(s)]
  <2> DEFINE t == less(s)
             k == K(t)
  <2>1. t \in SUBSET A /\ t # A /\ Rec(m, k, g, t) /\ t \in SUBSET t
    BY <1>4, <1>5, <1>6
  <2> HIDE DEF t, k, less
  <2>2. CASE t = {}
    <3>1. k[t] = Base(m)
      BY <2>1, <2>2, RecValue
    <3>2. h[t] = Base(m)
      BY <2>1, <2>2
    <3> QED
      BY <3>1, <3>2 DEF t, k
  <2>3. CASE t # {}
    <3> DEFINE u == less(t)
               l == K(u)
    <3>1. u \in SUBSET t /\ u \in SUBSET A /\ u # A
      BY <1>5, <2>1, <2>3 DEF less
    <3>2. Rec(m, l, g, u) /\ IsFiniteSet(u) /\ u \in SUBSET u
      BY <1>3, <1>4, <3>1
    <3>3. k[t] = Step(m, g[Pick(t)], k[u])
      BY <2>1, <2>3, RecValue DEF less
    <3>4. h[t] = Step(m, g[Pick(t)], l[u])
      BY <2>1, <2>3
    <3> HIDE DEF u, l, h
    <3>5. k[u] = l[u]
      BY <2>1, <3>1, <3>2, RecUnique
    <3> QED
      BY <3>3, <3>4, <3>5 DEF t, k
  <2> QED
    BY <2>2, <2>3
<1>7. h = [s \in SUBSET A |-> IF s = {} THEN Base(m) ELSE Step(m, g[Pick(s)], h[s \ {Pick(s)}])]
  <2>1. \A s \in SUBSET A : s # {} => K(less(s))[less(s)] = h[less(s)]
    BY <1>6
  <2> DEFINE e(s) == IF s = {} THEN Base(m) ELSE Step(m, g[Pick(s)], h[s \ {Pick(s)}])
  <2>2. \A s \in SUBSET A : h[s] = e(s)
    BY <2>1
  <2> HIDE DEF e
  <2>3. h = [s \in SUBSET A |-> h[s]]
    OBVIOUS
  <2>4. h = [s \in SUBSET A |-> e(s)]
    <3> HIDE DEF h
    <3> QED
      BY <2>2, <2>3
  <2> QED
    BY <2>4 DEF e
<1>8. Rec(m, h, g, A)
  BY <1>7 DEF Rec
<1> HIDE DEF h
<1> QED
  BY <1>2, <1>8
\* A sum is the value of the recursion.
LEMMA Unfold ==
    ASSUME NEW S, IsFiniteSet(S), NEW g
    PROVE  \E h : Rec("sum", h, g, S) /\ Total(g, S) = h[S]
<1>1. \E h : Rec("sum", h, g, S)
  BY RecExists
<1> DEFINE k == CHOOSE h : Rec("sum", h, g, S)
<1>2. Rec("sum", k, g, S)
  BY <1>1
<1>3. Total(g, S) = k[S]
  BY DEF Total, MapThenSumSet, MapThenFoldSet, Rec, Pick, Base, Step
<1> QED
  BY <1>2, <1>3

\* A sum depends only on the values it adds up.
LEMMA TotalCong ==
    ASSUME NEW S, IsFiniteSet(S), NEW f, NEW g, \A x \in S : f[x] = g[x]
    PROVE  Total(f, S) = Total(g, S)
<1>1. PICK h : Rec("sum", h, f, S) /\ Total(f, S) = h[S]
  BY Unfold
<1>2. PICK k : Rec("sum", k, g, S) /\ Total(g, S) = k[S]
  BY Unfold
<1>3. S \in SUBSET S
  OBVIOUS
<1>4. h[S] = k[S]
  BY <1>1, <1>2, <1>3, RecUnique
<1> QED
  BY <1>1, <1>2, <1>4

\* The sum over the empty set is zero.
LEMMA TotalEmpty ==
    ASSUME NEW g
    PROVE  Total(g, {}) = 0
<1>1. IsFiniteSet({})
  BY FS_EmptySet
<1>2. PICK h : Rec("sum", h, g, {}) /\ Total(g, {}) = h[{}]
  BY <1>1, Unfold
<1>3. {} \in SUBSET {}
  OBVIOUS
<1>4. h[{}] = IF {} = {} THEN 0 ELSE g[Pick({})] + h[{} \ {Pick({})}]
  BY <1>2, <1>3 DEF Rec, Base, Step
<1> QED
  BY <1>2, <1>4

\* A sum is that of the picked member and the rest.
LEMMA TotalPick ==
    ASSUME NEW S, IsFiniteSet(S), S # {}, NEW g
    PROVE  /\ Pick(S) \in S
           /\ Total(g, S) = g[Pick(S)] + Total(g, S \ {Pick(S)})
<1> DEFINE p == Pick(S)
           R == S \ {p}
<1>1. IsFiniteSet(R) /\ R \in SUBSET S /\ R \in SUBSET R /\ S \in SUBSET S
  BY FS_Subset
<1>2. PICK h : Rec("sum", h, g, S) /\ Total(g, S) = h[S]
  BY Unfold
<1>3. PICK k : Rec("sum", k, g, R) /\ Total(g, R) = k[R]
  <2> HIDE DEF R
  <2> QED
    BY <1>1, Unfold
<1>4. h[R] = k[R]
  <2> HIDE DEF R
  <2> QED
    BY <1>1, <1>2, <1>3, RecUnique
<1>5. h[S] = IF S = {} THEN 0 ELSE g[Pick(S)] + h[S \ {Pick(S)}]
  BY <1>1, <1>2 DEF Rec, Base, Step
<1>6. Pick(S) \in S
  BY PickIn
<1> QED
  BY <1>2, <1>3, <1>4, <1>5, <1>6

\* A sum of integers is one, and one of naturals too.
LEMMA TotalInt ==
    ASSUME NEW S, IsFiniteSet(S), NEW g, \A x \in S : g[x] \in Int
    PROVE  Total(g, S) \in Int
<1> SUFFICES ASSUME Total(g, S) \notin Int PROVE FALSE
  OBVIOUS
<1> DEFINE T == {B \in SUBSET S : Total(g, B) \notin Int}
<1>1. T \subseteq SUBSET S /\ T # {}
  OBVIOUS
<1>2. PICK A \in T : \A C \in T : ~ (C \subseteq A /\ C # A)
  <2> HIDE DEF T
  <2> QED
    BY <1>1, SmallestSet
<1>3. A \in SUBSET S /\ IsFiniteSet(A) /\ Total(g, A) \notin Int
  BY <1>2, FS_Subset
<1>4. A # {}
  BY <1>3, TotalEmpty
<1>5. /\ Pick(A) \in A
      /\ Total(g, A) = g[Pick(A)] + Total(g, A \ {Pick(A)})
  BY <1>3, <1>4, TotalPick
<1>6. Total(g, A \ {Pick(A)}) \in Int
  BY <1>2, <1>5
<1> QED
  BY <1>3, <1>5, <1>6

\* A sum of natural numbers is one.
LEMMA TotalNat ==
    ASSUME NEW S, IsFiniteSet(S), NEW g, \A x \in S : g[x] \in Nat
    PROVE  Total(g, S) \in Nat
<1> SUFFICES ASSUME Total(g, S) \notin Nat PROVE FALSE
  OBVIOUS
<1> DEFINE T == {B \in SUBSET S : Total(g, B) \notin Nat}
<1>1. T \subseteq SUBSET S /\ T # {}
  OBVIOUS
<1>2. PICK A \in T : \A C \in T : ~ (C \subseteq A /\ C # A)
  <2> HIDE DEF T
  <2> QED
    BY <1>1, SmallestSet
<1>3. A \in SUBSET S /\ IsFiniteSet(A) /\ Total(g, A) \notin Nat
  BY <1>2, FS_Subset
<1>4. A # {}
  BY <1>3, TotalEmpty
<1>5. /\ Pick(A) \in A
      /\ Total(g, A) = g[Pick(A)] + Total(g, A \ {Pick(A)})
  BY <1>3, <1>4, TotalPick
<1>6. Total(g, A \ {Pick(A)}) \in Nat
  BY <1>2, <1>5
<1>7. g[Pick(A)] \in Nat
  BY <1>3, <1>5
<1> QED
  BY <1>3, <1>5, <1>6, <1>7

\* Any member may be taken out of a sum.
LEMMA TotalRemove ==
    ASSUME NEW S, IsFiniteSet(S), NEW g, \A x \in S : g[x] \in Int, NEW a \in S
    PROVE  Total(g, S) = g[a] + Total(g, S \ {a})
<1> DEFINE Bad(B) == \E x \in B : Total(g, B) # g[x] + Total(g, B \ {x})
           T == {B \in SUBSET S : Bad(B)}
<1> SUFFICES ASSUME Bad(S) PROVE FALSE
  OBVIOUS
<1>1. T \subseteq SUBSET S /\ T # {}
  BY Zenon
<1>2. PICK A \in T : \A C \in T : ~ (C \subseteq A /\ C # A)
  <2> HIDE DEF T
  <2> QED
    BY <1>1, SmallestSet
<1>3. A \in SUBSET S /\ IsFiniteSet(A) /\ Bad(A)
  <2>1. A \in SUBSET S /\ Bad(A)
    BY <1>2
  <2>2. IsFiniteSet(A)
    BY <2>1, FS_Subset
  <2> QED
    BY <2>1, <2>2
<1>4. \A B \in SUBSET A : B # A => ~ Bad(B)
  BY <1>2, <1>3
<1>5. PICK x \in A : Total(g, A) # g[x] + Total(g, A \ {x})
  BY <1>3
<1> DEFINE p == Pick(A)
<1>6. /\ p \in A
      /\ Total(g, A) = g[p] + Total(g, A \ {p})
  BY <1>3, <1>5, TotalPick
<1>7. p # x
  BY <1>5, <1>6
<1>8. Total(g, A \ {p}) = g[x] + Total(g, (A \ {p}) \ {x})
  <2>1. A \ {p} \in SUBSET A /\ A \ {p} # A /\ x \in A \ {p}
    BY <1>5, <1>6, <1>7
  <2> QED
    BY <2>1, <1>4
<1>9. Total(g, A \ {x}) = g[p] + Total(g, (A \ {x}) \ {p})
  <2>1. A \ {x} \in SUBSET A /\ A \ {x} # A /\ p \in A \ {x}
    BY <1>5, <1>6, <1>7
  <2> QED
    BY <2>1, <1>4
<1>10. (A \ {p}) \ {x} = (A \ {x}) \ {p}
  OBVIOUS
<1>11. g[p] \in Int /\ g[x] \in Int
  BY <1>3, <1>5, <1>6
<1>12. Total(g, (A \ {p}) \ {x}) \in Int
  <2>1. IsFiniteSet((A \ {p}) \ {x})
    BY <1>3, FS_Subset
  <2>2. \A y \in (A \ {p}) \ {x} : g[y] \in Int
    BY <1>3
  <2> QED
    BY <2>1, <2>2, TotalInt
<1> DEFINE d == Total(g, (A \ {p}) \ {x})
<1>13. Total(g, A \ {p}) = g[x] + d /\ Total(g, A \ {x}) = g[p] + d /\ d \in Int
  BY <1>8, <1>9, <1>10, <1>12
<1> HIDE DEF p, d
<1>14. Total(g, A) = g[x] + (g[p] + d)
  BY <1>6, <1>11, <1>13
<1> QED
  BY <1>5, <1>13, <1>14

\* The sum over one more member.
LEMMA TotalAdd ==
    ASSUME NEW S, IsFiniteSet(S), NEW g, \A x \in S : g[x] \in Int,
           NEW a, a \notin S, g[a] \in Int
    PROVE  Total(g, S \cup {a}) = Total(g, S) + g[a]
<1> DEFINE R == S \cup {a}
<1>1. IsFiniteSet(R)
  BY FS_AddElement
<1>2. (\A x \in R : g[x] \in Int) /\ a \in R /\ R \ {a} = S
  OBVIOUS
<1> HIDE DEF R
<1>3. Total(g, R) = g[a] + Total(g, R \ {a})
  BY <1>1, <1>2, TotalRemove
<1>4. Total(g, S) \in Int
  BY TotalInt
<1>5. Total(g, R) = g[a] + Total(g, S)
  BY <1>2, <1>3
<1>6. Total(g, R) = Total(g, S) + g[a]
  BY <1>4, <1>5
<1> QED
  BY <1>6 DEF R

\* A sum of naturals over a larger set is no smaller.
LEMMA TotalSubset ==
    ASSUME NEW S, IsFiniteSet(S), NEW g, \A x \in S : g[x] \in Nat, NEW R \in SUBSET S
    PROVE  Total(g, R) <= Total(g, S)
<1> DEFINE T == {B \in SUBSET S : R \subseteq B /\ ~ (Total(g, R) <= Total(g, B))}
<1> SUFFICES ASSUME ~ (Total(g, R) <= Total(g, S)) PROVE FALSE
  OBVIOUS
<1>1. T \subseteq SUBSET S /\ T # {}
  OBVIOUS
<1>2. PICK A \in T : \A C \in T : ~ (C \subseteq A /\ C # A)
  <2> HIDE DEF T
  <2> QED
    BY <1>1, SmallestSet
<1>3. A \in SUBSET S /\ R \subseteq A /\ IsFiniteSet(A) /\ ~ (Total(g, R) <= Total(g, A))
  BY <1>2, FS_Subset
<1>4. Total(g, R) \in Nat /\ Total(g, A) \in Nat
  <2>1. IsFiniteSet(R) /\ \A x \in R : g[x] \in Nat
    BY FS_Subset
  <2>2. \A x \in A : g[x] \in Nat
    BY <1>3
  <2>3. Total(g, R) \in Nat
    BY <2>1, TotalNat
  <2>4. Total(g, A) \in Nat
    BY <1>3, <2>2, TotalNat
  <2> QED
    BY <2>3, <2>4
<1>5. R # A
  BY <1>3, <1>4
<1>6. PICK a \in A : a \notin R
  BY <1>3, <1>5
<1> DEFINE B == A \ {a}
<1>7. B \in SUBSET S /\ R \subseteq B /\ B \subseteq A /\ B # A
  BY <1>3, <1>6
<1>8. Total(g, R) <= Total(g, B)
  BY <1>2, <1>7
<1>9. Total(g, A) = g[a] + Total(g, B)
  <2>1. \A x \in A : g[x] \in Int
    BY <1>3
  <2> QED
    BY <1>3, <1>6, <2>1, TotalRemove
<1>10. g[a] \in Nat
  BY <1>3, <1>6
<1>11. Total(g, B) \in Nat
  <2>1. IsFiniteSet(B) /\ \A x \in B : g[x] \in Nat
    BY <1>7, FS_Subset
  <2> HIDE DEF B
  <2> QED
    BY <2>1, TotalNat
<1> HIDE DEF B
<1> QED
  BY <1>3, <1>4, <1>8, <1>9, <1>10, <1>11

\* What adds nothing may be left out.
LEMMA TotalZeros ==
    ASSUME NEW S, IsFiniteSet(S), NEW g, \A x \in S : g[x] \in Int,
           NEW R \in SUBSET S, \A x \in S \ R : g[x] = 0
    PROVE  Total(g, R) = Total(g, S)
<1> DEFINE T == {B \in SUBSET S : R \subseteq B /\ Total(g, R) # Total(g, B)}
<1> SUFFICES ASSUME Total(g, R) # Total(g, S) PROVE FALSE
  OBVIOUS
<1>1. T \subseteq SUBSET S /\ T # {}
  OBVIOUS
<1>2. PICK A \in T : \A C \in T : ~ (C \subseteq A /\ C # A)
  <2> HIDE DEF T
  <2> QED
    BY <1>1, SmallestSet
<1>3. A \in SUBSET S /\ R \subseteq A /\ IsFiniteSet(A) /\ Total(g, R) # Total(g, A)
  BY <1>2, FS_Subset
<1>4. R # A
  BY <1>3
<1>5. PICK a \in A : a \notin R
  BY <1>3, <1>4
<1> DEFINE B == A \ {a}
<1>6. B \in SUBSET S /\ R \subseteq B /\ B \subseteq A /\ B # A
  BY <1>3, <1>5
<1>7. Total(g, R) = Total(g, B)
  BY <1>2, <1>6
<1>8. Total(g, A) = g[a] + Total(g, B)
  <2>1. \A x \in A : g[x] \in Int
    BY <1>3
  <2> QED
    BY <1>3, <1>5, <2>1, TotalRemove
<1>9. g[a] = 0
  BY <1>3, <1>5
<1>10. Total(g, B) \in Int
  <2>1. IsFiniteSet(B) /\ \A x \in B : g[x] \in Int
    BY <1>6, FS_Subset
  <2> HIDE DEF B
  <2> QED
    BY <2>1, TotalInt
<1> HIDE DEF B
<1> QED
  BY <1>3, <1>7, <1>8, <1>9, <1>10

\* A sum may be taken over the names of what it adds up.
LEMMA TotalRename ==
    ASSUME NEW S, IsFiniteSet(S), NEW T, IsFiniteSet(T), NEW f, NEW g,
           \A x \in S : f[x] \in Int, \A y \in T : g[y] \in Int,
           NEW n, \A x \in S : n[x] \in T /\ f[x] = g[n[x]],
           \A x, y \in S : n[x] = n[y] => x = y,
           \A y \in T : \E x \in S : n[x] = y
    PROVE  Total(f, S) = Total(g, T)
<1> DEFINE Im(B) == {n[x] : x \in B}
           Z == {B \in SUBSET S : Total(f, B) # Total(g, Im(B))}
<1>1. Im(S) = T
  OBVIOUS
<1> SUFFICES ASSUME Total(f, S) # Total(g, Im(S)) PROVE FALSE
  BY <1>1
<1>2. Z \subseteq SUBSET S /\ Z # {}
  OBVIOUS
<1>3. PICK A \in Z : \A C \in Z : ~ (C \subseteq A /\ C # A)
  <2> HIDE DEF Z
  <2> QED
    BY <1>2, SmallestSet
<1>4. A \in SUBSET S /\ IsFiniteSet(A) /\ Total(f, A) # Total(g, Im(A))
  BY <1>3, FS_Subset
<1>5. A # {}
  <2>1. A = {} => Im(A) = {}
    OBVIOUS
  <2> QED
    BY <1>4, <2>1, TotalEmpty
<1>6. PICK a : a \in A
  BY <1>5
<1> DEFINE B == A \ {a}
<1>7. B \in SUBSET S /\ B \subseteq A /\ B # A
  BY <1>4, <1>6
<1>8. Total(f, B) = Total(g, Im(B))
  BY <1>3, <1>7
<1>9. Total(f, A) = f[a] + Total(f, B)
  <2>1. \A x \in A : f[x] \in Int
    BY <1>4
  <2> QED
    BY <1>4, <1>6, <2>1, TotalRemove
<1>10. Im(A) \in SUBSET T /\ n[a] \in Im(A) /\ Im(B) = Im(A) \ {n[a]}
  BY <1>4, <1>6
<1> HIDE DEF Im, B
<1>11. IsFiniteSet(Im(A)) /\ \A y \in Im(A) : g[y] \in Int
  BY <1>10, FS_Subset
<1>12. Total(g, Im(A)) = g[n[a]] + Total(g, Im(A) \ {n[a]})
  BY <1>10, <1>11, TotalRemove
<1>13. f[a] = g[n[a]]
  BY <1>4, <1>6
<1> QED
  BY <1>4, <1>8, <1>9, <1>10, <1>12, <1>13

\* The sum of a field of the records of a sequence or function.
LEMMA QtyTotal ==
    ASSUME NEW S, IsFiniteSet(S), NEW s
    PROVE  MapThenSumSet(LAMBDA i : s[i].qty, S) = Total([i \in S |-> s[i].qty], S)
<1> DEFINE g == [i \in S |-> s[i].qty]
           Q(h) == h = [u \in SUBSET S |-> IF u = {} THEN 0
                                           ELSE s[Pick(u)].qty + h[u \ {Pick(u)}]]
<1>1. PICK k : Rec("sum", k, g, S) /\ Total(g, S) = k[S]
  <2> HIDE DEF g
  <2> QED
    BY Unfold
<1>2. ASSUME NEW h
      PROVE  Rec("sum", h, g, S) <=> Q(h)
  <2>1. \A u \in SUBSET S : u # {} => g[Pick(u)] = s[Pick(u)].qty
    BY PickIn
  <2>2. [u \in SUBSET S |-> IF u = {} THEN 0 ELSE g[Pick(u)] + h[u \ {Pick(u)}]]
          = [u \in SUBSET S |-> IF u = {} THEN 0 ELSE s[Pick(u)].qty + h[u \ {Pick(u)}]]
    <3> HIDE DEF g
    <3> QED
      BY <2>1
  <2> HIDE DEF g
  <2> QED
    BY <2>2 DEF Rec, Base, Step
<1> DEFINE q == CHOOSE h : Q(h)
<1>3. Q(q)
  <2>1. Q(k)
    BY <1>1, <1>2
  <2> HIDE DEF Q
  <2> QED
    BY <2>1
<1>4. MapThenSumSet(LAMBDA i : s[i].qty, S) = q[S]
  BY DEF MapThenSumSet, MapThenFoldSet, Pick
<1>5. Rec("sum", q, g, S)
  <2> HIDE DEF Q, q, g
  <2> QED
    BY <1>2, <1>3
<1>6. S \in SUBSET S
  OBVIOUS
<1> HIDE DEF q, g
<1>7. q[S] = k[S]
  BY <1>1, <1>5, <1>6, RecUnique
<1> QED
  BY <1>1, <1>4, <1>7 DEF g

\* A sum in which one value changes by d.
LEMMA TotalBump ==
    ASSUME NEW S, IsFiniteSet(S), NEW f, \A x \in S : f[x] \in Int, NEW a, NEW d \in Int,
           NEW g, \A x \in S : g[x] = IF x = a THEN f[x] + d ELSE f[x]
    PROVE  Total(g, S) = Total(f, S) + (IF a \in S THEN d ELSE 0)
<1>1. CASE a \in S
  <2> DEFINE R == S \ {a}
  <2>1. IsFiniteSet(R) /\ \A x \in R : f[x] = g[x] /\ f[x] \in Int
    BY FS_Subset
  <2>2. \A x \in S : g[x] \in Int
    OBVIOUS
  <2>3. Total(f, S) = f[a] + Total(f, R)
    BY <1>1, TotalRemove
  <2>4. Total(g, S) = g[a] + Total(g, R)
    BY <1>1, <2>2, TotalRemove
  <2> HIDE DEF R
  <2>5. Total(f, R) = Total(g, R) /\ Total(f, R) \in Int
    BY <2>1, TotalCong, TotalInt
  <2>6. g[a] = f[a] + d /\ f[a] \in Int
    BY <1>1
  <2> QED
    BY <1>1, <2>3, <2>4, <2>5, <2>6
<1>2. CASE a \notin S
  <2>1. \A x \in S : f[x] = g[x]
    BY <1>2
  <2>2. Total(f, S) = Total(g, S) /\ Total(f, S) \in Int
    BY <2>1, TotalCong, TotalInt
  <2> QED
    BY <1>2, <2>2
<1> QED
  BY <1>1, <1>2

-----------------------------------------------------------------------------
(***************************************************************************)
(* The product of a finite set of positive numbers is one, and at least    *)
(* each of them.                                                           *)
(***************************************************************************)
Product(S) == FoldSet(LAMBDA p, q : p * q, 1, S)
Itself(S)  == [x \in S |-> x]

\* A product is the value of the recursion.
LEMMA UnfoldProduct ==
    ASSUME NEW S, IsFiniteSet(S)
    PROVE  \E h : Rec("product", h, Itself(S), S) /\ Product(S) = h[S]
<1> DEFINE Q(h) == h = [u \in SUBSET S |-> IF u = {} THEN 1 ELSE Pick(u) * h[u \ {Pick(u)}]]
<1>1. PICK k : Rec("product", k, Itself(S), S)
  BY RecExists
<1>2. ASSUME NEW h
      PROVE  Rec("product", h, Itself(S), S) <=> Q(h)
  <2>1. \A u \in SUBSET S : u # {} => Itself(S)[Pick(u)] = Pick(u)
    BY PickIn DEF Itself
  <2>2. [u \in SUBSET S |-> IF u = {} THEN 1 ELSE Itself(S)[Pick(u)] * h[u \ {Pick(u)}]]
          = [u \in SUBSET S |-> IF u = {} THEN 1 ELSE Pick(u) * h[u \ {Pick(u)}]]
    BY <2>1
  <2> QED
    BY <2>2 DEF Rec, Base, Step
<1> DEFINE q == CHOOSE h : Q(h)
<1>3. Q(q)
  <2>1. Q(k)
    BY <1>1, <1>2
  <2> HIDE DEF Q
  <2> QED
    BY <2>1
<1>4. Product(S) = q[S]
  BY DEF Product, FoldSet, MapThenFoldSet, Pick
<1>5. Rec("product", q, Itself(S), S)
  <2> HIDE DEF Q, q
  <2> QED
    BY <1>2, <1>3
<1> HIDE DEF q
<1> QED
  BY <1>4, <1>5

\* A product is that of the picked member and the rest.
LEMMA ProductPick ==
    ASSUME NEW S, IsFiniteSet(S)
    PROVE  /\ S = {} => Product(S) = 1
           /\ S # {} => Pick(S) \in S /\ Product(S) = Pick(S) * Product(S \ {Pick(S)})
<1> DEFINE p == Pick(S)
           R == S \ {p}
<1>1. IsFiniteSet(R) /\ R \in SUBSET S /\ R \in SUBSET R /\ S \in SUBSET S
  BY FS_Subset
<1>2. PICK h : Rec("product", h, Itself(S), S) /\ Product(S) = h[S]
  BY UnfoldProduct
<1>3. PICK k : Rec("product", k, Itself(R), R) /\ Product(R) = k[R]
  <2> HIDE DEF R
  <2> QED
    BY <1>1, UnfoldProduct
<1>4. h[R] = k[R]
  <2>1. \A x \in R : Itself(S)[x] = Itself(R)[x]
    BY <1>1 DEF Itself
  <2> HIDE DEF R
  <2> QED
    BY <1>1, <1>2, <1>3, <2>1, RecUnique
<1>5. h[S] = IF S = {} THEN Base("product")
             ELSE Step("product", Itself(S)[Pick(S)], h[S \ {Pick(S)}])
  BY <1>1, <1>2, RecValue
<1>6. S # {} => Pick(S) \in S
  BY PickIn
<1>7. S # {} => Itself(S)[Pick(S)] = Pick(S)
  BY <1>6 DEF Itself
<1> QED
  BY <1>2, <1>3, <1>4, <1>5, <1>6, <1>7 DEF Base, Step

\* A product of positive numbers is no less than either.
LEMMA ProductGrows ==
    ASSUME NEW a \in Nat \ {0}, NEW b \in Nat \ {0}
    PROVE  a * b \in Nat \ {0} /\ a * b >= a /\ a * b >= b
  OBVIOUS

\* A product of positive numbers is no less than each of them.
LEMMA ProductBound ==
    ASSUME NEW S, IsFiniteSet(S), S \subseteq Nat \ {0}
    PROVE  Product(S) \in Nat \ {0} /\ \A x \in S : Product(S) >= x
<1> DEFINE Good(B) == Product(B) \in Nat \ {0} /\ \A x \in B : Product(B) >= x
           T == {B \in SUBSET S : ~ Good(B)}
<1> SUFFICES ASSUME ~ Good(S) PROVE FALSE
  OBVIOUS
<1>1. T \subseteq SUBSET S /\ T # {}
  BY Zenon
<1>2. PICK A \in T : \A C \in T : ~ (C \subseteq A /\ C # A)
  <2> HIDE DEF T, Good
  <2> QED
    BY <1>1, SmallestSet
<1> HIDE DEF Good
<1>3. A \in SUBSET S /\ ~ Good(A) /\ \A B \in SUBSET A : B # A => Good(B)
  BY <1>2
<1>4. IsFiniteSet(A)
  BY <1>3, FS_Subset
<1>5. CASE A = {}
  <2>1. Product(A) = 1
    BY <1>4, <1>5, ProductPick
  <2>2. Good(A)
    BY <1>5, <2>1 DEF Good
  <2> QED
    BY <1>3, <2>2
<1>6. CASE A # {}
  <2> DEFINE p == Pick(A)
             v == Product(A \ {Pick(A)})
  <2>1. p \in A /\ Product(A) = p * v /\ p \in Nat \ {0}
    BY <1>3, <1>4, <1>6, ProductPick
  <2>2. Good(A \ {Pick(A)})
    BY <1>3, <2>1
  <2>3. v \in Nat \ {0} /\ \A x \in A : x # p => v >= x
    BY <2>2 DEF Good
  <2> HIDE DEF p, v
  <2>4. p * v \in Nat \ {0} /\ p * v >= p /\ p * v >= v
    BY <2>1, <2>3, ProductGrows
  <2>5. \A x \in A : x \in Nat
    BY <1>3
  <2>6. \A x \in A : Product(A) >= x
    BY <2>1, <2>3, <2>4, <2>5
  <2> QED
    BY <1>3, <2>1, <2>4, <2>6 DEF Good
<1> QED
  BY <1>5, <1>6

-----------------------------------------------------------------------------
\* A finite set of integers has a least and a greatest member.
LEMMA LeastOf ==
    ASSUME NEW S, IsFiniteSet(S), S \subseteq Int, S # {}
    PROVE  Min(S) \in S /\ \A y \in S : Min(S) <= y
<1> DEFINE Low(B) == \E x \in B : \A y \in B : x <= y
           T == {B \in SUBSET S : B # {} /\ ~ Low(B)}
<1>1. Low(S)
  <2> SUFFICES ASSUME ~ Low(S) PROVE FALSE
    OBVIOUS
  <2>1. T \subseteq SUBSET S /\ T # {}
    BY Zenon
  <2>2. PICK A \in T : \A C \in T : ~ (C \subseteq A /\ C # A)
    <3> HIDE DEF T, Low
    <3>1. IsFiniteSet(S)
      OBVIOUS
    <3> QED
      BY ONLY <2>1, <3>1, SmallestSet
  <2> HIDE DEF Low
  <2>3. A \in SUBSET S /\ A # {} /\ ~ Low(A) /\ \A B \in SUBSET A : B # A /\ B # {} => Low(B)
    BY <2>2
  <2>4. PICK a \in A : TRUE
    BY <2>3
  <2>5. CASE A = {a}
    <3>1. a <= a
      BY <2>3, <2>4
    <3> QED
      BY <2>3, <2>5, <3>1 DEF Low
  <2>6. CASE A # {a}
    <3>1. A \ {a} \in SUBSET A /\ A \ {a} # A /\ A \ {a} # {}
      BY <2>3, <2>4, <2>6
    <3>2. Low(A \ {a})
      BY <2>3, <3>1
    <3>3. PICK x \in A \ {a} : \A y \in A \ {a} : x <= y
      BY <3>2 DEF Low
    <3>4. a \in Int /\ x \in Int /\ \A y \in A : y \in Int
      BY <2>3, <3>3
    <3>5. CASE x <= a
      <4>1. \A y \in A : x <= y
        BY <3>3, <3>5
      <4> QED
        BY <2>3, <3>3, <4>1 DEF Low
    <3>6. CASE ~ (x <= a)
      <4>1. \A y \in A : a <= y
        BY <3>3, <3>4, <3>6
      <4> QED
        BY <2>3, <4>1 DEF Low
    <3> QED
      BY <3>5, <3>6
  <2> QED
    BY <2>5, <2>6
<1> QED
  BY <1>1 DEF Min

\* A finite set of numbers has a greatest member.
LEMMA GreatestOf ==
    ASSUME NEW S, IsFiniteSet(S), S \subseteq Int, S # {}
    PROVE  Max(S) \in S /\ \A y \in S : Max(S) >= y
<1> DEFINE High(B) == \E x \in B : \A y \in B : x >= y
           T == {B \in SUBSET S : B # {} /\ ~ High(B)}
<1>1. High(S)
  <2> SUFFICES ASSUME ~ High(S) PROVE FALSE
    OBVIOUS
  <2>1. T \subseteq SUBSET S /\ T # {}
    BY Zenon
  <2>2. PICK A \in T : \A C \in T : ~ (C \subseteq A /\ C # A)
    <3> HIDE DEF T, High
    <3>1. IsFiniteSet(S)
      OBVIOUS
    <3> QED
      BY ONLY <2>1, <3>1, SmallestSet
  <2> HIDE DEF High
  <2>3. A \in SUBSET S /\ A # {} /\ ~ High(A) /\ \A B \in SUBSET A : B # A /\ B # {} => High(B)
    BY <2>2
  <2>4. PICK a \in A : TRUE
    BY <2>3
  <2>5. CASE A = {a}
    <3>1. a >= a
      BY <2>3, <2>4
    <3> QED
      BY <2>3, <2>5, <3>1 DEF High
  <2>6. CASE A # {a}
    <3>1. A \ {a} \in SUBSET A /\ A \ {a} # A /\ A \ {a} # {}
      BY <2>3, <2>4, <2>6
    <3>2. High(A \ {a})
      BY <2>3, <3>1
    <3>3. PICK x \in A \ {a} : \A y \in A \ {a} : x >= y
      BY <3>2 DEF High
    <3>4. a \in Int /\ x \in Int /\ \A y \in A : y \in Int
      BY <2>3, <3>3
    <3>5. CASE x >= a
      <4>1. \A y \in A : x >= y
        BY <3>3, <3>5
      <4> QED
        BY <2>3, <3>3, <4>1 DEF High
    <3>6. CASE ~ (x >= a)
      <4>1. \A y \in A : a >= y
        BY <3>3, <3>4, <3>6
      <4> QED
        BY <2>3, <4>1 DEF High
    <3> QED
      BY <3>5, <3>6
  <2> QED
    BY <2>5, <2>6
<1> QED
  BY <1>1 DEF Max

\* What a function takes on a finite set is finite.
LEMMA ImageFinite ==
    ASSUME NEW S, IsFiniteSet(S), NEW f
    PROVE  IsFiniteSet({f[x] : x \in S})
<1> DEFINE T == {f[x] : x \in S}
           g == [x \in S |-> f[x]]
<1>1. g \in Surjection(S, T)
  BY DEF Surjection
<1> QED
  BY <1>1, FS_Surjection

\* And so has any set of naturals a least one.
LEMMA LeastNatural ==
    ASSUME NEW S, S \subseteq Nat, S # {}
    PROVE  Min(S) \in S /\ \A y \in S : Min(S) <= y
<1>1. PICK n \in S : TRUE
  OBVIOUS
<1> DEFINE T == {y \in S : y <= n}
<1>2. T \subseteq Nat /\ (\A s \in T : s <= n) /\ n \in Nat
  BY <1>1
<1>3. IsFiniteSet(T)
  <2> HIDE DEF T
  <2> QED
    BY <1>2, FS_BoundedSetOfNaturals
<1>4. n \in T /\ T \subseteq Int
  BY <1>1, <1>2
<1>5. Min(T) \in T /\ \A y \in T : Min(T) <= y
  <2> HIDE DEF T
  <2> QED
    BY <1>3, <1>4, LeastOf
<1>6. Min(T) \in S /\ \A y \in S : Min(T) <= y
  BY <1>2, <1>5
<1> HIDE DEF T
<1>7. \E x \in S : \A y \in S : x <= y
  BY <1>6
<1> QED
  BY <1>7 DEF Min
=============================================================================
