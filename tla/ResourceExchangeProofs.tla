----------------------- MODULE ResourceExchangeProofs -----------------------
(***************************************************************************)
(* Proofs about the resource exchange, for every set of requests, bids,    *)
(* preferences and capacities: both solvers keep to the limits of supply   *)
(* and demand and take what is exclusive as a whole, the greedy one        *)
(* decides contention by preference and weight, the optimizing one leaves  *)
(* nothing that could be matched, and every trade is settled.              *)
(***************************************************************************)
EXTENDS ResourceExchange, SetSums

(***************************************************************************)
(* What the types of the books say about requests, bids and arcs.          *)
(***************************************************************************)
RequestsTyped ==
  /\ requests \in Seq(RequestPortfolios)
  /\ \A p \in DOMAIN requests : requests[p].mutual => requests[p].reqs # <<>>
BidsTyped ==
  /\ bids \in Seq(BidPortfolios)
  /\ \A q \in DOMAIN bids : \A k \in DOMAIN bids[q].bids :
       Len(bids[q].bids[k].units) = Len(bids[q].caps)
NodesTyped ==
  /\ \A r \in RequestIds :
       r[1] \in DOMAIN requests /\ Req(r).qty \in Nat /\ Req(r).excl \in BOOLEAN
  /\ \A b \in BidIds :
       /\ b[1] \in DOMAIN bids /\ Bid(b).qty \in Nat /\ Bid(b).excl \in BOOLEAN
       /\ unode(b) \in RequestIds /\ GroupOf(b) \in DOMAIN requests
       /\ DOMAIN Bid(b).units = DOMAIN bids[b[1]].caps
       /\ Bid(b).units \in Seq({0, 1})
  /\ \A q \in DOMAIN bids : \A i \in DOMAIN bids[q].caps : bids[q].caps[i] \in 0..Unlimited
  /\ \A p \in DOMAIN requests : PortfolioQty(requests[p]) \in Nat

RequestRecord == [qty : Nat, excl : BOOLEAN, pref : Int, commod : STRING]
BidRecord == [request : Nat \X Nat, qty : 0..Unlimited, excl : BOOLEAN, pref : Int \cup {NaN},
              units : Seq({0, 1}), obj : Int]

\* The domain of a sequence, and the type of its elements.
LEMMA SeqOf ==
  ASSUME NEW T, NEW s \in Seq(T)
  PROVE  /\ DOMAIN s = 1..Len(s) /\ Len(s) \in Nat /\ IsFiniteSet(DOMAIN s)
         /\ \A i \in DOMAIN s : s[i] \in T
<1>1. DOMAIN s = 1..Len(s) /\ Len(s) \in Nat /\ \A i \in DOMAIN s : s[i] \in T
  OBVIOUS
<1>2. 1 \in Int /\ Len(s) \in Int
  BY <1>1
<1>3. IsFiniteSet(1..Len(s))
  BY <1>2, FS_Interval
<1> QED
  BY <1>1, <1>3

\* The types of the parts of portfolios.
LEMMA Portfolios ==
  /\ \A p \in RequestPortfolios : p.mutual \in BOOLEAN /\ p.reqs \in Seq(RequestRecord)
  /\ \A p \in BidPortfolios : p.caps \in Seq(0..Unlimited) /\ p.bids \in Seq(BidRecord)
  BY DEF RequestPortfolios, BidPortfolios, RequestRecord, BidRecord

\* The empty book is a sequence of anything.
LEMMA EmptyBook ==
  ASSUME NEW T
  PROVE  <<>> \in Seq(T) /\ DOMAIN <<>> = {}
  OBVIOUS

\* The books that have been posted have their types.
LEMMA BooksTyped ==
  ASSUME StageInv
  PROVE  RequestsTyped /\ BidsTyped
<1>1. RequestsTyped
  <2>1. CASE requests = <<>>
    BY <2>1, EmptyBook DEF RequestsTyped
  <2>2. CASE requests \in RequestBooks
    BY <2>2, BooksAssumption DEF RequestsTyped
  <2> QED
    BY <2>1, <2>2 DEF StageInv
<1>2. BidsTyped
  <2>1. CASE bids = <<>>
    BY <2>1, EmptyBook DEF BidsTyped
  <2>2. CASE requests \in RequestBooks /\ bids \in BidBooks(requests)
    BY <2>2, BooksAssumption DEF BidsTyped
  <2> QED
    BY <2>1, <2>2 DEF StageInv
<1> QED
  BY <1>1, <1>2

\* A request or bid is named by its portfolio and its place there.
LEMMA IdFacts ==
  /\ \A r \in RequestIds : r[1] \in DOMAIN requests /\ r[2] \in DOMAIN requests[r[1]].reqs
  /\ \A b \in BidIds : b[1] \in DOMAIN bids /\ b[2] \in DOMAIN bids[b[1]].bids
  BY DEF RequestIds, BidIds

\* RequestPortfolios::qty is a natural number.
LEMMA PortfolioQtyNat ==
  ASSUME NEW p \in RequestPortfolios, p.mutual => p.reqs # <<>>
  PROVE  PortfolioQty(p) \in Nat
<1>1. p.mutual \in BOOLEAN /\ p.reqs \in Seq(RequestRecord)
  BY Portfolios
<1>2. /\ DOMAIN p.reqs = 1..Len(p.reqs) /\ Len(p.reqs) \in Nat /\ IsFiniteSet(DOMAIN p.reqs)
      /\ \A i \in DOMAIN p.reqs : p.reqs[i].qty \in Nat
  <2>1. \A i \in DOMAIN p.reqs : p.reqs[i] \in RequestRecord
    BY <1>1, SeqOf
  <2>2. \A i \in DOMAIN p.reqs : p.reqs[i].qty \in Nat
    BY <2>1 DEF RequestRecord
  <2> QED
    BY <1>1, <2>2, SeqOf
<1>3. CASE p.mutual
  <2>1. 1 \in DOMAIN p.reqs
    BY <1>1, <1>2, <1>3
  <2> QED
    BY <1>2, <1>3, <2>1 DEF PortfolioQty
<1>4. CASE ~ p.mutual
  <2> DEFINE s == p.reqs
             D == DOMAIN p.reqs
             g == [i \in D |-> s[i].qty]
  <2>1. IsFiniteSet(D)
    BY <1>2
  <2>2. PortfolioQty(p) = MapThenSumSet(LAMBDA i : s[i].qty, D)
    BY <1>4 DEF PortfolioQty
  <2>3. \A i \in D : g[i] \in Nat
    BY <1>2
  <2> HIDE DEF s, D
  <2>4. MapThenSumSet(LAMBDA i : s[i].qty, D) = Total(g, D)
    BY <2>1, QtyTotal
  <2> HIDE DEF g
  <2>5. Total(g, D) \in Nat
    BY <2>1, <2>3, TotalNat
  <2> QED
    BY <2>2, <2>4, <2>5
<1> QED
  BY <1>1, <1>3, <1>4

\* Requests, bids and capacities have their types.
LEMMA Typing ==
  ASSUME StageInv
  PROVE  NodesTyped
<1>1. RequestsTyped /\ BidsTyped
  BY BooksTyped
<1>2. ASSUME NEW p \in DOMAIN requests
      PROVE  /\ requests[p] \in RequestPortfolios /\ PortfolioQty(requests[p]) \in Nat
             /\ \A i \in DOMAIN requests[p].reqs :
                  requests[p].reqs[i].qty \in Nat /\ requests[p].reqs[i].excl \in BOOLEAN
  <2>1. requests[p] \in RequestPortfolios /\ (requests[p].mutual => requests[p].reqs # <<>>)
    BY <1>1 DEF RequestsTyped
  <2>2. requests[p].reqs \in Seq(RequestRecord)
    BY <2>1, Portfolios
  <2>3. PortfolioQty(requests[p]) \in Nat
    BY <2>1, PortfolioQtyNat
  <2>4. \A i \in DOMAIN requests[p].reqs : requests[p].reqs[i] \in RequestRecord
    BY <2>2, SeqOf
  <2>5. \A i \in DOMAIN requests[p].reqs :
           requests[p].reqs[i].qty \in Nat /\ requests[p].reqs[i].excl \in BOOLEAN
    BY <2>4 DEF RequestRecord
  <2> QED
    BY <2>1, <2>3, <2>5
<1>3. ASSUME NEW q \in DOMAIN bids
      PROVE  /\ bids[q].caps \in Seq(0..Unlimited)
             /\ \A k \in DOMAIN bids[q].bids :
                  /\ bids[q].bids[k].qty \in Nat /\ bids[q].bids[k].excl \in BOOLEAN
                  /\ bids[q].bids[k].units \in Seq({0, 1})
                  /\ DOMAIN bids[q].bids[k].units = DOMAIN bids[q].caps
  <2>1. bids[q] \in BidPortfolios
    BY <1>1 DEF BidsTyped
  <2>2. bids[q].caps \in Seq(0..Unlimited) /\ bids[q].bids \in Seq(BidRecord)
    BY <2>1, Portfolios
  <2>3. \A k \in DOMAIN bids[q].bids : bids[q].bids[k] \in BidRecord
    BY <2>2, SeqOf
  <2>4. \A k \in DOMAIN bids[q].bids :
           /\ bids[q].bids[k].qty \in Nat /\ bids[q].bids[k].excl \in BOOLEAN
           /\ bids[q].bids[k].units \in Seq({0, 1})
    BY <2>3 DEF BidRecord
  <2>5. ASSUME NEW k \in DOMAIN bids[q].bids
        PROVE  DOMAIN bids[q].bids[k].units = DOMAIN bids[q].caps
    <3>1. Len(bids[q].bids[k].units) = Len(bids[q].caps)
      BY <1>1 DEF BidsTyped
    <3>2. DOMAIN bids[q].bids[k].units = 1..Len(bids[q].bids[k].units)
      BY <2>4, SeqOf
    <3>3. DOMAIN bids[q].caps = 1..Len(bids[q].caps)
      BY <2>2, SeqOf
    <3> QED
      BY <3>1, <3>2, <3>3
  <2> QED
    BY <2>2, <2>4, <2>5
<1>4. \A r \in RequestIds :
         r[1] \in DOMAIN requests /\ Req(r).qty \in Nat /\ Req(r).excl \in BOOLEAN
  BY <1>2, IdFacts DEF Req
<1>5. \A b \in BidIds :
         /\ b[1] \in DOMAIN bids /\ Bid(b).qty \in Nat /\ Bid(b).excl \in BOOLEAN
         /\ DOMAIN Bid(b).units = DOMAIN bids[b[1]].caps /\ Bid(b).units \in Seq({0, 1})
  BY <1>3, IdFacts DEF Bid
<1>6. \A b \in BidIds : unode(b) \in RequestIds /\ GroupOf(b) \in DOMAIN requests
  BY <1>4 DEF StageInv, GroupOf
<1>7. \A q \in DOMAIN bids : \A i \in DOMAIN bids[q].caps : bids[q].caps[i] \in 0..Unlimited
  <2> SUFFICES ASSUME NEW q \in DOMAIN bids
               PROVE  \A i \in DOMAIN bids[q].caps : bids[q].caps[i] \in 0..Unlimited
    OBVIOUS
  <2>1. bids[q].caps \in Seq(0..Unlimited)
    BY <1>3
  <2> QED
    BY <2>1, SeqOf
<1> QED
  BY <1>2, <1>4, <1>5, <1>6, <1>7 DEF NodesTyped

\* There are finitely many arcs.
LEMMA ArcsFinite ==
  ASSUME StageInv
  PROVE  IsFiniteSet(arcs) /\ \A S \in SUBSET arcs : IsFiniteSet(S)
<1> DEFINE of == [q \in DOMAIN bids |-> {q} \X DOMAIN bids[q].bids]
<1>1. BidsTyped
  BY BooksTyped
<1>2. IsFiniteSet(DOMAIN bids)
  <2>1. DOMAIN bids = 1..Len(bids) /\ Len(bids) \in Nat
    BY <1>1 DEF BidsTyped
  <2>2. 1 \in Int /\ Len(bids) \in Int
    BY <2>1
  <2>3. IsFiniteSet(1..Len(bids))
    BY <2>2, FS_Interval
  <2> QED
    BY <2>1, <2>3
<1>3. ASSUME NEW q \in DOMAIN bids
      PROVE  IsFiniteSet({q} \X DOMAIN bids[q].bids)
  <2>1. bids[q] \in BidPortfolios
    BY <1>1 DEF BidsTyped
  <2>2. DOMAIN bids[q].bids = 1..Len(bids[q].bids) /\ Len(bids[q].bids) \in Nat
    BY <2>1 DEF BidPortfolios
  <2>3. 1 \in Int /\ Len(bids[q].bids) \in Int
    BY <2>2
  <2>4. IsFiniteSet(1..Len(bids[q].bids))
    BY <2>3, FS_Interval
  <2>5. IsFiniteSet({q}) /\ IsFiniteSet(DOMAIN bids[q].bids)
    BY <2>2, <2>4, FS_Singleton
  <2> QED
    BY <2>5, FS_Product
<1> DEFINE I == {of[q] : q \in DOMAIN bids}
<1>4. IsFiniteSet(I)
  <2> HIDE DEF of
  <2> QED
    BY <1>2, ImageFinite
<1>5. BidIds = UNION I
  BY DEF BidIds
<1>6. \A T \in I : IsFiniteSet(T)
  BY <1>3
<1> HIDE DEF I
<1>7. IsFiniteSet(BidIds)
  BY <1>4, <1>5, <1>6, FS_UNION
<1>8. arcs \in SUBSET BidIds
  BY DEF StageInv
<1>9. IsFiniteSet(arcs)
  BY <1>7, <1>8, FS_Subset
<1> QED
  BY <1>9, FS_Subset

-----------------------------------------------------------------------------
(***************************************************************************)
(* Sums of matches, and the minimum of capacities.                         *)
(***************************************************************************)
Whole(f) == \A a \in arcs : f[a] \in Int
Bumped(f, g, b, d) == \A a \in arcs : g[a] = IF a = b THEN f[a] + d ELSE f[a]

\* Sums of matches are those of SetSums.
LEMMA OverTotal ==
  ASSUME NEW f, NEW S
  PROVE  Over(f, S) = Total(f, S)
  BY DEF Over, Total

\* Flow is the sum over the current matches.
LEMMA FlowOver ==
  ASSUME NEW S
  PROVE  Flow(S) = Over(flow, S)
  BY DEF Over, Flow

\* A change d of the match on arc b changes by d the sums over the sets that
\* hold b.
LEMMA OverBumped ==
  ASSUME StageInv, NEW f, Whole(f), NEW b \in arcs, NEW d \in Int, NEW g, Bumped(f, g, b, d),
         NEW S \in SUBSET arcs
  PROVE  /\ Over(f, S) \in Int
         /\ Over(g, S) = Over(f, S) + (IF b \in S THEN d ELSE 0)
<1>1. IsFiniteSet(S) /\ \A x \in S : f[x] \in Int
  BY ArcsFinite DEF Whole
<1>2. \A x \in S : g[x] = IF x = b THEN f[x] + d ELSE f[x]
  BY DEF Bumped
<1>3. Total(f, S) \in Int
  BY <1>1, TotalInt
<1>4. Total(g, S) = Total(f, S) + (IF b \in S THEN d ELSE 0)
  BY <1>1, <1>2, TotalBump
<1> QED
  BY <1>3, <1>4, OverTotal

\* Without matches every sum is zero.
LEMMA OverZero ==
  ASSUME StageInv, NEW f, \A a \in arcs : f[a] = 0, NEW S \in SUBSET arcs
  PROVE  Over(f, S) = 0
<1>1. IsFiniteSet(S) /\ \A x \in S : f[x] \in Int
  BY ArcsFinite
<1>2. {} \in SUBSET S /\ \A x \in S \ {} : f[x] = 0
  OBVIOUS
<1>3. Total(f, {}) = Total(f, S)
  BY <1>1, <1>2, TotalZeros
<1> QED
  BY <1>3, TotalEmpty, OverTotal

\* A sum of matches is no less than each of them.
LEMMA OverNat ==
  ASSUME StageInv, NEW f, \A a \in arcs : f[a] \in Nat, NEW S \in SUBSET arcs
  PROVE  Over(f, S) \in Nat /\ \A x \in S : f[x] <= Over(f, S)
<1>1. IsFiniteSet(S) /\ \A x \in S : f[x] \in Nat /\ f[x] \in Int
  BY ArcsFinite
<1>2. Total(f, S) \in Nat
  BY <1>1, TotalNat
<1>3. ASSUME NEW x \in S
      PROVE  f[x] <= Total(f, S)
  <2> DEFINE R == S \ {x}
  <2>1. Total(f, S) = f[x] + Total(f, R)
    BY <1>1, <1>3, TotalRemove
  <2>2. IsFiniteSet(R) /\ \A y \in R : f[y] \in Nat
    BY <1>1, FS_Subset
  <2> HIDE DEF R
  <2>3. Total(f, R) \in Nat
    BY <2>2, TotalNat
  <2> QED
    BY <1>1, <2>1, <2>3
<1> QED
  BY <1>2, <1>3, OverTotal

\* A pair of numbers is a finite set of numbers.
LEMMA PairFinite ==
  ASSUME NEW x, NEW y
  PROVE  IsFiniteSet({x, y})
<1>1. IsFiniteSet({x})
  BY FS_Singleton
<1>2. IsFiniteSet({x} \cup {y})
  BY <1>1, FS_AddElement
<1>3. {x, y} = {x} \cup {y}
  OBVIOUS
<1> QED
  BY <1>2, <1>3

\* The minimum of two numbers.
LEMMA MinPair ==
  ASSUME NEW x \in Int, NEW y \in Int
  PROVE  Min({x, y}) \in Int /\ Min({x, y}) <= x /\ Min({x, y}) <= y
<1>1. IsFiniteSet({x, y}) /\ {x, y} \subseteq Int /\ {x, y} # {}
  BY PairFinite
<1>2. Min({x, y}) \in {x, y} /\ \A z \in {x, y} : Min({x, y}) <= z
  BY <1>1, LeastOf
<1> QED
  BY <1>2

\* The maximum of two numbers.
LEMMA MaxPair ==
  ASSUME NEW x \in Int
  PROVE  Max({0, x}) = IF x >= 0 THEN x ELSE 0
<1>1. IsFiniteSet({0, x}) /\ {0, x} \subseteq Int /\ {0, x} # {}
  BY PairFinite
<1>2. Max({0, x}) \in {0, x} /\ \A z \in {0, x} : Max({0, x}) >= z
  BY <1>1, GreatestOf
<1> QED
  BY <1>2

\* std::min is at most its second argument, and its first unless that is not
\* a number.
LEMMA StdMinOf ==
  ASSUME NEW x \in Int, NEW y \in Int \cup {NaN}
  PROVE  /\ StdMin(x, y) \in Int /\ StdMin(x, y) <= x
         /\ y \in Int => StdMin(x, y) <= y
<1>1. x # NaN
  BY BooksAssumption
<1>2. CASE y = NaN
  BY <1>1, <1>2, BooksAssumption DEF StdMin
<1>3. CASE y # NaN
  BY <1>1, <1>3, MinPair DEF StdMin
<1> QED
  BY <1>2, <1>3

\* std::min_element of numbers is at most each of them.
LEMMA MinElementOf ==
  ASSUME NEW s, 1 \in DOMAIN s, IsFiniteSet(DOMAIN s), \A i \in DOMAIN s : s[i] \in Int \cup {NaN}
  PROVE  /\ MinElement(s) \in Int \cup {NaN}
         /\ (\A i \in DOMAIN s : s[i] \in Int)
              => MinElement(s) \in Int /\ \A i \in DOMAIN s : MinElement(s) <= s[i]
<1> DEFINE I == {s[i] : i \in DOMAIN s}
           J == I \ {NaN}
<1>1. CASE s[1] = NaN
  BY <1>1, BooksAssumption DEF MinElement
<1>2. CASE s[1] # NaN
  <2>1. IsFiniteSet(I)
    BY ImageFinite
  <2>2. IsFiniteSet(J) /\ J \subseteq Int /\ J # {}
    <3>1. J \in SUBSET I
      OBVIOUS
    <3>2. IsFiniteSet(J)
      <4> HIDE DEF I, J
      <4> QED
        BY <2>1, <3>1, FS_Subset
    <3>3. s[1] \in J
      BY <1>2
    <3>4. J \subseteq Int
      OBVIOUS
    <3> QED
      BY <3>2, <3>3, <3>4
  <2>3. MinElement(s) = Min(J)
    BY <1>2 DEF MinElement
  <2>4. Min(J) \in J /\ \A y \in J : Min(J) <= y
    <3> HIDE DEF J
    <3> QED
      BY <2>2, LeastOf
  <2>5. (\A i \in DOMAIN s : s[i] \in Int) => \A i \in DOMAIN s : s[i] \in J
    BY BooksAssumption
  <2> HIDE DEF J
  <2> QED
    BY <2>2, <2>3, <2>4, <2>5
<1> QED
  BY <1>1, <1>2

-----------------------------------------------------------------------------
(***************************************************************************)
(* What GreedilySatisfySet matches on an arc.                              *)
(***************************************************************************)
LEMMA ExclVal ==
  ASSUME StageInv, NEW b \in arcs
  PROVE  /\ excl_val(b) \in Nat /\ excl_val(b) <= Bid(b).qty /\ exclusive(b) \in BOOLEAN
         /\ exclusive(b) /\ excl_val(b) > 0 =>
              /\ Bid(b).excl => excl_val(b) = Bid(b).qty
              /\ Req(unode(b)).excl => excl_val(b) = Req(unode(b)).qty
<1>1. b \in BidIds
  BY DEF StageInv
<1>2. /\ Bid(b).qty \in Nat /\ Bid(b).excl \in BOOLEAN /\ unode(b) \in RequestIds
      /\ Req(unode(b)).qty \in Nat /\ Req(unode(b)).excl \in BOOLEAN
  BY <1>1, Typing DEF NodesTyped
<1> DEFINE x == Bid(b).qty
           y == Req(unode(b)).qty
           u == Bid(b).excl
           v == Req(unode(b)).excl
<1>3. /\ excl_val(b) = IF v /\ u THEN IF y = x THEN y ELSE 0
                       ELSE IF v THEN IF x >= y THEN y ELSE 0
                       ELSE IF x <= y THEN x ELSE 0
      /\ exclusive(b) = (v \/ u)
  BY DEF excl_val, exclusive
<1>4. x \in Nat /\ y \in Nat /\ u \in BOOLEAN /\ v \in BOOLEAN
  BY <1>2
<1> HIDE DEF x, y, u, v
<1>5. /\ excl_val(b) \in Nat /\ excl_val(b) <= x /\ exclusive(b) \in BOOLEAN
      /\ exclusive(b) /\ excl_val(b) > 0 => (u => excl_val(b) = x) /\ (v => excl_val(b) = y)
  BY <1>3, <1>4
<1> QED
  BY <1>5 DEF x, y, u, v

\* The capacities of supply groups are whole numbers.
Supplied(bc) ==
  \A q \in DOMAIN bids : DOMAIN bc[q] = DOMAIN bids[q].caps /\
    \A i \in DOMAIN bids[q].caps : bc[q][i] \in Int

\* A quotient by a unit capacity of one is the capacity.
LEMMA QuotientOf ==
  ASSUME NEW c \in Int
  PROVE  Quotient(c, 1) = c /\ Quotient(c, 0) \in Int \cup {NaN}
  BY UnlimitedAssumption DEF Quotient

\* GreedySolver::Capacity of a bid node is at most each capacity that it
\* draws on.
LEMMA BidCapacityOf ==
  ASSUME StageInv, NEW b \in arcs, Supplied(bid_caps), flow[b] \in Int
  PROVE  /\ BidCapacity(b) \in Int \cup {NaN}
         /\ Even(b[1]) => BidCapacity(b) \in Int /\
              \A i \in DOMAIN bids[b[1]].caps : BidCapacity(b) <= bid_caps[b[1]][i]
<1> DEFINE units == Bid(b).units
           left  == Bid(b).qty - flow[b]
           caps  == [i \in DOMAIN units |-> Quotient(bid_caps[b[1]][i], units[i])]
<1>1. b \in BidIds /\ NodesTyped
  BY Typing DEF StageInv
<1>2. /\ b[1] \in DOMAIN bids /\ Bid(b).qty \in Nat /\ units \in Seq({0, 1})
      /\ DOMAIN units = DOMAIN bids[b[1]].caps
  BY <1>1 DEF NodesTyped
<1>3. left \in Int
  BY <1>2
<1>4. BidCapacity(b) = IF units = <<>> THEN left ELSE StdMin(MinElement(caps), left)
  BY DEF BidCapacity
<1>5. CASE units = <<>>
  <2>1. DOMAIN units = {}
    BY <1>5
  <2> QED
    BY <1>2, <1>3, <1>4, <1>5, <2>1
<1>6. CASE units # <<>>
  <2>1. 1 \in DOMAIN units /\ IsFiniteSet(DOMAIN units) /\ \A i \in DOMAIN units : units[i] \in {0, 1}
    <3>1. DOMAIN units = 1..Len(units) /\ Len(units) \in Nat /\ IsFiniteSet(DOMAIN units)
      <4> HIDE DEF units
      <4> QED
        BY <1>2, SeqOf
    <3>2. Len(units) # 0
      <4> HIDE DEF units
      <4> QED
        BY <1>2, <1>6
    <3>3. 1 \in DOMAIN units
      BY <3>1, <3>2
    <3> QED
      BY <1>2, <3>1, <3>3, SeqOf
  <2>2. \A i \in DOMAIN units : bid_caps[b[1]][i] \in Int
    BY <1>2 DEF Supplied
  <2>3. \A i \in DOMAIN caps : caps[i] \in Int \cup {NaN}
    BY <2>1, <2>2, QuotientOf
  <2>4. ASSUME Even(b[1])
        PROVE  \A i \in DOMAIN caps : caps[i] = bid_caps[b[1]][i] /\ caps[i] \in Int
    <3>1. \A i \in DOMAIN units : units[i] = 1
      BY <1>1, <1>2, <2>4, IdFacts DEF Even, Bid
    <3> QED
      BY <2>2, <3>1, QuotientOf
  <2>5. DOMAIN caps = DOMAIN units
    OBVIOUS
  <2> HIDE DEF caps, units, left
  <2>6. MinElement(caps) \in Int \cup {NaN}
    BY <2>1, <2>3, <2>5, MinElementOf
  <2>7. BidCapacity(b) = StdMin(MinElement(caps), left)
    BY <1>4, <1>6
  <2>8. BidCapacity(b) \in Int \cup {NaN}
    <3>1. CASE MinElement(caps) = NaN
      BY <2>7, <3>1 DEF StdMin
    <3>2. CASE MinElement(caps) \in Int
      BY <1>3, <2>7, <3>2, StdMinOf
    <3> QED
      BY <2>6, <3>1, <3>2
  <2>9. ASSUME Even(b[1])
        PROVE  BidCapacity(b) \in Int /\ \A i \in DOMAIN bids[b[1]].caps : BidCapacity(b) <= bid_caps[b[1]][i]
    <3>1. \A i \in DOMAIN caps : caps[i] = bid_caps[b[1]][i] /\ caps[i] \in Int
      BY <2>4, <2>9
    <3>2. MinElement(caps) \in Int /\ \A i \in DOMAIN caps : MinElement(caps) <= caps[i]
      BY <2>1, <2>3, <2>5, <3>1, MinElementOf
    <3>3. BidCapacity(b) \in Int /\ BidCapacity(b) <= MinElement(caps)
      BY <1>3, <2>7, <3>2, StdMinOf
    <3>4. \A i \in DOMAIN caps : BidCapacity(b) <= bid_caps[b[1]][i]
      BY <3>1, <3>2, <3>3
    <3> QED
      BY <1>2, <2>5, <3>3, <3>4
  <2> QED
    BY <2>8, <2>9
<1> QED
  BY <1>5, <1>6

\* A positive match keeps within all that limits it.
LEMMA ToMatchOf ==
  ASSUME StageInv, NEW b \in arcs, CapsLeft(flow, req_caps, bid_caps), Supplied(bid_caps)
  PROVE  /\ ToMatch(b) \in Int
         /\ exclusive(b) => ToMatch(b) \in {0, excl_val(b)}
         /\ ToMatch(b) > 0 =>
              /\ ToMatch(b) <= PortfolioQty(requests[GroupOf(b)]) - Matched(flow, GroupOf(b))
              /\ ToMatch(b) <= Req(unode(b)).qty - Over(flow, ArcsOf(unode(b)))
              /\ Even(b[1]) => \A i \in DOMAIN bids[b[1]].caps : ToMatch(b) <= bid_caps[b[1]][i]
<1>1. b \in BidIds /\ NodesTyped /\ (\A a \in arcs : flow[a] \in Nat)
  BY Typing DEF StageInv
<1>2. /\ GroupOf(b) \in DOMAIN requests /\ PortfolioQty(requests[GroupOf(b)]) \in Nat
      /\ unode(b) \in RequestIds /\ Req(unode(b)).qty \in Nat
  BY <1>1 DEF NodesTyped
<1>3. Matched(flow, GroupOf(b)) \in Nat /\ Over(flow, ArcsOf(unode(b))) \in Nat
  <2>1. {a \in arcs : GroupOf(a) = GroupOf(b)} \in SUBSET arcs /\ ArcsOf(unode(b)) \in SUBSET arcs
    BY DEF ArcsOf
  <2> QED
    BY <1>1, <2>1, OverNat DEF Matched
<1> DEFINE remain  == PortfolioQty(requests[GroupOf(b)]) - Match(GroupOf(b))
           tomatch == StdMin(remain, Capacity(b))
           room    == Req(unode(b)).qty - Over(flow, ArcsOf(unode(b)))
<1>4. remain = PortfolioQty(requests[GroupOf(b)]) - Matched(flow, GroupOf(b)) /\ remain \in Int
  BY <1>2, <1>3, FlowOver DEF Match, Matched
<1>5. req_caps[GroupOf(b)] \in Int /\ room \in Int
  BY <1>2, <1>3 DEF CapsLeft
<1>6. RequestCapacity(b) = Min({req_caps[GroupOf(b)], room})
  BY FlowOver DEF RequestCapacity
<1>7. ToMatch(b) = IF ~exclusive(b) THEN tomatch ELSE IF tomatch < excl_val(b) THEN 0 ELSE excl_val(b)
  BY DEF ToMatch
<1>8. excl_val(b) \in Nat /\ exclusive(b) \in BOOLEAN
  BY ExclVal
<1> HIDE DEF remain, room
<1>9. RequestCapacity(b) \in Int /\ RequestCapacity(b) <= room
  BY <1>5, <1>6, MinPair
<1>10. /\ BidCapacity(b) \in Int \cup {NaN}
       /\ Even(b[1]) => BidCapacity(b) \in Int /\
            \A i \in DOMAIN bids[b[1]].caps : BidCapacity(b) <= bid_caps[b[1]][i]
  BY <1>1, BidCapacityOf
<1>11. /\ Capacity(b) \in Int /\ Capacity(b) <= room
       /\ Even(b[1]) => Capacity(b) <= BidCapacity(b)
  <2>1. Capacity(b) = StdMin(RequestCapacity(b), BidCapacity(b))
    BY DEF Capacity
  <2>2. /\ Capacity(b) \in Int /\ Capacity(b) <= RequestCapacity(b)
        /\ BidCapacity(b) \in Int => Capacity(b) <= BidCapacity(b)
    BY <1>9, <1>10, <2>1, StdMinOf
  <2>3. Capacity(b) <= room
    BY <1>5, <1>9, <2>2
  <2> QED
    BY <1>10, <2>2, <2>3
<1>12. tomatch \in Int /\ tomatch <= remain /\ tomatch <= Capacity(b)
  BY <1>4, <1>11, StdMinOf
<1> HIDE DEF tomatch
<1>13. /\ ToMatch(b) \in Int /\ (exclusive(b) => ToMatch(b) \in {0, excl_val(b)})
       /\ ToMatch(b) > 0 => ToMatch(b) <= tomatch
  BY <1>7, <1>8, <1>12
<1>14. ASSUME ToMatch(b) > 0
       PROVE  ToMatch(b) <= remain /\ ToMatch(b) <= room /\ ToMatch(b) <= Capacity(b)
  BY <1>4, <1>5, <1>11, <1>12, <1>13, <1>14
<1>15. ASSUME ToMatch(b) > 0, Even(b[1]), NEW i \in DOMAIN bids[b[1]].caps
       PROVE  ToMatch(b) <= bid_caps[b[1]][i]
  <2>1. b[1] \in DOMAIN bids
    BY <1>1 DEF NodesTyped
  <2>2. bid_caps[b[1]][i] \in Int
    BY <1>15, <2>1 DEF Supplied
  <2>3. BidCapacity(b) \in Int /\ BidCapacity(b) <= bid_caps[b[1]][i]
    BY <1>10, <1>15
  <2>4. ToMatch(b) <= Capacity(b) /\ Capacity(b) <= BidCapacity(b)
    BY <1>11, <1>14, <1>15
  <2> QED
    BY <1>11, <1>13, <2>2, <2>3, <2>4
<1> QED
  BY <1>4, <1>13, <1>14, <1>15 DEF room

\* The capacities of supply groups are whole numbers.
LEMMA CapsSupplied ==
  ASSUME StageInv, CapsLeft(flow, req_caps, bid_caps)
  PROVE  Supplied(bid_caps)
<1>1. NodesTyped /\ \A a \in arcs : flow[a] \in Nat
  BY Typing DEF StageInv
<1> SUFFICES ASSUME NEW q \in DOMAIN bids, NEW i \in DOMAIN bids[q].caps
             PROVE  bid_caps[q][i] \in Int
  BY DEF Supplied, CapsLeft
<1>2. bids[q].caps[i] \in Int
  BY <1>1 DEF NodesTyped
<1>3. Drawn(flow, q, i) \in Nat
  <2>1. {b \in arcs : b[1] = q /\ Bid(b).units[i] = 1} \in SUBSET arcs
    OBVIOUS
  <2> QED
    BY <1>1, <2>1, OverNat DEF Drawn
<1>4. bid_caps[q][i] = IF bids[q].caps[i] = Unlimited THEN Unlimited
                       ELSE bids[q].caps[i] - Drawn(flow, q, i)
  BY DEF CapsLeft
<1> QED
  BY <1>2, <1>3, <1>4, UnlimitedAssumption

(***************************************************************************)
(* How one more match d on arc b changes what is matched.                  *)
(***************************************************************************)
LEMMA Bumps ==
  ASSUME StageInv, NEW f, Whole(f), NEW b \in arcs, NEW d \in Int, NEW g, Bumped(f, g, b, d)
  PROVE  /\ \A r \in RequestIds :
              /\ Over(f, ArcsOf(r)) \in Int
              /\ Over(g, ArcsOf(r)) = Over(f, ArcsOf(r)) + (IF unode(b) = r THEN d ELSE 0)
         /\ \A p : /\ Matched(f, p) \in Int
                   /\ Matched(g, p) = Matched(f, p) + (IF GroupOf(b) = p THEN d ELSE 0)
         /\ \A q, i : /\ Drawn(f, q, i) \in Int
                      /\ Drawn(g, q, i) = Drawn(f, q, i)
                           + (IF b[1] = q /\ Bid(b).units[i] = 1 THEN d ELSE 0)
<1>1. ASSUME NEW r
      PROVE  /\ Over(f, ArcsOf(r)) \in Int
             /\ Over(g, ArcsOf(r)) = Over(f, ArcsOf(r)) + (IF unode(b) = r THEN d ELSE 0)
  <2> DEFINE S == ArcsOf(r)
  <2>1. S \in SUBSET arcs /\ (b \in S <=> unode(b) = r)
    BY DEF ArcsOf
  <2> HIDE DEF S
  <2>2. Over(f, S) \in Int /\ Over(g, S) = Over(f, S) + (IF b \in S THEN d ELSE 0)
    BY <2>1, OverBumped
  <2>3. Over(g, S) = Over(f, S) + (IF unode(b) = r THEN d ELSE 0)
    BY <2>1, <2>2
  <2> QED
    BY <2>2, <2>3 DEF S
<1>2. ASSUME NEW p
      PROVE  /\ Matched(f, p) \in Int
             /\ Matched(g, p) = Matched(f, p) + (IF GroupOf(b) = p THEN d ELSE 0)
  <2> DEFINE S == {a \in arcs : GroupOf(a) = p}
  <2>1. S \in SUBSET arcs /\ (b \in S <=> GroupOf(b) = p)
    OBVIOUS
  <2>2. Matched(f, p) = Over(f, S) /\ Matched(g, p) = Over(g, S)
    BY DEF Matched
  <2> HIDE DEF S
  <2>3. Over(f, S) \in Int /\ Over(g, S) = Over(f, S) + (IF b \in S THEN d ELSE 0)
    BY <2>1, OverBumped
  <2> QED
    BY <2>1, <2>2, <2>3
<1>3. ASSUME NEW q, NEW i
      PROVE  /\ Drawn(f, q, i) \in Int
             /\ Drawn(g, q, i) = Drawn(f, q, i) + (IF b[1] = q /\ Bid(b).units[i] = 1 THEN d ELSE 0)
  <2> DEFINE S == {a \in arcs : a[1] = q /\ Bid(a).units[i] = 1}
  <2>1. S \in SUBSET arcs /\ (b \in S <=> b[1] = q /\ Bid(b).units[i] = 1)
    OBVIOUS
  <2>2. Drawn(f, q, i) = Over(f, S) /\ Drawn(g, q, i) = Over(g, S)
    BY DEF Drawn
  <2> HIDE DEF S
  <2>3. Over(f, S) \in Int /\ Over(g, S) = Over(f, S) + (IF b \in S THEN d ELSE 0)
    BY <2>1, OverBumped
  <2> QED
    BY <2>1, <2>2, <2>3
<1> QED
  BY <1>1, <1>2, <1>3

(***************************************************************************)
(* A match keeps the limits of the greedy solver, and the capacities of    *)
(* the groups keep up with it (GreedilySatisfySet, UpdateCapacity).        *)
(***************************************************************************)
LEMMA MatchKeepsLimits ==
  ASSUME StageInv, GreedyLimits(flow), CapsLeft(flow, req_caps, bid_caps), NEW b \in arcs, flow[b] = 0,
         ToMatch(b) > 0, ToMatch(b) <= Bid(b).qty, NEW g, Bumped(flow, g, b, ToMatch(b))
  PROVE  GreedyLimits(g)
<1> DEFINE d == ToMatch(b)
<1>1. NodesTyped /\ (\A a \in arcs : flow[a] \in Nat) /\ Whole(flow) /\ arcs \subseteq BidIds
  BY Typing DEF StageInv, Whole
<1>2. Supplied(bid_caps)
  BY CapsSupplied
<1>3. /\ d \in Int
      /\ exclusive(b) => d \in {0, excl_val(b)}
      /\ d <= PortfolioQty(requests[GroupOf(b)]) - Matched(flow, GroupOf(b))
      /\ d <= Req(unode(b)).qty - Over(flow, ArcsOf(unode(b)))
      /\ Even(b[1]) => \A i \in DOMAIN bids[b[1]].caps : d <= bid_caps[b[1]][i]
  BY <1>2, ToMatchOf
<1>4. d > 0 /\ d <= Bid(b).qty /\ Bumped(flow, g, b, d)
  OBVIOUS
<1> HIDE DEF d
<1>5. /\ \A r \in RequestIds :
           /\ Over(flow, ArcsOf(r)) \in Int
           /\ Over(g, ArcsOf(r)) = Over(flow, ArcsOf(r)) + (IF unode(b) = r THEN d ELSE 0)
      /\ \A p : /\ Matched(flow, p) \in Int
                /\ Matched(g, p) = Matched(flow, p) + (IF GroupOf(b) = p THEN d ELSE 0)
      /\ \A q, i : /\ Drawn(flow, q, i) \in Int
                   /\ Drawn(g, q, i) = Drawn(flow, q, i)
                        + (IF b[1] = q /\ Bid(b).units[i] = 1 THEN d ELSE 0)
  BY <1>1, <1>3, <1>4, Bumps
<1>6. ASSUME NEW a \in arcs
      PROVE  g[a] <= Bid(a).qty /\ (exclusive(a) => g[a] \in {0, excl_val(a)})
  <2>1. CASE a = b
    <3>1. g[a] = d
      BY <1>3, <1>4, <2>1 DEF Bumped
    <3> QED
      BY <1>3, <1>4, <2>1, <3>1
  <2>2. CASE a # b
    <3>1. g[a] = flow[a]
      BY <1>4, <2>2 DEF Bumped
    <3> QED
      BY <3>1 DEF GreedyLimits
  <2> QED
    BY <2>1, <2>2
<1>7. ASSUME NEW r \in RequestIds
      PROVE  Over(g, ArcsOf(r)) <= Req(r).qty
  <2>1. Req(r).qty \in Nat /\ Over(flow, ArcsOf(r)) <= Req(r).qty
    BY <1>1 DEF NodesTyped, GreedyLimits
  <2>2. CASE unode(b) = r
    BY <1>3, <1>5, <2>1, <2>2
  <2>3. CASE unode(b) # r
    BY <1>5, <2>1, <2>3
  <2> QED
    BY <2>2, <2>3
<1>8. ASSUME NEW p \in DOMAIN requests
      PROVE  Matched(g, p) <= PortfolioQty(requests[p])
  <2>1. PortfolioQty(requests[p]) \in Nat /\ Matched(flow, p) <= PortfolioQty(requests[p])
    BY <1>1 DEF NodesTyped, GreedyLimits
  <2>2. CASE GroupOf(b) = p
    BY <1>3, <1>5, <2>1, <2>2
  <2>3. CASE GroupOf(b) # p
    BY <1>5, <2>1, <2>3
  <2> QED
    BY <2>2, <2>3
<1>9. ASSUME NEW q \in DOMAIN bids, Even(q), NEW i \in DOMAIN bids[q].caps, bids[q].caps[i] # Unlimited
      PROVE  Drawn(g, q, i) <= bids[q].caps[i]
  <2>1. bids[q].caps[i] \in Int /\ Drawn(flow, q, i) <= bids[q].caps[i]
    BY <1>1, <1>9 DEF NodesTyped, GreedyLimits
  <2>2. bid_caps[q][i] = bids[q].caps[i] - Drawn(flow, q, i)
    BY <1>9 DEF CapsLeft
  <2>3. CASE b[1] = q
    <3>1. d <= bid_caps[q][i]
      BY <1>3, <1>9, <2>3
    <3>2. Drawn(g, q, i) = Drawn(flow, q, i) + d \/ Drawn(g, q, i) = Drawn(flow, q, i) + 0
      BY <1>5
    <3> QED
      BY <1>3, <1>5, <2>1, <2>2, <3>1, <3>2
  <2>4. CASE b[1] # q
    BY <1>5, <2>1, <2>4
  <2> QED
    BY <2>3, <2>4
<1> QED
  BY <1>6, <1>7, <1>8, <1>9 DEF GreedyLimits

\* UpdateCapacity takes the match off the capacities of both groups.
LEMMA MatchKeepsCaps ==
  ASSUME StageInv, CapsLeft(flow, req_caps, bid_caps), NEW b \in arcs, NEW d \in Nat, NEW g, Bumped(flow, g, b, d),
         NEW rc, rc = [req_caps EXCEPT ![GroupOf(b)] = @ - d],
         NEW bc, bc = [bid_caps EXCEPT ![b[1]] = UpdateCapacity(@, Bid(b).units, d)]
  PROVE  CapsLeft(g, rc, bc)
<1>1. NodesTyped /\ (\A a \in arcs : flow[a] \in Nat) /\ Whole(flow) /\ b \in BidIds
  BY Typing DEF StageInv, Whole
<1>2. /\ \A p : /\ Matched(flow, p) \in Int
                /\ Matched(g, p) = Matched(flow, p) + (IF GroupOf(b) = p THEN d ELSE 0)
      /\ \A q, i : /\ Drawn(flow, q, i) \in Int
                   /\ Drawn(g, q, i) = Drawn(flow, q, i)
                        + (IF b[1] = q /\ Bid(b).units[i] = 1 THEN d ELSE 0)
  BY <1>1, Bumps
<1>3. DOMAIN rc = DOMAIN requests /\ DOMAIN bc = DOMAIN bids
  BY DEF CapsLeft
<1>4. ASSUME NEW p \in DOMAIN requests
      PROVE  rc[p] = PortfolioQty(requests[p]) - Matched(g, p)
  <2>1. PortfolioQty(requests[p]) \in Nat /\ req_caps[p] = PortfolioQty(requests[p]) - Matched(flow, p)
    BY <1>1 DEF NodesTyped, CapsLeft
  <2>2. p \in DOMAIN req_caps
    BY DEF CapsLeft
  <2>3. rc[p] = IF GroupOf(b) = p THEN req_caps[p] - d ELSE req_caps[p]
    BY <2>2
  <2> QED
    BY <1>2, <2>1, <2>3
<1>5. ASSUME NEW q \in DOMAIN bids
      PROVE  /\ DOMAIN bc[q] = DOMAIN bids[q].caps
             /\ \A i \in DOMAIN bids[q].caps :
                  bc[q][i] = IF bids[q].caps[i] = Unlimited THEN Unlimited
                             ELSE bids[q].caps[i] - Drawn(g, q, i)
  <2>1. /\ q \in DOMAIN bid_caps /\ DOMAIN bid_caps[q] = DOMAIN bids[q].caps
        /\ \A i \in DOMAIN bids[q].caps :
             bid_caps[q][i] = IF bids[q].caps[i] = Unlimited THEN Unlimited
                              ELSE bids[q].caps[i] - Drawn(flow, q, i)
    BY DEF CapsLeft
  <2>2. CASE b[1] # q
    <3>1. bc[q] = bid_caps[q]
      BY <2>1, <2>2
    <3>2. \A i : Drawn(g, q, i) = Drawn(flow, q, i)
      BY <1>2, <2>2
    <3> QED
      BY <2>1, <3>1, <3>2
  <2>3. CASE b[1] = q
    <3>1. bc[q] = UpdateCapacity(bid_caps[q], Bid(b).units, d)
      BY <2>1, <2>3
    <3>2. DOMAIN bc[q] = DOMAIN bids[q].caps
      BY <2>1, <3>1 DEF UpdateCapacity
    <3>3. ASSUME NEW i \in DOMAIN bids[q].caps
          PROVE  bc[q][i] = IF bids[q].caps[i] = Unlimited THEN Unlimited
                            ELSE bids[q].caps[i] - Drawn(g, q, i)
      <4>1. bc[q][i] = IF bid_caps[q][i] = Unlimited THEN Unlimited
                       ELSE bid_caps[q][i] - d * Bid(b).units[i]
        BY <2>1, <3>1 DEF UpdateCapacity
      <4>2. Bid(b).units \in Seq({0, 1}) /\ DOMAIN Bid(b).units = DOMAIN bids[q].caps
        BY <1>1, <2>3 DEF NodesTyped
      <4>3. Bid(b).units[i] \in {0, 1}
        BY <4>2, SeqOf
      <4>4. bids[q].caps[i] \in 0..Unlimited /\ Drawn(flow, q, i) \in Int
        BY <1>1, <1>2 DEF NodesTyped
      <4>5. d * Bid(b).units[i] = IF Bid(b).units[i] = 1 THEN d ELSE 0
        BY <4>3
      <4>6. Drawn(g, q, i) = Drawn(flow, q, i) + (IF Bid(b).units[i] = 1 THEN d ELSE 0)
        BY <1>2, <2>3
      <4>7. Drawn(flow, q, i) >= 0
        <5>1. {a \in arcs : a[1] = q /\ Bid(a).units[i] = 1} \in SUBSET arcs
          OBVIOUS
        <5>2. Drawn(flow, q, i) \in Nat
          BY <1>1, <5>1, OverNat DEF Drawn
        <5> QED
          BY <5>2
      <4>8. CASE bids[q].caps[i] = Unlimited
        BY <2>1, <4>1, <4>8
      <4>9. CASE bids[q].caps[i] # Unlimited
        <5>1. bid_caps[q][i] = bids[q].caps[i] - Drawn(flow, q, i)
          BY <2>1, <4>9
        <5>2. bid_caps[q][i] # Unlimited
          BY <4>4, <4>7, <4>9, <5>1, UnlimitedAssumption
        <5>3. bc[q][i] = bid_caps[q][i] - (IF Bid(b).units[i] = 1 THEN d ELSE 0)
          BY <4>1, <4>5, <5>2
        <5> QED
          BY <4>4, <4>6, <4>9, <5>1, <5>3
      <4> QED
        BY <4>8, <4>9
    <3> QED
      BY <3>2, <3>3
  <2> QED
    BY <2>2, <2>3
<1> QED
  BY <1>3, <1>4, <1>5 DEF CapsLeft

-----------------------------------------------------------------------------
(***************************************************************************)
(* The program of the optimizing solver: prices, and what one unit more or *)
(* less on a divisible arc costs.                                          *)
(***************************************************************************)
Price(b) == Scale \div trader_prefs[b]

\* A tenfold of at least p is divided by p at least ten times.
LEMMA DivideAtLeastTen ==
  ASSUME NEW p \in Nat \ {0}, NEW n \in Nat, n >= p
  PROVE  (10 * n) \div p \in Nat /\ (10 * n) \div p >= 10
<1> DEFINE a == 10 * n
           q == a \div p
           r == a % p
<1>1. a \in Nat /\ a >= 10 * p
  OBVIOUS
<1> HIDE DEF a
<1>2. q \in Int /\ r \in 0..(p - 1) /\ a = p * q + r
  BY <1>1
<1> HIDE DEF q, r
<1>3. q >= 10
  <2> SUFFICES ASSUME q <= 9 PROVE FALSE
    BY <1>2
  <2>1. p * q <= p * 9
    BY <1>2
  <2> QED
    BY <1>1, <1>2, <2>1
<1> QED
  BY <1>2, <1>3 DEF a, q

\* Products of natural numbers are natural numbers.
LEMMA NatTimes ==
  ASSUME NEW a \in Nat, NEW b \in Nat
  PROVE  a * b \in Nat
  OBVIOUS

\* A unit on an arc costs at least ten in the scale of the model.
LEMMA Prices ==
  ASSUME StageInv
  PROVE  \A b \in arcs : Price(b) \in Nat /\ Price(b) >= 10
<1> DEFINE P == {trader_prefs[b] : b \in arcs}
<1>1. \A b \in arcs : trader_prefs[b] \in Nat \ {0}
  BY DEF StageInv
<1>2. IsFiniteSet(P)
  BY ArcsFinite, ImageFinite
<1>3. P \subseteq Nat \ {0} /\ \A b \in arcs : trader_prefs[b] \in P
  BY <1>1
<1>4. Scale = 10 * Product(P)
  BY DEF Scale, Product
<1> HIDE DEF P
<1>5. Product(P) \in Nat \ {0} /\ \A x \in P : Product(P) >= x
  BY <1>2, <1>3, ProductBound
<1> SUFFICES ASSUME NEW b \in arcs
             PROVE  Price(b) \in Nat /\ Price(b) >= 10
  OBVIOUS
<1>6. trader_prefs[b] \in Nat \ {0} /\ Product(P) \in Nat /\ Product(P) >= trader_prefs[b]
  BY <1>1, <1>3, <1>5
<1>7. (10 * Product(P)) \div trader_prefs[b] \in Nat /\ (10 * Product(P)) \div trader_prefs[b] >= 10
  BY <1>6, DivideAtLeastTen
<1> QED
  BY <1>4, <1>7 DEF Price

\* A unit that is not matched costs more than it does on any divisible arc.
LEMMA PseudoCostHigh ==
  ASSUME StageInv
  PROVE  PseudoCost \in Nat /\ \A b \in arcs : ~exclusive(b) => PseudoCost > Price(b)
<1> DEFINE cost == [b \in arcs |-> Cost(b)]
           I == {cost[b] : b \in arcs}
           C == {0} \cup I
           m == Max(C)
<1>1. ASSUME NEW b \in arcs
      PROVE  Cost(b) \in Nat /\ (~exclusive(b) => Cost(b) = Price(b))
  <2>1. Price(b) \in Nat /\ excl_val(b) \in Nat /\ exclusive(b) \in BOOLEAN
    BY Prices, ExclVal
  <2>2. Cost(b) = Price(b) * (IF exclusive(b) THEN excl_val(b) ELSE 1)
    BY DEF Cost, Price
  <2>3. CASE exclusive(b)
    BY <2>1, <2>2, <2>3, NatTimes
  <2>4. CASE ~exclusive(b)
    BY <2>1, <2>2, <2>4
  <2> QED
    BY <2>1, <2>3, <2>4
<1>2. IsFiniteSet(I)
  <2> HIDE DEF cost
  <2> QED
    BY ArcsFinite, ImageFinite
<1>3. IsFiniteSet({0})
  BY FS_Singleton
<1>4. IsFiniteSet(C)
  <2> HIDE DEF I
  <2> QED
    BY <1>2, <1>3, FS_Union
<1>5. C \subseteq Nat /\ C # {} /\ \A b \in arcs : Cost(b) \in C
  BY <1>1
<1>6. C = {0} \cup {Cost(b) : b \in arcs}
  OBVIOUS
<1>7. PseudoCost = m + m \div 10
  BY <1>6 DEF PseudoCost
<1> HIDE DEF C
<1>8. C \subseteq Int
  BY <1>5
<1>9. m \in C /\ \A y \in C : m >= y
  BY <1>4, <1>5, <1>8, GreatestOf
<1>10. m \in Nat
  BY <1>5, <1>9
<1> HIDE DEF m
<1>11. PseudoCost \in Nat /\ (m >= 10 => PseudoCost > m)
  BY <1>7, <1>10
<1>12. ASSUME NEW b \in arcs, ~exclusive(b)
       PROVE  PseudoCost > Price(b)
  <2>1. Price(b) \in Nat /\ Price(b) >= 10 /\ m >= Price(b)
    BY <1>1, <1>5, <1>9, <1>12, Prices
  <2> QED
    BY <1>10, <1>11, <2>1
<1> QED
  BY <1>11, <1>12

\* The parts of the objective.
Groups == {GroupOf(b) : b \in arcs}
Spent(f) == [b \in arcs |-> (Scale \div trader_prefs[b]) * f[b]]
Lack(f)  == [p \in Groups |-> Max({0, PortfolioQty(requests[p]) - Matched(f, p)})]

\* The objective is the cost of the arcs plus that of what is not matched.
LEMMA ObjectiveParts ==
  ASSUME StageInv, NEW f, \A a \in arcs : f[a] \in Nat
  PROVE  /\ Objective(f) = Over(Spent(f), arcs) + PseudoCost * Over(Lack(f), Groups)
         /\ IsFiniteSet(Groups) /\ Groups \subseteq DOMAIN requests
         /\ \A b \in arcs : Spent(f)[b] = Price(b) * f[b] /\ Spent(f)[b] \in Nat
         /\ \A p \in Groups : Lack(f)[p] \in Nat /\ Lack(f)[p] =
               IF PortfolioQty(requests[p]) >= Matched(f, p)
               THEN PortfolioQty(requests[p]) - Matched(f, p) ELSE 0
         /\ Over(Spent(f), arcs) \in Nat /\ Over(Lack(f), Groups) \in Nat /\ Objective(f) \in Nat
<1>1. Objective(f) = Over(Spent(f), arcs) + PseudoCost * Over(Lack(f), Groups)
  BY DEF Objective, Spent, Lack, Groups
<1>2. IsFiniteSet(Groups)
  <2> DEFINE of == [b \in arcs |-> GroupOf(b)]
  <2>1. Groups = {of[b] : b \in arcs}
    BY DEF Groups
  <2> HIDE DEF of
  <2> QED
    BY <2>1, ArcsFinite, ImageFinite
<1>3. NodesTyped /\ arcs \subseteq BidIds
  BY Typing DEF StageInv
<1>4. Groups \subseteq DOMAIN requests
  BY <1>3 DEF Groups, NodesTyped
<1>5. ASSUME NEW b \in arcs
      PROVE  Spent(f)[b] = Price(b) * f[b] /\ Spent(f)[b] \in Nat
  <2>1. Spent(f)[b] = Price(b) * f[b]
    BY DEF Spent, Price
  <2>2. Price(b) \in Nat /\ f[b] \in Nat
    BY Prices
  <2> QED
    BY <2>1, <2>2, NatTimes
<1>6. ASSUME NEW p \in Groups
      PROVE  Lack(f)[p] \in Nat /\ Lack(f)[p] =
               IF PortfolioQty(requests[p]) >= Matched(f, p)
               THEN PortfolioQty(requests[p]) - Matched(f, p) ELSE 0
  <2> DEFINE x == PortfolioQty(requests[p]) - Matched(f, p)
  <2>1. PortfolioQty(requests[p]) \in Nat
    BY <1>3, <1>4 DEF NodesTyped
  <2>2. Matched(f, p) \in Nat
    <3>1. {b \in arcs : GroupOf(b) = p} \in SUBSET arcs
      OBVIOUS
    <3> QED
      BY <3>1, OverNat DEF Matched
  <2>3. Lack(f)[p] = Max({0, x}) /\ x \in Int
    BY <2>1, <2>2 DEF Lack
  <2> HIDE DEF x
  <2>4. Lack(f)[p] = IF x >= 0 THEN x ELSE 0
    BY <2>3, MaxPair
  <2> QED
    BY <2>1, <2>2, <2>3, <2>4 DEF x
<1>7. Over(Spent(f), arcs) \in Nat
  BY <1>5, ArcsFinite, TotalNat, OverTotal
<1>8. Over(Lack(f), Groups) \in Nat
  BY <1>2, <1>6, TotalNat, OverTotal
<1>9. PseudoCost * Over(Lack(f), Groups) \in Nat
  BY <1>8, PseudoCostHigh, NatTimes
<1>10. Objective(f) \in Nat
  BY <1>1, <1>7, <1>9
<1> QED
  BY <1>1, <1>2, <1>4, <1>5, <1>6, <1>7, <1>8, <1>10

\* A unit more or less on an arc changes the cost of the arcs by its price.
LEMMA SpentBumped ==
  ASSUME StageInv, NEW f, \A a \in arcs : f[a] \in Nat, NEW g, \A a \in arcs : g[a] \in Nat,
         NEW b \in arcs, NEW d \in {-1, 1}, Bumped(f, g, b, d)
  PROVE  Over(Spent(g), arcs) = Over(Spent(f), arcs) + d * Price(b)
<1>1. /\ \A a \in arcs : Spent(f)[a] = Price(a) * f[a] /\ Spent(f)[a] \in Int
      /\ \A a \in arcs : Spent(g)[a] = Price(a) * g[a]
  BY ObjectiveParts
<1>2. \A a \in arcs : Price(a) \in Nat
  BY Prices
<1> DEFINE e == d * Price(b)
<1>3. e \in Int
  BY <1>2
<1>4. ASSUME NEW a \in arcs
      PROVE  Spent(g)[a] = IF a = b THEN Spent(f)[a] + e ELSE Spent(f)[a]
  <2>1. CASE a = b
    <3>1. g[a] = f[a] + d
      BY <2>1 DEF Bumped
    <3>2. Price(a) * (f[a] + d) = Price(a) * f[a] + d * Price(a)
      BY <1>2
    <3> QED
      BY <1>1, <2>1, <3>1, <3>2
  <2>2. CASE a # b
    <3>1. g[a] = f[a]
      BY <2>2 DEF Bumped
    <3> QED
      BY <1>1, <2>2, <3>1
  <2> QED
    BY <2>1, <2>2
<1> HIDE DEF e
<1>5. Total(Spent(g), arcs) = Total(Spent(f), arcs) + (IF b \in arcs THEN e ELSE 0)
  BY <1>1, <1>3, <1>4, ArcsFinite, TotalBump
<1> QED
  BY <1>5, OverTotal DEF e

\* A unit less where too much is matched, and one more where there is too little.
LEMMA LackKept ==
  ASSUME StageInv, NEW f, \A a \in arcs : f[a] \in Nat, NEW g, \A a \in arcs : g[a] \in Nat,
         NEW b \in arcs, Bumped(f, g, b, -1),
         Matched(f, GroupOf(b)) > PortfolioQty(requests[GroupOf(b)])
  PROVE  Over(Lack(g), Groups) = Over(Lack(f), Groups)
<1>1. Whole(f)
  BY DEF Whole
<1>2. \A p : /\ Matched(f, p) \in Int
             /\ Matched(g, p) = Matched(f, p) + (IF GroupOf(b) = p THEN -1 ELSE 0)
  BY <1>1, Bumps
<1>3. IsFiniteSet(Groups) /\ Groups \subseteq DOMAIN requests
  BY ObjectiveParts
<1>4. ASSUME NEW p \in Groups
      PROVE  Lack(f)[p] = Lack(g)[p]
  <2>1. PortfolioQty(requests[p]) \in Nat
    BY <1>3, Typing DEF NodesTyped
  <2>2. /\ Lack(f)[p] = IF PortfolioQty(requests[p]) >= Matched(f, p)
                        THEN PortfolioQty(requests[p]) - Matched(f, p) ELSE 0
        /\ Lack(g)[p] = IF PortfolioQty(requests[p]) >= Matched(g, p)
                        THEN PortfolioQty(requests[p]) - Matched(g, p) ELSE 0
    BY ObjectiveParts
  <2>3. CASE GroupOf(b) = p
    <3>1. Matched(f, p) > PortfolioQty(requests[p]) /\ Matched(g, p) = Matched(f, p) + (-1)
      BY <1>2, <2>3
    <3> QED
      BY <1>2, <2>1, <2>2, <3>1
  <2>4. CASE GroupOf(b) # p
    <3>1. Matched(g, p) = Matched(f, p)
      BY <1>2, <2>4
    <3> QED
      BY <2>2, <3>1
  <2> QED
    BY <2>3, <2>4
<1>5. Total(Lack(f), Groups) = Total(Lack(g), Groups)
  BY <1>3, <1>4, TotalCong
<1> QED
  BY <1>5, OverTotal

\* A unit more for a portfolio that is short is one less on its false arc.
LEMMA LackReduced ==
  ASSUME StageInv, NEW f, \A a \in arcs : f[a] \in Nat, NEW g, \A a \in arcs : g[a] \in Nat,
         NEW b \in arcs, Bumped(f, g, b, 1),
         Matched(f, GroupOf(b)) < PortfolioQty(requests[GroupOf(b)])
  PROVE  Over(Lack(g), Groups) = Over(Lack(f), Groups) - 1
<1>1. Whole(f) /\ GroupOf(b) \in Groups
  BY DEF Whole, Groups
<1>2. \A p : /\ Matched(f, p) \in Int
             /\ Matched(g, p) = Matched(f, p) + (IF GroupOf(b) = p THEN 1 ELSE 0)
  BY <1>1, Bumps
<1>3. IsFiniteSet(Groups) /\ Groups \subseteq DOMAIN requests /\ \A p \in Groups : Lack(f)[p] \in Int
  BY ObjectiveParts
<1>4. ASSUME NEW p \in Groups
      PROVE  Lack(g)[p] = IF p = GroupOf(b) THEN Lack(f)[p] + (-1) ELSE Lack(f)[p]
  <2>1. PortfolioQty(requests[p]) \in Nat
    BY <1>3, Typing DEF NodesTyped
  <2>2. /\ Lack(f)[p] = IF PortfolioQty(requests[p]) >= Matched(f, p)
                        THEN PortfolioQty(requests[p]) - Matched(f, p) ELSE 0
        /\ Lack(g)[p] = IF PortfolioQty(requests[p]) >= Matched(g, p)
                        THEN PortfolioQty(requests[p]) - Matched(g, p) ELSE 0
    BY ObjectiveParts
  <2>3. CASE GroupOf(b) = p
    <3>1. Matched(f, p) < PortfolioQty(requests[p]) /\ Matched(g, p) = Matched(f, p) + 1
      BY <1>2, <2>3
    <3> QED
      BY <1>2, <2>1, <2>2, <2>3, <3>1
  <2>4. CASE GroupOf(b) # p
    <3>1. Matched(g, p) = Matched(f, p)
      BY <1>2, <2>4
    <3> QED
      BY <2>2, <2>4, <3>1
  <2> QED
    BY <2>3, <2>4
<1>5. -1 \in Int
  OBVIOUS
<1>6. Total(Lack(g), Groups) = Total(Lack(f), Groups) + (IF GroupOf(b) \in Groups THEN -1 ELSE 0)
  BY <1>3, <1>4, <1>5, TotalBump
<1>7. Over(Lack(f), Groups) \in Nat
  BY ObjectiveParts
<1> QED
  BY <1>1, <1>6, <1>7, OverTotal

\* Both make the solution cheaper.
LEMMA Cheaper ==
  ASSUME StageInv, NEW f, \A a \in arcs : f[a] \in Nat, NEW g, \A a \in arcs : g[a] \in Nat,
         NEW b \in arcs, ~exclusive(b),
         \/ /\ Bumped(f, g, b, -1)
            /\ Matched(f, GroupOf(b)) > PortfolioQty(requests[GroupOf(b)])
         \/ /\ Bumped(f, g, b, 1)
            /\ Matched(f, GroupOf(b)) < PortfolioQty(requests[GroupOf(b)])
  PROVE  Objective(g) < Objective(f)
<1> DEFINE s == Over(Spent(f), arcs)
           t == Over(Spent(g), arcs)
           l == Over(Lack(f), Groups)
           m == Over(Lack(g), Groups)
           c == PseudoCost
<1>1. /\ Objective(f) = s + c * l /\ Objective(g) = t + c * m
      /\ s \in Nat /\ t \in Nat /\ l \in Nat /\ m \in Nat
  BY ObjectiveParts
<1>2. Price(b) \in Nat /\ Price(b) >= 10 /\ c \in Nat /\ c > Price(b)
  BY Prices, PseudoCostHigh
<1>3. CASE /\ Bumped(f, g, b, -1)
           /\ Matched(f, GroupOf(b)) > PortfolioQty(requests[GroupOf(b)])
  <2>1. t = s + (-1) * Price(b)
    BY <1>3, SpentBumped
  <2>2. m = l
    BY <1>3, LackKept
  <2> HIDE DEF s, t, l, m, c
  <2>3. c * l \in Nat
    BY <1>1, <1>2, NatTimes
  <2> QED
    BY <1>1, <1>2, <2>1, <2>2, <2>3
<1>4. CASE /\ Bumped(f, g, b, 1)
           /\ Matched(f, GroupOf(b)) < PortfolioQty(requests[GroupOf(b)])
  <2>1. t = s + 1 * Price(b)
    BY <1>4, SpentBumped
  <2>2. m = l - 1
    BY <1>4, LackReduced
  <2> HIDE DEF s, t, l, m, c
  <2>3. c * l \in Nat
    BY <1>1, <1>2, NatTimes
  <2>4. c * (l - 1) = c * l - c
    BY <1>1, <1>2
  <2> QED
    BY <1>1, <1>2, <2>1, <2>2, <2>3, <2>4
<1> QED
  BY <1>3, <1>4

(***************************************************************************)
(* An optimal solution is feasible and no feasible one is cheaper.         *)
(***************************************************************************)
Largest == Max({0} \cup {Req(unode(b)).qty : b \in arcs})

\* The largest quantity asked for bounds every request with an arc.
LEMMA LargestAsked ==
  ASSUME StageInv
  PROVE  Largest \in Nat /\ \A b \in arcs : Req(unode(b)).qty \in Nat /\ Req(unode(b)).qty <= Largest
<1> DEFINE qty == [b \in arcs |-> Req(unode(b)).qty]
           I == {qty[b] : b \in arcs}
           M == {0} \cup I
<1>1. NodesTyped /\ arcs \subseteq BidIds
  BY Typing DEF StageInv
<1>2. \A b \in arcs : Req(unode(b)).qty \in Nat
  BY <1>1 DEF NodesTyped
<1>3. {0} \cup {Req(unode(b)).qty : b \in arcs} = M
  OBVIOUS
<1>4. IsFiniteSet(I)
  <2> HIDE DEF qty
  <2> QED
    BY ArcsFinite, ImageFinite
<1>5. IsFiniteSet({0})
  BY FS_Singleton
<1>6. IsFiniteSet(M)
  <2> HIDE DEF I
  <2> QED
    BY <1>4, <1>5, FS_Union
<1>7. M \subseteq Nat /\ M \subseteq Int /\ M # {} /\ \A b \in arcs : Req(unode(b)).qty \in M
  BY <1>2
<1>8. Largest = Max(M)
  BY <1>3 DEF Largest
<1> HIDE DEF M
<1>9. Max(M) \in M /\ \A y \in M : Max(M) >= y
  BY <1>6, <1>7, GreatestOf
<1> QED
  BY <1>2, <1>7, <1>8, <1>9

\* A solution within the bounds of its variables is one of natural numbers.
LEMMA ColumnsWhole ==
  ASSUME StageInv, NEW f \in Columns
  PROVE  /\ f \in [arcs -> 0..Largest] /\ \A a \in arcs : f[a] \in Nat
         /\ \A b \in arcs : IF exclusive(b) THEN f[b] \in {0, excl_val(b)}
                            ELSE f[b] <= Req(unode(b)).qty
<1>1. f \in [arcs -> 0..Largest]
  BY DEF Columns, Largest
<1>2. \A a \in arcs : f[a] \in 0..Largest
  BY <1>1
<1>3. \A a \in arcs : f[a] \in Nat
  BY <1>2, LargestAsked
<1> QED
  BY <1>1, <1>3 DEF Columns

\* An optimal solution is feasible, and no feasible one costs less.
LEMMA OptimalLeast ==
  ASSUME StageInv, NEW f \in Optimal
  PROVE  f \in Feasible /\ \A g \in Feasible : Objective(f) <= Objective(g)
<1> DEFINE C == {Objective(g) : g \in Feasible}
<1>1. f \in Feasible /\ Objective(f) = Min(C)
  <2> DEFINE cost == [g \in Feasible |-> Objective(g)]
  <2>1. Optimal = {g \in Feasible : cost[g] = Min({cost[h] : h \in Feasible})}
    BY DEF Optimal
  <2>2. {cost[h] : h \in Feasible} = C
    OBVIOUS
  <2>3. f \in Feasible /\ cost[f] = Min({cost[h] : h \in Feasible})
    BY <2>1
  <2>4. cost[f] = Objective(f)
    BY <2>3
  <2> QED
    BY <2>2, <2>3, <2>4
<1>2. \A g \in Feasible : Objective(g) \in Nat
  <2>1. Feasible \subseteq Columns
    BY DEF Feasible
  <2> SUFFICES ASSUME NEW g \in Feasible
               PROVE  Objective(g) \in Nat
    OBVIOUS
  <2>2. \A a \in arcs : g[a] \in Nat
    BY <2>1, ColumnsWhole
  <2> QED
    BY <2>2, ObjectiveParts
<1>3. C \subseteq Nat /\ C # {}
  BY <1>1, <1>2
<1>4. \A y \in C : Min(C) <= y
  <2> HIDE DEF C
  <2> QED
    BY <1>3, LeastNatural
<1> QED
  BY <1>1, <1>4

\* A set of at most one member has no two.
LEMMA AtMostOne ==
  ASSUME NEW T, IsFiniteSet(T), Cardinality(T) <= 1, NEW a \in T, NEW b \in T
  PROVE  a = b
<1> SUFFICES ASSUME a # b PROVE FALSE
  OBVIOUS
<1>1. IsFiniteSet({a}) /\ Cardinality({a}) = 1
  BY FS_Singleton
<1>2. Cardinality({a} \cup {b}) = 2
  <2>1. b \notin {a}
    OBVIOUS
  <2> QED
    BY <1>1, <2>1, FS_AddElement
<1>3. {a} \cup {b} \in SUBSET T
  OBVIOUS
<1>4. Cardinality({a} \cup {b}) <= Cardinality(T)
  BY <1>3, FS_Subset
<1>5. Cardinality(T) \in Nat
  BY FS_CardinalityType
<1> QED
  BY <1>2, <1>4, <1>5

\* The exclusive rows hold exclusive arcs only.
LEMMA RowsExclusive ==
  ASSUME NEW S \in ExclRows, NEW a \in S
  PROVE  a \in arcs /\ exclusive(a) /\ S \subseteq arcs
  BY DEF ExclRows, ArcsOf, exclusive

\* A feasible solution keeps to the rows of the program.
LEMMA FeasibleParts ==
  ASSUME StageInv, NEW f \in Feasible
  PROVE  /\ f \in Columns
         /\ \A S \in ExclRows : \A a, b \in S : f[a] > 0 /\ f[b] > 0 => a = b
         /\ \A q \in DOMAIN bids : \A i \in DOMAIN bids[q].caps : Drawn(f, q, i) <= bids[q].caps[i]
<1>1. /\ f \in Columns
      /\ \A q \in DOMAIN bids : \A i \in DOMAIN bids[q].caps : Drawn(f, q, i) <= bids[q].caps[i]
      /\ \A S \in ExclRows : Cardinality({b \in S : f[b] > 0}) <= 1
  BY DEF Feasible
<1>2. ASSUME NEW S \in ExclRows, NEW a \in S, NEW b \in S, f[a] > 0, f[b] > 0
      PROVE  a = b
  <2> DEFINE T == {x \in S : f[x] > 0}
  <2>1. S \in SUBSET arcs
    BY <1>2, RowsExclusive
  <2>2. T \in SUBSET arcs /\ a \in T /\ b \in T
    BY <1>2, <2>1
  <2>3. Cardinality(T) <= 1
    BY <1>1
  <2> HIDE DEF T
  <2>4. IsFiniteSet(T)
    BY <2>2, ArcsFinite
  <2> QED
    BY <2>2, <2>3, <2>4, AtMostOne
<1> QED
  BY <1>1, <1>2

\* Changing a divisible arc within its bounds and constraints stays feasible.
LEMMA FeasibleBumped ==
  ASSUME StageInv, NEW f \in Feasible, NEW b \in arcs, ~exclusive(b), NEW d \in {-1, 1},
         f[b] + d >= 0, f[b] + d <= Req(unode(b)).qty, NEW g, g = [f EXCEPT ![b] = f[b] + d],
         \A q \in DOMAIN bids : \A i \in DOMAIN bids[q].caps : Drawn(g, q, i) <= bids[q].caps[i]
  PROVE  g \in Feasible /\ Bumped(f, g, b, d) /\ \A a \in arcs : g[a] \in Nat
<1>1. f \in Columns
  BY DEF Feasible
<1>2. /\ f \in [arcs -> 0..Largest] /\ \A a \in arcs : f[a] \in Nat
      /\ \A a \in arcs : IF exclusive(a) THEN f[a] \in {0, excl_val(a)}
                         ELSE f[a] <= Req(unode(a)).qty
  BY <1>1, ColumnsWhole
<1>3. Largest \in Nat /\ Req(unode(b)).qty \in Nat /\ Req(unode(b)).qty <= Largest
  BY LargestAsked
<1>4. f[b] + d \in 0..Largest
  BY <1>2, <1>3
<1>5. /\ DOMAIN g = arcs /\ g[b] = f[b] + d /\ \A a \in arcs : a # b => g[a] = f[a]
      /\ g \in [arcs -> 0..Largest]
  BY <1>2, <1>4
<1>6. Bumped(f, g, b, d)
  BY <1>5 DEF Bumped
<1>7. \A a \in arcs : IF exclusive(a) THEN g[a] \in {0, excl_val(a)} ELSE g[a] <= Req(unode(a)).qty
  BY <1>2, <1>5
<1>8. g \in Columns
  BY <1>5, <1>7 DEF Columns, Largest
<1>9. ASSUME NEW S \in ExclRows
      PROVE  Cardinality({a \in S : g[a] > 0}) <= 1
  <2>1. \A a \in S : a \in arcs /\ a # b
    BY RowsExclusive
  <2>2. {a \in S : g[a] > 0} = {a \in S : f[a] > 0}
    BY <1>5, <2>1
  <2>3. Cardinality({a \in S : f[a] > 0}) <= 1
    BY DEF Feasible
  <2> QED
    BY <2>2, <2>3
<1>10. g \in Feasible
  BY <1>8, <1>9 DEF Feasible
<1> QED
  BY <1>6, <1>8, <1>10, ColumnsWhole

(***************************************************************************)
(* What the optimizing solver returns keeps its limits: were too much      *)
(* matched to a portfolio or too little, one unit less or more on one of   *)
(* its arcs would be feasible and cheaper.                                 *)
(***************************************************************************)
LEMMA OptimalKeepsLimits ==
  ASSUME StageInv, NEW f \in Optimal
  PROVE  ProgLimits(f)
<1>1. f \in Feasible /\ \A g \in Feasible : Objective(f) <= Objective(g)
  BY OptimalLeast
<1>2. /\ f \in Columns
      /\ \A S \in ExclRows : \A a, b \in S : f[a] > 0 /\ f[b] > 0 => a = b
      /\ \A q \in DOMAIN bids : \A i \in DOMAIN bids[q].caps : Drawn(f, q, i) <= bids[q].caps[i]
  BY <1>1, FeasibleParts
<1>3. /\ f \in [arcs -> 0..Largest] /\ (\A a \in arcs : f[a] \in Nat) /\ Whole(f)
      /\ \A b \in arcs : IF exclusive(b) THEN f[b] \in {0, excl_val(b)}
                         ELSE f[b] <= Req(unode(b)).qty
  BY <1>2, ColumnsWhole DEF Whole
<1>4. NodesTyped /\ arcs \subseteq BidIds
  BY Typing DEF StageInv
<1>5. \A g \in Feasible : Objective(g) \in Nat /\ ~ (Objective(g) < Objective(f))
  <2> SUFFICES ASSUME NEW g \in Feasible
               PROVE  Objective(g) \in Nat /\ Objective(f) \in Nat
    BY <1>1
  <2>1. g \in Columns
    BY DEF Feasible
  <2>2. \A a \in arcs : g[a] \in Nat
    BY <2>1, ColumnsWhole
  <2>3. Objective(g) \in Nat
    BY <2>2, ObjectiveParts
  <2>4. Objective(f) \in Nat
    BY <1>3, ObjectiveParts
  <2> QED
    BY <2>3, <2>4
<1>6. ASSUME NEW p \in DOMAIN requests, \A b \in arcs : GroupOf(b) = p => ~exclusive(b)
      PROVE  Matched(f, p) <= PortfolioQty(requests[p])
  <2> DEFINE S == {b \in arcs : GroupOf(b) = p}
  <2>1. PortfolioQty(requests[p]) \in Nat /\ S \in SUBSET arcs
    BY <1>4 DEF NodesTyped
  <2>2. Matched(f, p) \in Nat /\ Matched(f, p) = Over(f, S)
    BY <1>3, <2>1, OverNat DEF Matched
  <2> SUFFICES ASSUME Matched(f, p) > PortfolioQty(requests[p])
               PROVE  FALSE
    BY <2>1, <2>2
  <2>3. PICK b \in S : f[b] # 0
    <3> SUFFICES ASSUME \A b \in S : f[b] = 0 PROVE FALSE
      OBVIOUS
    <3>1. IsFiniteSet(S) /\ (\A x \in S : f[x] \in Int) /\ {} \in SUBSET S /\ \A x \in S \ {} : f[x] = 0
      BY <2>1, ArcsFinite
    <3> HIDE DEF S
    <3>2. Total(f, {}) = Total(f, S)
      BY <3>1, TotalZeros
    <3>3. Over(f, S) = 0
      BY <3>2, TotalEmpty, OverTotal
    <3> QED
      BY <2>1, <2>2, <3>3
  <2>4. b \in arcs /\ GroupOf(b) = p /\ ~exclusive(b) /\ f[b] \in Nat /\ f[b] # 0
    BY <1>3, <1>6, <2>3
  <2>5. Req(unode(b)).qty \in Nat /\ f[b] <= Req(unode(b)).qty
    BY <1>3, <2>4, LargestAsked
  <2> DEFINE g == [f EXCEPT ![b] = f[b] + (-1)]
  <2>6. f[b] + (-1) >= 0 /\ f[b] + (-1) <= Req(unode(b)).qty /\ -1 \in {-1, 1} /\ -1 \in Int
    BY <2>4, <2>5
  <2>7. Bumped(f, g, b, -1)
    BY <1>3, <2>4 DEF Bumped
  <2> HIDE DEF g
  <2>8. \A q \in DOMAIN bids : \A i \in DOMAIN bids[q].caps : Drawn(g, q, i) <= bids[q].caps[i]
    <3> SUFFICES ASSUME NEW q \in DOMAIN bids, NEW i \in DOMAIN bids[q].caps
                 PROVE  Drawn(g, q, i) <= bids[q].caps[i]
      OBVIOUS
    <3>1. bids[q].caps[i] \in Int /\ Drawn(f, q, i) <= bids[q].caps[i]
      BY <1>2, <1>4 DEF NodesTyped
    <3>2. /\ Drawn(f, q, i) \in Int
          /\ Drawn(g, q, i) = Drawn(f, q, i) + (IF b[1] = q /\ Bid(b).units[i] = 1 THEN -1 ELSE 0)
      BY <1>3, <2>4, <2>6, <2>7, Bumps
    <3> QED
      BY <3>1, <3>2
  <2>9. g \in Feasible /\ \A a \in arcs : g[a] \in Nat
    BY <1>1, <2>4, <2>6, <2>8, FeasibleBumped DEF g
  <2>10. Objective(g) < Objective(f)
    BY <1>3, <2>4, <2>7, <2>9, Cheaper
  <2> QED
    BY <1>5, <2>9, <2>10
<1>7. ASSUME NEW b \in arcs, ~exclusive(b),
             ~ (Matched(f, GroupOf(b)) >= PortfolioQty(requests[GroupOf(b)])),
             f[b] # Req(unode(b)).qty,
             \A i \in DOMAIN bids[b[1]].caps :
               Bid(b).units[i] = 1 => Drawn(f, b[1], i) # bids[b[1]].caps[i]
      PROVE  FALSE
  <2> DEFINE g == [f EXCEPT ![b] = f[b] + 1]
  <2>1. GroupOf(b) \in DOMAIN requests /\ PortfolioQty(requests[GroupOf(b)]) \in Nat
    BY <1>4 DEF NodesTyped
  <2>2. Matched(f, GroupOf(b)) < PortfolioQty(requests[GroupOf(b)])
    <3>1. {a \in arcs : GroupOf(a) = GroupOf(b)} \in SUBSET arcs
      OBVIOUS
    <3>2. Matched(f, GroupOf(b)) \in Nat
      BY <1>3, <3>1, OverNat DEF Matched
    <3> QED
      BY <1>7, <2>1, <3>2
  <2>3. Req(unode(b)).qty \in Nat /\ f[b] <= Req(unode(b)).qty /\ f[b] \in Nat
    BY <1>3, <1>7, LargestAsked
  <2>4. f[b] + 1 >= 0 /\ f[b] + 1 <= Req(unode(b)).qty /\ 1 \in {-1, 1}
    BY <1>7, <2>3
  <2>5. Bumped(f, g, b, 1)
    BY <1>3, <1>7 DEF Bumped
  <2> HIDE DEF g
  <2>6. \A q \in DOMAIN bids : \A i \in DOMAIN bids[q].caps : Drawn(g, q, i) <= bids[q].caps[i]
    <3> SUFFICES ASSUME NEW q \in DOMAIN bids, NEW i \in DOMAIN bids[q].caps
                 PROVE  Drawn(g, q, i) <= bids[q].caps[i]
      OBVIOUS
    <3>1. bids[q].caps[i] \in Int /\ Drawn(f, q, i) <= bids[q].caps[i]
      BY <1>2, <1>4 DEF NodesTyped
    <3>2. /\ Drawn(f, q, i) \in Int
          /\ Drawn(g, q, i) = Drawn(f, q, i) + (IF b[1] = q /\ Bid(b).units[i] = 1 THEN 1 ELSE 0)
      BY <1>3, <2>5, Bumps
    <3>3. CASE b[1] = q /\ Bid(b).units[i] = 1
      <4>1. Drawn(f, q, i) # bids[q].caps[i]
        BY <1>7, <3>3
      <4> QED
        BY <3>1, <3>2, <3>3, <4>1
    <3>4. CASE ~ (b[1] = q /\ Bid(b).units[i] = 1)
      BY <3>1, <3>2, <3>4
    <3> QED
      BY <3>3, <3>4
  <2>7. g \in Feasible /\ \A a \in arcs : g[a] \in Nat
    BY <1>1, <1>7, <2>4, <2>6, FeasibleBumped DEF g
  <2>8. Objective(g) < Objective(f)
    BY <1>3, <1>7, <2>2, <2>5, <2>7, Cheaper
  <2> QED
    BY <1>5, <2>7, <2>8
<1> QED
  BY <1>2, <1>3, <1>6, <1>7 DEF ProgLimits

-----------------------------------------------------------------------------
(***************************************************************************)
(* The limits depend on the books and the arcs, which the later phases     *)
(* leave alone.                                                            *)
(***************************************************************************)
Fixed == UNCHANGED <<requests, bids, arcs, trader_prefs>>

\* What is matched to a portfolio depends on the matches alone.
LEMMA MatchedPrime ==
  ASSUME Fixed
  PROVE  \A p : Matched(flow, p)' = Matched(flow', p)
  BY DEF Fixed, Matched, GroupOf, unode, Bid, Over, MapThenSumSet, MapThenFoldSet

\* What is drawn on a constraint depends on the matches alone.
LEMMA DrawnPrime ==
  ASSUME Fixed
  PROVE  \A q, i : Drawn(flow, q, i)' = Drawn(flow', q, i)
  BY DEF Fixed, Drawn, Bid, Over, MapThenSumSet, MapThenFoldSet

\* What is matched to a request depends on the matches alone.
LEMMA RequestFlowPrime ==
  ASSUME Fixed
  PROVE  \A r : Over(flow, ArcsOf(r))' = Over(flow', ArcsOf(r))
  BY DEF Fixed, ArcsOf, unode, Bid, Over, MapThenSumSet, MapThenFoldSet

\* What a portfolio asks for does not change.
LEMMA QtyPrime ==
  ASSUME Fixed
  PROVE  \A p : PortfolioQty(requests[p])' = PortfolioQty(requests[p])
  BY DEF Fixed, PortfolioQty, MapThenSumSet, MapThenFoldSet

\* The requests and bids do not change.
LEMMA IdsPrime ==
  ASSUME Fixed
  PROVE  RequestIds' = RequestIds /\ BidIds' = BidIds
  BY DEF Fixed, RequestIds, BidIds

\* Which arcs are exclusive does not change.
LEMMA ExclusivePrime ==
  ASSUME Fixed
  PROVE  \A b : exclusive(b)' = exclusive(b) /\ excl_val(b)' = excl_val(b)
  BY DEF Fixed, exclusive, excl_val, unode, Req, Bid

\* Which portfolios draw on all of their constraints does not change.
LEMMA EvenPrime ==
  ASSUME Fixed
  PROVE  \A q : Even(q)' = Even(q)
  BY DEF Fixed, Even

\* The exclusive rows do not change.
LEMMA RowsPrime ==
  ASSUME Fixed
  PROVE  ExclRows' = ExclRows
  BY DEF Fixed, ExclRows, RequestIds, ArcsOf, unode, Req, Bid

\* What is matched to the portfolio of an arc depends on the matches alone.
LEMMA GroupPrime ==
  ASSUME Fixed
  PROVE  \A b : Matched(flow, GroupOf(b))' = Matched(flow', GroupOf(b))
                /\ PortfolioQty(requests[GroupOf(b)])' = PortfolioQty(requests[GroupOf(b)])
  BY DEF Fixed, Matched, GroupOf, unode, Bid, Over, PortfolioQty, MapThenSumSet, MapThenFoldSet

\* New matches within the greedy limits are so in the next state.
LEMMA GreedyPrime ==
  ASSUME Fixed, GreedyLimits(flow')
  PROVE  GreedyLimits(flow)'
<1>1. (\A b \in arcs : flow[b] <= Bid(b).qty /\ (exclusive(b) => flow[b] \in {0, excl_val(b)}))'
  BY ExclusivePrime DEF GreedyLimits, Fixed, Bid
<1>2. (\A r \in RequestIds : Over(flow, ArcsOf(r)) <= Req(r).qty)'
  BY IdsPrime, RequestFlowPrime DEF GreedyLimits, Fixed, Req
<1>3. (\A p \in DOMAIN requests : Matched(flow, p) <= PortfolioQty(requests[p]))'
  BY QtyPrime, MatchedPrime DEF GreedyLimits, Fixed
<1>4. (\A q \in DOMAIN bids : Even(q) => \A i \in DOMAIN bids[q].caps :
        bids[q].caps[i] = Unlimited \/ Drawn(flow, q, i) <= bids[q].caps[i])'
  BY EvenPrime, DrawnPrime DEF GreedyLimits, Fixed
<1> QED
  BY <1>1, <1>2, <1>3, <1>4 DEF GreedyLimits

\* New capacities that fit the new matches fit them in the next state.
LEMMA CapsPrime ==
  ASSUME Fixed, CapsLeft(flow', req_caps', bid_caps')
  PROVE  CapsLeft(flow, req_caps, bid_caps)'
  BY QtyPrime, MatchedPrime, DrawnPrime DEF CapsLeft, Fixed

\* New matches within the limits of the program are so in the next state.
LEMMA ProgPrime ==
  ASSUME Fixed, ProgLimits(flow')
  PROVE  ProgLimits(flow)'
<1>1. (\A b \in arcs : exclusive(b) => flow[b] \in {0, excl_val(b)})'
  BY ExclusivePrime DEF ProgLimits, Fixed
<1>2. (\A S \in ExclRows : \A a, b \in S : flow[a] > 0 /\ flow[b] > 0 => a = b)'
  BY RowsPrime DEF ProgLimits, Fixed
<1>3. (\A q \in DOMAIN bids : \A i \in DOMAIN bids[q].caps : Drawn(flow, q, i) <= bids[q].caps[i])'
  BY DrawnPrime DEF ProgLimits, Fixed
<1>4. (\A p \in DOMAIN requests : (\A b \in arcs : GroupOf(b) = p => ~exclusive(b))
        => Matched(flow, p) <= PortfolioQty(requests[p]))'
  BY QtyPrime, MatchedPrime, ExclusivePrime DEF ProgLimits, Fixed, GroupOf, unode, Bid
<1>5. (\A b \in {a \in arcs : ~exclusive(a)} :
       \/ Matched(flow, GroupOf(b)) >= PortfolioQty(requests[GroupOf(b)])
       \/ flow[b] = Req(unode(b)).qty
       \/ \E i \in DOMAIN bids[b[1]].caps :
             Bid(b).units[i] = 1 /\ Drawn(flow, b[1], i) = bids[b[1]].caps[i])'
  <2> SUFFICES ASSUME NEW b \in arcs', ~exclusive(b)'
               PROVE  (\/ Matched(flow, GroupOf(b)) >= PortfolioQty(requests[GroupOf(b)])
                       \/ flow[b] = Req(unode(b)).qty
                       \/ \E i \in DOMAIN bids[b[1]].caps :
                             Bid(b).units[i] = 1 /\ Drawn(flow, b[1], i) = bids[b[1]].caps[i])'
    OBVIOUS
  <2>1. b \in arcs /\ ~exclusive(b)
    BY ExclusivePrime DEF Fixed
  <2>2. /\ Matched(flow, GroupOf(b))' = Matched(flow', GroupOf(b))
        /\ PortfolioQty(requests[GroupOf(b)])' = PortfolioQty(requests[GroupOf(b)])
        /\ Req(unode(b)).qty' = Req(unode(b)).qty
        /\ Bid(b)' = Bid(b) /\ bids' = bids
        /\ \A i : Drawn(flow, b[1], i)' = Drawn(flow', b[1], i)
    BY GroupPrime, DrawnPrime DEF Fixed, Req, unode, Bid
  <2>3. \/ Matched(flow', GroupOf(b)) >= PortfolioQty(requests[GroupOf(b)])
        \/ flow'[b] = Req(unode(b)).qty
        \/ \E i \in DOMAIN bids[b[1]].caps :
             Bid(b).units[i] = 1 /\ Drawn(flow', b[1], i) = bids[b[1]].caps[i]
    BY <2>1 DEF ProgLimits
  <2> QED
    BY <2>2, <2>3
<1> QED
  BY <1>1, <1>2, <1>3, <1>4, <1>5 DEF ProgLimits

-----------------------------------------------------------------------------
(***************************************************************************)
(* StageInv: the books are what the traders posted, and the graph has an   *)
(* arc for each bid with a positive preference.                            *)
(***************************************************************************)
LaterPhases == {"solve", "respond", "send", "done", "error"}

\* The later phases keep the books and the graph.
LEMMA StageKept ==
  ASSUME StageInv, Fixed, phase' \in LaterPhases, phase # "requests",
         DOMAIN flow' = arcs, \A b \in arcs : flow'[b] \in Nat, considered' \in Seq(arcs)
  PROVE  StageInv'
<1>1. RequestIds' = RequestIds /\ BidIds' = BidIds /\ \A b : unode(b)' = unode(b)
  BY IdsPrime DEF Fixed, unode, Bid
<1>2. /\ requests' = requests /\ bids' = bids /\ arcs' = arcs /\ trader_prefs' = trader_prefs
      /\ phase' \notin {"requests", "bids", "adjust", "translate", "solver"}
  BY DEF Fixed, LaterPhases
<1> QED
  BY <1>1, <1>2 DEF StageInv

\* A stuttering step keeps StageInv.
LEMMA StageStutter ==
  ASSUME StageInv, UNCHANGED vars
  PROVE  StageInv'
<1>1. Fixed /\ phase' = phase /\ flow' = flow /\ considered' = considered
  BY DEF Fixed, vars, exchange, solution
<1>2. RequestIds' = RequestIds /\ BidIds' = BidIds /\ \A b : unode(b)' = unode(b)
  BY <1>1, IdsPrime DEF Fixed, unode, Bid
<1> QED
  BY <1>1, <1>2 DEF StageInv, Fixed

\* StageInv holds at first.
LEMMA StageInit == Init => StageInv
<1> SUFFICES ASSUME Init PROVE StageInv
  OBVIOUS
<1>1. BidIds = {}
  BY EmptyBook DEF Init, BidIds
<1>2. DOMAIN flow = {} /\ DOMAIN trader_prefs = {} /\ considered \in Seq(arcs)
  BY EmptyBook DEF Init
<1> QED
  BY <1>1, <1>2 DEF Init, StageInv

\* AddAllRequests keeps StageInv.
LEMMA StageRequests ==
  ASSUME StageInv, NEW book \in RequestBooks, AddAllRequests(book)
  PROVE  StageInv'
<1>1. /\ phase = "requests" /\ phase' = "bids" /\ requests' = book
      /\ bids' = bids /\ trader_prefs' = trader_prefs /\ arcs' = arcs
      /\ flow' = flow /\ considered' = considered
  BY DEF AddAllRequests, solution
<1>2. bids = <<>> /\ arcs = {} /\ considered = <<>>
  BY <1>1 DEF StageInv
<1>3. BidIds = {} /\ BidIds' = {}
  BY <1>1, <1>2, EmptyBook DEF BidIds
<1> QED
  BY <1>1, <1>2, <1>3 DEF StageInv

\* AddAllBids keeps StageInv: a bid without a preference takes that of its
\* request.
LEMMA StageBids ==
  ASSUME StageInv, NEW book \in BidBooks(requests), AddAllBids(book)
  PROVE  StageInv'
<1> DEFINE ids == UNION {{q} \X DOMAIN book[q].bids : q \in DOMAIN book}
           offer(b) == book[b[1]].bids[b[2]]
<1>1. /\ phase = "bids" /\ phase' \in {"done", "adjust"}
      /\ \A b \in ids : offer(b).request \in RequestIds
      /\ bids' = book
      /\ trader_prefs' = [b \in ids |-> IF offer(b).pref = NaN THEN Req(offer(b).request).pref
                                        ELSE offer(b).pref]
      /\ requests' = requests /\ arcs' = arcs /\ flow' = flow /\ considered' = considered
  BY DEF AddAllBids, solution
<1>2. /\ requests \in RequestBooks /\ arcs = {} /\ considered = <<>>
      /\ requests = <<>> \/ requests \in RequestBooks
  BY <1>1 DEF StageInv
<1>3. BidIds' = ids /\ RequestIds' = RequestIds /\ \A b : unode(b)' = offer(b).request
  BY <1>1 DEF BidIds, RequestIds, unode, Bid
<1>4. ASSUME NEW b \in ids
      PROVE  trader_prefs'[b] \in Int
  <2>1. book \in Seq(BidPortfolios) /\ requests \in Seq(RequestPortfolios)
    BY <1>2, BooksAssumption
  <2>2. b[1] \in DOMAIN book /\ b[2] \in DOMAIN book[b[1]].bids
    OBVIOUS
  <2>3. book[b[1]] \in BidPortfolios
    BY <2>1, <2>2, SeqOf
  <2>4. book[b[1]].bids \in Seq(BidRecord)
    BY <2>3, Portfolios
  <2>5. offer(b) \in BidRecord
    BY <2>2, <2>4, SeqOf
  <2>6. offer(b).pref \in Int \cup {NaN}
    BY <2>5 DEF BidRecord
  <2>7. Req(offer(b).request).pref \in Int
    <3> DEFINE r == offer(b).request
    <3>1. r[1] \in DOMAIN requests /\ r[2] \in DOMAIN requests[r[1]].reqs
      BY <1>1, IdFacts
    <3> HIDE DEF r
    <3>2. requests[r[1]] \in RequestPortfolios
      BY <2>1, <3>1, SeqOf
    <3>3. requests[r[1]].reqs \in Seq(RequestRecord)
      BY <3>2, Portfolios
    <3>4. requests[r[1]].reqs[r[2]] \in RequestRecord
      BY <3>1, <3>3, SeqOf
    <3> QED
      BY <3>4 DEF RequestRecord, Req, r
  <2> QED
    BY <1>1, <2>6, <2>7
<1>5. DOMAIN trader_prefs' = ids
  BY <1>1
<1> HIDE DEF ids, offer
<1>6. /\ (\A b \in BidIds : unode(b) \in RequestIds)'
      /\ (\A b \in BidIds : trader_prefs[b] \in Int)'
      /\ (DOMAIN trader_prefs = BidIds)'
  BY <1>1, <1>3, <1>4, <1>5
<1>7. DOMAIN flow = arcs /\ considered \in Seq(arcs)
  BY DEF StageInv
<1> QED
  BY <1>1, <1>2, <1>6, <1>7 DEF StageInv

\* AdjustAll keeps StageInv.
LEMMA StageAdjust ==
  ASSUME StageInv, NEW prefs, DOMAIN prefs = BidIds, AdjustAll(prefs)
  PROVE  StageInv'
<1>1. /\ phase = "adjust" /\ phase' = "translate"
      /\ \A b \in BidIds : prefs[b] \in AdjustedPrefs(requests) \cup {trader_prefs[b]}
      /\ trader_prefs' = prefs
      /\ requests' = requests /\ bids' = bids /\ arcs' = arcs
      /\ flow' = flow /\ considered' = considered
  BY DEF AdjustAll, solution
<1>2. requests \in RequestBooks /\ arcs = {} /\ considered = <<>>
  BY <1>1 DEF StageInv
<1>3. AdjustedPrefs(requests) \subseteq Int
  BY <1>2, BooksAssumption
<1>4. BidIds' = BidIds /\ RequestIds' = RequestIds /\ \A b : unode(b)' = unode(b)
  BY <1>1 DEF BidIds, RequestIds, unode, Bid
<1>5. \A b \in BidIds : prefs[b] \in Int
  BY <1>1, <1>3 DEF StageInv
<1> QED
  BY <1>1, <1>2, <1>4, <1>5 DEF StageInv

\* Translate keeps StageInv: the arcs are the bids with a positive
\* preference.
LEMMA StageTranslate ==
  ASSUME StageInv, Translate
  PROVE  StageInv'
<1>1. /\ phase = "translate" /\ requests' = requests /\ bids' = bids
      /\ trader_prefs' = trader_prefs /\ considered' = considered
  BY DEF Translate, exchange
<1>2. arcs = {} /\ considered = <<>> /\ requests \in RequestBooks
  BY <1>1 DEF StageInv
<1>3. BidIds' = BidIds /\ RequestIds' = RequestIds /\ \A b : unode(b)' = unode(b)
  BY <1>1 DEF BidIds, RequestIds, unode, Bid
<1>4. CASE phase' = "error" /\ UNCHANGED <<arcs, flow>>
  BY <1>1, <1>2, <1>3, <1>4 DEF StageInv
<1>5. CASE /\ phase' = "solver" /\ arcs' = {b \in BidIds : trader_prefs[b] > 0}
           /\ flow' = [b \in arcs' |-> 0]
  <2>1. /\ arcs' \subseteq BidIds /\ DOMAIN flow' = arcs'
        /\ \A b \in arcs' : trader_prefs[b] > 0 /\ flow'[b] \in Nat
    BY <1>5
  <2>2. considered' \in Seq(arcs')
    BY <1>1, <1>2, EmptyBook
  <2> QED
    BY <1>1, <1>2, <1>3, <1>5, <2>1, <2>2 DEF StageInv
<1> QED
  BY <1>4, <1>5 DEF Translate

\* A turn of the greedy loop matches nothing, a positive quantity, or throws.
Turn(b) ==
  \/ phase' = "solve" /\ UNCHANGED <<req_caps, bid_caps, flow>>
  \/ /\ phase' = "solve" /\ ToMatch(b) > 0 /\ ToMatch(b) <= Bid(b).qty
     /\ req_caps' = [req_caps EXCEPT ![GroupOf(b)] = @ - ToMatch(b)]
     /\ bid_caps' = [bid_caps EXCEPT ![b[1]] = UpdateCapacity(@, Bid(b).units, ToMatch(b))]
     /\ flow' = [flow EXCEPT ![b] = @ + ToMatch(b)]
  \/ phase' = "error" /\ UNCHANGED <<req_caps, bid_caps, flow>>

\* The arc of a turn carries nothing yet, and its capacities are what the
\* matches leave.
LEMMA Turns ==
  ASSUME StageInv, MatchInv, NEW b \in Pending, ConsiderArc(b)
  PROVE  /\ phase = "solve" /\ b \in arcs /\ flow[b] = 0 /\ Fixed
         /\ GreedyLimits(flow) /\ CapsLeft(flow, req_caps, bid_caps)
         /\ ToMatch(b) \in Int /\ Turn(b) /\ considered' = Append(considered, b)
         /\ UNCHANGED <<solver, trades>>
<1>1. phase = "solve" /\ Fixed /\ considered' = Append(considered, b) /\ UNCHANGED <<solver, trades>>
  BY DEF ConsiderArc, Fixed, exchange
<1>2. b \in arcs /\ \A k \in DOMAIN considered : considered[k] # b
  BY DEF Pending
<1>3. GreedyLimits(flow) /\ CapsLeft(flow, req_caps, bid_caps) /\ flow[b] = 0
  BY <1>1, <1>2 DEF MatchInv
<1>4. Supplied(bid_caps)
  BY <1>3, CapsSupplied
<1>5. ToMatch(b) \in Int
  BY <1>2, <1>3, <1>4, ToMatchOf
<1>6. Turn(b)
  BY <1>1 DEF ConsiderArc, Turn
<1> QED
  BY <1>1, <1>2, <1>3, <1>5, <1>6

\* What is not in a sequence with e appended is neither e nor in the
\* sequence.
LEMMA Appended ==
  ASSUME NEW T, NEW s \in Seq(T), NEW e \in T
  PROVE  /\ Append(s, e) \in Seq(T)
         /\ \A x : (\A k \in DOMAIN Append(s, e) : Append(s, e)[k] # x)
                      => x # e /\ \A k \in DOMAIN s : s[k] # x
<1>1. /\ Append(s, e) \in Seq(T) /\ DOMAIN s = 1..Len(s) /\ Len(s) \in Nat
      /\ DOMAIN Append(s, e) = 1..(Len(s) + 1) /\ Append(s, e)[Len(s) + 1] = e
      /\ \A k \in 1..Len(s) : Append(s, e)[k] = s[k]
  OBVIOUS
<1>2. Len(s) + 1 \in DOMAIN Append(s, e) /\ DOMAIN s \subseteq DOMAIN Append(s, e)
  BY <1>1
<1> QED
  BY <1>1, <1>2

\* A turn of GreedilySatisfySet keeps StageInv.
LEMMA StageConsider ==
  ASSUME StageInv, MatchInv, NEW b \in Pending, ConsiderArc(b)
  PROVE  StageInv'
<1>1. /\ phase = "solve" /\ b \in arcs /\ flow[b] = 0 /\ Fixed /\ Turn(b)
      /\ ToMatch(b) \in Int /\ considered' = Append(considered, b)
  BY Turns
<1>2. DOMAIN flow = arcs /\ (\A a \in arcs : flow[a] \in Nat) /\ considered \in Seq(arcs)
  BY DEF StageInv
<1>3. considered' \in Seq(arcs)
  BY <1>1, <1>2, Appended
<1>4. DOMAIN flow' = arcs /\ \A a \in arcs : flow'[a] \in Nat
  <2>1. CASE flow' = flow
    BY <1>2, <2>1
  <2>2. CASE ToMatch(b) > 0 /\ flow' = [flow EXCEPT ![b] = @ + ToMatch(b)]
    <3>1. flow[b] + ToMatch(b) \in Nat
      BY <1>1, <2>2
    <3> QED
      BY <1>2, <2>2, <3>1
  <2> QED
    BY <1>1, <2>1, <2>2 DEF Turn
<1>5. phase' \in LaterPhases
  BY <1>1 DEF Turn, LaterPhases
<1> QED
  BY <1>1, <1>3, <1>4, <1>5, StageKept

\* The optimizing solver keeps StageInv, and its solution the limits of the
\* program.
LEMMA StageProg ==
  ASSUME StageInv, SolveProg
  PROVE  StageInv' /\ Fixed /\ ProgLimits(flow')
<1>1. /\ phase = "solve" /\ phase' = "respond" /\ flow' \in Optimal /\ Fixed
      /\ considered' = considered
  BY DEF SolveProg, Fixed, exchange
<1>2. flow' \in Feasible
  BY <1>1, OptimalLeast
<1>3. flow' \in Columns
  BY <1>2, FeasibleParts
<1>4. flow' \in [arcs -> 0..Largest] /\ \A a \in arcs : flow'[a] \in Nat
  BY <1>3, ColumnsWhole
<1>5. DOMAIN flow' = arcs /\ considered' \in Seq(arcs) /\ phase' \in LaterPhases
  BY <1>1, <1>4 DEF StageInv, LaterPhases
<1>6. StageInv'
  BY <1>1, <1>4, <1>5, StageKept
<1> QED
  BY <1>1, <1>6, OptimalKeepsLimits

-----------------------------------------------------------------------------
(***************************************************************************)
(* MatchInv: the matches keep to the limits in every phase.                *)
(***************************************************************************)
LEMMA UnmatchedLimits ==
  ASSUME StageInv, Unmatched
  PROVE  GreedyLimits(flow)
<1>1. NodesTyped /\ arcs \subseteq BidIds /\ \A b \in arcs : flow[b] = 0
  BY Typing DEF StageInv, Unmatched
<1>2. \A b \in arcs : flow[b] <= Bid(b).qty /\ (exclusive(b) => flow[b] \in {0, excl_val(b)})
  BY <1>1 DEF NodesTyped
<1>3. ASSUME NEW r \in RequestIds
      PROVE  Over(flow, ArcsOf(r)) <= Req(r).qty
  <2>1. ArcsOf(r) \in SUBSET arcs /\ Req(r).qty \in Nat
    BY <1>1 DEF ArcsOf, NodesTyped
  <2>2. Over(flow, ArcsOf(r)) = 0
    BY <1>1, <2>1, OverZero
  <2> QED
    BY <2>1, <2>2
<1>4. ASSUME NEW p \in DOMAIN requests
      PROVE  Matched(flow, p) <= PortfolioQty(requests[p])
  <2>1. {b \in arcs : GroupOf(b) = p} \in SUBSET arcs /\ PortfolioQty(requests[p]) \in Nat
    BY <1>1 DEF NodesTyped
  <2>2. Matched(flow, p) = 0
    BY <1>1, <2>1, OverZero DEF Matched
  <2> QED
    BY <2>1, <2>2
<1>5. ASSUME NEW q \in DOMAIN bids, NEW i \in DOMAIN bids[q].caps
      PROVE  Drawn(flow, q, i) <= bids[q].caps[i]
  <2>1. /\ {b \in arcs : b[1] = q /\ Bid(b).units[i] = 1} \in SUBSET arcs
        /\ bids[q].caps[i] \in 0..Unlimited
    BY <1>1 DEF NodesTyped
  <2>2. Drawn(flow, q, i) = 0
    BY <1>1, <2>1, OverZero DEF Drawn
  <2> QED
    BY <2>1, <2>2
<1> QED
  BY <1>2, <1>3, <1>4, <1>5 DEF GreedyLimits

\* Without matches the capacities are those the portfolios were posted with.
LEMMA UnmatchedCaps ==
  ASSUME StageInv, Unmatched, NEW rc, NEW bc,
         rc = [p \in DOMAIN requests |-> PortfolioQty(requests[p])],
         bc = [q \in DOMAIN bids |-> bids[q].caps]
  PROVE  CapsLeft(flow, rc, bc)
<1>1. NodesTyped /\ \A b \in arcs : flow[b] = 0
  BY Typing DEF Unmatched
<1>2. ASSUME NEW p \in DOMAIN requests
      PROVE  rc[p] = PortfolioQty(requests[p]) - Matched(flow, p)
  <2>1. {b \in arcs : GroupOf(b) = p} \in SUBSET arcs /\ PortfolioQty(requests[p]) \in Nat
    BY <1>1 DEF NodesTyped
  <2>2. Matched(flow, p) = 0
    BY <1>1, <2>1, OverZero DEF Matched
  <2> QED
    BY <2>1, <2>2
<1>3. ASSUME NEW q \in DOMAIN bids, NEW i \in DOMAIN bids[q].caps
      PROVE  bc[q][i] = IF bids[q].caps[i] = Unlimited THEN Unlimited
                        ELSE bids[q].caps[i] - Drawn(flow, q, i)
  <2>1. /\ {b \in arcs : b[1] = q /\ Bid(b).units[i] = 1} \in SUBSET arcs
        /\ bids[q].caps[i] \in 0..Unlimited
    BY <1>1 DEF NodesTyped
  <2>2. Drawn(flow, q, i) = 0
    BY <1>1, <2>1, OverZero DEF Drawn
  <2> QED
    BY <2>1, <2>2, UnlimitedAssumption
<1>4. /\ DOMAIN rc = DOMAIN requests /\ DOMAIN bc = DOMAIN bids
      /\ \A q \in DOMAIN bids : DOMAIN bc[q] = DOMAIN bids[q].caps
  OBVIOUS
<1> QED
  BY <1>2, <1>3, <1>4 DEF CapsLeft

\* Steps of an exchange without arcs.
LEMMA MatchEarly ==
  ASSUME phase' \in {"bids", "adjust", "translate", "done", "error"}, arcs' = {}, phase' # "respond"
  PROVE  MatchInv'
  BY DEF MatchInv, Unmatched

\* A new graph has no matches.
LEMMA MatchTranslate ==
  ASSUME StageInv, Translate
  PROVE  MatchInv'
<1>1. phase = "translate" /\ arcs = {}
  BY DEF Translate, StageInv
<1>2. CASE phase' = "error" /\ UNCHANGED <<arcs, flow>>
  BY <1>1, <1>2, MatchEarly
<1>3. CASE phase' = "solver" /\ flow' = [b \in arcs' |-> 0]
  BY <1>3 DEF MatchInv, Unmatched
<1> QED
  BY <1>2, <1>3 DEF Translate

\* The greedy solver starts without matches and with full capacities.
LEMMA MatchSolverInit ==
  ASSUME StageInv, MatchInv, SolverInit
  PROVE  MatchInv'
<1>1. /\ phase = "solver" /\ phase' = "solve" /\ Fixed /\ flow' = flow /\ considered' = considered
      /\ req_caps' = [p \in DOMAIN requests |-> PortfolioQty(requests[p])]
      /\ bid_caps' = [q \in DOMAIN bids |-> bids[q].caps]
  BY DEF SolverInit, Fixed, exchange
<1>2. Unmatched
  BY <1>1 DEF MatchInv
<1>3. GreedyLimits(flow')
  BY <1>1, <1>2, UnmatchedLimits
<1>4. CapsLeft(flow', req_caps', bid_caps')
  BY <1>1, <1>2, UnmatchedCaps
<1>5. GreedyLimits(flow)' /\ CapsLeft(flow, req_caps, bid_caps)'
  BY <1>1, <1>3, <1>4, GreedyPrime, CapsPrime
<1>6. \A b \in arcs' : flow'[b] = 0
  BY <1>1, <1>2 DEF Unmatched, Fixed
<1> QED
  BY <1>1, <1>5, <1>6 DEF MatchInv

\* A turn of GreedilySatisfySet keeps MatchInv.
LEMMA MatchConsider ==
  ASSUME StageInv, MatchInv, NEW b \in Pending, ConsiderArc(b)
  PROVE  MatchInv'
<1>1. /\ phase = "solve" /\ b \in arcs /\ flow[b] = 0 /\ Fixed
      /\ GreedyLimits(flow) /\ CapsLeft(flow, req_caps, bid_caps)
      /\ ToMatch(b) \in Int /\ Turn(b) /\ considered' = Append(considered, b)
  BY Turns
<1>2. arcs' = arcs /\ considered \in Seq(arcs) /\ DOMAIN flow = arcs
  BY <1>1 DEF Fixed, StageInv
<1>3. ASSUME NEW a \in arcs, \A k \in DOMAIN considered' : considered'[k] # a
      PROVE  a # b /\ flow[a] = 0
  <2>1. a # b /\ \A k \in DOMAIN considered : considered[k] # a
    BY <1>1, <1>2, <1>3, Appended
  <2> QED
    BY <1>1, <2>1 DEF MatchInv
<1>4. CASE flow' = flow /\ req_caps' = req_caps /\ bid_caps' = bid_caps
  <2>1. GreedyLimits(flow)' /\ CapsLeft(flow, req_caps, bid_caps)'
    BY <1>1, <1>4, GreedyPrime, CapsPrime
  <2>2. \A a \in arcs' : (\A k \in DOMAIN considered' : considered'[k] # a) => flow'[a] = 0
    BY <1>2, <1>3, <1>4
  <2>3. phase' \in {"solve", "error"}
    BY <1>1 DEF Turn
  <2> QED
    BY <2>1, <2>2, <2>3 DEF MatchInv
<1>5. CASE /\ phase' = "solve" /\ ToMatch(b) > 0 /\ ToMatch(b) <= Bid(b).qty
           /\ req_caps' = [req_caps EXCEPT ![GroupOf(b)] = @ - ToMatch(b)]
           /\ bid_caps' = [bid_caps EXCEPT ![b[1]] = UpdateCapacity(@, Bid(b).units, ToMatch(b))]
           /\ flow' = [flow EXCEPT ![b] = @ + ToMatch(b)]
  <2>1. Bumped(flow, flow', b, ToMatch(b)) /\ ToMatch(b) \in Nat
    BY <1>1, <1>2, <1>5 DEF Bumped
  <2>2. GreedyLimits(flow')
    BY <1>1, <1>5, <2>1, MatchKeepsLimits
  <2>3. CapsLeft(flow', req_caps', bid_caps')
    BY <1>1, <1>5, <2>1, MatchKeepsCaps
  <2>4. GreedyLimits(flow)' /\ CapsLeft(flow, req_caps, bid_caps)'
    BY <1>1, <2>2, <2>3, GreedyPrime, CapsPrime
  <2>5. \A a \in arcs' : (\A k \in DOMAIN considered' : considered'[k] # a) => flow'[a] = 0
    BY <1>2, <1>3, <1>5
  <2> QED
    BY <1>5, <2>4, <2>5 DEF MatchInv
<1> QED
  BY <1>1, <1>4, <1>5 DEF Turn

\* The matches a solver ends with keep MatchInv.
LEMMA MatchSolved ==
  ASSUME StageInv, MatchInv, BackTranslate \/ SolveProg
  PROVE  MatchInv'
<1>1. CASE BackTranslate
  <2>1. /\ phase = "solve" /\ phase' = "respond" /\ solver' = "greedy" /\ Fixed /\ flow' = flow
    BY <1>1 DEF BackTranslate, Fixed, exchange, solution
  <2>2. GreedyLimits(flow)'
    BY <2>1, GreedyPrime DEF MatchInv
  <2> QED
    BY <2>1, <2>2 DEF MatchInv
<1>2. CASE SolveProg
  <2>1. phase' = "respond" /\ solver' = "prog" /\ Fixed /\ ProgLimits(flow')
    BY <1>2, StageProg DEF SolveProg, exchange
  <2>2. ProgLimits(flow)'
    BY <2>1, ProgPrime
  <2> QED
    BY <2>1, <2>2 DEF MatchInv
<1> QED
  BY <1>1, <1>2

\* The trades leave the matches alone.
LEMMA MatchSettled ==
  ASSUME MatchInv, Fixed, flow' = flow, solver' = solver, phase \in {"respond", "send"},
         phase' \in {"respond", "send", "done"}, phase' = "respond" => phase = "respond"
  PROVE  MatchInv'
<1>1. Unmatched => Unmatched'
  BY DEF Unmatched, Fixed
<1>2. GreedyLimits(flow) => GreedyLimits(flow)'
  BY GreedyPrime
<1>3. ProgLimits(flow) => ProgLimits(flow)'
  BY ProgPrime
<1> QED
  BY <1>1, <1>2, <1>3 DEF MatchInv

\* A stuttering step keeps MatchInv.
LEMMA MatchStutter ==
  ASSUME MatchInv, UNCHANGED vars
  PROVE  MatchInv'
<1>1. /\ Fixed /\ flow' = flow /\ solver' = solver /\ phase' = phase /\ considered' = considered
      /\ req_caps' = req_caps /\ bid_caps' = bid_caps /\ arcs' = arcs
  BY DEF Fixed, vars, exchange, solution
<1>2. Unmatched => Unmatched'
  BY <1>1 DEF Unmatched
<1>3. GreedyLimits(flow) => GreedyLimits(flow)'
  BY <1>1, GreedyPrime
<1>4. ProgLimits(flow) => ProgLimits(flow)'
  BY <1>1, ProgPrime
<1>5. CapsLeft(flow, req_caps, bid_caps) => CapsLeft(flow, req_caps, bid_caps)'
  BY <1>1, CapsPrime
<1> QED
  BY <1>1, <1>2, <1>3, <1>4, <1>5 DEF MatchInv

-----------------------------------------------------------------------------
(***************************************************************************)
(* TradeInv: what has been answered, recorded and sent.                    *)
(***************************************************************************)
LEMMA TradesPrime ==
  ASSUME Fixed, flow' = flow
  PROVE  /\ Trades' = Trades /\ Suppliers' = Suppliers /\ Requesters' = Requesters
         /\ \A b : Bidder(b)' = Bidder(b) /\ Requester(b)' = Requester(b)
  BY DEF Fixed, Trades, Suppliers, Requesters, Bidder, Requester, GroupOf, unode, Bid

\* Until the solver is done nobody has been asked for a trade.
LEMMA TradeEarly ==
  ASSUME TradeInv, phase \notin {"respond", "send", "done"}, UNCHANGED trades,
         phase' \notin {"send", "done"} \/ arcs' = {}
  PROVE  TradeInv'
<1>1. /\ asked' = {} /\ responses' = {} /\ transactions' = {} /\ served' = {} /\ accepted' = {}
  BY DEF TradeInv, trades
<1>2. CASE phase' \notin {"send", "done"}
  BY <1>1, <1>2 DEF TradeInv
<1>3. CASE arcs' = {}
  <2>1. Suppliers' = {} /\ Requesters' = {}
    BY <1>3 DEF Suppliers, Requesters, Trades
  <2>2. {<<Bidder(x[2]), x[1], x[2]>> : x \in responses}' = {}
    BY <1>1
  <2> QED
    BY <1>1, <2>1, <2>2 DEF TradeInv
<1> QED
  BY <1>2, <1>3

\* GetTradeResponses keeps TradeInv: a response is filed under its requester.
LEMMA TradeRespond ==
  ASSUME TradeInv, NEW t, NEW S, GetTradeResponses(t, S)
  PROVE  TradeInv'
<1>1. /\ phase = "respond" /\ phase' = "respond" /\ Fixed /\ flow' = flow
      /\ S \subseteq {b \in Trades : Bidder(b) = t}
      /\ responses' = responses \cup {<<Requester(b), b>> : b \in S}
      /\ transactions' = transactions /\ served' = served /\ accepted' = accepted
  BY DEF GetTradeResponses, Fixed, exchange, solution
<1>2. /\ Trades' = Trades /\ \A b : Requester(b)' = Requester(b)
  BY <1>1, TradesPrime
<1>3. served = {} /\ accepted = {}
  BY <1>1 DEF TradeInv
<1>4. \A x \in responses' : x[2] \in Trades /\ x = <<Requester(x[2]), x[2]>>
  BY <1>1 DEF TradeInv
<1>5. (\A x \in responses : x[2] \in Trades /\ x = <<Requester(x[2]), x[2]>>)'
  BY <1>2, <1>4
<1> QED
  BY <1>1, <1>3, <1>5 DEF TradeInv

\* The steps that change neither the matches nor the responses.
LEMMA TradeResponsesKept ==
  ASSUME TradeInv, Fixed, flow' = flow, responses' = responses
  PROVE  /\ (\A x \in responses : x[2] \in Trades /\ x = <<Requester(x[2]), x[2]>>)'
         /\ Suppliers' = Suppliers /\ Requesters' = Requesters
         /\ {<<Bidder(x[2]), x[1], x[2]>> : x \in responses}'
              = {<<Bidder(x[2]), x[1], x[2]>> : x \in responses}
<1>1. /\ Trades' = Trades /\ Suppliers' = Suppliers /\ Requesters' = Requesters
      /\ \A b : Bidder(b)' = Bidder(b) /\ Requester(b)' = Requester(b)
  BY TradesPrime
<1>2. (\A x \in responses : x[2] \in Trades /\ x = <<Requester(x[2]), x[2]>>)'
  BY <1>1 DEF TradeInv
<1>3. {<<Bidder(x[2]), x[1], x[2]>> : x \in responses}'
        = {<<Bidder(x[2]), x[1], x[2]>> : x \in responses}
  BY <1>1
<1> QED
  BY <1>1, <1>2, <1>3

\* RecordTrades keeps TradeInv: one row for each response.
LEMMA TradeRecord ==
  ASSUME TradeInv, RecordTrades
  PROVE  TradeInv'
<1>1. /\ phase = "respond" /\ phase' = "send" /\ Fixed /\ flow' = flow
      /\ asked' = Suppliers /\ transactions' = {<<Bidder(x[2]), x[1], x[2]>> : x \in responses}
      /\ responses' = responses /\ served' = served /\ accepted' = accepted
  BY DEF RecordTrades, Fixed, exchange, solution
<1> QED
  BY <1>1, TradeResponsesKept DEF TradeInv

\* SendTradeResources keeps TradeInv: a requester is sent its own responses.
LEMMA TradeSend ==
  ASSUME TradeInv, NEW t, SendTradeResources(t)
  PROVE  TradeInv'
<1>1. /\ phase = "send" /\ phase' = "send" /\ Fixed /\ flow' = flow
      /\ accepted' = accepted \cup {<<t, x[2]>> : x \in {y \in responses : y[1] = t}}
      /\ served' = served \cup {t}
      /\ asked' = asked /\ responses' = responses /\ transactions' = transactions
  BY DEF SendTradeResources, Fixed, exchange, solution
<1>2. {<<t, x[2]>> : x \in {y \in responses : y[1] = t}} = {x \in responses : x[1] = t}
  <2>1. \A x \in responses : x = <<x[1], x[2]>>
    BY DEF TradeInv
  <2> QED
    BY <2>1
<1>3. accepted' = {x \in responses : x[1] \in served'}
  BY <1>1, <1>2 DEF TradeInv
<1> QED
  BY <1>1, <1>3, TradeResponsesKept DEF TradeInv

\* The end of the exchange keeps TradeInv.
LEMMA TradeFinish ==
  ASSUME TradeInv, Finish
  PROVE  TradeInv'
<1>1. /\ phase = "send" /\ phase' = "done" /\ Fixed /\ flow' = flow /\ served' = Requesters
      /\ asked' = asked /\ responses' = responses /\ transactions' = transactions
      /\ accepted' = accepted /\ served' = served
  BY DEF Finish, Fixed, exchange, solution, trades
<1> QED
  BY <1>1, TradeResponsesKept DEF TradeInv

\* A stuttering step keeps TradeInv.
LEMMA TradeStutter ==
  ASSUME TradeInv, UNCHANGED vars
  PROVE  TradeInv'
<1>1. /\ phase' = phase /\ Fixed /\ flow' = flow
      /\ asked' = asked /\ responses' = responses /\ transactions' = transactions
      /\ accepted' = accepted /\ served' = served
  BY DEF vars, Fixed, exchange, solution, trades
<1> QED
  BY <1>1, TradeResponsesKept DEF TradeInv

-----------------------------------------------------------------------------
(***************************************************************************)
(* ExchangeInv is inductive.                                               *)
(***************************************************************************)
LEMMA ExchangeInit == Init => ExchangeInv
<1> SUFFICES ASSUME Init PROVE ExchangeInv
  OBVIOUS
<1>1. StageInv
  BY StageInit
<1>2. MatchInv
  BY DEF Init, MatchInv, Unmatched
<1>3. TradeInv
  BY DEF Init, TradeInv
<1> QED
  BY <1>1, <1>2, <1>3 DEF ExchangeInv

\* Every step keeps ExchangeInv.
LEMMA ExchangeStep == ExchangeInv /\ [Next]_vars => ExchangeInv'
<1> SUFFICES ASSUME StageInv, MatchInv, TradeInv, [Next]_vars
             PROVE  StageInv' /\ MatchInv' /\ TradeInv'
  BY DEF ExchangeInv
<1>1. ASSUME NEW book \in RequestBooks, AddAllRequests(book)
      PROVE  StageInv' /\ MatchInv' /\ TradeInv'
  <2>1. phase = "requests" /\ phase' = "bids" /\ arcs' = arcs /\ UNCHANGED trades
    BY <1>1 DEF AddAllRequests
  <2>2. arcs' = {}
    BY <2>1 DEF StageInv
  <2> QED
    BY <1>1, <2>1, <2>2, StageRequests, MatchEarly, TradeEarly
<1>2. ASSUME NEW book \in BidBooks(requests), AddAllBids(book)
      PROVE  StageInv' /\ MatchInv' /\ TradeInv'
  <2>1. phase = "bids" /\ phase' \in {"done", "adjust"} /\ arcs' = arcs /\ UNCHANGED trades
    BY <1>2 DEF AddAllBids
  <2>2. arcs' = {}
    BY <2>1 DEF StageInv
  <2> QED
    BY <1>2, <2>1, <2>2, StageBids, MatchEarly, TradeEarly
<1>3. ASSUME NEW prefs \in [BidIds -> AdjustedPrefs(requests) \cup {trader_prefs[b] : b \in BidIds}],
             AdjustAll(prefs)
      PROVE  StageInv' /\ MatchInv' /\ TradeInv'
  <2>1. phase = "adjust" /\ phase' = "translate" /\ arcs' = arcs /\ UNCHANGED trades
    BY <1>3 DEF AdjustAll
  <2>2. arcs' = {} /\ DOMAIN prefs = BidIds
    BY <2>1 DEF StageInv
  <2> QED
    BY <1>3, <2>1, <2>2, StageAdjust, MatchEarly, TradeEarly
<1>4. CASE Translate
  <2>1. phase = "translate" /\ phase' \in {"error", "solver"} /\ UNCHANGED trades
    BY <1>4 DEF Translate
  <2> QED
    BY <1>4, <2>1, StageTranslate, MatchTranslate, TradeEarly
<1>5. CASE SolverInit
  <2>1. /\ phase = "solver" /\ phase' = "solve" /\ Fixed /\ UNCHANGED trades
        /\ flow' = flow /\ considered' = considered
    BY <1>5 DEF SolverInit, Fixed, exchange
  <2>2. /\ DOMAIN flow' = arcs /\ considered' \in Seq(arcs) /\ phase' \in LaterPhases
        /\ \A b \in arcs : flow'[b] \in Nat
    BY <2>1 DEF StageInv, LaterPhases
  <2>3. StageInv'
    BY <2>1, <2>2, StageKept
  <2> QED
    BY <1>5, <2>1, <2>3, MatchSolverInit, TradeEarly
<1>6. ASSUME NEW b \in Pending, ConsiderArc(b)
      PROVE  StageInv' /\ MatchInv' /\ TradeInv'
  <2>1. phase = "solve" /\ Turn(b) /\ UNCHANGED trades
    BY <1>6, Turns
  <2>2. phase' \in {"solve", "error"}
    BY <2>1 DEF Turn
  <2> QED
    BY <1>6, <2>1, <2>2, StageConsider, MatchConsider, TradeEarly
<1>7. CASE BackTranslate \/ SolveProg
  <2>1. phase = "solve" /\ phase' = "respond" /\ UNCHANGED trades
    BY <1>7 DEF BackTranslate, SolveProg
  <2>2. StageInv'
    <3>1. CASE BackTranslate
      <4>1. Fixed /\ flow' = flow /\ considered' = considered
        BY <3>1 DEF BackTranslate, Fixed, exchange, solution
      <4>2. /\ DOMAIN flow' = arcs /\ considered' \in Seq(arcs) /\ phase' \in LaterPhases
            /\ \A b \in arcs : flow'[b] \in Nat
        BY <2>1, <4>1 DEF StageInv, LaterPhases
      <4> QED
        BY <2>1, <4>1, <4>2, StageKept
    <3>2. CASE SolveProg
      BY <3>2, StageProg
    <3> QED
      BY <1>7, <3>1, <3>2
  <2> QED
    BY <1>7, <2>1, <2>2, MatchSolved, TradeEarly
<1>8. ASSUME \/ \E t \in Suppliers, S \in SUBSET Trades : GetTradeResponses(t, S)
             \/ RecordTrades
             \/ \E t \in Requesters : SendTradeResources(t)
             \/ Finish
      PROVE  StageInv' /\ MatchInv' /\ TradeInv'
  <2>1. /\ Fixed /\ flow' = flow /\ solver' = solver /\ considered' = considered
        /\ phase \in {"respond", "send"} /\ phase' \in {"respond", "send", "done"}
        /\ phase' = "respond" => phase = "respond"
    BY <1>8 DEF GetTradeResponses, RecordTrades, SendTradeResources, Finish, Fixed, exchange, solution
  <2>2. /\ DOMAIN flow' = arcs /\ considered' \in Seq(arcs) /\ phase' \in LaterPhases
        /\ phase # "requests" /\ \A b \in arcs : flow'[b] \in Nat
    BY <2>1 DEF StageInv, LaterPhases
  <2>3. StageInv'
    BY <2>1, <2>2, StageKept
  <2>4. MatchInv'
    BY <2>1, MatchSettled
  <2>5. TradeInv'
    BY <1>8, TradeRespond, TradeRecord, TradeSend, TradeFinish
  <2> QED
    BY <2>3, <2>4, <2>5
<1>9. CASE UNCHANGED vars
  BY <1>9, StageStutter, MatchStutter, TradeStutter
<1> QED
  BY <1>1, <1>2, <1>3, <1>4, <1>5, <1>6, <1>7, <1>8, <1>9 DEF Next

\* The exchange keeps its inductive invariant: the books and the graph belong
\* together, the matches of each phase keep to their limits, and the tables
\* of the trades agree (ExchangeManager::Execute).
THEOREM ExchangeInvariance == Spec => []ExchangeInv
<1>1. Init => ExchangeInv
  BY ExchangeInit
<1>2. ExchangeInv /\ [Next]_vars => ExchangeInv'
  BY ExchangeStep
<1> QED
  BY <1>1, <1>2, PTL DEF Spec

-----------------------------------------------------------------------------
(***************************************************************************)
(* What follows from ExchangeInv.                                          *)
(***************************************************************************)
LEMMA Limited ==
  ASSUME ExchangeInv
  PROVE  /\ GreedyLimits(flow) \/ (solver = "prog" /\ ProgLimits(flow))
         /\ Solved /\ solver = "prog" => ProgLimits(flow)
<1>1. Unmatched => GreedyLimits(flow)
  BY UnmatchedLimits DEF ExchangeInv
<1> QED
  BY <1>1 DEF ExchangeInv, MatchInv, Solved

\* The limits of both solvers give those of the supply.
LEMMA SupplyLimited == ExchangeInv => SupplyWithinCapacity
<1> SUFFICES ASSUME ExchangeInv PROVE SupplyWithinCapacity
  OBVIOUS
<1>1. StageInv
  BY DEF ExchangeInv
<1>2. NodesTyped /\ arcs \subseteq BidIds
  BY <1>1, Typing DEF StageInv
<1>3. ASSUME NEW b \in arcs, solver = "greedy" \/ exclusive(b)
      PROVE  flow[b] <= Bid(b).qty
  <2>1. CASE GreedyLimits(flow)
    BY <2>1 DEF GreedyLimits
  <2>2. CASE solver = "prog" /\ ProgLimits(flow)
    <3>1. flow[b] \in {0, excl_val(b)}
      BY <1>3, <2>2 DEF ProgLimits
    <3>2. excl_val(b) \in Nat /\ excl_val(b) <= Bid(b).qty
      BY <1>1, ExclVal
    <3>3. Bid(b).qty \in Nat
      BY <1>2 DEF NodesTyped
    <3> QED
      BY <3>1, <3>2, <3>3
  <2> QED
    BY <2>1, <2>2, Limited
<1>4. ASSUME NEW q \in DOMAIN bids, Even(q) \/ (solver = "prog" /\ Solved)
      PROVE  WithinCapacity(q)
  <2> SUFFICES ASSUME NEW i \in DOMAIN bids[q].caps, bids[q].caps[i] # Unlimited
               PROVE  Drawn(flow, q, i) <= bids[q].caps[i]
    BY FlowOver DEF WithinCapacity, Drawn
  <2>1. CASE GreedyLimits(flow) /\ Even(q)
    BY <2>1 DEF GreedyLimits
  <2>2. CASE ProgLimits(flow)
    BY <2>2 DEF ProgLimits
  <2> QED
    BY <1>4, <2>1, <2>2, Limited
<1> QED
  BY <1>3, <1>4 DEF SupplyWithinCapacity

\* The limits of both solvers give those of the demand.
LEMMA DemandLimited == ExchangeInv => DemandNotExceeded
<1> SUFFICES ASSUME ExchangeInv PROVE DemandNotExceeded
  OBVIOUS
<1>1. ASSUME NEW r \in RequestIds, solver = "greedy"
      PROVE  Flow(ArcsOf(r)) <= Req(r).qty
  <2>1. GreedyLimits(flow)
    BY <1>1, Limited
  <2> QED
    BY <2>1, FlowOver DEF GreedyLimits
<1>2. ASSUME NEW p \in DOMAIN requests,
             solver = "greedy" \/ (\A b \in arcs : GroupOf(b) = p => ~exclusive(b))
      PROVE  Match(p) <= PortfolioQty(requests[p])
  <2>1. Match(p) = Matched(flow, p)
    BY FlowOver DEF Match, Matched
  <2>2. CASE GreedyLimits(flow)
    BY <2>1, <2>2 DEF GreedyLimits
  <2>3. CASE solver = "prog" /\ ProgLimits(flow)
    BY <1>2, <2>1, <2>3 DEF ProgLimits
  <2> QED
    BY <2>2, <2>3, Limited
<1> QED
  BY <1>1, <1>2 DEF DemandNotExceeded

\* No match of either solver goes beyond what is supplied and what is asked
\* for, whatever the traders post (GreedySolver::Capacity, UpdateCapacity,
\* ProgTranslator::XlateGrp_).
THEOREM LimitsKept == Spec => []WithinLimits
<1>1. ExchangeInv => WithinLimits
  BY SupplyLimited, DemandLimited DEF WithinLimits
<1> QED
  BY <1>1, ExchangeInvariance, PTL

\* Two matches of a request together are within what it is matched to.
LEMMA TwoMatches ==
  ASSUME StageInv, NEW S \in SUBSET arcs, NEW a \in S, NEW b \in S, a # b
  PROVE  flow[a] + flow[b] <= Over(flow, S)
<1>1. IsFiniteSet(S) /\ \A x \in S : flow[x] \in Nat /\ flow[x] \in Int
  BY ArcsFinite DEF StageInv
<1> DEFINE R == S \ {b}
<1>2. Total(flow, S) = flow[b] + Total(flow, R)
  BY <1>1, TotalRemove
<1>3. R \in SUBSET arcs /\ a \in R /\ \A x \in arcs : flow[x] \in Nat
  BY DEF StageInv
<1> HIDE DEF R
<1>4. Over(flow, R) \in Nat /\ flow[a] <= Over(flow, R)
  BY <1>3, OverNat
<1> QED
  BY <1>1, <1>2, <1>4, OverTotal

\* Exclusive arcs carry all or nothing: two whole matches of one request are
\* more than it asks for.
LEMMA Wholly == ExchangeInv => WholeOrNothing
<1> SUFFICES ASSUME ExchangeInv PROVE WholeOrNothing
  OBVIOUS
<1>1. StageInv
  BY DEF ExchangeInv
<1>2. NodesTyped /\ arcs \subseteq BidIds
  BY <1>1, Typing DEF StageInv
<1>3. ASSUME NEW b \in Trades
      PROVE  /\ b \in arcs /\ flow[b] \in Nat /\ flow[b] > 0
             /\ Bid(b).excl => flow[b] = Bid(b).qty
             /\ Req(unode(b)).excl => flow[b] = Req(unode(b)).qty
  <2>1. b \in arcs /\ flow[b] > 0 /\ flow[b] \in Nat
    BY <1>1 DEF Trades, StageInv
  <2>2. exclusive(b) => flow[b] = excl_val(b)
    BY <2>1, Limited DEF GreedyLimits, ProgLimits
  <2>3. /\ exclusive(b) /\ excl_val(b) > 0 =>
             /\ Bid(b).excl => excl_val(b) = Bid(b).qty
             /\ Req(unode(b)).excl => excl_val(b) = Req(unode(b)).qty
        /\ Bid(b).excl \/ Req(unode(b)).excl => exclusive(b)
    BY <1>1, <2>1, ExclVal DEF exclusive
  <2> QED
    BY <2>1, <2>2, <2>3
<1>4. ASSUME NEW b \in Trades, Req(unode(b)).excl, NEW a \in Trades \cap ArcsOf(unode(b))
      PROVE  a = b
  <2>1. /\ a \in arcs /\ b \in arcs /\ unode(a) = unode(b) /\ unode(b) \in RequestIds
        /\ {a, b} \subseteq ArcsOf(unode(b)) /\ ArcsOf(unode(b)) \in SUBSET arcs
    BY <1>2, <1>3 DEF ArcsOf, NodesTyped
  <2>2. CASE GreedyLimits(flow)
    <3> SUFFICES ASSUME a # b PROVE FALSE
      OBVIOUS
    <3>1. flow[a] + flow[b] <= Over(flow, ArcsOf(unode(b)))
      BY <1>1, <2>1, TwoMatches
    <3>2. Over(flow, ArcsOf(unode(b))) <= Req(unode(b)).qty
      BY <2>1, <2>2 DEF GreedyLimits
    <3>3. /\ flow[a] = Req(unode(b)).qty /\ flow[b] = Req(unode(b)).qty
          /\ flow[a] \in Nat /\ flow[b] \in Nat /\ flow[a] > 0
      BY <1>3, <1>4, <2>1
    <3>4. Over(flow, ArcsOf(unode(b))) \in Nat
      BY <1>1, <2>1, OverNat DEF StageInv
    <3> QED
      BY <3>1, <3>2, <3>3, <3>4
  <2>3. CASE ProgLimits(flow)
    <3>1. ArcsOf(unode(b)) \in ExclRows
      BY <1>4, <2>1 DEF ExclRows
    <3> QED
      BY <1>3, <2>1, <2>3, <3>1 DEF ProgLimits
  <2> QED
    BY <2>2, <2>3, Limited
<1>5. ASSUME Solved, solver = "prog"
      PROVE  ExclusiveObjectsOnce
  <2> SUFFICES ASSUME NEW a \in Trades, NEW b \in Trades, a[1] = b[1],
                      Bid(a).excl, Bid(b).excl, Bid(a).obj = Bid(b).obj
               PROVE  a = b
    BY DEF ExclusiveObjectsOnce
  <2> DEFINE S == {x \in arcs : x[1] = a[1] /\ Bid(x).obj = Bid(a).obj /\ Bid(x).excl}
  <2>1. a \in arcs /\ b \in arcs /\ flow[a] > 0 /\ flow[b] > 0
    BY <1>3
  <2>2. S \in ExclRows /\ a \in S /\ b \in S
    BY <2>1 DEF ExclRows
  <2> HIDE DEF S
  <2> QED
    BY <1>5, <2>1, <2>2, Limited DEF ProgLimits
<1>6. \A b \in Trades : b \in ArcsOf(unode(b))
  BY <1>3 DEF ArcsOf
<1> QED
  BY <1>3, <1>4, <1>5, <1>6 DEF WholeOrNothing

\* What is exclusive is matched as a whole and once (excl_val_ of Arc,
\* GreedilySatisfySet, the exclusive rows of XlateGrp_).
THEOREM ExclusivesWhole == Spec => []WholeOrNothing
  BY Wholly, ExchangeInvariance, PTL

\* At the end all requesters are served, so what was provided was accepted.
LEMMA Settled == ExchangeInv => TradesSettled
<1> SUFFICES ASSUME TradeInv, phase = "done" PROVE TradesSettled
  BY DEF ExchangeInv, TradesSettled
<1>1. /\ \A x \in responses : x[2] \in Trades /\ x = <<Requester(x[2]), x[2]>>
      /\ accepted = {x \in responses : x[1] \in served}
      /\ asked = Suppliers /\ transactions = {<<Bidder(x[2]), x[1], x[2]>> : x \in responses}
      /\ served = Requesters
  BY DEF TradeInv
<1>2. \A x \in responses : x[1] \in served /\ x[1] = Requester(x[2])
  BY <1>1 DEF Requesters
<1>3. accepted = responses
  BY <1>1, <1>2
<1> QED
  BY <1>1, <1>2, <1>3 DEF TradesSettled

\* Every resource a supplier provides reaches the requester of its trade and
\* is recorded once with both traders (TradeExecutor::ExecuteTrades).
THEOREM AllSettled == Spec => []TradesSettled
  BY Settled, ExchangeInvariance, PTL

\* The limits of an optimal solution give MatchedWherePossible.
LEMMA NothingSpare == ExchangeInv => MatchedWherePossible
<1> SUFFICES ASSUME ExchangeInv, Solved, solver = "prog",
                    NEW b \in {a \in arcs : ~exclusive(a)}
             PROVE  \/ Match(GroupOf(b)) >= PortfolioQty(requests[GroupOf(b)])
                    \/ flow[b] = Req(unode(b)).qty
                    \/ \E i \in DOMAIN bids[b[1]].caps :
                          /\ Bid(b).units[i] = 1
                          /\ Flow({a \in arcs : a[1] = b[1] /\ Bid(a).units[i] = 1})
                               = bids[b[1]].caps[i]
  BY DEF MatchedWherePossible
<1>1. ProgLimits(flow)
  BY Limited
<1>2. /\ \A p : Match(p) = Matched(flow, p)
      /\ \A q, i : Flow({a \in arcs : a[1] = q /\ Bid(a).units[i] = 1}) = Drawn(flow, q, i)
  BY FlowOver DEF Match, Matched, Drawn
<1>3. \/ Matched(flow, GroupOf(b)) >= PortfolioQty(requests[GroupOf(b)])
      \/ flow[b] = Req(unode(b)).qty
      \/ \E i \in DOMAIN bids[b[1]].caps :
            Bid(b).units[i] = 1 /\ Drawn(flow, b[1], i) = bids[b[1]].caps[i]
  BY <1>1 DEF ProgLimits
<1> QED
  BY <1>2, <1>3

\* The optimizing solver leaves no request portfolio short while one of its
\* divisible arcs could carry more: a unit on that arc is cheaper than on
\* the false arc (ExchangeSolver::PseudoCost).
THEOREM NothingLeft == Spec => []MatchedWherePossible
  BY NothingSpare, ExchangeInvariance, PTL

-----------------------------------------------------------------------------
(***************************************************************************)
(* Types. The capacities are what the limits leave of them while the       *)
(* greedy solver runs, and stay as they are afterwards.                    *)
(***************************************************************************)
Phases == {"requests", "bids", "adjust", "translate", "solver", "solve",
           "respond", "send", "done", "error"}

CapsTyped ==
  /\ req_caps \in Seq(Nat)
  /\ \A q \in DOMAIN bid_caps : bid_caps[q] \in Seq(IF Even(q) THEN Nat ELSE Int)

Sequences ==
  req_caps \in Seq(Int) /\ \A q \in DOMAIN bid_caps : bid_caps[q] \in Seq(Int)

CapsInv ==
  /\ phase \in Phases /\ asked \subseteq Suppliers /\ served \subseteq Requesters
  /\ CapsTyped /\ flow \in [arcs -> Nat]
  /\ phase \in {"requests", "bids", "adjust", "translate", "solver"} =>
       req_caps = <<>> /\ bid_caps = <<>>

\* A sequence of elements of T is a sequence over T.
LEMMA SeqFrom ==
  ASSUME NEW T, NEW U, NEW n \in Nat, NEW s \in Seq(U), DOMAIN s = 1..n,
         \A i \in DOMAIN s : s[i] \in T
  PROVE  s \in Seq(T)
  OBVIOUS

\* While the greedy solver runs no capacity of a group is below zero.
LEMMA CapsOfSolve == ExchangeInv /\ phase = "solve" /\ Sequences => CapsTyped
<1> SUFFICES ASSUME ExchangeInv, phase = "solve", Sequences PROVE CapsTyped
  OBVIOUS
<1>1. StageInv /\ GreedyLimits(flow) /\ CapsLeft(flow, req_caps, bid_caps)
  BY DEF ExchangeInv, MatchInv
<1>2. NodesTyped /\ RequestsTyped /\ \A b \in arcs : flow[b] \in Nat
  BY <1>1, Typing, BooksTyped DEF StageInv
<1>3. ASSUME NEW p \in DOMAIN requests
      PROVE  req_caps[p] \in Nat
  <2>1. /\ {b \in arcs : GroupOf(b) = p} \in SUBSET arcs /\ PortfolioQty(requests[p]) \in Nat
        /\ Matched(flow, p) <= PortfolioQty(requests[p])
        /\ req_caps[p] = PortfolioQty(requests[p]) - Matched(flow, p)
    BY <1>1, <1>2 DEF NodesTyped, GreedyLimits, CapsLeft
  <2>2. Matched(flow, p) \in Nat
    BY <1>1, <1>2, <2>1, OverNat DEF Matched
  <2> QED
    BY <2>1, <2>2
<1>4. ASSUME NEW q \in DOMAIN bids, NEW i \in DOMAIN bids[q].caps
      PROVE  bid_caps[q][i] \in Int /\ (Even(q) => bid_caps[q][i] \in Nat)
  <2>1. /\ {b \in arcs : b[1] = q /\ Bid(b).units[i] = 1} \in SUBSET arcs
        /\ bids[q].caps[i] \in Int
        /\ bid_caps[q][i] = IF bids[q].caps[i] = Unlimited THEN Unlimited
                            ELSE bids[q].caps[i] - Drawn(flow, q, i)
        /\ Even(q) => bids[q].caps[i] = Unlimited \/ Drawn(flow, q, i) <= bids[q].caps[i]
    BY <1>1, <1>2 DEF NodesTyped, GreedyLimits, CapsLeft
  <2>2. Drawn(flow, q, i) \in Nat
    BY <1>1, <1>2, <2>1, OverNat DEF Drawn
  <2> QED
    BY <2>1, <2>2, UnlimitedAssumption
<1>5. req_caps \in Seq(Nat)
  <2>1. \A p \in DOMAIN req_caps : req_caps[p] \in Nat
    BY <1>1, <1>3 DEF CapsLeft
  <2>2. req_caps \in Seq(Int)
    BY DEF Sequences
  <2>3. DOMAIN req_caps = 1..Len(req_caps) /\ Len(req_caps) \in Nat
    BY <2>2, SeqOf
  <2> QED
    BY <2>1, <2>2, <2>3, SeqFrom
<1>6. ASSUME NEW q \in DOMAIN bid_caps
      PROVE  bid_caps[q] \in Seq(IF Even(q) THEN Nat ELSE Int)
  <2>1. bid_caps[q] \in Seq(Int)
    BY DEF Sequences
  <2>2. DOMAIN bid_caps[q] = 1..Len(bid_caps[q]) /\ Len(bid_caps[q]) \in Nat
    BY <2>1, SeqOf
  <2>3. DOMAIN bid_caps[q] = DOMAIN bids[q].caps /\ q \in DOMAIN bids
    BY <1>1 DEF CapsLeft
  <2>4. \A i \in DOMAIN bid_caps[q] : bid_caps[q][i] \in (IF Even(q) THEN Nat ELSE Int)
    BY <1>4, <2>3
  <2> QED
    BY <2>1, <2>2, <2>4, SeqFrom
<1> QED
  BY <1>5, <1>6 DEF CapsTyped

\* Typed capacities are sequences of whole numbers.
LEMMA CapsSequences == CapsTyped => Sequences
<1> SUFFICES ASSUME CapsTyped PROVE Sequences
  OBVIOUS
<1>1. \A s \in Seq(Nat) : s \in Seq(Int)
  OBVIOUS
<1>2. \A q \in DOMAIN bid_caps : bid_caps[q] \in Seq(Nat) \/ bid_caps[q] \in Seq(Int)
  BY DEF CapsTyped
<1> QED
  BY <1>1, <1>2 DEF CapsTyped, Sequences

\* UpdateCapacity keeps the capacities sequences of whole numbers.
LEMMA SequencesKept ==
  ASSUME StageInv, MatchInv, Sequences, NEW b \in Pending, ConsiderArc(b)
  PROVE  Sequences'
<1>1. /\ b \in arcs /\ Turn(b) /\ ToMatch(b) \in Int /\ CapsLeft(flow, req_caps, bid_caps)
  BY Turns
<1>2. CASE UNCHANGED <<req_caps, bid_caps>>
  BY <1>2 DEF Sequences
<1>3. CASE /\ req_caps' = [req_caps EXCEPT ![GroupOf(b)] = @ - ToMatch(b)]
           /\ bid_caps' = [bid_caps EXCEPT ![b[1]] = UpdateCapacity(@, Bid(b).units, ToMatch(b))]
  <2>1. req_caps \in Seq(Int) /\ \A q \in DOMAIN bid_caps : bid_caps[q] \in Seq(Int)
    BY DEF Sequences
  <2>2. b \in BidIds /\ NodesTyped
    BY <1>1, Typing DEF StageInv
  <2>3. /\ GroupOf(b) \in DOMAIN req_caps /\ b[1] \in DOMAIN bid_caps
        /\ DOMAIN Bid(b).units = DOMAIN bid_caps[b[1]] /\ Bid(b).units \in Seq({0, 1})
    BY <1>1, <2>2 DEF NodesTyped, CapsLeft
  <2>4. req_caps[GroupOf(b)] - ToMatch(b) \in Int
    BY <1>1, <2>1, <2>3, SeqOf
  <2>5. req_caps' \in Seq(Int)
    BY <1>3, <2>1, <2>3, <2>4
  <2>6. UpdateCapacity(bid_caps[b[1]], Bid(b).units, ToMatch(b)) \in Seq(Int)
    <3> DEFINE s == bid_caps[b[1]]
               u == Bid(b).units
               d == ToMatch(b)
    <3>1. s \in Seq(Int) /\ u \in Seq({0, 1}) /\ DOMAIN u = DOMAIN s /\ d \in Int
      BY <1>1, <2>1, <2>3
    <3> HIDE DEF s, u, d
    <3>2. /\ DOMAIN s = 1..Len(s) /\ Len(s) \in Nat /\ (\A i \in DOMAIN s : s[i] \in Int)
          /\ \A i \in DOMAIN s : u[i] \in {0, 1}
      BY <3>1, SeqOf
    <3>3. \A i \in DOMAIN s : d * u[i] \in Int
      BY <3>1, <3>2
    <3>4. \A i \in DOMAIN s : (IF s[i] = Unlimited THEN Unlimited ELSE s[i] - d * u[i]) \in Int
      BY <3>2, <3>3, UnlimitedAssumption
    <3>5. UpdateCapacity(s, u, d) \in Seq(Int)
      BY <3>2, <3>4 DEF UpdateCapacity
    <3> QED
      BY <3>5 DEF s, u, d
  <2>7. \A q \in DOMAIN bid_caps' : bid_caps'[q] \in Seq(Int)
    <3> DEFINE n == UpdateCapacity(bid_caps[b[1]], Bid(b).units, ToMatch(b))
    <3>1. bid_caps' = [bid_caps EXCEPT ![b[1]] = n] /\ n \in Seq(Int)
      BY <1>3, <2>6
    <3> HIDE DEF n
    <3>2. DOMAIN bid_caps' = DOMAIN bid_caps
          /\ \A q \in DOMAIN bid_caps : bid_caps'[q] = n \/ bid_caps'[q] = bid_caps[q]
      BY <3>1
    <3> QED
      BY <2>1, <3>1, <3>2
  <2> QED
    BY <2>5, <2>7 DEF Sequences
<1> QED
  BY <1>1, <1>2, <1>3 DEF Turn

\* Capacities that do not change keep their types.
LEMMA CapsSame ==
  ASSUME CapsTyped, req_caps' = req_caps, bid_caps' = bid_caps, bids' = bids \/ bid_caps = <<>>
  PROVE  CapsTyped'
<1>1. CASE bids' = bids
  <2>1. \A q : Even(q)' = Even(q)
    BY <1>1 DEF Even
  <2> QED
    BY <2>1 DEF CapsTyped
<1>2. CASE bid_caps = <<>>
  BY <1>2 DEF CapsTyped
<1> QED
  BY <1>1, <1>2

\* The greedy solver starts with sequences of capacities.
LEMMA CapsStart ==
  ASSUME StageInv, SolverInit
  PROVE  Sequences'
<1>1. RequestsTyped /\ BidsTyped /\ NodesTyped
  BY BooksTyped, Typing
<1>2. /\ req_caps' = [p \in DOMAIN requests |-> PortfolioQty(requests[p])]
      /\ bid_caps' = [q \in DOMAIN bids |-> bids[q].caps]
  BY DEF SolverInit
<1>3. DOMAIN requests = 1..Len(requests) /\ Len(requests) \in Nat
  BY <1>1, SeqOf DEF RequestsTyped
<1>4. \A p \in DOMAIN requests : PortfolioQty(requests[p]) \in Int
  BY <1>1 DEF NodesTyped
<1>5. req_caps' \in Seq(Int)
  BY <1>2, <1>3, <1>4
<1>6. ASSUME NEW q \in DOMAIN bids
      PROVE  bids[q].caps \in Seq(Int)
  <2>1. bids[q] \in BidPortfolios
    BY <1>1, SeqOf DEF BidsTyped
  <2>2. bids[q].caps \in Seq(0..Unlimited)
    BY <2>1, Portfolios
  <2>3. /\ DOMAIN bids[q].caps = 1..Len(bids[q].caps) /\ Len(bids[q].caps) \in Nat
        /\ \A i \in DOMAIN bids[q].caps : bids[q].caps[i] \in 0..Unlimited
    BY <2>2, SeqOf
  <2>4. \A i \in DOMAIN bids[q].caps : bids[q].caps[i] \in Int
    BY <2>3
  <2> QED
    BY <2>2, <2>3, <2>4, SeqFrom
<1> QED
  BY <1>2, <1>5, <1>6 DEF Sequences

\* CapsOfSolve in the next state.
LEMMA CapsOfSolvePrime == ExchangeInv' /\ (phase = "solve")' /\ Sequences' => CapsTyped'
  BY CapsOfSolve, PTL

\* Steps that leave the trades alone, before anybody has been asked.
LEMMA NobodyAsked ==
  ASSUME TradeInv, phase \notin {"respond", "send", "done"}, UNCHANGED trades
  PROVE  (asked \subseteq Suppliers /\ served \subseteq Requesters)'
  BY DEF TradeInv, trades

\* The matches stay a function on the arcs.
LEMMA FlowTyped ==
  ASSUME ExchangeInv, StageInv', flow \in [arcs -> Nat], [Next]_vars
  PROVE  flow' \in [arcs' -> Nat]
<1>1. DOMAIN flow' = arcs' /\ \A b \in arcs' : flow'[b] \in Nat
  BY DEF StageInv
<1>2. CASE flow' = flow
  <2>1. DOMAIN flow = arcs
    OBVIOUS
  <2> QED
    BY <1>1, <1>2, <2>1
<1>3. CASE flow' = [b \in arcs' |-> 0]
  BY <1>3
<1>4. ASSUME NEW b, flow' = [flow EXCEPT ![b] = @ + ToMatch(b)]
      PROVE  flow' \in [arcs' -> Nat]
  <2>1. flow' = [a \in DOMAIN flow' |-> flow'[a]]
    BY <1>4
  <2> QED
    BY <1>1, <2>1
<1>5. CASE flow' \in Optimal
  <2>1. StageInv
    BY DEF ExchangeInv
  <2>2. flow' \in Feasible
    BY <1>5, <2>1, OptimalLeast
  <2>3. flow' \in Columns
    BY <2>1, <2>2, FeasibleParts
  <2>4. flow' \in [arcs -> 0..Largest]
    BY <2>1, <2>3, ColumnsWhole
  <2>5. flow' = [a \in DOMAIN flow' |-> flow'[a]]
    BY <2>4
  <2> QED
    BY <1>1, <2>5
<1>6. \/ flow' = flow \/ flow' = [b \in arcs' |-> 0] \/ flow' \in Optimal
      \/ \E b : flow' = [flow EXCEPT ![b] = @ + ToMatch(b)]
  <2>1. ASSUME NEW b \in Pending, ConsiderArc(b)
        PROVE  flow' = flow \/ flow' = [flow EXCEPT ![b] = @ + ToMatch(b)]
    BY <2>1 DEF ConsiderArc
  <2>2. ASSUME ~ \E b \in Pending : ConsiderArc(b)
        PROVE  flow' = flow \/ flow' = [b \in arcs' |-> 0] \/ flow' \in Optimal
    BY <2>2 DEF Next, AddAllRequests, AddAllBids, AdjustAll, Translate, SolverInit, BackTranslate,
                SolveProg, GetTradeResponses, RecordTrades, SendTradeResources, Finish, vars, solution
  <2> QED
    BY <2>1, <2>2
<1> QED
  BY <1>2, <1>3, <1>4, <1>5, <1>6

\* Every step keeps CapsInv.
LEMMA CapsStep == ExchangeInv /\ ExchangeInv' /\ CapsInv /\ [Next]_vars => CapsInv'
<1> SUFFICES ASSUME ExchangeInv, ExchangeInv', CapsInv, [Next]_vars
             PROVE  CapsInv'
  OBVIOUS
<1> USE DEF Phases
<1>1. StageInv /\ MatchInv /\ TradeInv /\ CapsTyped
  BY DEF ExchangeInv, CapsInv
<1>2. flow' \in [arcs' -> Nat]
  BY FlowTyped DEF ExchangeInv, CapsInv
<1>3. ASSUME \/ \E book \in RequestBooks : AddAllRequests(book)
             \/ \E book \in BidBooks(requests) : AddAllBids(book)
             \/ \E prefs \in [BidIds -> AdjustedPrefs(requests)
                                \cup {trader_prefs[b] : b \in BidIds}] : AdjustAll(prefs)
             \/ Translate
      PROVE  CapsInv'
  <2>1. /\ phase \in {"requests", "bids", "adjust", "translate"}
        /\ phase' \in {"bids", "adjust", "done", "translate", "error", "solver"}
        /\ req_caps' = req_caps /\ bid_caps' = bid_caps /\ UNCHANGED trades
    BY <1>3 DEF AddAllRequests, AddAllBids, AdjustAll, Translate, solution
  <2>2. req_caps = <<>> /\ bid_caps = <<>>
    BY <2>1 DEF CapsInv
  <2>3. CapsTyped'
    BY <1>1, <2>1, <2>2, CapsSame
  <2>4. (asked \subseteq Suppliers /\ served \subseteq Requesters)'
    BY <1>1, <2>1, NobodyAsked
  <2> QED
    BY <1>2, <2>1, <2>2, <2>3, <2>4 DEF CapsInv
<1>4. CASE SolverInit
  <2>1. phase = "solver" /\ phase' = "solve" /\ UNCHANGED trades
    BY <1>4 DEF SolverInit
  <2>2. Sequences'
    BY <1>1, <1>4, CapsStart
  <2>3. CapsTyped'
    BY <2>1, <2>2, CapsOfSolvePrime
  <2>4. (asked \subseteq Suppliers /\ served \subseteq Requesters)'
    BY <1>1, <2>1, NobodyAsked
  <2> QED
    BY <1>2, <2>1, <2>3, <2>4 DEF CapsInv
<1>5. ASSUME NEW b \in Pending, ConsiderArc(b)
      PROVE  CapsInv'
  <2>1. phase = "solve" /\ Turn(b) /\ UNCHANGED trades /\ Fixed
    BY <1>1, <1>5, Turns
  <2>2. (asked \subseteq Suppliers /\ served \subseteq Requesters)'
    BY <1>1, <2>1, NobodyAsked
  <2>3. CASE phase' = "solve"
    <3>1. Sequences'
      BY <1>1, <1>5, CapsSequences, SequencesKept
    <3>2. CapsTyped'
      BY <2>3, <3>1, CapsOfSolvePrime
    <3> QED
      BY <1>2, <2>2, <2>3, <3>2 DEF CapsInv
  <2>4. CASE phase' = "error" /\ UNCHANGED <<req_caps, bid_caps>>
    <3>1. CapsTyped'
      BY <1>1, <2>1, <2>4, CapsSame DEF Fixed
    <3> QED
      BY <1>2, <2>2, <2>4, <3>1 DEF CapsInv
  <2> QED
    BY <2>1, <2>3, <2>4 DEF Turn
<1>6. CASE BackTranslate \/ SolveProg
  <2>1. /\ phase = "solve" /\ phase' = "respond" /\ UNCHANGED trades
        /\ req_caps' = req_caps /\ bid_caps' = bid_caps /\ bids' = bids
    BY <1>6 DEF BackTranslate, SolveProg, solution, exchange
  <2>2. (asked \subseteq Suppliers /\ served \subseteq Requesters)'
    BY <1>1, <2>1, NobodyAsked
  <2>3. CapsTyped'
    BY <1>1, <2>1, CapsSame
  <2> QED
    BY <1>2, <2>1, <2>2, <2>3 DEF CapsInv
<1>7. ASSUME \/ \E t \in Suppliers, S \in SUBSET Trades : GetTradeResponses(t, S)
             \/ RecordTrades
             \/ \E t \in Requesters : SendTradeResources(t)
             \/ Finish
             \/ UNCHANGED vars
      PROVE  CapsInv'
  <2>1. /\ Fixed /\ flow' = flow /\ req_caps' = req_caps /\ bid_caps' = bid_caps /\ bids' = bids
        /\ phase' \in {"respond", "send", "done"} \/ phase' = phase
    BY <1>7 DEF GetTradeResponses, RecordTrades, SendTradeResources, Finish, vars, Fixed,
                exchange, solution
  <2>2. Suppliers' = Suppliers /\ Requesters' = Requesters
    BY <2>1, TradesPrime
  <2>3. asked' \subseteq asked \cup Suppliers /\ served' \subseteq served \cup Requesters
    BY <1>7 DEF GetTradeResponses, RecordTrades, SendTradeResources, Finish, vars, trades
  <2>4. CapsTyped'
    BY <1>1, <2>1, CapsSame
  <2> QED
    BY <1>2, <2>1, <2>2, <2>3, <2>4 DEF CapsInv
<1> QED
  BY <1>3, <1>4, <1>5, <1>6, <1>7 DEF Next

\* CapsInv holds at first.
LEMMA CapsInit == Init => CapsInv
<1> SUFFICES ASSUME Init PROVE CapsInv
  OBVIOUS
<1>1. req_caps \in Seq(Nat) /\ DOMAIN bid_caps = {} /\ flow \in [arcs -> Nat]
  BY EmptyBook DEF Init
<1> QED
  BY <1>1 DEF Init, CapsInv, CapsTyped, Phases

\* The two invariants give the types.
LEMMA TypeOKOf == ExchangeInv /\ CapsInv => TypeOK
<1> SUFFICES ASSUME ExchangeInv, CapsInv PROVE TypeOK
  OBVIOUS
<1>1. /\ arcs \subseteq BidIds /\ DOMAIN flow = arcs /\ DOMAIN trader_prefs = BidIds
      /\ considered \in Seq(arcs) /\ \A b \in arcs : flow[b] \in Nat
  BY DEF ExchangeInv, StageInv
<1> QED
  BY <1>1 DEF TypeOK, CapsInv, CapsTyped, Phases

\* The exchange is well typed; no capacity of a request group falls below
\* zero, and none of a supply group whose bids all draw on it
\* (UpdateCapacity).
THEOREM TypeCorrect == Spec => []TypeOK
<1>1. Init => CapsInv
  BY CapsInit
<1>2. ExchangeInv /\ ExchangeInv' /\ CapsInv /\ [Next]_vars => CapsInv'
  BY CapsStep
<1>3. ExchangeInv /\ CapsInv => TypeOK
  BY TypeOKOf
<1> QED
  BY <1>1, <1>2, <1>3, ExchangeInvariance, PTL DEF Spec

-----------------------------------------------------------------------------
(***************************************************************************)
(* OrderRespected: every turn of GreedilySatisfySet gives its arc all it   *)
(* can have beside the arcs of the turns before, and these come no later   *)
(* in the order of the sorts.                                              *)
(***************************************************************************)
Upto(s, k) == {s[j] : j \in 1..k}

\* A constraint is overdrawn only behind a first one that is used up, which
\* std::min_element then does not look past.
Overdrawn(bc) ==
  \A q \in DOMAIN bids : \A i \in DOMAIN bids[q].caps : bc[q][i] < 0 => bc[q][1] = 0

InTurn(f, s) ==
  /\ \A j, k \in DOMAIN s : s[j] = s[k] => j = k
  /\ \A k \in DOMAIN s : /\ ~Slighted(f, s[k], Upto(s, k))
                         /\ \A b \in arcs \ Upto(s, k) : ~Sooner(b, s[k])

OrderInv == phase = "solve" => InTurn(flow, considered) /\ Overdrawn(bid_caps)

\* What GreedilySatisfySet may match on an arc before it looks at exclusivity.
Quota(b) == StdMin(PortfolioQty(requests[GroupOf(b)]) - Match(GroupOf(b)), Capacity(b))

\* A bid offers no more than the largest double.
LEMMA OfferBounded ==
  ASSUME StageInv, NEW b \in BidIds
  PROVE  Bid(b).qty \in 0..Unlimited
<1>1. bids \in Seq(BidPortfolios) /\ b[1] \in DOMAIN bids /\ b[2] \in DOMAIN bids[b[1]].bids
  BY BooksTyped, IdFacts DEF BidsTyped
<1>2. bids[b[1]] \in BidPortfolios
  BY <1>1
<1>3. bids[b[1]].bids \in Seq(BidRecord)
  BY <1>2, Portfolios
<1>4. bids[b[1]].bids[b[2]] \in BidRecord
  BY <1>1, <1>3, SeqOf
<1> QED
  BY <1>4 DEF Bid, BidRecord

\* The minimum of two numbers is one of them, std::min too.
LEMMA MinAttained ==
  ASSUME NEW x \in Int, NEW y \in Int
  PROVE  Min({x, y}) \in {x, y} /\ StdMin(x, y) = Min({x, y})
<1>1. IsFiniteSet({x, y}) /\ {x, y} \subseteq Int /\ {x, y} # {}
  BY PairFinite
<1>2. Min({x, y}) \in {x, y}
  BY <1>1, LeastOf
<1>3. x # NaN /\ y # NaN
  BY BooksAssumption
<1> QED
  BY <1>2, <1>3 DEF StdMin

\* std::min_element returns an element.
LEMMA MinElementAttained ==
  ASSUME NEW s, 1 \in DOMAIN s, IsFiniteSet(DOMAIN s), \A i \in DOMAIN s : s[i] \in Int \cup {NaN},
         s[1] # NaN
  PROVE  \E i \in DOMAIN s : s[i] \in Int /\ MinElement(s) = s[i]
<1> DEFINE I == {s[i] : i \in DOMAIN s}
           J == I \ {NaN}
<1>1. IsFiniteSet(I)
  BY ImageFinite
<1>2. J \in SUBSET I /\ J \subseteq Int /\ s[1] \in J
  OBVIOUS
<1>3. IsFiniteSet(J)
  <2> HIDE DEF I, J
  <2> QED
    BY <1>1, <1>2, FS_Subset
<1>4. MinElement(s) = Min(J)
  BY DEF MinElement
<1>5. Min(J) \in J
  <2> HIDE DEF J
  <2> QED
    BY <1>2, <1>3, LeastOf
<1> QED
  BY <1>2, <1>4, <1>5

\* GreedySolver::Capacity of a bid node leaves what the offer and all the
\* constraints it draws on leave.
LEMMA BidLeast ==
  ASSUME StageInv, NEW b \in arcs, Supplied(bid_caps), Overdrawn(bid_caps), flow[b] = 0,
         NEW n \in Nat \ {0}, n <= Bid(b).qty,
         \A i \in DOMAIN bids[b[1]].caps : Bid(b).units[i] = 1 => n <= bid_caps[b[1]][i]
  PROVE  BidCapacity(b) = NaN \/ (BidCapacity(b) \in Int /\ n <= BidCapacity(b))
<1> DEFINE units == Bid(b).units
           left  == Bid(b).qty - flow[b]
           bc    == bid_caps[b[1]]
           caps  == [i \in DOMAIN units |-> Quotient(bc[i], units[i])]
<1>1. b \in BidIds /\ NodesTyped
  BY Typing DEF StageInv
<1>2. /\ b[1] \in DOMAIN bids /\ Bid(b).qty \in Nat /\ units \in Seq({0, 1})
      /\ DOMAIN units = DOMAIN bids[b[1]].caps
  BY <1>1 DEF NodesTyped
<1>3. left \in Int /\ left = Bid(b).qty
  BY <1>2
<1>4. BidCapacity(b) = IF units = <<>> THEN left ELSE StdMin(MinElement(caps), left)
  BY DEF BidCapacity
<1>5. Bid(b).qty <= Unlimited /\ Unlimited \in Nat \ {0}
  BY <1>1, OfferBounded, UnlimitedAssumption
<1>6. /\ \A i \in DOMAIN units : bc[i] \in Int /\ (units[i] = 1 => n <= bc[i])
      /\ \A i \in DOMAIN units : bc[i] < 0 => bc[1] = 0
  BY <1>2 DEF Supplied, Overdrawn
<1>7. CASE units = <<>>
  BY <1>3, <1>4, <1>7
<1>8. CASE units # <<>>
  <2>1. 1 \in DOMAIN units /\ IsFiniteSet(DOMAIN units) /\ \A i \in DOMAIN units : units[i] \in {0, 1}
    <3> HIDE DEF units
    <3>1. DOMAIN units = 1..Len(units) /\ Len(units) \in Nat /\ IsFiniteSet(DOMAIN units)
      BY <1>2, SeqOf
    <3>2. Len(units) # 0
      BY <1>2, <1>8
    <3>3. 1 \in DOMAIN units
      BY <3>1, <3>2
    <3> QED
      BY <1>2, <3>1, <3>3, SeqOf
  <2>2. DOMAIN caps = DOMAIN units /\ \A i \in DOMAIN units : caps[i] = Quotient(bc[i], units[i])
    OBVIOUS
  <2>3. \A i \in DOMAIN caps : caps[i] \in Int \cup {NaN}
    BY <1>6, <2>1, <2>2, QuotientOf
  <2>4. BidCapacity(b) = StdMin(MinElement(caps), left)
    BY <1>4, <1>8
  <2> HIDE DEF caps, units, left, bc
  <2>5. CASE caps[1] = NaN
    BY <2>4, <2>5 DEF MinElement, StdMin
  <2>6. CASE caps[1] # NaN
    <3>1. PICK i \in DOMAIN caps : caps[i] \in Int /\ MinElement(caps) = caps[i]
      BY <2>1, <2>2, <2>3, <2>6, MinElementAttained
    <3>2. caps[i] # NaN
      BY <3>1, BooksAssumption
    <3>3. bc[i] \in Int /\ bc[1] \in Int /\ units[i] \in {0, 1} /\ units[1] \in {0, 1}
      BY <1>6, <2>1, <2>2, <3>1
    <3>4. n <= caps[i]
      <4>1. CASE units[i] = 1
        BY <1>6, <2>2, <3>1, <3>3, <4>1, QuotientOf
      <4>2. CASE units[i] = 0
        <5>1. caps[i] = Quotient(bc[i], 0)
          BY <2>2, <3>1, <4>2
        <5>2. CASE bc[i] < 0
          <6>1. bc[1] = 0
            BY <1>6, <2>2, <3>1, <5>2
          <6>2. CASE units[1] = 1
            BY <1>6, <2>1, <6>1, <6>2
          <6>3. CASE units[1] = 0
            <7>1. caps[1] = Quotient(0, 0)
              BY <2>1, <2>2, <6>1, <6>3
            <7>2. Quotient(0, 0) = NaN
              BY <1>5 DEF Quotient
            <7> QED
              BY <2>6, <7>1, <7>2
          <6> QED
            BY <3>3, <6>2, <6>3
        <5>3. CASE bc[i] = 0
          <6>1. caps[i] = NaN
            BY <1>5, <5>1, <5>3 DEF Quotient
          <6> QED
            BY <3>2, <6>1
        <5>4. CASE bc[i] > 0
          <6>1. caps[i] = Unlimited
            BY <3>3, <5>1, <5>4 DEF Quotient
          <6> QED
            BY <1>2, <1>5, <6>1
        <5> QED
          BY <3>3, <5>2, <5>3, <5>4
      <4> QED
        BY <3>3, <4>1, <4>2
    <3>5. BidCapacity(b) \in {caps[i], left}
      BY <1>3, <2>4, <3>1, MinAttained
    <3> QED
      BY <1>3, <3>1, <3>4, <3>5
  <2> QED
    BY <2>5, <2>6
<1> QED
  BY <1>7, <1>8

\* The sets of arcs that Room looks at, and what is used of them.
Sharing(b, i) == {a \in arcs : a[1] = b[1] /\ Bid(a).units[i] = 1}
Members(b)    == {a \in arcs : GroupOf(a) = GroupOf(b)}
Share(f, b, S, P) == Over(f, (S \cup {b}) \cap P)

\* Room in terms of these.
LEMMA RoomParts ==
  ASSUME NEW f, NEW b, NEW S, NEW n
  PROVE  Room(f, b, S, n) <=>
           /\ n <= Bid(b).qty - f[b]
           /\ n <= Req(unode(b)).qty - Share(f, b, S, ArcsOf(unode(b)))
           /\ n <= PortfolioQty(requests[GroupOf(b)]) - Share(f, b, S, Members(b))
           /\ \A i \in DOMAIN bids[b[1]].caps :
                bids[b[1]].caps[i] # Unlimited /\ Bid(b).units[i] = 1 =>
                  n <= bids[b[1]].caps[i] - Share(f, b, S, Sharing(b, i))
  BY DEF Room, Sharing, Members, Share

\* Where less is used, there is as much more room.
LEMMA RoomShift ==
  ASSUME StageInv, NEW c \in arcs, NEW f, Whole(f), NEW g, Whole(g), NEW S \in SUBSET arcs,
         NEW T \in SUBSET arcs, NEW n \in Int, NEW d \in Int, f[c] + d = g[c],
         \A P \in SUBSET arcs : c \in P => Share(f, c, S, P) + d <= Share(g, c, T, P),
         Room(g, c, T, n)
  PROVE  Room(f, c, S, n + d)
<1>1. c \in BidIds /\ NodesTyped /\ f[c] \in Int /\ g[c] \in Int
  BY Typing DEF StageInv, Whole
<1>2. /\ Bid(c).qty \in Nat /\ unode(c) \in RequestIds /\ Req(unode(c)).qty \in Nat
      /\ c[1] \in DOMAIN bids /\ GroupOf(c) \in DOMAIN requests
      /\ PortfolioQty(requests[GroupOf(c)]) \in Nat
  BY <1>1 DEF NodesTyped
<1>3. \A i \in DOMAIN bids[c[1]].caps : bids[c[1]].caps[i] \in Int
  BY <1>1, <1>2 DEF NodesTyped
<1>4. ASSUME NEW P \in SUBSET arcs, c \in P, NEW x \in Int, n <= x - Share(g, c, T, P)
      PROVE  n + d <= x - Share(f, c, S, P)
  <2>1. /\ (S \cup {c}) \cap P \in SUBSET arcs /\ (T \cup {c}) \cap P \in SUBSET arcs
    OBVIOUS
  <2>2. Share(f, c, S, P) \in Int /\ Share(g, c, T, P) \in Int
    <3>1. Bumped(f, f, c, 0) /\ Bumped(g, g, c, 0)
      BY DEF Bumped, Whole
    <3> QED
      BY <2>1, <3>1, OverBumped DEF Share
  <2>3. Share(f, c, S, P) + d <= Share(g, c, T, P)
    BY <1>4
  <2> QED
    BY <1>4, <2>2, <2>3
<1>5. /\ ArcsOf(unode(c)) \in SUBSET arcs /\ c \in ArcsOf(unode(c))
      /\ Members(c) \in SUBSET arcs /\ c \in Members(c)
  BY DEF ArcsOf, Members
<1>6. n + d <= Bid(c).qty - f[c]
  BY <1>1, <1>2, RoomParts
<1>7. n + d <= Req(unode(c)).qty - Share(f, c, S, ArcsOf(unode(c)))
  BY <1>2, <1>4, <1>5, RoomParts
<1>8. n + d <= PortfolioQty(requests[GroupOf(c)]) - Share(f, c, S, Members(c))
  BY <1>2, <1>4, <1>5, RoomParts
<1>9. ASSUME NEW i \in DOMAIN bids[c[1]].caps, bids[c[1]].caps[i] # Unlimited, Bid(c).units[i] = 1
      PROVE  n + d <= bids[c[1]].caps[i] - Share(f, c, S, Sharing(c, i))
  <2>1. Sharing(c, i) \in SUBSET arcs /\ c \in Sharing(c, i)
    BY <1>9 DEF Sharing
  <2>2. n <= bids[c[1]].caps[i] - Share(g, c, T, Sharing(c, i))
    BY <1>9, RoomParts
  <2> QED
    BY <1>3, <1>4, <1>9, <2>1, <2>2
<1> QED
  BY <1>6, <1>7, <1>8, <1>9, RoomParts

\* What there is room for beside all arcs is within what GreedilySatisfySet
\* may match.
LEMMA Least ==
  ASSUME StageInv, NEW b \in arcs, CapsLeft(flow, req_caps, bid_caps), Overdrawn(bid_caps),
         flow[b] = 0, NEW n \in Nat \ {0}, Room(flow, b, arcs, n)
  PROVE  Quota(b) \in Int /\ n <= Quota(b)
<1>1. b \in BidIds /\ NodesTyped /\ (\A a \in arcs : flow[a] \in Nat) /\ Supplied(bid_caps)
  BY Typing, CapsSupplied DEF StageInv
<1>2. /\ Bid(b).qty \in Nat /\ unode(b) \in RequestIds /\ Req(unode(b)).qty \in Nat
      /\ b[1] \in DOMAIN bids /\ GroupOf(b) \in DOMAIN requests
      /\ PortfolioQty(requests[GroupOf(b)]) \in Nat
  BY <1>1 DEF NodesTyped
<1>3. \A P \in SUBSET arcs : Share(flow, b, arcs, P) = Over(flow, P) /\ Over(flow, P) \in Nat
  <2> SUFFICES ASSUME NEW P \in SUBSET arcs
               PROVE  Share(flow, b, arcs, P) = Over(flow, P) /\ Over(flow, P) \in Nat
    OBVIOUS
  <2>1. (arcs \cup {b}) \cap P = P
    OBVIOUS
  <2> QED
    BY <1>1, <2>1, OverNat DEF Share
<1> DEFINE remain == PortfolioQty(requests[GroupOf(b)]) - Match(GroupOf(b))
           room   == Req(unode(b)).qty - Over(flow, ArcsOf(unode(b)))
<1>4. remain = PortfolioQty(requests[GroupOf(b)]) - Over(flow, Members(b))
  BY FlowOver DEF Match, Members
<1>5. ArcsOf(unode(b)) \in SUBSET arcs /\ Members(b) \in SUBSET arcs
  BY DEF ArcsOf, Members
<1>6. remain \in Int /\ room \in Int /\ n <= remain /\ n <= room
  BY <1>2, <1>3, <1>4, <1>5, RoomParts
<1>7. req_caps[GroupOf(b)] = remain
  BY <1>2, <1>4 DEF CapsLeft, Matched, Members
<1>8. RequestCapacity(b) = Min({remain, room})
  BY <1>7, FlowOver DEF RequestCapacity
<1> HIDE DEF remain, room
<1>9. RequestCapacity(b) \in Int /\ n <= RequestCapacity(b)
  BY <1>6, <1>8, MinAttained
<1>10. n <= Bid(b).qty
  BY <1>2, RoomParts
<1>11. ASSUME NEW i \in DOMAIN bids[b[1]].caps, Bid(b).units[i] = 1
       PROVE  n <= bid_caps[b[1]][i]
  <2>1. bid_caps[b[1]][i] = IF bids[b[1]].caps[i] = Unlimited THEN Unlimited
                            ELSE bids[b[1]].caps[i] - Drawn(flow, b[1], i)
    BY <1>2, <1>11 DEF CapsLeft
  <2>2. CASE bids[b[1]].caps[i] = Unlimited
    <3>1. Bid(b).qty \in 0..Unlimited
      BY <1>1, OfferBounded
    <3> QED
      BY <1>2, <1>10, <2>1, <2>2, <3>1, UnlimitedAssumption
  <2>3. CASE bids[b[1]].caps[i] # Unlimited
    <3>1. Sharing(b, i) \in SUBSET arcs /\ Drawn(flow, b[1], i) = Over(flow, Sharing(b, i))
      BY DEF Sharing, Drawn
    <3>2. n <= bids[b[1]].caps[i] - Share(flow, b, arcs, Sharing(b, i))
      BY <1>11, <2>3, RoomParts
    <3> QED
      BY <1>3, <2>1, <2>3, <3>1, <3>2
  <2> QED
    BY <2>2, <2>3
<1>12. BidCapacity(b) = NaN \/ (BidCapacity(b) \in Int /\ n <= BidCapacity(b))
  BY <1>1, <1>10, <1>11, BidLeast
<1>13. Capacity(b) \in Int /\ n <= Capacity(b)
  <2>1. CASE BidCapacity(b) = NaN
    BY <1>9, <2>1 DEF Capacity, StdMin
  <2>2. CASE BidCapacity(b) \in Int /\ n <= BidCapacity(b)
    <3>1. Capacity(b) \in {RequestCapacity(b), BidCapacity(b)}
      BY <1>9, <2>2, MinAttained DEF Capacity
    <3> QED
      BY <1>9, <2>2, <3>1
  <2> QED
    BY <1>12, <2>1, <2>2
<1>14. Quota(b) = StdMin(remain, Capacity(b))
  BY DEF Quota, remain
<1> QED
  BY <1>6, <1>13, <1>14, MinAttained

\* Sums over the arcs of turns so far: the others carry nothing.
LEMMA OverConsidered ==
  ASSUME StageInv, NEW S \in SUBSET arcs, \A a \in arcs \ S : flow[a] = 0, NEW P \in SUBSET arcs
  PROVE  Over(flow, S \cap P) = Over(flow, P)
<1>1. IsFiniteSet(P) /\ S \cap P \in SUBSET P /\ (\A x \in P : flow[x] \in Int)
  BY ArcsFinite DEF StageInv
<1>2. \A x \in P \ (S \cap P) : flow[x] = 0
  OBVIOUS
<1>3. Total(flow, S \cap P) = Total(flow, P)
  BY <1>1, <1>2, TotalZeros
<1> QED
  BY <1>3, OverTotal

\* The quantity that must be taken whole is the one an exclusive arc carries.
LEMMA WholeIsExclVal ==
  ASSUME StageInv, NEW b \in arcs, exclusive(b), NEW n \in Nat \ {0},
         n <= Bid(b).qty, n <= Req(unode(b)).qty,
         Req(unode(b)).excl => n = Req(unode(b)).qty, Bid(b).excl => n = Bid(b).qty
  PROVE  excl_val(b) = n
<1>1. b \in BidIds
  BY DEF StageInv
<1>2. /\ Bid(b).qty \in Nat /\ Bid(b).excl \in BOOLEAN /\ unode(b) \in RequestIds
      /\ Req(unode(b)).qty \in Nat /\ Req(unode(b)).excl \in BOOLEAN
  BY <1>1, Typing DEF NodesTyped
<1> DEFINE x == Bid(b).qty
           y == Req(unode(b)).qty
           u == Bid(b).excl
           v == Req(unode(b)).excl
<1>3. /\ excl_val(b) = IF v /\ u THEN IF y = x THEN y ELSE 0
                       ELSE IF v THEN IF x >= y THEN y ELSE 0
                       ELSE IF x <= y THEN x ELSE 0
      /\ v \/ u
  BY DEF excl_val, exclusive
<1>4. /\ x \in Nat /\ y \in Nat /\ u \in BOOLEAN /\ v \in BOOLEAN
      /\ n <= x /\ n <= y /\ (v => n = y) /\ (u => n = x)
  BY <1>2
<1> HIDE DEF x, y, u, v
<1> QED
  BY <1>3, <1>4

\* A turn of GreedilySatisfySet leaves its arc nothing it could have had
\* beside the arcs of the turns so far.
LEMMA TurnFills ==
  ASSUME StageInv, NEW b \in arcs, flow[b] = 0, CapsLeft(flow, req_caps, bid_caps),
         Overdrawn(bid_caps), ToMatch(b) \in Int, NEW d \in Nat,
         ToMatch(b) > 0 => d = ToMatch(b), ~(ToMatch(b) > 0) => d = 0,
         NEW g, Bumped(flow, g, b, d), NEW S \in SUBSET arcs, b \in S,
         \A a \in arcs \ S : flow[a] = 0
  PROVE  ~Slighted(g, b, S)
<1> SUFFICES ASSUME NEW n \in 1..Bid(b).qty,
                    Req(unode(b)).excl => n = Req(unode(b)).qty, Bid(b).excl => n = Bid(b).qty,
                    exclusive(b) => g[b] = 0, Room(g, b, S, n)
             PROVE  FALSE
  BY DEF Slighted
<1>1. b \in BidIds /\ NodesTyped /\ (\A a \in arcs : flow[a] \in Nat) /\ Whole(flow)
  BY Typing DEF StageInv, Whole
<1>2. /\ Bid(b).qty \in Nat /\ unode(b) \in RequestIds /\ Req(unode(b)).qty \in Nat
      /\ n \in Nat \ {0} /\ n <= Bid(b).qty
  BY <1>1 DEF NodesTyped
<1>3. Whole(g) /\ g[b] = d
  BY <1>1 DEF Bumped, Whole
<1>4. ASSUME NEW P \in SUBSET arcs, b \in P
      PROVE  Share(flow, b, arcs, P) + d <= Share(g, b, S, P)
  <2>1. (arcs \cup {b}) \cap P = P /\ (S \cup {b}) \cap P = S \cap P /\ S \cap P \in SUBSET arcs
    OBVIOUS
  <2>2. Over(flow, S \cap P) \in Int /\ Over(g, S \cap P) = Over(flow, S \cap P) + d
    BY <1>1, <1>4, <2>1, OverBumped
  <2>3. Over(flow, S \cap P) = Over(flow, P)
    BY <1>4, OverConsidered
  <2> QED
    BY <2>1, <2>2, <2>3 DEF Share
<1>5. Room(flow, b, arcs, n + d)
  <2>1. arcs \in SUBSET arcs /\ n \in Int /\ d \in Int /\ flow[b] + d = g[b]
    BY <1>2, <1>3
  <2> QED
    BY <1>1, <1>3, <1>4, <2>1, RoomShift
<1>6. Quota(b) \in Int /\ n + d <= Quota(b)
  <2>1. n + d \in Nat \ {0}
    BY <1>2
  <2> QED
    BY <1>5, <2>1, Least
<1>7. ToMatch(b) = IF ~exclusive(b) THEN Quota(b)
                   ELSE IF Quota(b) < excl_val(b) THEN 0 ELSE excl_val(b)
  BY DEF ToMatch, Quota
<1>8. CASE ~exclusive(b)
  BY <1>2, <1>6, <1>7, <1>8
<1>9. CASE exclusive(b)
  <2>1. d = 0
    BY <1>3, <1>9
  <2>2. n <= Req(unode(b)).qty
    <3>1. ArcsOf(unode(b)) \in SUBSET arcs
      BY DEF ArcsOf
    <3>2. (arcs \cup {b}) \cap ArcsOf(unode(b)) \in SUBSET arcs
      BY <3>1
    <3>3. Share(flow, b, arcs, ArcsOf(unode(b))) \in Nat
      BY <1>1, <3>2, OverNat DEF Share
    <3>4. n + d <= Req(unode(b)).qty - Share(flow, b, arcs, ArcsOf(unode(b)))
      BY <1>5, RoomParts
    <3> QED
      BY <1>2, <2>1, <3>3, <3>4
  <2>3. excl_val(b) = n
    BY <1>2, <1>9, <2>2, WholeIsExclVal
  <2>4. ToMatch(b) = n
    BY <1>2, <1>6, <1>7, <1>9, <2>1, <2>3
  <2> QED
    BY <1>2, <2>1, <2>4
<1> QED
  BY <1>8, <1>9

\* An arc that is slighted beside more arcs is so beside fewer.
LEMMA FewerArcs ==
  ASSUME StageInv, NEW c \in arcs, NEW S \in SUBSET arcs, NEW T \in SUBSET arcs,
         S \subseteq T, Slighted(flow, c, T)
  PROVE  Slighted(flow, c, S)
<1>1. PICK n \in 1..Bid(c).qty :
        /\ Req(unode(c)).excl => n = Req(unode(c)).qty
        /\ Bid(c).excl => n = Bid(c).qty
        /\ exclusive(c) => flow[c] = 0
        /\ Room(flow, c, T, n)
  BY DEF Slighted
<1>2. (\A a \in arcs : flow[a] \in Nat) /\ Whole(flow)
  BY DEF StageInv, Whole
<1>3. ASSUME NEW P \in SUBSET arcs
      PROVE  Share(flow, c, S, P) + 0 <= Share(flow, c, T, P)
  <2> DEFINE Q == (S \cup {c}) \cap P
             R == (T \cup {c}) \cap P
  <2>1. Q \in SUBSET R /\ R \in SUBSET arcs /\ Q \in SUBSET arcs
    OBVIOUS
  <2>2. IsFiniteSet(R) /\ \A x \in R : flow[x] \in Nat
    BY <1>2, <2>1, ArcsFinite
  <2>3. Share(flow, c, S, P) = Over(flow, Q) /\ Share(flow, c, T, P) = Over(flow, R)
    BY DEF Share
  <2> HIDE DEF Q, R
  <2>4. Total(flow, Q) <= Total(flow, R)
    BY <2>1, <2>2, TotalSubset
  <2>5. Over(flow, Q) \in Nat
    BY <1>2, <2>1, OverNat
  <2> QED
    BY <2>3, <2>4, <2>5, OverTotal
<1>4. flow[c] + 0 = flow[c] /\ n \in Int /\ 0 \in Int
  BY <1>2
<1>5. Room(flow, c, S, n + 0)
  BY <1>1, <1>2, <1>3, <1>4, RoomShift
<1>6. n + 0 = n
  OBVIOUS
<1> QED
  BY <1>1, <1>5, <1>6 DEF Slighted

\* The turn of another arc does not matter to what was left before.
LEMMA EarlierTurns ==
  ASSUME StageInv, NEW c \in arcs, NEW S \in SUBSET arcs, c \in S, NEW g, Whole(g),
         \A a \in S : g[a] = flow[a], Slighted(g, c, S)
  PROVE  Slighted(flow, c, S)
<1>1. PICK n \in 1..Bid(c).qty :
        /\ Req(unode(c)).excl => n = Req(unode(c)).qty
        /\ Bid(c).excl => n = Bid(c).qty
        /\ exclusive(c) => g[c] = 0
        /\ Room(g, c, S, n)
  BY DEF Slighted
<1>2. (\A a \in arcs : flow[a] \in Nat) /\ Whole(flow)
  BY DEF StageInv, Whole
<1>3. ASSUME NEW P \in SUBSET arcs
      PROVE  Share(flow, c, S, P) + 0 <= Share(g, c, S, P)
  <2> DEFINE Q == (S \cup {c}) \cap P
  <2>1. Q \in SUBSET arcs /\ \A x \in Q : flow[x] = g[x]
    OBVIOUS
  <2>2. Share(flow, c, S, P) = Over(flow, Q) /\ Share(g, c, S, P) = Over(g, Q)
    BY DEF Share
  <2> HIDE DEF Q
  <2>3. IsFiniteSet(Q)
    BY <2>1, ArcsFinite
  <2>4. Total(flow, Q) = Total(g, Q)
    BY <2>1, <2>3, TotalCong
  <2>5. Over(flow, Q) \in Nat
    BY <1>2, <2>1, OverNat
  <2> QED
    BY <2>2, <2>4, <2>5, OverTotal
<1>4. flow[c] + 0 = g[c] /\ n \in Int /\ 0 \in Int
  BY <1>2
<1>5. Room(flow, c, S, n + 0)
  BY <1>1, <1>2, <1>3, <1>4, RoomShift
<1>6. n + 0 = n /\ g[c] = flow[c]
  OBVIOUS
<1> QED
  BY <1>1, <1>5, <1>6 DEF Slighted

\* At the end every arc has had its turn: none is slighted for one that its
\* request prefers less, for a lighter portfolio or for a request of lower rank.
LEMMA InOrder ==
  ASSUME StageInv, MatchInv, OrderInv, phase = "solve", Pending = {}
  PROVE  \A b \in arcs : ~Slighted(flow, b, NotLessPreferred(b)) /\ ~Slighted(flow, b, NotLighter(b))
                           /\ ~Slighted(flow, b, NotOutranked(b))
<1> SUFFICES ASSUME NEW b \in arcs
             PROVE  ~Slighted(flow, b, NotLessPreferred(b)) /\ ~Slighted(flow, b, NotLighter(b))
                    /\ ~Slighted(flow, b, NotOutranked(b))
  OBVIOUS
<1>1. considered \in Seq(arcs) /\ GreedyLimits(flow) /\ InTurn(flow, considered)
  BY DEF StageInv, MatchInv, OrderInv
<1>2. DOMAIN considered = 1..Len(considered) /\ Len(considered) \in Nat
      /\ \A k \in DOMAIN considered : considered[k] \in arcs
  BY <1>1, SeqOf
<1>3. PICK k \in DOMAIN considered : considered[k] = b
  <2>1. b \in BidIds /\ NodesTyped
    BY Typing DEF StageInv
  <2>2. GroupOf(b) \in DOMAIN requests
    BY <2>1 DEF NodesTyped
  <2>3. Match(GroupOf(b)) <= PortfolioQty(requests[GroupOf(b)])
    BY <1>1, <2>2, FlowOver DEF GreedyLimits, Match, Matched
  <2>4. b \notin Pending
    OBVIOUS
  <2> QED
    BY <2>3, <2>4 DEF Pending
<1> DEFINE S == Upto(considered, k)
<1>4. S \in SUBSET arcs /\ k \in Nat
  BY <1>2, <1>3 DEF Upto
<1>5. ~Slighted(flow, b, S)
  BY <1>1, <1>3 DEF InTurn
<1>6. ASSUME NEW a \in S, a # b
      PROVE  ~Sooner(b, a)
  <2>1. PICK j \in 1..k : considered[j] = a
    BY DEF Upto
  <2>2. j \in DOMAIN considered /\ j < k
    BY <1>2, <1>3, <1>6, <2>1
  <2>3. b \notin Upto(considered, j)
    <3>1. ASSUME NEW i \in 1..j PROVE considered[i] # b
      <4>1. i \in DOMAIN considered /\ i # k
        BY <1>2, <1>3, <2>2
      <4> QED
        BY <1>1, <1>3, <4>1 DEF InTurn
    <3> QED
      BY <3>1 DEF Upto
  <2> QED
    BY <1>1, <2>1, <2>2, <2>3 DEF InTurn
<1>7. S \ {b} \subseteq NotLessPreferred(b) /\ S \ {b} \subseteq NotLighter(b)
      /\ S \ {b} \subseteq NotOutranked(b)
  <2> SUFFICES ASSUME NEW a \in S, a # b
               PROVE  a \in NotLessPreferred(b) /\ a \in NotLighter(b) /\ a \in NotOutranked(b)
    OBVIOUS
  <2>1. ~Sooner(b, a) /\ a \in arcs
    BY <1>4, <1>6
  <2>2. ~GroupBefore(GroupOf(b), GroupOf(a))
    BY <2>1 DEF Sooner
  <2>3. unode(a) = unode(b) => ~ReqPrefComp(b, a)
    BY <2>1 DEF Sooner, GroupOf
  <2>4. a \in NotLighter(b)
    BY <2>1, <2>2 DEF GroupBefore, NotLighter
  <2>5. a \in NotLessPreferred(b)
    BY <2>1, <2>3 DEF ReqPrefComp, NotLessPreferred
  <2>6. a \in NotOutranked(b)
    BY <2>1 DEF Sooner, NodeBefore, NotOutranked, Outranks
  <2> QED
    BY <2>4, <2>5, <2>6
<1>8. ASSUME NEW T \in SUBSET arcs, S \ {b} \subseteq T, Slighted(flow, b, T)
      PROVE  FALSE
  <2>1. S \ {b} \in SUBSET arcs
    BY <1>4
  <2>2. Slighted(flow, b, S \ {b})
    BY <1>8, <2>1, FewerArcs
  <2>3. (S \ {b}) \cup {b} = S \cup {b}
    OBVIOUS
  <2>4. Slighted(flow, b, S)
    BY <2>2, <2>3 DEF Slighted, Room
  <2> QED
    BY <1>5, <2>4
<1>9. NotLessPreferred(b) \in SUBSET arcs /\ NotLighter(b) \in SUBSET arcs
      /\ NotOutranked(b) \in SUBSET arcs
  BY DEF NotLessPreferred, NotLighter, NotOutranked
<1> QED
  BY <1>7, <1>8, <1>9

\* std::min_element is at most every number, unless the first is not one.
LEMMA MinElementBelow ==
  ASSUME NEW s, 1 \in DOMAIN s, IsFiniteSet(DOMAIN s), \A i \in DOMAIN s : s[i] \in Int \cup {NaN},
         s[1] # NaN
  PROVE  MinElement(s) \in Int /\ \A i \in DOMAIN s : s[i] \in Int => MinElement(s) <= s[i]
<1> DEFINE I == {s[i] : i \in DOMAIN s}
           J == I \ {NaN}
<1>1. IsFiniteSet(I)
  BY ImageFinite
<1>2. J \in SUBSET I /\ J \subseteq Int /\ s[1] \in J
  OBVIOUS
<1>3. IsFiniteSet(J)
  <2> HIDE DEF I, J
  <2> QED
    BY <1>1, <1>2, FS_Subset
<1>4. MinElement(s) = Min(J)
  BY DEF MinElement
<1>5. Min(J) \in J /\ \A y \in J : Min(J) <= y
  <2> HIDE DEF J
  <2> QED
    BY <1>2, <1>3, LeastOf
<1>6. \A i \in DOMAIN s : s[i] \in Int => s[i] \in J
  BY BooksAssumption
<1> HIDE DEF J
<1> QED
  BY <1>2, <1>4, <1>5, <1>6

\* A match is within every constraint its bid draws on, unless the first
\* constraint is used up and not drawn on.
LEMMA BehindFirst ==
  ASSUME StageInv, NEW b \in arcs, CapsLeft(flow, req_caps, bid_caps), ToMatch(b) > 0,
         ~(bid_caps[b[1]][1] = 0 /\ Bid(b).units[1] = 0)
  PROVE  \A i \in DOMAIN bids[b[1]].caps : Bid(b).units[i] = 1 => ToMatch(b) <= bid_caps[b[1]][i]
<1> DEFINE units == Bid(b).units
           left  == Bid(b).qty - flow[b]
           bc    == bid_caps[b[1]]
           caps  == [i \in DOMAIN units |-> Quotient(bc[i], units[i])]
           room  == Req(unode(b)).qty - Over(flow, ArcsOf(unode(b)))
           remain == PortfolioQty(requests[GroupOf(b)]) - Match(GroupOf(b))
<1>1. /\ b \in BidIds /\ NodesTyped /\ (\A a \in arcs : flow[a] \in Nat) /\ Supplied(bid_caps)
      /\ ToMatch(b) \in Int
  BY Typing, CapsSupplied, ToMatchOf DEF StageInv
<1>2. /\ b[1] \in DOMAIN bids /\ Bid(b).qty \in Nat /\ units \in Seq({0, 1})
      /\ DOMAIN units = DOMAIN bids[b[1]].caps
      /\ unode(b) \in RequestIds /\ Req(unode(b)).qty \in Nat
      /\ GroupOf(b) \in DOMAIN requests /\ PortfolioQty(requests[GroupOf(b)]) \in Nat
  BY <1>1 DEF NodesTyped
<1>3. left \in Int
  BY <1>1, <1>2
<1>4. /\ BidCapacity(b) = IF units = <<>> THEN left ELSE StdMin(MinElement(caps), left)
      /\ ToMatch(b) = IF ~exclusive(b) THEN Quota(b)
                      ELSE IF Quota(b) < excl_val(b) THEN 0 ELSE excl_val(b)
      /\ Quota(b) = StdMin(remain, Capacity(b))
  BY DEF BidCapacity, ToMatch, Quota
<1>5. \A i \in DOMAIN units : bc[i] \in Int
  BY <1>1, <1>2 DEF Supplied
<1>6. RequestCapacity(b) \in Int /\ remain \in Int
  <2>1. Members(b) \in SUBSET arcs /\ ArcsOf(unode(b)) \in SUBSET arcs
    BY DEF ArcsOf, Members
  <2>2. Over(flow, Members(b)) \in Nat /\ room \in Int
    BY <1>1, <1>2, <2>1, OverNat
  <2>3. Match(GroupOf(b)) = Over(flow, Members(b)) /\ Matched(flow, GroupOf(b)) = Over(flow, Members(b))
    BY FlowOver DEF Match, Matched, Members
  <2>4. req_caps[GroupOf(b)] \in Int
    BY <1>2, <2>2, <2>3 DEF CapsLeft
  <2>5. RequestCapacity(b) = Min({req_caps[GroupOf(b)], room})
    BY FlowOver DEF RequestCapacity
  <2> HIDE DEF room
  <2>6. RequestCapacity(b) \in Int
    BY <2>2, <2>4, <2>5, MinPair
  <2> QED
    BY <1>2, <2>2, <2>3, <2>6
<1> SUFFICES ASSUME NEW i \in DOMAIN units, units[i] = 1
             PROVE  ToMatch(b) <= bc[i]
  BY <1>2
<1>7. units # <<>>
  OBVIOUS
<1>8. 1 \in DOMAIN units /\ IsFiniteSet(DOMAIN units) /\ \A j \in DOMAIN units : units[j] \in {0, 1}
  <2> HIDE DEF units
  <2>1. DOMAIN units = 1..Len(units) /\ Len(units) \in Nat /\ IsFiniteSet(DOMAIN units)
    BY <1>2, SeqOf
  <2>2. 1 \in DOMAIN units
    BY <2>1
  <2> QED
    BY <1>2, <2>1, <2>2, SeqOf
<1>9. DOMAIN caps = DOMAIN units /\ \A j \in DOMAIN units : caps[j] = Quotient(bc[j], units[j])
  OBVIOUS
<1>10. ~(bc[1] = 0 /\ units[1] = 0)
  OBVIOUS
<1> HIDE DEF caps, units, left, bc, remain
<1>11. \A j \in DOMAIN caps : caps[j] \in Int \cup {NaN}
  BY <1>5, <1>8, <1>9, QuotientOf
<1>12. caps[1] # NaN
  <2>1. bc[1] \in Int /\ caps[1] = Quotient(bc[1], units[1]) /\ units[1] \in {0, 1}
    BY <1>5, <1>8, <1>9
  <2>2. CASE units[1] = 1
    BY <2>1, <2>2, QuotientOf, BooksAssumption
  <2>3. CASE units[1] = 0
    <3>1. bc[1] # 0
      BY <1>10, <2>3
    <3>2. Quotient(bc[1], 0) \in {Unlimited, -Unlimited}
      BY <2>1, <3>1 DEF Quotient
    <3>3. Unlimited \in Int /\ -Unlimited \in Int
      BY UnlimitedAssumption
    <3> QED
      BY <2>1, <2>3, <3>2, <3>3, BooksAssumption
  <2> QED
    BY <2>1, <2>2, <2>3
<1>13. caps[i] = bc[i] /\ bc[i] \in Int
  BY <1>5, <1>9, QuotientOf
<1>14. MinElement(caps) \in Int /\ MinElement(caps) <= bc[i]
  BY <1>8, <1>9, <1>11, <1>12, <1>13, MinElementBelow
<1>15. BidCapacity(b) \in Int /\ BidCapacity(b) <= MinElement(caps)
  BY <1>3, <1>4, <1>7, <1>14, StdMinOf
<1>16. Capacity(b) \in Int /\ Capacity(b) <= BidCapacity(b)
  BY <1>6, <1>15, StdMinOf DEF Capacity
<1>17. Quota(b) \in Int /\ Quota(b) <= Capacity(b)
  BY <1>4, <1>6, <1>16, StdMinOf
<1>18. excl_val(b) \in Nat
  BY ExclVal
<1>19. ToMatch(b) <= Quota(b)
  BY <1>1, <1>4, <1>17, <1>18
<1> QED
  BY <1>1, <1>13, <1>14, <1>15, <1>16, <1>17, <1>19

\* A match overdraws a constraint only behind a first one that is used up.
LEMMA OverdrawnKept ==
  ASSUME StageInv, NEW b \in arcs, CapsLeft(flow, req_caps, bid_caps), Overdrawn(bid_caps),
         ToMatch(b) > 0, NEW bc,
         bc = [bid_caps EXCEPT ![b[1]] = UpdateCapacity(@, Bid(b).units, ToMatch(b))]
  PROVE  Overdrawn(bc)
<1> SUFFICES ASSUME NEW q \in DOMAIN bids, NEW i \in DOMAIN bids[q].caps, bc[q][i] < 0
             PROVE  bc[q][1] = 0
  BY DEF Overdrawn
<1>1. /\ b \in BidIds /\ NodesTyped /\ Supplied(bid_caps) /\ ToMatch(b) \in Int
      /\ DOMAIN bid_caps = DOMAIN bids
  BY Typing, CapsSupplied, ToMatchOf DEF StageInv, CapsLeft
<1>2. /\ b[1] \in DOMAIN bids /\ Bid(b).units \in Seq({0, 1})
      /\ DOMAIN Bid(b).units = DOMAIN bids[b[1]].caps
  BY <1>1 DEF NodesTyped
<1>3. CASE q # b[1]
  <2>1. bc[q] = bid_caps[q]
    BY <1>1, <1>3
  <2> QED
    BY <2>1 DEF Overdrawn
<1>4. CASE q = b[1]
  <2> DEFINE c == bid_caps[b[1]]
             u == Bid(b).units
             x == ToMatch(b)
  <2>1. DOMAIN c = DOMAIN u /\ \A j \in DOMAIN u : c[j] \in Int /\ u[j] \in {0, 1}
    <3>1. \A j \in DOMAIN u : u[j] \in {0, 1}
      BY <1>2, SeqOf
    <3> QED
      BY <1>1, <1>2, <3>1 DEF Supplied
  <2>2. bc[b[1]] = UpdateCapacity(c, u, x)
    BY <1>1, <1>2
  <2>3. \A j \in DOMAIN u : bc[b[1]][j] = IF c[j] = Unlimited THEN Unlimited ELSE c[j] - x * u[j]
    BY <2>1, <2>2 DEF UpdateCapacity
  <2>4. 1 \in DOMAIN u /\ i \in DOMAIN u
    <3>1. i \in DOMAIN u
      BY <1>2, <1>4
    <3>2. DOMAIN u = 1..Len(u) /\ Len(u) \in Nat
      <4> HIDE DEF u
      <4> QED
        BY <1>2, SeqOf DEF u
    <3> QED
      BY <3>1, <3>2
  <2>5. (\A j \in DOMAIN u : c[j] < 0 => c[1] = 0)
    BY <1>2 DEF Overdrawn
  <2>6. ~(c[1] = 0 /\ u[1] = 0) => \A j \in DOMAIN u : u[j] = 1 => x <= c[j]
    BY <1>2, BehindFirst
  <2>7. x \in Int /\ x > 0 /\ bc[b[1]][i] < 0 /\ Unlimited \in Nat \ {0}
    BY <1>1, <1>4, UnlimitedAssumption
  <2> HIDE DEF c, u, x
  <2>8. c[1] = 0 /\ u[1] = 0
    <3> SUFFICES ASSUME ~(c[1] = 0 /\ u[1] = 0) PROVE FALSE
      OBVIOUS
    <3>1. \A j \in DOMAIN u : u[j] = 1 => x <= c[j]
      BY <2>6
    <3>2. c[i] # Unlimited /\ bc[b[1]][i] = c[i] - x * u[i]
      BY <2>3, <2>4, <2>7
    <3>3. CASE u[i] = 1
      BY <2>1, <2>4, <2>7, <3>1, <3>2, <3>3
    <3>4. CASE u[i] = 0
      <4>1. c[i] < 0
        BY <2>1, <2>4, <2>7, <3>2, <3>4
      <4>2. c[1] = 0
        BY <2>4, <2>5, <4>1
      <4>3. u[1] = 1
        BY <2>1, <2>4, <4>2
      <4> QED
        BY <2>4, <2>7, <3>1, <4>2, <4>3
    <3> QED
      BY <2>1, <2>4, <3>3, <3>4
  <2>9. bc[b[1]][1] = 0
    BY <2>3, <2>4, <2>7, <2>8
  <2> QED
    BY <1>4, <2>9
<1> QED
  BY <1>3, <1>4

\* A turn adds its arc to those that have had theirs.
LEMMA UptoAppended ==
  ASSUME NEW T, NEW s \in Seq(T), NEW e \in T
  PROVE  /\ DOMAIN s = 1..Len(s) /\ Len(s) \in Nat
         /\ DOMAIN Append(s, e) = 1..(Len(s) + 1) /\ Append(s, e)[Len(s) + 1] = e
         /\ \A k \in DOMAIN s : Append(s, e)[k] = s[k] /\ Upto(Append(s, e), k) = Upto(s, k)
         /\ Upto(Append(s, e), Len(s) + 1) = Upto(s, Len(s)) \cup {e}
<1> DEFINE t == Append(s, e)
<1>1. /\ DOMAIN s = 1..Len(s) /\ Len(s) \in Nat /\ DOMAIN t = 1..(Len(s) + 1)
      /\ t[Len(s) + 1] = e /\ \A k \in 1..Len(s) : t[k] = s[k]
  OBVIOUS
<1> HIDE DEF t
<1>2. ASSUME NEW k \in DOMAIN s PROVE Upto(t, k) = Upto(s, k)
  <2>1. \A j \in 1..k : j \in 1..Len(s)
    BY <1>1
  <2>2. \A j \in 1..k : t[j] = s[j]
    BY <1>1, <2>1
  <2> QED
    BY <2>2 DEF Upto
<1>3. Upto(t, Len(s) + 1) = Upto(s, Len(s)) \cup {e}
  <2>1. 1..(Len(s) + 1) = (1..Len(s)) \cup {Len(s) + 1}
    BY <1>1
  <2> QED
    BY <1>1, <2>1 DEF Upto
<1> QED
  BY <1>1, <1>2, <1>3 DEF t

\* A turn of GreedilySatisfySet keeps the order.
LEMMA TurnInOrder ==
  ASSUME StageInv, MatchInv, OrderInv, NEW b \in Pending, ConsiderArc(b), phase' = "solve"
  PROVE  InTurn(flow', considered') /\ Overdrawn(bid_caps')
<1>1. /\ phase = "solve" /\ b \in arcs /\ flow[b] = 0
      /\ GreedyLimits(flow) /\ CapsLeft(flow, req_caps, bid_caps)
      /\ ToMatch(b) \in Int /\ considered' = Append(considered, b)
  BY Turns
<1>2. InTurn(flow, considered) /\ Overdrawn(bid_caps)
  BY <1>1 DEF OrderInv
<1>3. considered \in Seq(arcs) /\ DOMAIN flow = arcs /\ \A a \in arcs : flow[a] \in Nat
  BY DEF StageInv
<1> DEFINE s == considered
           t == considered'
           n == Len(considered)
           S == Upto(s, n) \cup {b}
<1>4. /\ DOMAIN s = 1..n /\ n \in Nat /\ DOMAIN t = 1..(n + 1) /\ t[n + 1] = b
      /\ \A k \in DOMAIN s : t[k] = s[k] /\ Upto(t, k) = Upto(s, k)
      /\ Upto(t, n + 1) = S
  BY <1>1, <1>3, UptoAppended
<1>5. (\A k \in DOMAIN s : s[k] # b /\ s[k] \in arcs) /\ \A a \in Pending : ~Sooner(a, b)
  <2>1. \A k \in DOMAIN s : s[k] # b
    BY DEF Pending
  <2>2. \A k \in DOMAIN s : s[k] \in arcs
    BY <1>3, SeqOf
  <2> QED
    BY <2>1, <2>2 DEF ConsiderArc
<1>6. S \in SUBSET arcs /\ b \in S /\ \A k \in DOMAIN s : Upto(s, k) \in SUBSET arcs /\ s[k] \in Upto(s, k)
                                                         /\ b \notin Upto(s, k)
  <2>1. ASSUME NEW k \in Nat, k <= n
        PROVE  Upto(s, k) \in SUBSET arcs /\ b \notin Upto(s, k) /\ (k > 0 => s[k] \in Upto(s, k))
    <3>1. \A j \in 1..k : j \in DOMAIN s
      BY <1>4, <2>1
    <3>2. k > 0 => k \in 1..k
      BY <2>1
    <3> QED
      BY <1>5, <3>1, <3>2 DEF Upto
  <2>2. n <= n
    BY <1>4
  <2>3. \A k \in DOMAIN s : k \in Nat /\ k <= n /\ k > 0
    BY <1>4
  <2> QED
    BY <1>1, <1>4, <2>1, <2>2, <2>3
<1>7. \A a \in arcs \ S : a \in Pending /\ flow[a] = 0
  <2> SUFFICES ASSUME NEW a \in arcs, a \notin S
               PROVE  a \in Pending /\ flow[a] = 0
    OBVIOUS
  <2>1. \A k \in DOMAIN s : s[k] # a
    BY <1>4 DEF Upto
  <2>2. flow[a] = 0
    BY <1>1, <2>1 DEF MatchInv
  <2>3. a \in BidIds /\ NodesTyped
    BY Typing DEF StageInv
  <2>4. GroupOf(a) \in DOMAIN requests
    BY <2>3 DEF NodesTyped
  <2>5. Match(GroupOf(a)) <= PortfolioQty(requests[GroupOf(a)])
    BY <1>1, <2>4, FlowOver DEF GreedyLimits, Match, Matched
  <2> QED
    BY <2>1, <2>2, <2>5 DEF Pending
<1>8. \/ /\ ~(ToMatch(b) > 0) /\ flow' = flow /\ bid_caps' = bid_caps
      \/ /\ ToMatch(b) > 0 /\ flow' = [flow EXCEPT ![b] = @ + ToMatch(b)]
         /\ bid_caps' = [bid_caps EXCEPT ![b[1]] = UpdateCapacity(@, Bid(b).units, ToMatch(b))]
  <2> DEFINE qty == ToMatch(b)
  <2>1. \/ qty <= 0 /\ flow' = flow /\ bid_caps' = bid_caps
        \/ /\ qty > 0 /\ flow' = [flow EXCEPT ![b] = @ + qty]
           /\ bid_caps' = [bid_caps EXCEPT ![b[1]] = UpdateCapacity(@, Bid(b).units, qty)]
    BY DEF ConsiderArc
  <2>2. qty \in Int
    BY <1>1
  <2> HIDE DEF qty
  <2>3. qty <= 0 => ~(qty > 0)
    BY <2>2
  <2> QED
    BY <2>1, <2>3 DEF qty
<1>9. Overdrawn(bid_caps')
  BY <1>1, <1>2, <1>8, OverdrawnKept
<1> DEFINE d == IF ToMatch(b) > 0 THEN ToMatch(b) ELSE 0
<1>10. d \in Nat /\ (ToMatch(b) > 0 => d = ToMatch(b)) /\ (~(ToMatch(b) > 0) => d = 0)
  BY <1>1
<1>11. Bumped(flow, flow', b, d) /\ Whole(flow')
  <2>1. CASE ~(ToMatch(b) > 0) /\ flow' = flow
    BY <1>3, <1>10, <2>1 DEF Bumped, Whole
  <2>2. CASE ToMatch(b) > 0 /\ flow' = [flow EXCEPT ![b] = @ + ToMatch(b)]
    BY <1>1, <1>3, <1>10, <2>2 DEF Bumped, Whole
  <2> QED
    BY <1>8, <2>1, <2>2
<1> HIDE DEF d
<1>12. ~Slighted(flow', b, S)
  BY <1>1, <1>2, <1>6, <1>7, <1>10, <1>11, TurnFills
<1>13. ASSUME NEW k \in DOMAIN s
       PROVE  ~Slighted(flow', s[k], Upto(s, k))
  <2>1. \A a \in Upto(s, k) : flow'[a] = flow[a]
    BY <1>6, <1>11 DEF Bumped
  <2>2. ~Slighted(flow, s[k], Upto(s, k))
    BY <1>2 DEF InTurn
  <2> HIDE DEF s
  <2> QED
    BY <1>5, <1>6, <1>11, <2>1, <2>2, EarlierTurns
<1>14. \A k \in DOMAIN t : k \in DOMAIN s \/ k = n + 1
  BY <1>4
<1>15. ASSUME NEW j \in DOMAIN t, NEW k \in DOMAIN t, t[j] = t[k]
       PROVE  j = k
  BY <1>2, <1>4, <1>5, <1>14, <1>15 DEF InTurn
<1>16. ASSUME NEW k \in DOMAIN t
       PROVE  ~Slighted(flow', t[k], Upto(t, k)) /\ \A a \in arcs \ Upto(t, k) : ~Sooner(a, t[k])
  <2>1. CASE k \in DOMAIN s
    <3>1. t[k] = s[k] /\ Upto(t, k) = Upto(s, k)
      BY <1>4, <2>1
    <3>2. \A a \in arcs \ Upto(s, k) : ~Sooner(a, s[k])
      BY <1>2, <2>1 DEF InTurn
    <3> QED
      BY <1>13, <2>1, <3>1, <3>2
  <2>2. CASE k = n + 1
    <3>1. t[k] = b /\ Upto(t, k) = S
      BY <1>4, <2>2
    <3> QED
      BY <1>5, <1>7, <1>12, <3>1
  <2> QED
    BY <1>14, <2>1, <2>2
<1> QED
  BY <1>9, <1>15, <1>16 DEF InTurn

-----------------------------------------------------------------------------
(* The order depends on the books, the arcs and the preferences, which the  *)
(* solver leaves alone.                                                     *)

\* The order of two arcs.
LEMMA SoonerPrime ==
  ASSUME Fixed
  PROVE  \A b, k : Sooner(b, considered[k])' = Sooner(b, considered'[k])
  BY DEF Fixed, Sooner, GroupBefore, NodeBefore, ReqPrefComp, Bidder, GroupOf, AvgPrefGreater,
         FracGreater, GroupWeight, SumPref, NodeWeight, ArcsOf, unode, Bid, Req, Weight,
         MapThenSumSet, MapThenFoldSet

\* The room beside some arcs.
LEMMA SlightedPrime ==
  ASSUME Fixed
  PROVE  \A k : Slighted(flow, considered[k], Upto(considered, k))'
                  = Slighted(flow', considered'[k], Upto(considered', k))
  BY DEF Fixed, Slighted, Room, Over, exclusive, PortfolioQty, GroupOf, ArcsOf, unode, Bid, Req,
         Upto, MapThenSumSet, MapThenFoldSet

\* What InTurn and Overdrawn say of the new matches, they say in the new state.
LEMMA InTurnPrime ==
  ASSUME Fixed, InTurn(flow', considered'), Overdrawn(bid_caps')
  PROVE  InTurn(flow, considered)' /\ Overdrawn(bid_caps)'
<1>1. arcs' = arcs /\ \A k : Upto(considered, k)' = Upto(considered', k)
  BY DEF Fixed, Upto
<1>2. InTurn(flow, considered)'
  BY <1>1, SoonerPrime, SlightedPrime DEF InTurn
<1>3. Overdrawn(bid_caps)'
  BY DEF Overdrawn, Fixed
<1> QED
  BY <1>2, <1>3

\* The properties as well.
LEMMA OrderPrime ==
  ASSUME Fixed, flow' = flow
  PROVE  \A b : /\ Slighted(flow, b, NotLessPreferred(b))' = Slighted(flow, b, NotLessPreferred(b))
                /\ Slighted(flow, b, NotLighter(b))' = Slighted(flow, b, NotLighter(b))
                /\ Slighted(flow, b, NotOutranked(b))' = Slighted(flow, b, NotOutranked(b))
<1>1. \A b : Slighted(flow, b, NotLessPreferred(b))' = Slighted(flow, b, NotLessPreferred(b))
  BY DEF Fixed, Slighted, Room, Over, exclusive, PortfolioQty, GroupOf, ArcsOf, unode, Bid, Req,
         NotLessPreferred, MapThenSumSet, MapThenFoldSet
<1>2. \A b : Slighted(flow, b, NotLighter(b))' = Slighted(flow, b, NotLighter(b))
  BY DEF Fixed, Slighted, Room, Over, exclusive, PortfolioQty, GroupOf, ArcsOf, unode, Bid, Req,
         NotLighter, FracGreater, GroupWeight, SumPref, NodeWeight, Weight,
         MapThenSumSet, MapThenFoldSet
<1>3. \A b : Slighted(flow, b, NotOutranked(b))' = Slighted(flow, b, NotOutranked(b))
  BY DEF Fixed, Slighted, Room, Over, exclusive, PortfolioQty, GroupOf, ArcsOf, unode, Bid, Req,
         NotOutranked, Outranks, AvgPrefGreater, FracGreater, SumPref, NodeWeight, Weight,
         MapThenSumSet, MapThenFoldSet
<1> QED
  BY <1>1, <1>2, <1>3

\* The first turn finds nothing considered and nothing overdrawn.
LEMMA OrderStart ==
  ASSUME StageInv, SolverInit
  PROVE  InTurn(flow', considered') /\ Overdrawn(bid_caps') /\ Fixed
<1>1. /\ considered' = considered /\ phase = "solver" /\ Fixed
      /\ bid_caps' = [q \in DOMAIN bids |-> bids[q].caps]
  BY DEF SolverInit, Fixed, exchange
<1>2. considered' = <<>>
  BY <1>1 DEF StageInv
<1>3. DOMAIN considered' = {}
  BY <1>2, EmptyBook
<1>4. \A q \in DOMAIN bids : \A i \in DOMAIN bids[q].caps : bids[q].caps[i] \in 0..Unlimited
  BY Typing DEF NodesTyped
<1>5. Overdrawn(bid_caps')
  <2> SUFFICES ASSUME NEW q \in DOMAIN bids, NEW i \in DOMAIN bids[q].caps, bid_caps'[q][i] < 0
               PROVE  FALSE
    BY DEF Overdrawn
  <2>1. bid_caps'[q][i] = bids[q].caps[i]
    BY <1>1
  <2> QED
    BY <1>4, <2>1, UnlimitedAssumption
<1> QED
  BY <1>1, <1>3, <1>5 DEF InTurn

\* Every step keeps the order and, once the solver has ended, the property.
LEMMA OrderStep ==
  ExchangeInv /\ OrderInv /\ OrderRespected /\ [Next]_vars => (OrderInv /\ OrderRespected)'
<1> SUFFICES ASSUME StageInv, MatchInv, TradeInv, OrderInv, OrderRespected, [Next]_vars
             PROVE  OrderInv' /\ OrderRespected'
  BY DEF ExchangeInv
<1>1. ASSUME phase' \notin {"solve", "respond"}
      PROVE  OrderInv' /\ OrderRespected'
  BY <1>1 DEF OrderInv, OrderRespected, PreferenceRespected, PriorityRespected, RankRespected, Solved
<1>2. ASSUME NEW book \in RequestBooks, AddAllRequests(book)
      PROVE  OrderInv' /\ OrderRespected'
  BY <1>1, <1>2 DEF AddAllRequests
<1>3. ASSUME NEW book \in BidBooks(requests), AddAllBids(book)
      PROVE  OrderInv' /\ OrderRespected'
  <2>1. phase' \in {"done", "adjust"}
    BY <1>3 DEF AddAllBids
  <2> QED
    BY <1>1, <2>1
<1>4. ASSUME NEW prefs, AdjustAll(prefs)
      PROVE  OrderInv' /\ OrderRespected'
  BY <1>1, <1>4 DEF AdjustAll
<1>5. CASE Translate
  <2>1. phase' \in {"error", "solver"}
    BY <1>5 DEF Translate
  <2> QED
    BY <1>1, <2>1
<1>6. CASE SolverInit
  <2>1. phase' = "solve"
    BY <1>6 DEF SolverInit
  <2>2. OrderInv'
    BY <1>6, OrderStart, InTurnPrime DEF OrderInv
  <2> QED
    BY <2>1, <2>2 DEF OrderRespected, PreferenceRespected, PriorityRespected, RankRespected, Solved
<1>7. ASSUME NEW b \in Pending, ConsiderArc(b)
      PROVE  OrderInv' /\ OrderRespected'
  <2>1. Fixed /\ phase' \in {"solve", "error"}
    BY <1>7, Turns DEF Turn
  <2>2. CASE phase' = "solve"
    <3>1. OrderInv'
      BY <1>7, <2>1, <2>2, TurnInOrder, InTurnPrime DEF OrderInv
    <3> QED
      BY <2>2, <3>1 DEF OrderRespected, PreferenceRespected, PriorityRespected, RankRespected, Solved
  <2>3. CASE phase' = "error"
    BY <1>1, <2>3
  <2> QED
    BY <2>1, <2>2, <2>3
<1>8. CASE BackTranslate
  <2>1. phase = "solve" /\ Pending = {} /\ phase' = "respond" /\ Fixed /\ flow' = flow
    BY <1>8 DEF BackTranslate, Fixed, exchange, solution
  <2>2. \A b \in arcs : ~Slighted(flow, b, NotLessPreferred(b)) /\ ~Slighted(flow, b, NotLighter(b))
                            /\ ~Slighted(flow, b, NotOutranked(b))
    BY <2>1, InOrder
  <2>3. OrderRespected'
    BY <2>1, <2>2, OrderPrime DEF OrderRespected, PreferenceRespected, PriorityRespected, RankRespected, Fixed
  <2> QED
    BY <2>1, <2>3 DEF OrderInv
<1>9. CASE SolveProg
  <2>1. solver' = "prog" /\ phase' = "respond"
    BY <1>9 DEF SolveProg, exchange
  <2> QED
    BY <2>1 DEF OrderInv, OrderRespected, PreferenceRespected, PriorityRespected, RankRespected
<1>10. ASSUME NEW u, NEW S, GetTradeResponses(u, S)
       PROVE  OrderInv' /\ OrderRespected'
  <2>1. phase' = "respond" /\ asked' # {}
    BY <1>10 DEF GetTradeResponses
  <2> QED
    BY <2>1 DEF OrderInv, OrderRespected, PreferenceRespected, PriorityRespected, RankRespected, Solved
<1>11. CASE RecordTrades
  BY <1>1, <1>11 DEF RecordTrades
<1>12. ASSUME NEW u, SendTradeResources(u)
       PROVE  OrderInv' /\ OrderRespected'
  BY <1>1, <1>12 DEF SendTradeResources
<1>13. CASE Finish
  BY <1>1, <1>13 DEF Finish
<1>14. CASE UNCHANGED vars
  <2>1. /\ Fixed /\ flow' = flow /\ considered' = considered /\ bid_caps' = bid_caps
        /\ phase' = phase /\ solver' = solver /\ asked' = asked /\ arcs' = arcs
    BY <1>14 DEF vars, Fixed, exchange, solution, trades
  <2>2. OrderInv'
    BY <2>1, InTurnPrime DEF OrderInv
  <2>3. OrderRespected'
    BY <2>1, OrderPrime DEF OrderRespected, PreferenceRespected, PriorityRespected, RankRespected, Solved
  <2> QED
    BY <2>2, <2>3
<1> QED
  BY <1>2, <1>3, <1>4, <1>5, <1>6, <1>7, <1>8, <1>9, <1>10, <1>11, <1>12, <1>13, <1>14 DEF Next

\* The greedy solver decides contention by its sorts: no bid is passed over
\* for one that the request prefers less, no request for one of its portfolio
\* of lower average preference or weight, and no portfolio for one of lower
\* conditioning weight (GreedyPreconditioner::Condition, GreedilySatisfySet).
THEOREM OrderKept == Spec => []OrderRespected
<1>1. Init => OrderInv /\ OrderRespected
  BY DEF Init, OrderInv, OrderRespected, PreferenceRespected, PriorityRespected, RankRespected, Solved
<1>2. ExchangeInv /\ OrderInv /\ OrderRespected /\ [Next]_vars => (OrderInv /\ OrderRespected)'
  BY OrderStep
<1> QED
  BY <1>1, <1>2, ExchangeInvariance, PTL DEF Spec
=============================================================================
