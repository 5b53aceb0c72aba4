-------------------------- MODULE ResourceExchange --------------------------
(***************************************************************************)
(* One resource exchange of a time step, ExchangeManager::Execute: the     *)
(* traders' requests and bids are collected and their preferences          *)
(* adjusted (resource_exchange.h, exchange_context.h), the result is       *)
(* translated to a graph (exchange_translator.h, exchange_graph.cc), the   *)
(* greedy solver conditions the graph and matches arcs                     *)
(* (greedy_preconditioner.cc, greedy_solver.cc) or the optimizing solver   *)
(* solves a mixed-integer program over them (prog_translator.cc,           *)
(* prog_solver.cc), and the matches are executed as trades                 *)
(* (trade_executor.h).                                                     *)
(*                                                                         *)
(* A request is named by its portfolio and its place there, a bid          *)
(* likewise. A bid answers one request, so a bid also names the arc        *)
(* between the two nodes. Quantities are natural numbers. The converter of *)
(* a bid portfolio's constraint maps an offer to its quantity or to        *)
(* nothing, so that unit capacities are 0 or 1 and no fractions arise.     *)
(* The constraints a request portfolio has besides the mass constraint     *)
(* that Translate adds are left out. In the greedy solver they never limit *)
(* a match, because max_element takes the largest quotient; they could     *)
(* allow more than the mass constraint, and one that is used up, comes     *)
(* first and has no unit capacity could make that quotient a NaN. In the   *)
(* program they are further lower bounds of what a portfolio gets. The     *)
(* objective value of the greedy solution, which nobody reads, is left     *)
(* out. The solver of the program is external: it returns an optimal       *)
(* solution, of whole numbers since the rows are those of a transport      *)
(* problem.                                                                *)
(***************************************************************************)
EXTENDS Integers, Sequences, FiniteSets, FiniteSetsExt

CONSTANTS RequestBooks,   \* the request portfolios the traders may post
          BidBooks(_),    \* the bid portfolios they may answer these with
          AdjustedPrefs(_), \* the preferences an adjustment may then set
          CommodWeights,  \* the preconditioner's weight of each commodity
          Solvers,        \* the solvers a simulation may be set to use
          Unlimited,      \* numeric_limits<double>::max()
          NaN             \* the quotient 0.0 / 0.0, and "no preference given"

ASSUME UnlimitedAssumption == Unlimited \in Nat \ {0}

(* Portfolios: a request for an amount of a commodity, alone or in place of *)
(* the other requests of its portfolio; a bid for one request, with the     *)
(* constraints of its portfolio that it draws on and the object offered.    *)
RequestPortfolios ==
  [requester : Int, mutual : BOOLEAN,
   reqs : Seq([qty : Nat, excl : BOOLEAN, pref : Int, commod : STRING])]

BidPortfolios ==
  [bidder : Int, caps : Seq(0..Unlimited),
   bids : Seq([request : Nat \X Nat, qty : 0..Unlimited, excl : BOOLEAN, pref : Int \cup {NaN},
               units : Seq({0, 1}), obj : Int])]

ASSUME BooksAssumption ==
  /\ NaN \notin Int
  /\ \A book \in RequestBooks :
       /\ book \in Seq(RequestPortfolios) /\ AdjustedPrefs(book) \subseteq Int
       /\ \A p \in DOMAIN book : book[p].mutual => book[p].reqs # <<>>
       /\ \A offers \in BidBooks(book) :
            /\ offers \in Seq(BidPortfolios)
            /\ \A q \in DOMAIN offers : \A k \in DOMAIN offers[q].bids :
                 Len(offers[q].bids[k].units) = Len(offers[q].caps)

VARIABLES solver,        \* the simulation's solver: "greedy" or "prog"
          phase,         \* what Execute does next
          requests,      \* ex_ctx_.requests, in the order of their traders
          bids,          \* ex_ctx_.bids
          trader_prefs,  \* the requester's preference for each bid
          arcs,          \* the arcs of the graph
          req_caps,      \* grp_caps_ of the request groups (the mass constraint)
          bid_caps,      \* grp_caps_ of the supply groups
          considered,    \* the arcs the solver is done with, in order
          flow,          \* the matches: the quantity matched on each arc
          asked,         \* the suppliers that have been asked for their trades
          responses,     \* the trades suppliers have provided a resource for
          transactions,  \* the Transactions table
          served,        \* the requesters that have been sent their resources
          accepted       \* the resources they were sent

exchange == <<solver, requests, bids, trader_prefs>>
solution == <<req_caps, bid_caps, considered, flow>>
trades   == <<asked, responses, transactions, served, accepted>>
vars     == <<phase, exchange, arcs, solution, trades>>

-----------------------------------------------------------------------------
(* Requests and bids *)

RequestIds == UNION {{p} \X DOMAIN requests[p].reqs : p \in DOMAIN requests}

BidIds == UNION {{q} \X DOMAIN bids[q].bids : q \in DOMAIN bids}

Req(r) == requests[r[1]].reqs[r[2]]

Bid(b) == bids[b[1]].bids[b[2]]

(* The request node of an arc, its portfolio, and the two traders. *)
unode(b) == Bid(b).request

GroupOf(b) == unode(b)[1]

Requester(b) == requests[GroupOf(b)].requester

Bidder(b) == bids[b[1]].bidder

(* RequestPortfolios::qty: the sum of the targets; mutual requests, which    *)
(* all have the same target, count once.                                    *)
PortfolioQty(p) ==
  IF p.mutual THEN p.reqs[1].qty
  ELSE MapThenSumSet(LAMBDA i : p.reqs[i].qty, DOMAIN p.reqs)

ArcsOf(r) == {b \in arcs : unode(b) = r}

Flow(S) == MapThenSumSet(LAMBDA b : flow[b], S)

-----------------------------------------------------------------------------
(* The order of the solver. Averages are compared without division: the     *)
(* average preference of a request is a sum over a count, and its           *)
(* conditioning weight is w * (1 + avg / (1 + avg)).                        *)

SumPref(r) == MapThenSumSet(LAMBDA b : trader_prefs[b], ArcsOf(r))

(* SumPref(l) / NL > SumPref(r) / NR, with 0 for a request without arcs.    *)
AvgPrefGreater(l, r) ==
  SumPref(l) * Max({1, Cardinality(ArcsOf(r))})
    > SumPref(r) * Max({1, Cardinality(ArcsOf(l))})

(* A commodity the preconditioner's map lacks is entered with weight 0.     *)
Weight(commod) ==
  IF DOMAIN CommodWeights = {} THEN 1
  ELSE IF commod \in DOMAIN CommodWeights THEN CommodWeights[commod] ELSE 0

(* NodeWeight of request r as a fraction. *)
NodeWeight(r) ==
  LET s == SumPref(r)
      n == Max({1, Cardinality(ArcsOf(r))})
  IN  <<Weight(Req(r).commod) * (n + 2 * s), n + s>>

FracGreater(x, y) == x[1] * y[2] > y[1] * x[2]

FracSum(x, y) == <<x[1] * y[2] + y[1] * x[2], x[2] * y[2]>>

(* GroupWeight: the average of the weights of the portfolio's requests. *)
GroupWeight(p) ==
  LET nodes == DOMAIN requests[p].reqs
      sum   == MapThenFoldSet(FracSum, <<0, 1>>, LAMBDA i : NodeWeight(<<p, i>>),
                              LAMBDA S : CHOOSE i \in S : TRUE, nodes)
  IN  <<sum[1], sum[2] * Cardinality(nodes)>>

(* Mutant: the lightest group first. *)
GroupBeforeLightest(p, o) ==
  \/ FracGreater(GroupWeight(o), GroupWeight(p))
  \/ ~FracGreater(GroupWeight(p), GroupWeight(o)) /\ p < o

(* GroupComp after Condition's stable sort: ties keep the order of the      *)
(* portfolios.                                                              *)
GroupBefore(p, o) ==
  \/ FracGreater(GroupWeight(p), GroupWeight(o))
  \/ ~FracGreater(GroupWeight(o), GroupWeight(p)) /\ p < o

(* Condition sorts the requests of a group by weight, GreedilySatisfySet    *)
(* then by average preference; both sorts are stable.                       *)
NodeBefore(l, r) ==
  \/ AvgPrefGreater(l, r)
  \/ /\ ~AvgPrefGreater(r, l)
     /\ \/ FracGreater(NodeWeight(l), NodeWeight(r))
        \/ ~FracGreater(NodeWeight(r), NodeWeight(l)) /\ l[2] < r[2]

(* ReqPrefComp: the preferred arc first, then the bidder with the larger    *)
(* id. Bids of one bidder are in a set of pointers: their order is open.    *)
ReqPrefComp(l, r) ==
  \/ trader_prefs[l] > trader_prefs[r]
  \/ trader_prefs[l] = trader_prefs[r] /\ Bidder(l) > Bidder(r)

Sooner(l, r) ==
  \/ GroupBefore(GroupOf(l), GroupOf(r))
  \/ /\ GroupOf(l) = GroupOf(r)
     /\ \/ NodeBefore(unode(l), unode(r))
        \/ unode(l) = unode(r) /\ ReqPrefComp(l, r)

-----------------------------------------------------------------------------
(* Capacities *)

(* std::min returns its first argument when they do not compare. *)
StdMin(x, y) == IF x = NaN \/ y = NaN THEN x ELSE Min({x, y})

(* std::min_element starts from the first element and moves on only to a    *)
(* smaller one.                                                             *)
MinElement(s) ==
  IF s[1] = NaN THEN NaN ELSE Min({s[i] : i \in DOMAIN s} \ {NaN})

(* grp_cap / u_cap in floating point. *)
Quotient(cap, unit) ==
  IF cap = Unlimited THEN Unlimited
  ELSE IF unit = 1 THEN cap
  ELSE IF cap = 0 THEN NaN
  ELSE IF cap > 0 THEN Unlimited ELSE -Unlimited

(* Mutant: what a request has been matched to already is forgotten.         *)
RequestCapacityForgets(b) == Min({req_caps[GroupOf(b)], Req(unode(b)).qty})

(* Capacity of the request node and of the bid node of an arc. n_qty_, the  *)
(* quantity a node is matched to already, is the flow over its arcs.        *)
RequestCapacity(b) ==
  Min({req_caps[GroupOf(b)], Req(unode(b)).qty - Flow(ArcsOf(unode(b)))})

BidCapacity(b) ==
  LET units == Bid(b).units
      left  == Bid(b).qty - flow[b]
      caps  == [i \in DOMAIN units |-> Quotient(bid_caps[b[1]][i], units[i])]
  IN  IF units = <<>> THEN left ELSE StdMin(MinElement(caps), left)

Capacity(b) == StdMin(RequestCapacity(b), BidCapacity(b))

exclusive(b) == Req(unode(b)).excl \/ Bid(b).excl

(* The quantity an exclusive arc must carry if it carries any. *)
excl_val(b) ==
  LET fqty == Req(unode(b)).qty
      sqty == Bid(b).qty
  IN  IF Req(unode(b)).excl /\ Bid(b).excl
      THEN IF fqty = sqty THEN fqty ELSE 0
      ELSE IF Req(unode(b)).excl
      THEN IF sqty >= fqty THEN fqty ELSE 0
      ELSE IF sqty <= fqty THEN sqty ELSE 0

Match(p) == Flow({b \in arcs : GroupOf(b) = p})

(* What GreedilySatisfySet matches on an arc. *)
ToMatch(b) ==
  LET remain  == PortfolioQty(requests[GroupOf(b)]) - Match(GroupOf(b))
      tomatch == StdMin(remain, Capacity(b))
  IN  IF ~exclusive(b) THEN tomatch
      ELSE IF tomatch < excl_val(b) THEN 0 ELSE excl_val(b)

UpdateCapacity(caps, units, qty) ==
  [i \in DOMAIN caps |-> IF caps[i] = Unlimited THEN Unlimited
                         ELSE caps[i] - qty * units[i]]

-----------------------------------------------------------------------------
(* The program of the optimizing solver. Costs are times Scale, so that     *)
(* they are whole.                                                          *)

Scale == 10 * FoldSet(LAMBDA p, q : p * q, 1, {trader_prefs[b] : b \in arcs})

(* ExchangeSolver::Cost of using an arc: by unit, or as a whole. *)
Cost(b) == (Scale \div trader_prefs[b]) * (IF exclusive(b) THEN excl_val(b) ELSE 1)

(* Mutant: what is not matched costs less than any arc. *)
PseudoCostLow == Min({Scale} \cup {Cost(b) : b \in arcs}) \div 10

(* A tenth above the largest cost of an arc. *)
PseudoCost ==
  LET max_cost == Max({0} \cup {Cost(b) : b \in arcs})
  IN  max_cost + max_cost \div 10

(* Mutant: the exclusive bids have no rows. *)
ExclRowsRequests == {ArcsOf(r) : r \in {x \in RequestIds : Req(x).excl}}

(* excl_node_groups: the arcs of each exclusive request, and those of the   *)
(* exclusive bids of a portfolio that offer one object.                     *)
ExclRows ==
  {ArcsOf(r) : r \in {x \in RequestIds : Req(x).excl}}
    \cup {{b \in arcs : b[1] = a[1] /\ Bid(b).obj = Bid(a).obj /\ Bid(b).excl} :
             a \in {x \in arcs : Bid(x).excl}}

(* The bounds of the variables: a divisible arc is limited by its request   *)
(* alone, an exclusive one is used or not.                                  *)
Columns ==
  {f \in [arcs -> 0..Max({0} \cup {Req(unode(b)).qty : b \in arcs})] :
     \A b \in arcs : IF exclusive(b) THEN f[b] \in {0, excl_val(b)}
                     ELSE f[b] <= Req(unode(b)).qty}

Over(f, S) == MapThenSumSet(LAMBDA b : f[b], S)

(* What f draws on constraint i of bid portfolio q, and what it matches to  *)
(* request portfolio p.                                                     *)
Drawn(f, q, i) == Over(f, {b \in arcs : b[1] = q /\ Bid(b).units[i] = 1})

Matched(f, p) == Over(f, {b \in arcs : GroupOf(b) = p})

(* Translate: the rows of the supply groups and the exclusive rows. *)
Feasible ==
  {f \in Columns :
     /\ \A q \in DOMAIN bids : \A i \in DOMAIN bids[q].caps :
           Drawn(f, q, i) <= bids[q].caps[i]
     /\ \A S \in ExclRows : Cardinality({b \in S : f[b] > 0}) <= 1}

(* The false arc of a request group with arcs makes up for what it lacks. *)
Objective(f) ==
  LET groups == {GroupOf(b) : b \in arcs}
      price  == [b \in arcs |-> (Scale \div trader_prefs[b]) * f[b]]
      lack   == [p \in groups |-> Max({0, PortfolioQty(requests[p]) - Matched(f, p)})]
  IN  Over(price, arcs) + PseudoCost * Over(lack, groups)

Optimal ==
  LET cost == [f \in Feasible |-> Objective(f)]
      best == Min({cost[f] : f \in DOMAIN cost})
  IN  {f \in DOMAIN cost : cost[f] = best}

-----------------------------------------------------------------------------
(* ExchangeManager::Execute *)

Init ==
  /\ solver \in Solvers
  /\ phase = "requests"
  /\ requests = <<>> /\ bids = <<>> /\ trader_prefs = <<>>
  /\ arcs = {}
  /\ req_caps = <<>> /\ bid_caps = <<>> /\ considered = <<>> /\ flow = <<>>
  /\ asked = {} /\ responses = {} /\ transactions = {}
  /\ served = {} /\ accepted = {}

(* Every trader is queried for its request portfolios, in the order of ids. *)
AddAllRequests(book) ==
  /\ phase = "requests"
  /\ requests' = book
  /\ phase' = "bids"
  /\ UNCHANGED <<solver, bids, trader_prefs, arcs, solution, trades>>

(* Every trader is queried for bids on the collected requests. A bid        *)
(* without a preference takes that of its request. With no bids Execute is  *)
(* over: the adjustment has nothing to adjust.                              *)
AddAllBids(book) ==
  LET ids      == UNION {{q} \X DOMAIN book[q].bids : q \in DOMAIN book}
      offer(b) == book[b[1]].bids[b[2]]
  IN  /\ phase = "bids"
      /\ \A b \in ids : offer(b).request \in RequestIds
      /\ bids' = book
      /\ trader_prefs' = [b \in ids |-> IF offer(b).pref = NaN
                                        THEN Req(offer(b).request).pref
                                        ELSE offer(b).pref]
      /\ phase' = IF ids = {} THEN "done" ELSE "adjust"
      /\ UNCHANGED <<solver, requests, arcs, solution, trades>>

(* Each requester, then its parents, may set its preferences. *)
AdjustAll(prefs) ==
  /\ phase = "adjust"
  /\ \A b \in BidIds : prefs[b] \in AdjustedPrefs(requests) \cup {trader_prefs[b]}
  /\ trader_prefs' = prefs
  /\ phase' = "translate"
  /\ UNCHANGED <<solver, requests, bids, arcs, solution, trades>>

(* AddArc drops a bid with a negative preference and throws for one of      *)
(* zero, which ends the simulation.                                         *)
Translate ==
  /\ phase = "translate"
  /\ \/ /\ \E b \in BidIds : trader_prefs[b] = 0
        /\ phase' = "error"
        /\ UNCHANGED <<arcs, flow>>
     \/ /\ \A b \in BidIds : trader_prefs[b] # 0
        /\ phase' = "solver"
        /\ arcs' = {b \in BidIds : trader_prefs[b] > 0}
        /\ flow' = [b \in arcs' |-> 0]
  /\ UNCHANGED <<exchange, req_caps, bid_caps, considered, trades>>

(* GreedySolver::SolveGraph up to the first group. ProgSolver runs it       *)
(* first, for a bound on its objective only, with a preconditioner that has *)
(* no weights; it clears the matches afterwards.                            *)
SolverInit ==
  /\ phase = "solver"
  /\ req_caps' = [p \in DOMAIN requests |-> PortfolioQty(requests[p])]
  /\ bid_caps' = [q \in DOMAIN bids |-> bids[q].caps]
  /\ phase' = "solve"
  /\ UNCHANGED <<exchange, arcs, considered, flow, trades>>

(* The arcs the loops have still to come to. *)
Pending ==
  {b \in arcs : /\ \A k \in DOMAIN considered : considered[k] # b
                /\ Match(GroupOf(b)) <= PortfolioQty(requests[GroupOf(b)])}

(* One turn of the inner loop of GreedilySatisfySet. UpdateCapacity throws  *)
(* when a node is matched to more than it has.                              *)
ConsiderArc(b) ==
  /\ phase = "solve"
  /\ \A a \in Pending : ~Sooner(a, b)
  /\ LET qty == ToMatch(b)
     IN  \/ /\ qty <= 0
            /\ UNCHANGED <<phase, req_caps, bid_caps, flow>>
         \/ /\ qty > 0
            /\ qty <= Req(unode(b)).qty /\ qty <= Bid(b).qty
            /\ req_caps' = [req_caps EXCEPT ![GroupOf(b)] = @ - qty]
            /\ bid_caps' = [bid_caps EXCEPT ![b[1]] =
                                UpdateCapacity(@, Bid(b).units, qty)]
            /\ flow' = [flow EXCEPT ![b] = @ + qty]
            /\ UNCHANGED phase
         \/ /\ qty > 0
            /\ qty > Req(unode(b)).qty \/ qty > Bid(b).qty
            /\ phase' = "error"
            /\ UNCHANGED <<req_caps, bid_caps, flow>>
  /\ considered' = Append(considered, b)
  /\ UNCHANGED <<exchange, arcs, trades>>

(* The matches become trades, grouped by supplier. *)
Trades == {b \in arcs : flow[b] > 0}

BackTranslate ==
  /\ phase = "solve" /\ solver = "greedy"
  /\ Pending = {}
  /\ phase' = "respond"
  /\ UNCHANGED <<exchange, arcs, solution, trades>>

(* ProgSolver::SolveGraph, after the greedy solver: its matches are cleared *)
(* and the solution of the program becomes the matches.                     *)
SolveProg ==
  /\ phase = "solve" /\ solver = "prog"
  /\ Pending = {}
  /\ flow' \in Optimal
  /\ phase' = "respond"
  /\ UNCHANGED <<exchange, arcs, req_caps, bid_caps, considered, trades>>

Suppliers == {Bidder(b) : b \in Trades}

Requesters == {Requester(b) : b \in Trades}

(* Mutant: the responses are filed under the supplier. *)
GetTradeResponsesBySupplier(t, answered) ==
  /\ phase = "respond"
  /\ t \in Suppliers \ asked
  /\ answered \subseteq {b \in Trades : Bidder(b) = t}
  /\ asked' = asked \cup {t}
  /\ responses' = responses \cup {<<t, b>> : b \in answered}
  /\ UNCHANGED <<phase, exchange, arcs, solution, transactions, served, accepted>>

(* The suppliers are asked in the order of their addresses; a supplier      *)
(* answers some of its trades with a resource.                              *)
GetTradeResponses(t, answered) ==
  /\ phase = "respond"
  /\ t \in Suppliers \ asked
  /\ answered \subseteq {b \in Trades : Bidder(b) = t}
  /\ asked' = asked \cup {t}
  /\ responses' = responses \cup {<<Requester(b), b>> : b \in answered}
  /\ UNCHANGED <<phase, exchange, arcs, solution, transactions, served, accepted>>

RecordTrades ==
  /\ phase = "respond"
  /\ asked = Suppliers
  /\ transactions' = {<<Bidder(x[2]), x[1], x[2]>> : x \in responses}
  /\ phase' = "send"
  /\ UNCHANGED <<exchange, arcs, solution, asked, responses, served, accepted>>

(* AcceptTrades of one requester; a requester none of whose trades was      *)
(* answered is called too.                                                  *)
SendTradeResources(t) ==
  /\ phase = "send"
  /\ t \in Requesters \ served
  /\ accepted' = accepted \cup {<<t, x[2]>> : x \in {y \in responses : y[1] = t}}
  /\ served' = served \cup {t}
  /\ UNCHANGED <<phase, exchange, arcs, solution, asked, responses, transactions>>

Finish ==
  /\ phase = "send"
  /\ served = Requesters
  /\ phase' = "done"
  /\ UNCHANGED <<exchange, arcs, solution, trades>>

Next ==
  \/ \E book \in RequestBooks : AddAllRequests(book)
  \/ \E book \in BidBooks(requests) : AddAllBids(book)
  \/ \E prefs \in [BidIds -> AdjustedPrefs(requests)
                              \cup {trader_prefs[b] : b \in BidIds}] : AdjustAll(prefs)
  \/ Translate
  \/ SolverInit
  \/ \E b \in Pending : ConsiderArc(b)
  \/ BackTranslate
  \/ SolveProg
  \/ \E t \in Suppliers, S \in SUBSET Trades : GetTradeResponses(t, S)
  \/ RecordTrades
  \/ \E t \in Requesters : SendTradeResources(t)
  \/ Finish

Spec == Init /\ [][Next]_vars

-----------------------------------------------------------------------------
(* Properties *)

(* Every bid of the portfolio draws on every one of its constraints. *)
Even(q) == \A k \in DOMAIN bids[q].bids : \A i \in DOMAIN bids[q].caps :
               bids[q].bids[k].units[i] = 1

(* Types, with the capacities of groups never below zero, those of a        *)
(* portfolio with a bid outside some constraint excepted.                   *)
TypeOK ==
  /\ phase \in {"requests", "bids", "adjust", "translate", "solver", "solve",
                "respond", "send", "done", "error"}
  /\ arcs \subseteq BidIds
  /\ DOMAIN trader_prefs = BidIds
  /\ req_caps \in Seq(Nat)
  /\ \A q \in DOMAIN bid_caps : bid_caps[q] \in Seq(IF Even(q) THEN Nat ELSE Int)
  /\ considered \in Seq(arcs)
  /\ flow \in [arcs -> Nat]
  /\ asked \subseteq Suppliers
  /\ served \subseteq Requesters

(* The solver has just ended; the matches do not change any more. *)
Solved == phase = "respond" /\ asked = {}

(* What is matched on the bids of portfolio q is within its constraints.    *)
WithinCapacity(q) ==
  \A i \in DOMAIN bids[q].caps :
     \/ bids[q].caps[i] = Unlimited
     \/ Flow({b \in arcs : b[1] = q /\ Bid(b).units[i] = 1}) <= bids[q].caps[i]

(* What is matched on the bids of a portfolio stays within each of its      *)
(* capacity constraints, with the greedy solver when its bids draw on all   *)
(* of them. The greedy solver also keeps within what a bid offers, which    *)
(* the optimizing solver does for exclusive bids only                       *)
(* (GreedySolver::Capacity, ProgTranslator::XlateGrp_).                     *)
SupplyWithinCapacity ==
  /\ \A b \in arcs : solver = "greedy" \/ exclusive(b) => flow[b] <= Bid(b).qty
  /\ \A q \in DOMAIN bids : Even(q) \/ (solver = "prog" /\ Solved) => WithinCapacity(q)

(* No portfolio is matched to more than its total, mutual requests counting *)
(* once, and no request to more than its target. The optimizing solver      *)
(* promises the first only, and only without exclusive arcs: it may use     *)
(* one although a part of it is too much (GreedilySatisfySet, XlateGrp_).   *)
DemandNotExceeded ==
  /\ \A r \in RequestIds : solver = "greedy" => Flow(ArcsOf(r)) <= Req(r).qty
  /\ \A p \in DOMAIN requests :
        solver = "greedy" \/ (\A b \in arcs : GroupOf(b) = p => ~exclusive(b))
          => Match(p) <= PortfolioQty(requests[p])

(* Matches keep to the limits of both sides: of what is supplied and of     *)
(* what is asked for (GreedySolver::Capacity, UpdateCapacity, XlateGrp_).   *)
WithinLimits == SupplyWithinCapacity /\ DemandNotExceeded

(* What exchange_graph.h says of an exclusive group: "for all nodes in that *)
(* group, flow is only allowed to flow over one. This is the case for       *)
(* multiple bids that refer to the same exclusive object."                  *)
ExclusiveObjectsOnce ==
  \A a, b \in Trades :
     a[1] = b[1] /\ Bid(a).excl /\ Bid(b).excl /\ Bid(a).obj = Bid(b).obj => a = b

(* An exclusive request is met by one bid in its entirety or not at all,    *)
(* and an exclusive bid is used in its entirety or not at all; the          *)
(* optimizing solver uses an exclusive object for one trade at most         *)
(* (excl_val_ of Arc, GreedilySatisfySet, the exclusive rows of XlateGrp_). *)
WholeOrNothing ==
  /\ \A b \in Trades :
        /\ Bid(b).excl => flow[b] = Bid(b).qty
        /\ Req(unode(b)).excl =>
             flow[b] = Req(unode(b)).qty /\ Trades \cap ArcsOf(unode(b)) = {b}
  /\ Solved /\ solver = "prog" => ExclusiveObjectsOnce

(* Arc b could carry n more beside what it and the arcs of S carry by f.    *)
Room(f, b, S, n) ==
  LET caps    == bids[b[1]].caps
      Used(P) == Over(f, (S \cup {b}) \cap P)
  IN  /\ n <= Bid(b).qty - f[b]
      /\ n <= Req(unode(b)).qty - Used(ArcsOf(unode(b)))
      /\ n <= PortfolioQty(requests[GroupOf(b)]) - Used({a \in arcs : GroupOf(a) = GroupOf(b)})
      /\ \A i \in DOMAIN caps : caps[i] # Unlimited /\ Bid(b).units[i] = 1 =>
            n <= caps[i] - Used({a \in arcs : a[1] = b[1] /\ Bid(a).units[i] = 1})

(* Arc b could have carried more: all of what is exclusive, which must be   *)
(* taken whole, or else any quantity.                                       *)
Slighted(f, b, S) ==
  \E n \in 1..Bid(b).qty :
     /\ Req(unode(b)).excl => n = Req(unode(b)).qty
     /\ Bid(b).excl => n = Bid(b).qty
     /\ exclusive(b) => f[b] = 0
     /\ Room(f, b, S, n)

(* The arcs that do not come after b in the preference of its request, and  *)
(* those of portfolios that do not come after b's by conditioning weight.   *)
NotLessPreferred(b) ==
  {a \in arcs : unode(a) = unode(b) => ~(trader_prefs[b] > trader_prefs[a])}

NotLighter(b) ==
  {a \in arcs : ~FracGreater(GroupWeight(GroupOf(b)), GroupWeight(GroupOf(a)))}

(* The arcs of other portfolios, and those of b's portfolio whose request   *)
(* does not come after b's: by average preference, or, where the averages   *)
(* are equal, by conditioning weight.                                       *)
Outranks(r, s) ==
  \/ AvgPrefGreater(r, s)
  \/ ~AvgPrefGreater(s, r) /\ FracGreater(NodeWeight(r), NodeWeight(s))

NotOutranked(b) ==
  {a \in arcs : GroupOf(a) = GroupOf(b) => ~Outranks(unode(b), unode(a))}

(* No request takes from a bid it prefers less what a bid it prefers more   *)
(* could still have given it: without the flow on the less preferred arcs,  *)
(* the preferred one had no room (the sort by ReqPrefComp).                 *)
PreferenceRespected ==
  Solved /\ solver = "greedy" =>
     \A b \in arcs : ~Slighted(flow, b, NotLessPreferred(b))

(* No request goes short for the sake of a portfolio with a lower           *)
(* conditioning weight, and nothing that could be matched is left           *)
(* (GreedyPreconditioner::Condition and the loop of SolveGraph).            *)
PriorityRespected ==
  Solved /\ solver = "greedy" =>
     \A b \in arcs : ~Slighted(flow, b, NotLighter(b))

(* No request goes short for the sake of one of the same portfolio that has *)
(* the lower average preference, or the same and the lower weight (the      *)
(* stable sort of GreedilySatisfySet after that of Condition).              *)
RankRespected ==
  Solved /\ solver = "greedy" =>
     \A b \in arcs : ~Slighted(flow, b, NotOutranked(b))

(* The greedy solver decides contention by the order of its four sorts:     *)
(* those of portfolios and of the requests in one by weight, of requests by *)
(* average preference, and of arcs by preference.                           *)
OrderRespected == PreferenceRespected /\ PriorityRespected /\ RankRespected

(* With the optimizing solver no request portfolio goes short while one of  *)
(* its divisible arcs could carry more: the false arcs are dearer than any  *)
(* arc, also one that takes from another portfolio (PseudoCost).            *)
MatchedWherePossible ==
  Solved /\ solver = "prog" => \A b \in {a \in arcs : ~exclusive(a)} :
     \/ Match(GroupOf(b)) >= PortfolioQty(requests[GroupOf(b)])
     \/ flow[b] = Req(unode(b)).qty
     \/ \E i \in DOMAIN bids[b[1]].caps :
           /\ Bid(b).units[i] = 1
           /\ Flow({a \in arcs : a[1] = b[1] /\ Bid(a).units[i] = 1}) = bids[b[1]].caps[i]

(* At the end every supplier was asked, every resource that was provided    *)
(* reached the requester of its trade and is in Transactions with the two   *)
(* traders, and nobody got or is said to have got anything else             *)
(* (TradeExecutor). How often a row is written is not part of the model.    *)
TradesSettled ==
  phase = "done" =>
     /\ {x[2] : x \in accepted} = {x[2] : x \in responses}
     /\ \A x \in accepted : x[2] \in Trades /\ x[1] = Requester(x[2])
     /\ transactions = {<<Bidder(x[2]), x[1], x[2]>> : x \in accepted}
     /\ asked = Suppliers
-----------------------------------------------------------------------------
(* The inductive invariants, of the matches f. *)

(* What the greedy solver keeps, of its own matches. *)
GreedyLimits(f) ==
  /\ \A b \in arcs : f[b] <= Bid(b).qty /\ (exclusive(b) => f[b] \in {0, excl_val(b)})
  /\ \A r \in RequestIds : Over(f, ArcsOf(r)) <= Req(r).qty
  /\ \A p \in DOMAIN requests : Matched(f, p) <= PortfolioQty(requests[p])
  /\ \A q \in DOMAIN bids : Even(q) => \A i \in DOMAIN bids[q].caps :
        bids[q].caps[i] = Unlimited \/ Drawn(f, q, i) <= bids[q].caps[i]

(* The capacities of groups are what the matches leave of them. *)
CapsLeft(f, rcaps, bcaps) ==
  /\ DOMAIN rcaps = DOMAIN requests /\ DOMAIN bcaps = DOMAIN bids
  /\ \A p \in DOMAIN requests : rcaps[p] = PortfolioQty(requests[p]) - Matched(f, p)
  /\ \A q \in DOMAIN bids :
       /\ DOMAIN bcaps[q] = DOMAIN bids[q].caps
       /\ \A i \in DOMAIN bids[q].caps :
            bcaps[q][i] = IF bids[q].caps[i] = Unlimited THEN Unlimited
                          ELSE bids[q].caps[i] - Drawn(f, q, i)

(* What an optimal solution of the program keeps. *)
ProgLimits(f) ==
  /\ \A b \in arcs : exclusive(b) => f[b] \in {0, excl_val(b)}
  /\ \A S \in ExclRows : \A a, b \in S : f[a] > 0 /\ f[b] > 0 => a = b
  /\ \A q \in DOMAIN bids : \A i \in DOMAIN bids[q].caps : Drawn(f, q, i) <= bids[q].caps[i]
  /\ \A p \in DOMAIN requests : (\A b \in arcs : GroupOf(b) = p => ~exclusive(b))
        => Matched(f, p) <= PortfolioQty(requests[p])
  /\ \A b \in {a \in arcs : ~exclusive(a)} :
       \/ Matched(f, GroupOf(b)) >= PortfolioQty(requests[GroupOf(b)])
       \/ f[b] = Req(unode(b)).qty
       \/ \E i \in DOMAIN bids[b[1]].caps :
             Bid(b).units[i] = 1 /\ Drawn(f, b[1], i) = bids[b[1]].caps[i]

Unmatched == \A b \in arcs : flow[b] = 0

(* What the matches of each phase keep to. *)
MatchInv ==
  /\ phase \in {"respond", "send", "done"} =>
       Unmatched \/ GreedyLimits(flow) \/ (solver = "prog" /\ ProgLimits(flow))
  /\ phase \notin {"respond", "send", "done"} => Unmatched \/ GreedyLimits(flow)
  /\ phase = "respond" /\ solver = "prog" => ProgLimits(flow)
  /\ phase = "solver" => Unmatched
  /\ phase = "solve" =>
       /\ GreedyLimits(flow) /\ CapsLeft(flow, req_caps, bid_caps)
       /\ \A b \in arcs : (\A k \in DOMAIN considered : considered[k] # b) => flow[b] = 0

(* Behind TradesSettled: what has been answered, recorded and sent so far.  *)
TradeInv ==
  /\ phase \notin {"respond", "send", "done"} =>
       asked = {} /\ responses = {} /\ transactions = {} /\ served = {} /\ accepted = {}
  /\ \A x \in responses : x[2] \in Trades /\ x = <<Requester(x[2]), x[2]>>
  /\ accepted = {x \in responses : x[1] \in served}
  /\ phase \in {"send", "done"} =>
       asked = Suppliers /\ transactions = {<<Bidder(x[2]), x[1], x[2]>> : x \in responses}
  /\ phase = "respond" => served = {}
  /\ phase = "done" => served = Requesters

(* What the phases before have settled. *)
StageInv ==
  /\ requests = <<>> \/ requests \in RequestBooks
  /\ bids = <<>> \/ (requests \in RequestBooks /\ bids \in BidBooks(requests))
  /\ phase \in {"requests", "bids"} => bids = <<>>
  /\ phase \in {"requests", "bids", "adjust", "translate"} => arcs = {}
  /\ phase \in {"requests", "bids", "adjust", "translate", "solver"} => considered = <<>>
  /\ phase # "requests" => requests \in RequestBooks
  /\ \A b \in BidIds : unode(b) \in RequestIds
  /\ arcs \subseteq BidIds /\ DOMAIN flow = arcs /\ DOMAIN trader_prefs = BidIds
  /\ considered \in Seq(arcs)
  /\ \A b \in BidIds : trader_prefs[b] \in Int
  /\ \A b \in arcs : trader_prefs[b] > 0 /\ flow[b] \in Nat

ExchangeInv == StageInv /\ MatchInv /\ TradeInv
=============================================================================
