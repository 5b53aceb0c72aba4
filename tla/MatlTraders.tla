---------------------------- MODULE MatlTraders ----------------------------
(***************************************************************************)
(* Facilities that trade with each other over several time steps: Source,  *)
(* Sink, KFacility, and facilities that buy into a buffer with a           *)
(* MatlBuyPolicy and sell from one with a MatlSellPolicy.  Each time step  *)
(* is one exchange of ResourceExchange with the greedy solver; its         *)
(* requests, bids, responses and acceptances are here those the traders    *)
(* make of their buffers.                                                  *)
(*                                                                         *)
(* A trader is a record: kind, buf (the number of its buffer), commods     *)
(* (what it asks for), offers (what it gives), both sequences, and         *)
(*   source: out, recipe (whether it has one);   sink: in                  *)
(*   k: in, out, k_in, k_out, the capacities and their factors             *)
(*   buy:  throughput, quantize (0: not), fill, under                      *)
(*   sell: throughput, quantize.                                           *)
(* fill and under are fill_to_ and req_when_under_ times the capacity of   *)
(* the buffer.  Compositions, which no decision here reads, are left out.  *)
(***************************************************************************)
EXTENDS ResourceExchange, ResBuf

CONSTANTS
    Fleets,   \* what simulations there are: the traders, the capacities of buffers,
              \* and the moves that facilities may make between their buffers
    MaxTime   \* bound: the last time step

ASSUME MatlTradersAssumption == MaxTime \in Nat

VARIABLES
    fleet,    \* the simulation
    bufs,     \* the buffers
    next_obj, \* the next resource object
    sent,     \* the resource of each trade that has been responded to
    created,  \* history: the quantity sources have created
    blame,    \* history: the trader that threw, and for want of what
    now       \* the time step

traders == <<fleet, bufs, next_obj, sent, created, blame, now>>
allvars == <<vars, traders>>

Trader(i) == fleet.traders[i]
BufOf(i)  == bufs[Trader(i).buf]
Ids       == DOMAIN fleet.traders
-----------------------------------------------------------------------------
(* Requests *)

excl(i) == Trader(i).quantize > 0

\* Mutant: the throughput is not looked at.
TotalQtyUncapped(i) == Trader(i).fill - BufOf(i).qty

TotalQty(i) == Min({Trader(i).throughput, Trader(i).fill - BufOf(i).qty})

\* MatlBuyPolicy::ReqQty and NReq
ReqQty(i) == IF excl(i) THEN Trader(i).quantize ELSE TotalQty(i)
NReq(i)   == IF excl(i) THEN TotalQty(i) \div Trader(i).quantize ELSE 1

\* One request for each commodity, in one portfolio.
RequestPortfolio(i, qty, whole) ==
    [requester |-> i, mutual |-> FALSE,
     reqs |-> [k \in DOMAIN Trader(i).commods |->
                 [qty |-> qty, excl |-> whole, pref |-> 1,
                  commod |-> Trader(i).commods[k]]]]

(***************************************************************************)
(* GetMatlRequests.  The buy policy keys its groups of requests by the     *)
(* number of the portfolio, so that there is never more than one group and *)
(* AddMutualReqs is not called.  Sink and KFacility ask for their          *)
(* capacity, whatever is in their inventory.  The CapacityConstraint they  *)
(* add to the portfolio is left out: it is never larger than the mass      *)
(* constraint that the exchange adds, both have unit capacity 1, and the   *)
(* greedy solver takes the larger quotient.                                *)
(***************************************************************************)
GetMatlRequests(i) ==
    CASE Trader(i).kind = "buy" ->
           IF BufOf(i).qty < Trader(i).under /\ TotalQty(i) > 0
           THEN [n \in 1..NReq(i) |-> RequestPortfolio(i, ReqQty(i), excl(i))]
           ELSE << >>
      [] Trader(i).kind \in {"sink", "k"} ->
           IF Trader(i).in > 0 THEN <<RequestPortfolio(i, Trader(i).in, FALSE)>>
           ELSE << >>
      [] OTHER -> << >>

RequestBook == FlattenSeq([i \in Ids |-> GetMatlRequests(i)])

Requests ==
    /\ AddAllRequests(RequestBook)
    /\ UNCHANGED traders
-----------------------------------------------------------------------------
(* Bids *)

\* The requests for a commodity, in the order in which they were added.
RequestsFor(commod) ==
    SelectSeq(FlattenSeq([p \in DOMAIN requests |->
                            [k \in DOMAIN requests[p].reqs |-> <<p, k>>]]),
              LAMBDA r : Req(r).commod = commod)

\* The n-th offer of a bidder for a request: a resource of its own.
Offer(r, n, qty, whole) ==
    [request |-> r, qty |-> qty, excl |-> whole, pref |-> NaN, units |-> <<1>>, obj |-> <<r, n>>]

\* Mutant: what is in the buffer is not looked at.
LimitThroughput(i) ==
    IF excl(i) THEN Trader(i).quantize * (Trader(i).throughput \div Trader(i).quantize)
    ELSE Trader(i).throughput

\* MatlSellPolicy::Limit
Limit(i) ==
    LET bcap == BufOf(i).qty
        q    == Trader(i).quantize
    IN  Min({Trader(i).throughput, IF excl(i) THEN q * (bcap \div q) ELSE bcap})

\* The bids of a sell policy on one request.
SellBids(i, r) ==
    LET qty == Min({Req(r).qty, Limit(i)})
        q   == Trader(i).quantize
    IN  IF excl(i) THEN [n \in 1..(qty \div q) |-> Offer(r, n, q, TRUE)]
        ELSE <<Offer(r, 1, qty, FALSE)>>

\* A source without a recipe offers the target itself.
SourceBid(i, r) ==
    Offer(r, 1, IF Trader(i).recipe THEN Min({Req(r).qty, Trader(i).out}) ELSE Req(r).qty,
          FALSE)

Bids(i) ==
    LET on(commod) ==
          FlattenSeq([n \in DOMAIN RequestsFor(commod) |->
             IF Trader(i).kind = "sell" THEN SellBids(i, RequestsFor(commod)[n])
             ELSE <<SourceBid(i, RequestsFor(commod)[n])>>])
    IN  FlattenSeq([k \in DOMAIN Trader(i).offers |-> on(Trader(i).offers[k])])

\* GetMatlBids: the traders that bid, and the capacity of their constraint.
WillBid(i) ==
    CASE Trader(i).kind = "sell" -> BufOf(i).qty > 0
      [] Trader(i).kind \in {"source", "k"} -> RequestsFor(Trader(i).offers[1]) # << >>
      [] OTHER -> FALSE

Constraint(i) == IF Trader(i).kind = "sell" THEN Limit(i) ELSE Trader(i).out

BidBook ==
    FlattenSeq([i \in Ids |->
       IF WillBid(i) THEN <<[bidder |-> i, caps |-> <<Constraint(i)>>, bids |-> Bids(i)]>>
       ELSE << >>])

\* For every bid the front of the buffer is taken out and put back at its end.
Rotated(b, n) ==
    LET k == IF b.rs = << >> THEN 0 ELSE n % Len(b.rs)
    IN  [b EXCEPT !.rs = SubSeq(@, k + 1, Len(@)) \o SubSeq(@, 1, k)]

\* An exception ends the simulation.
Throw(i, what) ==
    /\ phase' = "error" /\ blame' = <<i, what>>
    /\ UNCHANGED <<exchange, arcs, solution, trades, fleet, bufs, next_obj, sent, created, now>>

SellersOf(k) == {i \in Ids : Trader(i).kind = "sell" /\ Trader(i).buf = k /\ WillBid(i)}

\* The traders bid; a CapacityConstraint that is not positive throws.
Bidding ==
    \/ /\ \A i \in Ids : WillBid(i) => Constraint(i) > 0
       /\ AddAllBids(BidBook)
       /\ bufs' = [k \in DOMAIN bufs |->
                     Rotated(bufs[k], MapThenSumSet(LAMBDA i : Len(Bids(i)), SellersOf(k)))]
       /\ UNCHANGED <<fleet, next_obj, sent, created, blame, now>>
    \/ \E i \in Ids :
          /\ phase = "bids"
          /\ WillBid(i) /\ Constraint(i) <= 0
          /\ \A j \in Ids : j < i /\ WillBid(j) => Constraint(j) > 0
          /\ Throw(i, "capacity")
-----------------------------------------------------------------------------
(* Trades *)

\* The trades of a trader, in the order of the matches.
TradesOf(S) == SelectSeq(considered, LAMBDA b : b \in S)

(***************************************************************************)
(* GetMatlTrades.  w is what has been done so far: a sell policy pops the  *)
(* quantity of each trade from its buffer, a source creates it.            *)
(***************************************************************************)
Respond(i, w, b) ==
    LET k   == Trader(i).buf
        out == PopUpTo(w.bufs[k], flow[b], w.next)
    IN  IF Trader(i).kind # "sell"
        THEN [w EXCEPT !.next = @ + 1, !.made = @ + flow[b],
                       !.sent = (b :> [obj |-> w.next, qty |-> flow[b]]) @@ @]
        ELSE IF flow[b] > w.bufs[k].qty THEN [w EXCEPT !.thrown = TRUE]
        ELSE [w EXCEPT !.bufs[k] = out[1], !.next = @ + 1,
                       !.sent = (b :> Squash(out[2])) @@ @]

\* A source throws, after all its trades, when they are beyond its capacity.
Provide(t) ==
    /\ phase = "respond" /\ t \in Suppliers \ asked
    /\ LET S == {b \in Trades : Bidder(b) = t}
           w == FoldLeft(LAMBDA x, b : Respond(t, x, b),
                         [bufs |-> bufs, next |-> next_obj, sent |-> sent, made |-> 0,
                          thrown |-> FALSE], TradesOf(S))
           over == w.thrown \/ (Trader(t).kind # "sell" /\ w.made > Trader(t).out)
       IN  \/ /\ ~ over
              /\ GetTradeResponses(t, S)
              /\ bufs' = w.bufs /\ next_obj' = w.next /\ sent' = w.sent
              /\ created' = created + w.made
              /\ UNCHANGED <<fleet, blame, now>>
           \/ over /\ Throw(t, "supply")

\* AcceptMatlTrades: each resource is pushed, by a buy policy to a ResBuf, by
\* the others to a ResourceBuff; both throw at the limit.
Accept(i, w, b) ==
    IF w.thrown \/ ~ CanPush(w.buf, sent[b]) THEN [w EXCEPT !.thrown = TRUE]
    ELSE [w EXCEPT !.buf = IF Trader(i).kind = "buy" THEN Push(@, sent[b])
                           ELSE BuffPush(@, sent[b])]

Acceptance(t) ==
    /\ phase = "send" /\ t \in Requesters \ served
    /\ LET mine == {x[2] : x \in {y \in responses : y[1] = t}}
           w    == FoldLeft(LAMBDA x, b : Accept(t, x, b),
                            [buf |-> BufOf(t), thrown |-> FALSE], TradesOf(mine))
       IN  \/ /\ ~ w.thrown
              /\ SendTradeResources(t)
              /\ bufs' = [bufs EXCEPT ![Trader(t).buf] = w.buf]
              /\ UNCHANGED <<fleet, next_obj, sent, created, blame, now>>
           \/ w.thrown /\ Throw(t, "space")
-----------------------------------------------------------------------------
(***************************************************************************)
(* The end of a time step.  A facility moves material from one buffer to   *)
(* another, as far as there is material and space: m.from, m.to, and m.how *)
(* with m.n, "count" (PopN and the Push of several), "qty" (Pop and Push)  *)
(* "back" (PopBack and Push) or "none".  The Tock of a KFacility changes   *)
(* its capacities by their factors.  Then the next exchange begins.        *)
(***************************************************************************)
Moved(m) ==
    LET from == bufs[m.from]
        to   == bufs[m.to]
        n    == Min({m.n, Len(from.rs)})
        q    == Min({m.n, from.qty, space(to)})
        some == SubSeq(from.rs, 1, n)
        pop  == PopQty(from, q, next_obj)
    IN  CASE m.how = "count" /\ CanPushAll(to, some) ->
               <<PopN(from, n), PushAll(to, some)>>
          [] m.how = "qty" /\ q > 0 -> <<pop[1], Push(to, Squash(pop[2]))>>
          [] m.how = "back" /\ from.rs # << >> /\ CanPush(to, Last(from.rs)) ->
               <<PopBack(from), Push(to, Last(from.rs))>>
          [] OTHER -> <<from, to>>

Tock(tr) ==
    IF tr.kind = "k" THEN [tr EXCEPT !.in = @ * tr.k_in, !.out = @ * tr.k_out] ELSE tr

NextStep(m) ==
    /\ phase = "done" /\ now < MaxTime
    /\ now' = now + 1
    /\ fleet' = [fleet EXCEPT !.traders = [i \in Ids |-> Tock(@[i])]]
    /\ bufs' = [bufs EXCEPT ![m.from] = Moved(m)[1], ![m.to] = Moved(m)[2]]
    /\ next_obj' = next_obj + 1
    /\ sent' = << >>
    /\ phase' = "requests"
    /\ requests' = << >> /\ bids' = << >> /\ trader_prefs' = << >> /\ arcs' = {}
    /\ req_caps' = << >> /\ bid_caps' = << >> /\ considered' = << >> /\ flow' = << >>
    /\ asked' = {} /\ responses' = {} /\ transactions' = {} /\ served' = {} /\ accepted' = {}
    /\ UNCHANGED <<solver, created, blame>>

TInit ==
    /\ Init
    /\ \E f \in Fleets : fleet = f
    /\ bufs = [k \in DOMAIN fleet.caps |-> NewBuf(fleet.caps[k])]
    /\ next_obj = 1 /\ sent = << >> /\ created = 0 /\ blame = << >> /\ now = 0

\* The rest of the exchange, in which traders have no part.
Exchanging ==
    /\ \/ AdjustAll(trader_prefs)
       \/ Translate
       \/ SolverInit
       \/ \E b \in Pending : ConsiderArc(b)
       \/ BackTranslate
       \/ RecordTrades
       \/ Finish
    /\ UNCHANGED traders

TNext ==
    \/ Requests \/ Bidding \/ Exchanging
    \/ \E t \in Ids : Provide(t)
    \/ \E t \in Ids : Acceptance(t)
    \/ \E m \in fleet.moves : NextStep(m)

TSpec == TInit /\ [][TNext]_allvars
-----------------------------------------------------------------------------
(***************************************************************************)
(* The policies and agents never ask each other for what they cannot do:   *)
(* what the solver matches can always be provided by the one that offered  *)
(* it, and fits into the buffer of the buy policy that asked for it,       *)
(* although every buffer has changed by then through its other trades      *)
(* (GetMatlTrades, AcceptMatlTrades and the guards of ResBuf).  This is of *)
(* buyers of one commodity each, and two cases in which the code does      *)
(* throw are excepted: a sink or KFacility asks for more than its          *)
(* inventory can take, and a bid has nothing behind it (a quantized seller *)
(* with less than a quantum, or a capacity of zero).                       *)
(***************************************************************************)
NothingThrown ==
    phase = "error" =>
       LET tr == Trader(blame[1])
       IN  \/ blame[2] = "capacity" /\ bids = << >>
              /\ IF tr.kind = "sell" THEN BufOf(blame[1]).qty < tr.quantize ELSE tr.out = 0
           \/ blame[2] = "space" /\ tr.kind \in {"sink", "k"}
              /\ BufOf(blame[1]).cap < Unlimited

InFlight == {b \in DOMAIN sent : \A x \in accepted : x[2] # b}

(***************************************************************************)
(* Nothing appears or disappears on the way from sources through buffers   *)
(* and trades, however resources are split and squashed: buffers and       *)
(* trades under way hold what sources created (ResBuf::Pop, Squash).       *)
(***************************************************************************)
MaterialConserved ==
    created = MapThenSumSet(LAMBDA k : Total(bufs[k].rs), DOMAIN bufs)
                + MapThenSumSet(LAMBDA b : sent[b].qty, InFlight)

(***************************************************************************)
(* Every buffer's total and its set of objects agree with its contents, it *)
(* is within its capacity, and no object is in two places.                 *)
(***************************************************************************)
BuffersKept ==
    /\ \A k \in DOMAIN bufs : Kept(bufs[k])
    /\ \A k, l \in DOMAIN bufs : k # l => bufs[k].present \cap bufs[l].present = {}
    /\ \A k \in DOMAIN bufs : \A b \in InFlight : sent[b].obj \notin bufs[k].present

Traded(S) == Flow({b \in Trades : b \in S})

(***************************************************************************)
(* Over a time step a policy trades no more than its throughput and, if it *)
(* is quantized, in whole quanta, one to a trade; a buy policy does not    *)
(* fill its buffer beyond its fill level, a source gives and a sink takes  *)
(* no more than its capacity (TotalQty, NReq, Limit, GetMatlBids and       *)
(* GetMatlRequests).  This is of buyers of one commodity each.             *)
(***************************************************************************)
PoliciesKept ==
    phase = "send" \/ phase = "done" => \A i \in Ids :
       LET mine == {b \in Trades : i \in {Requester(b), Bidder(b)}}
       IN  /\ Trader(i).kind \in {"buy", "sell"} =>
                /\ Traded(mine) <= Trader(i).throughput
                /\ excl(i) => \A b \in mine : flow[b] = Trader(i).quantize
           /\ Trader(i).kind \in {"source", "k"} =>
                Traded({b \in mine : Bidder(b) = i}) <= Trader(i).out
           /\ Trader(i).kind \in {"sink", "k"} =>
                Traded({b \in mine : Requester(b) = i}) <= Trader(i).in
           /\ Trader(i).kind = "buy" /\ i \in served /\ mine # {} =>
                BufOf(i).qty <= Trader(i).fill

(***************************************************************************)
(* A buyer of several commodities asks for them in one portfolio, which is *)
(* matched to no more than the buyer takes in a time step.                 *)
(* matl_buy_policy.cc:162 says of the requests "if there's more than one   *)
(* commodity, then make them mutual": they are alternatives.  sink.h:104   *)
(* calls the quantity of each of a Sink's requests the "capacity the sink  *)
(* facility can accept at each time step".                                 *)
(***************************************************************************)
CommodsAreAlternatives ==
    phase = "respond" =>
       \A p \in DOMAIN requests : Match(p) <= requests[p].reqs[1].qty
=============================================================================
