------------------------- MODULE MCResourceExchange -------------------------
(* Small exchanges. Traders 1 and 2 post requests, 3 and 4 answer them.     *)
EXTENDS ResourceExchange

Request(qtys, excls, prefs, commods) ==
  [qty : qtys, excl : excls, pref : prefs, commod : commods]

Portfolio(t, mutual, reqs) == [requester |-> t, mutual |-> mutual, reqs |-> reqs]

Offer(reqs, qtys, excls, prefs, units, objs) ==
  [request : reqs, qty : qtys, excl : excls, pref : prefs, units : units, obj : objs]

Supply(t, caps, offers) == [bidder |-> t, caps |-> caps, bids |-> offers]

(* Divisible requests: two in one portfolio, mutual or not, and one of      *)
(* another trader; what trader 3 offers is limited as a whole.              *)
DivisibleRequests ==
  {<<Portfolio(1, m, <<r, s>>), Portfolio(2, FALSE, <<t>>)>> :
      m \in BOOLEAN, r \in Request({2}, {FALSE}, {1, 2}, {"fuel"}),
      s, t \in Request({2}, {FALSE}, {1}, {"fuel"})}

DivisibleOffer(reqs, prefs) == Offer(reqs, {1, 3}, {FALSE}, prefs, {<<1>>}, {1})

DivisibleBids ==
  {<<Supply(3, <<c>>, <<a, b>>), Supply(4, <<2>>, <<d>>)>> :
      c \in {2, Unlimited}, a \in DivisibleOffer({<<1, 1>>, <<1, 2>>}, {NaN}),
      b \in DivisibleOffer({<<1, 2>>, <<2, 1>>}, {NaN}),
      d \in DivisibleOffer({<<1, 1>>, <<1, 2>>, <<2, 1>>}, {1, 4})}

(* Exclusive and divisible requests and bids of one and two units.          *)
ExclusiveRequests ==
  {<<Portfolio(1, FALSE, <<r, s>>)>> :
      r, s \in Request({1, 2}, BOOLEAN, {1}, {"fuel"})}

ExclusiveBids ==
  {<<Supply(3, <<>>, <<a, b>>), Supply(4, <<2>>, <<d>>)>> :
      a \in Offer({<<1, 1>>, <<1, 2>>}, {1, 2}, BOOLEAN, {NaN}, {<<>>}, {1}),
      b \in Offer({<<1, 1>>, <<1, 2>>}, {1, 2}, {TRUE}, {NaN}, {<<>>}, {1, 2})
              \cup Offer({<<1, 2>>}, {1, 2}, {FALSE}, {NaN}, {<<>>}, {2}),
      d \in Offer({<<1, 1>>}, {2}, BOOLEAN, {NaN, 4}, {<<1>>}, {1})}

(* Two commodities of different weights, and preferences that bidders and   *)
(* requesters set.                                                          *)
Weights == [uox |-> 2, mox |-> 1, fuel |-> 1]

WeightedRequests ==
  {<<Portfolio(1, FALSE, <<r, s>>), Portfolio(2, FALSE, <<t>>)>> :
      r, s, t \in Request({2}, {FALSE}, {1}, {"uox", "mox"})}

Answer(r, p) == [request |-> r, qty |-> 2, excl |-> FALSE, pref |-> p, units |-> <<1>>,
                 obj |-> 1]

AnyPrefs == {-1, 0, 2}

(* Offers that do not draw on the first of a portfolio's two constraints.   *)
IndependentBids ==
  {<<Supply(3, <<2, 3>>, <<a, b>>)>> :
      a, b \in Offer({<<1, 1>>, <<1, 2>>}, {1, 2}, {FALSE}, {NaN},
                   {<<1, 1>>, <<0, 1>>}, {1})}

WeightedBids ==
  {<<>>} \cup IndependentBids \cup
  {<<Supply(3, <<3>>, <<Answer(<<1, 1>>, p), Answer(<<2, 1>>, NaN)>>),
     Supply(4, <<>>, <<[Answer(<<1, 2>>, q) EXCEPT !.units = <<>>]>>)>> :
        p \in {NaN, 4}, q \in {NaN, 4}}

(* The exchanges of the run: each kind of requests with its bids.           *)
MCRequests == DivisibleRequests \cup ExclusiveRequests \cup WeightedRequests

MCBids(book) ==
  IF book \in DivisibleRequests THEN DivisibleBids
  ELSE IF book \in ExclusiveRequests THEN ExclusiveBids ELSE WeightedBids

MCPrefs(book) == IF book \in WeightedRequests THEN AnyPrefs ELSE {}
=============================================================================
