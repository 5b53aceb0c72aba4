--------------------------- MODULE MCMatlTraders ---------------------------
(* Small fleets: a plant between a source and a sink, a store, a KFacility, *)
(* and, for the run about several commodities, two buyers of two.           *)
EXTENDS MatlTraders

Source(commod, out, recipe) ==
  [kind |-> "source", buf |-> 0, commods |-> << >>, offers |-> <<commod>>, out |-> out,
   recipe |-> recipe]

Sink(k, commods, in) ==
  [kind |-> "sink", buf |-> k, commods |-> commods, offers |-> << >>, in |-> in]

K(k, commod, in, k_in, offer, out, k_out) ==
  [kind |-> "k", buf |-> k, commods |-> <<commod>>, offers |-> <<offer>>, recipe |-> TRUE,
   in |-> in, out |-> out, k_in |-> k_in, k_out |-> k_out]

Buy(k, commods, throughput, quantize, fill, under) ==
  [kind |-> "buy", buf |-> k, commods |-> commods, offers |-> << >>,
   throughput |-> throughput, quantize |-> quantize, fill |-> fill, under |-> under]

Sell(k, offers, throughput, quantize) ==
  [kind |-> "sell", buf |-> k, commods |-> << >>, offers |-> offers,
   throughput |-> throughput, quantize |-> quantize]

MovesBy(hows) == {[from |-> 1, to |-> 2, how |-> h, n |-> 2] : h \in hows}

(* A plant buys ore into buffer 1, moves it to buffer 2 and sells it to a   *)
(* sink, buffer 3.                                                          *)
Plants ==
  {[traders |-> <<Source("ore", c, r), Buy(1, <<"ore">>, b, q, 4, u),
                  Sell(2, <<"fuel">>, s, p), Sink(3, <<"fuel">>, 2)>>,
    caps |-> <<5, 3, Unlimited>>, moves |-> MovesBy({"count", "qty", "back"})] :
      c \in {2, 3}, r \in BOOLEAN, b \in {3, Unlimited}, q \in {0, 2}, u \in {2, 5},
      s \in {1, Unlimited}, p \in {0, 1, 2}}

(* A store buys into and sells from one buffer, beside another buyer, of    *)
(* more than the source has, and a sink of one or the other commodity.      *)
Stores ==
  {[traders |-> <<Source("ore", 3, TRUE), Buy(1, <<"ore">>, Unlimited, q, 4, 4),
                  Sell(1, <<"ore", "fuel">>, s, 0), Buy(2, <<"ore">>, 2, 0, 3, 3),
                  Sink(3, <<d>>, k)>>,
    caps |-> <<4, 3, c>>, moves |-> MovesBy({"none", "qty"})] :
      q \in {0, 2}, s \in {1, Unlimited}, k \in {0, 1}, c \in {2, Unlimited},
      d \in {"fuel", "ore"}}

(* A KFacility between a source and a buyer.                                *)
KFacilities ==
  {[traders |-> <<Source("ore", 4, TRUE), K(1, "ore", 1, k, "fuel", 2, l),
                  Buy(2, <<"fuel">>, Unlimited, 1, 5, 5)>>,
    caps |-> <<3, 5>>, moves |-> MovesBy({"none"})] : k, l \in {0, 1, 2}}

MCFleets == Plants \cup Stores \cup KFacilities

(* A policy that buys two commodities into a buffer of three, and a sink    *)
(* with a capacity of two for the same commodities.                         *)
TwoCommods ==
  {[traders |-> <<Source("uox", 5, TRUE), Source("mox", 5, TRUE),
                  Buy(1, <<"uox", "mox">>, Unlimited, 0, 3, 3),
                  Sink(2, <<"uox", "mox">>, 2)>>, caps |-> <<3, Unlimited>>,
    moves |-> MovesBy({"none"})]}

NoWeights == << >>

(* The books of the traders are computed, not chosen.                       *)
NoBooks(book) == {}
=============================================================================
