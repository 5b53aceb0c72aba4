---------------------------- MODULE MCSimKernel ----------------------------
(* Instances of SimKernel for TLC: a region, an institution in it and      *)
(* facilities of one prototype whose lifetime the cfg chooses by number.   *)
EXTENDS SimKernelPlan, TLC

MCProto    == {"reg", "inst", "fac"}
MCKind     == [reg |-> "Region", inst |-> "Inst", fac |-> "Facility"]
MCLifetime == [reg |-> -1, inst |-> -1, fac |-> 2]
MCInitial  == <<<<"reg", 0>>, <<"inst", 1>>, <<"fac", 2>>>>

Symmetry == Permutations(Addr)
=============================================================================
