SPECIFICATION Spec
CONSTANTS
  Solvers = {"greedy", "prog"}
  RequestBooks <- MCRequests
  BidBooks <- MCBids
  AdjustedPrefs <- MCPrefs
  CommodWeights <- Weights
  Unlimited = 1000
  NaN = NaN
INVARIANTS
  WithinLimits WholeOrNothing OrderRespected TradesSettled MatchedWherePossible
CHECK_DEADLOCK FALSE
