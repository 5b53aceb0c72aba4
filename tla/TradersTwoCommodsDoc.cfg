SPECIFICATION TSpec
CONSTANTS
  Solvers = {"greedy"}
  Fleets <- TwoCommods
  MaxTime = 3
  RequestBooks = {}
  BidBooks <- NoBooks
  AdjustedPrefs <- NoBooks
  CommodWeights <- NoWeights
  Unlimited = 1000
  NaN = NaN
INVARIANTS
  CommodsAreAlternatives
CHECK_DEADLOCK FALSE
