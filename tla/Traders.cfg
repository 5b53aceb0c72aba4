SPECIFICATION TSpec
CONSTANTS
  Solvers = {"greedy"}
  Fleets <- MCFleets
  MaxTime = 3
  RequestBooks = {}
  BidBooks <- NoBooks
  AdjustedPrefs <- NoBooks
  CommodWeights <- NoWeights
  Unlimited = 1000
  NaN = NaN
INVARIANTS
  NothingThrown MaterialConserved BuffersKept PoliciesKept
CHECK_DEADLOCK FALSE
