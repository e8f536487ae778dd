SPECIFICATION FairSpec
CONSTANTS
  Queries = {q1, q2}
  Versions = {"tcp"}
  MaxMade = 2
  Free = Free
PROPERTY ExchangeReturns
