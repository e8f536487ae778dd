SPECIFICATION FairSpec
CONSTANTS
  Queries = {q1, q2, q3}
  MaxExchanges = 4
  Free = Free
INVARIANT DialsAreEarned
PROPERTY KeepsOneConnection
PROPERTY ExchangeReturns
CHECK_DEADLOCK FALSE
