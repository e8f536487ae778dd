SPECIFICATION LiveSpec
CONSTANTS
  Queries = {q1, q2}
  Versions = {"tcp", "h3"}
  MaxMade = 4
  Free = Free
INVARIANT RetryIsFresh
PROPERTY KeepsOneClient
PROPERTY PreferenceSettles
PROPERTY ExchangeReturns
