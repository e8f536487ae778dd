\* Two concurrent queries; u2 always answers, and the groups without it can fail.
SPECIFICATION HFairSpec
CONSTANTS
  u1 = u1
  u2 = u2
  u3 = u3
  u4 = u4
  dflt = dflt
  rule = rule
  trio = trio
  empty = empty
  Queries = {q1, q2}
  Upstreams = {u1, u2, u3, u4}
  Groups = {dflt, rule, trio, empty}
  Members <- FourGroups
  Modes = {"LoadBalance", "RoundRobin", "Ordered"}
  Samples <- TwoLatencies
  Untested = 9
  CursorMod = 4
  Reliable = {u2}
  MaxBegun = 6
INVARIANTS
  NoUpstreamLost
  AverageWithinSamples
  Balanced
  ErrorOnlyAfterAll
PROPERTIES
  QueryReturns
  LiveIsMeasured
