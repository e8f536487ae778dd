\* u1 may stop answering, u2 always answers.
SPECIFICATION FairSpec
CONSTANTS
  u1 = u1
  u2 = u2
  u3 = u3
  dflt = dflt
  rule = rule
  Queries = {q1}
  Upstreams = {u1, u2}
  Groups = {dflt}
  Members <- PairGroup
  Modes = {"LoadBalance"}
  Samples <- TwoLatencies
  Untested = 9
  CursorMod = 4
  Reliable = {u2}
PROPERTIES
  DeadIsNotPreferred
