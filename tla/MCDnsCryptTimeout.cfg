SPECIFICATION Spec
CONSTANTS
  q1 = q1
  q2 = q2
  Queries = {q1, q2}
  Asks <- MCAsks
  Answers <- MCAnswers
  Resolvers <- MCResolvers
  Serials = {1, 2, 3}
  TsStart <- MCTsStart
  TsEnd <- MCTsEnd
  CertTtl = 2
  Block = 4
  HighBit = 8
  KeyLen = 2
  UdpMax = 56
  MaxTime = 4
INVARIANT TimeoutIsRetried
