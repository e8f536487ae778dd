SPECIFICATION FairClientSpec
CONSTANTS
  Resolvers = {r1, r2}
  a1 = a1
  a2 = a2
  b1 = b1
  b2 = b2
  IsV6 <- MCIsV6
  Answers <- MCAnswers
  MaxDials = 2
  Silent = {a1}
CHECK_DEADLOCK FALSE
INVARIANT FailsOnlyWhenAllDo
INVARIANT DialsInOrder
PROPERTY OneResolverSuffices
PROPERTY ExchangeEnds
