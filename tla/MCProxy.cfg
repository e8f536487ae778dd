SPECIFICATION HSpec
CONSTANTS
  Tasks = {t1, t2}
  Requests <- MCRequests
  Messages <- MCMessages
  Groups <- MCGroups
  Size = 2
  MinTtl = 0
  MaxTtl = Unbounded
  Unbounded = Unbounded
  TicksPerSec = 1
  U32 = 6
  MaxTime = 1
SYMMETRY TaskSymmetry
INVARIANTS
  AnswersComeFromTheRule
PROPERTIES
  EvictsOnlyTheColdest
