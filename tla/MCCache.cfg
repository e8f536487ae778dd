SPECIFICATION Spec
CONSTANTS
  Tasks = {t1, t2}
  Requests <- MCRequests
  Answers <- MCAnswers
  Size = 1
  MinTtl = 1
  MaxTtl = 2
  Unbounded = Unbounded
  TicksPerSec = 2
  U32 = 4
  MaxTime = 4

SYMMETRY TaskSymmetry
INVARIANTS
  HitIsFresh
  AnswersOwnQuery
  EntriesAreGenuine
  StoredTtlClamped
