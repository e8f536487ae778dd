SPECIFICATION FairSpec
CONSTANTS
  Conns = {c1, c2}
  Queries = {q1, q2, q3, q4}
  Bad = {q4}
  Txt = {q2}
  Denied = {q2}
  Stuck = {q3}
  Deaf = {c2}
  Sizes = {1, 3, 5}
  Overhead = 1
  UdpMax = 3
  PrefixMax = 4
CHECK_DEADLOCK FALSE
INVARIANT HalfClosedIsServed
PROPERTY UdpIsolated
PROPERTY ConnectionServed
PROPERTY StreamServed
