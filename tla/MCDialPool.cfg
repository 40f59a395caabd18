SPECIFICATION FairSpec
CONSTANTS
  Conn = {c1, c2}
  Popper = {w1, w2}
  PoolCap = 1
  MaxDeaths = 2
  None = None
INVARIANTS SingleOwner DeadNotReturned
PROPERTIES PopReturns
