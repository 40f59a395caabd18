SPECIFICATION FairSpec
CONSTANTS
  Listener = {l1, n1}
  Noise = {n1}
  Session = {s1, s2}
  Cap = 3
  None = None
INVARIANTS NoEventLost
PROPERTIES Converges ImplementsFeed
