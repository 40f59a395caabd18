SPECIFICATION FairSpec
CONSTANTS
  Oci = {o}
  Probe = {p}
  Junk = {j}
  Fd = {d1, d2}
  Worker = {w1, w2}
  Name = {m1, m2}
  Max = 2
  StoreCap = 2
  Kcmp = TRUE
  MaxSem = 2
  MaxFaults = 1
  None = None
INVARIANTS OneSupervisor NeverStuck ListenerKept
PROPERTIES BindReceived
