SPECIFICATION Spec
CONSTANTS
  a1 = a1
  a2 = a2
  f = f
  e = e
  p = p
  q = q
  Sock = {a1, f, e}
  Key = {p, q}
  KeyOf <- MCKeyOf
  Reuse = {}
  Ephemeral = {e}
  Udp = {a1, f}
  Foreign = {f}
  SkCap = 1
  RingCap = 2
  Wrap = 8
  MaxListens = 3
  Absent = Absent
CHECK_DEADLOCK FALSE
INVARIANTS NoMissed CountExact HubInStep
