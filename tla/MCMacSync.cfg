SPECIFICATION FairSpec
CONSTANTS
  a1 = a1
  p = p
  q = q
  Listener = {a1}
  Key = {p, q}
  KeyOf <- OneListener
  Preset = {q}
  Harness = Harness
  Session = {c1, c2, c3}
  Outcomes = {TRUE, FALSE}
  MaxWire = 2
  MaxFaults = 2
  None = None
INVARIANTS NoStaleSteering InStep
PROPERTIES Converges EventuallyServed
