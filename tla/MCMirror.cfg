SPECIFICATION Spec
CONSTANTS
  a1 = a1
  a2 = a2
  u1 = u1
  s1 = s1
  x1 = x1
  tcp = tcp
  udp = udp
  ssh = ssh
  Listener = {a1, a2, u1, s1, x1}
  Key = {tcp, udp, ssh}
  KeyOf <- MCKeyOf
  Mirrorable = {a1, a2, u1, s1}
  Skip = {ssh}
  Udp = {udp}
  Hows = {"exact", "wild"}
  Id = {i1, i2}
  None = None
SYMMETRY Symm
INVARIANTS NoPhantomMirror ExactMirrors HeldWhileConnected
PROPERTIES NoShadowOpen
