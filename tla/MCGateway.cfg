SPECIFICATION GatewaySpec
CONSTANTS
    Bind = {b1, b2}
    Port = {p}
    RConn = {c1, c2}
    Proxy = {x1}
    Stream = {s1, s2}
    Answer = {"ok", "inuse"}
    Nil = Nil
INVARIANTS
    AnswerOwn
    NoStrayStream
    BindNeverBlocked
SYMMETRY Sym
CHECK_DEADLOCK FALSE
