SPECIFICATION Spec
CONSTANTS
    IP = {"i1", "i2"}
    NoIP = "noip"
    NoHW = "nohw"
    BadHW = "badhw"
    Loopback = "127.0.0.1"
    Providers = {"lima", "colima", "podman"}
    MaxFaults = 1
    MaxSecrets = 2
INVARIANTS
    RightPeer
PROPERTIES
    NoDowngrade
    Heals
CHECK_DEADLOCK FALSE
