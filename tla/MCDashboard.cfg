SPECIFICATION Spec
CONSTANTS
    Discover <- MCDiscover
    PinVM = "user"
    None = None
    Fetch = {f1, f2}
    RingSize = 2
    refusalCap = 2
    maxMissedTicks = 1
    MaxRefusals = 3
    MaxKeys = 3
    MaxStops = 1
SYMMETRY Symm
INVARIANTS DoctorInStep LogInOrder NothingHidden
