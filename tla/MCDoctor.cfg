SPECIFICATION DoctorSpec
CONSTANTS
    Providers = {"lima", "colima", "podman"}
    MaxDisturbances = 1
INVARIANTS
    FailHasCause
    GateNamed
    CleanMeansWorking
CHECK_DEADLOCK FALSE
