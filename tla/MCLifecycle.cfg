SPECIFICATION LifecycleSpec
CONSTANTS
    Machines <- MCMachines
    Guests <- MCGuests
    Versions = {1, 2}
    MaxCommands = 3
    MaxCuts = 1
    MaxEvents = 2
CHECK_DEADLOCK FALSE
INVARIANT EngineStarts
PROPERTIES UpConverges OwnerKept DownRestores
