SPECIFICATION InstallerSpec
CONSTANTS
    Lima = {"drawbridge", "dev"}
    Podman = {"pod"}
    DefaultVM = "drawbridge"
    UDPSets = {"nothing", "53"}
    MaxCommands = 3
    MaxEvents = 3
CHECK_DEADLOCK FALSE
INVARIANTS PinsOwnVM JobIsInstalled
PROPERTY StartsOnItsOwn
