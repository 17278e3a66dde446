SPECIFICATION FairSpec
CONSTANTS
    N = 1
    CueDevices = {}
    ReleasedDevices = {}
    MAX_CONSECUTIVE_FAILURES = 2
    Room = 2
    TakeWait = 1
    MaxCommands = 3
    MaxPulls = 1
INVARIANTS TypeOK
PROPERTIES EndsOnlyBlocked HandedBack LostCableEndsShow TakeHappens ImplementsHandover
CHECK_DEADLOCK FALSE
