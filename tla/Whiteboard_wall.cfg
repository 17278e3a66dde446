SPECIFICATION FairSpec
CONSTANTS
    Patterns = 2
    ReconnectTicks = 3
    MaxDrops = 2
    MaxCommands = 2
    MaxInbox = 1
INVARIANTS TypeOK SaidAgain
PROPERTY Reconnects
