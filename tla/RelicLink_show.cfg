SPECIFICATION FairSpec
CONSTANTS
    MAX_ITEMS_PER_TICK = 2
    MAX_QUEUED_COMMANDS = 2
    MAX_TYPED_LINE = 2
    Holdover = 2
    MaxDelta = 1
    MaxInbox = 2
    MaxCommands = 3
INVARIANTS TypeOK NoTypingMidShow BacklogIsNewest
PROPERTIES LastFrameDecides TakeoverEnds TickEnds
CHECK_DEADLOCK FALSE
