SPECIFICATION Spec
CONSTANTS
    BlockUnits = 2
    SegBlocks = 2
    Retained = 2
    FrameUnits = 4
    Grown = 6
    MaxWritten = 8
    MaxWire = 1
    MaxSessions = 2
    MaxPending = 1
    Tables = {1, 2}

PROPERTY NeverSkipped
CHECK_DEADLOCK FALSE
