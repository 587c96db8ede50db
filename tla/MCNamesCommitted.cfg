CONSTANTS
    SEGMENT = 3
    SEGMENTS = 2
    PROLOGUE = 1
    TAIL_RESERVE = 1
    STAGING = 2
    Claims = {3}
    MaxTop = 7
    MaxEvents = 0
SPECIFICATION Spec
INVARIANT NamesCommitted
