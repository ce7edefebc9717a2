SPECIFICATION PageSpec
CONSTANTS
    StartPages <- TwoPages
    MAX_BLOCKS_PER_REQUEST = 1
    MAX_PAGE_BLOCKS = 4
    PAGE_SIZE = 2
    MAX_RETRIES = 1
    MAX_MATCHED_LINES = 1
    MaxOps = 1
    MaxLines = 2
    MaxFaults = 0
    MaxHand = 0
    MaxPresses = 2
INVARIANT UndoTakesNobodysLines
CHECK_DEADLOCK FALSE
