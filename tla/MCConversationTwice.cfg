SPECIFICATION Spec
CONSTANTS
    h1 = h1
    h2 = h2
    m1 = m1
    m2 = m2
    Sweeper = Sweeper
    Turns = {h1, Sweeper}
    Chats = {c1}
    Nobody = Nobody
    NoChat = NoChat
    Messages = {m1, m2}
    InboxMode = "auto"
    SESSION_TTL = 1
    UNDO_WINDOW = 1
    MAX_QUESTIONS = 2
    MaxTime = 2
    MaxTaps = 1
    MaxCrashes = 0
    MaxLost = 0
INVARIANTS
    LandsOnce
SYMMETRY Symmetry
CHECK_DEADLOCK FALSE
