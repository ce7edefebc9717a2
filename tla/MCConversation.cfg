SPECIFICATION Spec
CONSTANTS
    h1 = h1
    h2 = h2
    m1 = m1
    m2 = m2
    Sweeper = Sweeper
    Turns = {h1, h2, Sweeper}
    Chats = {c1}
    Nobody = Nobody
    NoChat = NoChat
    Messages = {m1, m2}
    InboxMode = "auto"
    SESSION_TTL = 1
    UNDO_WINDOW = 1
    MAX_QUESTIONS = 2
    MaxTime = 1
    MaxTaps = 2
    MaxCrashes = 1
    MaxLost = 1
INVARIANTS
    TypeOK
    WhatWasReadHolds
    NothingLost
    LandsOnceUnlessDoubled
    UndoneOnce
PROPERTIES
    PressesMeetTheirQuestion
    SweepSparesTheLiving
SYMMETRY Symmetry
CHECK_DEADLOCK FALSE
