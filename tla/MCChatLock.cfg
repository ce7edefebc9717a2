SPECIFICATION FairSpec
CONSTANTS
    Turns = {t1, t2, t3, t4}
    Chats = {c1, c2}
    Locks = {l1, l2, l3, l4}
    NoLock = NoLock
    NoChat = NoChat
    Nobody = Nobody
INVARIANTS
    TypeOK
    MutualExclusion
    TablesTrackTurns
    NobodyForgotten
PROPERTIES
    EveryoneGetsIn
    ImplementsQueue
