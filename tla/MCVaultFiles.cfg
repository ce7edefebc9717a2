SPECIFICATION Spec
CONSTANTS
    t1 = t1
    t2 = t2
    A = A
    B = B
    C = C
    D = D
    Turns = {t1, t2}
    ChatOf <- EachItsOwn
    Inbox = Inbox
    Pages = {Inbox}
    Skipped = {Inbox}
    Typed = {B}
    Names <- FourNames
    Old = Old
    Hand = Hand
    MaxActions = 2
    MaxWrites = 2
    MaxCrashes = 1
INVARIANTS
    TypeOK
    NothingIsLost
    UndoIsExact
    UndoableOrReported
SYMMETRY Symmetry
CHECK_DEADLOCK FALSE
