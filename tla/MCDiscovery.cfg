SPECIFICATION Spec
CONSTANTS
    db = db
    pg = pg
    x1 = x1
    x2 = x2
    r1 = r1
    a1 = a1
    Database = db
    Page = pg
    Things = {x1, x2}
    Places = {db, pg, x1, x2}
    NoPlace = NoPlace
    InboxEnv = NoPlace
    Readers = {r1}
    Behind = Behind
    Requests = {a1}
    Described = {pg}
    Choosable = {pg, x1}
    MaxSaves = 2
    ITEMS = 1
    TTL = 1
    STALE_MAX = 2
INVARIANTS
    TypeOK
    InvalidationHolds
    CreatedIsFound
    OneInboxFlag
CHECK_DEADLOCK FALSE
