SPECIFICATION PartsSpec
CONSTANTS
    StartPages <- TwoPages
    MAX_BLOCKS_PER_REQUEST = 1
    MAX_PAGE_BLOCKS = 4
    PAGE_SIZE = 4
    MAX_RETRIES = 1
    MAX_MATCHED_LINES = 1
    MaxOps = 2
    MaxLines = 2
    MaxFaults = 1
    MaxHand = 1
    MaxPresses = 2
    Messages = {m1, m2}
    Titles = {t1, t2}
    MAX_INDEX_ROWS = 2
    MaxCreates = 2
    MaxStart = 3
    MaxRowFaults = 1
    MaxRowHand = 1
    Shipped <- ThreeReleases
    Migrations <- OneMigration
    LockOf <- TwoLocks
    KEEP_BACKUPS = 2
    MaxRuns = 4
    MaxStops = 2
    DAY = 6
    Times = {1, 4}
    GRACE = 2
    FIRST_RUN = 3
    MAX_PER_RUN = 1
    MaxWall = 7
    MaxMails = 2
    MaxStarts = 2
    Generations = 2
    MaxSchedFaults = 1
    Kind <- SomeKinds
    StartItems <- SomeItems
    ColumnType <- ThreeColumns
    Required = {"name", "tag", "shelf"}
    Options <- TwoOptions
    Readings <- TwoTexts
    Plans <- SomePlans
    MAX_QUESTIONS = 3
    INTENT_MIN = 1
    TARGET_MIN = 1
    TARGET_MARGIN = 1
    FIELD_MIN = 1
    DATE_MIN = 1
    HALF = 0
    SURE = 2
    MaxGone = 1
    Workspaces <- ThreeWorkspaces
    SkipPages = {"secret"}
    MaxImports = 2
    MaxDeaths = 1
    MaxEdits = 1
    MaxChanges = 1
    Alphabet <- FiveNames
    Alike <- FourAlike
    Consumables = {"sacks", "milk"}
    StartProducts <- OneProduct
    StartTasks <- FourChores
    Askable <- SomeHeard
    Shoppers = {s1, s2}
    WrittenIn = {"trash"}
    MaxSetups = 2
    MaxGroceryHand = 1
INVARIANTS
    PartsTypeOK BlocksAreSafe LandsAsNumbered UndoBringsBack OneCopyPerFault
    NoRowTwice RollbackRestores DigestsComeOnce WrittenAsMeant ImportMindsItsOwn
PROPERTY GroceriesKept
CHECK_DEADLOCK FALSE
