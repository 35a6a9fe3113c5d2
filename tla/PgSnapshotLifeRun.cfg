SPECIFICATION LifeFairSpec
CONSTANTS
    Sessions = {s1, s2}
    Owners = {"o1"}
    Payloads = {"a"}
    Pages = {"p"}
    DeletablePages = {"p"}
    Texts = {"t", "u"}
    None = None
    MaxOrdinal = 0
    RowsPerKind = 1
    TableRows = 1
    Ttl = 1
    StagingRetention = 2
    StagingLimit = 1
    CallDelay = 0
    MaxClock = 1
    MaxGeneration = 2
    Refreshers = {"q", "r"}
    Drainers = {"d", "e"}
    Readers = {"r"}
    SupersededRetention = 1
    SupersededLimit = 2
    Reverts = TRUE
CONSTRAINT OneMore
CHECK_DEADLOCK FALSE
INVARIANTS LinksMatchRevision RevertLosesOneBatch
PROPERTIES BacklogDrains
