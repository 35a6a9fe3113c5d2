SPECIFICATION FairSpec
CONSTANTS
    Sessions = {s1, s2}
    Owners = {"o1", "o2"}
    Payloads = {"a", "b"}
    Pages = {"p"}
    DeletablePages = {"p"}
    Texts = {"t", "u"}
    None = None
    MaxOrdinal = 1
    RowsPerKind = 1
    TableRows = 1
    Ttl = 1
    StagingRetention = 1
    StagingLimit = 1
    CallDelay = 0
    MaxClock = 2
    MaxGeneration = 3
CONSTRAINT OneMore
CHECK_DEADLOCK FALSE
INVARIANTS ActiveIsWhole GenerationNamesRevision CurrentLinksAreDerived
PROPERTIES ImplementsRegister ResultKept CallsReturn
