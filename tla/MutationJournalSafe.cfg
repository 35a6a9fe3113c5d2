SPECIFICATION FairSpec
CONSTANTS
    Domains = {"d", "e"}
    SoftDomains = {"e"}
    MaxWrites = 2
    MaxCrashes = 2
CHECK_DEADLOCK FALSE
INVARIANTS AllOrNothing
PROPERTIES PendingIsResolved
