SPECIFICATION FairSpec
CONSTANTS
    Tokens = {"a", "b"}
    Domains = {"d", "e"}
    Sessions = {"s", "z"}
    MaxRequests = 3
    MaxChanges = 1
    MaxEntries = 1
    Ceiling = 2
    Asked <- MCAsked
    Granted <- MCGranted
    Managed <- MCManaged
    Creators <- MCCreators
    None = None
CONSTRAINT OneMore
CHECK_DEADLOCK FALSE
INVARIANTS ServedWithinGrants RevokedHasNothing SessionsAreSeparate
PROPERTIES RequestsReturn
