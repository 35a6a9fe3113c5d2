SPECIFICATION FairSpec
CONSTANTS
    Callers = {c1, c2}
    Slugs = {1, 2}
    plain = plain
    described = described
    scenario = s1
    Texts <- MCTexts
    Scenarios = {s1}
    Declares <- MCDeclares
    Absent = Absent
    Attempts = 2
    MaxCalls = 3
CHECK_DEADLOCK FALSE
INVARIANTS StrictDeclaresOnce ProjectionIsHonest ChunksAreKnown
PROPERTIES NoLostUpdate CallsReturn
