SPECIFICATION FairSpec
CONSTANTS
    Clones = {c1, c2}
    Domains = {d1, d2}
    MaxWrites = 3
    Attempts = 2
CHECK_DEADLOCK FALSE
INVARIANTS CommitOnBranchStands AnswersAreTrue
PROPERTIES RemoteIsSharedLog CommitsAreShared
