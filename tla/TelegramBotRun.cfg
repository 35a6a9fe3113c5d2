SPECIFICATION FairSpec
CONSTANTS
    Users = {"ann", "bob", "eve"}
    Allowed = {"ann", "bob"}
    Domains = {d}
    Asked <- MCAsked
    MaxUpdates = 4
    MaxPreviews = 1
    MaxEdits = 1
    MaxMishaps = 2
    None = None
CONSTRAINT OneOf
CHECK_DEADLOCK FALSE
INVARIANTS WrittenAsConfirmed RepliesAreTrue
PROPERTIES UpdatesAreAnswered
