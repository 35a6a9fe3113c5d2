SPECIFICATION GraphFairSpec
CONSTANTS
    Processes = {p1, p2}
    Asking = {p1}
    Contents = {a, b}
    Original = a
    Nil = Nil
    MaxBuilds = 2
    MaxEdits = 1
    MaxCrashes = 1
CHECK_DEADLOCK FALSE

PROPERTIES NewerIsNotDisowned AnswersAreCurrent SearchesReturn
