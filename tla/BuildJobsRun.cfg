SPECIFICATION FairSpec
CONSTANTS
    Callers = {1, 2}
    Pollers = {p1}
    Domains = {d1, d2}
    Asked = {"query", "forced"}
    MaxJobs = 2
    History = 1
    Publishes = TRUE
    None = None
CONSTRAINT OneMore
CHECK_DEADLOCK FALSE
INVARIANTS ExplicitIsNotCutShort DoomedNeverPublishes
PROPERTIES CallersAnswered
