SPECIFICATION WikiFairSpec
CONSTANTS
    Threads = {t1, t2}
    Searchers = {t1}
    Tools = {t2}
    WikiDomains = {"d"}
    PageOrder <- MCPages
    None = None
    MaxVersions = 2
    MaxMishaps = 1
CONSTRAINT OneMore
CHECK_DEADLOCK FALSE
INVARIANTS ReadyIsHonest
PROPERTIES AnswersAreOfOneMoment GraphsAreRepaired
