SPECIFICATION Spec
CONSTANTS
    Clients = {c1, c2}
    Batches = 2
    Direct = FALSE
    None = None
CHECK_DEADLOCK FALSE
INVARIANTS ReportsAreTrue
