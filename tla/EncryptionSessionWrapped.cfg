CONSTANTS
    Requests = {r1, r2}
    r1 = r1
    r2 = r2
    Pieces = 2
    MaxTries = 1
SPECIFICATION Spec
INVARIANT AllErrorsWrapped
CHECK_DEADLOCK FALSE
