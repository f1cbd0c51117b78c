CONSTANTS
    n1 = n1
    n2 = n2
    pA = pA
    r1 = r1
    r2 = r2
    Nodes = {n1, n2}
    Requests = {r1, r2}
    Projects = {pA}
    MaxUsers = 3
    MaxCreated = 1
    MaxTokens = 2
    MaxEdits = 1
SPECIFICATION Spec
CHECK_DEADLOCK FALSE
INVARIANTS
    SessionCurrent
    ExchangedOnce
    AdminRemains
PROPERTY
    StartsServe
