CONSTANTS
    c1 = c1
    c2 = c2
    c3 = c3
    p1 = p1
    p2 = p2
    Calls = {c1, c2, c3}
    Paths = {p1, p2}
    PathOf <- MCPathOf
    Asks <- MCAsks
    Kinds <- MCKinds
    Size = 2
    Multipart <- MCMultipart
    MaxFaults = 1
SPECIFICATION Spec
CHECK_DEADLOCK FALSE
INVARIANT
    TornExplained
PROPERTIES
    Implements
    CallsReturn
