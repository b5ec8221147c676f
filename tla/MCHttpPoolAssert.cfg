SPECIFICATION Spec
CONSTANTS
    Conns = {c1, c2}
    Origins = {near, far}
    MaxRedirects = 1
    MaxParts = 1
    MaxRequests = 1
    None = None
INVARIANTS
    BodyFollowsHead
\* A failed assertion ends the program.
CHECK_DEADLOCK FALSE
