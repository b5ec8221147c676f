SPECIFICATION FairSpec
CONSTANTS
    Conns = {c1, c2}
    Origins = {near, far}
    MaxRedirects = 2
    MaxParts = 2
    MaxRequests = 2
    None = None
INVARIANTS
    TypeOK
    PooledAreBetweenMessages
    AssertionsHoldOtherwise
PROPERTIES
    RequestsEnd
\* A failed assertion ends the program.
CHECK_DEADLOCK FALSE
