SPECIFICATION FairSpec
CONSTANTS
    NItems = 3
    n_jobs = 0
    HardwareConcurrency = 1
    Main = Main
    None = None
INVARIANTS
    TypeOK
    OneWorkerPerItem
PROPERTIES
    ImplementsItemBatch
    EventuallyReturns
\* The call really ends.
CHECK_DEADLOCK FALSE
