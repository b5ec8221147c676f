SPECIFICATION Spec
CONSTANTS
    bptA = bptA
    bptB = bptB
    v1 = v1
    old = old
    new = new
    Procs <- MCProcs
    Versions <- MCVersions
    MaxRevision = 2
    Contents <- MCContents
    MaxCommands = 4
    Unknown = Unknown
    None = None
INVARIANTS
    TypeOK
    RowHasFiles
PROPERTIES
    PublishesWhatItCommitted
SYMMETRY Symmetry
\* When every command has ended, nothing happens.
CHECK_DEADLOCK FALSE
