SPECIFICATION Spec
CONSTANTS
    bptA = bptA
    bptB = bptB
    v1 = v1
    old = old
    new = new
    Procs = {bptA}
    Versions <- MCVersions
    MaxRevision = 2
    Contents <- MCContents
    MaxCommands = 2
    Unknown = Unknown
    None = None
PROPERTIES
    RemoveRemovesAllRevisions
\* When every command has ended, nothing happens.
CHECK_DEADLOCK FALSE
