SPECIFICATION CommandSpec
CONSTANTS
    All = All
    NoRevision = NoRevision
    SolverVersions = {1, 2}
    SolverLibraries = {"x", "y"}
    NoFile = NoFile
    Invalid = Invalid
    Characters <- TextCharacters
    Rglob = Rglob
    NotGiven = NotGiven
    Refused = Refused
    Anything = Anything
INVARIANTS
    ShortSwitchesAreParsed
\* An answer is the last step.
CHECK_DEADLOCK FALSE
