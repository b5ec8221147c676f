SPECIFICATION MCSpec
CONSTANTS
    Callers = {test, compile}
    Timed = {test}
    MaxChunks = 2
    MaxForkFailures = 1
    Parent = Parent
    Users = {older, newer, newest}
    OldUser = older
    Known <- MCKnown
    MaxOpens = 2
    NoUser = NoUser
    Builds = {b1, b2, b3}
    Files = {f1, f2, f3, f4}
    NoDbFile = NoDbFile
    NoFile = NoFile
    Fetchers = {p1, p2}
    Remotes = {web, local}
    FileRemotes = {local}
    Revisions = {1, 2}
    Members = {source}
    PkgJson = PkgJson
    Absent = Absent
    ShellFiles <- MCShellFiles
    Required = {"profile"}
    Lines = {l1, l2}
    PathEntry = PathEntry
    Gone = Gone
    MaxRuns = 2
    MaxSaves = 2
    UsageMaps <- MCUsageMaps
    UsagePlans <- MCUsagePlans
    Questions <- MCQuestions
    All = All
    NoRevision = NoRevision
    SolverVersions = {1, 2}
    SolverLibraries = {"x", "y"}
    Invalid = Invalid
    Characters <- TextCharacters
    Rglob = Rglob
    NotGiven = NotGiven
    Refused = Refused
    Anything = Anything
INVARIANTS
    TypesOK
    ReturnsOwnResult
    TimesOutOnlyWhileRunning
    VersionIsWhatWasApplied
    RecordsAreKept
    LoadsOneDistribution
    UserFilesSurvive
    AlgebraIsOfCandidates
    RequirementsAreTheCandidates
    CyclesAreFound
    UsedArchivesFollow
    OutputsAreDistinct
    AskedIsCompiledOrMissing
    TextsMeanWhatTheySay
    CommandsAreTold
    WordsAreUnderstood
    CommandsSayTheToolchain
    CommandLinesAreUnderstood
    PackagesAreReadBack
PROPERTIES
    EverythingEnds
\* Every part comes to an end, its bounds used up.
CHECK_DEADLOCK FALSE
