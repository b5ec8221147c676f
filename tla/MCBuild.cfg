SPECIFICATION BuildSpec
CONSTANTS
    lib_o = lib_o
    main_o = main_o
    lib_c = lib_c
    shared_h = shared_h
    lib_a = lib_a
    test_exe = test_exe
    flagsA = flagsA
    flagsB = flagsB
    Outputs <- MCOutputs
    Inputs <- MCInputs
    Reads <- MCReads
    Commands <- MCCommands
    Libraries <- MCLibraries
    Objects <- MCObjects
    Executables <- MCExecutables
    Entry <- MCEntry
    Links <- MCLinks
    Tests <- MCTests
    MaxEdits = 2
    MaxBuilds = 2
    MoveOldFiles = FALSE
    None = None
INVARIANTS
    TypeOK
    SkippedIsCurrent
PROPERTIES
    SuccessLinksCurrentObjects
    NextBuildSkipsWhatWasRecorded
SYMMETRY Symmetry
CHECK_DEADLOCK FALSE
