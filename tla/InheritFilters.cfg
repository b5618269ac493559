CONSTANTS
    Harness <- IFHarness
    Threads <- IFThreads
    Modes <- IFModes
    Programs <- IFPrograms
    ExistingPaths = {}
    MaxFilters = 2
    CompilerLimit = 8

SPECIFICATION Spec

INVARIANTS BinarySucceeds
