CONSTANTS
    Harness <- ExHarness
    Threads <- ExThreads
    Modes <- ExModes
    Programs <- ExPrograms
    ExistingPaths <- ExPaths
    MaxFilters = 2
    CompilerLimit = 8

SPECIFICATION Spec

INVARIANTS BinarySucceeds
