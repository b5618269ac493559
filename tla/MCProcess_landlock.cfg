CONSTANTS
    Main = main
    Threads = {main, worker}
    Catalogue <- MCLandlockCatalogue
    ExistingPaths = {"tmp_dir_allow"}
    MaxFilters = 2
    CompilerLimit = 8
    Calls <- MCFileCalls

SPECIFICATION Spec

INVARIANTS SyncedFiltersOnEveryThread
