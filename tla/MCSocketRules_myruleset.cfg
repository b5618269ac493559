CONSTANTS
    Main = main
    Threads = {main}
    Catalogue <- MyRuleSetOnly
    ExistingPaths = {}
    MaxFilters = 1
    CompilerLimit = 8
    Calls <- SocketCalls

SPECIFICATION Spec

INVARIANT MyRuleSetAdmitsOnlyStreamSockets
