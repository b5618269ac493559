CONSTANTS
    Main = main
    Threads = {main}
    Catalogue <- NetlinkOnly
    ExistingPaths = {}
    MaxFilters = 1
    CompilerLimit = 8
    Calls <- SocketCalls

SPECIFICATION Spec

INVARIANT NetlinkAdmitsOnlyNetlinkSockets
