SPECIFICATION PartsSpec
CONSTANTS
    blog = blog
    Blog = Blog
    shop = shop
    unallocated = unallocated
    Spellings = {blog, Blog, shop, unallocated}
    Fold <- MCFold
    Reserved = unallocated
    Unallocated = none
    Sites = {s1, s2}
    Roots = {"r1"}
    Projects = {"p1", "p2"}
    RootOf <- MCRootOf
    MaxChanges = 3
    Clients = {"c1", "gui"}
    TTL = 2
    MAX_CONNS = 1
    MaxCodes = 3
    MaxClock = 4
    Gui = "gui"
    MaxBoots = 2
    Desired <- MCDesired
    Fallback <- MCFallback
    DnsPorts = {0, 1053, 8443}
    AnyPorts = {8443, 9001}
    RETRY_BUDGET = 3
    MaxMoves = 1
INVARIANTS MembersCanonical WatchesServe CodeLiveOnlyWhileOn RestartsSafe PortsWhole SavedReloads
PROPERTIES MailKept UsersThingsKept HostSetUpWhole MessagesUnderstood DesktopFollows InstallsWhole
CHECK_DEADLOCK FALSE
