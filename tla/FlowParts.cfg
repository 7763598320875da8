SPECIFICATION PartsSpec
CONSTANTS
    Claimants = {"app", "blog"}
    Exact = {"app", "a.app", "blog"}
    Wild = {"*.app"}
    Covers <- CoversMC
    NoOne = "none"
    Body = 2
    PipeRoom = 1
    ChannelRoom = 1
    MaxParts = 1
    MaxDiscards = 1
    MaxOut = 3
    Clients = {"c1", "c2"}
    max_restart_attempts = 3
    Window = 2
    MaxRequests = 3
    Versions = {1, 2, 3}
    Pre = {2}
    MaxCommands = 1
    MaxBoots = 2
    Calls = {"a", "b"}
    Ceiling = 2
    MaxFlips = 2
INVARIANTS IndexIsClaims FcgiFaithful ReportsTrue
PROPERTIES ImplementsTable ProxyServesRight EveryWaitEnds
CHECK_DEADLOCK FALSE
