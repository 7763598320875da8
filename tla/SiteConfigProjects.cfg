SPECIFICATION Spec
CONSTANTS
    NoDomain = NoDomain
    Names = {"a", "b"}
    Subs = {"api"}
    Wildcards = {"star"}
    WildcardOf <- OneWildcard
    Dirs = {"d1"}
    Roots = {"r1"}
    RootOrder <- OneRoot
    Parent <- UnderOneRoot
    DirName <- DirNames
    Paths = {"p1"}
    Ports = {1, 2}
    Bindings = {{}, {1}, {2}}
    Clients = {"c1"}
    Ops = {"park", "link", "proxy", "project", "secure", "crash", "fs"}
    HandWritten <- NoFile
    MaxCustom = 0
INVARIANTS
    DiskIsMemory RouterFollowsConfig
PROPERTIES
    ProjectsSound SecureTakesEffect LinkTakesEffect
