SPECIFICATION Spec
CONSTANTS
    NoDomain = NoDomain
    Names = {"a", "b"}
    Subs = {"api"}
    Wildcards = {"star"}
    WildcardOf <- OneWildcard
    Dirs = {"d1", "d2"}
    Roots = {"r1"}
    RootOrder <- OneRoot
    Parent <- UnderOneRoot
    DirName <- DirNames
    Paths = {"p1"}
    Ports = {1}
    Bindings = {{}}
    Clients = {}
    Ops = {"park", "link", "domains", "rules"}
    HandWritten <- NoFile
    MaxCustom = 2
INVARIANTS
    FileStaysLoadable
PROPERTIES
    DomainTakesEffect DomainsOfOthersKept CustomisationFollowsSite
