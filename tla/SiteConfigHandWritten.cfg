SPECIFICATION Spec
CONSTANTS
    NoDomain = NoDomain
    Names = {"a", "b"}
    Subs = {"api"}
    Wildcards = {"star"}
    WildcardOf <- OneWildcard
    Dirs = {"d1", "d2"}
    Roots = {"r1"}
    RootOrder <- OneRoot
    Parent <- UnderOneRoot
    DirName <- DirNames
    Paths = {"p1"}
    Ports = {1}
    Bindings = {{}}
    Clients = {}
    Ops = {}
    HandWritten <- WrittenFiles
    MaxCustom = 0
INVARIANTS
    ClaimsFollowTheRules NothingDropped PrimaryIsRouted LossesReported
CHECK_DEADLOCK FALSE
