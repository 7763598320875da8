SPECIFICATION Spec
CONSTANTS
    NoDomain = NoDomain
    Names = {"a", "b"}
    Subs = {"api"}
    Wildcards = {"star"}
    WildcardOf <- OneWildcard
    Dirs = {"d1", "d2"}
    Roots = {"r1"}
    RootOrder <- OneRoot
    Parent <- UnderOneRoot
    DirName <- DirNames
    Paths = {"p1"}
    Ports = {1, 2, 3}
    Bindings = {{}}
    Clients = {"c1"}
    Ops = {"park", "project"}
    HandWritten <- NoFile
    MaxCustom = 2
PROPERTIES
    LinkedProjectIsRouted
