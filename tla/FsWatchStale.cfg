SPECIFICATION Spec
CONSTANTS
    Roots = {r1}
    Projects = {p1}
    RootOf <- OneRoot
    MaxChanges = 5
PROPERTY RebuildIsFresh
