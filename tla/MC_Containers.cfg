CONSTANTS
    k1 = k1  k2 = k2  k3 = k3  d = d  f1 = f1  f2 = f2
    NoParent = NoParent
    Containers <- MCContainers
    Dirs <- MCDirs
    Files <- MCFiles
    PathUnder <- MCPathUnder
    RecursionLimit = 4
    MaxCalls = 3
SPECIFICATION Spec
INVARIANT TypeOK ParentListed DeleteRemovesAll
