SPECIFICATION Spec
CONSTANTS
    Keys = {"k1", "k2", "k3", "k4"}
    Vals = {v1, v2, v3}
    Names = {"a", "b", "c"}
    Name <- MCName
    Hash <- MCHash
    Capacities = {0, 3}
    Loads <- MCLoads
    MaxSize = 8
SYMMETRY Symmetry
INVARIANTS
    Consistent
    OwnedOnce
    IterIsApply
PROPERTY
    ImplementsDictionary
