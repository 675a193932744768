SPECIFICATION Spec
CONSTANTS
    Keys = {"k1", "k2", "k3", "k4"}
    Vals = {v1, v2, v3}
    Names = {"a", "b", "c"}
    Name <- MCName
    Hash <- MCHash
    Capacities = {0, 3}
    Load = 75
    Limits = {0, 2, 3}
    MaxPower = 3
    None = None
SYMMETRY Symmetry
INVARIANTS
    ListIsTable
    OwnedOnce
    IterMeetsAll
PROPERTY
    ImplementsOrderedMap
