SPECIFICATION FairSpec
CONSTANT NUM = 6
INVARIANTS
    NoCircularWait
PROPERTIES
    EveryoneEats
