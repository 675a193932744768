SPECIFICATION FairSpec
CONSTANT thread_number = 12
INVARIANTS
    StartedHasLoop
PROPERTIES
    AllStart
