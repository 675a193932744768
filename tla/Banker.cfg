SPECIFICATION FairSpec
CONSTANTS
    Resource = {a, b}
    Counts = {3}
    Units = 1
    Matrix = TRUE
    Again = FALSE
INVARIANTS
    Conserved
PROPERTIES
    SoundVerdict
    RefusedIsUndone
    ScanEnds
