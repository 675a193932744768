SPECIFICATION Spec
CONSTANTS
    Threads = {t1, t2}
    Loggers <- MCLoggers
    LevelName = "INFO"
    Calls <- MCCalls
    MaxFiles = 3
    DayHours = 2
    Offset <- MCOffset
    MaxHour = 11
    Begin = 7
    Moments = {8, 9, 11}
    Old = {1, 2}
    Frames = 0
    MaxCalls = 1
    MaxStarts = 2
    MaxFailures = 1
SYMMETRY Symmetry
INVARIANTS
    FilesInOrder
    ErrorsSurvive
    TraceComplete
PROPERTY
    Retention
