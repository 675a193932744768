SPECIFICATION FairSpec
CONSTANTS
    PollSizes = {3, 4}
    HeaderRoom = 1
    Conns = {2, 3}
    Kinds <- MCKinds
    MaxRequests = 2
    Room = 1
    Cuts = {2}
CHECK_DEADLOCK FALSE
INVARIANTS
    TableIsMap
    AnswersInOrder
PROPERTY
    RequestAnswered
    GoneIsForgotten
