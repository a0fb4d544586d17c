CONSTANTS
    Lines <- TypedLines
    MaxLines = 2
    MaxKeys = 2
    MaxMessages = 2
    Capacity = 1
SPECIFICATION FairSpec
CHECK_DEADLOCK FALSE
INVARIANTS
    TypeOK
    UnderstoodUnlessNameInCommand
    OneCommandAfterCancel
    LoopStopsOnlyUnauthenticated
    CommandsUseNewestKey
PROPERTIES
    ArrivedIsPrinted
    ShutdownEnds
