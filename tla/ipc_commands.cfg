SPECIFICATION FairSpec
CONSTANTS
    Conns = {c1, c2, c3}
    Limit = 2
    StopItem = StopItem
INVARIANTS
    TypeOK
    WorkBounded
    OneLateCommand
PROPERTIES
    ImplementsService
    CloseEndsController
    EveryConnectionEnds
CHECK_DEADLOCK FALSE
