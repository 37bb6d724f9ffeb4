CONSTANTS
    Modes = {"instant", "request"}
    ChargeTypes = {"direct", "vayada_payment"}
    MaxAttempts = 3
    MaxTries = 2
    MaxFaults = 3
SPECIFICATION FairSpec
INVARIANTS
    TypeOK
    ConfirmedIsCharged
    EndedIsVoid
    RoomsFollowStay
    BooksFollowStay
PROPERTIES
    StayPromise
    PendingEnds
    HandOffEnds
CHECK_DEADLOCK FALSE
