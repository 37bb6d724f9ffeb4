SPECIFICATION Spec
CONSTANTS
    m1 = m1
    m2 = m2
    w1 = w1
    w2 = w2
    NoWorker = NoWorker
    Messages = {m1, m2}
    Workers = {w1, w2}
    Key <- TwoKeys
    Thread <- OneThread
    Channel <- Ota
    MaxAttempts = 2
    MaxFaults = 1
SYMMETRY WorkerSymmetry
INVARIANTS
    TypeOK
    EchoNotDoubled
    FailedOtaUndelivered
PROPERTIES
    ImplementsGuestDelivery
CHECK_DEADLOCK FALSE
