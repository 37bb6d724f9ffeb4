SPECIFICATION FairSpec
CONSTANTS
    m1 = m1
    m2 = m2
    w1 = w1
    w2 = w2
    NoWorker = NoWorker
    Messages = {m1, m2}
    Workers = {w1, w2}
    Key <- OneKey
    Thread <- OneThread
    Channel <- Email
    MaxAttempts = 2
    MaxFaults = 2
INVARIANTS
    ReplyReachesGuestOnce
    JobMatchesMessage
    NoOrphanAttempt
PROPERTIES
    Settles
CHECK_DEADLOCK FALSE
