SPECIFICATION FairSpec
CONSTANTS
    w1 = w1
    w2 = w2
    a = a
    b = b
    Workers = {w1, w2}
    Chats = {a, b}
    MaxPending = 2
    MaxRounds = 2
    MaxMessages = 3
    MaxEvictions = 1
    NoWorker = NoWorker
CHECK_DEADLOCK FALSE
INVARIANTS
    TypeOK
    NothingOutlivesItsWorker
    ChatIsSerial
    ApprovedByItsChat
PROPERTIES
    TimesOutForWantOfWorkers
    EveryMessageIsHandled
    StopReturns
