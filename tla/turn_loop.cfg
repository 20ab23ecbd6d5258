\* One task with two runs, two sessions, two inputs of the user or a channel.
SPECIFICATION FairSpec
CONSTANTS
    t1 = t1
    s1 = s1
    s2 = s2
    Tasks <- MCTasks
    Sessions <- MCSessions
    NoSession = NoSession
    FirstSession = s1
    MaxReconnects = 1
    MaxRuns = 2
    MaxInputs = 2
INVARIANT TypeOK
CHECK_DEADLOCK FALSE
PROPERTIES
    KeepsPromise
    NoneIsStale
    EveryEndIsTold
    QueuedIsSent
