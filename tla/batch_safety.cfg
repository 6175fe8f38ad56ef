CONSTANTS
    q1 = q1
    q2 = q2
    q3 = q3
    rt = rt
    cb = cb
    Nil = Nil
    Calls = {q1, q2, q3, rt, cb}
    Realtime = {rt, cb}
    Nested = {cb}
    AsyncCheck = Nil
    Callback = TRUE
    MaxSize = 2
SPECIFICATION FairSpec
INVARIANTS
    TypeOK
    InOrderOnce
    NoOrphan
    TimerGuardsBatch
    BatchBound
PROPERTIES
    NoEarlyFlush
    ImplementsCompletion
    EveryCallReturns
    RealtimeIsolated
