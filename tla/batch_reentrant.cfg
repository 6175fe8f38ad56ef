CONSTANTS
    q1 = q1
    q2 = q2
    q3 = q3
    rt = rt
    cb = cb
    Nil = Nil
    Calls = {q1, q2, cb}
    Realtime = {q1, q2, cb}
    Nested = {cb}
    AsyncCheck = {q1, q2, cb}
    Callback = TRUE
    MaxSize = 2
SPECIFICATION FairSpec
CHECK_DEADLOCK FALSE
PROPERTIES
    EveryCallReturns
