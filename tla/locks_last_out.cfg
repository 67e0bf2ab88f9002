SPECIFICATION Spec
CONSTANTS
    h1 = h1
    h2 = h2
    c1 = c1
    c2 = c2
    c3 = c3
    Host = {h1}
    Volume = {v1}
    Caller = {c1, c2}
    NoID = NoID
    Mutex = {1, 2, 3}
    MaxSession = 1
    NoKey = NoKey
    NoReq = NoReq
    UseEtcd = TRUE
    ReuseIDs = FALSE
    Faults = {"lease"}
INVARIANT LastLockUnmounts
