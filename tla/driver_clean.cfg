SPECIFICATION Spec
CONSTANTS
    h1 = h1
    h2 = h2
    v1 = v1
    v2 = v2
    c1 = c1
    c2 = c2
    d1 = d1
    d2 = d2
    d3 = d3
    Host = {h1}
    Volume = {v1, v2}
    Caller = {c1, c2, NoID}
    NoID = NoID
    Mutex = {1, 2, 3}
    MaxSession = 1
    NoKey = NoKey
    NoReq = NoReq
    UseEtcd = TRUE
    ReuseIDs = FALSE
    Faults = {}
    Device = {d1, d2, d3}
    NoDev = NoDev
    API = API
    Reader = {p1}
    Kernel = TRUE
    CmdFaults = {"map", "check", "mkdir", "mount"}
    LateFaults = {}
SYMMETRY Symmetry
INVARIANTS
    GrantedStaysMounted
    IdleMountsAreGrants
    TidyInv
    KeysAccounted
    IdleLocksAreGrants
    LastOutUnmounts
