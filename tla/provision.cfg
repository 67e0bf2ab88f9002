SPECIFICATION Spec
CONSTANTS
    h1 = h1  h2 = h2  n1 = n1
    m1 = m1  m2 = m2
    i1 = i1  i2 = i2
    Host = {h1, h2}
    Name = {n1}
    ToCreate <- Created
    ToRemove <- Removed
    Alike = {}
    Mutex = {m1, m2}
    Image = {i1, i2}
    LastNumber = 0
    MaxSession = 2
    NoKey = NoKey
    NoReq = NoReq
    NoName = NoName
    Gone = Gone
    NoImage = NoImage
    UseEtcd = TRUE
    Kernel = TRUE
    RemoveAction = {"ignore", "delete", "rename"}
    CanCreate = TRUE
    CanCreatePools = TRUE
    Options = FALSE
    Faults = {"lease", "unlock", "crash"}
    CmdFaults = {"create", "mkfs", "ls"}
SYMMETRY Symmetry
INVARIANTS
    TypeOK
    NeverReformatted
    CreateKeysAccounted
    IInv
PROPERTY ImplementsImages
