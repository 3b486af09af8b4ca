SPECIFICATION Spec
CONSTANTS
    d1 = d1
    m1 = m1
    m2 = m2
    Daemon = Daemon
    Mcp = Mcp
    None = None
    ProcOf <- MCProcOf
    Threads = {d1, m1, m2}
    Processes = {Daemon, Mcp}
    Pages = {pA, pB}
    LockIds = {k1, k2, k3, k4, k5}
    Inodes = {i1, i2}
    RegistryCap = 1
    Attempts = 2
    MaxDepth = 2
    LocksReportState = FALSE
    HasFcntl = TRUE
    DegradationAllowed = FALSE
    Stoppers = {Mcp}
    Sweepers = {}
    Probers = {m2}
SYMMETRY Identities
INVARIANTS TypeOK MutualExclusion
PROPERTIES ImplementsMutex
