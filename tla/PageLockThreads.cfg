SPECIFICATION FairSpec
CONSTANTS
    d1 = d1
    m1 = m1
    m2 = m2
    Daemon = Daemon
    Mcp = Mcp
    None = None
    ProcOf <- MCProcOf
    Threads = {d1, m1, m2}
    Processes = {Daemon, Mcp}
    Pages = {pA}
    LockIds = {k1, k2, k3}
    Inodes = {i1, i2, i3}
    RegistryCap = 1
    Attempts = 2
    MaxDepth = 2
    LocksReportState = FALSE
    HasFcntl = TRUE
    DegradationAllowed = TRUE
    Stoppers = {Daemon}
    Sweepers = {Daemon}
    Probers = {m2}
INVARIANTS ThreadExclusion
PROPERTIES CallsSettle
