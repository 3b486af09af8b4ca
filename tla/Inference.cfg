\* The daemon, request by request, and an audit; two saves of the page.
SPECIFICATION FairSpec
CONSTANTS
    daemon = daemon
    audit = audit
    Procs = {daemon, audit}
    Ops <- MCOps
    Thorough = {daemon}
    Retries = 2
    MaxCalls = 2
    MaxEvents = 1
    Left = {"marpa"}
    MayShrink = FALSE
    MaxVersions = 2
    MemoryEntries = 1
    None = None
INVARIANTS TypeOK AnswersFit TurnsTell
PROPERTIES CallsSettle
CHECK_DEADLOCK FALSE
