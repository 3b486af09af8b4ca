\* A thread of the daemon and one of an MCP server; two pages, two changes, three calls.
SPECIFICATION Spec
CONSTANTS
    daemon = daemon
    mcp = mcp
    d = d
    m = m
    pA = pA
    pB = pB
    k = k
    w = w
    Procs = {daemon, mcp}
    Callers = {d, m}
    Home <- MCHome
    PageOrder <- MCOrder
    Names = {k}
    Words = {w}
    Texts <- MCTexts
    First <- MCFirst
    NoPage = NoPage
    None = None
    Resident = {mcp}
    MaxEdits = 2
    MaxCalls = 3
INVARIANTS ResolvesAsPagesSay CorpusCounts BacklinkHitsAreFresh
CHECK_DEADLOCK FALSE
