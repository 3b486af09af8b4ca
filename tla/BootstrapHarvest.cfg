\* Two pages, one of them new after the start; a daemon and an audit.
SPECIFICATION FairSpec
CONSTANTS
    Pages = {pA, pB}
    Empty = {}
    Later = {pB}
    Headed = {}
    Long = {pA}
    Turns = 2
    Procs = {daemon, audit}
    Daemon = daemon
    MaxText = 2
    MaxSec = 1
    Damages = {"malformed"}
    NoRow = NoRow
    MaxFaults = 1
    MaxEvents = 2
    MaxStops = 1
INVARIANTS SummaryIsPaidOnce Phase2HasItsRows
PROPERTIES CatalogCatchesUp
