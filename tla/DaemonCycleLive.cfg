SPECIFICATION FairSpec
CONSTANTS
    None = None
    Pages = {pA, pB}
    MaxFiles = 1
    Modules = FALSE
    BootDone = TRUE
    MaxEdits = 1
    MaxFaults = 1
    MaxTouches = 1
PROPERTIES PayloadIsFresh PagesSettle StopEnds
