SPECIFICATION Spec
CONSTANTS
    None = None
    Pages = {pA, pB}
    MaxFiles = 1
    Modules = TRUE
    BootDone = FALSE
    MaxEdits = 1
    MaxFaults = 1
    MaxTouches = 1
SYMMETRY PageNames
INVARIANTS TypeOK AtMostOneIndex CrashLosesOnePage NoSelfTrigger
