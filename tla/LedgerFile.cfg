\* A daemon, a stop command and the control room.
SPECIFICATION FileSpec
CONSTANTS
    Procs = {daemon, stop, room}
    Savers = {daemon, stop}
    MaxSaves = 2
    MaxFaults = 2
    Overlap = FALSE
    Nil = Nil
INVARIANTS FileTypeOK OneFaultLosesNothing
PROPERTIES LoadsAreCurrent
