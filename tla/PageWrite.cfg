SPECIFICATION FairSpec
CONSTANTS
    None = None
    Writers = {w1, w2}
    Kinds <- EachOrder
    Retries = 2
    MaxSaves = 1
    MaxFaults = 1
INVARIANTS TypeOK CheckedCommitsAreFresh
PROPERTIES DroppedEditsAreInBackup ImplementsSerialPage CallsReturn
CHECK_DEADLOCK FALSE
