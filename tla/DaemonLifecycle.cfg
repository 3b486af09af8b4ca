\* One page, three processes, patient operators.
SPECIFICATION FairSpec
CONSTANTS
    Workers = {1, 2, 3}
    Operators = {cli}
    Pages = {p1}
    None = None
    Patient = TRUE
INVARIANTS TypeOK DaemonIsNamed
PROPERTIES ImplementsService SignalledEnds StopSettles
