SPECIFICATION FairClustersSpec
CONSTANTS
    N = 4
    MaxSimilarity = 1
    KNeighbors = 2
    MinSize = 2
    MaxSize = 3
    MaxIterations = 3
    MaxChanges = 1
    NoMap = NoMap
INVARIANTS PagesPartitioned
PROPERTIES NeighborhoodIsTheGroups CycleEnds
CHECK_DEADLOCK FALSE
