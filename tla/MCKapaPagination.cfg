SPECIFICATION FairSpec
CONSTANTS
    Workers = {w1, w2, w3}
    FetchRate = 2
    NumTasks = 7
    MaxFailed = 3
INVARIANTS
    NeverPanics
    OnlyFailedPagesMissing
PROPERTIES
    Returns
    GeneratorEnds
CHECK_DEADLOCK FALSE
