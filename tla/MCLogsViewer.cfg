SPECIFICATION Spec
CONSTANTS
    s1 = s1
    s2 = s2
    a = a
    b = b
    None = None
    Sources <- TwoSources
    NamespacesOf <- Databases
    Preferred <- Telegraf
    Terms <- Words
    t1 = t1
    t2 = t2
    Windows = {w}
    Customs = {2, 3}
    Relatives = {0}
    Chunk = 2
    MaxNow = 3
    MaxActs = 2
    MaxFails = 1
SYMMETRY Symmetric
CHECK_DEADLOCK FALSE
INVARIANTS
    CountsQueries
    TimerOnlyWhileLive
    NamespacesOfSource
    ShownIsAsked
    
