SPECIFICATION FairSpec
CONSTANTS
    Versions = {v1, v2, v3}
    PreBuild = pre
    Sources = {s}
    Servers = {h}
    Dashboards = {d1, d2}
    MaxFaults = 2
    MaxStarts = 3
CHECK_DEADLOCK FALSE
INVARIANTS
    ServedIsMigrated
    RewrittenOnce
    BackedUp
PROPERTIES
    StartEnds
