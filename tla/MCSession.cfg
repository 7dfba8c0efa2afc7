SPECIFICATION Spec
CONSTANTS
    Slots = {s1, s2}
    Lifespans = {0, 3, 6}
    DefaultInactivity = 4
    TenMinutes = 2
    TicksPerSecond = 2
    MaxTime = 8
SYMMETRY SlotSymmetry
PROPERTIES
    NoLongerThanLifespan
    NotAfterInactivity
    UsedSessionGoesOn
CHECK_DEADLOCK FALSE
