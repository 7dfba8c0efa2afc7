SPECIFICATION FairSpec
CONSTANTS
    Slots = {s1, s2}
    Orgs = {"o0", "o1"}
    DefaultOrg = "o0"
    Names = {"influx"}
    NewSources <- NoFlag
    MaxSources = 1
    MaxServers = 1
    Faults = {"serving"}
INVARIANTS
    TypeOK
    AtMostOneDefault
    AtMostOneActive
PROPERTIES
    NoResurrection
    CascadeEnds
