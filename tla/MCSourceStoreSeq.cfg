SPECIFICATION FairSpec
CONSTANTS
    Slots = {s1}
    Orgs = {"o0", "o1"}
    DefaultOrg = "o0"
    Names = {"influx"}
    NewSources <- FlagOne
    MaxSources = 3
    MaxServers = 2
    Faults = {"starting"}
INVARIANTS
    NothingOfDeletedOrg
    FlagSourceOnce
PROPERTIES
    DefaultKept
    ServersGoWithSource
