SPECIFICATION Spec
CONSTANTS
    Slots = {s1, s2}
    People = {"ann", "bob"}
    SuperGroup = {}
    OrgNames = {"Default", "other"}
    RoleInputs = {"member", "admin"}
    StartUsers <- Pair
    StartOrgs <- OneOrg
    StartMappings <- NoMappings
    StartSuperNew = FALSE
    MaxOrgs = 1
    MaxUsers = 3
    MaxMappings = 1
    MaxRequests = 3
    Faults = TRUE
INVARIANTS
    DefaultOrgKept
PROPERTIES
    IdentityFixed
SYMMETRY SlotSymmetry
CHECK_DEADLOCK FALSE
