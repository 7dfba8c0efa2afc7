SPECIFICATION Spec
CONSTANTS
    Slots = {s1, s2}
    People = {"ann", "bob", "cyd"}
    SuperGroup = {}
    OrgNames = {"Default", "other", "third"}
    RoleInputs = {"member", "admin"}
    StartUsers <- Tenants
    StartOrgs <- ThreeOrgs
    StartMappings <- NoMappings
    StartSuperNew = FALSE
    MaxOrgs = 2
    MaxUsers = 3
    MaxMappings = 1
    MaxRequests = 4
    Faults = FALSE
INVARIANTS
    NoSuperFromNowhere
    TenantIsolation
SYMMETRY SlotSymmetry
CHECK_DEADLOCK FALSE
