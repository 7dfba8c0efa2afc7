SPECIFICATION Spec
CONSTANTS
    Slots = {s1}
    People = {"ann", "bob"}
    SuperGroup = {"bob"}
    OrgNames = {"Default", "other"}
    RoleInputs = {"member", "admin"}
    StartUsers <- OneSuper
    StartOrgs <- OneOrg
    StartMappings <- NoMappings
    StartSuperNew = FALSE
    MaxOrgs = 1
    MaxUsers = 2
    MaxMappings = 1
    MaxRequests = 4
    Faults = FALSE
INVARIANTS
    TypeOK
    OneRolePerOrg
    UniqueKeys
    NothingOfDeletedOrg
PROPERTIES
    UpdateKeepsSuper
    FirstUserIsSuper
    ScopedWrites
CHECK_DEADLOCK FALSE
