------------------------------ MODULE Accounts ------------------------------
(***************************************************************************)
(* Users, their roles, organizations, mappings and the authorization of    *)
(* requests: the bolt buckets of bolt/users.go, bolt/organizations.go and  *)
(* bolt/mapping.go, the organization facade of organizations/users.go, the *)
(* guards of server/auth.go and the handlers of server/users.go,           *)
(* server/organizations.go, server/mapping.go, server/config.go and        *)
(* server/me.go.                                                           *)
(*                                                                         *)
(* One action is one bolt transaction with the handler code up to the next *)
(* one; concurrent requests interleave between transactions.  The stores   *)
(* often look a key up again right after a lookup that found it, only to   *)
(* fail if it is gone.  Such a lookup is no step of its own: running it    *)
(* right after the first is one of its interleavings, and in the others it *)
(* ends the request as an earlier start of the other request would.        *)
(*                                                                         *)
(* A user is looked up by name, provider and scheme; the three together    *)
(* are a member of People.  An organization's id is its number in bolt's   *)
(* sequence, "default" is 0.  A user's roles are kept per organization, in *)
(* order: nothing reads the order across organizations.                    *)
(***************************************************************************)
EXTENDS Naturals, Sequences, FiniteSets, FiniteSetsExt

CONSTANTS
    Slots,          \* HTTP requests in progress at a time
    People,         \* who may log in
    SuperGroup,     \* people in the auth0 group of --auth0-superadmin-org
    OrgNames,       \* names asked for organizations
    RoleInputs,     \* role names asked for users and organizations
    StartUsers,     \* the database at start: users 1, 2, ...
    StartOrgs,      \*   organizations 0 (the default), 1, ... less one
    StartMappings,  \*   mappings 1, 2, ... beside the default one
    StartSuperNew,  \*   SuperAdminNewUsers
    MaxOrgs,        \* the last organization, user and mapping that bolt
    MaxUsers,       \*   adds: past them the transaction fails
    MaxMappings,
    MaxRequests,    \* requests accepted in a behaviour
    Faults          \* may the process crash?

VARIABLES
    orgs,      \* the Organizations bucket: id |-> organization
    orgSeq,    \* its NextSequence counter
    users,     \* the Users bucket: id |-> user
    userSeq,   \* its NextSequence counter
    mappings,  \* the Mappings bucket: id |-> mapping
    mapSeq,    \* its NextSequence counter
    superNew,  \* SuperAdminNewUsers of the Config bucket
    reqs,      \* per slot, what its request will do next and what it has read
    left       \* requests that may still be accepted

db == <<orgs, orgSeq, users, userSeq, mappings, mapSeq, superNew>>
vars == <<db, reqs, left>>

Roles == {"member", "viewer", "editor", "admin"}
DefaultOrg == 0
OrgIds == 0..MaxOrgs
UserIds == 1..MaxUsers
MappingIds == 0..MaxMappings   \* 0 is the mapping "default"

RoleMap == [OrgIds -> Seq(Roles)]
NoRoles == [o \in OrgIds |-> <<>>]
User == [who : People, super : BOOLEAN, roles : RoleMap]
Org == [name : OrgNames, role : Roles]
Mapping == [org : OrgIds, whom : SUBSET People]

\* The organizations a users store shows: all, or the one of the facade.
Raw == OrgIds
Scope == {Raw} \cup {{o} : o \in OrgIds}

ASSUME AccountsAssumption ==
    /\ SuperGroup \subseteq People /\ RoleInputs \subseteq Roles
    /\ MaxOrgs \in Nat \ {0} /\ MaxUsers \in Nat /\ MaxMappings \in Nat
    /\ MaxRequests \in Nat
    /\ StartSuperNew \in BOOLEAN /\ Faults \in BOOLEAN
    /\ StartUsers \in Seq(User) /\ Len(StartUsers) \in 0..MaxUsers
    /\ StartOrgs \in Seq(Org) /\ Len(StartOrgs) \in 1..(MaxOrgs + 1)
    /\ StartMappings \in Seq(Mapping) /\ Len(StartMappings) \in 0..MaxMappings

Idle == [at |-> "idle"]

\* What a request does once its Put of a user is done.
Rest ==
    {Idle}
    \cup [at : {"me"}, who : People]
    \cup [at : {"strip"}, org : OrgIds, todo : SUBSET UserIds, cascade : BOOLEAN]

Request ==
    Rest
    \cup [at : {"authUser"}, who : People, org : OrgIds]
    \cup [at : {"authRole"}, who : People, org : OrgIds, id : UserIds]
    \cup [at : {"authorized"}, who : People, org : OrgIds, id : UserIds,
          super : BOOLEAN]
    \cup [at : {"newUserRoles", "findUser"}, scope : Scope, user : User]
    \cup [at : {"addUser"}, user : User, undo : SUBSET OrgIds]
    \cup [at : {"updateRoles"}, scope : Scope, id : UserIds, user : User,
          self : BOOLEAN, super : BOOLEAN]
    \cup [at : {"merge", "joinPut"}, scope : Scope, id : UserIds, user : User]
    \cup [at : {"putUser"}, scope : Scope, id : UserIds, user : User,
          next : Rest]
    \cup [at : {"addOrg"}, who : People, new : Org]
    \cup [at : {"joinFind", "joinAdd"}, who : People, org : OrgIds]
    \cup [at : {"checkOrg", "uniqueOrg", "putOrg"}, id : OrgIds, new : Org]
    \cup [at : {"undoOrg", "dropOrg", "listUsers"}, org : OrgIds]
    \cup [at : {"dropMappings"}, todo : SUBSET MappingIds]
    \cup [at : {"addMapping"}, mapping : Mapping]
    \cup [at : {"putMapping"}, id : MappingIds, mapping : Mapping]
    \cup [at : {"switch", "switchRaw"}, who : People, org : OrgIds, role : Roles]
    \cup [at : {"meCount", "meConfig"}, who : People, role : Roles]
    \cup [at : {"meMappings"}, who : People, role : Roles, super : BOOLEAN]
    \cup [at : {"meRoles"}, who : People, role : Roles, super : BOOLEAN,
          todo : SUBSET OrgIds, roles : RoleMap]

TypeOK ==
    /\ orgSeq \in OrgIds /\ DOMAIN orgs \subseteq OrgIds
    /\ orgs \in [DOMAIN orgs -> Org]
    /\ userSeq \in 0..MaxUsers /\ DOMAIN users \subseteq 1..userSeq
    /\ users \in [DOMAIN users -> User]
    /\ mapSeq \in MappingIds /\ DOMAIN mappings \subseteq MappingIds
    /\ mappings \in [DOMAIN mappings -> Mapping]
    /\ superNew \in BOOLEAN
    /\ reqs \in [Slots -> Request]
    /\ left \in Nat

-----------------------------------------------------------------------------
(* The buckets and the facade. *)

PutKey(bucket, id, value) ==
    [i \in DOMAIN bucket \cup {id} |-> IF i = id THEN value ELSE bucket[i]]
DropKey(bucket, id) == [i \in DOMAIN bucket \ {id} |-> bucket[i]]

\* UsersStore.Get by name, provider and scheme: the first key that matches.
IdsOf(who) == {i \in DOMAIN users : users[i].who = who}
First(ids) == Min(ids)

\* The roles a store shows, and those it must leave alone.
Inside(roles, scope) == [o \in OrgIds |-> IF o \in scope THEN roles[o] ELSE <<>>]
Outside(roles, scope) == Inside(roles, OrgIds \ scope)
Join(roles, more) == [o \in OrgIds |-> roles[o] \o more[o]]
Role(org, name) == [NoRoles EXCEPT ![org] = <<name>>]

\* The users a store's Get finds: the facade hides who has no role with it.
Visible(scope) ==
    {i \in DOMAIN users :
        scope # Raw => Inside(users[i].roles, scope) # NoRoles}

NameIsUnique(name) == \A o \in DOMAIN orgs : orgs[o].name # name

Init ==
    /\ orgSeq = Len(StartOrgs) - 1
    /\ orgs = [o \in 0..orgSeq |-> StartOrgs[o + 1]]
    /\ users = StartUsers /\ userSeq = Len(StartUsers)
    /\ mapSeq = Len(StartMappings)
    /\ mappings = [m \in 0..mapSeq |->
                     IF m = 0 THEN [org |-> DefaultOrg, whom |-> People]
                              ELSE StartMappings[m]]
    /\ superNew = StartSuperNew
    /\ reqs = [s \in Slots |-> Idle]
    /\ left = MaxRequests

Goto(s, r) == reqs' = [reqs EXCEPT ![s] = r] /\ UNCHANGED left
Done(s) == Goto(s, Idle)
OrgsOnly == UNCHANGED <<users, userSeq, mappings, mapSeq, superNew>>
UsersOnly == UNCHANGED <<orgs, orgSeq, mappings, mapSeq, superNew>>
MappingsOnly == UNCHANGED <<orgs, orgSeq, users, userSeq, superNew>>

-----------------------------------------------------------------------------
(* AuthorizedUser: the organization of the cookie, the user, and unless the *)
(* user is a super admin, the user's role with that organization.           *)

Begin(s, r) ==
    /\ reqs[s].at = "idle" /\ left > 0
    /\ reqs' = [reqs EXCEPT ![s] = r]
    /\ left' = left - 1
    /\ UNCHANGED db

Accept(s) ==
    \E who \in People, org \in DOMAIN orgs :
        Begin(s, [at |-> "authUser", who |-> who, org |-> org])

AuthUser(s) ==
    LET r == reqs[s]
        id == First(IdsOf(r.who))
    IN  /\ r.at = "authUser" /\ IdsOf(r.who) # {}
        /\ IF users[id].super
           THEN Goto(s, [at |-> "authorized", who |-> r.who, org |-> r.org,
                         id |-> id, super |-> TRUE])
           ELSE Goto(s, [at |-> "authRole", who |-> r.who, org |-> r.org,
                         id |-> id])
        /\ UNCHANGED db

\* hasAuthorizedRole for the routes of EnsureAdmin; more than one role with the
\* organization is an error.
AuthRole(s) ==
    LET r == reqs[s]
    IN  /\ r.at = "authRole" /\ IdsOf(r.who) # {}
        /\ users[First(IdsOf(r.who))].roles[r.org] = <<"admin">>
        /\ Goto(s, [at |-> "authorized", who |-> r.who, org |-> r.org,
                    id |-> r.id, super |-> FALSE])
        /\ UNCHANGED db

AuthRefuse(s) ==
    LET r == reqs[s]
    IN  /\ r.at \in {"authUser", "authRole"}
        /\ IdsOf(r.who) # {} =>
              /\ r.at = "authRole"
              /\ users[First(IdsOf(r.who))].roles[r.org] # <<"admin">>
        /\ Done(s) /\ UNCHANGED db

\* The users stores of the routes: every route of an organization gives the
\* facade of the cookie's organization, /users the bucket itself.
Scopes(r) == {{r.org}} \cup (IF r.super THEN {Raw} ELSE {})

-----------------------------------------------------------------------------
(* server/users.go *)

\* Mutant: setSuperAdmin sets what is asked, whoever asks.
SetSuperAlways(super, user, wanted) == TRUE

\* setSuperAdmin: only a super admin changes the flag.
SetSuper(super, user, wanted) == super \/ user = wanted

NewUser(s) ==
    LET r == reqs[s]
    IN  /\ r.at = "authorized"
        /\ \E who \in People, asked \in BOOLEAN, scope \in Scopes(r) :
              LET super == superNew \/ asked
              IN  /\ SetSuper(r.super, FALSE, super)
                  /\ Goto(s, [at |-> "newUserRoles", scope |-> scope,
                              user |-> [who |-> who, super |-> super,
                                        roles |-> NoRoles]])
        /\ UNCHANGED db

\* Mutant: the organization of a role asked for is not compared with the
\* facade's.
AskedRolesAny(scope) ==
    {NoRoles} \cup UNION {{Role(o, name) : name \in RoleInputs \cup {orgs[o].role}}
                            : o \in DOMAIN orgs}

\* The roles a request may ask for: none, or one with an organization that
\* exists and that the store shows; the role "*" is the default role.
AskedRoles(scope) ==
    {NoRoles} \cup UNION {{Role(o, name) : name \in RoleInputs \cup {orgs[o].role}}
                            : o \in scope \cap DOMAIN orgs}

NewUserRoles(s) ==
    LET r == reqs[s]
    IN  /\ r.at = "newUserRoles"
        /\ \E roles \in AskedRoles(r.scope) :
              Goto(s, [at |-> "findUser", scope |-> r.scope,
                       user |-> [r.user EXCEPT !.roles = roles]])
        /\ UNCHANGED db

\* Mutant: the store does not look whether it has the user.
FindUserNever(s) ==
    /\ reqs[s].at = "findUser"
    /\ Goto(s, [at |-> "addUser", user |-> reqs[s].user, undo |-> {}])
    /\ UNCHANGED db

\* Mutant: the facade does not look whether the user has a role already.
FindUserTwice(s) ==
    LET r == reqs[s]
        ids == IdsOf(r.user.who)
        old == users[First(ids)]
    IN  /\ r.at = "findUser"
        /\ IF ids = {} THEN Goto(s, [at |-> "addUser", user |-> r.user,
                                     undo |-> {}])
           ELSE IF r.scope = Raw THEN Done(s)
           ELSE Goto(s, [at |-> "putUser", scope |-> r.scope, id |-> First(ids),
                         user |-> [old EXCEPT !.roles = Join(@, r.user.roles),
                                              !.super = @ \/ r.user.super],
                         next |-> Idle])
        /\ UNCHANGED db

\* Add of a store: the bucket refuses a user that exists, the facade gives the
\* user the roles, unless there are some already.
FindUser(s) ==
    LET r == reqs[s]
        ids == IdsOf(r.user.who)
        old == users[First(ids)]
    IN  /\ r.at = "findUser"
        /\ IF ids = {} THEN Goto(s, [at |-> "addUser", user |-> r.user,
                                            undo |-> {}])
           ELSE IF r.scope = Raw \/ First(ids) \in Visible(r.scope) THEN Done(s)
           ELSE Goto(s, [at |-> "putUser", scope |-> r.scope, id |-> First(ids),
                         user |-> [old EXCEPT !.roles = Join(@, r.user.roles),
                                              !.super = @ \/ r.user.super],
                         next |-> Idle])
        /\ UNCHANGED db

\* Mutant: the id is the number of users, not the next of the sequence.
AddUserCount(s) ==
    /\ reqs[s].at = "addUser" /\ userSeq < MaxUsers
    /\ userSeq' = userSeq + 1
    /\ users' = PutKey(users, Cardinality(DOMAIN users) + 1, reqs[s].user)
    /\ Done(s) /\ UsersOnly

\* Mutant: the sequence does not move on.
AddUserSameId(s) ==
    /\ reqs[s].at = "addUser" /\ userSeq < MaxUsers
    /\ users' = PutKey(users, userSeq + 1, reqs[s].user)
    /\ Done(s) /\ UNCHANGED userSeq /\ UsersOnly

AddUser(s) ==
    /\ reqs[s].at = "addUser" /\ userSeq < MaxUsers
    /\ userSeq' = userSeq + 1
    /\ users' = PutKey(users, userSeq', reqs[s].user)
    /\ Done(s) /\ UsersOnly

\* The Put of Update: the whole user, as the request has made it.
PutUser(s) ==
    /\ reqs[s].at = "putUser"
    /\ users' = PutKey(users, reqs[s].id, reqs[s].user)
    /\ Goto(s, reqs[s].next) /\ UNCHANGED userSeq /\ UsersOnly

UpdateUser(s) ==
    LET r == reqs[s]
    IN  /\ r.at = "authorized"
        /\ \E scope \in Scopes(r) : \E id \in Visible(scope) :
              Goto(s, [at |-> "updateRoles", scope |-> scope, id |-> id,
                       user |-> users[id], self |-> id = r.id,
                       super |-> r.super])
        /\ UNCHANGED db

\* Mutant: a super admin may give up the flag.
UpdateRolesSelf(s) ==
    LET r == reqs[s]
    IN  /\ r.at = "updateRoles"
        /\ \E roles \in AskedRoles(r.scope), super \in BOOLEAN :
              LET user == [r.user EXCEPT !.roles = roles, !.super = super]
              IN  /\ SetSuper(r.super, r.user.super, super)
                  /\ IF r.scope = Raw
                     THEN Goto(s, [at |-> "putUser", scope |-> r.scope,
                                   id |-> r.id, user |-> user, next |-> Idle])
                     ELSE Goto(s, [at |-> "merge", scope |-> r.scope,
                                   id |-> r.id, user |-> user])
        /\ UNCHANGED db

\* The roles and the flag asked for; super admins keep their own flag.
UpdateRoles(s) ==
    LET r == reqs[s]
    IN  /\ r.at = "updateRoles"
        /\ \E roles \in AskedRoles(r.scope), super \in BOOLEAN :
              LET user == [r.user EXCEPT !.roles = roles, !.super = super]
              IN  /\ r.self /\ r.user.super => super
                  /\ SetSuper(r.super, r.user.super, super)
                  /\ IF r.scope = Raw
                     THEN Goto(s, [at |-> "putUser", scope |-> r.scope,
                                   id |-> r.id, user |-> user, next |-> Idle])
                     ELSE Goto(s, [at |-> "merge", scope |-> r.scope,
                                   id |-> r.id, user |-> user])
        /\ UNCHANGED db

\* Mutant: the facade's Update keeps no role of another organization.
MergeNone(s) ==
    LET r == reqs[s]
    IN  /\ r.at = "merge" /\ r.id \in DOMAIN users
        /\ Goto(s, [at |-> "putUser", scope |-> r.scope, id |-> r.id,
                    user |-> r.user, next |-> Idle])
        /\ UNCHANGED db

\* Update of the facade: the roles with other organizations are read again.
Merge(s) ==
    LET r == reqs[s]
        others == Outside(users[r.id].roles, r.scope)
    IN  /\ r.at = "merge" /\ r.id \in DOMAIN users
        /\ Goto(s, [at |-> "putUser", scope |-> r.scope, id |-> r.id,
                    user |-> [r.user EXCEPT !.roles = Join(others, @)],
                    next |-> Idle])
        /\ UNCHANGED db

MergeMissing(s) ==
    /\ reqs[s].at = "merge" /\ reqs[s].id \notin DOMAIN users
    /\ Done(s) /\ UNCHANGED db

\* RemoveUser of the bucket; nothing keeps super admins from removing themselves.
RemoveUser(s) ==
    /\ reqs[s].at = "authorized" /\ reqs[s].super
    /\ \E id \in DOMAIN users : users' = DropKey(users, id)
    /\ Done(s) /\ UNCHANGED userSeq /\ UsersOnly

\* RemoveUser of the facade: the user loses the roles with its organization.
RemoveUserOfOrg(s) ==
    LET r == reqs[s]
    IN  /\ r.at = "authorized"
        /\ \E id \in Visible({r.org}) :
              Goto(s, [at |-> "strip", org |-> r.org, todo |-> {id},
                       cascade |-> FALSE])
        /\ UNCHANGED db

\* Delete of the facade, for the first user left to do.
Strip(s) ==
    LET r == reqs[s]
        id == First(r.todo)
        rest == [r EXCEPT !.todo = @ \ {id}]
    IN  /\ r.at = "strip" /\ r.todo # {} /\ id \in DOMAIN users
        /\ Goto(s, [at |-> "putUser", scope |-> {r.org}, id |-> id,
                    user |-> [users[id] EXCEPT !.roles = Outside(@, {r.org})],
                    next |-> IF r.cascade THEN rest ELSE Idle])
        /\ UNCHANGED db

\* A user that is gone ends the request, and the cascade with it.
StripMissing(s) ==
    LET r == reqs[s]
    IN  /\ r.at = "strip" /\ r.todo # {} /\ First(r.todo) \notin DOMAIN users
        /\ Done(s) /\ UNCHANGED db

-----------------------------------------------------------------------------
(* server/organizations.go and bolt/organizations.go *)

NewOrganization(s) ==
    LET r == reqs[s]
    IN  /\ r.at = "authorized" /\ r.super
        /\ \E name \in OrgNames, role \in RoleInputs :
              /\ NameIsUnique(name)
              /\ Goto(s, [at |-> "addOrg", who |-> r.who,
                          new |-> [name |-> name, role |-> role]])
        /\ UNCHANGED db

AddOrg(s) ==
    LET r == reqs[s]
    IN  /\ r.at = "addOrg" /\ orgSeq < MaxOrgs
        /\ orgSeq' = orgSeq + 1
        /\ orgs' = PutKey(orgs, orgSeq', r.new)
        /\ Goto(s, [at |-> "joinFind", who |-> r.who, org |-> orgSeq'])
        /\ OrgsOnly

\* The facade's Add of the creator, as an admin of the organization; the
\* handler deletes the organization again when that fails.
JoinFind(s) ==
    LET r == reqs[s]
        ids == IdsOf(r.who)
        id == First(ids)
    IN  /\ r.at = "joinFind"
        /\ IF ids = {} THEN Goto(s, [r EXCEPT !.at = "joinAdd"])
           ELSE IF users[id].roles[r.org] # <<>>
           THEN Goto(s, [at |-> "undoOrg", org |-> r.org])
           ELSE Goto(s, [at |-> "joinPut", scope |-> {r.org}, id |-> id,
                         user |-> [users[id] EXCEPT !.super = TRUE,
                                     !.roles = Join(@, Role(r.org, "admin"))]])
        /\ UNCHANGED db

JoinAdd(s) ==
    LET r == reqs[s]
    IN  /\ r.at = "joinAdd"
        /\ IF IdsOf(r.who) # {} THEN Goto(s, [at |-> "undoOrg", org |-> r.org])
           ELSE Goto(s, [at |-> "addUser", undo |-> {r.org},
                         user |-> [who |-> r.who, super |-> TRUE,
                                   roles |-> Role(r.org, "admin")]])
        /\ UNCHANGED db

JoinPut(s) ==
    LET r == reqs[s]
    IN  /\ r.at = "joinPut"
        /\ IF r.id \notin DOMAIN users
           THEN \E org \in r.scope : Goto(s, [at |-> "undoOrg", org |-> org])
           ELSE Goto(s, [at |-> "putUser", scope |-> r.scope, id |-> r.id,
                         user |-> r.user, next |-> Idle])
        /\ UNCHANGED db

UndoOrg(s) ==
    LET r == reqs[s]
    IN  /\ r.at = "undoOrg"
        /\ IF r.org \in DOMAIN orgs THEN Goto(s, [r EXCEPT !.at = "dropOrg"])
           ELSE Done(s)
        /\ UNCHANGED db

UpdateOrganization(s) ==
    LET r == reqs[s]
    IN  /\ r.at = "authorized" /\ r.super
        /\ \E id \in DOMAIN orgs :
           \E name \in OrgNames, role \in RoleInputs \cup {orgs[id].role} :
              Goto(s, [at |-> "checkOrg", id |-> id,
                       new |-> [name |-> name, role |-> role]])
        /\ UNCHANGED db

CheckOrg(s) ==
    LET r == reqs[s]
    IN  /\ r.at = "checkOrg"
        /\ IF r.id \notin DOMAIN orgs THEN Done(s)
           ELSE IF r.new.name = orgs[r.id].name
           THEN Goto(s, [r EXCEPT !.at = "putOrg"])
           ELSE Goto(s, [r EXCEPT !.at = "uniqueOrg"])
        /\ UNCHANGED db

UniqueOrg(s) ==
    LET r == reqs[s]
    IN  /\ r.at = "uniqueOrg"
        /\ IF NameIsUnique(r.new.name) THEN Goto(s, [r EXCEPT !.at = "putOrg"])
           ELSE Done(s)
        /\ UNCHANGED db

PutOrg(s) ==
    /\ reqs[s].at = "putOrg"
    /\ orgs' = PutKey(orgs, reqs[s].id, reqs[s].new)
    /\ Done(s) /\ UNCHANGED orgSeq /\ OrgsOnly

\* Mutant: the default organization can be deleted.
RemoveOrganizationAny(s) ==
    /\ reqs[s].at = "authorized" /\ reqs[s].super
    /\ \E o \in DOMAIN orgs : Goto(s, [at |-> "dropOrg", org |-> o])
    /\ UNCHANGED db

RemoveOrganization(s) ==
    /\ reqs[s].at = "authorized" /\ reqs[s].super
    /\ \E o \in DOMAIN orgs \ {DefaultOrg} :
          Goto(s, [at |-> "dropOrg", org |-> o])
    /\ UNCHANGED db

\* The dependents follow: sources, servers and dashboards, which are not of
\* this module, then the roles and the mappings.
DropOrg(s) ==
    /\ reqs[s].at = "dropOrg"
    /\ orgs' = DropKey(orgs, reqs[s].org)
    /\ Goto(s, [reqs[s] EXCEPT !.at = "listUsers"])
    /\ UNCHANGED orgSeq /\ OrgsOnly

ListUsers(s) ==
    LET r == reqs[s]
    IN  /\ r.at = "listUsers"
        /\ Goto(s, [at |-> "strip", org |-> r.org, todo |-> Visible({r.org}),
                    cascade |-> TRUE])
        /\ UNCHANGED db

\* Mutant: the mappings stay.
AllStrippedEnd(s) ==
    /\ reqs[s].at = "strip" /\ reqs[s].todo = {}
    /\ Done(s) /\ UNCHANGED db

AllStripped(s) ==
    LET r == reqs[s]
    IN  /\ r.at = "strip" /\ r.todo = {}
        /\ Goto(s, [at |-> "dropMappings",
                    todo |-> {m \in DOMAIN mappings : mappings[m].org = r.org}])
        /\ UNCHANGED db

DropMapping(s) ==
    LET r == reqs[s]
        m == First(r.todo)
    IN  /\ r.at = "dropMappings" /\ r.todo # {} /\ m \in DOMAIN mappings
        /\ mappings' = DropKey(mappings, m)
        /\ Goto(s, [r EXCEPT !.todo = @ \ {m}])
        /\ UNCHANGED mapSeq /\ MappingsOnly

DropMappingEnd(s) ==
    LET r == reqs[s]
    IN  /\ r.at = "dropMappings"
        /\ r.todo # {} => First(r.todo) \notin DOMAIN mappings
        /\ Done(s) /\ UNCHANGED db

-----------------------------------------------------------------------------
(* server/mapping.go and server/config.go *)

NewMapping(s) ==
    LET r == reqs[s]
    IN  /\ r.at = "authorized" /\ r.super
        /\ \E org \in DOMAIN orgs, whom \in SUBSET People :
              Goto(s, [at |-> "addMapping",
                       mapping |-> [org |-> org, whom |-> whom]])
        /\ UNCHANGED db

AddMapping(s) ==
    /\ reqs[s].at = "addMapping" /\ mapSeq < MaxMappings
    /\ mapSeq' = mapSeq + 1
    /\ mappings' = PutKey(mappings, mapSeq', reqs[s].mapping)
    /\ Done(s) /\ MappingsOnly

\* The id is the one of the body, whether or not such a mapping exists.
UpdateMapping(s) ==
    LET r == reqs[s]
    IN  /\ r.at = "authorized" /\ r.super
        /\ \E id \in MappingIds, org \in DOMAIN orgs, whom \in SUBSET People :
              Goto(s, [at |-> "putMapping", id |-> id,
                       mapping |-> [org |-> org, whom |-> whom]])
        /\ UNCHANGED db

PutMapping(s) ==
    /\ reqs[s].at = "putMapping"
    /\ mappings' = PutKey(mappings, reqs[s].id, reqs[s].mapping)
    /\ Done(s) /\ UNCHANGED mapSeq /\ MappingsOnly

RemoveMapping(s) ==
    /\ reqs[s].at = "authorized" /\ reqs[s].super
    /\ \E m \in DOMAIN mappings : mappings' = DropKey(mappings, m)
    /\ Done(s) /\ UNCHANGED mapSeq /\ MappingsOnly

ReplaceAuthConfig(s) ==
    /\ reqs[s].at = "authorized" /\ reqs[s].super
    /\ superNew' \in BOOLEAN
    /\ Done(s)
    /\ UNCHANGED <<orgs, orgSeq, users, userSeq, mappings, mapSeq>>

-----------------------------------------------------------------------------
(* server/me.go: neither route asks for an authorized user. *)

AcceptMe(s) ==
    \E who \in People : Begin(s, [at |-> "me", who |-> who])

UpdateMe(s) ==
    \E who \in People, org \in DOMAIN orgs :
        Begin(s, [at |-> "switch", who |-> who, org |-> org,
                  role |-> orgs[org].role])

\* The facade's Get: who has a role with the organization just switches.
Switch(s) ==
    LET r == reqs[s]
        ids == IdsOf(r.who)
    IN  /\ r.at = "switch"
        /\ IF ids # {} /\ First(ids) \in Visible({r.org})
           THEN Goto(s, [at |-> "me", who |-> r.who])
           ELSE Goto(s, [r EXCEPT !.at = "switchRaw"])
        /\ UNCHANGED db

\* A super admin is given the organization's default role first.
SwitchRaw(s) ==
    LET r == reqs[s]
        ids == IdsOf(r.who)
        id == First(ids)
    IN  /\ r.at = "switchRaw"
        /\ IF ids = {} THEN Done(s)
           ELSE IF ~users[id].super THEN Done(s)
           ELSE Goto(s, [at |-> "putUser", scope |-> Raw, id |-> id,
                         user |-> [users[id] EXCEPT
                                     !.roles[r.org] = Append(@, r.role)],
                         next |-> [at |-> "me", who |-> r.who]])
        /\ UNCHANGED db

\* Me finds the user, and makes a super admin of one of the auth0 group; or it
\* will add the user.
Me(s) ==
    LET r == reqs[s]
        ids == IdsOf(r.who)
        id == First(ids)
    IN  /\ r.at = "me"
        /\ IF ids = {}
           THEN Goto(s, [at |-> "meCount", who |-> r.who,
                         role |-> orgs[DefaultOrg].role])
           ELSE IF r.who \in SuperGroup /\ ~users[id].super
           THEN Goto(s, [at |-> "putUser", scope |-> Raw, id |-> id,
                         user |-> [users[id] EXCEPT !.super = TRUE],
                         next |-> Idle])
           ELSE Done(s)
        /\ UNCHANGED db

\* Mutant: the first user is like any other.
FirstUserNever == FALSE

FirstUser == DOMAIN users = {}

\* newUsersAreSuperAdmin: the first user is, and any other if so configured.
MeCount(s) ==
    LET r == reqs[s]
    IN  /\ r.at = "meCount"
        /\ IF FirstUser
           THEN Goto(s, [at |-> "meMappings", who |-> r.who, role |-> r.role,
                         super |-> TRUE])
           ELSE Goto(s, [r EXCEPT !.at = "meConfig"])
        /\ UNCHANGED db

MeConfig(s) ==
    LET r == reqs[s]
    IN  /\ r.at = "meConfig"
        /\ Goto(s, [at |-> "meMappings", who |-> r.who, role |-> r.role,
                    super |-> superNew \/ r.who \in SuperGroup])
        /\ UNCHANGED db

\* mapPrincipalToRoles: the organizations of the mappings that apply, one
\* lookup each; one that is gone is skipped.
MeMappings(s) ==
    LET r == reqs[s]
    IN  /\ r.at = "meMappings"
        /\ Goto(s, [at |-> "meRoles", who |-> r.who, role |-> r.role,
                    super |-> r.super, roles |-> NoRoles,
                    todo |-> {mappings[m].org :
                                m \in {k \in DOMAIN mappings :
                                         r.who \in mappings[k].whom}}])
        /\ UNCHANGED db

MeRole(s) ==
    LET r == reqs[s]
    IN  /\ r.at = "meRoles"
        /\ \E o \in r.todo :
              LET role == IF o \in DOMAIN orgs THEN <<orgs[o].role>> ELSE <<>>
              IN  Goto(s, [r EXCEPT !.todo = @ \ {o},
                                    !.roles = [@ EXCEPT ![o] = role]])
        /\ UNCHANGED db

\* Who has no role and is not of the auth0 group is refused; a super admin has
\* a role with the default organization.
MeAdd(s) ==
    LET r == reqs[s]
        roles == IF r.super /\ r.roles[DefaultOrg] = <<>>
                 THEN [r.roles EXCEPT ![DefaultOrg] = <<r.role>>] ELSE r.roles
    IN  /\ r.at = "meRoles" /\ r.todo = {}
        /\ IF r.who \notin SuperGroup /\ r.roles = NoRoles THEN Done(s)
           ELSE Goto(s, [at |-> "findUser", scope |-> Raw,
                         user |-> [who |-> r.who, super |-> r.super,
                                   roles |-> roles]])
        /\ UNCHANGED db

-----------------------------------------------------------------------------
\* A request that is not valid or that the handler refuses.
Refuse(s) ==
    /\ reqs[s].at \in {"authorized", "newUserRoles", "updateRoles"}
    /\ Done(s) /\ UNCHANGED db

\* The bounds: past them adding fails, and NewOrganization, whose user cannot
\* be added, deletes the organization.
Full(s) ==
    LET r == reqs[s]
    IN  /\ \/ /\ r.at = "addUser" /\ userSeq = MaxUsers
              /\ IF r.undo = {} THEN Done(s)
                 ELSE Goto(s, [at |-> "undoOrg", org |-> First(r.undo)])
           \/ r.at = "addOrg" /\ orgSeq = MaxOrgs /\ Done(s)
           \/ r.at = "addMapping" /\ mapSeq = MaxMappings /\ Done(s)
        /\ UNCHANGED db

Crash ==
    /\ Faults
    /\ \E s \in Slots : reqs[s].at # "idle"
    /\ reqs' = [s \in Slots |-> Idle]
    /\ UNCHANGED <<db, left>>

Step(s) ==
    \/ AuthUser(s) \/ AuthRole(s) \/ AuthRefuse(s)
    \/ NewUser(s) \/ NewUserRoles(s) \/ FindUser(s) \/ AddUser(s) \/ PutUser(s)
    \/ UpdateUser(s) \/ UpdateRoles(s) \/ Merge(s) \/ MergeMissing(s)
    \/ RemoveUser(s) \/ RemoveUserOfOrg(s) \/ Strip(s) \/ StripMissing(s)
    \/ NewOrganization(s) \/ AddOrg(s) \/ JoinFind(s) \/ JoinAdd(s) \/ JoinPut(s)
    \/ UndoOrg(s) \/ UpdateOrganization(s) \/ CheckOrg(s) \/ UniqueOrg(s)
    \/ PutOrg(s) \/ RemoveOrganization(s) \/ DropOrg(s) \/ ListUsers(s)
    \/ AllStripped(s) \/ DropMapping(s) \/ DropMappingEnd(s)
    \/ NewMapping(s) \/ AddMapping(s) \/ UpdateMapping(s) \/ PutMapping(s)
    \/ RemoveMapping(s) \/ ReplaceAuthConfig(s)
    \/ Switch(s) \/ SwitchRaw(s) \/ Me(s) \/ MeCount(s) \/ MeConfig(s)
    \/ MeMappings(s) \/ MeRole(s) \/ MeAdd(s)
    \/ Refuse(s) \/ Full(s)

Next ==
    \/ \E s \in Slots : Accept(s) \/ AcceptMe(s) \/ UpdateMe(s) \/ Step(s)
    \/ Crash

Spec == Init /\ [][Next]_vars

-----------------------------------------------------------------------------
(* Properties of every interleaving. *)

\* Whatever requests interleave, the default organization stays: the store
\* refuses to delete it, and no request writes it away (bolt/organizations.go,
\* Delete).
DefaultOrgKept == DefaultOrg \in DOMAIN orgs

\* An id stands for one person for ever: no late Put of a user that was read
\* earlier, and no Add, gives the id of one person to another (bolt/users.go,
\* Add and Update).
IdentityFixed ==
    [][ \A i \in DOMAIN users \cap DOMAIN users' :
            users'[i].who = users[i].who ]_vars

\* A database with users none of whom is a super admin, and no other way to
\* become one.
Locked ==
    /\ SuperGroup = {} /\ ~StartSuperNew /\ StartUsers # <<>>
    /\ \A i \in DOMAIN StartUsers : ~StartUsers[i].super

Supers == {i \in DOMAIN users : users[i].super}

\* In such a database nobody ever becomes a super admin, by any interleaving of
\* what org admins and people who log in may do (setSuperAdmin, Me).
NoSuperFromNowhere == Locked => Supers = {}

\* Organizations without an admin that no mapping leads to.
Closed ==
    {o \in OrgIds \ {DefaultOrg} :
        /\ \A i \in DOMAIN StartUsers :
              \A k \in DOMAIN StartUsers[i].roles[o] :
                 StartUsers[i].roles[o][k] # "admin"
        /\ \A m \in DOMAIN StartMappings : StartMappings[m].org # o}

\* In such a database the admins of other organizations never give anyone a
\* role with a closed one, nor change one that is held, however their requests
\* interleave (organizations/users.go).
TenantIsolation ==
    Locked => \A i \in DOMAIN users, o \in Closed :
                 users[i].roles[o] # <<>> =>
                     /\ i \in DOMAIN StartUsers
                     /\ users[i].roles[o] = StartUsers[i].roles[o]

-----------------------------------------------------------------------------
(* Properties of one request at a time. *)

\* Nobody has two roles with one organization, which AuthorizedUser relies on
\* (server/auth.go).
OneRolePerOrg ==
    \A i \in DOMAIN users, o \in OrgIds : Len(users[i].roles[o]) <= 1

\* Name, provider and scheme identify a user, and a name an organization
\* (chronograf.go, UsersStore; bolt/organizations.go, nameIsUnique).
UniqueKeys ==
    /\ \A i, j \in DOMAIN users : users[i].who = users[j].who => i = j
    /\ \A o, p \in DOMAIN orgs : orgs[o].name = orgs[p].name => o = p

Quiet == \A s \in Slots : reqs[s].at = "idle"

\* Between requests no role and no mapping is of an organization that is gone
\* (bolt/organizations.go, Delete).
NothingOfDeletedOrg ==
    Quiet => /\ \A i \in DOMAIN users, o \in OrgIds :
                   users[i].roles[o] # <<>> => o \in DOMAIN orgs
             /\ \A m \in DOMAIN mappings : mappings[m].org \in DOMAIN orgs

\* Unless a user is removed, there is a super admin while there was one: no
\* sequence of updates demotes the last (server/users.go, UpdateUser).
UpdateKeepsSuper ==
    [][ Supers # {} /\ DOMAIN users \subseteq DOMAIN users' => Supers' # {} ]_vars

\* The first user is a super admin, also when all others were removed
\* (server/me.go, firstUser).
FirstUserIsSuper ==
    [][ DOMAIN users = {} /\ DOMAIN users' # {} => Supers' # {} ]_vars

\* A request of an organization's routes leaves every role with the other
\* organizations alone (organizations/users.go).
ScopedWrites ==
    [][ \A s \in Slots :
          reqs[s].at = "putUser" /\ reqs[s] # reqs'[s]
          /\ reqs[s].id \in DOMAIN users \cap DOMAIN users' =>
             Outside(users[reqs[s].id].roles, reqs[s].scope)
             = Outside(users'[reqs[s].id].roles, reqs[s].scope) ]_vars

=============================================================================
