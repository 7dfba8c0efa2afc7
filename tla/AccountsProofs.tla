---------------------------- MODULE AccountsProofs ----------------------------
(***************************************************************************)
(* Proofs about Accounts, for any number of people, users, organizations   *)
(* and mappings.  The first theorems hold of any number of requests, with  *)
(* or without crashes, whatever their interleaving; the later ones say of  *)
(* requests that run one at a time what interleaved ones may break.        *)
(***************************************************************************)
EXTENDS Accounts, WellFoundedInduction, TLAPS

-----------------------------------------------------------------------------
(* The operators of the buckets and of the facade. *)

\* The first key of a lookup is one of those that match.
LEMMA FirstIsMember ==
    ASSUME NEW S \in SUBSET Nat, S # {}
    PROVE  First(S) \in S
<1> DEFINE R == OpToRel(<, Nat)
<1>1. IsWellFoundedOn(R, Nat)
  BY NatLessThanWellFounded
<1>2. \A x, y \in Nat : <<y, x>> \notin R => x =< y
  BY DEF OpToRel
<1>3. \E x \in S : \A y \in S : <<y, x>> \notin R
  <2> HIDE DEF R
  <2> QED BY <1>1, WFMin
<1>4. \E x \in S : \A y \in S : x =< y
  <2> HIDE DEF R
  <2> QED BY <1>2, <1>3
<1>5. QED
  BY <1>4 DEF First, Min

\* What a facade shows, hides and joins are roles again.
LEMMA RolesType ==
    /\ NoRoles \in RoleMap
    /\ \A roles \in RoleMap : \A scope \in Scope :
          Inside(roles, scope) \in RoleMap /\ Outside(roles, scope) \in RoleMap
    /\ \A roles, more \in RoleMap : Join(roles, more) \in RoleMap
    /\ \A org \in OrgIds, name \in Roles : Role(org, name) \in RoleMap
<1>1. NoRoles \in RoleMap
  BY DEF NoRoles, RoleMap
<1>2. ASSUME NEW roles \in RoleMap, NEW scope
      PROVE  Inside(roles, scope) \in RoleMap
  BY DEF Inside, RoleMap
<1>3. ASSUME NEW roles \in RoleMap, NEW more \in RoleMap
      PROVE  Join(roles, more) \in RoleMap
  BY DEF Join, RoleMap
<1>4. ASSUME NEW org \in OrgIds, NEW name \in Roles
      PROVE  Role(org, name) \in RoleMap
  BY <1>1 DEF Role, RoleMap
<1>5. QED
  BY <1>1, <1>2, <1>3, <1>4 DEF Outside

\* A user found by Get is a key of the bucket.
LEMMA FoundType ==
    ASSUME TypeOK, NEW who, IdsOf(who) # {}
    PROVE  /\ First(IdsOf(who)) \in DOMAIN users
           /\ First(IdsOf(who)) \in UserIds
           /\ users[First(IdsOf(who))] \in User
           /\ users[First(IdsOf(who))].who = who
<1>1. IdsOf(who) \in SUBSET Nat /\ DOMAIN users \subseteq UserIds
  BY AccountsAssumption DEF IdsOf, TypeOK, UserIds
<1>2. First(IdsOf(who)) \in IdsOf(who)
  BY <1>1, FirstIsMember
<1>3. QED
  BY <1>1, <1>2 DEF IdsOf, TypeOK

-----------------------------------------------------------------------------
(* The requests. *)

\* What a request remembers is determined by where it is.
LEMMA UserRequestShape ==
    ASSUME TypeOK, NEW s \in Slots
    PROVE  /\ reqs[s] \in Request
           /\ reqs[s].at \in {"authUser", "authRole", "authorized"} =>
                 reqs[s].who \in People /\ reqs[s].org \in OrgIds
           /\ reqs[s].at \in {"authRole", "authorized"} => reqs[s].id \in UserIds
           /\ reqs[s].at = "authorized" => reqs[s].super \in BOOLEAN
           /\ reqs[s].at \in {"newUserRoles", "findUser", "updateRoles", "merge",
                              "joinPut", "putUser"} => reqs[s].scope \in Scope
           /\ reqs[s].at \in {"newUserRoles", "findUser", "updateRoles", "merge",
                              "joinPut", "putUser", "addUser"}
                 => reqs[s].user \in User
           /\ reqs[s].at \in {"newUserRoles", "findUser"} =>
                 reqs[s] = [at |-> reqs[s].at, scope |-> reqs[s].scope,
                            user |-> reqs[s].user]
           /\ reqs[s].at \in {"updateRoles", "merge", "joinPut", "putUser"}
                 => reqs[s].id \in UserIds
           /\ reqs[s].at = "updateRoles" =>
                 reqs[s].super \in BOOLEAN /\ reqs[s].self \in BOOLEAN
           /\ reqs[s].at = "putUser" => reqs[s].next \in Rest
           /\ reqs[s].at = "addUser" => reqs[s].undo \in SUBSET OrgIds
<1>1. reqs[s] \in Request
  BY DEF TypeOK
<1>2. QED
  BY <1>1 DEF Request, Rest, Idle

\* The same for the requests about organizations and mappings.
LEMMA OrgRequestShape ==
    ASSUME TypeOK, NEW s \in Slots
    PROVE  /\ reqs[s].at = "strip" =>
                 /\ reqs[s].org \in OrgIds /\ reqs[s].todo \in SUBSET UserIds
                 /\ reqs[s].cascade \in BOOLEAN
                 /\ reqs[s] = [at |-> "strip", org |-> reqs[s].org,
                               todo |-> reqs[s].todo, cascade |-> reqs[s].cascade]
           /\ reqs[s].at \in {"addOrg", "joinFind", "joinAdd"} =>
                 reqs[s].who \in People
           /\ reqs[s].at = "addOrg" => reqs[s].new \in Org
           /\ reqs[s].at \in {"joinFind", "joinAdd"} =>
                 /\ reqs[s].org \in OrgIds
                 /\ reqs[s] = [at |-> reqs[s].at, who |-> reqs[s].who,
                               org |-> reqs[s].org]
           /\ reqs[s].at \in {"checkOrg", "uniqueOrg", "putOrg"} =>
                 /\ reqs[s].id \in OrgIds /\ reqs[s].new \in Org
                 /\ reqs[s] = [at |-> reqs[s].at, id |-> reqs[s].id,
                               new |-> reqs[s].new]
           /\ reqs[s].at \in {"undoOrg", "dropOrg", "listUsers"} =>
                 /\ reqs[s].org \in OrgIds
                 /\ reqs[s] = [at |-> reqs[s].at, org |-> reqs[s].org]
           /\ reqs[s].at = "dropMappings" =>
                 /\ reqs[s].todo \in SUBSET MappingIds
                 /\ reqs[s] = [at |-> "dropMappings", todo |-> reqs[s].todo]
           /\ reqs[s].at \in {"addMapping", "putMapping"} =>
                 reqs[s].mapping \in Mapping
           /\ reqs[s].at = "putMapping" => reqs[s].id \in MappingIds
<1>1. reqs[s] \in Request
  BY DEF TypeOK
<1>2. QED
  BY <1>1 DEF Request, Rest, Idle

\* The same for the requests of Me and UpdateMe.
LEMMA MeRequestShape ==
    ASSUME TypeOK, NEW s \in Slots
    PROVE  /\ reqs[s].at \in {"me", "switch", "switchRaw", "meCount", "meConfig",
                              "meMappings", "meRoles"} => reqs[s].who \in People
           /\ reqs[s].at \in {"switch", "switchRaw"} =>
                 /\ reqs[s].org \in OrgIds /\ reqs[s].role \in Roles
                 /\ reqs[s] = [at |-> reqs[s].at, who |-> reqs[s].who,
                               org |-> reqs[s].org, role |-> reqs[s].role]
           /\ reqs[s].at \in {"meCount", "meConfig"} =>
                 /\ reqs[s].role \in Roles
                 /\ reqs[s] = [at |-> reqs[s].at, who |-> reqs[s].who,
                               role |-> reqs[s].role]
           /\ reqs[s].at \in {"meMappings", "meRoles"} =>
                 reqs[s].role \in Roles /\ reqs[s].super \in BOOLEAN
           /\ reqs[s].at = "meRoles" =>
                 /\ reqs[s].todo \in SUBSET OrgIds /\ reqs[s].roles \in RoleMap
                 /\ reqs[s] = [at |-> "meRoles", who |-> reqs[s].who,
                               role |-> reqs[s].role, super |-> reqs[s].super,
                               todo |-> reqs[s].todo, roles |-> reqs[s].roles]
<1>1. reqs[s] \in Request
  BY DEF TypeOK
<1>2. QED
  BY <1>1 DEF Request, Rest, Idle

\* A step to a well-formed record keeps the requests well formed.
LEMMA GotoType ==
    ASSUME TypeOK, NEW s \in Slots, NEW r \in Request, Goto(s, r)
    PROVE  reqs' \in [Slots -> Request] /\ left' \in Nat
  BY DEF TypeOK, Goto

\* So does the end of a request.
LEMMA DoneType ==
    ASSUME TypeOK, NEW s \in Slots, Done(s)
    PROVE  reqs' \in [Slots -> Request] /\ left' \in Nat
<1>1. Idle \in Request
  BY DEF Request, Rest
<1>2. QED
  BY <1>1, GotoType DEF Done

\* A step that leaves the buckets alone has only its request to answer for.
LEMMA ReadKeepsType ==
    ASSUME TypeOK, UNCHANGED db, reqs' \in [Slots -> Request], left' \in Nat
    PROVE  TypeOK'
  BY DEF TypeOK, db

-----------------------------------------------------------------------------
(* Type correctness, step by step. *)

\* Authorization.
LEMMA AuthKeepsType ==
    ASSUME TypeOK, NEW s \in Slots,
           \/ Accept(s) \/ AcceptMe(s) \/ UpdateMe(s)
           \/ AuthUser(s) \/ AuthRole(s) \/ AuthRefuse(s)
    PROVE  TypeOK'
<1> DEFINE r == reqs[s]
<1>1. ASSUME NEW q \in Request, Begin(s, q) PROVE TypeOK'
  BY <1>1 DEF TypeOK, Begin, db
<1>2. CASE Accept(s)
  <2>1. PICK who \in People, org \in DOMAIN orgs :
           Begin(s, [at |-> "authUser", who |-> who, org |-> org])
    BY <1>2 DEF Accept
  <2>2. [at |-> "authUser", who |-> who, org |-> org] \in Request
    BY DEF Request, TypeOK
  <2>3. QED
    BY <1>1, <2>1, <2>2
<1>3. CASE AcceptMe(s)
  <2>1. PICK who \in People : Begin(s, [at |-> "me", who |-> who])
    BY <1>3 DEF AcceptMe
  <2>2. [at |-> "me", who |-> who] \in Request
    BY DEF Request, Rest
  <2>3. QED
    BY <1>1, <2>1, <2>2
<1>4. CASE UpdateMe(s)
  <2>1. PICK who \in People, org \in DOMAIN orgs :
           Begin(s, [at |-> "switch", who |-> who, org |-> org,
                     role |-> orgs[org].role])
    BY <1>4 DEF UpdateMe
  <2>2. org \in OrgIds /\ orgs[org].role \in Roles
    BY DEF TypeOK, Org
  <2>3. [at |-> "switch", who |-> who, org |-> org, role |-> orgs[org].role]
           \in Request
    BY <2>2 DEF Request
  <2>4. QED
    BY <1>1, <2>1, <2>3
<1>5. CASE AuthUser(s)
  <2> DEFINE id == First(IdsOf(r.who))
             in == [at |-> "authorized", who |-> r.who, org |-> r.org,
                    id |-> id, super |-> TRUE]
             ask == [at |-> "authRole", who |-> r.who, org |-> r.org, id |-> id]
  <2>1. UNCHANGED db /\ (Goto(s, in) \/ Goto(s, ask))
    BY <1>5 DEF AuthUser
  <2>2. id \in UserIds /\ r.who \in People /\ r.org \in OrgIds
    BY <1>5, FoundType, UserRequestShape DEF AuthUser
  <2>3. in \in Request /\ ask \in Request
    <3> HIDE DEF id
    <3> QED BY <2>2 DEF Request
  <2>4. QED
    BY <2>1, <2>3, GotoType, ReadKeepsType
<1>6. CASE AuthRole(s)
  <2>1. /\ UNCHANGED db /\ r.at = "authRole"
        /\ Goto(s, [at |-> "authorized", who |-> r.who, org |-> r.org,
                    id |-> r.id, super |-> FALSE])
    BY <1>6 DEF AuthRole
  <2>2. [at |-> "authorized", who |-> r.who, org |-> r.org, id |-> r.id,
         super |-> FALSE] \in Request
    BY <2>1, UserRequestShape DEF Request
  <2>3. QED
    BY <2>1, <2>2, GotoType, ReadKeepsType
<1>7. CASE AuthRefuse(s)
  BY <1>7, DoneType, ReadKeepsType DEF AuthRefuse
<1>8. QED
  BY <1>2, <1>3, <1>4, <1>5, <1>6, <1>7

\* What a store's routes of an organization show.
LEMMA ScopesType ==
    ASSUME TypeOK, NEW s \in Slots, reqs[s].at = "authorized"
    PROVE  Scopes(reqs[s]) \subseteq Scope
  BY UserRequestShape DEF Scopes, Scope

\* The roles a request may ask for are roles.
LEMMA AskedRolesType ==
    ASSUME TypeOK, NEW scope \in Scope
    PROVE  AskedRoles(scope) \subseteq RoleMap
<1>1. ASSUME NEW o \in DOMAIN orgs, NEW name \in RoleInputs \cup {orgs[o].role}
      PROVE  Role(o, name) \in RoleMap
  <2>1. o \in OrgIds /\ orgs[o].role \in Roles
    BY DEF TypeOK, Org
  <2>2. name \in Roles
    BY <2>1, AccountsAssumption
  <2>3. QED
    BY <2>1, <2>2, RolesType
<1>2. QED
  BY <1>1, RolesType DEF AskedRoles

\* The steps of server/users.go that only read.
LEMMA UserReadsKeepType ==
    ASSUME TypeOK, NEW s \in Slots,
           \/ NewUser(s) \/ NewUserRoles(s) \/ FindUser(s) \/ UpdateUser(s)
           \/ UpdateRoles(s) \/ Merge(s) \/ MergeMissing(s)
           \/ RemoveUserOfOrg(s) \/ Strip(s) \/ StripMissing(s)
    PROVE  TypeOK'
<1> DEFINE r == reqs[s]
<1>0. DOMAIN users \subseteq UserIds /\ \A id \in DOMAIN users : users[id] \in User
  BY AccountsAssumption DEF TypeOK, UserIds
<1>1. CASE NewUser(s)
  <2>1. PICK who \in People, super \in BOOLEAN, scope \in Scopes(r) :
           Goto(s, [at |-> "newUserRoles", scope |-> scope,
                    user |-> [who |-> who, super |-> super, roles |-> NoRoles]])
    BY <1>1 DEF NewUser, TypeOK
  <2>2. scope \in Scope
    BY <1>1, ScopesType DEF NewUser
  <2>3. [who |-> who, super |-> super, roles |-> NoRoles] \in User
    BY RolesType DEF User
  <2>4. \A user \in User :
           [at |-> "newUserRoles", scope |-> scope, user |-> user] \in Request
    BY <2>2 DEF Request
  <2>5. QED
    BY <1>1, <2>1, <2>3, <2>4, GotoType, ReadKeepsType DEF NewUser
<1>2. CASE NewUserRoles(s)
  <2>1. PICK roles \in AskedRoles(r.scope) :
           Goto(s, [at |-> "findUser", scope |-> r.scope,
                    user |-> [r.user EXCEPT !.roles = roles]])
    BY <1>2 DEF NewUserRoles
  <2>2. r.scope \in Scope /\ r.user \in User
    BY <1>2, UserRequestShape DEF NewUserRoles
  <2>3. roles \in RoleMap
    BY <2>2, AskedRolesType
  <2>4. [r.user EXCEPT !.roles = roles] \in User
    BY <2>2, <2>3 DEF User
  <2>5. \A user \in User :
           [at |-> "findUser", scope |-> r.scope, user |-> user] \in Request
    BY <2>2 DEF Request
  <2>6. QED
    BY <1>2, <2>1, <2>4, <2>5, GotoType, ReadKeepsType DEF NewUserRoles
<1>3. CASE FindUser(s)
  <2> DEFINE id == First(IdsOf(r.user.who))
             old == users[id]
             user == [old EXCEPT !.roles = Join(@, r.user.roles),
                                 !.super = @ \/ r.user.super]
             add == [at |-> "addUser", user |-> r.user, undo |-> {}]
             put == [at |-> "putUser", scope |-> r.scope, id |-> id,
                     user |-> user, next |-> Idle]
  <2>1. /\ UNCHANGED db /\ r.at = "findUser"
        /\ \/ Goto(s, add) \/ Done(s)
           \/ IdsOf(r.user.who) # {} /\ Goto(s, put)
    BY <1>3 DEF FindUser
  <2>2. r.scope \in Scope /\ r.user \in User
    BY <2>1, UserRequestShape
  <2>3. add \in Request
    BY <2>2 DEF Request
  <2>4. ASSUME IdsOf(r.user.who) # {} PROVE put \in Request
    <3>1. id \in UserIds /\ old \in User
      BY <2>4, FoundType
    <3>2. Join(old.roles, r.user.roles) \in RoleMap
      BY <2>2, <3>1, RolesType DEF User
    <3>3. user \in User
      <4> HIDE DEF old
      <4> QED BY <2>2, <3>1, <3>2 DEF User
    <3> HIDE DEF id, user
    <3>4. QED
      BY <2>2, <3>1, <3>3 DEF Request, Rest
  <2> HIDE DEF add, put
  <2>5. QED
    BY <2>1, <2>3, <2>4, GotoType, DoneType, ReadKeepsType
<1>4. CASE UpdateUser(s)
  <2>1. PICK scope \in Scopes(r) : \E id \in Visible(scope) :
           Goto(s, [at |-> "updateRoles", scope |-> scope, id |-> id,
                    user |-> users[id], self |-> id = r.id, super |-> r.super])
    BY <1>4 DEF UpdateUser
  <2>2. PICK id \in Visible(scope) :
           Goto(s, [at |-> "updateRoles", scope |-> scope, id |-> id,
                    user |-> users[id], self |-> id = r.id, super |-> r.super])
    BY <2>1
  <2>3. /\ scope \in Scope /\ id \in UserIds /\ users[id] \in User
        /\ r.super \in BOOLEAN
    BY <1>0, <1>4, ScopesType, UserRequestShape DEF UpdateUser, Visible
  <2>4. \A self \in BOOLEAN :
           [at |-> "updateRoles", scope |-> scope, id |-> id, user |-> users[id],
            self |-> self, super |-> r.super] \in Request
    BY <2>3 DEF Request
  <2>5. QED
    BY <1>4, <2>2, <2>4, GotoType, ReadKeepsType DEF UpdateUser
<1>5. CASE UpdateRoles(s)
  <2>1. PICK roles \in AskedRoles(r.scope), super \in BOOLEAN :
           LET user == [r.user EXCEPT !.roles = roles, !.super = super] IN
           \/ Goto(s, [at |-> "putUser", scope |-> r.scope, id |-> r.id,
                       user |-> user, next |-> Idle])
           \/ Goto(s, [at |-> "merge", scope |-> r.scope, id |-> r.id,
                       user |-> user])
    BY <1>5 DEF UpdateRoles
  <2> DEFINE user == [r.user EXCEPT !.roles = roles, !.super = super]
  <2>2. r.scope \in Scope /\ r.user \in User /\ r.id \in UserIds
    BY <1>5, UserRequestShape DEF UpdateRoles
  <2>3. roles \in RoleMap
    BY <2>2, AskedRolesType
  <2>4. user \in User
    BY <2>2, <2>3 DEF User
  <2>5. /\ [at |-> "putUser", scope |-> r.scope, id |-> r.id, user |-> user,
            next |-> Idle] \in Request
        /\ [at |-> "merge", scope |-> r.scope, id |-> r.id, user |-> user]
              \in Request
    <3> HIDE DEF user
    <3> QED BY <2>2, <2>4 DEF Request, Rest
  <2>6. QED
    BY <1>5, <2>1, <2>5, GotoType, ReadKeepsType DEF UpdateRoles
<1>6. CASE Merge(s)
  <2> DEFINE user == [r.user EXCEPT !.roles =
                        Join(Outside(users[r.id].roles, r.scope), @)]
             put == [at |-> "putUser", scope |-> r.scope, id |-> r.id,
                     user |-> user, next |-> Idle]
  <2>1. UNCHANGED db /\ r.id \in DOMAIN users /\ Goto(s, put) /\ r.at = "merge"
    BY <1>6 DEF Merge
  <2>2. /\ r.scope \in Scope /\ r.user \in User /\ r.id \in UserIds
        /\ users[r.id] \in User
    BY <1>0, <2>1, UserRequestShape
  <2>3. Join(Outside(users[r.id].roles, r.scope), r.user.roles) \in RoleMap
    BY <2>2, RolesType DEF User
  <2>4. user \in User
    BY <2>2, <2>3 DEF User
  <2>5. put \in Request
    <3> HIDE DEF user
    <3> QED BY <2>2, <2>4 DEF Request, Rest
  <2>6. QED
    BY <2>1, <2>5, GotoType, ReadKeepsType
<1>7. CASE MergeMissing(s) \/ StripMissing(s)
  BY <1>7, DoneType, ReadKeepsType DEF MergeMissing, StripMissing
<1>8. CASE RemoveUserOfOrg(s)
  <2>1. PICK id \in Visible({r.org}) :
           Goto(s, [at |-> "strip", org |-> r.org, todo |-> {id},
                    cascade |-> FALSE])
    BY <1>8 DEF RemoveUserOfOrg
  <2>2. id \in UserIds /\ r.org \in OrgIds
    BY <1>0, <1>8, UserRequestShape DEF RemoveUserOfOrg, Visible
  <2>3. [at |-> "strip", org |-> r.org, todo |-> {id}, cascade |-> FALSE]
           \in Request
    BY <2>2 DEF Request, Rest
  <2>4. QED
    BY <1>8, <2>1, <2>3, GotoType, ReadKeepsType DEF RemoveUserOfOrg
<1>9. CASE Strip(s)
  <2> DEFINE id == First(r.todo)
             user == [users[id] EXCEPT !.roles = Outside(@, {r.org})]
             next == IF r.cascade THEN [r EXCEPT !.todo = @ \ {id}] ELSE Idle
             put == [at |-> "putUser", scope |-> {r.org}, id |-> id,
                     user |-> user, next |-> next]
  <2>1. /\ UNCHANGED db /\ r.at = "strip" /\ id \in DOMAIN users
        /\ Goto(s, put)
    BY <1>9 DEF Strip
  <2>2. /\ r.org \in OrgIds /\ r.todo \in SUBSET UserIds
        /\ r = [at |-> "strip", org |-> r.org, todo |-> r.todo,
                cascade |-> r.cascade]
        /\ r.cascade \in BOOLEAN
    BY <2>1, OrgRequestShape
  <2>3. id \in UserIds /\ users[id] \in User /\ {r.org} \in Scope
    BY <1>0, <2>1, <2>2 DEF Scope
  <2>4. next \in Rest
    <3> HIDE DEF id
    <3>1. [r EXCEPT !.todo = @ \ {id}]
          = [at |-> "strip", org |-> r.org, todo |-> r.todo \ {id},
             cascade |-> r.cascade]
      BY <2>2
    <3>2. QED
      BY <2>2, <3>1 DEF Rest
  <2>5. Outside(users[id].roles, {r.org}) \in RoleMap
    BY <2>3, RolesType DEF User
  <2>6. user \in User
    <3> HIDE DEF id
    <3> QED BY <2>3, <2>5 DEF User
  <2>7. put \in Request
    <3> HIDE DEF id, user, next
    <3> QED BY <2>3, <2>4, <2>6 DEF Request
  <2>8. QED
    BY <2>1, <2>7, GotoType, ReadKeepsType
<1>10. QED
  BY <1>1, <1>2, <1>3, <1>4, <1>5, <1>6, <1>7, <1>8, <1>9

\* The steps that write the Users bucket.
LEMMA UserWritesKeepType ==
    ASSUME TypeOK, NEW s \in Slots,
           \/ AddUser(s) \/ RemoveUser(s)
           \/ PutUser(s) /\ reqs[s].id \in 1..userSeq
    PROVE  TypeOK'
<1>0. userSeq \in Nat /\ users \in [DOMAIN users -> User]
  BY DEF TypeOK
<1>1. ASSUME users' \in [DOMAIN users' -> User], UsersOnly,
             userSeq' \in 0..MaxUsers, DOMAIN users' \subseteq 1..userSeq',
             reqs' \in [Slots -> Request], left' \in Nat
      PROVE  TypeOK'
  BY <1>1 DEF TypeOK, UsersOnly
<1>2. CASE AddUser(s)
  <2> DEFINE user == reqs[s].user
  <2>1. user \in User
    BY <1>2, UserRequestShape DEF AddUser
  <2>2. users' = PutKey(users, userSeq', user) /\ userSeq' = userSeq + 1
        /\ UsersOnly /\ Done(s) /\ userSeq < MaxUsers
    BY <1>2 DEF AddUser
  <2> HIDE DEF user
  <2>3. /\ DOMAIN users' = DOMAIN users \cup {userSeq'}
        /\ users' \in [DOMAIN users' -> User]
    BY <1>0, <2>1, <2>2 DEF PutKey
  <2>4. userSeq' \in 0..MaxUsers /\ DOMAIN users' \subseteq 1..userSeq'
    BY <2>2, <2>3, AccountsAssumption DEF TypeOK
  <2>5. QED
    BY <1>1, <2>2, <2>3, <2>4, DoneType
<1>3. CASE PutUser(s) /\ reqs[s].id \in 1..userSeq
  <2> DEFINE user == reqs[s].user
             id == reqs[s].id
             next == reqs[s].next
  <2>1. user \in User /\ next \in Rest
    BY <1>3, UserRequestShape DEF PutUser
  <2>2. /\ users' = PutKey(users, id, user) /\ Goto(s, next)
        /\ UNCHANGED userSeq /\ UsersOnly /\ id \in 1..userSeq
    BY <1>3 DEF PutUser
  <2>3. next \in Request
    BY <2>1 DEF Request
  <2> HIDE DEF user, id, next
  <2>4. /\ DOMAIN users' = DOMAIN users \cup {id}
        /\ users' \in [DOMAIN users' -> User]
    BY <1>0, <2>1, <2>2 DEF PutKey
  <2>5. QED
    BY <1>1, <2>2, <2>3, <2>4, GotoType DEF TypeOK
<1>4. CASE RemoveUser(s)
  <2>1. PICK id \in DOMAIN users : users' = DropKey(users, id)
    BY <1>4 DEF RemoveUser
  <2>2. /\ DOMAIN users' = DOMAIN users \ {id}
        /\ users' \in [DOMAIN users' -> User]
    BY <1>0, <2>1 DEF DropKey
  <2>3. QED
    BY <1>1, <1>4, <2>2, DoneType DEF RemoveUser, TypeOK
<1>5. QED
  BY <1>2, <1>3, <1>4

\* The steps of server/organizations.go.
LEMMA OrgStepsKeepType ==
    ASSUME TypeOK, NEW s \in Slots,
           \/ NewOrganization(s) \/ AddOrg(s) \/ JoinFind(s) \/ JoinAdd(s)
           \/ JoinPut(s) \/ UndoOrg(s) \/ UpdateOrganization(s) \/ CheckOrg(s)
           \/ UniqueOrg(s) \/ PutOrg(s) \/ RemoveOrganization(s) \/ DropOrg(s)
    PROVE  TypeOK'
<1> DEFINE r == reqs[s]
<1>0. /\ \A o \in DOMAIN orgs : o \in OrgIds /\ orgs[o] \in Org
      /\ orgs \in [DOMAIN orgs -> Org] /\ orgSeq \in OrgIds
      /\ \A id \in DOMAIN users : id \in UserIds /\ users[id] \in User
  BY AccountsAssumption DEF TypeOK, UserIds
<1>1. ASSUME orgs' \in [DOMAIN orgs' -> Org], DOMAIN orgs' \subseteq OrgIds,
             orgSeq' \in OrgIds, OrgsOnly,
             reqs' \in [Slots -> Request], left' \in Nat
      PROVE  TypeOK'
  BY <1>1 DEF TypeOK, OrgsOnly
<1>2. \A at \in {"undoOrg", "dropOrg", "listUsers"}, org \in OrgIds :
         [at |-> at, org |-> org] \in Request
  BY DEF Request
<1>3. \A at \in {"checkOrg", "uniqueOrg", "putOrg"}, id \in OrgIds, new \in Org :
         [at |-> at, id |-> id, new |-> new] \in Request
  BY DEF Request
<1>4. \A at \in {"joinFind", "joinAdd"}, who \in People, org \in OrgIds :
         [at |-> at, who |-> who, org |-> org] \in Request
  BY DEF Request
<1>5. CASE NewOrganization(s)
  <2>1. PICK name \in OrgNames, role \in RoleInputs :
           Goto(s, [at |-> "addOrg", who |-> r.who,
                    new |-> [name |-> name, role |-> role]])
    BY <1>5 DEF NewOrganization
  <2>2. [name |-> name, role |-> role] \in Org /\ r.who \in People
    BY <1>5, UserRequestShape, AccountsAssumption DEF Org, NewOrganization
  <2>3. \A new \in Org : [at |-> "addOrg", who |-> r.who, new |-> new] \in Request
    BY <2>2 DEF Request
  <2>4. QED
    BY <1>5, <2>1, <2>2, <2>3, GotoType, ReadKeepsType DEF NewOrganization
<1>6. CASE AddOrg(s)
  <2> DEFINE new == r.new
  <2>1. new \in Org /\ r.who \in People
    BY <1>6, OrgRequestShape DEF AddOrg
  <2>2. /\ orgSeq' = orgSeq + 1 /\ orgSeq < MaxOrgs /\ OrgsOnly
        /\ orgs' = PutKey(orgs, orgSeq', new)
        /\ Goto(s, [at |-> "joinFind", who |-> r.who, org |-> orgSeq'])
    BY <1>6 DEF AddOrg
  <2>3. orgSeq' \in OrgIds
    BY <1>0, <2>2, AccountsAssumption DEF OrgIds
  <2>4. reqs' \in [Slots -> Request] /\ left' \in Nat
    BY <1>4, <2>1, <2>2, <2>3, GotoType
  <2> HIDE DEF new
  <2>5. /\ DOMAIN orgs' = DOMAIN orgs \cup {orgSeq'}
        /\ orgs' \in [DOMAIN orgs' -> Org]
    BY <1>0, <2>1, <2>2 DEF PutKey
  <2>6. QED
    BY <1>0, <1>1, <2>2, <2>3, <2>4, <2>5
<1>7. CASE JoinFind(s)
  <2> DEFINE id == First(IdsOf(r.who))
             user == [users[id] EXCEPT !.super = TRUE,
                                       !.roles = Join(@, Role(r.org, "admin"))]
             put == [at |-> "joinPut", scope |-> {r.org}, id |-> id,
                     user |-> user]
  <2>1. /\ UNCHANGED db /\ r.at = "joinFind"
        /\ \/ Goto(s, [r EXCEPT !.at = "joinAdd"])
           \/ Goto(s, [at |-> "undoOrg", org |-> r.org])
           \/ IdsOf(r.who) # {} /\ Goto(s, put)
    BY <1>7 DEF JoinFind
  <2>2. /\ r.who \in People /\ r.org \in OrgIds
        /\ r = [at |-> r.at, who |-> r.who, org |-> r.org]
    BY <2>1, OrgRequestShape
  <2>3. [r EXCEPT !.at = "joinAdd"]
        = [at |-> "joinAdd", who |-> r.who, org |-> r.org]
    BY <2>2
  <2>4. ASSUME IdsOf(r.who) # {} PROVE put \in Request
    <3>1. id \in UserIds /\ users[id] \in User
      BY <2>4, FoundType
    <3>2. Join(users[id].roles, Role(r.org, "admin")) \in RoleMap
      BY <2>2, <3>1, RolesType DEF User, Roles
    <3> HIDE DEF id
    <3>3. user \in User
      BY <3>1, <3>2 DEF User
    <3>4. {r.org} \in Scope
      BY <2>2 DEF Scope
    <3> HIDE DEF user
    <3>5. QED
      BY <3>1, <3>3, <3>4 DEF Request
  <2> HIDE DEF put
  <2>5. QED
    BY <1>2, <1>4, <2>1, <2>2, <2>3, <2>4, GotoType, ReadKeepsType
<1>8. CASE JoinAdd(s)
  <2> DEFINE user == [who |-> r.who, super |-> TRUE,
                      roles |-> Role(r.org, "admin")]
             add == [at |-> "addUser", undo |-> {r.org}, user |-> user]
  <2>1. /\ UNCHANGED db /\ r.at = "joinAdd"
        /\ Goto(s, [at |-> "undoOrg", org |-> r.org]) \/ Goto(s, add)
    BY <1>8 DEF JoinAdd
  <2>2. r.who \in People /\ r.org \in OrgIds
    BY <2>1, OrgRequestShape
  <2>3. user \in User
    BY <2>2, RolesType DEF User, Roles
  <2>4. add \in Request
    <3> HIDE DEF user
    <3> QED BY <2>2, <2>3 DEF Request
  <2> HIDE DEF add
  <2>5. QED
    BY <1>2, <2>1, <2>2, <2>4, GotoType, ReadKeepsType
<1>9. CASE JoinPut(s)
  <2> DEFINE put == [at |-> "putUser", scope |-> r.scope, id |-> r.id,
                     user |-> r.user, next |-> Idle]
  <2>1. /\ UNCHANGED db /\ r.at = "joinPut"
        /\ \/ \E org \in r.scope : Goto(s, [at |-> "undoOrg", org |-> org])
           \/ Goto(s, put)
    BY <1>9 DEF JoinPut
  <2>2. r.scope \in Scope /\ r.id \in UserIds /\ r.user \in User
    BY <2>1, UserRequestShape
  <2>3. r.scope \subseteq OrgIds
    BY <2>2 DEF Scope, Raw
  <2>4. put \in Request
    BY <2>2 DEF Request, Rest
  <2> HIDE DEF put
  <2>5. QED
    BY <1>2, <2>1, <2>3, <2>4, GotoType, ReadKeepsType
<1>10. CASE UndoOrg(s)
  <2>1. /\ UNCHANGED db /\ r.at = "undoOrg"
        /\ Goto(s, [r EXCEPT !.at = "dropOrg"]) \/ Done(s)
    BY <1>10 DEF UndoOrg
  <2>2. r.org \in OrgIds /\ r = [at |-> r.at, org |-> r.org]
    BY <2>1, OrgRequestShape
  <2>3. [r EXCEPT !.at = "dropOrg"] = [at |-> "dropOrg", org |-> r.org]
    BY <2>2
  <2>4. QED
    BY <1>2, <2>1, <2>2, <2>3, GotoType, DoneType, ReadKeepsType
<1>11. CASE UpdateOrganization(s)
  <2>1. PICK id \in DOMAIN orgs :
           \E name \in OrgNames, role \in RoleInputs \cup {orgs[id].role} :
              Goto(s, [at |-> "checkOrg", id |-> id,
                       new |-> [name |-> name, role |-> role]])
    BY <1>11 DEF UpdateOrganization
  <2>2. PICK name \in OrgNames, role \in RoleInputs \cup {orgs[id].role} :
           Goto(s, [at |-> "checkOrg", id |-> id,
                    new |-> [name |-> name, role |-> role]])
    BY <2>1
  <2>3. [name |-> name, role |-> role] \in Org /\ id \in OrgIds
    BY <1>0, AccountsAssumption DEF Org
  <2>4. QED
    BY <1>3, <1>11, <2>2, <2>3, GotoType, ReadKeepsType DEF UpdateOrganization
<1>12. CASE CheckOrg(s) \/ UniqueOrg(s)
  <2>1. /\ UNCHANGED db /\ r.at \in {"checkOrg", "uniqueOrg"}
        /\ \/ Done(s) \/ Goto(s, [r EXCEPT !.at = "putOrg"])
           \/ Goto(s, [r EXCEPT !.at = "uniqueOrg"])
    BY <1>12 DEF CheckOrg, UniqueOrg
  <2>2. /\ r.id \in OrgIds /\ r.new \in Org
        /\ r = [at |-> r.at, id |-> r.id, new |-> r.new]
    BY <2>1, OrgRequestShape
  <2>3. \A at : [r EXCEPT !.at = at] = [at |-> at, id |-> r.id, new |-> r.new]
    BY <2>2
  <2>4. QED
    BY <1>3, <2>1, <2>2, <2>3, GotoType, DoneType, ReadKeepsType
<1>13. CASE PutOrg(s)
  <2> DEFINE new == r.new
             id == r.id
  <2>1. new \in Org /\ id \in OrgIds
    BY <1>13, OrgRequestShape DEF PutOrg
  <2>2. /\ orgs' = PutKey(orgs, id, new) /\ UNCHANGED orgSeq /\ OrgsOnly
        /\ Done(s)
    BY <1>13 DEF PutOrg
  <2> HIDE DEF new, id
  <2>3. /\ DOMAIN orgs' = DOMAIN orgs \cup {id}
        /\ orgs' \in [DOMAIN orgs' -> Org]
    BY <1>0, <2>1, <2>2 DEF PutKey
  <2>4. QED
    BY <1>0, <1>1, <2>1, <2>2, <2>3, DoneType
<1>14. CASE RemoveOrganization(s)
  BY <1>0, <1>2, <1>14, GotoType, ReadKeepsType DEF RemoveOrganization
<1>15. CASE DropOrg(s)
  <2> DEFINE org == r.org
  <2>1. /\ orgs' = DropKey(orgs, org) /\ UNCHANGED orgSeq /\ OrgsOnly
        /\ Goto(s, [r EXCEPT !.at = "listUsers"]) /\ r.at = "dropOrg"
    BY <1>15 DEF DropOrg
  <2>2. org \in OrgIds /\ r = [at |-> r.at, org |-> org]
    BY <2>1, OrgRequestShape
  <2>3. [r EXCEPT !.at = "listUsers"] = [at |-> "listUsers", org |-> org]
    BY <2>2
  <2>4. reqs' \in [Slots -> Request] /\ left' \in Nat
    BY <1>2, <2>1, <2>2, <2>3, GotoType
  <2> HIDE DEF org
  <2>5. /\ DOMAIN orgs' = DOMAIN orgs \ {org}
        /\ orgs' \in [DOMAIN orgs' -> Org]
    BY <1>0, <2>1 DEF DropKey
  <2>6. QED
    BY <1>0, <1>1, <2>1, <2>4, <2>5
<1>16. QED
  BY <1>5, <1>6, <1>7, <1>8, <1>9, <1>10, <1>11, <1>12, <1>13, <1>14, <1>15

\* The cascade of the delete of an organization.
LEMMA CascadeStepsKeepType ==
    ASSUME TypeOK, NEW s \in Slots,
           \/ ListUsers(s) \/ AllStripped(s) \/ DropMapping(s)
           \/ DropMappingEnd(s)
    PROVE  TypeOK'
<1> DEFINE r == reqs[s]
<1>0. mappings \in [DOMAIN mappings -> Mapping] /\ DOMAIN mappings \subseteq MappingIds
  BY DEF TypeOK
<1>1. CASE ListUsers(s)
  <2>1. UNCHANGED db /\ r.at = "listUsers"
        /\ Goto(s, [at |-> "strip", org |-> r.org, todo |-> Visible({r.org}),
                    cascade |-> TRUE])
    BY <1>1 DEF ListUsers
  <2>2. r.org \in OrgIds /\ Visible({r.org}) \subseteq UserIds
    BY <2>1, OrgRequestShape, AccountsAssumption DEF Visible, TypeOK, UserIds
  <2>3. [at |-> "strip", org |-> r.org, todo |-> Visible({r.org}),
         cascade |-> TRUE] \in Request
    BY <2>2 DEF Request, Rest
  <2>4. QED
    BY <2>1, <2>3, GotoType, ReadKeepsType
<1>2. CASE AllStripped(s)
  <2> DEFINE todo == {m \in DOMAIN mappings : mappings[m].org = r.org}
  <2>1. UNCHANGED db /\ Goto(s, [at |-> "dropMappings", todo |-> todo])
    BY <1>2 DEF AllStripped
  <2>2. todo \in SUBSET MappingIds
    BY <1>0
  <2> HIDE DEF todo
  <2>3. [at |-> "dropMappings", todo |-> todo] \in Request
    BY <2>2 DEF Request
  <2>4. QED
    BY <2>1, <2>3, GotoType, ReadKeepsType
<1>3. CASE DropMapping(s)
  <2> DEFINE m == First(r.todo)
  <2>1. /\ mappings' = DropKey(mappings, m)
        /\ Goto(s, [r EXCEPT !.todo = @ \ {m}])
        /\ UNCHANGED mapSeq /\ MappingsOnly /\ r.at = "dropMappings"
    BY <1>3 DEF DropMapping
  <2>2. r.todo \in SUBSET MappingIds
        /\ r = [at |-> "dropMappings", todo |-> r.todo]
    BY <2>1, OrgRequestShape
  <2> HIDE DEF m
  <2>3. [r EXCEPT !.todo = @ \ {m}] = [at |-> "dropMappings", todo |-> r.todo \ {m}]
    BY <2>2
  <2>4. [at |-> "dropMappings", todo |-> r.todo \ {m}] \in Request
    BY <2>2 DEF Request
  <2>5. reqs' \in [Slots -> Request] /\ left' \in Nat
    BY <2>1, <2>3, <2>4, GotoType
  <2>6. /\ DOMAIN mappings' = DOMAIN mappings \ {m}
        /\ mappings' \in [DOMAIN mappings' -> Mapping]
    BY <1>0, <2>1 DEF DropKey
  <2>7. QED
    BY <2>1, <2>5, <2>6 DEF TypeOK, MappingsOnly
<1>4. CASE DropMappingEnd(s)
  BY <1>4, DoneType, ReadKeepsType DEF DropMappingEnd
<1>5. QED
  BY <1>1, <1>2, <1>3, <1>4

\* The steps about mappings and the auth config.
LEMMA MappingStepsKeepType ==
    ASSUME TypeOK, NEW s \in Slots,
           \/ NewMapping(s) \/ AddMapping(s) \/ UpdateMapping(s) \/ PutMapping(s)
           \/ RemoveMapping(s) \/ ReplaceAuthConfig(s)
    PROVE  TypeOK'
<1> DEFINE r == reqs[s]
<1>0. /\ mappings \in [DOMAIN mappings -> Mapping]
      /\ DOMAIN mappings \subseteq MappingIds /\ mapSeq \in MappingIds
      /\ \A org \in DOMAIN orgs, whom \in SUBSET People :
            [org |-> org, whom |-> whom] \in Mapping
  BY DEF TypeOK, Mapping
<1>1. ASSUME mappings' \in [DOMAIN mappings' -> Mapping],
             DOMAIN mappings' \subseteq MappingIds, mapSeq' \in MappingIds,
             MappingsOnly, Done(s)
      PROVE  TypeOK'
  BY <1>1, DoneType DEF TypeOK, MappingsOnly
<1>2. CASE NewMapping(s)
  <2>1. PICK mapping \in Mapping :
           Goto(s, [at |-> "addMapping", mapping |-> mapping])
    BY <1>0, <1>2 DEF NewMapping
  <2>2. [at |-> "addMapping", mapping |-> mapping] \in Request
    BY DEF Request
  <2>3. QED
    BY <1>2, <2>1, <2>2, GotoType, ReadKeepsType DEF NewMapping
<1>3. CASE UpdateMapping(s)
  <2>1. PICK id \in MappingIds, mapping \in Mapping :
           Goto(s, [at |-> "putMapping", id |-> id, mapping |-> mapping])
    BY <1>0, <1>3 DEF UpdateMapping
  <2>2. [at |-> "putMapping", id |-> id, mapping |-> mapping] \in Request
    BY DEF Request
  <2>3. QED
    BY <1>3, <2>1, <2>2, GotoType, ReadKeepsType DEF UpdateMapping
<1>4. CASE AddMapping(s) \/ PutMapping(s)
  <2> DEFINE mapping == r.mapping
             id == IF AddMapping(s) THEN mapSeq' ELSE r.id
  <2>1. mapping \in Mapping
    BY <1>4, OrgRequestShape DEF AddMapping, PutMapping
  <2>2. id \in MappingIds /\ mapSeq' \in MappingIds
    <3>1. CASE AddMapping(s)
      BY <1>0, <3>1, AccountsAssumption DEF AddMapping, MappingIds
    <3>2. CASE ~AddMapping(s)
      BY <1>0, <1>4, <3>2, OrgRequestShape DEF PutMapping
    <3>3. QED
      BY <3>1, <3>2
  <2>3. mappings' = PutKey(mappings, id, mapping) /\ MappingsOnly /\ Done(s)
    BY <1>4 DEF AddMapping, PutMapping
  <2> HIDE DEF mapping, id
  <2>4. /\ DOMAIN mappings' = DOMAIN mappings \cup {id}
        /\ mappings' \in [DOMAIN mappings' -> Mapping]
    BY <1>0, <2>1, <2>3 DEF PutKey
  <2>5. QED
    BY <1>0, <1>1, <2>2, <2>3, <2>4
<1>5. CASE RemoveMapping(s)
  <2>1. PICK m \in DOMAIN mappings : mappings' = DropKey(mappings, m)
    BY <1>5 DEF RemoveMapping
  <2>2. /\ DOMAIN mappings' = DOMAIN mappings \ {m}
        /\ mappings' \in [DOMAIN mappings' -> Mapping]
    BY <1>0, <2>1 DEF DropKey
  <2>3. QED
    BY <1>0, <1>1, <1>5, <2>2 DEF RemoveMapping
<1>6. CASE ReplaceAuthConfig(s)
  BY <1>6, DoneType DEF ReplaceAuthConfig, TypeOK
<1>7. QED
  BY <1>2, <1>3, <1>4, <1>5, <1>6

\* Me and UpdateMe; Me reads the default organization.
LEMMA MeStepsKeepType ==
    ASSUME TypeOK, DefaultOrgKept, NEW s \in Slots,
           \/ Switch(s) \/ SwitchRaw(s) \/ Me(s) \/ MeCount(s) \/ MeConfig(s)
           \/ MeMappings(s) \/ MeRole(s) \/ MeAdd(s)
    PROVE  TypeOK'
<1> DEFINE r == reqs[s]
           id == First(IdsOf(r.who))
<1>0. \A o \in DOMAIN orgs : o \in OrgIds /\ orgs[o].role \in Roles
  BY DEF TypeOK, Org
<1>1. IdsOf(r.who) # {} => id \in UserIds /\ users[id] \in User
  BY FoundType
<1>2. \A who \in People : [at |-> "me", who |-> who] \in Rest \cap Request
  BY DEF Rest, Request
<1>3. Idle \in Rest
  BY DEF Rest
<1>4. \A user \in User, next \in Rest, i \in UserIds :
         [at |-> "putUser", scope |-> Raw, id |-> i, user |-> user, next |-> next]
            \in Request
  <2>1. Raw \in Scope
    BY DEF Scope
  <2>2. QED
    BY <2>1 DEF Request
<1> HIDE DEF id
<1>5. CASE Switch(s)
  <2>1. /\ UNCHANGED db /\ r.at = "switch"
        /\ \/ Goto(s, [at |-> "me", who |-> r.who])
           \/ Goto(s, [r EXCEPT !.at = "switchRaw"])
    BY <1>5 DEF Switch
  <2>2. /\ r.who \in People /\ r.org \in OrgIds /\ r.role \in Roles
        /\ r = [at |-> r.at, who |-> r.who, org |-> r.org, role |-> r.role]
    BY <2>1, MeRequestShape
  <2>3. [r EXCEPT !.at = "switchRaw"]
        = [at |-> "switchRaw", who |-> r.who, org |-> r.org, role |-> r.role]
    BY <2>2
  <2>4. [at |-> "switchRaw", who |-> r.who, org |-> r.org, role |-> r.role]
           \in Request
    BY <2>2 DEF Request
  <2>5. QED
    BY <1>2, <2>1, <2>2, <2>3, <2>4, GotoType, ReadKeepsType
<1>6. CASE SwitchRaw(s)
  <2> DEFINE user == [users[id] EXCEPT !.roles[r.org] = Append(@, r.role)]
  <2>1. /\ UNCHANGED db /\ r.at = "switchRaw"
        /\ \/ Done(s)
           \/ /\ IdsOf(r.who) # {}
              /\ Goto(s, [at |-> "putUser", scope |-> Raw, id |-> id,
                          user |-> user, next |-> [at |-> "me", who |-> r.who]])
    BY <1>6 DEF SwitchRaw, id
  <2>2. r.who \in People /\ r.org \in OrgIds /\ r.role \in Roles
    BY <2>1, MeRequestShape
  <2>3. users[id] \in User => user \in User
    <3> SUFFICES ASSUME users[id] \in User PROVE user \in User
      OBVIOUS
    <3> DEFINE roles == users[id].roles
               more == [roles EXCEPT ![r.org] = Append(@, r.role)]
    <3>1. roles \in [OrgIds -> Seq(Roles)]
      BY DEF User, RoleMap
    <3>2. Append(roles[r.org], r.role) \in Seq(Roles)
      BY <2>2, <3>1
    <3>3. more \in RoleMap
      <4> HIDE DEF roles
      <4> QED BY <3>1, <3>2 DEF RoleMap
    <3>4. user = [users[id] EXCEPT !.roles = more]
      BY DEF User
    <3> HIDE DEF more, user
    <3>5. QED
      BY <3>3, <3>4 DEF User
  <2> HIDE DEF user
  <2>4. QED
    BY <1>1, <1>2, <1>4, <2>1, <2>2, <2>3, GotoType, DoneType, ReadKeepsType
<1>7. CASE Me(s)
  <2> DEFINE user == [users[id] EXCEPT !.super = TRUE]
             count == [at |-> "meCount", who |-> r.who,
                       role |-> orgs[DefaultOrg].role]
  <2>1. /\ UNCHANGED db /\ r.at = "me"
        /\ \/ Done(s) \/ Goto(s, count)
           \/ /\ IdsOf(r.who) # {}
              /\ Goto(s, [at |-> "putUser", scope |-> Raw, id |-> id,
                          user |-> user, next |-> Idle])
    BY <1>7 DEF Me, id
  <2>2. count \in Request
    BY <1>0, <2>1, MeRequestShape DEF Request, DefaultOrgKept
  <2>3. users[id] \in User => user \in User
    BY DEF User
  <2> HIDE DEF user, count
  <2>4. QED
    BY <1>1, <1>3, <1>4, <2>1, <2>2, <2>3, GotoType, DoneType, ReadKeepsType
<1>8. CASE MeCount(s) \/ MeConfig(s)
  <2>1. /\ UNCHANGED db /\ r.at \in {"meCount", "meConfig"}
        /\ \/ \E super \in BOOLEAN :
                 Goto(s, [at |-> "meMappings", who |-> r.who, role |-> r.role,
                          super |-> super])
           \/ Goto(s, [r EXCEPT !.at = "meConfig"])
    BY <1>8 DEF MeCount, MeConfig, TypeOK
  <2>2. /\ r.who \in People /\ r.role \in Roles
        /\ r = [at |-> r.at, who |-> r.who, role |-> r.role]
    BY <2>1, MeRequestShape
  <2>3. [r EXCEPT !.at = "meConfig"]
        = [at |-> "meConfig", who |-> r.who, role |-> r.role]
    BY <2>2
  <2>4. /\ [at |-> "meConfig", who |-> r.who, role |-> r.role] \in Request
        /\ \A super \in BOOLEAN :
              [at |-> "meMappings", who |-> r.who, role |-> r.role,
               super |-> super] \in Request
    BY <2>2 DEF Request
  <2>5. QED
    BY <2>1, <2>3, <2>4, GotoType, ReadKeepsType
<1>9. CASE MeMappings(s)
  <2> DEFINE todo == {mappings[m].org :
                        m \in {k \in DOMAIN mappings : r.who \in mappings[k].whom}}
             q == [at |-> "meRoles", who |-> r.who, role |-> r.role,
                   super |-> r.super, roles |-> NoRoles, todo |-> todo]
  <2>1. UNCHANGED db /\ r.at = "meMappings" /\ Goto(s, q)
    BY <1>9 DEF MeMappings
  <2>2. r.who \in People /\ r.role \in Roles /\ r.super \in BOOLEAN
    BY <2>1, MeRequestShape
  <2>3. todo \in SUBSET OrgIds
    BY DEF TypeOK, Mapping
  <2>4. q \in Request
    <3> HIDE DEF todo
    <3> QED BY <2>2, <2>3, RolesType DEF Request
  <2>5. QED
    BY <2>1, <2>4, GotoType, ReadKeepsType
<1>10. CASE MeRole(s)
  <2> DEFINE one(o) == IF o \in DOMAIN orgs THEN <<orgs[o].role>> ELSE <<>>
  <2>1. PICK o \in r.todo :
           Goto(s, [r EXCEPT !.todo = @ \ {o},
                             !.roles = [@ EXCEPT ![o] = one(o)]])
    BY <1>10 DEF MeRole
  <2> DEFINE q == [r EXCEPT !.todo = @ \ {o}, !.roles = [@ EXCEPT ![o] = one(o)]]
  <2>2. /\ r.who \in People /\ r.role \in Roles /\ r.super \in BOOLEAN
        /\ r.todo \in SUBSET OrgIds /\ r.roles \in RoleMap
        /\ r = [at |-> "meRoles", who |-> r.who, role |-> r.role,
                super |-> r.super, todo |-> r.todo, roles |-> r.roles]
    BY <1>10, MeRequestShape DEF MeRole
  <2>3. one(o) \in Seq(Roles)
    BY <1>0
  <2>4. [r.roles EXCEPT ![o] = one(o)] \in RoleMap
    <3> HIDE DEF one
    <3> QED BY <2>2, <2>3 DEF RoleMap
  <2>5. q \in Request
    <3> DEFINE All == [at : {"meRoles"}, who : People, role : Roles,
                       super : BOOLEAN, todo : SUBSET OrgIds, roles : RoleMap]
               todo == r.todo \ {o}
               more == [r.roles EXCEPT ![o] = one(o)]
    <3>1. r \in All /\ todo \in SUBSET OrgIds /\ q = [r EXCEPT !.todo = todo, !.roles = more]
      BY <2>2
    <3> HIDE DEF todo, more, q
    <3>2. [r EXCEPT !.todo = todo, !.roles = more] \in All
      BY <2>4, <3>1 DEF more
    <3>3. QED
      BY <3>1, <3>2 DEF Request
  <2>6. QED
    BY <1>10, <2>1, <2>5, GotoType, ReadKeepsType DEF MeRole
<1>11. CASE MeAdd(s)
  <2> DEFINE roles == IF r.super /\ r.roles[DefaultOrg] = <<>>
                      THEN [r.roles EXCEPT ![DefaultOrg] = <<r.role>>]
                      ELSE r.roles
             user == [who |-> r.who, super |-> r.super, roles |-> roles]
  <2>1. /\ UNCHANGED db /\ r.at = "meRoles"
        /\ \/ Done(s)
           \/ Goto(s, [at |-> "findUser", scope |-> Raw, user |-> user])
    BY <1>11 DEF MeAdd
  <2>2. /\ r.who \in People /\ r.role \in Roles /\ r.super \in BOOLEAN
        /\ r.roles \in RoleMap
    BY <2>1, MeRequestShape
  <2>3. roles \in RoleMap
    <3>1. <<r.role>> \in Seq(Roles) /\ r.roles \in [OrgIds -> Seq(Roles)]
      BY <2>2 DEF RoleMap
    <3>2. QED
      BY <3>1 DEF RoleMap
  <2>4. user \in User
    <3> HIDE DEF roles
    <3> QED BY <2>2, <2>3 DEF User
  <2>5. Raw \in Scope
    BY DEF Scope
  <2>6. [at |-> "findUser", scope |-> Raw, user |-> user] \in Request
    <3> HIDE DEF user
    <3> QED BY <2>4, <2>5 DEF Request
  <2>7. QED
    BY <2>1, <2>6, GotoType, DoneType, ReadKeepsType
<1>12. QED
  BY <1>5, <1>6, <1>7, <1>8, <1>9, <1>10, <1>11

-----------------------------------------------------------------------------
(* Where a step takes its request, and whom it leaves alone. *)

\* The requests that hold a user they will write, or an organization they will
\* delete, are made by few steps.
Holding == {"updateRoles", "merge", "joinPut", "putUser"}
Dropping == {"joinFind", "joinAdd", "joinPut", "undoOrg", "dropOrg", "addUser"}

\* A step of one request leaves the others where they are.
LEMMA GotoSlot ==
    ASSUME TypeOK, NEW s \in Slots, NEW r, Goto(s, r)
    PROVE  reqs'[s] = r /\ \A t \in Slots \ {s} : reqs'[t] = reqs[t]
  BY DEF TypeOK, Goto

\* So does the beginning of a request.
LEMMA BeginSlot ==
    ASSUME TypeOK, NEW s \in Slots, Accept(s) \/ AcceptMe(s) \/ UpdateMe(s)
    PROVE  /\ reqs'[s].at \in {"authUser", "me", "switch"} /\ UNCHANGED db
           /\ \A t \in Slots \ {s} : reqs'[t] = reqs[t]
  BY DEF TypeOK, Accept, AcceptMe, UpdateMe, Begin

\* Steps that make neither kind and leave users and organizations alone.
LEMMA PlainSteps ==
    ASSUME TypeOK, NEW s \in Slots,
           \/ AuthUser(s) \/ AuthRole(s) \/ AuthRefuse(s) \/ NewUser(s)
           \/ NewUserRoles(s) \/ MergeMissing(s) \/ RemoveUserOfOrg(s)
           \/ StripMissing(s) \/ NewOrganization(s) \/ UpdateOrganization(s)
           \/ CheckOrg(s) \/ UniqueOrg(s) \/ ListUsers(s) \/ AllStripped(s)
           \/ DropMapping(s) \/ DropMappingEnd(s) \/ NewMapping(s)
           \/ AddMapping(s) \/ UpdateMapping(s) \/ PutMapping(s)
           \/ RemoveMapping(s) \/ ReplaceAuthConfig(s) \/ Switch(s)
           \/ MeCount(s) \/ MeConfig(s) \/ MeMappings(s) \/ MeRole(s)
           \/ MeAdd(s) \/ Refuse(s)
    PROVE  /\ reqs'[s].at \notin Holding \cup Dropping
           /\ UNCHANGED <<orgs, orgSeq, users, userSeq>>
           /\ \A t \in Slots \ {s} : reqs'[t] = reqs[t]
<1> USE DEF Holding, Dropping, Goto, Done, Idle, db
<1>1. CASE AuthUser(s)
  <2>1. \/ \E who, org, id :
               Goto(s, [at |-> "authorized", who |-> who, org |-> org,
                        id |-> id, super |-> TRUE])
        \/ \E who, org, id :
               Goto(s, [at |-> "authRole", who |-> who, org |-> org,
                        id |-> id])
    BY <1>1 DEF AuthUser
  <2>2. QED
    BY <1>1, <2>1, GotoSlot DEF AuthUser
<1>14. CASE AuthRole(s)
  <2>1. PICK who, org, id :
           Goto(s, [at |-> "authorized", who |-> who, org |-> org,
                    id |-> id, super |-> FALSE])
    BY <1>14 DEF AuthRole
  <2>2. QED
    BY <1>14, <2>1, GotoSlot DEF AuthRole
<1>15. CASE AuthRefuse(s)
  BY <1>15 DEF TypeOK, AuthRefuse
<1>2. CASE NewUser(s)
  <2>1. PICK scope, user : Goto(s, [at |-> "newUserRoles", scope |-> scope,
                                    user |-> user])
    BY <1>2 DEF NewUser
  <2>2. QED
    BY <1>2, <2>1, GotoSlot DEF NewUser
<1>12. CASE NewUserRoles(s)
  <2>1. PICK user : Goto(s, [at |-> "findUser", scope |-> reqs[s].scope,
                             user |-> user])
    BY <1>12 DEF NewUserRoles
  <2>2. QED
    BY <1>12, <2>1, GotoSlot DEF NewUserRoles
<1>13. CASE MergeMissing(s) \/ RemoveUserOfOrg(s) \/ StripMissing(s)
  BY <1>13 DEF TypeOK, MergeMissing, RemoveUserOfOrg, StripMissing
<1>3. CASE NewOrganization(s) \/ UpdateOrganization(s)
  BY <1>3 DEF TypeOK, NewOrganization, UpdateOrganization
<1>4. CASE CheckOrg(s) \/ UniqueOrg(s)
  BY <1>4, OrgRequestShape DEF TypeOK, CheckOrg, UniqueOrg
<1>5. CASE \/ ListUsers(s) \/ AllStripped(s) \/ DropMappingEnd(s)
           \/ NewMapping(s) \/ AddMapping(s) \/ UpdateMapping(s)
           \/ PutMapping(s) \/ RemoveMapping(s) \/ ReplaceAuthConfig(s)
  BY <1>5 DEF TypeOK, ListUsers, AllStripped, DropMappingEnd, NewMapping,
     AddMapping, UpdateMapping, PutMapping, RemoveMapping, ReplaceAuthConfig,
     MappingsOnly
<1>6. CASE DropMapping(s)
  BY <1>6, OrgRequestShape DEF TypeOK, DropMapping, MappingsOnly
<1>7. CASE Switch(s)
  BY <1>7, MeRequestShape DEF TypeOK, Switch
<1>8. CASE MeCount(s) \/ MeConfig(s)
  BY <1>8, MeRequestShape DEF TypeOK, MeCount, MeConfig
<1>9. CASE MeMappings(s) \/ MeAdd(s) \/ Refuse(s)
  BY <1>9 DEF TypeOK, MeMappings, MeAdd, Refuse
<1>10. CASE MeRole(s)
  <2>1. PICK todo, roles :
           Goto(s, [reqs[s] EXCEPT !.todo = todo, !.roles = roles])
    BY <1>10 DEF MeRole
  <2>2. reqs[s].at = "meRoles"
    BY <1>10 DEF MeRole
  <2>3. [reqs[s] EXCEPT !.todo = todo, !.roles = roles].at = "meRoles"
    BY <2>2, MeRequestShape
  <2>4. QED
    BY <1>10, <2>1, <2>3, GotoSlot DEF MeRole
<1>11. QED
  BY <1>1, <1>14, <1>15, <1>2, <1>12, <1>13, <1>3, <1>4, <1>5, <1>6, <1>7,
     <1>8, <1>9, <1>10

-----------------------------------------------------------------------------
(* The default organization. *)

\* No request is about to delete the default organization.
Spares(r) ==
    /\ r.at \in {"joinFind", "joinAdd", "undoOrg", "dropOrg"} =>
          r.org # DefaultOrg
    /\ r.at = "joinPut" => DefaultOrg \notin r.scope
    /\ r.at = "addUser" => DefaultOrg \notin r.undo

SparesInv == DefaultOrgKept /\ \A s \in Slots : Spares(reqs[s])

\* No step of a request leads to a delete of the default organization.
LEMMA StepSpares ==
    ASSUME TypeOK, SparesInv, NEW s \in Slots, Step(s)
    PROVE  SparesInv'
<1> DEFINE r == reqs[s]
<1> USE DEF SparesInv
<1>0. Spares(r) /\ orgSeq \in Nat /\ orgSeq + 1 # DefaultOrg
  BY DEF TypeOK, DefaultOrg, OrgIds
<1>1. ASSUME NEW q, Spares(q), Goto(s, q),
             DOMAIN orgs \subseteq DOMAIN orgs' \cup (OrgIds \ {DefaultOrg})
      PROVE  SparesInv'
  <2>1. DefaultOrgKept'
    BY <1>1 DEF DefaultOrgKept
  <2>2. QED
    BY <1>1, <2>1, GotoSlot
<1>2. ASSUME NEW q, q.at \notin Dropping, Goto(s, q),
             DOMAIN orgs \subseteq DOMAIN orgs'
      PROVE  SparesInv'
  BY <1>1, <1>2 DEF Spares, Dropping
<1>3. Done(s) /\ DOMAIN orgs \subseteq DOMAIN orgs' => SparesInv'
  BY <1>2 DEF Done, Idle, Dropping
<1>4. ASSUME reqs'[s].at \notin Dropping, UNCHANGED orgs,
             \A t \in Slots \ {s} : reqs'[t] = reqs[t]
      PROVE  SparesInv'
  BY <1>4 DEF Spares, Dropping, DefaultOrgKept
<1>5. \A org \in OrgIds : org # DefaultOrg =>
         Spares([at |-> "undoOrg", org |-> org])
  BY DEF Spares
<1>6. CASE FindUser(s)
  <2>1. UNCHANGED orgs /\
        \/ Done(s)
        \/ Goto(s, [at |-> "addUser", user |-> r.user, undo |-> {}])
        \/ \E q : q.at = "putUser" /\ Goto(s, q)
    BY <1>6 DEF FindUser, db
  <2>2. Spares([at |-> "addUser", user |-> r.user, undo |-> {}])
    BY DEF Spares
  <2>3. QED
    BY <1>1, <1>2, <1>3, <2>1, <2>2 DEF Dropping
<1>7. CASE AddUser(s) \/ RemoveUser(s)
  BY <1>3, <1>7 DEF AddUser, RemoveUser, UsersOnly
<1>8. CASE PutUser(s)
  <2>1. r.next \in Rest
    BY <1>8, UserRequestShape DEF PutUser
  <2>2. r.next.at \notin Dropping
    BY <2>1 DEF Rest, Dropping, Idle
  <2>3. QED
    BY <1>2, <1>8, <2>2 DEF PutUser, UsersOnly
<1>9. CASE UpdateUser(s)
  <2>1. PICK scope, id, user, self : Goto(s,
           [at |-> "updateRoles", scope |-> scope, id |-> id, user |-> user,
            self |-> self, super |-> r.super])
    BY <1>9 DEF UpdateUser
  <2>2. QED
    BY <1>2, <1>9, <2>1 DEF UpdateUser, db, Dropping
<1>10. CASE UpdateRoles(s)
  <2>1. PICK user :
           \/ Goto(s, [at |-> "putUser", scope |-> r.scope, id |-> r.id,
                       user |-> user, next |-> Idle])
           \/ Goto(s, [at |-> "merge", scope |-> r.scope, id |-> r.id,
                       user |-> user])
    BY <1>10 DEF UpdateRoles
  <2>2. QED
    BY <1>2, <1>10, <2>1 DEF UpdateRoles, db, Dropping
<1>11. CASE Merge(s)
  BY <1>2, <1>11 DEF Merge, db, Dropping
<1>12. CASE Strip(s)
  BY <1>2, <1>12 DEF Strip, db, Dropping
<1>13. CASE AddOrg(s)
  <2>1. /\ orgSeq' = orgSeq + 1 /\ DOMAIN orgs \subseteq DOMAIN orgs'
        /\ Goto(s, [at |-> "joinFind", who |-> r.who, org |-> orgSeq'])
    BY <1>13 DEF AddOrg, PutKey
  <2>2. Spares([at |-> "joinFind", who |-> r.who, org |-> orgSeq'])
    BY <1>0, <2>1 DEF Spares
  <2>3. QED
    BY <1>1, <2>1, <2>2
<1>14. CASE JoinFind(s)
  <2>1. /\ UNCHANGED orgs /\ r.at = "joinFind"
        /\ \/ Goto(s, [r EXCEPT !.at = "joinAdd"])
           \/ Goto(s, [at |-> "undoOrg", org |-> r.org])
           \/ \E id, user : Goto(s, [at |-> "joinPut", scope |-> {r.org},
                                     id |-> id, user |-> user])
    BY <1>14 DEF JoinFind, db
  <2>2. /\ r.org \in OrgIds /\ r.org # DefaultOrg
        /\ r = [at |-> r.at, who |-> r.who, org |-> r.org]
    BY <1>0, <2>1, OrgRequestShape DEF Spares
  <2>3. Spares([r EXCEPT !.at = "joinAdd"])
    BY <2>2 DEF Spares
  <2>4. \A id, user : Spares([at |-> "joinPut", scope |-> {r.org}, id |-> id,
                              user |-> user])
    BY <2>2 DEF Spares
  <2>5. QED
    BY <1>1, <1>5, <2>1, <2>2, <2>3, <2>4
<1>15. CASE JoinAdd(s)
  <2>1. /\ UNCHANGED orgs /\ r.at = "joinAdd"
        /\ \/ Goto(s, [at |-> "undoOrg", org |-> r.org])
           \/ \E user : Goto(s, [at |-> "addUser", undo |-> {r.org},
                                 user |-> user])
    BY <1>15 DEF JoinAdd, db
  <2>2. r.org \in OrgIds /\ r.org # DefaultOrg
    BY <1>0, <2>1, OrgRequestShape DEF Spares
  <2>3. \A user : Spares([at |-> "addUser", undo |-> {r.org}, user |-> user])
    BY <2>2 DEF Spares
  <2>4. QED
    BY <1>1, <1>5, <2>1, <2>2, <2>3
<1>16. CASE JoinPut(s)
  <2>1. /\ UNCHANGED orgs /\ r.at = "joinPut"
        /\ \/ \E org \in r.scope : Goto(s, [at |-> "undoOrg", org |-> org])
           \/ Goto(s, [at |-> "putUser", scope |-> r.scope, id |-> r.id,
                       user |-> r.user, next |-> Idle])
    BY <1>16 DEF JoinPut, db
  <2>2. r.scope \subseteq OrgIds /\ DefaultOrg \notin r.scope
    BY <1>0, <2>1, UserRequestShape DEF Spares, Scope, Raw
  <2>3. QED
    BY <1>1, <1>2, <1>5, <2>1, <2>2 DEF Dropping
<1>17. CASE UndoOrg(s)
  <2>1. /\ UNCHANGED orgs /\ r.at = "undoOrg"
        /\ Goto(s, [r EXCEPT !.at = "dropOrg"]) \/ Done(s)
    BY <1>17 DEF UndoOrg, db
  <2>2. r.org # DefaultOrg /\ r = [at |-> r.at, org |-> r.org]
    BY <1>0, <2>1, OrgRequestShape DEF Spares
  <2>3. Spares([r EXCEPT !.at = "dropOrg"])
    BY <2>2 DEF Spares
  <2>4. QED
    BY <1>1, <1>3, <2>1, <2>3
<1>18. CASE PutOrg(s)
  BY <1>3, <1>18 DEF PutOrg, PutKey
<1>19. CASE RemoveOrganization(s)
  <2>1. PICK o \in DOMAIN orgs \ {DefaultOrg} :
           Goto(s, [at |-> "dropOrg", org |-> o])
    BY <1>19 DEF RemoveOrganization
  <2>2. Spares([at |-> "dropOrg", org |-> o])
    BY DEF Spares
  <2>3. QED
    BY <1>1, <1>19, <2>1, <2>2 DEF RemoveOrganization, db
<1>20. CASE DropOrg(s)
  <2>1. /\ r.org # DefaultOrg /\ r.org \in OrgIds
        /\ r = [at |-> r.at, org |-> r.org]
    BY <1>0, <1>20, OrgRequestShape DEF DropOrg, Spares
  <2>2. /\ Goto(s, [r EXCEPT !.at = "listUsers"])
        /\ DOMAIN orgs \subseteq DOMAIN orgs' \cup {r.org}
    BY <1>20 DEF DropOrg, DropKey
  <2>3. Spares([r EXCEPT !.at = "listUsers"])
    BY <2>1 DEF Spares
  <2>4. QED
    BY <1>1, <2>1, <2>2, <2>3
<1>21. CASE SwitchRaw(s)
  BY <1>2, <1>3, <1>21 DEF SwitchRaw, db, Dropping
<1>22. CASE Me(s)
  BY <1>2, <1>3, <1>22 DEF Me, db, Dropping
<1>23. CASE Full(s)
  <2>1. /\ UNCHANGED orgs
        /\ \/ Done(s)
           \/ /\ r.at = "addUser" /\ r.undo # {}
              /\ Goto(s, [at |-> "undoOrg", org |-> First(r.undo)])
    BY <1>23 DEF Full, db
  <2>2. CASE r.at = "addUser" /\ r.undo # {}
    <3>1. r.undo \in SUBSET Nat /\ DefaultOrg \notin r.undo
      <4>1. r.undo \in SUBSET OrgIds /\ DefaultOrg \notin r.undo
        BY <1>0, <2>2, UserRequestShape DEF Spares
      <4>2. OrgIds \subseteq Nat
        BY AccountsAssumption DEF OrgIds
      <4>3. QED
        BY <4>1, <4>2
    <3>2. First(r.undo) \in r.undo
      BY <2>2, <3>1, FirstIsMember
    <3>3. Spares([at |-> "undoOrg", org |-> First(r.undo)])
      BY <3>1, <3>2 DEF Spares
    <3>4. QED
      BY <1>1, <1>3, <2>1, <3>3
  <2>3. QED
    BY <1>3, <2>1, <2>2
<1>24. QED
  <2>1. \/ FindUser(s) \/ AddUser(s) \/ RemoveUser(s) \/ PutUser(s)
        \/ UpdateUser(s) \/ UpdateRoles(s) \/ Merge(s) \/ Strip(s) \/ AddOrg(s)
        \/ JoinFind(s) \/ JoinAdd(s) \/ JoinPut(s) \/ UndoOrg(s) \/ PutOrg(s)
        \/ RemoveOrganization(s) \/ DropOrg(s) \/ SwitchRaw(s) \/ Me(s)
        \/ Full(s)
        \/ /\ reqs'[s].at \notin Dropping /\ UNCHANGED orgs
           /\ \A t \in Slots \ {s} : reqs'[t] = reqs[t]
    BY PlainSteps DEF Step
  <2>2. QED
    BY <1>4, <1>6, <1>7, <1>8, <1>9, <1>10, <1>11, <1>12, <1>13, <1>14, <1>15,
       <1>16, <1>17, <1>18, <1>19, <1>20, <1>21, <1>22, <1>23, <2>1

-----------------------------------------------------------------------------
(* Whom an id stands for. *)

\* Who each id stands for, in the bucket and in what requests will write: a
\* request that holds a user for an id has it from the bucket.
Holds(r, owner) ==
    r.at \in Holding => r.id \in 1..userSeq /\ r.user.who = owner[r.id]

Owned(owner) ==
    /\ \A i \in DOMAIN users : users[i].who = owner[i]
    /\ \A s \in Slots : Holds(reqs[s], owner)

OwnersInv == \E owner : Owned(owner)

\* An owner that the step leaves to every id of the bucket.
LEMMA StepOwned ==
    ASSUME TypeOK, NEW owner, Owned(owner),
           NEW s \in Slots, Step(s)
    PROVE  \E new :
              Owned(new)' /\ \A i \in DOMAIN users : new[i] = owner[i]
<1> DEFINE r == reqs[s]
           Kept == \E new :
                      Owned(new)' /\ \A i \in DOMAIN users : new[i] = owner[i]
<1>0. /\ userSeq \in Nat /\ DOMAIN users \subseteq 1..userSeq
      /\ \A i \in DOMAIN users : i \in 1..userSeq /\ users[i].who = owner[i]
      /\ \A i \in DOMAIN users : users[i] \in User
      /\ \A t \in Slots : Holds(reqs[t], owner)
  BY DEF TypeOK, Owned
<1>1. ASSUME NEW q, Goto(s, q), Holds(q, owner), UNCHANGED <<users, userSeq>>
      PROVE  Kept
  <2>1. \A t \in Slots : Holds(reqs'[t], owner)
    BY <1>0, <1>1, GotoSlot
  <2>2. \A t \in Slots : Holds(reqs[t], owner)'
    BY <1>1, <2>1 DEF Holds
  <2>3. Owned(owner)'
    BY <1>0, <1>1, <2>2 DEF Owned
  <2>4. QED
    BY <2>3
<1>2. Done(s) /\ UNCHANGED <<users, userSeq>> => Kept
  <2>1. Holds(Idle, owner)
    BY DEF Holds, Idle, Holding
  <2>2. QED
    BY <1>1, <2>1 DEF Done
<1>3. ASSUME reqs'[s].at \notin Holding, UNCHANGED <<users, userSeq>>,
             \A t \in Slots \ {s} : reqs'[t] = reqs[t]
      PROVE  Kept
  <2>1. \A t \in Slots : Holds(reqs[t], owner)'
    BY <1>0, <1>3 DEF Holds
  <2>2. Owned(owner)'
    BY <1>0, <1>3, <2>1 DEF Owned
  <2>3. QED
    BY <2>2
<1>4. ASSUME NEW who, IdsOf(who) # {}
      PROVE  /\ First(IdsOf(who)) \in DOMAIN users
             /\ First(IdsOf(who)) \in 1..userSeq
             /\ users[First(IdsOf(who))].who = owner[First(IdsOf(who))]
             /\ users[First(IdsOf(who))] \in User
  BY <1>0, <1>4, FoundType
<1>5. CASE FindUser(s)
  <2> DEFINE id == First(IdsOf(r.user.who))
             user == [users[id] EXCEPT !.roles = Join(@, r.user.roles),
                                       !.super = @ \/ r.user.super]
             put == [at |-> "putUser", scope |-> r.scope, id |-> id,
                     user |-> user, next |-> Idle]
             add == [at |-> "addUser", user |-> r.user, undo |-> {}]
  <2>1. /\ UNCHANGED <<users, userSeq>>
        /\ \/ Done(s) \/ Goto(s, add)
           \/ IdsOf(r.user.who) # {} /\ Goto(s, put)
    BY <1>5 DEF FindUser, db
  <2>2. Holds(add, owner)
    BY DEF Holds, Holding
  <2>3. ASSUME IdsOf(r.user.who) # {} PROVE Holds(put, owner)
    <3>1. users[id] \in User /\ id \in 1..userSeq /\ users[id].who = owner[id]
      BY <1>4, <2>3
    <3> HIDE DEF id
    <3>2. user.who = users[id].who
      BY <3>1 DEF User
    <3> HIDE DEF user
    <3>3. QED
      BY <3>1, <3>2 DEF Holds
  <2> HIDE DEF add, put
  <2>4. QED
    BY <1>1, <1>2, <2>1, <2>2, <2>3
<1>6. CASE AddUser(s)
  <2> DEFINE id == userSeq + 1
  <2>1. /\ userSeq' = id /\ users' = PutKey(users, id, r.user) /\ Done(s)
        /\ r.at = "addUser" /\ userSeq < MaxUsers
    BY <1>6 DEF AddUser
  <2>3. id \in UserIds /\ id \notin 1..userSeq
    BY <1>0, <2>1, AccountsAssumption DEF UserIds
  <2>4. PICK new :
           new = [i \in UserIds |-> IF i = id THEN r.user.who ELSE owner[i]]
    OBVIOUS
  <2>5. new[id] = r.user.who /\ \A i \in 1..userSeq : new[i] = owner[i]
    BY <1>0, <2>1, <2>3, <2>4, AccountsAssumption DEF UserIds
  <2>6. reqs'[s] = Idle /\ \A t \in Slots \ {s} : reqs'[t] = reqs[t]
    BY <2>1, GotoSlot DEF Done
  <2>7. \A t \in Slots : Holds(reqs[t], new)'
    <3>1. Holds(reqs[s], new)'
      BY <2>6 DEF Holds, Idle, Holding
    <3>2. ASSUME NEW t \in Slots \ {s} PROVE Holds(reqs[t], new)'
      BY <1>0, <2>1, <2>5, <2>6 DEF Holds
    <3>3. QED
      BY <3>1, <3>2
  <2>8. \A i \in DOMAIN users' : users'[i].who = new[i]
    BY <1>0, <2>1, <2>5 DEF PutKey
  <2>9. Owned(new)'
    BY <2>7, <2>8 DEF Owned
  <2>10. QED
    BY <1>0, <2>5, <2>9
<1>7. CASE PutUser(s)
  <2>1. /\ r.id \in 1..userSeq /\ r.user.who = owner[r.id]
        /\ r.next.at \notin Holding /\ UNCHANGED userSeq
    <3>1. r.at = "putUser" /\ UNCHANGED userSeq
      BY <1>7 DEF PutUser
    <3>2. r.id \in 1..userSeq /\ r.user.who = owner[r.id]
      BY <1>0, <3>1 DEF Holds, Holding
    <3>3. r.next \in Rest
      BY <3>1, UserRequestShape
    <3>4. r.next.at \notin Holding
      BY <3>3 DEF Rest, Idle, Holding
    <3>5. QED
      BY <3>1, <3>2, <3>4
  <2>2. \A i \in DOMAIN users' : users'[i].who = owner[i]
    BY <1>0, <1>7, <2>1 DEF PutUser, PutKey
  <2>3. reqs'[s] = r.next /\ \A t \in Slots \ {s} : reqs'[t] = reqs[t]
    BY <1>7, GotoSlot DEF PutUser
  <2>4. \A t \in Slots : Holds(reqs[t], owner)'
    BY <1>0, <2>1, <2>3 DEF Holds
  <2>5. Owned(owner)'
    BY <2>2, <2>4 DEF Owned
  <2>6. QED
    BY <2>5
<1>8. CASE RemoveUser(s)
  <2>1. \A i \in DOMAIN users' : users'[i].who = owner[i]
    BY <1>0, <1>8 DEF RemoveUser, DropKey
  <2>2. reqs'[s] = Idle /\ UNCHANGED userSeq
        /\ \A t \in Slots \ {s} : reqs'[t] = reqs[t]
    BY <1>8, GotoSlot DEF RemoveUser, Done
  <2>3. \A t \in Slots : Holds(reqs[t], owner)'
    BY <1>0, <2>2 DEF Holds, Idle, Holding
  <2>4. Owned(owner)'
    BY <2>1, <2>3 DEF Owned
  <2>5. QED
    BY <2>4
<1>9. CASE UpdateUser(s)
  <2>1. PICK id, scope, self : /\ id \in DOMAIN users
                               /\ Goto(s, [at |-> "updateRoles", scope |-> scope,
                                           id |-> id, user |-> users[id],
                                           self |-> self, super |-> r.super])
    BY <1>9 DEF UpdateUser, Visible
  <2>2. Holds([at |-> "updateRoles", scope |-> scope, id |-> id,
               user |-> users[id], self |-> self, super |-> r.super], owner)
    BY <1>0, <2>1 DEF Holds
  <2>3. QED
    BY <1>1, <1>9, <2>1, <2>2 DEF UpdateUser, db
<1>10. CASE UpdateRoles(s)
  <2>1. PICK roles, super :
           LET user == [r.user EXCEPT !.roles = roles, !.super = super] IN
           \/ Goto(s, [at |-> "putUser", scope |-> r.scope, id |-> r.id,
                       user |-> user, next |-> Idle])
           \/ Goto(s, [at |-> "merge", scope |-> r.scope, id |-> r.id,
                       user |-> user])
    BY <1>10 DEF UpdateRoles
  <2> DEFINE user == [r.user EXCEPT !.roles = roles, !.super = super]
  <2>2. /\ r.user \in User /\ r.id \in 1..userSeq /\ r.user.who = owner[r.id]
    BY <1>0, <1>10, UserRequestShape DEF UpdateRoles, Holds, Holding
  <2>3. user.who = owner[r.id]
    BY <2>2 DEF User
  <2>4. /\ Holds([at |-> "putUser", scope |-> r.scope, id |-> r.id,
                  user |-> user, next |-> Idle], owner)
        /\ Holds([at |-> "merge", scope |-> r.scope, id |-> r.id,
                  user |-> user], owner)
    <3> HIDE DEF user
    <3> QED BY <2>2, <2>3 DEF Holds
  <2>5. QED
    BY <1>1, <1>10, <2>1, <2>4 DEF UpdateRoles, db
<1>11. CASE Merge(s)
  <2> DEFINE user == [r.user EXCEPT !.roles =
                        Join(Outside(users[r.id].roles, r.scope), @)]
             put == [at |-> "putUser", scope |-> r.scope, id |-> r.id,
                     user |-> user, next |-> Idle]
  <2>1. UNCHANGED <<users, userSeq>> /\ Goto(s, put) /\ r.at = "merge"
    BY <1>11 DEF Merge, db
  <2>2. r.user \in User /\ r.id \in 1..userSeq /\ r.user.who = owner[r.id]
    BY <1>0, <2>1, UserRequestShape DEF Holds, Holding
  <2>3. user.who = owner[r.id]
    BY <2>2 DEF User
  <2>4. Holds(put, owner)
    <3> HIDE DEF user
    <3> QED BY <2>2, <2>3 DEF Holds
  <2>5. QED
    BY <1>1, <2>1, <2>4
<1>12. CASE Strip(s)
  <2>1. PICK id, scope, roles, next :
           /\ id \in DOMAIN users
           /\ Goto(s, [at |-> "putUser", scope |-> scope, id |-> id,
                       user |-> [users[id] EXCEPT !.roles = roles],
                       next |-> next])
    BY <1>12 DEF Strip
  <2>2. [users[id] EXCEPT !.roles = roles].who = owner[id] /\ id \in 1..userSeq
    BY <1>0, <2>1 DEF User
  <2> DEFINE user == [users[id] EXCEPT !.roles = roles]
  <2> HIDE DEF user
  <2>3. Holds([at |-> "putUser", scope |-> scope, id |-> id, user |-> user,
               next |-> next], owner)
    BY <2>2 DEF Holds, user
  <2>4. QED
    BY <1>1, <1>12, <2>1, <2>3 DEF Strip, db, user
<1>13. CASE JoinFind(s)
  <2> DEFINE id == First(IdsOf(r.who))
             user == [users[id] EXCEPT !.super = TRUE,
                                       !.roles = Join(@, Role(r.org, "admin"))]
             put == [at |-> "joinPut", scope |-> {r.org}, id |-> id,
                     user |-> user]
  <2>1. /\ UNCHANGED <<users, userSeq>> /\ r.at = "joinFind"
        /\ \/ Goto(s, [r EXCEPT !.at = "joinAdd"])
           \/ Goto(s, [at |-> "undoOrg", org |-> r.org])
           \/ IdsOf(r.who) # {} /\ Goto(s, put)
    BY <1>13 DEF JoinFind, db
  <2>2. /\ Holds([r EXCEPT !.at = "joinAdd"], owner)
        /\ Holds([at |-> "undoOrg", org |-> r.org], owner)
    <3>1. r = [at |-> r.at, who |-> r.who, org |-> r.org]
      BY <2>1, OrgRequestShape
    <3>2. [r EXCEPT !.at = "joinAdd"].at = "joinAdd"
      BY <3>1
    <3>3. QED
      BY <3>2 DEF Holds, Holding
  <2>3. ASSUME IdsOf(r.who) # {} PROVE Holds(put, owner)
    <3>1. users[id] \in User /\ id \in 1..userSeq /\ users[id].who = owner[id]
      BY <1>4, <2>3
    <3> HIDE DEF id
    <3>2. user.who = users[id].who
      BY <3>1 DEF User
    <3> HIDE DEF user
    <3>3. QED
      BY <3>1, <3>2 DEF Holds
  <2> HIDE DEF put
  <2>4. QED
    BY <1>1, <2>1, <2>2, <2>3
<1>14. CASE JoinPut(s)
  <2>1. /\ UNCHANGED <<users, userSeq>> /\ r.at = "joinPut"
        /\ \/ \E org : Goto(s, [at |-> "undoOrg", org |-> org])
           \/ Goto(s, [at |-> "putUser", scope |-> r.scope, id |-> r.id,
                       user |-> r.user, next |-> Idle])
    BY <1>14 DEF JoinPut, db
  <2>2. Holds([at |-> "putUser", scope |-> r.scope, id |-> r.id,
               user |-> r.user, next |-> Idle], owner)
    BY <1>0, <2>1 DEF Holds, Holding
  <2>3. \A org : Holds([at |-> "undoOrg", org |-> org], owner)
    BY DEF Holds, Holding
  <2>4. QED
    BY <1>1, <2>1, <2>2, <2>3
<1>15. CASE SwitchRaw(s)
  <2> DEFINE id == First(IdsOf(r.who))
             user == [users[id] EXCEPT !.roles[r.org] = Append(@, r.role)]
             put == [at |-> "putUser", scope |-> Raw, id |-> id, user |-> user,
                     next |-> [at |-> "me", who |-> r.who]]
  <2>1. /\ UNCHANGED <<users, userSeq>>
        /\ \/ Done(s)
           \/ IdsOf(r.who) # {} /\ Goto(s, put)
    BY <1>15 DEF SwitchRaw, db
  <2>2. ASSUME IdsOf(r.who) # {} PROVE Holds(put, owner)
    <3>1. users[id] \in User /\ id \in 1..userSeq /\ users[id].who = owner[id]
      BY <1>4, <2>2
    <3> HIDE DEF id
    <3>2. user.who = users[id].who
      BY <3>1 DEF User
    <3> HIDE DEF user
    <3>3. QED
      BY <3>1, <3>2 DEF Holds
  <2> HIDE DEF put
  <2>3. QED
    BY <1>1, <1>2, <2>1, <2>2
<1>16. CASE Me(s)
  <2> DEFINE id == First(IdsOf(r.who))
             user == [users[id] EXCEPT !.super = TRUE]
             put == [at |-> "putUser", scope |-> Raw, id |-> id, user |-> user,
                     next |-> Idle]
             count == [at |-> "meCount", who |-> r.who,
                       role |-> orgs[DefaultOrg].role]
  <2>1. /\ UNCHANGED <<users, userSeq>>
        /\ \/ Done(s) \/ Goto(s, count)
           \/ IdsOf(r.who) # {} /\ Goto(s, put)
    BY <1>16 DEF Me, db
  <2>2. Holds(count, owner)
    BY DEF Holds, Holding
  <2>3. ASSUME IdsOf(r.who) # {} PROVE Holds(put, owner)
    <3>1. users[id] \in User /\ id \in 1..userSeq /\ users[id].who = owner[id]
      BY <1>4, <2>3
    <3> HIDE DEF id
    <3>2. user.who = users[id].who
      BY <3>1 DEF User
    <3> HIDE DEF user
    <3>3. QED
      BY <3>1, <3>2 DEF Holds
  <2> HIDE DEF put, count
  <2>4. QED
    BY <1>1, <1>2, <2>1, <2>2, <2>3
<1>17. CASE AddOrg(s) \/ JoinAdd(s) \/ UndoOrg(s) \/ PutOrg(s)
            \/ RemoveOrganization(s) \/ DropOrg(s) \/ Full(s)
  <2>1. UNCHANGED <<users, userSeq>>
    BY <1>17 DEF AddOrg, JoinAdd, UndoOrg, PutOrg, RemoveOrganization, DropOrg,
       Full, OrgsOnly, db
  <2>2. \E q : Goto(s, q) /\ q.at \notin Holding
    <3>1. CASE AddOrg(s)
      BY <3>1 DEF AddOrg, Holding
    <3>2. CASE JoinAdd(s)
      BY <3>2 DEF JoinAdd, Holding
    <3>3. CASE UndoOrg(s)
      <4>1. [r EXCEPT !.at = "dropOrg"].at = "dropOrg"
        BY <3>3, OrgRequestShape DEF UndoOrg
      <4>2. Goto(s, [r EXCEPT !.at = "dropOrg"]) \/ Goto(s, Idle)
        BY <3>3 DEF UndoOrg, Done
      <4> DEFINE q == [r EXCEPT !.at = "dropOrg"]
      <4>3. q.at \notin Holding /\ Idle.at \notin Holding
        BY <4>1 DEF Idle, Holding
      <4> HIDE DEF q
      <4>4. QED
        BY <4>2, <4>3 DEF q
    <3>4. CASE PutOrg(s)
      BY <3>4 DEF PutOrg, Done, Idle, Holding
    <3>5. CASE RemoveOrganization(s)
      BY <3>5 DEF RemoveOrganization, Holding
    <3>6. CASE DropOrg(s)
      <4>1. [r EXCEPT !.at = "listUsers"].at = "listUsers"
        BY <3>6, OrgRequestShape DEF DropOrg
      <4>2. QED
        BY <3>6, <4>1 DEF DropOrg, Holding
    <3>7. CASE Full(s)
      <4>1. Done(s) \/ Goto(s, [at |-> "undoOrg", org |-> First(r.undo)])
        BY <3>7 DEF Full
      <4>2. QED
        BY <4>1 DEF Done, Idle, Holding
    <3>8. QED
      BY <1>17, <3>1, <3>2, <3>3, <3>4, <3>5, <3>6, <3>7
  <2>3. QED
    BY <1>1, <2>1, <2>2 DEF Holds
<1>18. QED
  <2>1. \/ FindUser(s) \/ AddUser(s) \/ RemoveUser(s) \/ PutUser(s)
        \/ UpdateUser(s) \/ UpdateRoles(s) \/ Merge(s) \/ Strip(s) \/ AddOrg(s)
        \/ JoinFind(s) \/ JoinAdd(s) \/ JoinPut(s) \/ UndoOrg(s) \/ PutOrg(s)
        \/ RemoveOrganization(s) \/ DropOrg(s) \/ SwitchRaw(s) \/ Me(s)
        \/ Full(s)
        \/ /\ reqs'[s].at \notin Holding /\ UNCHANGED <<users, userSeq>>
           /\ \A t \in Slots \ {s} : reqs'[t] = reqs[t]
    BY PlainSteps DEF Step
  <2>2. QED
    BY <1>3, <1>5, <1>6, <1>7, <1>8, <1>9, <1>10, <1>11, <1>12, <1>13, <1>14,
       <1>15, <1>16, <1>17, <2>1

-----------------------------------------------------------------------------
(* The inductive invariant. *)

Inv == TypeOK /\ SparesInv /\ OwnersInv

\* The invariant holds at the start.
LEMMA InitInv == Init => Inv
<1> SUFFICES ASSUME Init PROVE Inv
  OBVIOUS
<1>1. reqs \in [Slots -> Request] /\ \A s \in Slots : reqs[s] = Idle
  BY DEF Init, Request, Rest
<1>2. orgSeq \in OrgIds /\ DOMAIN orgs = 0..orgSeq /\ orgs \in [DOMAIN orgs -> Org]
  BY AccountsAssumption DEF Init, OrgIds
<1>3. /\ userSeq \in 0..MaxUsers /\ DOMAIN users = 1..userSeq
      /\ users \in [DOMAIN users -> User]
  BY AccountsAssumption DEF Init
<1>4. /\ mapSeq \in MappingIds /\ DOMAIN mappings = 0..mapSeq
      /\ DOMAIN mappings \subseteq MappingIds
      /\ mappings \in [DOMAIN mappings -> Mapping]
  <2>1. mapSeq \in Nat /\ mapSeq =< MaxMappings /\ DOMAIN mappings = 0..mapSeq
        /\ \A m \in 1..mapSeq : StartMappings[m] \in Mapping
    BY AccountsAssumption DEF Init
  <2>2. [org |-> DefaultOrg, whom |-> People] \in Mapping
    BY AccountsAssumption DEF Mapping, DefaultOrg, OrgIds
  <2>3. \A m \in DOMAIN mappings : mappings[m] \in Mapping
    BY <2>1, <2>2 DEF Init
  <2>4. mappings = [m \in DOMAIN mappings |-> mappings[m]]
    BY DEF Init
  <2>5. mapSeq \in MappingIds /\ DOMAIN mappings \subseteq MappingIds
    BY <2>1, AccountsAssumption DEF MappingIds
  <2>6. QED
    BY <2>1, <2>3, <2>4, <2>5
<1>5. TypeOK
  <2>1. superNew \in BOOLEAN /\ left \in Nat
    BY AccountsAssumption DEF Init
  <2>2. DOMAIN orgs \subseteq OrgIds
    BY <1>2, AccountsAssumption DEF OrgIds
  <2>3. QED
    BY <1>1, <1>2, <1>3, <1>4, <2>1, <2>2 DEF TypeOK
<1>6. SparesInv
  BY <1>1, <1>2, AccountsAssumption
     DEF SparesInv, Spares, DefaultOrgKept, DefaultOrg, OrgIds, Idle
<1>7. OwnersInv
  <2>1. PICK owner : owner = [i \in DOMAIN users |-> users[i].who]
    OBVIOUS
  <2>2. Owned(owner)
    BY <1>1, <1>3, <2>1 DEF Owned, Holds, Holding, Idle
  <2>3. QED
    BY <2>2 DEF OwnersInv
<1>8. QED
  BY <1>5, <1>6, <1>7 DEF Inv

\* All the steps of a request together.
LEMMA StepKeepsType ==
    ASSUME Inv, NEW s \in Slots, Step(s)
    PROVE  TypeOK'
<1>1. CASE PutUser(s)
  <2>1. PICK owner : \A t \in Slots : Holds(reqs[t], owner)
    BY DEF Inv, OwnersInv, Owned
  <2>2. reqs[s].id \in 1..userSeq
    BY <1>1, <2>1 DEF PutUser, Holds, Holding
  <2>3. QED
    BY <1>1, <2>2, UserWritesKeepType DEF Inv
<1>2. CASE Refuse(s) \/ Full(s)
  <2>1. TypeOK /\ UNCHANGED db
    BY <1>2 DEF Refuse, Full, Inv
  <2>2. Done(s) \/ \E q \in Request : Goto(s, q)
    <3>1. CASE Done(s)
      BY <3>1
    <3>2. CASE ~Done(s)
      <4> DEFINE r == reqs[s]
      <4>1. /\ r.at = "addUser" /\ r.undo # {}
            /\ Goto(s, [at |-> "undoOrg", org |-> First(r.undo)])
        BY <1>2, <3>2 DEF Refuse, Full
      <4>2. r.undo \in SUBSET OrgIds
        BY <2>1, <4>1, UserRequestShape
      <4>6. OrgIds \subseteq Nat
        BY AccountsAssumption DEF OrgIds
      <4>3. First(r.undo) \in OrgIds
        BY <4>1, <4>2, <4>6, FirstIsMember
      <4>4. [at |-> "undoOrg", org |-> First(r.undo)] \in Request
        BY <4>3 DEF Request
      <4>5. QED
        BY <4>1, <4>4
    <3>3. QED
      BY <3>1, <3>2
  <2>3. QED
    BY <2>1, <2>2, GotoType, DoneType, ReadKeepsType
<1>3. QED
  BY <1>1, <1>2, AuthKeepsType, UserReadsKeepType, UserWritesKeepType,
     OrgStepsKeepType, CascadeStepsKeepType, MappingStepsKeepType,
     MeStepsKeepType DEF Step, Inv, SparesInv

\* Every step keeps the invariant: a beginning, a step, a crash, a stutter.
LEMMA NextKeepsInv ==
    ASSUME Inv, [Next]_vars
    PROVE  Inv'
<1> USE DEF Inv
<1>1. CASE UNCHANGED vars
  <2>1. UNCHANGED <<db, reqs, left>>
    BY <1>1 DEF vars
  <2>2. TypeOK' /\ SparesInv'
    BY <2>1 DEF TypeOK, SparesInv, DefaultOrgKept, db
  <2>3. OwnersInv'
    BY <2>1 DEF OwnersInv, Owned, Holds, db
  <2>4. QED
    BY <2>2, <2>3
<1>2. ASSUME NEW s \in Slots, Step(s) PROVE Inv'
  BY <1>2, StepKeepsType, StepSpares, StepOwned DEF OwnersInv
<1>3. ASSUME NEW s \in Slots, Accept(s) \/ AcceptMe(s) \/ UpdateMe(s) PROVE Inv'
  <2>1. /\ reqs'[s].at \in {"authUser", "me", "switch"} /\ UNCHANGED db
        /\ \A t \in Slots \ {s} : reqs'[t] = reqs[t]
    BY <1>3, BeginSlot
  <2>2. TypeOK'
    BY <1>3, AuthKeepsType
  <2>3. SparesInv'
    BY <2>1 DEF SparesInv, Spares, DefaultOrgKept, db
  <2>4. OwnersInv'
    BY <2>1 DEF OwnersInv, Owned, Holds, Holding, db
  <2>5. QED
    BY <2>2, <2>3, <2>4
<1>4. CASE Crash
  <2>1. UNCHANGED db /\ left' = left /\ reqs' = [s \in Slots |-> Idle]
    BY <1>4 DEF Crash
  <2>2. reqs' \in [Slots -> Request]
    BY <2>1 DEF Request, Rest
  <2>3. TypeOK'
    BY <2>1, <2>2, ReadKeepsType DEF TypeOK
  <2>4. SparesInv'
    BY <2>1 DEF SparesInv, Spares, DefaultOrgKept, Idle, db
  <2>5. OwnersInv'
    BY <2>1 DEF OwnersInv, Owned, Holds, Holding, Idle, db
  <2>6. QED
    BY <2>3, <2>4, <2>5
<1>5. QED
  BY <1>1, <1>2, <1>3, <1>4 DEF Next

\* The inductive invariant of the specification.
LEMMA InvHolds == Spec => []Inv
  BY InitInv, NextKeepsInv, PTL DEF Spec

\* The buckets, their sequences and every request stay well formed: each step
\* of a handler finds in its request what an earlier one has left there.
THEOREM TypeCorrect == Spec => []TypeOK
<1>1. Inv => TypeOK
  BY DEF Inv
<1>2. QED
  BY <1>1, InvHolds, PTL

\* No interleaving of requests deletes the default organization
\* (bolt/organizations.go, Delete; server/organizations.go, NewOrganization).
THEOREM DefaultOrgStays == Spec => []DefaultOrgKept
<1>1. Inv => DefaultOrgKept
  BY DEF Inv, SparesInv
<1>2. QED
  BY <1>1, InvHolds, PTL

\* No interleaving of requests gives one person's id to another
\* (bolt/users.go, Add and Update).
THEOREM IdentityIsFixed == Spec => IdentityFixed
<1> DEFINE Fixed == \A i \in DOMAIN users \cap DOMAIN users' :
                       users'[i].who = users[i].who
<1>1. ASSUME Inv, [Next]_vars PROVE [Fixed]_vars
  <2>1. CASE UNCHANGED vars
    BY <2>1
  <2>2. ASSUME NEW s \in Slots, Step(s) PROVE Fixed
    <3>1. PICK owner : Owned(owner)
      BY <1>1 DEF Inv, OwnersInv
    <3>2. PICK new :
             Owned(new)' /\ \A i \in DOMAIN users : new[i] = owner[i]
      BY <1>1, <2>2, <3>1, StepOwned DEF Inv
    <3>3. QED
      BY <3>1, <3>2 DEF Owned
  <2>3. CASE Crash \/ \E s \in Slots : Accept(s) \/ AcceptMe(s) \/ UpdateMe(s)
    BY <1>1, <2>3, BeginSlot DEF Crash, db, Inv
  <2>4. QED
    BY <1>1, <2>1, <2>2, <2>3 DEF Next
<1>2. QED
  BY <1>1, InvHolds, PTL DEF Spec, IdentityFixed

-----------------------------------------------------------------------------
(* Super admins come from super admins. *)

\* No request carries the flag, nor is it one that only super admins make.
Plain(r) ==
    /\ r.at \in {"authorized", "updateRoles", "meMappings", "meRoles"} =>
          r.super = FALSE
    /\ r.at \in {"newUserRoles", "findUser", "addUser", "updateRoles", "merge",
                 "putUser"} => r.user.super = FALSE
    /\ r.at \notin {"addOrg", "joinFind", "joinAdd", "joinPut"}

Marked == {"authorized", "updateRoles", "meMappings", "meRoles", "newUserRoles",
           "findUser", "addUser", "merge", "putUser", "addOrg", "joinFind",
           "joinAdd", "joinPut"}

PlainState ==
    /\ superNew = FALSE /\ DOMAIN users # {}
    /\ \A i \in DOMAIN users : users[i].super = FALSE
    /\ \A s \in Slots : Plain(reqs[s])

PlainInv == Locked => PlainState

\* In a locked database no step of a request makes a super admin.
LEMMA StepPlain ==
    ASSUME TypeOK, Locked, PlainState, NEW s \in Slots, Step(s)
    PROVE  PlainState'
<1> DEFINE r == reqs[s]
<1> USE DEF PlainState
<1>0. /\ Plain(r) /\ SuperGroup = {}
      /\ \A i \in DOMAIN users : users[i] \in User /\ users[i].super = FALSE
  BY DEF Locked, TypeOK
<1>1. ASSUME NEW q, Plain(q), Goto(s, q), UNCHANGED <<users, superNew>>
      PROVE  PlainState'
  BY <1>1, GotoSlot
<1>2. ASSUME NEW q, q.at \notin Marked, Goto(s, q), UNCHANGED <<users, superNew>>
      PROVE  PlainState'
  <2>1. Plain(q)
    BY <1>2 DEF Plain, Marked
  <2>2. QED
    BY <1>1, <1>2, <2>1
<1>3. Done(s) /\ UNCHANGED <<users, superNew>> => PlainState'
  BY <1>2 DEF Done, Idle, Marked
<1>4. ASSUME NEW who, IdsOf(who) # {}
      PROVE  /\ First(IdsOf(who)) \in DOMAIN users
             /\ users[First(IdsOf(who))] \in User
             /\ users[First(IdsOf(who))].super = FALSE
  BY <1>0, <1>4, FoundType
<1>5. CASE AuthUser(s)
  <2>1. UNCHANGED <<users, superNew>>
        /\ Goto(s, [at |-> "authRole", who |-> r.who, org |-> r.org,
                    id |-> First(IdsOf(r.who))])
    BY <1>4, <1>5 DEF AuthUser, db
  <2>2. QED
    BY <1>2, <2>1 DEF Marked
<1>6. CASE AuthRole(s)
  <2>1. UNCHANGED <<users, superNew>>
        /\ Goto(s, [at |-> "authorized", who |-> r.who, org |-> r.org,
                    id |-> r.id, super |-> FALSE])
    BY <1>6 DEF AuthRole, db
  <2>2. QED
    BY <1>1, <2>1 DEF Plain
<1>7. CASE NewUser(s)
  <2>1. PICK scope, who, super :
           /\ super \in BOOLEAN /\ SetSuper(r.super, FALSE, super)
           /\ Goto(s, [at |-> "newUserRoles", scope |-> scope,
                       user |-> [who |-> who, super |-> super,
                                 roles |-> NoRoles]])
    BY <1>7 DEF NewUser
  <2>2. super = FALSE
    BY <1>0, <1>7, <2>1 DEF NewUser, Plain, SetSuper
  <2>3. Plain([at |-> "newUserRoles", scope |-> scope,
               user |-> [who |-> who, super |-> super, roles |-> NoRoles]])
    BY <2>2 DEF Plain
  <2>4. QED
    BY <1>1, <1>7, <2>1, <2>3 DEF NewUser, db
<1>8. CASE NewUserRoles(s)
  <2>1. PICK roles :
           Goto(s, [at |-> "findUser", scope |-> r.scope,
                    user |-> [r.user EXCEPT !.roles = roles]])
    BY <1>8 DEF NewUserRoles
  <2> DEFINE user == [r.user EXCEPT !.roles = roles]
  <2>2. r.user \in User /\ r.user.super = FALSE
    BY <1>0, <1>8, UserRequestShape DEF NewUserRoles, Plain
  <2>3. user.super = FALSE
    BY <2>2 DEF User
  <2>4. Plain([at |-> "findUser", scope |-> r.scope, user |-> user])
    <3> HIDE DEF user
    <3> QED BY <2>3 DEF Plain
  <2>5. QED
    BY <1>1, <1>8, <2>1, <2>4 DEF NewUserRoles, db
<1>9. CASE FindUser(s)
  <2> DEFINE id == First(IdsOf(r.user.who))
             user == [users[id] EXCEPT !.roles = Join(@, r.user.roles),
                                       !.super = @ \/ r.user.super]
             put == [at |-> "putUser", scope |-> r.scope, id |-> id,
                     user |-> user, next |-> Idle]
             add == [at |-> "addUser", user |-> r.user, undo |-> {}]
  <2>1. /\ UNCHANGED <<users, superNew>> /\ r.at = "findUser"
        /\ \/ Done(s) \/ Goto(s, add)
           \/ IdsOf(r.user.who) # {} /\ Goto(s, put)
    BY <1>9 DEF FindUser, db
  <2>2. r.user.super = FALSE
    BY <1>0, <2>1 DEF Plain
  <2>3. Plain(add)
    BY <2>2 DEF Plain
  <2>4. ASSUME IdsOf(r.user.who) # {} PROVE Plain(put)
    <3>1. users[id] \in User /\ users[id].super = FALSE
      BY <1>4, <2>4
    <3> HIDE DEF id
    <3>2. user.super = FALSE
      BY <2>2, <3>1 DEF User
    <3> HIDE DEF user
    <3>3. QED
      BY <3>2 DEF Plain
  <2> HIDE DEF add, put
  <2>5. QED
    BY <1>1, <1>3, <2>1, <2>3, <2>4
<1>10. CASE AddUser(s)
  <2>1. r.user.super = FALSE
    BY <1>0, <1>10 DEF AddUser, Plain
  <2>2. /\ DOMAIN users' # {} /\ superNew' = FALSE
        /\ \A i \in DOMAIN users' : users'[i].super = FALSE
    BY <1>0, <1>10, <2>1 DEF AddUser, PutKey, UsersOnly
  <2>3. reqs'[s] = Idle /\ \A t \in Slots \ {s} : reqs'[t] = reqs[t]
    BY <1>10, GotoSlot DEF AddUser, Done
  <2>4. \A t \in Slots : Plain(reqs'[t])
    BY <2>3 DEF Plain, Idle
  <2>5. QED
    BY <2>2, <2>4
<1>11. CASE PutUser(s)
  <2>1. r.user.super = FALSE /\ r.next \in Rest
    BY <1>0, <1>11, UserRequestShape DEF PutUser, Plain
  <2>2. /\ DOMAIN users' # {} /\ superNew' = FALSE
        /\ \A i \in DOMAIN users' : users'[i].super = FALSE
    BY <1>0, <1>11, <2>1 DEF PutUser, PutKey, UsersOnly
  <2>3. reqs'[s] = r.next /\ \A t \in Slots \ {s} : reqs'[t] = reqs[t]
    BY <1>11, GotoSlot DEF PutUser
  <2>4. Plain(r.next)
    BY <2>1 DEF Rest, Plain, Idle
  <2>5. QED
    BY <2>2, <2>3, <2>4
<1>12. CASE \/ RemoveUser(s) \/ NewOrganization(s) \/ UpdateOrganization(s)
            \/ RemoveOrganization(s) \/ NewMapping(s) \/ UpdateMapping(s)
            \/ RemoveMapping(s) \/ ReplaceAuthConfig(s) \/ AddOrg(s)
            \/ JoinFind(s) \/ JoinAdd(s) \/ JoinPut(s)
  BY <1>0, <1>12 DEF Plain, RemoveUser, NewOrganization, UpdateOrganization,
     RemoveOrganization, NewMapping, UpdateMapping, RemoveMapping,
     ReplaceAuthConfig, AddOrg, JoinFind, JoinAdd, JoinPut
<1>13. CASE UpdateUser(s)
  <2>1. PICK id, scope, self : /\ id \in DOMAIN users
                               /\ Goto(s, [at |-> "updateRoles", scope |-> scope,
                                           id |-> id, user |-> users[id],
                                           self |-> self, super |-> r.super])
    BY <1>13 DEF UpdateUser, Visible
  <2>2. r.super = FALSE
    BY <1>0, <1>13 DEF UpdateUser, Plain
  <2>3. Plain([at |-> "updateRoles", scope |-> scope, id |-> id,
               user |-> users[id], self |-> self, super |-> r.super])
    BY <1>0, <2>1, <2>2 DEF Plain
  <2>4. QED
    BY <1>1, <1>13, <2>1, <2>3 DEF UpdateUser, db
<1>14. CASE UpdateRoles(s)
  <2>1. PICK roles, super :
           LET user == [r.user EXCEPT !.roles = roles, !.super = super] IN
           /\ super \in BOOLEAN /\ SetSuper(r.super, r.user.super, super)
           /\ \/ Goto(s, [at |-> "putUser", scope |-> r.scope, id |-> r.id,
                          user |-> user, next |-> Idle])
              \/ Goto(s, [at |-> "merge", scope |-> r.scope, id |-> r.id,
                          user |-> user])
    BY <1>14 DEF UpdateRoles
  <2> DEFINE user == [r.user EXCEPT !.roles = roles, !.super = super]
  <2>2. r.user \in User /\ r.user.super = FALSE /\ r.super = FALSE
    BY <1>0, <1>14, UserRequestShape DEF UpdateRoles, Plain
  <2>3. super = FALSE
    BY <2>1, <2>2 DEF SetSuper
  <2>4. user.super = FALSE
    BY <2>2, <2>3 DEF User
  <2>5. /\ Plain([at |-> "putUser", scope |-> r.scope, id |-> r.id,
                  user |-> user, next |-> Idle])
        /\ Plain([at |-> "merge", scope |-> r.scope, id |-> r.id,
                  user |-> user])
    <3> HIDE DEF user
    <3> QED BY <2>4 DEF Plain
  <2>6. QED
    BY <1>1, <1>14, <2>1, <2>5 DEF UpdateRoles, db
<1>15. CASE Merge(s)
  <2> DEFINE user == [r.user EXCEPT !.roles =
                        Join(Outside(users[r.id].roles, r.scope), @)]
             put == [at |-> "putUser", scope |-> r.scope, id |-> r.id,
                     user |-> user, next |-> Idle]
  <2>1. UNCHANGED <<users, superNew>> /\ Goto(s, put) /\ r.at = "merge"
    BY <1>15 DEF Merge, db
  <2>2. r.user \in User /\ r.user.super = FALSE
    BY <1>0, <2>1, UserRequestShape DEF Plain
  <2>3. user.super = FALSE
    BY <2>2 DEF User
  <2>4. Plain(put)
    <3> HIDE DEF user
    <3> QED BY <2>3 DEF Plain
  <2>5. QED
    BY <1>1, <2>1, <2>4
<1>16. CASE Strip(s)
  <2>1. PICK id, scope, roles, next :
           /\ id \in DOMAIN users
           /\ Goto(s, [at |-> "putUser", scope |-> scope, id |-> id,
                       user |-> [users[id] EXCEPT !.roles = roles],
                       next |-> next])
    BY <1>16 DEF Strip
  <2> DEFINE user == [users[id] EXCEPT !.roles = roles]
  <2>2. user.super = FALSE
    BY <1>0, <2>1 DEF User
  <2>3. Plain([at |-> "putUser", scope |-> scope, id |-> id, user |-> user,
               next |-> next])
    <3> HIDE DEF user
    <3> QED BY <2>2 DEF Plain
  <2>4. QED
    BY <1>1, <1>16, <2>1, <2>3 DEF Strip, db
<1>17. CASE \/ AuthRefuse(s) \/ MergeMissing(s) \/ StripMissing(s)
            \/ DropMappingEnd(s) \/ Refuse(s) \/ PutOrg(s) \/ AddMapping(s)
            \/ PutMapping(s)
  BY <1>3, <1>17 DEF AuthRefuse, MergeMissing, StripMissing, DropMappingEnd,
     Refuse, PutOrg, AddMapping, PutMapping, OrgsOnly, MappingsOnly, db
<1>18. CASE RemoveUserOfOrg(s) \/ ListUsers(s) \/ AllStripped(s)
  <2>1. UNCHANGED <<users, superNew>>
    BY <1>18 DEF RemoveUserOfOrg, ListUsers, AllStripped, db
  <2>2. PICK todo, cascade :
           \/ Goto(s, [at |-> "strip", org |-> r.org, todo |-> todo,
                       cascade |-> cascade])
           \/ Goto(s, [at |-> "dropMappings", todo |-> todo])
    BY <1>18 DEF RemoveUserOfOrg, ListUsers, AllStripped
  <2>3. QED
    BY <1>2, <2>1, <2>2 DEF Marked
<1>19. CASE UndoOrg(s) \/ CheckOrg(s) \/ UniqueOrg(s) \/ DropOrg(s) \/ Switch(s)
  <2>1. /\ UNCHANGED <<users, superNew>>
        /\ r.at \in {"undoOrg", "checkOrg", "uniqueOrg", "dropOrg", "switch"}
        /\ \/ Done(s)
           \/ Goto(s, [at |-> "me", who |-> r.who])
           \/ \E at \in {"dropOrg", "putOrg", "uniqueOrg", "listUsers",
                         "switchRaw"} : Goto(s, [r EXCEPT !.at = at])
    BY <1>19 DEF UndoOrg, CheckOrg, UniqueOrg, DropOrg, Switch, OrgsOnly, db
  <2>2. \A at : [r EXCEPT !.at = at].at = at
    BY <2>1, OrgRequestShape, MeRequestShape
  <2>3. \A at \in {"dropOrg", "putOrg", "uniqueOrg", "listUsers", "switchRaw"} :
           [r EXCEPT !.at = at].at \notin Marked
    BY <2>2 DEF Marked
  <2>4. [at |-> "me", who |-> r.who].at \notin Marked
    BY DEF Marked
  <2>5. QED
    BY <1>2, <1>3, <2>1, <2>3, <2>4
<1>20. CASE DropMapping(s)
  <2>1. /\ UNCHANGED <<users, superNew>> /\ r.at = "dropMappings"
        /\ Goto(s, [r EXCEPT !.todo = @ \ {First(r.todo)}])
    BY <1>20 DEF DropMapping, MappingsOnly
  <2>2. [r EXCEPT !.todo = @ \ {First(r.todo)}].at = "dropMappings"
    BY <2>1, OrgRequestShape
  <2>3. [r EXCEPT !.todo = @ \ {First(r.todo)}].at \notin Marked
    BY <2>2 DEF Marked
  <2>4. QED
    BY <1>2, <2>1, <2>3
<1>21. CASE SwitchRaw(s)
  <2>1. Done(s) /\ UNCHANGED <<users, superNew>>
    BY <1>4, <1>21 DEF SwitchRaw, db
  <2>2. QED
    BY <1>3, <2>1
<1>22. CASE Me(s)
  <2>1. /\ UNCHANGED <<users, superNew>>
        /\ \/ Done(s)
           \/ Goto(s, [at |-> "meCount", who |-> r.who,
                       role |-> orgs[DefaultOrg].role])
    BY <1>0, <1>22 DEF Me, db
  <2>2. QED
    BY <1>2, <1>3, <2>1 DEF Marked
<1>23. CASE MeCount(s)
  <2>1. /\ UNCHANGED <<users, superNew>> /\ r.at = "meCount"
        /\ Goto(s, [r EXCEPT !.at = "meConfig"])
    BY <1>23 DEF MeCount, FirstUser, db
  <2>2. [r EXCEPT !.at = "meConfig"].at = "meConfig"
    BY <2>1, MeRequestShape
  <2>3. [r EXCEPT !.at = "meConfig"].at \notin Marked
    BY <2>2 DEF Marked
  <2>4. QED
    BY <1>2, <2>1, <2>3
<1>24. CASE MeConfig(s) \/ MeMappings(s)
  <2>1. UNCHANGED <<users, superNew>>
    BY <1>24 DEF MeConfig, MeMappings, db
  <2>2. PICK roles, todo :
           \/ Goto(s, [at |-> "meMappings", who |-> r.who, role |-> r.role,
                       super |-> FALSE])
           \/ Goto(s, [at |-> "meRoles", who |-> r.who, role |-> r.role,
                       super |-> FALSE, roles |-> roles, todo |-> todo])
    BY <1>0, <1>24 DEF MeConfig, MeMappings, Plain
  <2>3. QED
    BY <1>1, <2>1, <2>2 DEF Plain
<1>25. CASE MeRole(s)
  <2>1. PICK todo, roles : Goto(s, [r EXCEPT !.todo = todo, !.roles = roles])
    BY <1>25 DEF MeRole
  <2>2. r.at = "meRoles" /\ UNCHANGED <<users, superNew>>
    BY <1>25 DEF MeRole, db
  <2> DEFINE q == [r EXCEPT !.todo = todo, !.roles = roles]
  <2>3. q.at = "meRoles" /\ q.super = r.super
    BY <2>2, MeRequestShape
  <2> HIDE DEF q
  <2>4. Plain(q)
    BY <1>0, <2>2, <2>3 DEF Plain
  <2>5. QED
    BY <1>1, <2>1, <2>2, <2>4 DEF q
<1>26. CASE MeAdd(s)
  <2>1. PICK roles :
           \/ Done(s)
           \/ Goto(s, [at |-> "findUser", scope |-> Raw,
                       user |-> [who |-> r.who, super |-> r.super,
                                 roles |-> roles]])
    BY <1>26 DEF MeAdd
  <2>2. r.super = FALSE /\ UNCHANGED <<users, superNew>>
    BY <1>0, <1>26 DEF MeAdd, Plain, db
  <2>3. Plain([at |-> "findUser", scope |-> Raw,
               user |-> [who |-> r.who, super |-> r.super, roles |-> roles]])
    BY <2>2 DEF Plain
  <2>4. QED
    BY <1>1, <1>3, <2>1, <2>2, <2>3
<1>27. CASE Full(s)
  <2>1. /\ UNCHANGED <<users, superNew>>
        /\ Done(s) \/ Goto(s, [at |-> "undoOrg", org |-> First(r.undo)])
    BY <1>27 DEF Full, db
  <2>2. QED
    BY <1>2, <1>3, <2>1 DEF Marked
<1>28. QED
  BY <1>5, <1>6, <1>7, <1>8, <1>9, <1>10, <1>11, <1>12, <1>13, <1>14, <1>15,
     <1>16, <1>17, <1>18, <1>19, <1>20, <1>21, <1>22, <1>23, <1>24, <1>25,
     <1>26, <1>27 DEF Step

\* Nor does any other step.
LEMMA NextPlain ==
    ASSUME TypeOK, PlainInv, [Next]_vars
    PROVE  PlainInv'
<1> SUFFICES ASSUME Locked, PlainState PROVE PlainState'
  BY DEF PlainInv, Locked
<1>1. CASE UNCHANGED vars
  BY <1>1 DEF PlainState, vars, db
<1>2. ASSUME NEW s \in Slots, Step(s) PROVE PlainState'
  BY <1>2, StepPlain
<1>3. ASSUME NEW s \in Slots, Accept(s) \/ AcceptMe(s) \/ UpdateMe(s)
      PROVE  PlainState'
  BY <1>3, BeginSlot DEF PlainState, Plain, db
<1>4. CASE Crash
  BY <1>4 DEF Crash, PlainState, Plain, Idle, db
<1>5. QED
  BY <1>1, <1>2, <1>3, <1>4 DEF Next

\* So nobody is one, and no request is about to make one.
LEMMA PlainHolds == Spec => []PlainInv
<1>1. Init => PlainInv
  <2> SUFFICES ASSUME Init, Locked PROVE PlainState
    BY DEF PlainInv
  <2>1. superNew = FALSE
    BY AccountsAssumption DEF Init, Locked
  <2>2. DOMAIN users # {}
    <3>1. users \in Seq(User) /\ users # <<>>
      BY AccountsAssumption DEF Init, Locked
    <3>2. DOMAIN users = 1..Len(users) /\ Len(users) > 0
      BY <3>1
    <3>3. QED
      BY <3>2
  <2>3. \A i \in DOMAIN users : users[i].super = FALSE
    BY AccountsAssumption DEF Init, Locked, User
  <2>4. \A s \in Slots : Plain(reqs[s])
    BY DEF Init, Plain, Idle
  <2>5. QED
    BY <2>1, <2>2, <2>3, <2>4 DEF PlainState
<1>2. Inv /\ PlainInv /\ [Next]_vars => PlainInv'
  BY NextPlain DEF Inv
<1>3. QED
  BY <1>1, <1>2, InvHolds, PTL DEF Spec

\* In a database without a super admin, or a way to become one, nobody becomes
\* one, whatever org admins and people who log in do (server/users.go,
\* setSuperAdmin; server/me.go, newUsersAreSuperAdmin).
THEOREM SupersFromSupers == Spec => []NoSuperFromNowhere
<1>1. PlainInv => NoSuperFromNowhere
  BY DEF PlainInv, PlainState, NoSuperFromNowhere, Supers
<1>2. QED
  BY <1>1, PlainHolds, PTL

-----------------------------------------------------------------------------
(* The admins of one organization, and the roles with another. *)

\* Roles that have nothing of a closed organization, and roles that have of one
\* what the user `id` had at the start, or nothing.
NoneClosed(roles) == \A o \in Closed : roles[o] = <<>>
KeptClosed(roles, id) ==
    \A o \in Closed : roles[o] # <<>> => /\ id \in DOMAIN StartUsers
                                         /\ roles[o] = StartUsers[id].roles[o]

\* A request is authorized for other organizations, and what it adds or writes
\* leaves the roles with closed ones as they are.
Fenced(r) ==
    /\ r.at = "authorized" => r.org \notin Closed
    /\ r.at \in {"newUserRoles", "updateRoles"} => r.scope \cap Closed = {}
    /\ r.at \in {"findUser", "addUser", "merge"} => NoneClosed(r.user.roles)
    /\ r.at = "putUser" => KeptClosed(r.user.roles, r.id)
    /\ r.at = "meRoles" => r.todo \cap Closed = {} /\ NoneClosed(r.roles)
    /\ r.at \notin {"addMapping", "putMapping"}

Fences == {"authorized", "newUserRoles", "updateRoles", "findUser", "addUser",
           "merge", "putUser", "meRoles", "addMapping", "putMapping"}

FencedState ==
    /\ \A i \in DOMAIN users : KeptClosed(users[i].roles, i)
    /\ \A m \in DOMAIN mappings : mappings[m].org \notin Closed
    /\ \A s \in Slots : Fenced(reqs[s])

FencedInv == Locked => FencedState

\* What the stores do to roles keeps those with closed organizations.
LEMMA ClosedRoles ==
    /\ Closed \subseteq OrgIds \ {DefaultOrg}
    /\ NoneClosed(NoRoles)
    /\ \A roles, id : NoneClosed(roles) => KeptClosed(roles, id)
    /\ \A roles, more \in RoleMap : \A id :
          KeptClosed(roles, id) /\ NoneClosed(more)
          => KeptClosed(Join(roles, more), id)
    /\ \A roles \in RoleMap : \A scope, id :
          KeptClosed(roles, id) => KeptClosed(Outside(roles, scope), id)
<1>1. Closed \subseteq OrgIds \ {DefaultOrg}
  BY DEF Closed
<1>2. NoneClosed(NoRoles)
  BY <1>1 DEF NoneClosed, NoRoles
<1>3. \A roles, id : NoneClosed(roles) => KeptClosed(roles, id)
  BY DEF NoneClosed, KeptClosed
<1>4. ASSUME NEW roles \in RoleMap, NEW more \in RoleMap, NEW id,
             KeptClosed(roles, id), NoneClosed(more)
      PROVE  KeptClosed(Join(roles, more), id)
  <2>1. ASSUME NEW o \in Closed PROVE Join(roles, more)[o] = roles[o]
    <3>1. o \in OrgIds /\ more[o] = <<>>
      BY <1>1, <1>4 DEF NoneClosed
    <3>2. Join(roles, more)[o] = roles[o] \o <<>> /\ roles[o] \in Seq(Roles)
      BY <3>1 DEF Join, RoleMap
    <3> HIDE DEF Roles
    <3>3. \A q \in Seq(Roles) : q \o <<>> = q
      OBVIOUS
    <3>4. QED
      BY <3>2, <3>3
  <2>2. QED
    BY <1>4, <2>1 DEF KeptClosed
<1>5. ASSUME NEW roles \in RoleMap, NEW scope, NEW id, KeptClosed(roles, id)
      PROVE  KeptClosed(Outside(roles, scope), id)
  <2>1. \A o \in Closed : Outside(roles, scope)[o] \in {<<>>, roles[o]}
    BY <1>1 DEF Outside, Inside
  <2>2. QED
    BY <1>5, <2>1 DEF KeptClosed
<1>6. QED
  BY <1>1, <1>2, <1>3, <1>4, <1>5

\* In a locked database no step of a request gives a role with a closed
\* organization, or gets to where it could.
LEMMA StepFenced ==
    ASSUME TypeOK, Locked, PlainState, FencedState, NEW s \in Slots, Step(s)
    PROVE  FencedState'
<1> DEFINE r == reqs[s]
<1> USE DEF FencedState
<1>0. /\ Plain(r) /\ Fenced(r) /\ SuperGroup = {}
      /\ \A i \in DOMAIN users : /\ users[i] \in User /\ users[i].super = FALSE
                                 /\ users[i].roles \in RoleMap
                                 /\ KeptClosed(users[i].roles, i)
  BY DEF Locked, TypeOK, PlainState, User
<1>1. ASSUME NEW q, Fenced(q), Goto(s, q), UNCHANGED <<users, mappings>>
      PROVE  FencedState'
  BY <1>1, GotoSlot
<1>2. ASSUME NEW q, q.at \notin Fences, Goto(s, q), UNCHANGED <<users, mappings>>
      PROVE  FencedState'
  <2>1. Fenced(q)
    BY <1>2 DEF Fenced, Fences
  <2>2. QED
    BY <1>1, <1>2, <2>1
<1>3. Done(s) /\ UNCHANGED <<users, mappings>> => FencedState'
  BY <1>2 DEF Done, Idle, Fences
<1>4. ASSUME NEW who, IdsOf(who) # {}
      PROVE  /\ First(IdsOf(who)) \in DOMAIN users
             /\ users[First(IdsOf(who))].super = FALSE
             /\ users[First(IdsOf(who))] \in User
             /\ KeptClosed(users[First(IdsOf(who))].roles, First(IdsOf(who)))
  BY <1>0, <1>4, FoundType
<1>5. ASSUME NEW scope, scope \cap Closed = {}, NEW roles \in AskedRoles(scope)
      PROVE  NoneClosed(roles)
  <2>1. CASE roles = NoRoles
    BY <2>1, ClosedRoles
  <2>2. ASSUME NEW o \in scope, NEW name, roles = Role(o, name)
        PROVE  NoneClosed(roles)
    BY <1>5, <2>2, ClosedRoles DEF Role, NoneClosed, NoRoles
  <2>3. QED
    BY <1>5, <2>1, <2>2 DEF AskedRoles
<1>6. CASE AuthUser(s)
  <2>1. UNCHANGED <<users, mappings>>
        /\ Goto(s, [at |-> "authRole", who |-> r.who, org |-> r.org,
                    id |-> First(IdsOf(r.who))])
    BY <1>4, <1>6 DEF AuthUser, db
  <2>2. QED
    BY <1>2, <2>1 DEF Fences
<1>7. CASE AuthRole(s)
  <2> DEFINE id == First(IdsOf(r.who))
  <2>1. /\ UNCHANGED <<users, mappings>> /\ IdsOf(r.who) # {}
        /\ users[id].roles[r.org] = <<"admin">>
        /\ Goto(s, [at |-> "authorized", who |-> r.who, org |-> r.org,
                    id |-> r.id, super |-> FALSE])
    BY <1>7 DEF AuthRole, db
  <2>2. KeptClosed(users[id].roles, id)
    BY <1>4, <2>1
  <2> HIDE DEF id
  <2>3. r.org \notin Closed
    <3> SUFFICES ASSUME r.org \in Closed PROVE FALSE
      OBVIOUS
    <3>1. id \in DOMAIN StartUsers /\ StartUsers[id].roles[r.org] = <<"admin">>
      BY <2>1, <2>2 DEF KeptClosed
    <3>2. 1 \in DOMAIN StartUsers[id].roles[r.org]
          /\ StartUsers[id].roles[r.org][1] = "admin"
      BY <3>1
    <3>3. QED
      BY <3>1, <3>2 DEF Closed
  <2>4. QED
    BY <1>1, <2>1, <2>3 DEF Fenced
<1>8. CASE NewUser(s)
  <2>1. PICK scope, user :
           /\ scope \in Scopes(r)
           /\ Goto(s, [at |-> "newUserRoles", scope |-> scope, user |-> user])
    BY <1>8 DEF NewUser
  <2>2. scope \cap Closed = {}
    BY <1>0, <1>8, <2>1 DEF NewUser, Plain, Fenced, Scopes
  <2>3. QED
    BY <1>1, <1>8, <2>1, <2>2 DEF NewUser, Fenced, db
<1>9. CASE NewUserRoles(s)
  <2>1. PICK roles \in AskedRoles(r.scope) :
           Goto(s, [at |-> "findUser", scope |-> r.scope,
                    user |-> [r.user EXCEPT !.roles = roles]])
    BY <1>9 DEF NewUserRoles
  <2> DEFINE user == [r.user EXCEPT !.roles = roles]
  <2>2. r.user \in User /\ r.scope \cap Closed = {}
    BY <1>0, <1>9, UserRequestShape DEF NewUserRoles, Fenced
  <2>3. user.roles = roles /\ NoneClosed(roles)
    BY <1>5, <2>2 DEF User
  <2> HIDE DEF user
  <2>4. Fenced([at |-> "findUser", scope |-> r.scope, user |-> user])
    BY <2>3 DEF Fenced
  <2>5. QED
    BY <1>1, <1>9, <2>1, <2>4 DEF NewUserRoles, db, user
<1>10. CASE FindUser(s)
  <2> DEFINE id == First(IdsOf(r.user.who))
             user == [users[id] EXCEPT !.roles = Join(@, r.user.roles),
                                       !.super = @ \/ r.user.super]
             put == [at |-> "putUser", scope |-> r.scope, id |-> id,
                     user |-> user, next |-> Idle]
             add == [at |-> "addUser", user |-> r.user, undo |-> {}]
  <2>1. /\ UNCHANGED <<users, mappings>> /\ r.at = "findUser"
        /\ \/ Done(s) \/ Goto(s, add)
           \/ IdsOf(r.user.who) # {} /\ Goto(s, put)
    BY <1>10 DEF FindUser, db
  <2>2. NoneClosed(r.user.roles) /\ r.user \in User
    BY <1>0, <2>1, UserRequestShape DEF Fenced
  <2>3. Fenced(add)
    BY <2>2 DEF Fenced
  <2>4. ASSUME IdsOf(r.user.who) # {} PROVE Fenced(put)
    <3>1. users[id] \in User /\ KeptClosed(users[id].roles, id)
      BY <1>4, <2>4
    <3> HIDE DEF id
    <3>2. user.roles = Join(users[id].roles, r.user.roles)
      BY <3>1 DEF User
    <3>3. KeptClosed(user.roles, id)
      BY <2>2, <3>1, <3>2, ClosedRoles DEF User
    <3> HIDE DEF user
    <3>4. QED
      BY <3>3 DEF Fenced
  <2> HIDE DEF add, put
  <2>5. QED
    BY <1>1, <1>3, <2>1, <2>3, <2>4
<1>11. CASE AddUser(s)
  <2>1. NoneClosed(r.user.roles)
    BY <1>0, <1>11 DEF AddUser, Fenced
  <2>2. \A id : KeptClosed(r.user.roles, id)
    BY <2>1, ClosedRoles
  <2>3. /\ \A i \in DOMAIN users' : KeptClosed(users'[i].roles, i)
        /\ UNCHANGED mappings
    BY <1>0, <1>11, <2>2 DEF AddUser, PutKey, UsersOnly
  <2>4. reqs'[s] = Idle /\ \A t \in Slots \ {s} : reqs'[t] = reqs[t]
    BY <1>11, GotoSlot DEF AddUser, Done
  <2>5. \A t \in Slots : Fenced(reqs'[t])
    BY <2>4 DEF Fenced, Idle
  <2>6. QED
    BY <2>3, <2>5
<1>12. CASE PutUser(s)
  <2>1. KeptClosed(r.user.roles, r.id) /\ r.next \in Rest
    BY <1>0, <1>12, UserRequestShape DEF PutUser, Fenced
  <2>2. /\ \A i \in DOMAIN users' : KeptClosed(users'[i].roles, i)
        /\ UNCHANGED mappings
    BY <1>0, <1>12, <2>1 DEF PutUser, PutKey, UsersOnly
  <2>3. reqs'[s] = r.next /\ \A t \in Slots \ {s} : reqs'[t] = reqs[t]
    BY <1>12, GotoSlot DEF PutUser
  <2>4. Fenced(r.next)
    BY <2>1 DEF Rest, Fenced, Idle
  <2>5. QED
    BY <2>2, <2>3, <2>4
<1>13. CASE \/ RemoveUser(s) \/ NewOrganization(s) \/ UpdateOrganization(s)
            \/ RemoveOrganization(s) \/ NewMapping(s) \/ UpdateMapping(s)
            \/ RemoveMapping(s) \/ ReplaceAuthConfig(s) \/ AddOrg(s)
            \/ JoinFind(s) \/ JoinAdd(s) \/ JoinPut(s)
  BY <1>0, <1>13 DEF Plain, RemoveUser, NewOrganization, UpdateOrganization,
     RemoveOrganization, NewMapping, UpdateMapping, RemoveMapping,
     ReplaceAuthConfig, AddOrg, JoinFind, JoinAdd, JoinPut
<1>14. CASE UpdateUser(s)
  <2>1. PICK id, scope, self, super :
           /\ scope \in Scopes(r)
           /\ Goto(s, [at |-> "updateRoles", scope |-> scope, id |-> id,
                       user |-> users[id], self |-> self, super |-> super])
    BY <1>14 DEF UpdateUser
  <2>2. scope \cap Closed = {}
    BY <1>0, <1>14, <2>1 DEF UpdateUser, Plain, Fenced, Scopes
  <2>3. Fenced([at |-> "updateRoles", scope |-> scope, id |-> id,
                user |-> users[id], self |-> self, super |-> super])
    BY <2>2 DEF Fenced
  <2>4. QED
    BY <1>1, <1>14, <2>1, <2>3 DEF UpdateUser, db
<1>15. CASE UpdateRoles(s)
  <2>1. PICK roles \in AskedRoles(r.scope), super \in BOOLEAN :
           LET user == [r.user EXCEPT !.roles = roles, !.super = super] IN
           \/ Goto(s, [at |-> "putUser", scope |-> r.scope, id |-> r.id,
                       user |-> user, next |-> Idle])
           \/ Goto(s, [at |-> "merge", scope |-> r.scope, id |-> r.id,
                       user |-> user])
    BY <1>15 DEF UpdateRoles
  <2> DEFINE user == [r.user EXCEPT !.roles = roles, !.super = super]
  <2>2. r.user \in User /\ r.scope \cap Closed = {}
    BY <1>0, <1>15, UserRequestShape DEF UpdateRoles, Fenced
  <2>3. user.roles = roles /\ NoneClosed(roles)
    BY <1>5, <2>2 DEF User
  <2>4. KeptClosed(roles, r.id)
    BY <2>3, ClosedRoles
  <2>5. /\ Fenced([at |-> "putUser", scope |-> r.scope, id |-> r.id,
                   user |-> user, next |-> Idle])
        /\ Fenced([at |-> "merge", scope |-> r.scope, id |-> r.id,
                   user |-> user])
    <3> HIDE DEF user
    <3> QED BY <2>3, <2>4 DEF Fenced
  <2>6. QED
    BY <1>1, <1>15, <2>1, <2>5 DEF UpdateRoles, db
<1>16. CASE Merge(s)
  <2> DEFINE others == Outside(users[r.id].roles, r.scope)
             user == [r.user EXCEPT !.roles = Join(others, @)]
             put == [at |-> "putUser", scope |-> r.scope, id |-> r.id,
                     user |-> user, next |-> Idle]
  <2>1. /\ UNCHANGED <<users, mappings>> /\ Goto(s, put) /\ r.at = "merge"
        /\ r.id \in DOMAIN users
    BY <1>16 DEF Merge, db
  <2>2. /\ r.user \in User /\ r.scope \in Scope /\ NoneClosed(r.user.roles)
        /\ r.user.roles \in RoleMap
    BY <1>0, <2>1, UserRequestShape DEF Fenced, User
  <2>3. others \in RoleMap /\ KeptClosed(others, r.id)
    BY <1>0, <2>1, <2>2, ClosedRoles, RolesType
  <2> HIDE DEF others
  <2>4. user.roles = Join(others, r.user.roles)
    BY <2>2 DEF User
  <2>5. KeptClosed(user.roles, r.id)
    BY <2>2, <2>3, <2>4, ClosedRoles
  <2>6. Fenced(put)
    <3> HIDE DEF user
    <3> QED BY <2>5 DEF Fenced
  <2>7. QED
    BY <1>1, <2>1, <2>6
<1>17. CASE Strip(s)
  <2>1. PICK id, next, scope :
           /\ id \in DOMAIN users
           /\ Goto(s, [at |-> "putUser", scope |-> scope, id |-> id,
                       user |-> [users[id] EXCEPT
                                   !.roles = Outside(@, {r.org})],
                       next |-> next])
    BY <1>17 DEF Strip
  <2> DEFINE user == [users[id] EXCEPT !.roles = Outside(@, {r.org})]
  <2>2. user.roles = Outside(users[id].roles, {r.org})
    BY <1>0, <2>1 DEF User
  <2>3. KeptClosed(user.roles, id)
    BY <1>0, <2>1, <2>2, ClosedRoles
  <2>4. Fenced([at |-> "putUser", scope |-> scope, id |-> id, user |-> user,
                next |-> next])
    <3> HIDE DEF user
    <3> QED BY <2>3 DEF Fenced
  <2>5. QED
    BY <1>1, <1>17, <2>1, <2>4 DEF Strip, db
<1>18. CASE \/ AuthRefuse(s) \/ MergeMissing(s) \/ StripMissing(s)
            \/ DropMappingEnd(s) \/ Refuse(s) \/ PutOrg(s)
  BY <1>3, <1>18 DEF AuthRefuse, MergeMissing, StripMissing, DropMappingEnd,
     Refuse, PutOrg, OrgsOnly, db
<1>19. CASE AddMapping(s) \/ PutMapping(s)
  BY <1>0, <1>19 DEF Fenced, AddMapping, PutMapping
<1>20. CASE RemoveUserOfOrg(s) \/ ListUsers(s) \/ AllStripped(s)
  <2>1. UNCHANGED <<users, mappings>>
    BY <1>20 DEF RemoveUserOfOrg, ListUsers, AllStripped, db
  <2>2. PICK todo, cascade :
           \/ Goto(s, [at |-> "strip", org |-> r.org, todo |-> todo,
                       cascade |-> cascade])
           \/ Goto(s, [at |-> "dropMappings", todo |-> todo])
    BY <1>20 DEF RemoveUserOfOrg, ListUsers, AllStripped
  <2>3. QED
    BY <1>2, <2>1, <2>2 DEF Fences
<1>21. CASE UndoOrg(s) \/ CheckOrg(s) \/ UniqueOrg(s) \/ DropOrg(s) \/ Switch(s)
  <2>1. /\ UNCHANGED <<users, mappings>>
        /\ r.at \in {"undoOrg", "checkOrg", "uniqueOrg", "dropOrg", "switch"}
        /\ \/ Done(s)
           \/ Goto(s, [at |-> "me", who |-> r.who])
           \/ \E at \in {"dropOrg", "putOrg", "uniqueOrg", "listUsers",
                         "switchRaw"} : Goto(s, [r EXCEPT !.at = at])
    BY <1>21 DEF UndoOrg, CheckOrg, UniqueOrg, DropOrg, Switch, OrgsOnly, db
  <2>2. \A at : [r EXCEPT !.at = at].at = at
    BY <2>1, OrgRequestShape, MeRequestShape
  <2>3. \A at \in {"dropOrg", "putOrg", "uniqueOrg", "listUsers", "switchRaw"} :
           [r EXCEPT !.at = at].at \notin Fences
    BY <2>2 DEF Fences
  <2>4. [at |-> "me", who |-> r.who].at \notin Fences
    BY DEF Fences
  <2>5. QED
    BY <1>2, <1>3, <2>1, <2>3, <2>4
<1>22. CASE DropMapping(s)
  <2> DEFINE q == [r EXCEPT !.todo = @ \ {First(r.todo)}]
  <2>1. /\ UNCHANGED users /\ r.at = "dropMappings" /\ Goto(s, q)
        /\ \A m \in DOMAIN mappings' : m \in DOMAIN mappings
                                       /\ mappings'[m] = mappings[m]
    BY <1>22 DEF DropMapping, MappingsOnly, DropKey
  <2>2. q.at = "dropMappings"
    BY <2>1, OrgRequestShape
  <2> HIDE DEF q
  <2>3. Fenced(q)
    BY <2>2 DEF Fenced
  <2>4. QED
    BY <2>1, <2>3, GotoSlot
<1>23. CASE SwitchRaw(s)
  <2>1. Done(s) /\ UNCHANGED <<users, mappings>>
    BY <1>4, <1>23 DEF SwitchRaw, db
  <2>2. QED
    BY <1>3, <2>1
<1>24. CASE Me(s)
  <2>1. /\ UNCHANGED <<users, mappings>>
        /\ \/ Done(s)
           \/ Goto(s, [at |-> "meCount", who |-> r.who,
                       role |-> orgs[DefaultOrg].role])
    BY <1>0, <1>24 DEF Me, db
  <2>2. QED
    BY <1>2, <1>3, <2>1 DEF Fences
<1>25. CASE MeCount(s) \/ MeConfig(s)
  <2>1. UNCHANGED <<users, mappings>>
    BY <1>25 DEF MeCount, MeConfig, db
  <2>2. \/ r.at = "meCount" /\ Goto(s, [r EXCEPT !.at = "meConfig"])
        \/ \E super : Goto(s, [at |-> "meMappings", who |-> r.who,
                               role |-> r.role, super |-> super])
    BY <1>25 DEF MeCount, MeConfig
  <2>3. r.at = "meCount" => [r EXCEPT !.at = "meConfig"].at = "meConfig"
    BY MeRequestShape
  <2>4. r.at = "meCount" => [r EXCEPT !.at = "meConfig"].at \notin Fences
    BY <2>3 DEF Fences
  <2>5. \A super : [at |-> "meMappings", who |-> r.who, role |-> r.role,
                    super |-> super].at \notin Fences
    BY DEF Fences
  <2>6. QED
    BY <1>2, <2>1, <2>2, <2>4, <2>5
<1>26. CASE MeMappings(s)
  <2>1. PICK todo : /\ \A o \in todo : \E m \in DOMAIN mappings :
                                          mappings[m].org = o
                    /\ Goto(s, [at |-> "meRoles", who |-> r.who, role |-> r.role,
                                super |-> r.super, roles |-> NoRoles,
                                todo |-> todo])
    BY <1>26 DEF MeMappings
  <2>2. todo \cap Closed = {} /\ NoneClosed(NoRoles)
    BY <2>1, ClosedRoles
  <2>3. Fenced([at |-> "meRoles", who |-> r.who, role |-> r.role,
                super |-> r.super, roles |-> NoRoles, todo |-> todo])
    BY <2>2 DEF Fenced
  <2>4. QED
    BY <1>1, <1>26, <2>1, <2>3 DEF MeMappings, db
<1>27. CASE MeRole(s)
  <2>1. PICK o, role :
           /\ o \in r.todo
           /\ Goto(s, [r EXCEPT !.todo = @ \ {o},
                                !.roles = [@ EXCEPT ![o] = role]])
    BY <1>27 DEF MeRole
  <2>2. r.at = "meRoles" /\ UNCHANGED <<users, mappings>>
    BY <1>27 DEF MeRole, db
  <2>3. r.todo \cap Closed = {} /\ NoneClosed(r.roles) /\ r.roles \in RoleMap
    BY <1>0, <2>2, MeRequestShape DEF Fenced
  <2> DEFINE q == [r EXCEPT !.todo = @ \ {o}, !.roles = [@ EXCEPT ![o] = role]]
  <2>4. /\ q.at = "meRoles" /\ q.todo = r.todo \ {o}
        /\ q.roles = [r.roles EXCEPT ![o] = role]
    BY <2>2, MeRequestShape
  <2> HIDE DEF q
  <2>5. q.todo \cap Closed = {} /\ NoneClosed(q.roles)
    BY <2>1, <2>3, <2>4, ClosedRoles DEF NoneClosed, RoleMap
  <2>6. Fenced(q)
    BY <2>4, <2>5 DEF Fenced
  <2>7. QED
    BY <1>1, <2>1, <2>2, <2>6 DEF q
<1>28. CASE MeAdd(s)
  <2> DEFINE roles == IF r.super /\ r.roles[DefaultOrg] = <<>>
                      THEN [r.roles EXCEPT ![DefaultOrg] = <<r.role>>]
                      ELSE r.roles
             user == [who |-> r.who, super |-> r.super, roles |-> roles]
  <2>1. /\ r.at = "meRoles" /\ UNCHANGED <<users, mappings>>
        /\ Done(s) \/ Goto(s, [at |-> "findUser", scope |-> Raw, user |-> user])
    BY <1>28 DEF MeAdd, db
  <2>2. NoneClosed(r.roles) /\ r.roles \in RoleMap
    BY <1>0, <2>1, MeRequestShape DEF Fenced
  <2>3. NoneClosed(roles)
    BY <2>2, ClosedRoles DEF NoneClosed, RoleMap
  <2> HIDE DEF roles
  <2>4. Fenced([at |-> "findUser", scope |-> Raw, user |-> user])
    BY <2>3 DEF Fenced
  <2>5. QED
    BY <1>1, <1>3, <2>1, <2>4
<1>29. CASE Full(s)
  <2>1. /\ UNCHANGED <<users, mappings>>
        /\ Done(s) \/ Goto(s, [at |-> "undoOrg", org |-> First(r.undo)])
    BY <1>29 DEF Full, db
  <2>2. QED
    BY <1>2, <1>3, <2>1 DEF Fences
<1>30. QED
  BY <1>6, <1>7, <1>8, <1>9, <1>10, <1>11, <1>12, <1>13, <1>14, <1>15, <1>16,
     <1>17, <1>18, <1>19, <1>20, <1>21, <1>22, <1>23, <1>24, <1>25, <1>26,
     <1>27, <1>28, <1>29 DEF Step

\* Nor does any other step.
LEMMA NextFenced ==
    ASSUME TypeOK, PlainInv, FencedInv, [Next]_vars
    PROVE  FencedInv'
<1> SUFFICES ASSUME Locked, PlainState, FencedState PROVE FencedState'
  BY DEF PlainInv, FencedInv, Locked
<1>1. CASE UNCHANGED vars
  BY <1>1 DEF FencedState, vars, db
<1>2. ASSUME NEW s \in Slots, Step(s) PROVE FencedState'
  BY <1>2, StepFenced
<1>3. ASSUME NEW s \in Slots, Accept(s) \/ AcceptMe(s) \/ UpdateMe(s)
      PROVE  FencedState'
  BY <1>3, BeginSlot DEF FencedState, Fenced, db
<1>4. CASE Crash
  BY <1>4 DEF Crash, FencedState, Fenced, Idle, db
<1>5. QED
  BY <1>1, <1>2, <1>3, <1>4 DEF Next

\* In such a database no interleaving of what the admins of other organizations
\* do gives anyone a role with a closed organization, or changes one that is
\* held (organizations/users.go).
THEOREM TenantsAreIsolated == Spec => []TenantIsolation
<1>1. Init => FencedInv
  <2> SUFFICES ASSUME Init PROVE FencedState
    BY DEF FencedInv
  <2>1. \A i \in DOMAIN users : KeptClosed(users[i].roles, i)
    BY DEF Init, KeptClosed
  <2>2. ASSUME NEW m \in DOMAIN mappings PROVE mappings[m].org \notin Closed
    <3>1. StartMappings \in Seq(Mapping) /\ mapSeq = Len(StartMappings)
          /\ DOMAIN mappings = 0..mapSeq
      BY AccountsAssumption DEF Init
    <3>2. CASE m = 0
      BY <3>1, <3>2, ClosedRoles DEF Init
    <3>3. CASE m # 0
      <4>1. m \in DOMAIN StartMappings /\ mappings[m] = StartMappings[m]
        BY <3>1, <3>3 DEF Init
      <4>2. QED
        BY <4>1 DEF Closed
    <3>4. QED
      BY <3>2, <3>3
  <2>3. \A s \in Slots : Fenced(reqs[s])
    BY DEF Init, Fenced, Idle
  <2>4. QED
    BY <2>1, <2>2, <2>3 DEF FencedState
<1>2. Inv /\ PlainInv /\ FencedInv /\ [Next]_vars => FencedInv'
  BY NextFenced DEF Inv
<1>3. FencedInv => TenantIsolation
  BY DEF FencedInv, FencedState, KeptClosed, TenantIsolation
<1>4. QED
  BY <1>1, <1>2, <1>3, InvHolds, PlainHolds, PTL DEF Spec

-----------------------------------------------------------------------------
(* Where a request comes from. *)

\* Which steps take a request to where, and which write the buckets.
LEMMA Origins ==
    ASSUME TypeOK, NEW s \in Slots, Step(s)
    PROVE  LET at == reqs'[s].at IN
           /\ at \in {"authUser", "switch"} => FALSE
           /\ at = "authRole" => AuthUser(s)
           /\ at = "authorized" => AuthUser(s) \/ AuthRole(s)
           /\ at = "newUserRoles" => NewUser(s)
           /\ at = "findUser" => NewUserRoles(s) \/ MeAdd(s)
           /\ at = "addUser" => FindUser(s) \/ JoinAdd(s)
           /\ at = "updateRoles" => UpdateUser(s)
           /\ at = "merge" => UpdateRoles(s)
           /\ at = "putUser" => \/ FindUser(s) \/ UpdateRoles(s) \/ Merge(s)
                                \/ Strip(s) \/ JoinPut(s) \/ SwitchRaw(s)
                                \/ Me(s)
           /\ at = "addOrg" => NewOrganization(s)
           /\ at = "joinFind" => AddOrg(s)
           /\ at \in {"joinAdd", "joinPut"} => JoinFind(s)
           /\ at = "putOrg" => CheckOrg(s) \/ UniqueOrg(s)
           /\ at = "listUsers" => DropOrg(s)
           /\ at = "strip" => RemoveUserOfOrg(s) \/ ListUsers(s) \/ PutUser(s)
           /\ at = "dropMappings" => AllStripped(s) \/ DropMapping(s)
           /\ at = "addMapping" => NewMapping(s)
           /\ at = "putMapping" => UpdateMapping(s)
           /\ at = "switchRaw" => Switch(s)
           /\ at = "meConfig" => MeCount(s)
           /\ at = "meMappings" => MeCount(s) \/ MeConfig(s)
           /\ at = "meRoles" => MeMappings(s) \/ MeRole(s)
           /\ users' = users \/ AddUser(s) \/ PutUser(s) \/ RemoveUser(s)
           /\ users' # users => at \in {"idle", "me", "strip"}
           /\ orgs' = orgs \/ AddOrg(s) \/ PutOrg(s) \/ DropOrg(s)
           /\ orgs' # orgs => at \in {"joinFind", "listUsers", "idle"}
           /\ \/ mappings' = mappings \/ AddMapping(s) \/ PutMapping(s)
              \/ RemoveMapping(s) \/ DropMapping(s)
           /\ mappings' # mappings => at \in {"dropMappings", "idle"}
<1> DEFINE r == reqs[s]
           at == reqs'[s].at
<1>1. \A q : Goto(s, q) => reqs'[s] = q
  BY GotoSlot
<1>2. Done(s) => at = "idle"
  BY <1>1 DEF Done, Idle
<1>3. CASE AuthUser(s) \/ AuthRole(s) \/ AuthRefuse(s)
  <2>1. UNCHANGED <<users, orgs, mappings>>
    BY <1>3 DEF AuthUser, AuthRole, AuthRefuse, db
  <2>2. \/ AuthUser(s) /\ at \in {"authorized", "authRole"}
        \/ AuthRole(s) /\ at = "authorized"
        \/ at = "idle"
    <3>1. AuthUser(s) => at \in {"authorized", "authRole"}
      BY <1>1 DEF AuthUser
    <3>2. AuthRole(s) => at = "authorized"
      BY <1>1 DEF AuthRole
    <3>3. AuthRefuse(s) => at = "idle"
      BY <1>2 DEF AuthRefuse
    <3>4. QED
      BY <1>3, <3>1, <3>2, <3>3
  <2>3. QED
    BY <2>1, <2>2
<1>4. CASE NewUser(s) \/ NewUserRoles(s) \/ FindUser(s)
  <2>1. UNCHANGED <<users, orgs, mappings>>
    BY <1>4 DEF NewUser, NewUserRoles, FindUser, db
  <2>2. \/ NewUser(s) /\ at = "newUserRoles"
        \/ NewUserRoles(s) /\ at = "findUser"
        \/ FindUser(s) /\ at \in {"addUser", "putUser", "idle"}
    <3>1. ASSUME NewUser(s) PROVE at = "newUserRoles"
      <4>1. PICK scope, user : Goto(s, [at |-> "newUserRoles", scope |-> scope,
                                        user |-> user])
        BY <3>1 DEF NewUser
      <4>2. QED
        BY <1>1, <4>1
    <3>2. ASSUME NewUserRoles(s) PROVE at = "findUser"
      <4>1. PICK user : Goto(s, [at |-> "findUser", scope |-> r.scope,
                                 user |-> user])
        BY <3>2 DEF NewUserRoles
      <4>2. QED
        BY <1>1, <4>1
    <3>3. ASSUME FindUser(s) PROVE at \in {"addUser", "putUser", "idle"}
      <4>1. \/ Done(s)
            \/ Goto(s, [at |-> "addUser", user |-> r.user, undo |-> {}])
            \/ \E id, user : Goto(s, [at |-> "putUser", scope |-> r.scope,
                                      id |-> id, user |-> user, next |-> Idle])
        BY <3>3 DEF FindUser
      <4>2. QED
        BY <4>1 DEF Goto, Done, Idle, TypeOK
    <3>4. QED
      BY <1>4, <3>1, <3>2, <3>3
  <2>3. QED
    BY <2>1, <2>2
<1>5. CASE AddUser(s) \/ PutUser(s) \/ RemoveUser(s)
  <2>1. UNCHANGED <<orgs, mappings>>
    BY <1>5 DEF AddUser, PutUser, RemoveUser, UsersOnly
  <2>2. \/ at = "idle"
        \/ PutUser(s) /\ reqs'[s] = r.next /\ r.next \in Rest
    BY <1>1, <1>2, <1>5, UserRequestShape DEF AddUser, PutUser, RemoveUser
  <2>3. at \in {"idle", "me"} \/ (PutUser(s) /\ at = "strip")
    BY <2>2 DEF Rest, Idle
  <2>4. QED
    BY <1>5, <2>1, <2>3
<1>6. CASE \/ UpdateUser(s) \/ UpdateRoles(s) \/ Merge(s) \/ MergeMissing(s)
           \/ RemoveUserOfOrg(s) \/ Strip(s) \/ StripMissing(s)
  <2>1. UNCHANGED <<users, orgs, mappings>>
    BY <1>6 DEF UpdateUser, UpdateRoles, Merge, MergeMissing,
       RemoveUserOfOrg, Strip, StripMissing, db
  <2>2. \/ UpdateUser(s) /\ at = "updateRoles"
        \/ UpdateRoles(s) /\ at \in {"putUser", "merge"}
        \/ (Merge(s) \/ Strip(s)) /\ at = "putUser"
        \/ RemoveUserOfOrg(s) /\ at = "strip"
        \/ at = "idle"
    <3>1. ASSUME UpdateUser(s) PROVE at = "updateRoles"
      <4>1. PICK id, scope, self :
               Goto(s, [at |-> "updateRoles", scope |-> scope, id |-> id,
                        user |-> users[id], self |-> self, super |-> r.super])
        BY <3>1 DEF UpdateUser
      <4>2. QED
        BY <1>1, <4>1
    <3>2. ASSUME UpdateRoles(s) PROVE at \in {"putUser", "merge"}
      <4>1. PICK user :
               \/ Goto(s, [at |-> "putUser", scope |-> r.scope, id |-> r.id,
                           user |-> user, next |-> Idle])
               \/ Goto(s, [at |-> "merge", scope |-> r.scope, id |-> r.id,
                           user |-> user])
        BY <3>2 DEF UpdateRoles
      <4>2. QED
        BY <1>1, <4>1
    <3>3. ASSUME Merge(s) \/ Strip(s) PROVE at = "putUser"
      <4>1. PICK id, scope, user, next :
               Goto(s, [at |-> "putUser", scope |-> scope, id |-> id,
                        user |-> user, next |-> next])
        BY <3>3 DEF Merge, Strip
      <4>2. QED
        BY <1>1, <4>1
    <3>4. ASSUME RemoveUserOfOrg(s) PROVE at = "strip"
      BY <1>1, <3>4 DEF RemoveUserOfOrg
    <3>5. ASSUME MergeMissing(s) \/ StripMissing(s) PROVE at = "idle"
      BY <1>2, <3>5 DEF MergeMissing, StripMissing
    <3>6. QED
      BY <1>6, <3>1, <3>2, <3>3, <3>4, <3>5
  <2>3. QED
    BY <2>1, <2>2
<1>7. CASE NewOrganization(s) \/ UpdateOrganization(s) \/ RemoveOrganization(s)
  <2>1. UNCHANGED <<users, orgs, mappings>>
    BY <1>7 DEF NewOrganization, UpdateOrganization, RemoveOrganization, db
  <2>2. \/ NewOrganization(s) /\ at = "addOrg"
        \/ at \in {"checkOrg", "dropOrg"}
    <3>1. ASSUME NewOrganization(s) PROVE at = "addOrg"
      <4>1. PICK new : Goto(s, [at |-> "addOrg", who |-> r.who, new |-> new])
        BY <3>1 DEF NewOrganization
      <4>2. QED
        BY <1>1, <4>1
    <3>2. ASSUME UpdateOrganization(s) PROVE at = "checkOrg"
      <4>1. PICK id, new : Goto(s, [at |-> "checkOrg", id |-> id, new |-> new])
        BY <3>2 DEF UpdateOrganization
      <4>2. QED
        BY <1>1, <4>1
    <3>3. ASSUME RemoveOrganization(s) PROVE at = "dropOrg"
      BY <1>1, <3>3 DEF RemoveOrganization
    <3>4. QED
      BY <1>7, <3>1, <3>2, <3>3
  <2>3. QED
    BY <2>1, <2>2
<1>8. CASE AddOrg(s) \/ PutOrg(s) \/ DropOrg(s)
  <2>1. UNCHANGED <<users, mappings>>
    BY <1>8 DEF AddOrg, PutOrg, DropOrg, OrgsOnly
  <2>2. ASSUME DropOrg(s) PROVE at = "listUsers"
    <3>1. r.at = "dropOrg" /\ reqs'[s] = [r EXCEPT !.at = "listUsers"]
      BY <1>1, <2>2 DEF DropOrg
    <3>2. QED
      BY <3>1, OrgRequestShape
  <2>3. AddOrg(s) => at = "joinFind"
    BY <1>1 DEF AddOrg
  <2>4. PutOrg(s) => at = "idle"
    BY <1>2 DEF PutOrg
  <2>5. QED
    BY <1>8, <2>1, <2>2, <2>3, <2>4
<1>9. CASE JoinFind(s) \/ JoinAdd(s) \/ JoinPut(s) \/ UndoOrg(s)
  <2>1. UNCHANGED <<users, orgs, mappings>>
    BY <1>9 DEF JoinFind, JoinAdd, JoinPut, UndoOrg, db
  <2>2. r.at \in {"joinFind", "undoOrg"} =>
           \A to : [r EXCEPT !.at = to].at = to
    BY OrgRequestShape
  <2>3. \/ JoinFind(s) /\ at \in {"joinAdd", "joinPut", "undoOrg"}
        \/ JoinAdd(s) /\ at \in {"addUser", "undoOrg"}
        \/ JoinPut(s) /\ at \in {"putUser", "undoOrg"}
        \/ at \in {"dropOrg", "idle"}
    <3>1. ASSUME JoinFind(s) PROVE at \in {"joinAdd", "joinPut", "undoOrg"}
      <4>1. /\ r.at = "joinFind"
            /\ \/ Goto(s, [r EXCEPT !.at = "joinAdd"])
               \/ Goto(s, [at |-> "undoOrg", org |-> r.org])
               \/ \E id, user : Goto(s, [at |-> "joinPut", scope |-> {r.org},
                                         id |-> id, user |-> user])
        BY <3>1 DEF JoinFind
      <4>2. CASE Goto(s, [r EXCEPT !.at = "joinAdd"])
        BY <1>1, <2>2, <4>1, <4>2
      <4>3. CASE ~Goto(s, [r EXCEPT !.at = "joinAdd"])
        BY <4>1, <4>3 DEF Goto, TypeOK
      <4>4. QED
        BY <4>2, <4>3
    <3>2. ASSUME JoinAdd(s) PROVE at \in {"addUser", "undoOrg"}
      <4>1. \/ Goto(s, [at |-> "undoOrg", org |-> r.org])
            \/ \E user : Goto(s, [at |-> "addUser", undo |-> {r.org},
                                  user |-> user])
        BY <3>2 DEF JoinAdd
      <4>2. QED
        BY <4>1 DEF Goto, TypeOK
    <3>3. ASSUME JoinPut(s) PROVE at \in {"putUser", "undoOrg"}
      <4>1. \/ \E org : Goto(s, [at |-> "undoOrg", org |-> org])
            \/ Goto(s, [at |-> "putUser", scope |-> r.scope, id |-> r.id,
                        user |-> r.user, next |-> Idle])
        BY <3>3 DEF JoinPut
      <4>2. QED
        BY <4>1 DEF Goto, TypeOK
    <3>4. ASSUME UndoOrg(s) PROVE at \in {"dropOrg", "idle"}
      BY <1>1, <1>2, <2>2, <3>4 DEF UndoOrg
    <3>5. QED
      BY <1>9, <3>1, <3>2, <3>3, <3>4
  <2>4. QED
    BY <2>1, <2>3
<1>10. CASE CheckOrg(s) \/ UniqueOrg(s) \/ ListUsers(s) \/ AllStripped(s)
  <2>1. UNCHANGED <<users, orgs, mappings>>
    BY <1>10 DEF CheckOrg, UniqueOrg, ListUsers, AllStripped, db
  <2>2. r.at \in {"checkOrg", "uniqueOrg"} =>
           \A to : [r EXCEPT !.at = to].at = to
    BY OrgRequestShape
  <2>3. \/ (CheckOrg(s) \/ UniqueOrg(s)) /\ at = "putOrg"
        \/ ListUsers(s) /\ at = "strip"
        \/ AllStripped(s) /\ at = "dropMappings"
        \/ at \in {"uniqueOrg", "idle"}
    <3>1. ASSUME CheckOrg(s) \/ UniqueOrg(s)
          PROVE  at \in {"putOrg", "uniqueOrg", "idle"}
      BY <1>1, <1>2, <2>2, <3>1 DEF CheckOrg, UniqueOrg
    <3>2. ASSUME ListUsers(s) PROVE at = "strip"
      BY <1>1, <3>2 DEF ListUsers
    <3>3. ASSUME AllStripped(s) PROVE at = "dropMappings"
      BY <1>1, <3>3 DEF AllStripped
    <3>4. QED
      BY <1>10, <3>1, <3>2, <3>3
  <2>4. QED
    BY <2>1, <2>3
<1>11. CASE \/ DropMapping(s) \/ DropMappingEnd(s) \/ AddMapping(s)
            \/ PutMapping(s) \/ RemoveMapping(s)
  <2>1. UNCHANGED <<users, orgs>> /\ (DropMappingEnd(s) => UNCHANGED mappings)
    BY <1>11 DEF DropMapping, DropMappingEnd, AddMapping, PutMapping,
       RemoveMapping, MappingsOnly, db
  <2>2. ASSUME DropMapping(s) PROVE at = "dropMappings"
    <3>1. /\ r.at = "dropMappings"
          /\ reqs'[s] = [r EXCEPT !.todo = @ \ {First(r.todo)}]
      BY <1>1, <2>2 DEF DropMapping
    <3>2. QED
      BY <3>1, OrgRequestShape
  <2>3. ~DropMapping(s) => at = "idle"
    BY <1>2, <1>11 DEF DropMappingEnd, AddMapping, PutMapping, RemoveMapping
  <2>4. QED
    BY <1>11, <2>1, <2>2, <2>3
<1>12. CASE NewMapping(s) \/ UpdateMapping(s) \/ ReplaceAuthConfig(s)
  <2>1. UNCHANGED <<users, orgs, mappings>>
    BY <1>12 DEF NewMapping, UpdateMapping, ReplaceAuthConfig, db
  <2>2. \/ NewMapping(s) /\ at = "addMapping"
        \/ UpdateMapping(s) /\ at = "putMapping"
        \/ at = "idle"
    <3>1. ASSUME NewMapping(s) PROVE at = "addMapping"
      <4>1. PICK new : Goto(s, [at |-> "addMapping", mapping |-> new])
        BY <3>1 DEF NewMapping
      <4>2. QED
        BY <1>1, <4>1
    <3>2. ASSUME UpdateMapping(s) PROVE at = "putMapping"
      <4>1. PICK id, new : Goto(s, [at |-> "putMapping", id |-> id,
                                    mapping |-> new])
        BY <3>2 DEF UpdateMapping
      <4>2. QED
        BY <1>1, <4>1
    <3>3. ReplaceAuthConfig(s) => at = "idle"
      BY <1>2 DEF ReplaceAuthConfig
    <3>4. QED
      BY <1>12, <3>1, <3>2, <3>3
  <2>3. QED
    BY <2>1, <2>2
<1>13. CASE Switch(s) \/ SwitchRaw(s) \/ Me(s)
  <2>1. UNCHANGED <<users, orgs, mappings>>
    BY <1>13 DEF Switch, SwitchRaw, Me, db
  <2>2. r.at = "switch" => [r EXCEPT !.at = "switchRaw"].at = "switchRaw"
    BY MeRequestShape
  <2>3. \/ Switch(s) /\ at \in {"me", "switchRaw"}
        \/ (SwitchRaw(s) \/ Me(s)) /\ at = "putUser"
        \/ at \in {"meCount", "idle"}
    <3>1. ASSUME Switch(s) PROVE at \in {"me", "switchRaw"}
      <4>1. CASE Goto(s, [r EXCEPT !.at = "switchRaw"])
        <5>1. r.at = "switch"
          BY <3>1 DEF Switch
        <5>2. QED
          BY <1>1, <2>2, <4>1, <5>1
      <4>2. CASE ~Goto(s, [r EXCEPT !.at = "switchRaw"])
        BY <3>1, <4>2 DEF Switch, Goto, TypeOK
      <4>3. QED
        BY <4>1, <4>2
    <3>2. ASSUME SwitchRaw(s) \/ Me(s) PROVE at \in {"putUser", "meCount", "idle"}
      <4>1. \/ Done(s)
            \/ \E role : Goto(s, [at |-> "meCount", who |-> r.who,
                                  role |-> role])
            \/ \E id, user, next :
                  Goto(s, [at |-> "putUser", scope |-> Raw, id |-> id,
                           user |-> user, next |-> next])
        BY <3>2 DEF SwitchRaw, Me
      <4>2. QED
        BY <4>1 DEF Goto, Done, Idle, TypeOK
    <3>3. QED
      BY <1>13, <3>1, <3>2
  <2>4. QED
    BY <2>1, <2>3
<1>14. CASE MeCount(s) \/ MeConfig(s) \/ MeMappings(s)
  <2>1. UNCHANGED <<users, orgs, mappings>>
    BY <1>14 DEF MeCount, MeConfig, MeMappings, db
  <2>2. r.at = "meCount" => [r EXCEPT !.at = "meConfig"].at = "meConfig"
    BY MeRequestShape
  <2>3. \/ MeCount(s) /\ at \in {"meMappings", "meConfig"}
        \/ MeConfig(s) /\ at = "meMappings"
        \/ MeMappings(s) /\ at = "meRoles"
    <3>1. ASSUME MeCount(s) PROVE at \in {"meMappings", "meConfig"}
      <4>1. CASE Goto(s, [r EXCEPT !.at = "meConfig"])
        <5>1. r.at = "meCount"
          BY <3>1 DEF MeCount
        <5>2. QED
          BY <1>1, <2>2, <4>1, <5>1
      <4>2. CASE ~Goto(s, [r EXCEPT !.at = "meConfig"])
        BY <3>1, <4>2 DEF MeCount, Goto, TypeOK
      <4>3. QED
        BY <4>1, <4>2
    <3>2. ASSUME MeConfig(s) PROVE at = "meMappings"
      BY <1>1, <3>2 DEF MeConfig
    <3>3. ASSUME MeMappings(s) PROVE at = "meRoles"
      BY <1>1, <3>3 DEF MeMappings
    <3>4. QED
      BY <1>14, <3>1, <3>2, <3>3
  <2>4. QED
    BY <2>1, <2>3
<1>15. CASE MeRole(s)
  <2>1. r.at = "meRoles" /\ UNCHANGED <<users, orgs, mappings>>
    BY <1>15 DEF MeRole, db
  <2>2. PICK todo, roles :
           reqs'[s] = [r EXCEPT !.todo = todo, !.roles = roles]
    BY <1>1, <1>15 DEF MeRole
  <2>3. at = "meRoles"
    BY <2>1, <2>2, MeRequestShape
  <2>4. QED
    BY <1>15, <2>1, <2>3
<1>16. CASE MeAdd(s) \/ Refuse(s) \/ Full(s)
  <2>1. UNCHANGED <<users, orgs, mappings>>
    BY <1>16 DEF MeAdd, Refuse, Full, db
  <2>2. (MeAdd(s) /\ at = "findUser") \/ at \in {"undoOrg", "idle"}
    BY <1>1, <1>2, <1>16 DEF MeAdd, Refuse, Full
  <2>3. QED
    BY <2>1, <2>2
<1>17. QED
  BY <1>3, <1>4, <1>5, <1>6, <1>7, <1>8, <1>9, <1>10, <1>11, <1>12, <1>13,
     <1>14, <1>15, <1>16 DEF Step

\* The Put of a user, and what the request before it has taken the roles from.
PutFrom(r, q) ==
    \/ /\ r.at = "findUser" /\ q.scope = r.scope /\ r.scope # Raw
       /\ q.id \in DOMAIN users \ Visible(r.scope)
       /\ q.user.roles = Join(users[q.id].roles, r.user.roles) /\ q.next = Idle
    \/ /\ r.at = "updateRoles" /\ q.scope = Raw
       /\ q.user.roles \in AskedRoles(Raw) /\ q.next = Idle
    \/ /\ r.at = "merge" /\ q.id \in DOMAIN users /\ q.scope = r.scope
       /\ q.user.roles = Join(Outside(users[q.id].roles, r.scope), r.user.roles)
       /\ q.next = Idle
    \/ /\ r.at = "joinPut" /\ q.id = r.id /\ q.scope = r.scope
       /\ q.user = r.user /\ q.next = Idle
    \/ /\ r.at = "strip" /\ q.id \in DOMAIN users
       /\ q.scope = {r.org} /\ q.user.roles = Outside(users[q.id].roles, {r.org})
       /\ q.id = First(r.todo) /\ r.todo # {}
       /\ IF r.cascade
          THEN q.next = [r EXCEPT !.todo = @ \ {q.id}]
          ELSE q.next = Idle
    \/ /\ r.at = "switchRaw" /\ q.scope = Raw
       /\ q.id = First(IdsOf(r.who)) /\ IdsOf(r.who) # {}
       /\ q.id \in DOMAIN users
       /\ q.user.roles = [users[q.id].roles EXCEPT ![r.org] = Append(@, r.role)]
       /\ q.next = [at |-> "me", who |-> r.who]
    \/ /\ r.at = "me" /\ q.scope = Raw /\ q.id \in DOMAIN users
       /\ q.user.roles = users[q.id].roles /\ q.next = Idle

\* What the requests that add or write a user have taken its roles from.
LEMMA RoleOrigins ==
    ASSUME TypeOK, NEW s \in Slots, Step(s)
    PROVE  LET r == reqs[s]
               q == reqs'[s]
               roles == q.user.roles
               old == users[q.id].roles
           IN
           /\ q.at = "findUser" =>
                 \/ /\ r.at = "newUserRoles"
                    /\ q.scope = r.scope /\ roles \in AskedRoles(r.scope)
                 \/ /\ r.at = "meRoles" /\ q.scope = Raw
                    /\ roles \in {r.roles,
                                  [r.roles EXCEPT ![DefaultOrg] = <<r.role>>]}
           /\ q.at = "addUser" =>
                 \/ r.at = "findUser" /\ q.user = r.user /\ IdsOf(r.user.who) = {}
                 \/ /\ r.at = "joinAdd" /\ roles = Role(r.org, "admin")
                    /\ q.user.who = r.who /\ IdsOf(r.who) = {}
           /\ q.at = "merge" =>
                 /\ r.at = "updateRoles"
                 /\ q.scope = r.scope /\ roles \in AskedRoles(r.scope)
           /\ q.at = "joinPut" =>
                 /\ r.at = "joinFind" /\ q.scope = {r.org}
                 /\ q.id \in DOMAIN users /\ old[r.org] = <<>>
                 /\ roles = Join(old, Role(r.org, "admin"))
           /\ q.at = "putUser" => PutFrom(r, q)
           /\ q.at = "meRoles" =>
                 \/ r.at = "meMappings" /\ q.roles = NoRoles
                 \/ /\ r.at = "meRoles"
                    /\ \E o \in r.todo :
                          q.roles = [r.roles EXCEPT ![o] =
                                       IF o \in DOMAIN orgs
                                       THEN <<orgs[o].role>> ELSE <<>>]
           /\ q.at = "switchRaw" =>
                 /\ r.at = "switch" /\ q.who = r.who /\ q.org = r.org
                 /\ IdsOf(r.who) # {} =>
                       First(IdsOf(r.who)) \notin Visible({r.org})
<1> DEFINE r == reqs[s]
           q == reqs'[s]
<1>0. \A x : Goto(s, x) => q = x
  BY GotoSlot
<1>1. \A who : IdsOf(who) # {} =>
         /\ First(IdsOf(who)) \in DOMAIN users
         /\ users[First(IdsOf(who))] \in User
  BY FoundType
<1>2. \A i \in DOMAIN users : users[i] \in User
  BY DEF TypeOK
<1>3. Done(s) => q.at = "idle"
  BY <1>0 DEF Done, Idle
<1>4. ASSUME q.at = "findUser"
      PROVE  \/ /\ r.at = "newUserRoles" /\ q.scope = r.scope
                /\ q.user.roles \in AskedRoles(r.scope)
             \/ /\ r.at = "meRoles" /\ q.scope = Raw
                /\ q.user.roles \in {r.roles,
                                     [r.roles EXCEPT ![DefaultOrg] = <<r.role>>]}
  <2>1. NewUserRoles(s) \/ MeAdd(s)
    BY <1>4, Origins
  <2>2. CASE NewUserRoles(s)
    <3>1. PICK roles \in AskedRoles(r.scope) :
             Goto(s, [at |-> "findUser", scope |-> r.scope,
                      user |-> [r.user EXCEPT !.roles = roles]])
      BY <2>2 DEF NewUserRoles
    <3>2. r.at = "newUserRoles" /\ r.user \in User
      BY <2>2, UserRequestShape DEF NewUserRoles
    <3> DEFINE user == [r.user EXCEPT !.roles = roles]
    <3>3. user.roles = roles
      BY <3>2 DEF User
    <3>4. q.scope = r.scope /\ q.user = user
      <4> HIDE DEF user
      <4>1. q = [at |-> "findUser", scope |-> r.scope, user |-> user]
        BY <1>0, <3>1 DEF user
      <4>2. QED
        BY <4>1
    <3>5. QED
      BY <3>2, <3>3, <3>4
  <2>3. CASE MeAdd(s)
    <3>1. PICK roles \in {r.roles, [r.roles EXCEPT ![DefaultOrg] = <<r.role>>]} :
             \/ Done(s)
             \/ Goto(s, [at |-> "findUser", scope |-> Raw,
                         user |-> [who |-> r.who, super |-> r.super,
                                   roles |-> roles]])
      BY <2>3 DEF MeAdd
    <3> HIDE DEF r
    <3>2. q = [at |-> "findUser", scope |-> Raw,
               user |-> [who |-> r.who, super |-> r.super, roles |-> roles]]
      BY <1>0, <1>3, <1>4, <3>1
    <3>3. q.scope = Raw /\ q.user.roles = roles
      BY <3>2
    <3>4. r.at = "meRoles"
      BY <2>3 DEF MeAdd, r
    <3>5. QED
      BY <3>1, <3>3, <3>4 DEF r
  <2>4. QED
    BY <2>1, <2>2, <2>3
<1>5. ASSUME q.at = "addUser"
      PROVE  \/ r.at = "findUser" /\ q.user = r.user /\ IdsOf(r.user.who) = {}
             \/ /\ r.at = "joinAdd" /\ q.user.roles = Role(r.org, "admin")
                /\ q.user.who = r.who /\ IdsOf(r.who) = {}
  <2>1. FindUser(s) \/ JoinAdd(s)
    BY <1>5, Origins
  <2>2. CASE FindUser(s)
    <3>1. /\ r.at = "findUser" /\ IdsOf(r.user.who) = {}
          /\ q = [at |-> "addUser", user |-> r.user, undo |-> {}]
      BY <1>0, <1>3, <1>5, <2>2 DEF FindUser
    <3>2. QED
      BY <3>1
  <2>3. CASE JoinAdd(s)
    <3>1. /\ r.at = "joinAdd" /\ IdsOf(r.who) = {}
          /\ q = [at |-> "addUser", undo |-> {r.org},
                  user |-> [who |-> r.who, super |-> TRUE,
                            roles |-> Role(r.org, "admin")]]
      BY <1>0, <1>5, <2>3 DEF JoinAdd
    <3>2. QED
      BY <3>1
  <2>4. QED
    BY <2>1, <2>2, <2>3
<1>6. ASSUME UpdateRoles(s)
      PROVE  /\ r.at = "updateRoles" /\ q.scope = r.scope
             /\ q.user.roles \in AskedRoles(r.scope)
             /\ q.at = "putUser" => r.scope = Raw /\ q.next = Idle
  <2>1. PICK roles \in AskedRoles(r.scope), super \in BOOLEAN :
           LET user == [r.user EXCEPT !.roles = roles, !.super = super] IN
           \/ /\ r.scope = Raw
              /\ Goto(s, [at |-> "putUser", scope |-> r.scope, id |-> r.id,
                          user |-> user, next |-> Idle])
           \/ Goto(s, [at |-> "merge", scope |-> r.scope, id |-> r.id,
                       user |-> user])
    BY <1>6 DEF UpdateRoles
  <2> DEFINE user == [r.user EXCEPT !.roles = roles, !.super = super]
  <2>2. r.user \in User /\ r.at = "updateRoles"
    BY <1>6, UserRequestShape DEF UpdateRoles
  <2>3. user.roles = roles
    BY <2>2 DEF User
  <2>4. /\ q.scope = r.scope /\ q.user = user
        /\ q.at = "putUser" => r.scope = Raw /\ q.next = Idle
    <3> HIDE DEF user
    <3>1. CASE Goto(s, [at |-> "merge", scope |-> r.scope, id |-> r.id,
                        user |-> user])
      BY <1>0, <3>1
    <3>2. CASE /\ r.scope = Raw
               /\ Goto(s, [at |-> "putUser", scope |-> r.scope, id |-> r.id,
                           user |-> user, next |-> Idle])
      BY <1>0, <3>2
    <3>3. QED
      BY <2>1, <3>1, <3>2 DEF user
  <2>5. QED
    BY <2>2, <2>3, <2>4
<1>7. ASSUME q.at = "joinPut"
      PROVE  /\ r.at = "joinFind" /\ q.scope = {r.org} /\ q.id \in DOMAIN users
             /\ users[q.id].roles[r.org] = <<>>
             /\ q.user.roles = Join(users[q.id].roles, Role(r.org, "admin"))
  <2> DEFINE id == First(IdsOf(r.who))
             user == [users[id] EXCEPT !.super = TRUE,
                        !.roles = Join(@, Role(r.org, "admin"))]
  <2>1. JoinFind(s)
    BY <1>7, Origins
  <2>2. r.at = "joinFind" => [r EXCEPT !.at = "joinAdd"].at = "joinAdd"
    BY OrgRequestShape
  <2>3. /\ r.at = "joinFind"
        /\ \/ Goto(s, [r EXCEPT !.at = "joinAdd"])
           \/ Goto(s, [at |-> "undoOrg", org |-> r.org])
           \/ /\ IdsOf(r.who) # {} /\ users[id].roles[r.org] = <<>>
              /\ Goto(s, [at |-> "joinPut", scope |-> {r.org}, id |-> id,
                          user |-> user])
    BY <2>1 DEF JoinFind
  <2>4. ~Goto(s, [r EXCEPT !.at = "joinAdd"])
    BY <1>0, <1>7, <2>2, <2>3
  <2>5. ~Goto(s, [at |-> "undoOrg", org |-> r.org])
    BY <1>0, <1>7
  <2>6. /\ IdsOf(r.who) # {} /\ users[id].roles[r.org] = <<>>
        /\ q = [at |-> "joinPut", scope |-> {r.org}, id |-> id, user |-> user]
    BY <1>0, <2>3, <2>4, <2>5
  <2>7. id \in DOMAIN users /\ users[id] \in User
    BY <1>1, <2>6
  <2> HIDE DEF id
  <2>8. user.roles = Join(users[id].roles, Role(r.org, "admin"))
    BY <2>7 DEF User
  <2> HIDE DEF user
  <2>9. q.scope = {r.org} /\ q.id = id /\ q.user = user
    BY <2>6
  <2>10. QED
    BY <2>3, <2>6, <2>7, <2>8, <2>9
<1>8. ASSUME q.at = "putUser", FindUser(s)
      PROVE  /\ r.at = "findUser" /\ q.scope = r.scope /\ r.scope # Raw
             /\ q.id \in DOMAIN users \ Visible(r.scope)
             /\ q.user.roles = Join(users[q.id].roles, r.user.roles)
             /\ q.next = Idle
  <2> DEFINE id == First(IdsOf(r.user.who))
             user == [users[id] EXCEPT !.roles = Join(@, r.user.roles),
                                       !.super = @ \/ r.user.super]
  <2>1. /\ IdsOf(r.user.who) # {} /\ r.at = "findUser"
        /\ r.scope # Raw /\ id \notin Visible(r.scope)
        /\ q = [at |-> "putUser", scope |-> r.scope, id |-> id, user |-> user,
                next |-> Idle]
    BY <1>0, <1>3, <1>8 DEF FindUser
  <2>2. id \in DOMAIN users /\ users[id] \in User
    BY <1>1, <2>1
  <2> HIDE DEF id
  <2>3. user.roles = Join(users[id].roles, r.user.roles)
    BY <2>2 DEF User
  <2> HIDE DEF user
  <2>4. q.id = id /\ q.user = user /\ q.scope = r.scope /\ q.next = Idle
    BY <2>1
  <2>5. QED
    BY <2>1, <2>2, <2>3, <2>4
<1>9. ASSUME q.at = "putUser", Merge(s)
      PROVE  /\ r.at = "merge" /\ q.id \in DOMAIN users /\ q.scope = r.scope
             /\ q.user.roles = Join(Outside(users[q.id].roles, r.scope),
                                    r.user.roles)
             /\ q.next = Idle
  <2> DEFINE roles == Join(Outside(users[r.id].roles, r.scope), r.user.roles)
             user == [r.user EXCEPT !.roles = roles]
  <2>1. /\ q = [at |-> "putUser", scope |-> r.scope, id |-> r.id,
                user |-> user, next |-> Idle]
        /\ r.at = "merge" /\ r.user \in User /\ r.id \in DOMAIN users
    BY <1>0, <1>9, UserRequestShape DEF Merge
  <2> HIDE DEF roles
  <2>2. user.roles = roles
    BY <2>1 DEF User
  <2> HIDE DEF user
  <2>3. q.id = r.id /\ q.user = user /\ q.scope = r.scope /\ q.next = Idle
    BY <2>1
  <2>4. QED
    BY <2>1, <2>2, <2>3 DEF roles
<1>10. ASSUME q.at = "putUser", JoinPut(s)
       PROVE  /\ r.at = "joinPut" /\ q.id = r.id /\ q.scope = r.scope
              /\ q.user = r.user /\ q.next = Idle
  <2>1. /\ r.at = "joinPut"
        /\ \/ \E org : Goto(s, [at |-> "undoOrg", org |-> org])
           \/ Goto(s, [at |-> "putUser", scope |-> r.scope, id |-> r.id,
                       user |-> r.user, next |-> Idle])
    BY <1>10 DEF JoinPut
  <2>2. \A org : ~Goto(s, [at |-> "undoOrg", org |-> org])
    BY <1>0, <1>10
  <2>3. q = [at |-> "putUser", scope |-> r.scope, id |-> r.id,
             user |-> r.user, next |-> Idle]
    BY <1>0, <2>1, <2>2
  <2>4. QED
    BY <2>1, <2>3
<1>11. ASSUME q.at = "putUser", Strip(s)
       PROVE  /\ r.at = "strip" /\ q.id \in DOMAIN users /\ q.scope = {r.org}
              /\ q.user.roles = Outside(users[q.id].roles, {r.org})
              /\ q.id = First(r.todo) /\ r.todo # {}
              /\ IF r.cascade THEN q.next = [r EXCEPT !.todo = @ \ {q.id}]
                              ELSE q.next = Idle
  <2> DEFINE id == First(r.todo)
             roles == Outside(users[id].roles, {r.org})
             user == [users[id] EXCEPT !.roles = roles]
             next == IF r.cascade THEN [r EXCEPT !.todo = @ \ {id}] ELSE Idle
  <2>1. /\ q = [at |-> "putUser", scope |-> {r.org}, id |-> id,
                user |-> user, next |-> next]
        /\ r.at = "strip" /\ r.todo # {} /\ id \in DOMAIN users
    BY <1>0, <1>11 DEF Strip
  <2> HIDE DEF id, roles
  <2>2. user.roles = roles
    BY <1>2, <2>1 DEF User
  <2> HIDE DEF user, next
  <2>3. q.id = id /\ q.user = user /\ q.scope = {r.org} /\ q.next = next
    BY <2>1
  <2>4. QED
    BY <2>1, <2>2, <2>3 DEF roles, next, id
<1>12. ASSUME q.at = "putUser", SwitchRaw(s)
       PROVE  /\ r.at = "switchRaw" /\ q.scope = Raw
              /\ q.id = First(IdsOf(r.who)) /\ IdsOf(r.who) # {}
              /\ q.id \in DOMAIN users
              /\ q.user.roles = [users[q.id].roles EXCEPT ![r.org] =
                                   Append(@, r.role)]
              /\ q.next = [at |-> "me", who |-> r.who]
  <2> DEFINE id == First(IdsOf(r.who))
             user == [users[id] EXCEPT !.roles[r.org] = Append(@, r.role)]
             next == [at |-> "me", who |-> r.who]
  <2>1. /\ IdsOf(r.who) # {} /\ r.at = "switchRaw"
        /\ q = [at |-> "putUser", scope |-> Raw, id |-> id, user |-> user,
                next |-> next]
    BY <1>0, <1>3, <1>12 DEF SwitchRaw
  <2>2. id \in DOMAIN users /\ users[id] \in User
    BY <1>1, <2>1
  <2> HIDE DEF id
  <2>3. user.roles = [users[id].roles EXCEPT ![r.org] = Append(@, r.role)]
    BY <2>2 DEF User
  <2> HIDE DEF user, next
  <2>4. q.id = id /\ q.user = user /\ q.scope = Raw /\ q.next = next
    BY <2>1
  <2>5. QED
    BY <2>1, <2>2, <2>3, <2>4 DEF id, next
<1>13. ASSUME q.at = "putUser", Me(s)
       PROVE  /\ r.at = "me" /\ q.scope = Raw /\ q.id \in DOMAIN users
              /\ q.user.roles = users[q.id].roles /\ q.next = Idle
  <2> DEFINE id == First(IdsOf(r.who))
             user == [users[id] EXCEPT !.super = TRUE]
  <2>1. /\ IdsOf(r.who) # {} /\ r.at = "me"
        /\ q = [at |-> "putUser", scope |-> Raw, id |-> id, user |-> user,
                next |-> Idle]
    BY <1>0, <1>3, <1>13 DEF Me
  <2>2. id \in DOMAIN users /\ users[id] \in User
    BY <1>1, <2>1
  <2> HIDE DEF id
  <2>3. user.roles = users[id].roles
    BY <2>2 DEF User
  <2> HIDE DEF user
  <2>4. q.id = id /\ q.user = user /\ q.scope = Raw /\ q.next = Idle
    BY <2>1
  <2>5. QED
    BY <2>1, <2>2, <2>3, <2>4
<1>14. ASSUME q.at = "meRoles"
       PROVE  \/ r.at = "meMappings" /\ q.roles = NoRoles
              \/ /\ r.at = "meRoles"
                 /\ \E o \in r.todo :
                       q.roles = [r.roles EXCEPT ![o] =
                                    IF o \in DOMAIN orgs
                                    THEN <<orgs[o].role>> ELSE <<>>]
  <2>1. MeMappings(s) \/ MeRole(s)
    BY <1>14, Origins
  <2>2. CASE MeMappings(s)
    <3>1. PICK todo :
             q = [at |-> "meRoles", who |-> r.who, role |-> r.role,
                  super |-> r.super, roles |-> NoRoles, todo |-> todo]
      BY <1>0, <2>2 DEF MeMappings
    <3>2. QED
      BY <2>2, <3>1 DEF MeMappings
  <2>3. CASE MeRole(s)
    <3>1. PICK o \in r.todo :
             LET role == IF o \in DOMAIN orgs THEN <<orgs[o].role>> ELSE <<>>
             IN  Goto(s, [r EXCEPT !.todo = @ \ {o},
                                   !.roles = [@ EXCEPT ![o] = role]])
      BY <2>3 DEF MeRole
    <3> DEFINE role == IF o \in DOMAIN orgs THEN <<orgs[o].role>> ELSE <<>>
               roles == [r.roles EXCEPT ![o] = role]
    <3>2. q = [r EXCEPT !.todo = @ \ {o}, !.roles = roles] /\ r.at = "meRoles"
      BY <1>0, <2>3, <3>1 DEF MeRole
    <3> HIDE DEF roles
    <3>3. q.roles = roles
      BY <3>2, MeRequestShape
    <3>4. QED
      BY <3>2, <3>3 DEF roles
  <2>4. QED
    BY <2>1, <2>2, <2>3
<1>15. ASSUME q.at = "switchRaw"
       PROVE  /\ r.at = "switch" /\ q.who = r.who /\ q.org = r.org
              /\ IdsOf(r.who) # {} =>
                    First(IdsOf(r.who)) \notin Visible({r.org})
  <2>1. Switch(s)
    BY <1>15, Origins
  <2>2. ~Goto(s, [at |-> "me", who |-> r.who])
    BY <1>0, <1>15
  <2>3. /\ r.at = "switch" /\ Goto(s, [r EXCEPT !.at = "switchRaw"])
        /\ IdsOf(r.who) # {} => First(IdsOf(r.who)) \notin Visible({r.org})
    BY <2>1, <2>2 DEF Switch
  <2>4. q = [r EXCEPT !.at = "switchRaw"]
    BY <1>0, <2>3
  <2>5. q.who = r.who /\ q.org = r.org
    BY <2>3, <2>4, MeRequestShape
  <2>6. QED
    BY <2>3, <2>5
<1>16. /\ q.at = "merge" => UpdateRoles(s)
       /\ q.at = "putUser" =>
             \/ FindUser(s) \/ UpdateRoles(s) \/ Merge(s) \/ Strip(s)
             \/ JoinPut(s) \/ SwitchRaw(s) \/ Me(s)
  BY Origins
<1>17. q.at = "putUser" => PutFrom(r, q)
  BY <1>6, <1>8, <1>9, <1>10, <1>11, <1>12, <1>13, <1>16
     DEF PutFrom
<1> HIDE DEF r, q
<1>18. q.at = "merge" =>
          /\ r.at = "updateRoles"
          /\ q.scope = r.scope /\ q.user.roles \in AskedRoles(r.scope)
  BY <1>6, <1>16
<1>19. QED
  BY <1>4, <1>5, <1>7, <1>14, <1>15, <1>17, <1>18 DEF r, q

-----------------------------------------------------------------------------
(* One request at a time: super admins. *)

\* What a request may rely on: its user is in the bucket and still a super
\* admin, the users it would be the first of are still none, and the user it
\* writes does not leave the database without a super admin.
Backed(r) ==
    /\ r.at \in {"authRole", "authorized"} => r.id \in DOMAIN users
    /\ r.at = "authorized" /\ r.super => r.id \in Supers
    /\ r.at \in {"newUserRoles", "meConfig"} => DOMAIN users # {}
    /\ r.at \in {"findUser", "addUser"} => DOMAIN users # {} \/ r.user.super
    /\ r.at \in {"meMappings", "meRoles"} => DOMAIN users # {} \/ r.super
    /\ r.at \in Holding => r.id \in DOMAIN users
    /\ r.at = "updateRoles" =>
          /\ r.user.super => r.id \in Supers
          /\ ~r.user.super => r.id \notin Supers
          /\ r.super /\ ~r.self => Supers # {r.id}
    /\ r.at \in {"merge", "joinPut", "putUser"} =>
          r.user.super \/ Supers # {r.id}

\* A step of a request that runs alone leaves it something to rely on.
LEMMA StepBacked ==
    ASSUME TypeOK, NEW s \in Slots, Step(s), Backed(reqs[s])
    PROVE  Backed(reqs[s])'
<1> DEFINE r == reqs[s]
           q == reqs'[s]
<1>0. \A x : Goto(s, x) => q = x
  BY GotoSlot
<1>1. /\ Supers = {i \in DOMAIN users : users[i].super}
      /\ \A i \in DOMAIN users : users[i] \in User
  BY DEF Supers, TypeOK
<1>2. q.at \notin {"idle", "me", "strip"} => users' = users /\ Supers' = Supers
  BY Origins DEF Supers
<1>3. \A who : IdsOf(who) # {} =>
         /\ First(IdsOf(who)) \in DOMAIN users
         /\ users[First(IdsOf(who))] \in User
  BY FoundType
<1>4. ASSUME q.at \in {"authRole", "authorized"}
      PROVE  /\ q.id \in DOMAIN users
             /\ q.at = "authorized" /\ q.super => q.id \in Supers
  <2>1. CASE AuthUser(s)
    <3> DEFINE id == First(IdsOf(r.who))
    <3>1. /\ IdsOf(r.who) # {}
          /\ \/ /\ users[id].super
                /\ q = [at |-> "authorized", who |-> r.who, org |-> r.org,
                        id |-> id, super |-> TRUE]
             \/ q = [at |-> "authRole", who |-> r.who, org |-> r.org, id |-> id]
      BY <1>0, <2>1 DEF AuthUser
    <3>2. id \in DOMAIN users
      BY <1>3, <3>1
    <3> HIDE DEF id
    <3>3. q.id = id /\ (q.at = "authorized" => users[id].super)
      BY <3>1
    <3>4. QED
      BY <1>1, <3>2, <3>3
  <2>2. CASE AuthRole(s)
    <3>1. q = [at |-> "authorized", who |-> r.who, org |-> r.org, id |-> r.id,
               super |-> FALSE] /\ r.at = "authRole"
      BY <1>0, <2>2 DEF AuthRole
    <3>2. QED
      BY <3>1 DEF Backed
  <2>3. QED
    BY <1>4, <2>1, <2>2, Origins
<1>5. ASSUME q.at \in {"newUserRoles", "meConfig"} PROVE DOMAIN users # {}
  <2>1. NewUser(s) \/ MeCount(s)
    BY <1>5, Origins
  <2>2. CASE NewUser(s)
    BY <2>2 DEF NewUser, Backed
  <2>3. CASE MeCount(s)
    <3>1. q # [at |-> "meMappings", who |-> r.who, role |-> r.role,
               super |-> TRUE]
      BY <1>5
    <3>2. QED
      BY <1>0, <2>3, <3>1 DEF MeCount, FirstUser
  <2>4. QED
    BY <2>1, <2>2, <2>3
<1>6. ASSUME q.at = "findUser" PROVE DOMAIN users # {} \/ q.user.super
  <2>1. NewUserRoles(s) \/ MeAdd(s)
    BY <1>6, Origins
  <2>2. CASE NewUserRoles(s)
    BY <2>2 DEF NewUserRoles, Backed
  <2>3. CASE MeAdd(s)
    <3>1. PICK roles :
             q = [at |-> "findUser", scope |-> Raw,
                  user |-> [who |-> r.who, super |-> r.super, roles |-> roles]]
      <4>1. q # Idle
        BY <1>6 DEF Idle
      <4>2. PICK roles :
               \/ Done(s)
               \/ Goto(s, [at |-> "findUser", scope |-> Raw,
                           user |-> [who |-> r.who, super |-> r.super,
                                     roles |-> roles]])
        BY <2>3 DEF MeAdd
      <4>3. QED
        BY <1>0, <4>1, <4>2 DEF Done
    <3>2. r.at = "meRoles" /\ q.user.super = r.super
      BY <2>3, <3>1 DEF MeAdd
    <3>3. QED
      BY <3>2 DEF Backed
  <2>4. QED
    BY <2>1, <2>2, <2>3
<1>7. ASSUME q.at = "addUser" PROVE DOMAIN users # {} \/ q.user.super
  <2>1. FindUser(s) \/ JoinAdd(s)
    BY <1>7, Origins
  <2>2. CASE FindUser(s)
    <3>1. r.at = "findUser"
          /\ q = [at |-> "addUser", user |-> r.user, undo |-> {}]
      BY <1>0, <1>7, <2>2 DEF FindUser, Done, Idle
    <3>2. QED
      BY <3>1 DEF Backed
  <2>3. CASE JoinAdd(s)
    <3>1. q = [at |-> "addUser", undo |-> {r.org},
               user |-> [who |-> r.who, super |-> TRUE,
                         roles |-> Role(r.org, "admin")]]
      BY <1>0, <1>7, <2>3 DEF JoinAdd
    <3>2. QED
      BY <3>1
  <2>4. QED
    BY <2>1, <2>2, <2>3
<1>8. ASSUME q.at \in {"meMappings", "meRoles"} PROVE DOMAIN users # {} \/ q.super
  <2>1. MeCount(s) \/ MeConfig(s) \/ MeMappings(s) \/ MeRole(s)
    BY <1>8, Origins
  <2>2. CASE MeCount(s)
    <3>1. \/ q = [at |-> "meMappings", who |-> r.who, role |-> r.role,
                  super |-> TRUE]
          \/ DOMAIN users # {}
      BY <1>0, <2>2 DEF MeCount, FirstUser
    <3>2. QED
      BY <3>1
  <2>3. CASE MeConfig(s)
    BY <2>3 DEF MeConfig, Backed
  <2>4. CASE MeMappings(s)
    <3>1. PICK todo :
             q = [at |-> "meRoles", who |-> r.who, role |-> r.role,
                  super |-> r.super, roles |-> NoRoles, todo |-> todo]
      BY <1>0, <2>4 DEF MeMappings
    <3>2. q.super = r.super /\ r.at = "meMappings"
      BY <2>4, <3>1 DEF MeMappings
    <3>3. QED
      BY <3>2 DEF Backed
  <2>5. CASE MeRole(s)
    <3>1. PICK todo, roles : q = [r EXCEPT !.todo = todo, !.roles = roles]
      BY <1>0, <2>5 DEF MeRole
    <3>2. r.at = "meRoles"
      BY <2>5 DEF MeRole
    <3>3. q.super = r.super
      BY <3>1, <3>2, MeRequestShape
    <3>4. QED
      BY <3>2, <3>3 DEF Backed
  <2>6. QED
    BY <2>1, <2>2, <2>3, <2>4, <2>5
<1>9. ASSUME q.at = "updateRoles"
      PROVE  /\ q.id \in DOMAIN users
             /\ q.user.super => q.id \in Supers
             /\ ~q.user.super => q.id \notin Supers
             /\ q.super /\ ~q.self => Supers # {q.id}
  <2>1. UpdateUser(s)
    BY <1>9, Origins
  <2>2. PICK id, scope :
           /\ id \in DOMAIN users
           /\ q = [at |-> "updateRoles", scope |-> scope, id |-> id,
                   user |-> users[id], self |-> id = r.id, super |-> r.super]
    <3>1. PICK id, scope :
             /\ id \in DOMAIN users
             /\ Goto(s, [at |-> "updateRoles", scope |-> scope, id |-> id,
                         user |-> users[id], self |-> id = r.id,
                         super |-> r.super])
      BY <2>1 DEF UpdateUser, Visible
    <3>2. QED
      BY <1>0, <3>1
  <2>3. r.super => r.id \in Supers
    BY <2>1 DEF UpdateUser, Backed
  <2>4. /\ q.id = id /\ q.user = users[id] /\ q.super = r.super
        /\ q.self = (id = r.id)
    BY <2>2
  <2>5. q.super /\ ~q.self => r.id \in Supers /\ id # r.id
    BY <2>3, <2>4
  <2>6. QED
    BY <1>1, <2>2, <2>4, <2>5
<1>10. ASSUME q.at = "joinPut" PROVE q.id \in DOMAIN users /\ q.user.super
  <2> DEFINE id == First(IdsOf(r.who))
             user == [users[id] EXCEPT !.super = TRUE,
                        !.roles = Join(@, Role(r.org, "admin"))]
  <2>1. JoinFind(s)
    BY <1>10, Origins
  <2>2. r.at = "joinFind" => [r EXCEPT !.at = "joinAdd"].at = "joinAdd"
    BY OrgRequestShape
  <2>3. /\ IdsOf(r.who) # {}
        /\ q = [at |-> "joinPut", scope |-> {r.org}, id |-> id, user |-> user]
    <3>1. /\ r.at = "joinFind"
          /\ \/ Goto(s, [r EXCEPT !.at = "joinAdd"])
             \/ Goto(s, [at |-> "undoOrg", org |-> r.org])
             \/ /\ IdsOf(r.who) # {}
                /\ Goto(s, [at |-> "joinPut", scope |-> {r.org}, id |-> id,
                            user |-> user])
      BY <2>1 DEF JoinFind
    <3>2. ~Goto(s, [r EXCEPT !.at = "joinAdd"])
      BY <1>0, <1>10, <2>2, <3>1
    <3>3. ~Goto(s, [at |-> "undoOrg", org |-> r.org])
      BY <1>0, <1>10
    <3>4. QED
      BY <1>0, <3>1, <3>2, <3>3
  <2>4. id \in DOMAIN users /\ users[id] \in User
    BY <1>3, <2>3
  <2> HIDE DEF id
  <2>5. user.super = TRUE
    BY <2>4 DEF User
  <2> HIDE DEF user
  <2>6. QED
    BY <2>3, <2>4, <2>5
<1>11. ASSUME UpdateRoles(s)
       PROVE  q.id \in DOMAIN users /\ (q.user.super \/ Supers # {q.id})
  <2>1. PICK roles, super :
           LET user == [r.user EXCEPT !.roles = roles, !.super = super] IN
           /\ super \in BOOLEAN
           /\ r.self /\ r.user.super => super
           /\ SetSuper(r.super, r.user.super, super)
           /\ \/ q = [at |-> "putUser", scope |-> r.scope, id |-> r.id,
                      user |-> user, next |-> Idle]
              \/ q = [at |-> "merge", scope |-> r.scope, id |-> r.id,
                      user |-> user]
    <3>1. PICK roles, super :
             LET user == [r.user EXCEPT !.roles = roles, !.super = super] IN
             /\ super \in BOOLEAN
             /\ r.self /\ r.user.super => super
             /\ SetSuper(r.super, r.user.super, super)
             /\ \/ Goto(s, [at |-> "putUser", scope |-> r.scope, id |-> r.id,
                            user |-> user, next |-> Idle])
                \/ Goto(s, [at |-> "merge", scope |-> r.scope, id |-> r.id,
                            user |-> user])
      BY <1>11 DEF UpdateRoles
    <3>2. QED
      BY <1>0, <3>1
  <2> DEFINE user == [r.user EXCEPT !.roles = roles, !.super = super]
  <2>2. /\ r.user \in User /\ r.id \in DOMAIN users
        /\ r.super \in BOOLEAN /\ r.self \in BOOLEAN
        /\ r.user.super => r.id \in Supers
        /\ ~r.user.super => r.id \notin Supers
        /\ r.super /\ ~r.self => Supers # {r.id}
    BY <1>11, UserRequestShape DEF UpdateRoles, Backed, Holding
  <2>3. user.super = super
    BY <2>2 DEF User
  <2>4. ASSUME ~super PROVE Supers # {r.id}
    <3>1. r.user.super \in BOOLEAN
      BY <2>2 DEF User
    <3>2. CASE r.super
      <4>1. r.self => ~r.user.super
        BY <2>1, <2>4
      <4>2. QED
        BY <2>2, <3>2, <4>1
    <3>3. CASE ~r.super
      <4>1. ~r.user.super
        BY <2>1, <2>4, <3>1, <3>3 DEF SetSuper
      <4>2. QED
        BY <2>2, <4>1
    <3>4. QED
      BY <3>2, <3>3
  <2>5. q.id = r.id /\ q.user = user
    <3> HIDE DEF user
    <3>1. \/ q = [at |-> "putUser", scope |-> r.scope, id |-> r.id,
                  user |-> user, next |-> Idle]
          \/ q = [at |-> "merge", scope |-> r.scope, id |-> r.id,
                  user |-> user]
      BY <2>1 DEF user
    <3> QED BY <3>1
  <2>6. QED
    BY <2>2, <2>3, <2>4, <2>5
<1>12. ASSUME NEW user, NEW id \in DOMAIN users, user.super = users[id].super
       PROVE  user.super \/ Supers # {id}
  BY <1>1, <1>12
<1>13. ASSUME q.at = "putUser"
       PROVE  q.id \in DOMAIN users /\ (q.user.super \/ Supers # {q.id})
  <2>1. \/ FindUser(s) \/ UpdateRoles(s) \/ Merge(s) \/ Strip(s) \/ JoinPut(s)
        \/ SwitchRaw(s) \/ Me(s)
    BY <1>13, Origins
  <2>2. CASE FindUser(s)
    <3> DEFINE id == First(IdsOf(r.user.who))
               user == [users[id] EXCEPT !.roles = Join(@, r.user.roles),
                                         !.super = @ \/ r.user.super]
    <3>1. /\ IdsOf(r.user.who) # {}
          /\ q = [at |-> "putUser", scope |-> r.scope, id |-> id, user |-> user,
                  next |-> Idle]
      BY <1>0, <1>13, <2>2 DEF FindUser, Done, Idle
    <3>2. id \in DOMAIN users /\ users[id] \in User
      BY <1>3, <3>1
    <3> HIDE DEF id
    <3>3. user.super = (users[id].super \/ r.user.super)
      BY <3>2 DEF User
    <3> HIDE DEF user
    <3>4. q.id = id /\ q.user = user
      BY <3>1
    <3>5. QED
      BY <1>1, <3>2, <3>3, <3>4
  <2>3. CASE Merge(s)
    <3>1. PICK roles :
             q = [at |-> "putUser", scope |-> r.scope, id |-> r.id,
                  user |-> [r.user EXCEPT !.roles = roles], next |-> Idle]
      BY <1>0, <2>3 DEF Merge
    <3> DEFINE user == [r.user EXCEPT !.roles = roles]
    <3>2. /\ r.user \in User /\ r.id \in DOMAIN users
          /\ r.user.super \/ Supers # {r.id}
      BY <2>3, UserRequestShape DEF Merge, Backed
    <3>3. user.super = r.user.super
      BY <3>2 DEF User
    <3> HIDE DEF user
    <3>4. q.id = r.id /\ q.user = user
      BY <3>1 DEF user
    <3>5. QED
      BY <3>2, <3>3, <3>4
  <2>4. CASE Strip(s)
    <3>1. PICK id, scope, roles, next :
             /\ id \in DOMAIN users
             /\ q = [at |-> "putUser", scope |-> scope, id |-> id,
                     user |-> [users[id] EXCEPT !.roles = roles], next |-> next]
      BY <1>0, <2>4 DEF Strip
    <3> DEFINE user == [users[id] EXCEPT !.roles = roles]
    <3>2. user.super = users[id].super
      BY <1>1, <3>1 DEF User
    <3> HIDE DEF user
    <3>3. q.id = id /\ q.user = user
      BY <3>1 DEF user
    <3>4. QED
      BY <1>12, <3>1, <3>2, <3>3
  <2>5. CASE JoinPut(s)
    <3>1. /\ q = [at |-> "putUser", scope |-> r.scope, id |-> r.id,
                  user |-> r.user, next |-> Idle]
          /\ r.at = "joinPut"
      <4>1. /\ r.at = "joinPut"
            /\ \/ \E org : Goto(s, [at |-> "undoOrg", org |-> org])
               \/ Goto(s, [at |-> "putUser", scope |-> r.scope, id |-> r.id,
                           user |-> r.user, next |-> Idle])
        BY <2>5 DEF JoinPut
      <4>2. \A org : ~Goto(s, [at |-> "undoOrg", org |-> org])
        BY <1>0, <1>13
      <4>3. QED
        BY <1>0, <4>1, <4>2
    <3>2. q.id = r.id /\ q.user = r.user
      BY <3>1
    <3>3. QED
      BY <3>1, <3>2 DEF Backed, Holding
  <2>6. CASE SwitchRaw(s)
    <3> DEFINE id == First(IdsOf(r.who))
               user == [users[id] EXCEPT !.roles[r.org] = Append(@, r.role)]
    <3>1. /\ IdsOf(r.who) # {}
          /\ q = [at |-> "putUser", scope |-> Raw, id |-> id, user |-> user,
                  next |-> [at |-> "me", who |-> r.who]]
      BY <1>0, <1>13, <2>6 DEF SwitchRaw, Done, Idle
    <3>2. id \in DOMAIN users /\ users[id] \in User
      BY <1>3, <3>1
    <3> HIDE DEF id
    <3>3. user.super = users[id].super
      BY <3>2 DEF User
    <3> HIDE DEF user
    <3>4. q.id = id /\ q.user = user
      BY <3>1
    <3>5. QED
      BY <1>12, <3>2, <3>3, <3>4
  <2>7. CASE Me(s)
    <3> DEFINE id == First(IdsOf(r.who))
               user == [users[id] EXCEPT !.super = TRUE]
    <3>1. /\ IdsOf(r.who) # {}
          /\ q = [at |-> "putUser", scope |-> Raw, id |-> id, user |-> user,
                  next |-> Idle]
      BY <1>0, <1>13, <2>7 DEF Me, Done, Idle
    <3>2. id \in DOMAIN users /\ users[id] \in User
      BY <1>3, <3>1
    <3> HIDE DEF id
    <3>3. user.super = TRUE
      BY <3>2 DEF User
    <3> HIDE DEF user
    <3>4. q.id = id /\ q.user = user
      BY <3>1
    <3>5. QED
      BY <3>2, <3>3, <3>4
  <2>8. QED
    BY <1>11, <2>1, <2>2, <2>3, <2>4, <2>5, <2>6, <2>7
<1>14. q.at = "merge" => UpdateRoles(s)
  BY Origins
<1>15. CASE q.at \in {"idle", "me", "strip"}
  BY <1>15 DEF Backed, Holding
<1>16. CASE q.at \notin {"idle", "me", "strip"}
  <2>1. users' = users /\ Supers' = Supers
    BY <1>2, <1>16
  <2>2. QED
    BY <1>4, <1>5, <1>6, <1>7, <1>8, <1>9, <1>10, <1>11, <1>13, <1>14, <2>1
       DEF Backed, Holding
<1>17. QED
  BY <1>15, <1>16

\* The invariant of a request that runs alone.
LEMMA BackedHolds ==
    ASSUME NEW s, Slots = {s}
    PROVE  Spec => [](TypeOK /\ Backed(reqs[s]))
<1>1. Init => Backed(reqs[s])
  BY DEF Init, Idle, Backed, Holding
<1>2. ASSUME Inv, Backed(reqs[s]), [Next]_vars PROVE Backed(reqs[s])'
  <2>1. CASE UNCHANGED vars
    BY <1>2, <2>1 DEF vars, db, Backed, Supers
  <2>2. CASE Step(s)
    BY <1>2, <2>2, StepBacked DEF Inv
  <2>3. CASE Accept(s) \/ AcceptMe(s) \/ UpdateMe(s)
    <3>1. reqs'[s].at \in {"authUser", "me", "switch"}
      BY <1>2, <2>3, BeginSlot DEF Inv
    <3>2. QED
      BY <3>1 DEF Backed, Holding
  <2>4. CASE Crash
    BY <2>4 DEF Crash, Idle, Backed, Holding
  <2>5. QED
    BY <1>2, <2>1, <2>2, <2>3, <2>4 DEF Next
<1>3. Inv => TypeOK
  BY DEF Inv
<1>4. Inv /\ Backed(reqs[s]) /\ [Next]_vars => Backed(reqs[s])'
  BY <1>2
<1>5. QED
  BY <1>1, <1>3, <1>4, InvHolds, PTL DEF Spec

\* What one step does to the super admins.
LEMMA StepSupers ==
    ASSUME TypeOK, NEW s \in Slots, Step(s), Backed(reqs[s])
    PROVE  /\ Supers # {} /\ DOMAIN users \subseteq DOMAIN users' => Supers' # {}
           /\ DOMAIN users = {} /\ DOMAIN users' # {} => Supers' # {}
<1> DEFINE r == reqs[s]
<1>1. users' = users \/ AddUser(s) \/ PutUser(s) \/ RemoveUser(s)
  BY Origins
<1>2. CASE users' = users
  BY <1>2 DEF Supers
<1>3. CASE AddUser(s)
  <2>1. /\ users' = PutKey(users, userSeq + 1, r.user) /\ userSeq \in Nat
        /\ DOMAIN users # {} \/ r.user.super
    BY <1>3 DEF AddUser, TypeOK, Backed
  <2>2. userSeq + 1 \notin DOMAIN users
    BY <2>1 DEF TypeOK
  <2>3. \A i \in DOMAIN users : i \in DOMAIN users' /\ users'[i] = users[i]
    BY <2>1, <2>2 DEF PutKey
  <2>4. userSeq + 1 \in DOMAIN users' /\ users'[userSeq + 1] = r.user
    BY <2>1 DEF PutKey
  <2>5. QED
    BY <2>1, <2>3, <2>4 DEF Supers
<1>4. CASE PutUser(s)
  <2>1. /\ users' = PutKey(users, r.id, r.user) /\ r.id \in DOMAIN users
        /\ r.user.super \/ Supers # {r.id}
    BY <1>4 DEF PutUser, Backed, Holding
  <2>2. /\ DOMAIN users' = DOMAIN users /\ users'[r.id] = r.user
        /\ \A i \in DOMAIN users \ {r.id} : users'[i] = users[i]
    BY <2>1 DEF PutKey
  <2>3. QED
    BY <2>1, <2>2 DEF Supers
<1>5. CASE RemoveUser(s)
  <2>1. PICK id \in DOMAIN users : users' = DropKey(users, id)
    BY <1>5 DEF RemoveUser
  <2>2. DOMAIN users' = DOMAIN users \ {id}
    BY <2>1 DEF DropKey
  <2>3. QED
    BY <2>1, <2>2
<1>6. QED
  BY <1>1, <1>2, <1>3, <1>4, <1>5

\* Steps that are not of a request in progress leave the users alone.
LEMMA OtherSteps ==
    ASSUME TypeOK, NEW s, Slots = {s}, [Next]_vars
    PROVE  Step(s) \/ UNCHANGED <<orgs, users, mappings>>
<1>1. CASE UNCHANGED vars
  BY <1>1 DEF vars, db
<1>2. CASE Crash
  BY <1>2 DEF Crash, db
<1>3. CASE Accept(s) \/ AcceptMe(s) \/ UpdateMe(s)
  BY <1>3, BeginSlot DEF db
<1>4. QED
  BY <1>1, <1>2, <1>3 DEF Next

\* One request at a time, no update demotes the last super admin, from whatever
\* database the server starts (server/users.go, UpdateUser).
THEOREM UpdatesKeepSuper ==
    ASSUME NEW s, Slots = {s}
    PROVE  Spec => UpdateKeepsSuper
<1> DEFINE Keeps == Supers # {} /\ DOMAIN users \subseteq DOMAIN users'
                    => Supers' # {}
<1>1. ASSUME TypeOK, Backed(reqs[s]), [Next]_vars PROVE [Keeps]_vars
  <2>1. CASE Step(s)
    BY <1>1, <2>1, StepSupers
  <2>2. CASE UNCHANGED <<orgs, users, mappings>>
    BY <2>2 DEF Supers
  <2>3. QED
    BY <1>1, <2>1, <2>2, OtherSteps
<1>2. TypeOK /\ Backed(reqs[s]) /\ [Next]_vars => [Keeps]_vars
  BY <1>1
<1>3. QED
  BY <1>2, BackedHolds, PTL DEF Spec, UpdateKeepsSuper

\* One request at a time, the first user of a database without users is a super
\* admin, also when all others were removed (server/me.go, firstUser).
THEOREM FirstUserSuper ==
    ASSUME NEW s, Slots = {s}
    PROVE  Spec => FirstUserIsSuper
<1> DEFINE First1 == DOMAIN users = {} /\ DOMAIN users' # {} => Supers' # {}
<1>1. ASSUME TypeOK, Backed(reqs[s]), [Next]_vars PROVE [First1]_vars
  <2>1. CASE Step(s)
    BY <1>1, <2>1, StepSupers
  <2>2. CASE UNCHANGED <<orgs, users, mappings>>
    BY <2>2
  <2>3. QED
    BY <1>1, <2>1, <2>2, OtherSteps
<1>2. TypeOK /\ Backed(reqs[s]) /\ [Next]_vars => [First1]_vars
  BY <1>1
<1>3. QED
  BY <1>2, BackedHolds, PTL DEF Spec, FirstUserIsSuper

-----------------------------------------------------------------------------
(* One request at a time: roles. *)

\* Roles with one of the organizations only, and roles that differ from the
\* user's only there.
Within(roles, scope) == \A o \in OrgIds \ scope : roles[o] = <<>>
SameElsewhere(roles, id, scope) ==
    \A o \in OrgIds \ scope : roles[o] = users[id].roles[o]

\* What a request adds or writes is of the organizations its store shows.
Narrow(r) ==
    /\ r.at \in {"findUser", "merge"} => Within(r.user.roles, r.scope)
    /\ r.at \in {"joinPut", "putUser"} =>
          SameElsewhere(r.user.roles, r.id, r.scope)

\* What the facade's operators and the roles asked for are, one organization at
\* a time.
LEMMA RolesOfOrg ==
    ASSUME NEW o \in OrgIds
    PROVE  /\ NoRoles[o] = <<>>
           /\ \A org \in OrgIds : \A name :
                 Role(org, name)[o] = IF o = org THEN <<name>> ELSE <<>>
           /\ \A roles, scope :
                 Outside(roles, scope)[o] = IF o \in scope THEN <<>> ELSE roles[o]
           /\ \A roles \in RoleMap, more \in RoleMap :
                 /\ roles[o] = <<>> => Join(roles, more)[o] = more[o]
                 /\ more[o] = <<>> => Join(roles, more)[o] = roles[o]
<1>1. NoRoles[o] = <<>>
  BY DEF NoRoles
<1>2. ASSUME NEW org \in OrgIds, NEW name
      PROVE  Role(org, name)[o] = IF o = org THEN <<name>> ELSE <<>>
  BY DEF Role, NoRoles
<1>3. ASSUME NEW roles, NEW scope
      PROVE  Outside(roles, scope)[o] = IF o \in scope THEN <<>> ELSE roles[o]
  BY DEF Outside, Inside
<1>4. ASSUME NEW roles \in RoleMap, NEW more \in RoleMap
      PROVE  /\ roles[o] = <<>> => Join(roles, more)[o] = more[o]
             /\ more[o] = <<>> => Join(roles, more)[o] = roles[o]
  <2>1. /\ Join(roles, more)[o] = roles[o] \o more[o]
        /\ roles[o] \in Seq(Roles) /\ more[o] \in Seq(Roles)
    BY DEF Join, RoleMap
  <2> HIDE DEF Roles
  <2>2. \A x \in Seq(Roles) : x \o <<>> = x /\ <<>> \o x = x
    OBVIOUS
  <2>3. QED
    BY <2>1, <2>2
<1>5. QED
  BY <1>1, <1>2, <1>3, <1>4

\* A request asks for one role at most, with an organization that the store
\* shows.
LEMMA AskedRolesShape ==
    ASSUME TypeOK, NEW scope, NEW roles \in AskedRoles(scope)
    PROVE  \/ roles = NoRoles
           \/ \E o \in scope \cap DOMAIN orgs : \E name :
                 o \in OrgIds /\ roles = Role(o, name)
  BY DEF AskedRoles, TypeOK

\* A step of a request that runs alone does not take it out of its scope.
LEMMA StepNarrow ==
    ASSUME TypeOK, NEW s \in Slots, Step(s), Narrow(reqs[s])
    PROVE  Narrow(reqs[s])'
<1> DEFINE r == reqs[s]
           q == reqs'[s]
<1>1. q.at \in {"joinPut", "putUser"} => users' = users
  BY Origins
<1>2. \A i \in DOMAIN users : users[i] \in User /\ users[i].roles \in RoleMap
  BY DEF TypeOK, User
<1>3. ASSUME NEW scope, NEW roles \in AskedRoles(scope)
      PROVE  Within(roles, scope)
  <2>1. ASSUME NEW o \in OrgIds \ scope PROVE roles[o] = <<>>
    <3>1. CASE roles = NoRoles
      BY <3>1, RolesOfOrg
    <3>2. CASE \E p \in scope \cap DOMAIN orgs : \E name :
                  p \in OrgIds /\ roles = Role(p, name)
      <4>1. PICK p, name : p \in scope /\ p \in OrgIds /\ roles = Role(p, name)
        BY <3>2
      <4>2. QED
        BY <4>1 DEF Role, NoRoles
    <3>3. QED
      BY <3>1, <3>2, AskedRolesShape
  <2>2. QED
    BY <2>1 DEF Within
<1>4. \A roles : Within(roles, Raw)
  BY DEF Within, Raw
<1>5. q.at \in {"findUser", "merge"} => Within(q.user.roles, q.scope)
  BY <1>3, <1>4, RoleOrigins
<1>6. ASSUME q.at = "joinPut"
      PROVE  SameElsewhere(q.user.roles, q.id, q.scope)
  <2>1. /\ r.at = "joinFind" /\ q.scope = {r.org} /\ q.id \in DOMAIN users
        /\ q.user.roles = Join(users[q.id].roles, Role(r.org, "admin"))
    BY <1>6, RoleOrigins
  <2>2. r.org \in OrgIds /\ Role(r.org, "admin") \in RoleMap
    BY <2>1, OrgRequestShape, RolesType DEF Roles
  <2> HIDE DEF q, r
  <2>3. ASSUME NEW o \in OrgIds \ q.scope
        PROVE  q.user.roles[o] = users[q.id].roles[o]
    <3>1. Role(r.org, "admin")[o] = <<>>
      <4>1. o # r.org
        BY <2>1
      <4>2. QED
        BY <2>2, <4>1 DEF Role, NoRoles
    <3>2. QED
      BY <1>2, <2>1, <2>2, <3>1, RolesOfOrg
  <2>4. QED
    BY <2>3 DEF SameElsewhere
<1>7. ASSUME q.at = "putUser"
      PROVE  SameElsewhere(q.user.roles, q.id, q.scope)
  <2>1. PutFrom(r, q)
    BY <1>7, RoleOrigins
  <2>2. r.at \in {"findUser", "merge"} =>
           /\ r.user.roles \in RoleMap /\ r.scope \in Scope
           /\ Within(r.user.roles, r.scope)
    BY UserRequestShape DEF Narrow, User
  <2>3. r.at = "joinPut" => SameElsewhere(r.user.roles, r.id, r.scope)
    BY DEF Narrow
  <2> HIDE DEF q, r
  <2>4. CASE q.scope = Raw
    BY <2>4 DEF SameElsewhere, Raw
  <2>5. CASE r.at = "joinPut"
    BY <2>1, <2>3, <2>5 DEF PutFrom
  <2>6. ASSUME q.scope # Raw, r.at # "joinPut", NEW o \in OrgIds \ q.scope
        PROVE  q.user.roles[o] = users[q.id].roles[o]
    <3> DEFINE old == users[q.id].roles
    <3>1. q.id \in DOMAIN users /\ old \in RoleMap
      BY <1>2, <2>1, <2>6 DEF PutFrom
    <3>2. CASE r.at = "findUser"
      <4>1. q.user.roles = Join(old, r.user.roles) /\ r.user.roles[o] = <<>>
        BY <2>1, <2>2, <2>6, <3>2 DEF PutFrom, Within
      <4>2. QED
        BY <2>2, <3>1, <3>2, <4>1, RolesOfOrg
    <3>3. CASE r.at = "merge"
      <4>1. /\ q.user.roles = Join(Outside(old, r.scope), r.user.roles)
            /\ r.user.roles[o] = <<>> /\ o \notin r.scope
        BY <2>1, <2>2, <2>6, <3>3 DEF PutFrom, Within
      <4>2. Outside(old, r.scope) \in RoleMap
        BY <2>2, <3>1, <3>3, RolesType
      <4>3. q.user.roles[o] = Outside(old, r.scope)[o]
        BY <2>2, <3>3, <4>1, <4>2, RolesOfOrg
      <4>4. QED
        BY <4>1, <4>3, RolesOfOrg
    <3>4. CASE r.at = "strip"
      <4>1. q.user.roles = Outside(old, q.scope) /\ o \notin q.scope
        BY <2>1, <2>6, <3>4 DEF PutFrom
      <4>2. QED
        BY <4>1, RolesOfOrg
    <3>5. QED
      BY <2>1, <2>6, <3>2, <3>3, <3>4 DEF PutFrom
  <2>7. QED
    BY <2>4, <2>5, <2>6 DEF SameElsewhere
<1>8. QED
  BY <1>1, <1>5, <1>6, <1>7 DEF Narrow, SameElsewhere

\* The invariant of a request that runs alone.
LEMMA NarrowHolds ==
    ASSUME NEW s, Slots = {s}
    PROVE  Spec => []Narrow(reqs[s])
<1>1. Init => Narrow(reqs[s])
  BY DEF Init, Idle, Narrow
<1>2. ASSUME Inv, Narrow(reqs[s]), [Next]_vars PROVE Narrow(reqs[s])'
  <2>1. CASE UNCHANGED vars
    BY <1>2, <2>1 DEF vars, db, Narrow, SameElsewhere
  <2>2. CASE Step(s)
    BY <1>2, <2>2, StepNarrow DEF Inv
  <2>3. CASE Accept(s) \/ AcceptMe(s) \/ UpdateMe(s)
    <3>1. reqs'[s].at \in {"authUser", "me", "switch"}
      BY <1>2, <2>3, BeginSlot DEF Inv
    <3>2. QED
      BY <3>1 DEF Narrow
  <2>4. CASE Crash
    BY <2>4 DEF Crash, Idle, Narrow
  <2>5. QED
    BY <1>2, <2>1, <2>2, <2>3, <2>4 DEF Next
<1>3. Inv /\ Narrow(reqs[s]) /\ [Next]_vars => Narrow(reqs[s])'
  BY <1>2
<1>4. QED
  BY <1>1, <1>3, InvHolds, PTL DEF Spec

\* What ScopedWrites says of one step.
ScopedStep ==
    \A s \in Slots :
       reqs[s].at = "putUser" /\ reqs[s] # reqs'[s]
       /\ reqs[s].id \in DOMAIN users \cap DOMAIN users' =>
          Outside(users[reqs[s].id].roles, reqs[s].scope)
          = Outside(users'[reqs[s].id].roles, reqs[s].scope)

\* One request at a time, a Put made for one organization leaves the roles with
\* all others as they are, from whatever database the server starts
\* (organizations/users.go, Add, Delete and Update).
THEOREM WritesAreScoped ==
    ASSUME NEW s, Slots = {s}
    PROVE  Spec => ScopedWrites
<1>1. ASSUME TypeOK, Narrow(reqs[s]), [Next]_vars PROVE [ScopedStep]_vars
  <2> DEFINE r == reqs[s]
  <2>1. CASE users' = users
    BY <2>1 DEF ScopedStep
  <2>2. CASE Step(s) /\ users' # users
    <3>1. SUFFICES ASSUME r.at = "putUser"
                   PROVE  Outside(users[r.id].roles, r.scope)
                          = Outside(users'[r.id].roles, r.scope)
      BY <1>1 DEF ScopedStep
    <3>2. PutUser(s)
      BY <1>1, <2>2, <3>1, Origins DEF AddUser, RemoveUser
    <3>3. users'[r.id] = r.user
      BY <3>2 DEF PutUser, PutKey
    <3>4. \A o \in OrgIds \ r.scope : r.user.roles[o] = users[r.id].roles[o]
      BY <1>1, <3>1 DEF Narrow, SameElsewhere
    <3>5. QED
      BY <3>3, <3>4 DEF Outside, Inside
  <2>3. QED
    BY <1>1, <2>1, <2>2, OtherSteps
<1>2. TypeOK /\ Narrow(reqs[s]) /\ [Next]_vars => [ScopedStep]_vars
  BY <1>1
<1>3. QED
  BY <1>2, NarrowHolds, TypeCorrect, PTL DEF Spec, ScopedWrites, ScopedStep

\* Nobody is about to get a second role.
AtMostOne(roles) == \A o \in OrgIds : Len(roles[o]) <= 1
Single(r) ==
    /\ r.at \in {"findUser", "addUser", "merge", "joinPut", "putUser"} =>
          AtMostOne(r.user.roles)
    /\ r.at = "meRoles" => AtMostOne(r.roles)
    /\ r.at = "switchRaw" /\ IdsOf(r.who) # {} =>
          users[First(IdsOf(r.who))].roles[r.org] = <<>>

\* After a step a user is as before, or as the request has made it.
LEMMA UsersAfter ==
    ASSUME TypeOK, NEW s \in Slots, Step(s), NEW i \in DOMAIN users'
    PROVE  \/ i \in DOMAIN users /\ users'[i] = users[i]
           \/ AddUser(s) /\ i = userSeq + 1 /\ users'[i] = reqs[s].user
           \/ PutUser(s) /\ i = reqs[s].id /\ users'[i] = reqs[s].user
<1>1. CASE users' = users
  BY <1>1
<1>2. CASE AddUser(s)
  BY <1>2 DEF AddUser, PutKey
<1>3. CASE PutUser(s)
  BY <1>3 DEF PutUser, PutKey
<1>4. CASE RemoveUser(s)
  BY <1>4 DEF RemoveUser, DropKey
<1>5. QED
  BY <1>1, <1>2, <1>3, <1>4, Origins

\* Roles joined where one side has none are no more than before.
LEMMA JoinOne ==
    ASSUME NEW roles \in RoleMap, NEW more \in RoleMap,
           AtMostOne(roles), AtMostOne(more),
           \A o \in OrgIds : roles[o] = <<>> \/ more[o] = <<>>
    PROVE  AtMostOne(Join(roles, more))
<1>1. ASSUME NEW o \in OrgIds PROVE Len(Join(roles, more)[o]) <= 1
  BY RolesOfOrg DEF AtMostOne
<1>2. QED
  BY <1>1 DEF AtMostOne

\* One role is one role.
With(roles, org, x) == [roles EXCEPT ![org] = x]
LEMMA OneOfOrg ==
    /\ AtMostOne(NoRoles)
    /\ \A org \in OrgIds : \A name : AtMostOne(Role(org, name))
    /\ \A roles \in RoleMap : \A org, name :
          AtMostOne(roles) => /\ AtMostOne(With(roles, org, <<name>>))
                              /\ AtMostOne(With(roles, org, <<>>))
<1>0. Len(<<>>) = 0 /\ \A name : Len(<<name>>) = 1
  OBVIOUS
<1>1. AtMostOne(NoRoles)
  BY <1>0 DEF AtMostOne, NoRoles
<1>2. ASSUME NEW org \in OrgIds, NEW name PROVE AtMostOne(Role(org, name))
  BY <1>0 DEF AtMostOne, Role, NoRoles
<1>3. ASSUME NEW roles \in RoleMap, NEW org, NEW x, Len(x) <= 1,
             AtMostOne(roles)
      PROVE  AtMostOne(With(roles, org, x))
  BY <1>3 DEF AtMostOne, With, RoleMap
<1>4. ASSUME NEW roles \in RoleMap, NEW org, NEW name, AtMostOne(roles)
      PROVE  /\ AtMostOne(With(roles, org, <<name>>))
             /\ AtMostOne(With(roles, org, <<>>))
  <2>1. Len(<<>>) <= 1 /\ Len(<<name>>) <= 1
    BY <1>0
  <2>2. QED
    BY <1>3, <1>4, <2>1
<1>5. QED
  BY <1>1, <1>2, <1>4

\* A step of a request that runs alone gives nobody a second role.
LEMMA StepSingle ==
    ASSUME TypeOK, NEW s \in Slots, Step(s),
           OneRolePerOrg, Narrow(reqs[s]), Single(reqs[s])
    PROVE  OneRolePerOrg' /\ Single(reqs[s])'
<1> DEFINE r == reqs[s]
           q == reqs'[s]
<1>1. q.at \notin {"idle", "me", "strip"} => users' = users
  BY Origins
<1>2. \A i \in DOMAIN users : /\ users[i].roles \in RoleMap
                              /\ AtMostOne(users[i].roles)
  BY DEF TypeOK, User, OneRolePerOrg, AtMostOne
<1>3. r.at \in {"findUser", "merge", "addUser", "joinPut", "putUser"} =>
         r.user.roles \in RoleMap /\ AtMostOne(r.user.roles)
  BY UserRequestShape DEF User, Single
<1>4. r.at \in {"findUser", "merge"} =>
         r.scope \in Scope /\ Within(r.user.roles, r.scope)
  BY UserRequestShape DEF Narrow
<1>5. r.at = "meRoles" => r.roles \in RoleMap /\ AtMostOne(r.roles)
  BY MeRequestShape DEF Single
<1>6. ASSUME NEW scope, NEW roles \in AskedRoles(scope) PROVE AtMostOne(roles)
  BY AskedRolesShape, OneOfOrg
<1>7. OneRolePerOrg'
  <2>1. ASSUME NEW i \in DOMAIN users' PROVE AtMostOne(users'[i].roles)
    BY <1>2, <1>3, UsersAfter DEF AddUser, PutUser
  <2>2. QED
    BY <2>1 DEF OneRolePerOrg, AtMostOne
<1>8. q.at = "findUser" => AtMostOne(q.user.roles)
  <2>1. \/ q.user.roles \in AskedRoles(r.scope)
        \/ /\ r.at = "meRoles"
           /\ q.user.roles \in {r.roles,
                                With(r.roles, DefaultOrg, <<r.role>>)}
        \/ q.at # "findUser"
    BY RoleOrigins DEF With
  <2>2. QED
    BY <1>5, <1>6, <2>1, OneOfOrg
<1>9. q.at = "addUser" => AtMostOne(q.user.roles)
  <2>1. \/ r.at = "findUser" /\ q.user = r.user
        \/ r.at = "joinAdd" /\ q.user.roles = Role(r.org, "admin")
        \/ q.at # "addUser"
    BY RoleOrigins
  <2>2. r.at = "joinAdd" => r.org \in OrgIds
    BY OrgRequestShape
  <2>3. QED
    BY <1>3, <2>1, <2>2, OneOfOrg
<1>10. q.at = "merge" => AtMostOne(q.user.roles)
  BY <1>6, RoleOrigins
<1>11. ASSUME q.at = "joinPut" PROVE AtMostOne(q.user.roles)
  <2> DEFINE old == users[q.id].roles
             new == Role(r.org, "admin")
  <2>1. /\ r.at = "joinFind" /\ q.id \in DOMAIN users /\ old[r.org] = <<>>
        /\ q.user.roles = Join(old, new)
    BY <1>11, RoleOrigins
  <2>2. r.org \in OrgIds /\ new \in RoleMap /\ AtMostOne(new)
    BY <2>1, OrgRequestShape, RolesType, OneOfOrg DEF Roles
  <2>3. old \in RoleMap /\ AtMostOne(old)
    BY <1>2, <2>1
  <2> HIDE DEF old
  <2>4. \A o \in OrgIds : old[o] = <<>> \/ new[o] = <<>>
    BY <2>1, <2>2 DEF Role, NoRoles
  <2> HIDE DEF new
  <2>5. QED
    BY <2>1, <2>2, <2>3, <2>4, JoinOne
<1>12. ASSUME q.at = "putUser" PROVE AtMostOne(q.user.roles)
  <2> DEFINE old == users[q.id].roles
  <2>1. PutFrom(r, q)
    BY <1>12, RoleOrigins
  <2>2. r.at = "switchRaw" => /\ r.org \in OrgIds
                              /\ users[First(IdsOf(r.who))].roles[r.org] = <<>>
                              \/ IdsOf(r.who) = {}
    BY MeRequestShape DEF Single
  <2> HIDE DEF q, r
  <2>3. q.id \in DOMAIN users => old \in RoleMap /\ AtMostOne(old)
    BY <1>2
  <2>4. CASE r.at = "findUser"
    <3>1. /\ q.id \in DOMAIN users \ Visible(r.scope) /\ r.scope # Raw
          /\ q.user.roles = Join(old, r.user.roles)
      BY <2>1, <2>4 DEF PutFrom
    <3>2. Inside(old, r.scope) = NoRoles
      BY <3>1 DEF Visible
    <3>3. ASSUME NEW o \in OrgIds PROVE old[o] = <<>> \/ r.user.roles[o] = <<>>
      <4>1. CASE o \in r.scope
        <5>1. Inside(old, r.scope)[o] = old[o] /\ NoRoles[o] = <<>>
          BY <4>1 DEF Inside, NoRoles
        <5>2. QED
          BY <3>2, <5>1
      <4>2. CASE o \notin r.scope
        BY <1>4, <2>4, <4>2 DEF Within
      <4>3. QED
        BY <4>1, <4>2
    <3> HIDE DEF old
    <3>4. QED
      BY <1>3, <2>3, <2>4, <3>1, <3>3, JoinOne
  <2>5. CASE r.at = "updateRoles"
    BY <1>6, <2>1, <2>5 DEF PutFrom
  <2>6. CASE r.at = "merge"
    <3> DEFINE others == Outside(old, r.scope)
    <3>1. q.id \in DOMAIN users /\ q.user.roles = Join(others, r.user.roles)
      BY <2>1, <2>6 DEF PutFrom
    <3>2. others \in RoleMap
      BY <1>4, <2>3, <2>6, <3>1, RolesType
    <3>3. \A o \in OrgIds : others[o] = IF o \in r.scope THEN <<>> ELSE old[o]
      BY RolesOfOrg
    <3>4. AtMostOne(others)
      BY <2>3, <3>1, <3>3 DEF AtMostOne
    <3>5. \A o \in OrgIds : others[o] = <<>> \/ r.user.roles[o] = <<>>
      BY <1>4, <2>6, <3>3 DEF Within
    <3> HIDE DEF others
    <3>6. QED
      BY <1>3, <2>6, <3>1, <3>2, <3>4, <3>5, JoinOne
  <2>7. CASE r.at = "joinPut"
    BY <1>3, <2>1, <2>7 DEF PutFrom
  <2>8. CASE r.at = "strip"
    <3>1. q.id \in DOMAIN users /\ q.user.roles = Outside(old, {r.org})
      BY <2>1, <2>8 DEF PutFrom
    <3>2. \A o \in OrgIds : q.user.roles[o] \in {<<>>, old[o]}
      BY <3>1, RolesOfOrg
    <3>3. Len(<<>>) = 0
      OBVIOUS
    <3>4. \A o \in OrgIds : Len(old[o]) <= 1
      BY <2>3, <3>1 DEF AtMostOne
    <3> HIDE DEF old
    <3>5. \A o \in OrgIds : Len(q.user.roles[o]) <= 1
      BY <3>2, <3>3, <3>4
    <3>6. QED
      BY <3>5 DEF AtMostOne
  <2>9. CASE r.at = "switchRaw"
    <3>1. /\ q.id \in DOMAIN users /\ old[r.org] = <<>>
          /\ q.user.roles = [old EXCEPT ![r.org] = Append(old[r.org], r.role)]
      BY <2>1, <2>2, <2>9 DEF PutFrom
    <3>2. Append(<<>>, r.role) = <<r.role>>
      OBVIOUS
    <3>3. q.user.roles = With(old, r.org, <<r.role>>)
      BY <3>1, <3>2 DEF With
    <3> HIDE DEF old
    <3>4. QED
      BY <2>3, <3>1, <3>3, OneOfOrg
  <2>10. CASE r.at = "me"
    BY <2>1, <2>3, <2>10 DEF PutFrom
  <2>11. QED
    BY <2>1, <2>4, <2>5, <2>6, <2>7, <2>8, <2>9, <2>10 DEF PutFrom
<1>13. ASSUME q.at = "meRoles" PROVE AtMostOne(q.roles)
  <2>1. \/ q.roles = NoRoles
        \/ /\ r.at = "meRoles"
           /\ \E o, name : q.roles \in {With(r.roles, o, <<name>>),
                                        With(r.roles, o, <<>>)}
    <3>1. CASE r.at = "meMappings"
      BY <1>13, <3>1, RoleOrigins
    <3>2. CASE r.at # "meMappings"
      <4>1. PICK o \in r.todo :
               q.roles = [r.roles EXCEPT ![o] = IF o \in DOMAIN orgs
                                                THEN <<orgs[o].role>> ELSE <<>>]
        BY <1>13, <3>2, RoleOrigins
      <4>2. q.roles \in {With(r.roles, o, <<orgs[o].role>>),
                         With(r.roles, o, <<>>)}
        BY <4>1 DEF With
      <4>3. QED
        BY <1>13, <3>2, <4>2, RoleOrigins
    <3>3. QED
      BY <3>1, <3>2
  <2>2. QED
    BY <1>5, <2>1, OneOfOrg
<1>14. ASSUME q.at = "switchRaw", IdsOf(q.who) # {}
       PROVE  users[First(IdsOf(q.who))].roles[q.org] = <<>>
  <2> DEFINE id == First(IdsOf(q.who))
  <2>1. /\ r.at = "switch" /\ q.org = r.org
        /\ id \notin Visible({r.org})
    BY <1>14, RoleOrigins
  <2>2. id \in DOMAIN users /\ q.org \in OrgIds
    BY <1>14, <2>1, FoundType, MeRequestShape
  <2>3. {q.org} # Raw
    <3>1. 0 \in OrgIds /\ 1 \in OrgIds
      BY AccountsAssumption DEF OrgIds
    <3>2. QED
      BY <3>1 DEF Raw
  <2> HIDE DEF id, q, r
  <2>4. Inside(users[id].roles, {q.org}) = NoRoles
    BY <2>1, <2>2, <2>3 DEF Visible
  <2>5. Inside(users[id].roles, {q.org})[q.org] = users[id].roles[q.org]
        /\ NoRoles[q.org] = <<>>
    BY <2>2 DEF Inside, NoRoles
  <2>6. QED
    BY <2>4, <2>5 DEF id
<1>15. Single(reqs[s])'
  <2>1. CASE q.at \in {"idle", "me", "strip"}
    BY <2>1 DEF Single
  <2>2. CASE users' = users
    BY <1>8, <1>9, <1>10, <1>11, <1>12, <1>13, <1>14, <2>2 DEF Single, IdsOf
  <2>3. QED
    BY <1>1, <2>1, <2>2
<1>16. QED
  BY <1>7, <1>15

\* One request at a time, nobody is given two roles with one organization, on
\* which AuthorizedUser relies, if nobody had two at the start (server/auth.go,
\* hasAuthorizedRole; organizations/users.go, Add).
THEOREM OneRoleEach ==
    ASSUME NEW s, Slots = {s},
           \A i \in DOMAIN StartUsers : AtMostOne(StartUsers[i].roles)
    PROVE  Spec => []OneRolePerOrg
<1> DEFINE Ones == OneRolePerOrg /\ Single(reqs[s])
<1>1. Init => Ones
  BY DEF Init, Idle, Single, OneRolePerOrg, AtMostOne
<1>2. ASSUME Inv, Narrow(reqs[s]), Ones, [Next]_vars PROVE Ones'
  <2>1. CASE UNCHANGED vars
    BY <1>2, <2>1 DEF vars, db, OneRolePerOrg, Single, IdsOf
  <2>2. CASE Step(s)
    BY <1>2, <2>2, StepSingle DEF Inv
  <2>3. CASE Accept(s) \/ AcceptMe(s) \/ UpdateMe(s)
    <3>1. reqs'[s].at \in {"authUser", "me", "switch"} /\ UNCHANGED db
      BY <1>2, <2>3, BeginSlot DEF Inv
    <3>2. QED
      BY <1>2, <3>1 DEF Single, OneRolePerOrg, db
  <2>4. CASE Crash
    BY <1>2, <2>4 DEF Crash, Idle, Single, OneRolePerOrg, db
  <2>5. QED
    BY <1>2, <2>1, <2>2, <2>3, <2>4 DEF Next
<1>3. Inv /\ Narrow(reqs[s]) /\ Ones /\ [Next]_vars => Ones'
  BY <1>2
<1>4. QED
  BY <1>1, <1>3, InvHolds, NarrowHolds, PTL DEF Spec

-----------------------------------------------------------------------------
(* One request at a time: keys. *)

UniqueUsers ==
    \A i, j \in DOMAIN users : users[i].who = users[j].who => i = j
UniqueOrgs ==
    \A o, p \in DOMAIN orgs : orgs[o].name = orgs[p].name => o = p

\* A key that a request has found to be free still is.
Free(r) ==
    /\ r.at = "addUser" => IdsOf(r.user.who) = {}
    /\ r.at = "addOrg" => NameIsUnique(r.new.name)
    /\ r.at = "putOrg" =>
          \A o \in DOMAIN orgs \ {r.id} : orgs[o].name # r.new.name

\* A step of a request that runs alone takes no key that is in use.
LEMMA StepFree ==
    ASSUME TypeOK, OwnersInv, UniqueUsers, UniqueOrgs, NEW s \in Slots, Step(s),
           Backed(reqs[s]), Free(reqs[s])
    PROVE  UniqueUsers' /\ UniqueOrgs' /\ Free(reqs[s])'
<1> DEFINE r == reqs[s]
           q == reqs'[s]
<1>0. \A x : Goto(s, x) => q = x
  BY GotoSlot
<1>1. Done(s) => q.at = "idle"
  BY <1>0 DEF Done, Idle
<1>2. UniqueUsers'
  <2>1. CASE PutUser(s)
    <3>1. r.id \in DOMAIN users /\ r.user.who = users[r.id].who
      BY <2>1 DEF PutUser, Backed, OwnersInv, Owned, Holds, Holding
    <3>2. /\ DOMAIN users' = DOMAIN users
          /\ \A i \in DOMAIN users : users'[i].who = users[i].who
      BY <2>1, <3>1 DEF PutUser, PutKey
    <3>3. QED
      BY <3>2 DEF UniqueUsers
  <2>2. CASE AddUser(s)
    <3>1. \A i \in DOMAIN users : users[i].who # r.user.who
      BY <2>2 DEF AddUser, Free, IdsOf
    <3>2. \A i \in DOMAIN users' : \/ i \in DOMAIN users /\ users'[i] = users[i]
                                   \/ i = userSeq + 1 /\ users'[i] = r.user
      BY <2>2, UsersAfter DEF AddUser, PutUser
    <3>3. QED
      BY <3>1, <3>2 DEF UniqueUsers
  <2>3. CASE ~PutUser(s) /\ ~AddUser(s)
    <3>1. \A i \in DOMAIN users' : i \in DOMAIN users /\ users'[i] = users[i]
      BY <2>3, UsersAfter
    <3>2. QED
      BY <3>1 DEF UniqueUsers
  <2>4. QED
    BY <2>1, <2>2, <2>3
<1>3. UniqueOrgs'
  <2>1. ASSUME NEW id, NEW new, orgs' = PutKey(orgs, id, new),
               \A o \in DOMAIN orgs \ {id} : orgs[o].name # new.name
        PROVE  UniqueOrgs'
    <3>1. \A o \in DOMAIN orgs' : \/ o \in DOMAIN orgs \ {id}
                                     /\ orgs'[o] = orgs[o]
                                  \/ o = id /\ orgs'[o] = new
      BY <2>1 DEF PutKey
    <3>2. QED
      BY <2>1, <3>1 DEF UniqueOrgs
  <2>2. CASE AddOrg(s)
    BY <2>1, <2>2 DEF AddOrg, Free, NameIsUnique
  <2>3. CASE PutOrg(s)
    BY <2>1, <2>3 DEF PutOrg, Free
  <2>4. CASE DropOrg(s)
    <3>1. \A o \in DOMAIN orgs' : o \in DOMAIN orgs /\ orgs'[o] = orgs[o]
      BY <2>4 DEF DropOrg, DropKey
    <3>2. QED
      BY <3>1 DEF UniqueOrgs
  <2>5. CASE orgs' = orgs
    BY <2>5 DEF UniqueOrgs
  <2>6. QED
    BY <2>2, <2>3, <2>4, <2>5, Origins
<1>4. ASSUME q.at = "addUser" PROVE IdsOf(q.user.who) = {} /\ users' = users
  BY <1>4, RoleOrigins, Origins
<1>5. ASSUME q.at = "addOrg" PROVE NameIsUnique(q.new.name) /\ orgs' = orgs
  <2>1. NewOrganization(s) /\ orgs' = orgs
    BY <1>5, Origins
  <2>2. PICK name, role :
           /\ NameIsUnique(name)
           /\ Goto(s, [at |-> "addOrg", who |-> r.who,
                       new |-> [name |-> name, role |-> role]])
    BY <2>1 DEF NewOrganization
  <2>3. q = [at |-> "addOrg", who |-> r.who,
             new |-> [name |-> name, role |-> role]]
    BY <1>0, <2>2
  <2>4. q.new.name = name
    BY <2>3
  <2>5. QED
    BY <2>1, <2>2, <2>4
<1>6. ASSUME q.at = "putOrg"
      PROVE  /\ \A o \in DOMAIN orgs \ {q.id} : orgs[o].name # q.new.name
             /\ orgs' = orgs
  <2>1. (CheckOrg(s) \/ UniqueOrg(s)) /\ orgs' = orgs
    BY <1>6, Origins
  <2>2. /\ r.at \in {"checkOrg", "uniqueOrg"}
        /\ \/ NameIsUnique(r.new.name)
           \/ r.id \in DOMAIN orgs /\ r.new.name = orgs[r.id].name
        /\ Goto(s, [r EXCEPT !.at = "putOrg"])
    <3>1. r.at \in {"checkOrg", "uniqueOrg"}
      BY <2>1 DEF CheckOrg, UniqueOrg
    <3>2. [r EXCEPT !.at = "uniqueOrg"].at = "uniqueOrg"
      BY <3>1, OrgRequestShape
    <3>3. ~Goto(s, [r EXCEPT !.at = "uniqueOrg"]) /\ ~Done(s)
      BY <1>0, <1>1, <1>6, <3>2
    <3>4. QED
      BY <2>1, <3>1, <3>3 DEF CheckOrg, UniqueOrg
  <2>3. q = [r EXCEPT !.at = "putOrg"]
    BY <1>0, <2>2
  <2>4. q.id = r.id /\ q.new = r.new
    BY <2>2, <2>3, OrgRequestShape
  <2>5. QED
    BY <2>1, <2>2, <2>4 DEF NameIsUnique, UniqueOrgs
<1>7. Free(reqs[s])'
  BY <1>4, <1>5, <1>6 DEF Free, IdsOf, NameIsUnique
<1>8. QED
  BY <1>2, <1>3, <1>7

\* One request at a time, no two users are one person and no two organizations
\* have one name, if none had at the start (chronograf.go, UsersStore;
\* bolt/organizations.go, nameIsUnique).
THEOREM KeysAreUnique ==
    ASSUME NEW s, Slots = {s},
           \A i, j \in DOMAIN StartUsers :
              StartUsers[i].who = StartUsers[j].who => i = j,
           \A i, j \in DOMAIN StartOrgs :
              StartOrgs[i].name = StartOrgs[j].name => i = j
    PROVE  Spec => []UniqueKeys
<1> DEFINE Keys == UniqueUsers /\ UniqueOrgs /\ Free(reqs[s])
<1>1. ASSUME Init PROVE Keys
  <2>1. UniqueUsers
    BY <1>1 DEF Init, UniqueUsers
  <2>2. Free(reqs[s])
    BY <1>1 DEF Init, Idle, Free
  <2>3. UniqueOrgs
    <3>1. /\ StartOrgs \in Seq(Org) /\ orgSeq = Len(StartOrgs) - 1
          /\ orgs = [o \in 0..orgSeq |-> StartOrgs[o + 1]]
      BY <1>1, AccountsAssumption DEF Init
    <3>2. \A o \in DOMAIN orgs : /\ o \in Nat /\ o + 1 \in DOMAIN StartOrgs
                                 /\ orgs[o] = StartOrgs[o + 1]
      BY <3>1
    <3>3. ASSUME NEW o \in DOMAIN orgs, NEW p \in DOMAIN orgs,
                 orgs[o].name = orgs[p].name
          PROVE  o = p
      <4>1. o + 1 = p + 1 /\ o \in Nat /\ p \in Nat
        BY <3>2, <3>3
      <4>2. QED
        BY <4>1
    <3>4. QED
      BY <3>3 DEF UniqueOrgs
  <2>4. QED
    BY <2>1, <2>2, <2>3
<1>2. ASSUME Inv, Backed(reqs[s]), Keys, [Next]_vars PROVE Keys'
  <2>1. CASE UNCHANGED vars
    BY <1>2, <2>1 DEF vars, db, UniqueUsers, UniqueOrgs, Free, IdsOf,
       NameIsUnique
  <2>2. CASE Step(s)
    BY <1>2, <2>2, StepFree DEF Inv
  <2>3. CASE Accept(s) \/ AcceptMe(s) \/ UpdateMe(s)
    <3>1. reqs'[s].at \in {"authUser", "me", "switch"} /\ UNCHANGED db
      BY <1>2, <2>3, BeginSlot DEF Inv
    <3>2. QED
      BY <1>2, <3>1 DEF Free, UniqueUsers, UniqueOrgs, db
  <2>4. CASE Crash
    BY <1>2, <2>4 DEF Crash, Idle, Free, UniqueUsers, UniqueOrgs, db
  <2>5. QED
    BY <1>2, <2>1, <2>2, <2>3, <2>4 DEF Next
<1>3. /\ Init => Keys
      /\ Inv /\ TypeOK /\ Backed(reqs[s]) /\ Keys /\ [Next]_vars => Keys'
      /\ Keys => UniqueKeys
  BY <1>1, <1>2 DEF UniqueKeys, UniqueUsers, UniqueOrgs
<1>4. QED
  BY <1>3, InvHolds, BackedHolds, PTL DEF Spec

-----------------------------------------------------------------------------
(* One request at a time: what a deleted organization leaves. *)

\* Roles with organizations that exist.
Live(roles) == \A o \in OrgIds : roles[o] # <<>> => o \in DOMAIN orgs

\* What a request holds is of organizations that exist, and what it has still
\* to remove is there.
Grounded(r) ==
    /\ r.at \in {"findUser", "addUser", "merge", "joinPut", "putUser"} =>
          Live(r.user.roles)
    /\ r.at = "meRoles" => Live(r.roles)
    /\ r.at \in {"joinFind", "joinAdd", "switch", "switchRaw"} =>
          r.org \in DOMAIN orgs
    /\ r.at \in {"addMapping", "putMapping"} => r.mapping.org \in DOMAIN orgs
    /\ r.at = "strip" /\ r.cascade => r.todo \subseteq DOMAIN users
    /\ r.at = "putUser" /\ r.next.at = "strip" =>
          r.next.cascade /\ r.next.todo \subseteq DOMAIN users
    /\ r.at = "dropMappings" => r.todo \subseteq DOMAIN mappings

\* The organization whose roles and mappings a cascade is removing, the users
\* it has not come to, and the mappings.
Gone(r, o) ==
    \/ r.at = "listUsers" /\ o = r.org
    \/ r.at = "strip" /\ r.cascade /\ o = r.org
    \/ r.at = "putUser" /\ r.next.at = "strip" /\ o = r.next.org
ToStrip(r, i) ==
    \/ r.at = "listUsers"
    \/ r.at = "strip" /\ i \in r.todo
    \/ r.at = "putUser" /\ (i = r.id \/ i \in r.next.todo)
ToDrop(r, m) ==
    \/ Gone(r, mappings[m].org)
    \/ r.at = "dropMappings" /\ m \in r.todo

LeftState(s) ==
    /\ Grounded(reqs[s])
    /\ \A i \in DOMAIN users, o \in OrgIds :
          users[i].roles[o] # <<>> =>
             o \in DOMAIN orgs \/ (Gone(reqs[s], o) /\ ToStrip(reqs[s], i))
    /\ \A m \in DOMAIN mappings :
          mappings[m].org \in DOMAIN orgs \/ ToDrop(reqs[s], m)

\* Which steps the requests of a cascade take.
LEMMA CascadeSteps ==
    ASSUME NEW s \in Slots, Step(s)
    PROVE  /\ reqs[s].at = "listUsers" => ListUsers(s)
           /\ reqs[s].at = "strip" => Strip(s) \/ StripMissing(s) \/ AllStripped(s)
           /\ reqs[s].at = "putUser" => PutUser(s)
           /\ reqs[s].at = "dropMappings" => DropMapping(s) \/ DropMappingEnd(s)
<1> DEFINE at == reqs[s].at
           Cascading == {"listUsers", "strip", "putUser", "dropMappings"}
<1>1. CASE \/ AuthUser(s) \/ AuthRole(s) \/ AuthRefuse(s) \/ NewUser(s)
           \/ NewUserRoles(s) \/ FindUser(s) \/ AddUser(s) \/ UpdateUser(s)
           \/ UpdateRoles(s) \/ Merge(s) \/ MergeMissing(s) \/ RemoveUser(s)
           \/ RemoveUserOfOrg(s) \/ NewOrganization(s)
  <2>1. at \in {"authUser", "authRole", "authorized", "newUserRoles", "findUser",
                "addUser", "updateRoles", "merge"}
    BY <1>1 DEF AuthUser, AuthRole, AuthRefuse, NewUser, NewUserRoles, FindUser,
       AddUser, UpdateUser, UpdateRoles, Merge, MergeMissing, RemoveUser,
       RemoveUserOfOrg, NewOrganization
  <2>2. QED
    BY <2>1
<1>2. CASE \/ AddOrg(s) \/ JoinFind(s) \/ JoinAdd(s) \/ JoinPut(s) \/ UndoOrg(s)
           \/ UpdateOrganization(s) \/ CheckOrg(s) \/ UniqueOrg(s) \/ PutOrg(s)
           \/ RemoveOrganization(s) \/ DropOrg(s) \/ NewMapping(s)
           \/ AddMapping(s) \/ UpdateMapping(s) \/ PutMapping(s)
           \/ RemoveMapping(s) \/ ReplaceAuthConfig(s)
  <2>1. at \in {"addOrg", "joinFind", "joinAdd", "joinPut", "undoOrg", "checkOrg",
                "uniqueOrg", "putOrg", "dropOrg", "addMapping", "putMapping",
                "authorized"}
    BY <1>2 DEF AddOrg, JoinFind, JoinAdd, JoinPut, UndoOrg, UpdateOrganization,
       CheckOrg, UniqueOrg, PutOrg, RemoveOrganization, DropOrg, NewMapping,
       AddMapping, UpdateMapping, PutMapping, RemoveMapping, ReplaceAuthConfig
  <2>2. QED
    BY <2>1
<1>3. CASE \/ Switch(s) \/ SwitchRaw(s) \/ Me(s) \/ MeCount(s) \/ MeConfig(s)
           \/ MeMappings(s) \/ MeRole(s) \/ MeAdd(s) \/ Refuse(s) \/ Full(s)
  <2>1. at \in {"switch", "switchRaw", "me", "meCount", "meConfig", "meMappings",
                "meRoles", "authorized", "newUserRoles", "updateRoles",
                "addUser", "addOrg", "addMapping"}
    BY <1>3 DEF Switch, SwitchRaw, Me, MeCount, MeConfig, MeMappings, MeRole,
       MeAdd, Refuse, Full
  <2>2. QED
    BY <2>1
<1>4. CASE \/ PutUser(s) \/ Strip(s) \/ StripMissing(s) \/ AllStripped(s)
           \/ ListUsers(s) \/ DropMapping(s) \/ DropMappingEnd(s)
  BY <1>4 DEF PutUser, Strip, StripMissing, AllStripped, ListUsers, DropMapping,
     DropMappingEnd
<1>5. QED
  BY <1>1, <1>2, <1>3, <1>4 DEF Step

\* Where the requests of a cascade go.
LEMMA CascadeTargets ==
    ASSUME TypeOK, NEW s \in Slots, Step(s)
    PROVE  LET r == reqs[s]
               q == reqs'[s]
           IN
           /\ ListUsers(s) =>
                 q = [at |-> "strip", org |-> r.org, todo |-> Visible({r.org}),
                      cascade |-> TRUE]
           /\ Strip(s) =>
                 /\ q.at = "putUser" /\ q.id = First(r.todo)
                 /\ q.id \in DOMAIN users
                 /\ r.cascade =>
                       q.next = [at |-> "strip", org |-> r.org,
                                 todo |-> r.todo \ {q.id}, cascade |-> TRUE]
           /\ PutUser(s) => q = r.next /\ r.next \in Rest
           /\ AllStripped(s) =>
                 q = [at |-> "dropMappings",
                      todo |-> {m \in DOMAIN mappings : mappings[m].org = r.org}]
           /\ DropMapping(s) =>
                 q = [at |-> "dropMappings", todo |-> r.todo \ {First(r.todo)}]
           /\ DropOrg(s) => q = [at |-> "listUsers", org |-> r.org]
<1> DEFINE r == reqs[s]
           q == reqs'[s]
<1>0. \A x : Goto(s, x) => q = x
  BY GotoSlot
<1>1. ListUsers(s) =>
         q = [at |-> "strip", org |-> r.org, todo |-> Visible({r.org}),
              cascade |-> TRUE]
  BY <1>0 DEF ListUsers
<1>2. ASSUME Strip(s)
      PROVE  /\ q.at = "putUser" /\ q.id = First(r.todo) /\ q.id \in DOMAIN users
             /\ r.cascade =>
                   q.next = [at |-> "strip", org |-> r.org,
                             todo |-> r.todo \ {q.id}, cascade |-> TRUE]
  <2> DEFINE id == First(r.todo)
             user == [users[id] EXCEPT !.roles = Outside(@, {r.org})]
             rest == [r EXCEPT !.todo = @ \ {id}]
             next == IF r.cascade THEN rest ELSE Idle
  <2>1. /\ q = [at |-> "putUser", scope |-> {r.org}, id |-> id,
                user |-> user, next |-> next]
        /\ r.at = "strip" /\ id \in DOMAIN users
    BY <1>0, <1>2 DEF Strip
  <2> HIDE DEF id
  <2>2. ASSUME r.cascade
        PROVE  rest = [at |-> "strip", org |-> r.org, todo |-> r.todo \ {id},
                       cascade |-> TRUE]
    <3>1. /\ r.cascade \in BOOLEAN
          /\ r = [at |-> "strip", org |-> r.org, todo |-> r.todo,
                  cascade |-> r.cascade]
      BY <2>1, OrgRequestShape
    <3>2. r.cascade = TRUE
      BY <2>2, <3>1
    <3>3. \A o, t, c :
             [[at |-> "strip", org |-> o, todo |-> t, cascade |-> c]
                EXCEPT !.todo = @ \ {id}]
             = [at |-> "strip", org |-> o, todo |-> t \ {id}, cascade |-> c]
      OBVIOUS
    <3> HIDE DEF r
    <3>4. rest = [at |-> "strip", org |-> r.org, todo |-> r.todo \ {id},
                  cascade |-> r.cascade]
      BY <3>1, <3>3
    <3>5. QED
      BY <3>2, <3>4
  <2>3. r.cascade => next = [at |-> "strip", org |-> r.org,
                             todo |-> r.todo \ {id}, cascade |-> TRUE]
    BY <2>2
  <2> HIDE DEF user, next
  <2>4. q.at = "putUser" /\ q.id = id /\ q.next = next
    BY <2>1
  <2>5. QED
    BY <2>1, <2>3, <2>4 DEF id
<1>3. PutUser(s) => q = r.next /\ r.next \in Rest
  BY <1>0, UserRequestShape DEF PutUser
<1>4. AllStripped(s) =>
         q = [at |-> "dropMappings",
              todo |-> {m \in DOMAIN mappings : mappings[m].org = r.org}]
  BY <1>0 DEF AllStripped
<1>5. ASSUME DropMapping(s)
      PROVE  q = [at |-> "dropMappings", todo |-> r.todo \ {First(r.todo)}]
  <2>1. /\ r.at = "dropMappings"
        /\ q = [r EXCEPT !.todo = @ \ {First(r.todo)}]
    BY <1>0, <1>5 DEF DropMapping
  <2>2. QED
    BY <2>1, OrgRequestShape
<1>6. ASSUME DropOrg(s) PROVE q = [at |-> "listUsers", org |-> r.org]
  <2>1. r.at = "dropOrg" /\ q = [r EXCEPT !.at = "listUsers"]
    BY <1>0, <1>6 DEF DropOrg
  <2>2. QED
    BY <2>1, OrgRequestShape
<1>7. QED
  BY <1>1, <1>2, <1>3, <1>4, <1>5, <1>6

\* Roles with organizations that exist stay so in what the stores do with them.
LEMMA LiveRoles ==
    ASSUME TypeOK
    PROVE  /\ Live(NoRoles)
           /\ \A org \in DOMAIN orgs : \A name : Live(Role(org, name))
           /\ \A scope : \A roles \in AskedRoles(scope) : Live(roles)
           /\ \A roles \in RoleMap, more \in RoleMap :
                 Live(roles) /\ Live(more) => Live(Join(roles, more))
           /\ \A roles, scope : Live(roles) => Live(Outside(roles, scope))
           /\ \A roles \in RoleMap : \A org, x :
                 Live(roles) /\ (org \in DOMAIN orgs \/ x = <<>>) =>
                    Live(With(roles, org, x))
<1>0. DOMAIN orgs \subseteq OrgIds
  BY DEF TypeOK
<1>1. Live(NoRoles)
  BY RolesOfOrg DEF Live
<1>2. ASSUME NEW org \in DOMAIN orgs, NEW name PROVE Live(Role(org, name))
  <2>1. org \in OrgIds
    BY <1>0
  <2>2. \A o \in OrgIds : Role(org, name)[o] # <<>> => o = org
    BY <2>1 DEF Role, NoRoles
  <2>3. QED
    BY <2>2 DEF Live
<1>3. ASSUME NEW scope, NEW roles \in AskedRoles(scope) PROVE Live(roles)
  BY <1>1, <1>2, AskedRolesShape
<1>4. ASSUME NEW roles \in RoleMap, NEW more \in RoleMap, Live(roles), Live(more)
      PROVE  Live(Join(roles, more))
  BY <1>4, RolesOfOrg DEF Live
<1>5. ASSUME NEW roles, NEW scope, Live(roles) PROVE Live(Outside(roles, scope))
  BY <1>5, RolesOfOrg DEF Live
<1>6. ASSUME NEW roles \in RoleMap, NEW org, NEW x, Live(roles),
             org \in DOMAIN orgs \/ x = <<>>
      PROVE  Live(With(roles, org, x))
  BY <1>6 DEF Live, With, RoleMap
<1>7. QED
  BY <1>1, <1>2, <1>3, <1>4, <1>5, <1>6

\* A step of a request that runs alone leaves it with organizations that exist,
\* and a cascade with users and mappings that are there.
LEMMA StepGrounded ==
    ASSUME TypeOK, DefaultOrgKept, NEW s \in Slots, Step(s), LeftState(s)
    PROVE  Grounded(reqs[s])'
<1> DEFINE r == reqs[s]
           q == reqs'[s]
<1>0. \A x : Goto(s, x) => q = x
  BY GotoSlot
<1>1. \A i \in DOMAIN users :
         users[i].roles \in RoleMap
         /\ \A o \in OrgIds : users[i].roles[o] # <<>> =>
               o \in DOMAIN orgs \/ Gone(r, o)
  BY DEF TypeOK, User, LeftState
<1>2. ASSUME r.at \notin {"listUsers", "strip", "putUser"}, NEW i \in DOMAIN users
      PROVE  Live(users[i].roles)
  BY <1>1, <1>2 DEF Live, Gone
<1>3. /\ r.at \in {"findUser", "addUser", "merge", "joinPut", "putUser"} =>
            r.user.roles \in RoleMap /\ Live(r.user.roles)
      /\ r.at = "meRoles" => r.roles \in RoleMap /\ Live(r.roles)
  BY UserRequestShape, MeRequestShape DEF User, LeftState, Grounded
<1>4. ASSUME q.at \in {"findUser", "addUser", "merge"} PROVE Live(q.user.roles)
  <2>1. q.at = "findUser" => Live(q.user.roles)
    <3>1. \/ q.user.roles \in AskedRoles(r.scope)
          \/ /\ r.at = "meRoles"
             /\ q.user.roles \in {r.roles,
                                  With(r.roles, DefaultOrg, <<r.role>>)}
          \/ q.at # "findUser"
      BY RoleOrigins DEF With
    <3>2. QED
      BY <1>3, <3>1, LiveRoles DEF DefaultOrgKept
  <2>2. q.at = "addUser" => Live(q.user.roles)
    <3>1. \/ r.at = "findUser" /\ q.user = r.user
          \/ r.at = "joinAdd" /\ q.user.roles = Role(r.org, "admin")
          \/ q.at # "addUser"
      BY RoleOrigins
    <3>2. r.at = "joinAdd" => r.org \in DOMAIN orgs
      BY DEF LeftState, Grounded
    <3>3. QED
      BY <1>3, <3>1, <3>2, LiveRoles
  <2>3. q.at = "merge" => Live(q.user.roles)
    BY RoleOrigins, LiveRoles
  <2>4. QED
    BY <1>4, <2>1, <2>2, <2>3
<1>5. ASSUME q.at = "joinPut" PROVE Live(q.user.roles)
  <2>1. /\ r.at = "joinFind" /\ q.id \in DOMAIN users
        /\ q.user.roles = Join(users[q.id].roles, Role(r.org, "admin"))
    BY <1>5, RoleOrigins
  <2>2. r.org \in DOMAIN orgs /\ r.org \in OrgIds
    BY <2>1 DEF LeftState, Grounded, TypeOK
  <2>3. Role(r.org, "admin") \in RoleMap
    BY <2>2, RolesType DEF Roles
  <2>4. users[q.id].roles \in RoleMap /\ Live(users[q.id].roles)
    BY <1>1, <1>2, <2>1
  <2>5. QED
    BY <2>1, <2>2, <2>3, <2>4, LiveRoles
<1>6. ASSUME q.at = "putUser" PROVE Live(q.user.roles)
  <2> DEFINE old == users[q.id].roles
  <2>1. PutFrom(r, q)
    BY <1>6, RoleOrigins
  <2>2. r.at \in {"findUser", "merge"} => r.scope \in Scope
    BY UserRequestShape
  <2>3. r.at = "switchRaw" => r.org \in DOMAIN orgs
    BY DEF LeftState, Grounded
  <2>4. /\ q.id \in DOMAIN users => old \in RoleMap
        /\ r.at \notin {"strip", "putUser", "listUsers"} /\ q.id \in DOMAIN users
           => Live(old)
    BY <1>1, <1>2
  <2>5. r.at = "strip" /\ q.id \in DOMAIN users =>
           \A o \in OrgIds : old[o] # <<>> => o \in DOMAIN orgs \/ o = r.org
    BY <1>1 DEF Gone
  <2> HIDE DEF q, r, old
  <2>6. CASE r.at = "findUser"
    BY <1>3, <2>1, <2>4, <2>6, LiveRoles DEF PutFrom, old
  <2>7. CASE r.at = "updateRoles"
    BY <2>1, <2>7, LiveRoles DEF PutFrom
  <2>8. CASE r.at = "merge"
    <3>1. /\ q.id \in DOMAIN users
          /\ q.user.roles = Join(Outside(old, r.scope), r.user.roles)
      BY <2>1, <2>8 DEF PutFrom, old
    <3>2. Outside(old, r.scope) \in RoleMap /\ Live(Outside(old, r.scope))
      BY <2>2, <2>4, <2>8, <3>1, RolesType, LiveRoles
    <3>3. QED
      BY <1>3, <2>8, <3>1, <3>2, LiveRoles
  <2>9. CASE r.at = "joinPut"
    BY <1>3, <2>1, <2>9 DEF PutFrom
  <2>10. CASE r.at = "strip"
    <3>1. q.id \in DOMAIN users /\ q.user.roles = Outside(old, {r.org})
      BY <2>1, <2>10 DEF PutFrom, old
    <3>2. QED
      BY <2>5, <2>10, <3>1, RolesOfOrg DEF Live
  <2>11. CASE r.at = "switchRaw"
    <3>1. /\ q.id \in DOMAIN users
          /\ q.user.roles = With(old, r.org, Append(old[r.org], r.role))
      BY <2>1, <2>11 DEF PutFrom, old, With
    <3>2. QED
      BY <2>3, <2>4, <2>11, <3>1, LiveRoles
  <2>12. CASE r.at = "me"
    BY <2>1, <2>4, <2>12 DEF PutFrom, old
  <2>13. QED
    BY <2>1, <2>6, <2>7, <2>8, <2>9, <2>10, <2>11, <2>12 DEF PutFrom
<1>7. ASSUME q.at = "meRoles" PROVE Live(q.roles)
  <2>1. CASE q.roles = NoRoles
    BY <2>1, LiveRoles
  <2>2. CASE /\ r.at = "meRoles"
             /\ \E o \in r.todo :
                   q.roles = [r.roles EXCEPT ![o] =
                                IF o \in DOMAIN orgs THEN <<orgs[o].role>>
                                ELSE <<>>]
    <3>1. PICK o \in r.todo : \E x :
             /\ o \in DOMAIN orgs \/ x = <<>>
             /\ q.roles = With(r.roles, o, x)
      BY <2>2 DEF With
    <3>2. QED
      BY <1>3, <2>2, <3>1, LiveRoles
  <2>3. QED
    BY <1>7, <2>1, <2>2, RoleOrigins
<1>8. q.at = "joinFind" => q.org \in DOMAIN orgs'
  <2>1. AddOrg(s) => /\ q = [at |-> "joinFind", who |-> r.who, org |-> orgSeq']
                     /\ orgSeq' \in DOMAIN orgs'
    BY <1>0 DEF AddOrg, PutKey
  <2>2. QED
    BY <2>1, Origins
<1>9. ASSUME q.at \in {"joinAdd", "switchRaw"} PROVE q.org \in DOMAIN orgs
  <2>1. CASE q.at = "switchRaw"
    BY <2>1, RoleOrigins DEF LeftState, Grounded
  <2>2. CASE q.at = "joinAdd"
    <3>1. JoinFind(s)
      BY <2>2, Origins
    <3>2. /\ r.at = "joinFind"
          /\ \/ Goto(s, [r EXCEPT !.at = "joinAdd"])
             \/ Goto(s, [at |-> "undoOrg", org |-> r.org])
             \/ \E id, user : Goto(s, [at |-> "joinPut", scope |-> {r.org},
                                       id |-> id, user |-> user])
      BY <3>1 DEF JoinFind
    <3>3. ~Goto(s, [at |-> "undoOrg", org |-> r.org])
      BY <1>0, <2>2
    <3>4. \A id, user : ~Goto(s, [at |-> "joinPut", scope |-> {r.org},
                                  id |-> id, user |-> user])
      BY <1>0, <2>2
    <3>5. q = [r EXCEPT !.at = "joinAdd"]
      BY <1>0, <3>2, <3>3, <3>4
    <3>6. q.org = r.org
      BY <3>2, <3>5, OrgRequestShape
    <3>7. QED
      BY <3>2, <3>6 DEF LeftState, Grounded
  <2>3. QED
    BY <1>9, <2>1, <2>2
<1>10. ASSUME q.at \in {"addMapping", "putMapping"}
       PROVE  q.mapping.org \in DOMAIN orgs
  <2>1. CASE NewMapping(s)
    <3>1. PICK org \in DOMAIN orgs, whom \in SUBSET People :
             Goto(s, [at |-> "addMapping",
                      mapping |-> [org |-> org, whom |-> whom]])
      BY <2>1 DEF NewMapping
    <3>2. q = [at |-> "addMapping", mapping |-> [org |-> org, whom |-> whom]]
      BY <1>0, <3>1
    <3>3. QED
      BY <3>2
  <2>2. CASE UpdateMapping(s)
    <3>1. PICK id \in MappingIds, org \in DOMAIN orgs, whom \in SUBSET People :
             Goto(s, [at |-> "putMapping", id |-> id,
                      mapping |-> [org |-> org, whom |-> whom]])
      BY <2>2 DEF UpdateMapping
    <3>2. q = [at |-> "putMapping", id |-> id,
               mapping |-> [org |-> org, whom |-> whom]]
      BY <1>0, <3>1
    <3>3. QED
      BY <3>2
  <2>3. QED
    BY <1>10, <2>1, <2>2, Origins
<1>11. PutUser(s) => DOMAIN users \subseteq DOMAIN users' /\ q = r.next
  BY <1>0 DEF PutUser, PutKey
<1>12. ASSUME q.at = "strip", q.cascade PROVE q.todo \subseteq DOMAIN users'
  <2>1. CASE RemoveUserOfOrg(s)
    <3>1. PICK id : Goto(s, [at |-> "strip", org |-> r.org, todo |-> {id},
                             cascade |-> FALSE])
      BY <2>1 DEF RemoveUserOfOrg
    <3>2. q = [at |-> "strip", org |-> r.org, todo |-> {id}, cascade |-> FALSE]
      BY <1>0, <3>1
    <3>3. QED
      BY <1>12, <3>2
  <2>2. CASE ListUsers(s)
    <3>1. q = [at |-> "strip", org |-> r.org, todo |-> Visible({r.org}),
               cascade |-> TRUE]
      BY <2>2, CascadeTargets
    <3>2. users' = users
      BY <2>2 DEF ListUsers, db
    <3>3. QED
      BY <3>1, <3>2 DEF Visible
  <2>3. CASE PutUser(s)
    <3>1. r.at = "putUser" /\ q = r.next
      BY <1>11, <2>3 DEF PutUser
    <3>2. r.next.todo \subseteq DOMAIN users
      BY <1>12, <3>1 DEF LeftState, Grounded
    <3>3. QED
      BY <1>11, <2>3, <3>1, <3>2
  <2>4. QED
    BY <1>12, <2>1, <2>2, <2>3, Origins
<1>13. ASSUME q.at = "putUser", q.next.at = "strip"
       PROVE  q.next.cascade /\ q.next.todo \subseteq DOMAIN users
  <2>1. PutFrom(r, q)
    BY <1>13, RoleOrigins
  <2>2. Idle.at # "strip"
    BY DEF Idle
  <2>3. r.at = "strip" /\ r.cascade
    <3> HIDE DEF q, r
    <3>1. CASE r.at = "switchRaw"
      <4>1. q.next = [at |-> "me", who |-> r.who]
        BY <2>1, <3>1 DEF PutFrom
      <4>2. QED
        BY <1>13, <4>1
    <3>2. CASE r.at # "switchRaw"
      BY <1>13, <2>1, <2>2, <3>2 DEF PutFrom
    <3>3. QED
      BY <3>1, <3>2
  <2>4. Strip(s)
    <3>1. q # Idle /\ q.at # "dropMappings"
      BY <1>13 DEF Idle
    <3>2. ~StripMissing(s)
      BY <1>0, <3>1 DEF StripMissing, Done
    <3>3. ~AllStripped(s)
      <4>1. AllStripped(s) =>
               q = [at |-> "dropMappings",
                    todo |-> {m \in DOMAIN mappings : mappings[m].org = r.org}]
        BY CascadeTargets
      <4>2. QED
        BY <3>1, <4>1
    <3>4. QED
      BY <2>3, <3>2, <3>3, CascadeSteps
  <2>5. q.next = [at |-> "strip", org |-> r.org, todo |-> r.todo \ {q.id},
                  cascade |-> TRUE]
    BY <2>3, <2>4, CascadeTargets
  <2>6. q.next.cascade = TRUE /\ q.next.todo = r.todo \ {q.id}
    BY <2>5
  <2>7. r.todo \subseteq DOMAIN users
    BY <2>3 DEF LeftState, Grounded
  <2>8. QED
    BY <2>6, <2>7
<1>14. ASSUME q.at = "dropMappings" PROVE q.todo \subseteq DOMAIN mappings'
  <2>1. CASE AllStripped(s)
    <3>1. q = [at |-> "dropMappings",
               todo |-> {m \in DOMAIN mappings : mappings[m].org = r.org}]
      BY <2>1, CascadeTargets
    <3>2. mappings' = mappings
      BY <2>1 DEF AllStripped, db
    <3>3. QED
      BY <3>1, <3>2
  <2>2. CASE DropMapping(s)
    <3>1. q = [at |-> "dropMappings", todo |-> r.todo \ {First(r.todo)}]
      BY <2>2, CascadeTargets
    <3>2. DOMAIN mappings' = DOMAIN mappings \ {First(r.todo)}
      BY <2>2 DEF DropMapping, DropKey
    <3>3. r.todo \subseteq DOMAIN mappings
      BY <2>2 DEF DropMapping, LeftState, Grounded
    <3>4. QED
      BY <3>1, <3>2, <3>3
  <2>3. QED
    BY <1>14, <2>1, <2>2, Origins
<1>15. /\ orgs' # orgs => q.at \in {"joinFind", "listUsers", "idle"}
       /\ users' # users => q.at \in {"idle", "me", "strip"}
       /\ q.at # "switch"
  BY Origins
<1>16. /\ q.at \in {"findUser", "addUser", "merge", "joinPut", "putUser"} =>
             Live(q.user.roles) /\ orgs' = orgs
       /\ q.at = "meRoles" => Live(q.roles) /\ orgs' = orgs
       /\ q.at \in {"joinFind", "joinAdd", "switch", "switchRaw"} =>
             q.org \in DOMAIN orgs'
       /\ q.at \in {"addMapping", "putMapping"} => q.mapping.org \in DOMAIN orgs'
       /\ q.at = "putUser" => users' = users
  BY <1>4, <1>5, <1>6, <1>7, <1>8, <1>9, <1>10, <1>15
<1> HIDE DEF r
<1>17. QED
  BY <1>12, <1>13, <1>14, <1>16 DEF Grounded, Live

\* After a step a mapping is as before, or as the request has made it.
LEMMA MappingsAfter ==
    ASSUME TypeOK, NEW s \in Slots, Step(s), NEW m \in DOMAIN mappings'
    PROVE  \/ m \in DOMAIN mappings /\ mappings'[m] = mappings[m]
           \/ AddMapping(s) /\ mappings'[m] = reqs[s].mapping
           \/ PutMapping(s) /\ mappings'[m] = reqs[s].mapping
<1>1. CASE mappings' = mappings
  BY <1>1
<1>2. CASE AddMapping(s)
  BY <1>2 DEF AddMapping, PutKey
<1>3. CASE PutMapping(s)
  BY <1>3 DEF PutMapping, PutKey
<1>4. CASE RemoveMapping(s)
  BY <1>4 DEF RemoveMapping, DropKey
<1>5. CASE DropMapping(s)
  BY <1>5 DEF DropMapping, DropKey
<1>6. QED
  BY <1>1, <1>2, <1>3, <1>4, <1>5, Origins

\* A step deletes no organization, or the one of its request, which goes on to
\* list the users.
LEMMA OrgsAfter ==
    ASSUME TypeOK, NEW s \in Slots, Step(s), NEW o \in DOMAIN orgs
    PROVE  \/ o \in DOMAIN orgs'
           \/ reqs'[s] = [at |-> "listUsers", org |-> o]
<1>1. CASE orgs' = orgs
  BY <1>1
<1>2. CASE AddOrg(s)
  BY <1>2 DEF AddOrg, PutKey
<1>3. CASE PutOrg(s)
  BY <1>3 DEF PutOrg, PutKey
<1>4. CASE DropOrg(s)
  <2>1. reqs'[s] = [at |-> "listUsers", org |-> reqs[s].org]
    BY <1>4, CascadeTargets
  <2>2. DOMAIN orgs' = DOMAIN orgs \ {reqs[s].org}
    BY <1>4 DEF DropOrg, DropKey
  <2>3. QED
    BY <2>1, <2>2
<1>5. QED
  BY <1>1, <1>2, <1>3, <1>4, Origins

\* A cascade goes on: until all users are done it stays about its organization,
\* and it forgets neither a user nor a mapping.
LEMMA CascadeGoesOn ==
    ASSUME TypeOK, NEW s \in Slots, Step(s), Grounded(reqs[s]),
           NEW o, Gone(reqs[s], o)
    PROVE  LET r == reqs[s]
               q == reqs'[s]
           IN
           \/ /\ Gone(q, o)
              /\ \A i \in DOMAIN users :
                    users[i].roles[o] # <<>> /\ o \in OrgIds /\ ToStrip(r, i) =>
                       ToStrip(q, i) \/ (PutUser(s) /\ i = r.id)
           \/ /\ q.at = "dropMappings"
              /\ \A i : ~ToStrip(r, i)
              /\ q.todo = {m \in DOMAIN mappings : mappings[m].org = o}
<1> DEFINE r == reqs[s]
           q == reqs'[s]
<1>1. CASE r.at = "listUsers"
  <2>1. q = [at |-> "strip", org |-> r.org, todo |-> Visible({r.org}),
             cascade |-> TRUE]
    BY <1>1, CascadeSteps, CascadeTargets
  <2>2. /\ q.at = "strip" /\ q.org = r.org /\ q.cascade
        /\ q.todo = Visible({r.org})
    BY <2>1
  <2>3. o = r.org
    BY <1>1 DEF Gone
  <2>4. ASSUME NEW i \in DOMAIN users, users[i].roles[o] # <<>>, o \in OrgIds
        PROVE  i \in Visible({o})
    <3>1. Inside(users[i].roles, {o})[o] # NoRoles[o]
      BY <2>4 DEF Inside, NoRoles
    <3>2. QED
      BY <3>1 DEF Visible
  <2>5. QED
    BY <2>2, <2>3, <2>4 DEF Gone, ToStrip
<1>2. CASE r.at = "strip"
  <2>1. /\ r.cascade /\ o = r.org /\ r.todo \subseteq DOMAIN users
        /\ r.todo \in SUBSET UserIds
    BY <1>2, OrgRequestShape DEF Gone, Grounded
  <2>2. r.todo # {} => First(r.todo) \in r.todo
    BY <2>1, FirstIsMember DEF UserIds
  <2>3. ~StripMissing(s)
    BY <2>1, <2>2 DEF StripMissing
  <2>4. CASE Strip(s)
    <3>1. /\ q.at = "putUser"
          /\ q.next = [at |-> "strip", org |-> r.org, todo |-> r.todo \ {q.id},
                       cascade |-> TRUE]
      BY <2>1, <2>4, CascadeTargets
    <3>2. q.next.at = "strip" /\ q.next.org = o /\ q.next.todo = r.todo \ {q.id}
      BY <2>1, <3>1
    <3>3. QED
      BY <1>2, <3>1, <3>2 DEF Gone, ToStrip
  <2>5. CASE AllStripped(s)
    <3>1. q = [at |-> "dropMappings",
               todo |-> {m \in DOMAIN mappings : mappings[m].org = r.org}]
      BY <2>5, CascadeTargets
    <3>2. r.todo = {}
      BY <2>5 DEF AllStripped
    <3>3. QED
      BY <1>2, <2>1, <3>1, <3>2 DEF ToStrip
  <2>6. QED
    BY <1>2, <2>3, <2>4, <2>5, CascadeSteps
<1>3. CASE r.at = "putUser" /\ r.next.at = "strip"
  <2>1. PutUser(s) /\ q = r.next
    BY <1>3, CascadeSteps, CascadeTargets
  <2>2. r.next.cascade /\ o = r.next.org
    BY <1>3 DEF Gone, Grounded
  <2>3. QED
    BY <1>3, <2>1, <2>2 DEF Gone, ToStrip
<1>4. QED
  BY <1>1, <1>2, <1>3 DEF Gone

\* A step of a request that runs alone leaves no role and no mapping of an
\* organization that is gone, other than those its cascade will come to.
LEMMA StepLeft ==
    ASSUME TypeOK, DefaultOrgKept, NEW s \in Slots, Step(s), LeftState(s)
    PROVE  LeftState(s)'
<1> DEFINE r == reqs[s]
           q == reqs'[s]
<1>1. Grounded(r)
  BY DEF LeftState
<1>2. ASSUME NEW i \in DOMAIN users', NEW o \in OrgIds,
             users'[i].roles[o] # <<>>, o \notin DOMAIN orgs'
      PROVE  Gone(q, o) /\ ToStrip(q, i)
  <2>1. ~(\/ AddUser(s) /\ users'[i] = r.user
          \/ PutUser(s) /\ users'[i] = r.user)
    <3>1. AddUser(s) \/ PutUser(s) => orgs' = orgs /\ Live(r.user.roles)
      BY <1>1 DEF AddUser, PutUser, UsersOnly, Grounded
    <3>2. QED
      BY <1>2, <3>1 DEF Live
  <2>2. i \in DOMAIN users /\ users'[i] = users[i]
    BY <2>1, UsersAfter
  <2>3. PutUser(s) => i # r.id
    BY <2>1 DEF PutUser, PutKey
  <2>4. CASE o \in DOMAIN orgs
    <3>1. q = [at |-> "listUsers", org |-> o]
      BY <1>2, <2>4, OrgsAfter
    <3>2. QED
      BY <3>1 DEF Gone, ToStrip
  <2>5. CASE o \notin DOMAIN orgs
    <3>1. Gone(r, o) /\ ToStrip(r, i) /\ users[i].roles[o] # <<>>
      BY <1>2, <2>2, <2>5 DEF LeftState
    <3>2. QED
      BY <1>1, <2>2, <2>3, <3>1, CascadeGoesOn
  <2>6. QED
    BY <2>4, <2>5
<1>3. ASSUME NEW m \in DOMAIN mappings', mappings'[m].org \notin DOMAIN orgs'
      PROVE  \/ Gone(q, mappings'[m].org)
             \/ q.at = "dropMappings" /\ m \in q.todo
  <2>1. ~(\/ AddMapping(s) /\ mappings'[m] = r.mapping
          \/ PutMapping(s) /\ mappings'[m] = r.mapping)
    <3>1. AddMapping(s) \/ PutMapping(s) =>
             orgs' = orgs /\ r.mapping.org \in DOMAIN orgs
      BY <1>1 DEF AddMapping, PutMapping, MappingsOnly, Grounded
    <3>2. QED
      BY <1>3, <3>1
  <2>2. m \in DOMAIN mappings /\ mappings'[m] = mappings[m]
    BY <2>1, MappingsAfter
  <2>3. CASE mappings[m].org \in DOMAIN orgs
    <3>1. q = [at |-> "listUsers", org |-> mappings[m].org]
      BY <1>3, <2>2, <2>3, OrgsAfter
    <3>2. QED
      BY <2>2, <3>1 DEF Gone
  <2>4. CASE Gone(r, mappings[m].org)
    BY <1>1, <2>2, <2>4, CascadeGoesOn
  <2>5. CASE r.at = "dropMappings" /\ m \in r.todo
    <3>1. r.todo \subseteq DOMAIN mappings /\ r.todo \in SUBSET MappingIds
      BY <1>1, <2>5, OrgRequestShape DEF Grounded
    <3>2. First(r.todo) \in r.todo
      BY <2>5, <3>1, FirstIsMember DEF MappingIds
    <3>3. DropMapping(s)
      BY <2>5, <3>1, <3>2, CascadeSteps DEF DropMappingEnd
    <3>4. q = [at |-> "dropMappings", todo |-> r.todo \ {First(r.todo)}]
      BY <3>3, CascadeTargets
    <3>5. m # First(r.todo)
      BY <3>3 DEF DropMapping, DropKey
    <3>6. QED
      BY <2>5, <3>4, <3>5
  <2>6. QED
    BY <2>2, <2>3, <2>4, <2>5 DEF LeftState, ToDrop
<1>4. Grounded(reqs[s])'
  BY StepGrounded
<1>5. QED
  BY <1>2, <1>3, <1>4 DEF LeftState, ToDrop

\* So does the beginning of a request.
LEMMA BeginLeft ==
    ASSUME TypeOK, NEW s \in Slots, Accept(s) \/ AcceptMe(s) \/ UpdateMe(s),
           LeftState(s)
    PROVE  LeftState(s)'
<1> DEFINE r == reqs[s]
           q == reqs'[s]
<1>1. r.at = "idle" /\ UNCHANGED db
  BY DEF Accept, AcceptMe, UpdateMe, Begin
<1>2. q.at \in {"authUser", "me", "switch"}
  BY BeginSlot
<1>3. q.at = "switch" => q.org \in DOMAIN orgs
  <2>1. CASE Accept(s) \/ AcceptMe(s)
    <3>1. q.at \in {"authUser", "me"}
      BY <2>1 DEF TypeOK, Accept, AcceptMe, Begin
    <3>2. QED
      BY <3>1
  <2>2. CASE UpdateMe(s)
    <3>1. PICK who \in People, org \in DOMAIN orgs :
             q = [at |-> "switch", who |-> who, org |-> org,
                  role |-> orgs[org].role]
      BY <2>2 DEF TypeOK, UpdateMe, Begin
    <3>2. QED
      BY <3>1
  <2>3. QED
    BY <2>1, <2>2
<1>4. Grounded(reqs[s])'
  BY <1>1, <1>2, <1>3 DEF Grounded, db
<1>5. \A o : ~Gone(r, o)
  BY <1>1 DEF Gone
<1>6. QED
  BY <1>1, <1>4, <1>5 DEF LeftState, ToDrop, db

\* One request at a time and without a crash, no role and no mapping is left of
\* an organization that is gone, if the database at start has none
\* (bolt/organizations.go, Delete).
THEOREM DeletedOrgsLeaveNothing ==
    ASSUME NEW s, Slots = {s}, ~Faults,
           \A i \in DOMAIN StartUsers, o \in OrgIds :
              StartUsers[i].roles[o] # <<>> => o < Len(StartOrgs),
           \A m \in DOMAIN StartMappings :
              StartMappings[m].org < Len(StartOrgs)
    PROVE  Spec => []NothingOfDeletedOrg
<1>1. ASSUME Init PROVE LeftState(s)
  <2>1. /\ Len(StartOrgs) \in 1..(MaxOrgs + 1) /\ MaxOrgs \in Nat
        /\ orgSeq = Len(StartOrgs) - 1 /\ DOMAIN orgs = 0..orgSeq
    BY <1>1, AccountsAssumption DEF Init
  <2>2. \A o \in OrgIds : o < Len(StartOrgs) => o \in DOMAIN orgs
    BY <2>1 DEF OrgIds
  <2>3. reqs[s] = Idle
    BY <1>1 DEF Init
  <2>4. Grounded(reqs[s])
    BY <2>3 DEF Grounded, Idle
  <2>5. \A i \in DOMAIN users, o \in OrgIds :
           users[i].roles[o] # <<>> => o \in DOMAIN orgs
    BY <1>1, <2>2 DEF Init
  <2>6. ASSUME NEW m \in DOMAIN mappings PROVE mappings[m].org \in DOMAIN orgs
    <3>1. StartMappings \in Seq(Mapping) /\ mapSeq = Len(StartMappings)
          /\ DOMAIN mappings = 0..mapSeq
      BY <1>1, AccountsAssumption DEF Init
    <3>2. CASE m = 0
      <4>1. mappings[m] = [org |-> DefaultOrg, whom |-> People]
        BY <1>1, <3>1, <3>2 DEF Init
      <4>2. 0 \in DOMAIN orgs
        BY <2>1
      <4>3. QED
        BY <4>1, <4>2 DEF DefaultOrg
    <3>3. CASE m # 0
      <4>1. mappings[m] = StartMappings[m]
        BY <1>1, <3>1, <3>3 DEF Init
      <4>2. m \in DOMAIN StartMappings
        BY <3>1, <3>3
      <4>3. StartMappings[m].org \in OrgIds
        <5>1. StartMappings[m] \in Mapping
          BY <3>1, <4>2
        <5>2. QED
          BY <5>1 DEF Mapping
      <4>4. StartMappings[m].org \in DOMAIN orgs
        BY <2>2, <4>2, <4>3
      <4>5. QED
        BY <4>1, <4>4
    <3>4. QED
      BY <3>2, <3>3
  <2>7. QED
    BY <2>4, <2>5, <2>6 DEF LeftState
<1>2. ASSUME Inv, LeftState(s), [Next]_vars PROVE LeftState(s)'
  <2>1. CASE UNCHANGED vars
    BY <1>2, <2>1 DEF vars, db, LeftState, Grounded, ToDrop, Live
  <2>2. CASE Step(s)
    BY <1>2, <2>2, StepLeft DEF Inv, SparesInv
  <2>3. CASE Accept(s) \/ AcceptMe(s) \/ UpdateMe(s)
    BY <1>2, <2>3, BeginLeft DEF Inv
  <2>4. QED
    BY <1>2, <2>1, <2>2, <2>3 DEF Next, Crash
<1>3. ASSUME LeftState(s) PROVE NothingOfDeletedOrg
  <2>1. Quiet => /\ \A o : ~Gone(reqs[s], o)
                 /\ \A m : ~ToDrop(reqs[s], m)
    BY DEF Quiet, Gone, ToDrop
  <2>2. QED
    BY <1>3, <2>1 DEF LeftState, NothingOfDeletedOrg
<1>4. /\ Init => LeftState(s)
      /\ Inv /\ LeftState(s) /\ [Next]_vars => LeftState(s)'
      /\ LeftState(s) => NothingOfDeletedOrg
  BY <1>1, <1>2, <1>3
<1>5. QED
  BY <1>4, InvHolds, PTL DEF Spec

=============================================================================
