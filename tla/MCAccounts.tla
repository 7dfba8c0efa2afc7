----------------------------- MODULE MCAccounts -----------------------------
(* Instances of Accounts for TLC. *)
EXTENDS Accounts, TLC

Default == [name |-> "Default", role |-> "member"]
Other == [name |-> "other", role |-> "viewer"]
Third == [name |-> "third", role |-> "viewer"]

\* Databases to start from: one organization or more,

NoMappings == <<>>
OneOrg == <<Default>>
ThreeOrgs == <<Default, Other, Third>>

\* a super admin,
Holds(who, super, roles) == [who |-> who, super |-> super, roles |-> roles]
OneSuper == <<Holds("ann", TRUE, Role(0, "member"))>>
\* an admin and a super admin,
Pair == <<Holds("ann", TRUE, Role(0, "member")),
          Holds("bob", FALSE, Role(0, "admin"))>>
\* or only admins of one organization each.
Tenants == <<Holds("ann", FALSE, Join(Role(0, "member"), Role(1, "admin"))),
             Holds("bob", FALSE, Role(2, "viewer"))>>

\* Requests are interchangeable.
SlotSymmetry == Permutations(Slots)

=============================================================================
