---------------------------- MODULE HydirAccess ----------------------------
(***************************************************************************)
(* Who may use hydird and a project of it (crates/hydir-server/src/main.rs *)
(* with static credentials): identities with one credential each, replaced *)
(* by rotation, and ordered roles in the project.  The commands of the     *)
(* database's owner change them in a process of its own, while the server  *)
(* runs; each is one transaction.                                          *)
(*                                                                         *)
(* A credential is represented by its number for the identity.  OpenID     *)
(* Connect and the audit log are left out.                                 *)
(***************************************************************************)
EXTENDS Integers

CONSTANTS
    Principal,      \* identities
    ProjectOwner,   \* who created the project
    Grantable,      \* the roles that are granted, of Roles
    NoRole,         \* no row in project_acls
    MaxChanges      \* bound: commands that change access

\* ProjectRole, in its order.
Rank == [viewer |-> 1, analyst |-> 2, operator |-> 3, admin |-> 4]
Roles == DOMAIN Rank

ASSUME AccessAssumption ==
    /\ ProjectOwner \in Principal
    /\ Grantable \subseteq Roles /\ NoRole \notin Roles
    /\ MaxChanges \in Nat

VARIABLES
    credential,     \* of each identity the current one, 0 before it exists
    role,           \* project_acls of the project
    changes

access == <<credential, role, changes>>

\* The owner, who has created the project and with it the row of its role.
AccessInit ==
    /\ credential = [i \in Principal |-> IF i = ProjectOwner THEN 1 ELSE 0]
    /\ role = [i \in Principal |-> IF i = ProjectOwner THEN "admin" ELSE NoRole]
    /\ changes = 0

\* authenticate_bearer: of the digest of a bearer there is at most one row.
Authenticates(i, bearer) == bearer > 0 /\ credential[i] = bearer

\* require_project_role.
HasRole(i, required) == role[i] # NoRole /\ Rank[role[i]] >= Rank[required]

CreateIdentity(i) ==
    /\ credential[i] = 0
    /\ credential' = [credential EXCEPT ![i] = 1]
    /\ UNCHANGED role

RotateIdentity(i) ==
    /\ credential[i] > 0
    /\ credential' = [credential EXCEPT ![i] = @ + 1]
    /\ UNCHANGED role

\* access grant and access revoke by an actor who is an admin; the owner keeps
\* the role of an admin.
Grant(actor, i, r) ==
    /\ role[actor] = "admin"
    /\ i = ProjectOwner => r = "admin"
    /\ credential[i] > 0
    /\ role' = [role EXCEPT ![i] = r]
    /\ UNCHANGED credential

Revoke(actor, i) ==
    /\ role[actor] = "admin"
    /\ i # ProjectOwner
    /\ role[i] # NoRole
    /\ role' = [role EXCEPT ![i] = NoRole]
    /\ UNCHANGED credential

AccessNext ==
    /\ changes < MaxChanges
    /\ changes' = changes + 1
    /\ \E i \in Principal :
         \/ CreateIdentity(i) \/ RotateIdentity(i)
         \/ \E actor \in Principal :
              \/ \E r \in Grantable : Grant(actor, i, r)
              \/ Revoke(actor, i)
=============================================================================
