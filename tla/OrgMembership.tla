---------------------------- MODULE OrgMembership ----------------------------
(* The members of one org and their roles: the org_members table              *)
(* (internal/store/members.go), the role order (internal/rbac/rbac.go) and    *)
(* the handlers that add, change and remove members                           *)
(* (internal/api/member_handlers.go).                                         *)
(*                                                                            *)
(* A handler runs several statements and no transaction, so that the requests *)
(* being handled interleave between any two of them.                          *)
EXTENDS Naturals, FiniteSets

CONSTANTS
    Users,        \* registered users
    Founder,      \* the user who created the org
    Handlers,     \* requests that may be handled at the same time
    MaxFaults     \* bound: failing statements

ASSUME MembershipAssumption ==
    /\ IsFiniteSet(Users) /\ Founder \in Users
    /\ MaxFaults \in Nat

Role == {"viewer", "member", "admin", "owner"}

(* Rank: 0 for a role that is not one of the four.                            *)
Rank(r) == CASE r = "viewer" -> 1
             [] r = "member" -> 2
             [] r = "admin" -> 3
             [] r = "owner" -> 4
             [] OTHER -> 0

(* Mutant: the order is off by one.                                           *)
AtLeastOffByOne(r, min) == Rank(r) + 1 >= Rank(min) /\ Rank(r) > 0

AtLeast(r, min) == Rank(r) >= Rank(min) /\ Rank(r) > 0

NotMember == "none"      \* no row in org_members
Misspelt == "misspelt"   \* any string that is no role
Removal == "removal"     \* the request to remove the member

VARIABLES
    role,         \* [Users -> Role, Misspelt or NotMember]
    pc,           \* [Handlers -> what the handler executes next]
    req,          \* [Handlers -> the request it handles, or NoRequest]
    faults

vars == <<role, pc, req, faults>>

(* A request being handled: the caller's role when it was checked, the member *)
(* it is about, and the role to give or Removal.                              *)
Request == [callerRole : {"admin", "owner"}, target : Users,
            newRole : Role \cup {Misspelt, Removal}]
NoRequest == [callerRole |-> NotMember, target |-> Founder, newRole |-> NotMember]

(* CreateOrg has just committed.                                              *)
Init ==
    /\ role = [u \in Users |-> IF u = Founder THEN "owner" ELSE NotMember]
    /\ pc = [h \in Handlers |-> "idle"]
    /\ req = [h \in Handlers |-> NoRequest]
    /\ faults = 0

Owners == {u \in Users : role[u] = "owner"}

Goto(h, next) ==
    /\ pc' = [pc EXCEPT ![h] = next]
    /\ req' = IF next = "idle" THEN [req EXCEPT ![h] = NoRequest] ELSE req

(* Mutant: only the grant of ownership is reserved to owners.                 *)
CanGrantAdmins(by, new) == AtLeast(new, "owner") => by = "owner"

canGrantRole(by, new) == AtLeast(new, "admin") => by = "owner"

(* requireOrgRole reads the caller's role; what it grants is judged by it.    *)
(* handleSetMemberRole accepts the four roles, handleAddMember any string.    *)
Authorize(h, u, v, new) ==
    /\ pc[h] = "idle"
    /\ AtLeast(role[u], "admin")
    /\ new # Removal => canGrantRole(role[u], new)
    /\ req' = [req EXCEPT ![h] = [callerRole |-> role[u], target |-> v, newRole |-> new]]
    /\ pc' = [pc EXCEPT ![h] = IF new = Removal THEN "guard" ELSE "apply"]
    /\ UNCHANGED <<role, faults>>

handleAddMember(h, u, v) == \E new \in Role \cup {Misspelt} : Authorize(h, u, v, new)

handleSetMemberRole(h, u, v) == \E new \in Role : Authorize(h, u, v, new)

handleRemoveMember(h, u, v) == Authorize(h, u, v, Removal)

(* Mutant: any admin may modify an owner.                                     *)
ApplyUnchecked(h) ==
    /\ pc[h] = "apply"
    /\ Goto(h, "guard")
    /\ UNCHANGED <<role, faults>>

(* applyRole reads the target's role: an owner is for owners to modify.       *)
applyRole(h) ==
    /\ pc[h] = "apply"
    /\ Goto(h, IF role[req[h].target] = "owner" /\ req[h].callerRole # "owner" THEN "idle" ELSE "guard")
    /\ UNCHANGED <<role, faults>>

(* guardLastOwner reads the target's role again ...                           *)
guardLastOwner(h) ==
    /\ pc[h] = "guard"
    /\ Goto(h, IF role[req[h].target] = "owner" /\ req[h].newRole # "owner" THEN "count" ELSE "write")
    /\ UNCHANGED <<role, faults>>

(* Mutant: the count is off by one.                                           *)
CountBelowOne(h) ==
    /\ pc[h] = "count"
    /\ Goto(h, IF Cardinality(Owners) < 1 THEN "idle" ELSE "write")
    /\ UNCHANGED <<role, faults>>

(* ... and refuses when one owner is left.                                    *)
CountOrgOwners(h) ==
    /\ pc[h] = "count"
    /\ Goto(h, IF Cardinality(Owners) <= 1 THEN "idle" ELSE "write")
    /\ UNCHANGED <<role, faults>>

(* UpsertOrgMember or RemoveOrgMember.                                        *)
WriteMember(h) ==
    /\ pc[h] = "write"
    /\ role' = [role EXCEPT ![req[h].target] =
                   IF req[h].newRole = Removal THEN NotMember ELSE req[h].newRole]
    /\ Goto(h, "idle")
    /\ UNCHANGED faults

(* A statement errors.  A check that cannot read is passed over, and a write  *)
(* that errors is reported.                                                   *)
StatementFails(h) ==
    /\ pc[h] # "idle" /\ faults < MaxFaults
    /\ faults' = faults + 1
    /\ Goto(h, CASE pc[h] = "apply" -> "guard"
                 [] pc[h] \in {"guard", "count"} -> "write"
                 [] pc[h] = "write" -> "idle")
    /\ UNCHANGED role

Next ==
    \/ \E h \in Handlers, u \in Users, v \in Users :
          \/ handleAddMember(h, u, v)
          \/ handleSetMemberRole(h, u, v)
          \/ handleRemoveMember(h, u, v)
    \/ \E h \in Handlers :
          \/ applyRole(h)
          \/ guardLastOwner(h)
          \/ CountOrgOwners(h)
          \/ WriteMember(h)
          \/ StatementFails(h)

Spec == Init /\ [][Next]_vars

------------------------------------------------------------------------------
(* Properties.                                                                *)

(* Every variable has its type.                                               *)
TypeOK ==
    /\ role \in [Users -> Role \cup {Misspelt, NotMember}]
    /\ pc \in [Handlers -> {"idle", "apply", "guard", "count", "write"}]
    /\ req \in [Handlers -> Request \cup {NoRequest}]
    /\ faults \in 0..MaxFaults

(* The history of an org's admins and owners goes back to owners: nobody      *)
(* becomes admin or owner but by the request of a user who was owner when it  *)
(* was authorised ("only owners may grant admin/owner", applyRole), whatever  *)
(* fails or runs meanwhile.                                                   *)
OwnersGrant ==
    [][\A u \in Users : role'[u] # role[u] /\ AtLeast(role'[u], "admin") =>
          \E h \in Handlers : pc[h] = "write" /\ req[h].target = u /\ req[h].callerRole = "owner"]_vars

==============================================================================
