------------------------- MODULE OrgMembershipProofs -------------------------
(* Who holds power in an org, for any number of users, requests at a time and *)
(* failing statements.                                                        *)
EXTENDS MCOrgMembership, FiniteSetTheorems, TLAPS

USE MembershipAssumption

mcVars == <<vars, raced>>

------------------------------------------------------------------------------
(* The inductive invariant.                                                   *)

(* What a request is to grant was judged when it was authorised.              *)
GrantsAuthorised ==
    \A h \in Handlers : pc[h] # "idle" /\ req[h].newRole # Removal =>
        canGrantRole(req[h].callerRole, req[h].newRole)

(* Without contention a request is alone ...                                  *)
Alone ==
    Undisturbed => \A g, h \in Handlers : g # h => pc[g] = "idle" \/ pc[h] = "idle"

(* ... so that what it has checked still holds when it writes: an owner it    *)
(* is about to change is not the last one ...                                 *)
AnotherOwner ==
    Undisturbed => \A h \in Handlers :
        pc[h] = "write" /\ role[req[h].target] = "owner" /\ req[h].newRole # "owner" =>
            \E u \in Users : u # req[h].target /\ role[u] = "owner"

(* ... and is changed at the request of an owner.                             *)
OwnerAsked ==
    Undisturbed => \A h \in Handlers :
        /\ pc[h] \in {"guard", "count", "write"} /\ req[h].newRole # Removal
        /\ role[req[h].target] = "owner"
        => req[h].callerRole = "owner"

(* A handler at work has a request.                                           *)
Handling == \A h \in Handlers : pc[h] # "idle" => req[h] \in Request

MembershipInv ==
    /\ TypeOK
    /\ raced \in {"no", "yes"}
    /\ Handling
    /\ GrantsAuthorised
    /\ Alone
    /\ AnotherOwner
    /\ OwnerAsked
    /\ HasOwner

------------------------------------------------------------------------------
(* The role order: who is at least admin is admin or owner.                   *)
LEMMA AdminOrOwner == \A r : AtLeast(r, "admin") => r \in {"admin", "owner"}
BY DEF AtLeast, Rank

(* A role nobody but an owner may grant is at least admin.                    *)
LEMMA AdminIsGranted ==
    \A r \in {"admin", "owner"} : AtLeast(r, "admin")
BY DEF AtLeast, Rank

(* A count of more than one means two.                                        *)
LEMMA SecondOwner ==
    ASSUME NEW u \in Users, role[u] = "owner", ~(Cardinality(Owners) <= 1)
    PROVE  \E v \in Users : v # u /\ role[v] = "owner"
<1>1. IsFiniteSet(Owners)
    BY FS_Subset DEF Owners
<1>2. Cardinality(Owners) \in Nat
    BY <1>1, FS_CardinalityType
<1>3. Owners # {u}
    BY <1>2, FS_Singleton
<1>4. u \in Owners
    BY DEF Owners
<1>5. PICK v \in Owners : v # u
    BY <1>3, <1>4
<1> QED BY <1>5 DEF Owners

------------------------------------------------------------------------------
LEMMA MembershipInit == MCInit => MembershipInv
<1> SUFFICES ASSUME MCInit PROVE MembershipInv
    OBVIOUS
<1> USE DEF MCInit, Init
<1>1. TypeOK
    BY DEF TypeOK, Role, NotMember
<1>2. role[Founder] = "owner" /\ Founder \in Owners
    BY DEF Owners
<1> QED
    BY <1>1, <1>2 DEF MembershipInv, Handling, GrantsAuthorised, Alone, AnotherOwner,
                      OwnerAsked, HasOwner

(* A new request: its grant is judged, and it is alone if the step leaves the *)
(* org undisturbed.                                                           *)
LEMMA AuthorizeKeeps ==
    ASSUME MembershipInv, raced' = IF Contended' THEN "yes" ELSE raced,
           NEW h \in Handlers, NEW u \in Users, NEW v \in Users,
           NEW new \in Role \cup {Misspelt, Removal}, Authorize(h, u, v, new)
    PROVE  MembershipInv'
<1> DEFINE r == [callerRole |-> role[u], target |-> v, newRole |-> new]
<1>1. r \in Request
    BY AdminOrOwner DEF Authorize, Request
<1>2. /\ req' = [req EXCEPT ![h] = r]
      /\ pc' = [pc EXCEPT ![h] = IF new = Removal THEN "guard" ELSE "apply"]
      /\ role' = role /\ faults' = faults
      /\ new # Removal => canGrantRole(role[u], new)
    BY DEF Authorize
<1>3. r.newRole = new /\ r.callerRole = role[u]
    OBVIOUS
<1> HIDE DEF r
<1> USE DEF MembershipInv
<1>4. TypeOK'
    BY <1>1, <1>2 DEF TypeOK
<1>5. (raced \in {"no", "yes"})' /\ Handling' /\ GrantsAuthorised'
    BY <1>1, <1>2, <1>3 DEF TypeOK, Handling, GrantsAuthorised, canGrantRole
<1>6. Undisturbed' => Undisturbed /\ ~Contended'
    BY <1>2 DEF Undisturbed
<1>7. Alone'
    BY <1>6 DEF Alone, Contended
<1>8. AnotherOwner' /\ OwnerAsked' /\ HasOwner'
    BY <1>2, <1>3, <1>6 DEF AnotherOwner, OwnerAsked, HasOwner, Owners, TypeOK
<1> QED BY <1>4, <1>5, <1>7, <1>8

(* A request goes on or ends without a write.                                 *)
LEMMA ReadKeeps ==
    ASSUME MembershipInv, raced' = IF Contended' THEN "yes" ELSE raced,
           NEW h \in Handlers, NEW next \in {"idle", "guard", "count", "write"},
           pc[h] # "idle", Goto(h, next), role' = role, faults' \in faults..MaxFaults,
           faults' = faults => pc[h] \in {"apply", "guard", "count"},
           faults' = faults /\ pc[h] = "apply" /\ next # "idle" =>
               (role[req[h].target] = "owner" => req[h].callerRole = "owner"),
           faults' = faults /\ next = "write" =>
               \/ role[req[h].target] # "owner" \/ req[h].newRole = "owner"
               \/ \E u \in Users : u # req[h].target /\ role[u] = "owner",
           faults' = faults /\ pc[h] # "apply" => next # "guard"
    PROVE  MembershipInv'
<1> USE DEF MembershipInv
<1>1. pc' = [pc EXCEPT ![h] = next] /\ \A g \in Handlers : g # h => req'[g] = req[g]
    BY DEF Goto, TypeOK
<1>2. next # "idle" => req' = req
    BY DEF Goto
<1>3. TypeOK'
    BY DEF TypeOK, Goto
<1>4. pc \in [Handlers -> {"idle", "apply", "guard", "count", "write"}]
    BY DEF TypeOK
<1>5. (raced \in {"no", "yes"})' /\ Handling' /\ GrantsAuthorised'
    BY <1>1, <1>2, <1>4 DEF Handling, GrantsAuthorised
<1>6. Undisturbed' => Undisturbed /\ ~Contended' /\ faults' = faults
    BY DEF Undisturbed, TypeOK
<1>7. Alone'
    BY <1>6 DEF Alone, Contended
<1>8. HasOwner'
    BY <1>6 DEF HasOwner, Owners
<1>9. AnotherOwner'
    BY <1>1, <1>2, <1>4, <1>6 DEF AnotherOwner
<1>10. OwnerAsked'
    BY <1>1, <1>2, <1>4, <1>6 DEF OwnerAsked
<1> QED BY <1>3, <1>5, <1>7, <1>8, <1>9, <1>10

(* The write: the last owner stays, and ownership changes by owners only.     *)
LEMMA WriteKeeps ==
    ASSUME MembershipInv, raced' = IF Contended' THEN "yes" ELSE raced,
           NEW h \in Handlers, WriteMember(h)
    PROVE  MembershipInv'
<1> USE DEF MembershipInv
<1> DEFINE to == IF req[h].newRole = Removal THEN NotMember ELSE req[h].newRole
<1>1. /\ role' = [role EXCEPT ![req[h].target] = to]
      /\ pc[h] = "write" /\ pc' = [pc EXCEPT ![h] = "idle"]
      /\ req' = [req EXCEPT ![h] = NoRequest]
      /\ faults' = faults
    BY DEF WriteMember, Goto
<1>2. req[h] \in Request
    BY <1>1 DEF Handling
<1>3. req[h].target \in Users /\ to \in Role \cup {Misspelt, NotMember}
    BY <1>2 DEF Request
<1>4. req[h].newRole # "owner" => to # "owner"
    BY DEF NotMember
<1>9. req[h].newRole = "owner" => to = "owner"
    BY DEF Removal
<1> HIDE DEF to
<1>5. TypeOK'
    BY <1>1, <1>3 DEF TypeOK
<1>6. (raced \in {"no", "yes"})' /\ Handling' /\ GrantsAuthorised'
    BY <1>1 DEF TypeOK, Handling, GrantsAuthorised
<1>7. Undisturbed' => Undisturbed /\ ~Contended'
    BY <1>1 DEF Undisturbed
<1>8. Alone'
    BY <1>7 DEF Alone, Contended
<1>10. HasOwner'
    <2> SUFFICES ASSUME Undisturbed' PROVE \E u \in Users : role'[u] = "owner"
        BY DEF HasOwner, Owners
    <2>1. CASE req[h].newRole = "owner"
        BY <1>1, <1>3, <1>9, <2>1 DEF TypeOK
    <2>2. CASE req[h].newRole # "owner" /\ role[req[h].target] = "owner"
        BY <1>1, <1>3, <1>7, <2>2 DEF TypeOK, AnotherOwner
    <2>3. CASE req[h].newRole # "owner" /\ role[req[h].target] # "owner"
        <3>1. PICK u \in Users : role[u] = "owner"
            BY <1>7 DEF HasOwner, Owners
        <3> QED BY <1>1, <2>3, <3>1 DEF TypeOK
    <2> QED BY <2>1, <2>2, <2>3
<1>11. Undisturbed' => \A g \in Handlers : pc'[g] = "idle"
    BY <1>1, <1>7 DEF Alone, TypeOK
<1>12. AnotherOwner' /\ OwnerAsked'
    BY <1>11 DEF AnotherOwner, OwnerAsked
<1> QED BY <1>5, <1>6, <1>8, <1>10, <1>12

LEMMA MembershipStep == MembershipInv /\ [MCNext]_mcVars => MembershipInv'
<1> SUFFICES ASSUME MembershipInv, [MCNext]_mcVars PROVE MembershipInv'
    OBVIOUS
<1>1. CASE UNCHANGED mcVars
    BY <1>1 DEF mcVars, vars, MembershipInv, TypeOK, Handling, GrantsAuthorised, Alone,
                AnotherOwner, OwnerAsked, HasOwner, Undisturbed, Owners
<1>2. CASE MCNext
    <2> raced' = IF Contended' THEN "yes" ELSE raced
        BY <1>2 DEF MCNext
    <2> TypeOK BY DEF MembershipInv
    <2>1. ASSUME NEW h \in Handlers, NEW u \in Users, NEW v \in Users,
                 handleAddMember(h, u, v) \/ handleSetMemberRole(h, u, v) \/ handleRemoveMember(h, u, v)
          PROVE MembershipInv'
        BY <2>1, AuthorizeKeeps DEF handleAddMember, handleSetMemberRole, handleRemoveMember
    <2>2. ASSUME NEW h \in Handlers, applyRole(h) PROVE MembershipInv'
        <3> DEFINE next == IF role[req[h].target] = "owner" /\ req[h].callerRole # "owner"
                           THEN "idle" ELSE "guard"
        <3>1. pc[h] = "apply" /\ Goto(h, next) /\ role' = role /\ faults' = faults
            BY <2>2 DEF applyRole
        <3>2. faults \in faults..MaxFaults
            BY DEF TypeOK
        <3> QED BY <3>1, <3>2, ReadKeeps
    <2>3. ASSUME NEW h \in Handlers, guardLastOwner(h) PROVE MembershipInv'
        <3> DEFINE next == IF role[req[h].target] = "owner" /\ req[h].newRole # "owner"
                           THEN "count" ELSE "write"
        <3>1. pc[h] = "guard" /\ Goto(h, next) /\ role' = role /\ faults' = faults
            BY <2>3 DEF guardLastOwner
        <3>2. faults \in faults..MaxFaults
            BY DEF TypeOK
        <3> QED BY <3>1, <3>2, ReadKeeps
    <2>4. ASSUME NEW h \in Handlers, CountOrgOwners(h) PROVE MembershipInv'
        <3> DEFINE next == IF Cardinality(Owners) <= 1 THEN "idle" ELSE "write"
        <3>1. pc[h] = "count" /\ Goto(h, next) /\ role' = role /\ faults' = faults
            BY <2>4 DEF CountOrgOwners
        <3>2. faults \in faults..MaxFaults
            BY DEF TypeOK
        <3>3. req[h].target \in Users
            BY <3>1 DEF MembershipInv, Handling, Request
        <3>4. next = "write" => \/ role[req[h].target] # "owner"
                                \/ \E u \in Users : u # req[h].target /\ role[u] = "owner"
            BY <3>3, SecondOwner
        <3>5. next \in {"idle", "write"}
            OBVIOUS
        <3> HIDE DEF next
        <3> QED BY <3>1, <3>2, <3>4, <3>5, ReadKeeps
    <2>5. ASSUME NEW h \in Handlers, WriteMember(h) PROVE MembershipInv'
        BY <2>5, WriteKeeps
    <2>6. ASSUME NEW h \in Handlers, StatementFails(h) PROVE MembershipInv'
        <3> DEFINE next == CASE pc[h] = "apply" -> "guard"
                             [] pc[h] \in {"guard", "count"} -> "write"
                             [] pc[h] = "write" -> "idle"
        <3>1. pc[h] # "idle" /\ Goto(h, next) /\ role' = role /\ faults' = faults + 1
            BY <2>6 DEF StatementFails
        <3>2. faults' # faults /\ faults' \in faults..MaxFaults
            BY <2>6, <3>1 DEF TypeOK, StatementFails
        <3>3. pc[h] \in {"apply", "guard", "count", "write"}
            BY <3>1 DEF TypeOK
        <3>4. next \in {"idle", "guard", "write"}
            BY <3>3
        <3> HIDE DEF next
        <3> QED BY <3>1, <3>2, <3>4, ReadKeeps
    <2> QED BY <1>2, <2>1, <2>2, <2>3, <2>4, <2>5, <2>6 DEF MCNext, Next
<1> QED BY <1>1, <1>2 DEF MCNext

(* What a handler has judged and read still holds when it writes: types,      *)
(* authorised grants and, without contention, a request that is alone, keeps  *)
(* an owner and has an owner's word.                                          *)
THEOREM MembershipCorrect == MCSpec => []MembershipInv
BY MembershipInit, MembershipStep, PTL DEF MCSpec, mcVars

(* Every variable keeps its type.                                             *)
THEOREM MembershipTypes == MCSpec => []TypeOK
<1>1. MembershipInv => TypeOK
    BY DEF MembershipInv
<1> QED BY <1>1, MembershipCorrect, PTL

(* guardLastOwner keeps an owner over any sequence of requests that do not    *)
(* overlap.                                                                   *)
THEOREM OwnerRemains == MCSpec => []HasOwner
<1>1. MembershipInv => HasOwner
    BY DEF MembershipInv
<1> QED BY <1>1, MembershipCorrect, PTL

(* Admins and owners are made by owners, whatever overlaps or fails.          *)
THEOREM GrantedByOwners == MCSpec => OwnersGrant
<1> DEFINE Granted ==
        \A u \in Users : role'[u] # role[u] /\ AtLeast(role'[u], "admin") =>
          \E h \in Handlers : pc[h] = "write" /\ req[h].target = u /\ req[h].callerRole = "owner"
<1>1. ASSUME MembershipInv, [MCNext]_mcVars PROVE [Granted]_vars
    <2> SUFFICES ASSUME NEW u \in Users, role'[u] # role[u], AtLeast(role'[u], "admin")
                 PROVE  \E h \in Handlers : /\ pc[h] = "write" /\ req[h].target = u
                                            /\ req[h].callerRole = "owner"
        OBVIOUS
    <2>1. PICK h \in Handlers : WriteMember(h)
        BY <1>1 DEF MCNext, Next, mcVars, vars, handleAddMember, handleSetMemberRole,
                    handleRemoveMember, Authorize, applyRole, guardLastOwner, CountOrgOwners,
                    StatementFails
    <2>2. /\ req[h].target = u
          /\ role'[u] = IF req[h].newRole = Removal THEN NotMember ELSE req[h].newRole
        BY <1>1, <2>1 DEF WriteMember, MembershipInv, TypeOK
    <2>3. role'[u] = req[h].newRole /\ req[h].newRole # Removal
        BY <2>2, AdminOrOwner DEF NotMember
    <2>4. req[h].callerRole = "owner"
        BY <1>1, <2>1, <2>3 DEF MembershipInv, GrantsAuthorised, canGrantRole, WriteMember
    <2> QED BY <2>1, <2>2, <2>4 DEF WriteMember
<1>2. OwnersGrant <=> [][Granted]_vars
    BY DEF OwnersGrant
<1> QED BY <1>1, <1>2, MembershipCorrect, PTL DEF MCSpec, mcVars

(* Without contention an owner gets a lower role by the request of an owner.  *)
THEOREM DemotedByOwners == MCSpec => OwnersDemoteOwners
<1> DEFINE Demoted ==
        \A u \in Users :
          Undisturbed /\ role[u] = "owner" /\ role'[u] \notin {"owner", NotMember} =>
            \E h \in Handlers : pc[h] = "write" /\ req[h].target = u /\ req[h].callerRole = "owner"
<1>1. ASSUME MembershipInv, [MCNext]_mcVars PROVE [Demoted]_vars
    <2> SUFFICES ASSUME NEW u \in Users, Undisturbed, role[u] = "owner",
                        role'[u] \notin {"owner", NotMember}
                 PROVE  \E h \in Handlers : /\ pc[h] = "write" /\ req[h].target = u
                                            /\ req[h].callerRole = "owner"
        OBVIOUS
    <2>1. PICK h \in Handlers : WriteMember(h)
        BY <1>1 DEF MCNext, Next, mcVars, vars, handleAddMember, handleSetMemberRole,
                    handleRemoveMember, Authorize, applyRole, guardLastOwner, CountOrgOwners,
                    StatementFails
    <2>2. /\ req[h].target = u
          /\ role'[u] = IF req[h].newRole = Removal THEN NotMember ELSE req[h].newRole
        BY <1>1, <2>1 DEF WriteMember, MembershipInv, TypeOK
    <2>3. req[h].callerRole = "owner"
        BY <1>1, <2>1, <2>2 DEF MembershipInv, OwnerAsked, WriteMember
    <2> QED BY <2>1, <2>2, <2>3 DEF WriteMember
<1>2. OwnersDemoteOwners <=> [][Demoted]_vars
    BY DEF OwnersDemoteOwners
<1> QED BY <1>1, <1>2, MembershipCorrect, PTL DEF MCSpec, mcVars

==============================================================================
