--------------------------- MODULE MCOrgMembership ---------------------------
(* The membership with a record of whether two requests have ever been        *)
(* handled at the same time: each guard is a statement before the write it    *)
(* guards, and protects against one request at a time.                        *)
EXTENDS OrgMembership, TLC

VARIABLE raced    \* "no" or "yes"

Contended == \E g, h \in Handlers : g # h /\ pc[g] # "idle" /\ pc[h] # "idle"

MCInit == Init /\ raced = "no"

MCNext == Next /\ raced' = IF Contended' THEN "yes" ELSE raced

MCSpec == MCInit /\ [][MCNext]_<<vars, raced>>

(* Handlers are alike, and so are the users who did not found the org.        *)
Symmetry == Permutations(Handlers) \cup Permutations(Users \ {Founder})

Undisturbed == raced = "no" /\ faults = 0

(* The org keeps an owner over any sequence of requests: guardLastOwner       *)
(* "rejects changes that would leave the org with no owner", as long as no    *)
(* two requests overlap and its reads do not fail.                            *)
HasOwner == Undisturbed => Owners # {}

(* "only owners may modify an existing owner" (applyRole): an owner is given  *)
(* a lower role by the request of an owner only, under the same conditions.   *)
OwnersDemoteOwners ==
    [][\A u \in Users :
          Undisturbed /\ role[u] = "owner" /\ role'[u] \notin {"owner", NotMember} =>
             \E h \in Handlers : pc[h] = "write" /\ req[h].target = u /\ req[h].callerRole = "owner"]_vars

==============================================================================
