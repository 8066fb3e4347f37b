-------------------------- MODULE MCDeployPipeline ---------------------------
(* The pipeline with a record of the targets that have had two deploys in     *)
(* flight at once.  Nothing in the code orders such deploys: what it promises *)
(* about the workload of a target holds for the others.                       *)
EXTENDS DeployPipeline

VARIABLE raced    \* SUBSET Target

InFlight(t) == {d \in DeployId : target[d] = t /\ status[d] \in {"queued", "building", "deploying"}}

Contended(t) == \E d, e \in InFlight(t) : d # e

MCInit == Init /\ raced = {}

MCNext == Next /\ raced' = raced \cup {t \in Target : Contended(t)'}

MCSpec == MCInit /\ [][MCNext]_<<vars, raced>>

Quiescent ==
    /\ outbox = {} /\ applying = {}
    /\ \A p \in Process : inbox[p] = {}
    /\ \A w \in Worker : bpc[w] = "idle"
    /\ \A d \in DeployId : cpc[d] = "idle"

(* "a new deploy supersedes it" (deploy/state.go): a workload never falls     *)
(* back behind the newest live deploy of its target, if the deploys of that   *)
(* target came one after the other.                                           *)
NewestSupersedes ==
    \A t \in Target \ raced, d \in DeployId :
        target[d] = t /\ status[d] = "live" /\ cluster[t] # NoWorkload =>
            cluster[t].deploy >= d

(* "re-applies the current settings" (api/settings_handlers.go): when all is  *)
(* quiet, nothing has failed and the newest deploy of a service is live, the  *)
(* workload has the service's current settings, whenever they were changed.   *)
SettingsSettle ==
    Quiescent /\ faults = 0 => \A s \in Services, d \in DeployId :
        LET t == <<s, Production>> IN
        /\ t \notin raced
        /\ target[d] = t /\ status[d] = "live"
        /\ \A e \in DeployId : target[e] = t => e <= d
        => cluster[t].version = settings[s]

==============================================================================
