------------------------------ MODULE Controller -----------------------------
(* The controller process on the deployment and teardown channels             *)
(* (internal/controller/processor.go, internal/k8s/reconcile.go).  It starts  *)
(* one goroutine per notification; it has no sweep.  The cluster is what the  *)
(* workload objects of each target run.                                       *)
EXTENDS DeployStore, EventBus

CONSTANT
    MaxSettings   \* bound: how often a service's settings may change

ASSUME SettingsAssumption == MaxSettings \in Nat

ReconcilePC == {"idle", "load", "apply", "rollout", "check_live", "write_live",
                "check_failed", "write_failed"}

Version == 0..MaxSettings

(* What a workload runs: the deploy that applied it, its image, and the       *)
(* version of the service's settings it was applied with.                     *)
Workload == [deploy : DeployId, image : Image, version : Version]

NoWorkload == [deploy |-> 0, image |-> NoImage, version |-> 0]

VARIABLES
    cphase,       \* "down" or "up": the controller process
    cpc,          \* [DeployId -> ReconcilePC]: the goroutine of a deploy
    spec,         \* [DeployId -> Workload or NoWorkload]: the ServiceSpec it has
                  \* loaded and not applied yet
    settings,     \* [Services -> Version]: the settings columns of a service
    cluster       \* [Target -> Workload or NoWorkload]

controllerVars == <<cphase, cpc, spec, settings, cluster>>

ControllerInit ==
    /\ cphase = "down"
    /\ cpc = [d \in DeployId |-> "idle"]
    /\ spec = [d \in DeployId |-> NoWorkload]
    /\ settings = [s \in Services |-> 0]
    /\ cluster = [t \in Target |-> NoWorkload]

GotoC(d, pc) == cpc' = [cpc EXCEPT ![d] = pc]

StartController ==
    /\ cphase = "down"
    /\ cphase' = "up"
    /\ UNCHANGED <<cpc, spec, settings, cluster, rowVars, busVars>>

(* Run starts its listeners concurrently: the LISTENs come in any order.      *)
ListenController(channel) ==
    /\ cphase = "up"
    /\ Listen(Controller, channel)
    /\ UNCHANGED <<controllerVars, rowVars>>

HandleDeployment(d) ==
    /\ Receive(Controller, DeploymentChannel, d)
    /\ GotoC(d, "load")
    /\ UNCHANGED <<cphase, spec, settings, cluster, rowVars, listening, faults>>

(* reconcile builds its spec from the deploy row and from the settings and    *)
(* environment as they are now; a row without an image is failed.             *)
LoadSpec(d) ==
    /\ cpc[d] = "load"
    /\ \/ /\ image[d] = NoImage
          /\ GotoC(d, "check_failed")
          /\ UNCHANGED spec
       \/ /\ image[d] # NoImage
          /\ spec' = [spec EXCEPT ![d] =
                        [deploy |-> d, image |-> image[d],
                         version |-> settings[target[d][1]]]]
          /\ GotoC(d, "apply")
    /\ UNCHANGED <<cphase, settings, cluster, rowVars, busVars>>

(* Mutant: the workload name ignores the pull request.                        *)
ApplyWorkloadAsProduction(d) ==
    /\ cpc[d] = "apply"
    /\ cluster' = [cluster EXCEPT ![<<target[d][1], Production>>] = spec[d]]
    /\ spec' = [spec EXCEPT ![d] = NoWorkload]
    /\ GotoC(d, "rollout")
    /\ UNCHANGED <<cphase, settings, rowVars, busVars>>

(* Mutant: the Deployment is created, and one that exists is kept.            *)
CreateWorkload(d) ==
    /\ cpc[d] = "apply"
    /\ cluster' = [cluster EXCEPT ![target[d]] = IF @ = NoWorkload THEN spec[d] ELSE @]
    /\ spec' = [spec EXCEPT ![d] = NoWorkload]
    /\ GotoC(d, "rollout")
    /\ UNCHANGED <<cphase, settings, rowVars, busVars>>

(* Apply up to the Deployment object: server-side apply, last writer wins.    *)
ApplyWorkload(d) ==
    /\ cpc[d] = "apply"
    /\ cluster' = [cluster EXCEPT ![target[d]] = spec[d]]
    /\ spec' = [spec EXCEPT ![d] = NoWorkload]
    /\ GotoC(d, "rollout")
    /\ UNCHANGED <<cphase, settings, rowVars, busVars>>

(* Apply returns an error before it has written the Deployment.               *)
ApplyFails(d) ==
    /\ cpc[d] = "apply"
    /\ spec' = [spec EXCEPT ![d] = NoWorkload]
    /\ GotoC(d, "check_failed")
    /\ UNCHANGED <<cphase, settings, cluster, rowVars, busVars>>

(* waitForRollout looks at whatever Deployment has the name by then.          *)
RolloutCompletes(d) ==
    /\ cpc[d] = "rollout"
    /\ cluster[target[d]] # NoWorkload
    /\ GotoC(d, "check_live")
    /\ UNCHANGED <<cphase, spec, settings, cluster, rowVars, busVars>>

(* Mutant: a rollout that times out is only logged.                           *)
RolloutErrorIgnored(d) ==
    /\ cpc[d] = "rollout"
    /\ GotoC(d, "idle")
    /\ UNCHANGED <<cphase, spec, settings, cluster, rowVars, busVars>>

(* A later object of Apply fails, or the rollout times out.                   *)
RolloutFails(d) ==
    /\ cpc[d] = "rollout"
    /\ GotoC(d, "check_failed")
    /\ UNCHANGED <<cphase, spec, settings, cluster, rowVars, busVars>>

CheckStatusC(d, from, to, next) ==
    /\ cpc[d] = from
    /\ GotoC(d, IF StatusAllows(d, to) THEN next ELSE "idle")
    /\ UNCHANGED <<cphase, spec, settings, cluster, rowVars, busVars>>

UpdateStatusC(d, from, to) ==
    /\ cpc[d] = from
    /\ WriteStatus(d, to)
    /\ GotoC(d, "idle")
    /\ UNCHANGED <<cphase, spec, settings, cluster, busVars>>

(* teardown: delete the preview's objects; a missing object is ignored.       *)
Teardown(t) ==
    /\ Receive(Controller, TeardownChannel, t)
    /\ cluster' = [cluster EXCEPT ![t] = NoWorkload]
    /\ UNCHANGED <<cphase, cpc, spec, settings, rowVars, listening, faults>>

(* The load of the service or the first delete fails: logged, not retried.    *)
TeardownFails(t) ==
    /\ Receive(Controller, TeardownChannel, t)
    /\ Fault
    /\ UNCHANGED <<controllerVars, rowVars, listening>>

(* DeployByID failing ends the goroutine; a later load fails the deploy.      *)
OnErrorC == [load         |-> {"idle", "check_failed"},
             check_live   |-> {"idle"},
             write_live   |-> {"idle"},
             check_failed |-> {"idle"},
             write_failed |-> {"idle"}]

ControllerStatementFails(d) ==
    /\ cpc[d] \in DOMAIN OnErrorC
    /\ Fault
    /\ \E pc \in OnErrorC[cpc[d]] : GotoC(d, pc)
    /\ UNCHANGED <<cphase, spec, settings, cluster, rowVars, listening, inbox>>

(* Killed, stopped, or one listener lost its connection: the errgroup cancels *)
(* the others and the process exits with every goroutine in flight.           *)
ControllerCrash ==
    /\ cphase = "up"
    /\ Disconnect(Controller)
    /\ cphase' = "down"
    /\ cpc' = [d \in DeployId |-> "idle"]
    /\ spec' = [d \in DeployId |-> NoWorkload]
    /\ UNCHANGED <<settings, cluster, rowVars>>

ReconcileStep(d) ==
    \/ LoadSpec(d)
    \/ ApplyWorkload(d)
    \/ ApplyFails(d)
    \/ RolloutCompletes(d)
    \/ RolloutFails(d)
    \/ CheckStatusC(d, "check_live", "live", "write_live")
    \/ UpdateStatusC(d, "write_live", "live")
    \/ CheckStatusC(d, "check_failed", "failed", "write_failed")
    \/ UpdateStatusC(d, "write_failed", "failed")

ControllerStep ==
    \/ StartController
    \/ \E channel \in Subscriptions(Controller) : ListenController(channel)
    \/ \E d \in DeployId : HandleDeployment(d) \/ ReconcileStep(d)
    \/ \E t \in Target : Teardown(t)

==============================================================================
