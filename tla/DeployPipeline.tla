--------------------------- MODULE DeployPipeline ----------------------------
(* The API, the builders and the controller on one database: every way a      *)
(* deploy is created, built, handed over, applied and torn down.              *)
EXTENDS Builder, Controller

VARIABLES
    outbox,       \* notifications an API handler has yet to publish
    applying,     \* settings requests about to re-deploy: <<service, version, image>>
    prOpen        \* the preview targets whose pull request is open

apiVars == <<outbox, applying, prOpen>>

vars == <<rowVars, busVars, builderVars, controllerVars, apiVars>>

Init == /\ StoreInit
        /\ BusInit
        /\ BuilderInit
        /\ ControllerInit
        /\ outbox = {}
        /\ applying = {}
        /\ prOpen = {}

others == <<busVars, builderVars, controllerVars>>

------------------------------------------------------------------------------
(* The API handlers.  The row is committed first and the notification sent in *)
(* a statement of its own; between the two anything may happen.               *)

(* enqueueDeploy, for a manual deploy and for each service a push matches.    *)
EnqueueDeploy(d, s) ==
    /\ createBuildableDeploy(d, <<s, Production>>)
    /\ outbox' = outbox \cup {<<DeployChannel, d>>}
    /\ UNCHANGED <<applying, prOpen, others>>

(* handlePullRequest on opened, reopened, synchronize: enqueuePreview.        *)
EnqueuePreview(d, s, pr) ==
    /\ createBuildableDeploy(d, <<s, pr>>)
    /\ prOpen' = prOpen \cup {<<s, pr>>}
    /\ outbox' = outbox \cup {<<DeployChannel, d>>}
    /\ UNCHANGED <<applying, others>>

(* handlePullRequest on closed: no row is touched, a teardown is requested.   *)
ClosePullRequest(t) ==
    /\ t \in prOpen
    /\ prOpen' = prOpen \ {t}
    /\ outbox' = outbox \cup {<<TeardownChannel, t>>}
    /\ UNCHANGED <<applying, rowVars, others>>

ImageDeploy(d, s, i) ==
    /\ createImagedDeploy(d, s, i)
    /\ outbox' = outbox \cup {<<DeploymentChannel, d>>}
    /\ UNCHANGED <<applying, prOpen, others>>

(* handleRollback: any deploy that has an image can be rolled back to.        *)
Rollback(d, from) ==
    /\ image[from] # NoImage
    /\ createImagedDeploy(d, target[from][1], image[from])
    /\ outbox' = outbox \cup {<<DeploymentChannel, d>>}
    /\ UNCHANGED <<applying, prOpen, others>>

(* Mutant: the new settings are stored and not applied.                       *)
ChangeSettingsOnly(s) ==
    /\ settings[s] < MaxSettings
    /\ settings' = [settings EXCEPT ![s] = @ + 1]
    /\ UNCHANGED <<cphase, cpc, spec, cluster, apiVars, rowVars, busVars, builderVars>>

(* A settings handler stores the new settings, then applies them: its request *)
(* is named by the service, the version it stored and the image it has found. *)
ChangeSettings(s) ==
    /\ settings[s] < MaxSettings
    /\ settings' = [settings EXCEPT ![s] = @ + 1]
    /\ applying' = applying \cup {<<s, settings[s] + 1, NoImage>>}
    /\ UNCHANGED <<cphase, cpc, spec, cluster, outbox, prOpen, rowVars, busVars, builderVars>>

(* applyServiceChange, when the service has never produced an image ...       *)
NothingToApply(a) ==
    /\ a[3] = NoImage
    /\ ImagedDeploys(a[1]) = {}
    /\ applying' = applying \ {a}
    /\ UNCHANGED <<outbox, prOpen, rowVars, others>>

(* ... when it has: the newest one is looked up ...                           *)
LookUpImage(a, last) ==
    /\ a[3] = NoImage
    /\ LatestImagedDeploy(a[1], last)
    /\ applying' = (applying \ {a}) \cup {<<a[1], a[2], image[last]>>}
    /\ UNCHANGED <<outbox, prOpen, rowVars, others>>

(* ... and deployed again, to production.                                     *)
ApplyServiceChange(d, a) ==
    /\ a[3] # NoImage
    /\ createImagedDeploy(d, a[1], a[3])
    /\ applying' = applying \ {a}
    /\ outbox' = outbox \cup {<<DeploymentChannel, d>>}
    /\ UNCHANGED <<prOpen, others>>

Publish(m) ==
    /\ m \in outbox
    /\ Notify(m[1], m[2])
    /\ outbox' = outbox \ {m}
    /\ UNCHANGED <<listening, faults, applying, prOpen, rowVars, builderVars, controllerVars>>

(* The API process dies, or the statement errors, before the notification.    *)
PublishFails(m) ==
    /\ m \in outbox
    /\ Fault
    /\ outbox' = outbox \ {m}
    /\ UNCHANGED <<listening, inbox, applying, prOpen, rowVars, builderVars, controllerVars>>

(* ... or before the settings it stored are applied.                          *)
ApplyServiceChangeFails(a) ==
    /\ Fault
    /\ applying' = applying \ {a}
    /\ UNCHANGED <<listening, inbox, outbox, prOpen, rowVars, builderVars, controllerVars>>

------------------------------------------------------------------------------
UserRequest ==
    \/ \E d \in DeployId, s \in Services :
          \/ EnqueueDeploy(d, s)
          \/ \E pr \in PRs : EnqueuePreview(d, s, pr)
          \/ \E i \in Prebuilt : ImageDeploy(d, s, i)
    \/ \E d, from \in DeployId : Rollback(d, from)
    \/ \E t \in prOpen : ClosePullRequest(t)
    \/ \E s \in Services : ChangeSettings(s)

ApplyChange(a) ==
    \/ NothingToApply(a)
    \/ \E last \in DeployId : LookUpImage(a, last)
    \/ \E d \in DeployId : ApplyServiceChange(d, a)

BuilderAction ==
    \/ \E b \in Builders : BuilderStep(b) \/ BuilderCrash(b)
    \/ \E w \in Worker : Claim(w) \/ WorkerStep(w) \/ BuilderStatementFails(w)

ControllerAction ==
    \/ ControllerStep
    \/ ControllerCrash
    \/ \E d \in DeployId : ControllerStatementFails(d)
    \/ \E t \in Target : TeardownFails(t)

ApiAction ==
    \/ UserRequest
    \/ \E a \in applying : ApplyChange(a) \/ ApplyServiceChangeFails(a)
    \/ \E m \in outbox : Publish(m) \/ PublishFails(m)

Next ==
    \/ ApiAction
    \/ BuilderAction /\ UNCHANGED <<controllerVars, apiVars>>
    \/ ControllerAction /\ UNCHANGED <<builderVars, apiVars>>

Spec == Init /\ [][Next]_vars

(* What runs on its own once started: a process is restarted by systemd       *)
(* (Restart=always), a listener handles what it is sent, a goroutine executes *)
(* its statements to the end (the rollout has a timeout), an API handler that *)
(* has committed a row goes on.  The commands of a build have no timeout:     *)
(* nothing makes a build end.  No user request and no failure is ever owed.   *)
BuilderOnly(A) == A /\ UNCHANGED <<controllerVars, apiVars>>
ControllerOnly(A) == A /\ UNCHANGED <<builderVars, apiVars>>

Fairness ==
    /\ \A b \in Builders :
          /\ WF_vars(BuilderOnly(StartBuilder(b)))
          /\ WF_vars(BuilderOnly(Sweep(b)))
          /\ WF_vars(BuilderOnly(ListenDeploys(b)))
          /\ \A d \in DeployId : WF_vars(BuilderOnly(HandleDeploy(b, d)))
    /\ \A w \in Worker : WF_vars(BuilderOnly(Claim(w) \/ (bpc[w] # "build" /\ WorkerStep(w))))
    /\ WF_vars(ControllerOnly(StartController))
    /\ \A channel \in Subscriptions(Controller) :
          WF_vars(ControllerOnly(ListenController(channel)))
    /\ \A d \in DeployId :
          /\ WF_vars(ControllerOnly(HandleDeployment(d)))
          /\ WF_vars(ControllerOnly(ReconcileStep(d)))
    /\ \A t \in Target : WF_vars(ControllerOnly(Teardown(t)))
    /\ \A s \in Services, v \in Version :
          WF_vars(\E a \in applying : a[1] = s /\ a[2] = v /\ ApplyChange(a))
    /\ \A d \in DeployId, ch \in {DeployChannel, DeploymentChannel} :
          WF_vars(Publish(<<ch, d>>))
    /\ \A t \in Target : WF_vars(Publish(<<TeardownChannel, t>>))

FairSpec == Spec /\ Fairness

------------------------------------------------------------------------------
(* Properties.                                                                *)

Message == ({DeployChannel, DeploymentChannel} \X DeployId)
              \cup ({TeardownChannel} \X Target)

SettingsRequest == Services \X Version \X (Image \cup {NoImage})

(* Every variable has its type.                                               *)
TypeOK ==
    /\ status \in [DeployId -> Status \cup {"none"}]
    /\ image \in [DeployId -> Image \cup {NoImage}]
    /\ build \in [DeployId -> BuildStatus \cup {"none"}]
    /\ target \in [DeployId -> Target \cup {NoTarget}]
    /\ listening \in [Process -> SUBSET {DeployChannel, DeploymentChannel, TeardownChannel}]
    /\ inbox \in [Process -> SUBSET Message]
    /\ faults \in 0..MaxFaults
    /\ bphase \in [Builders -> {"down", "up", "swept"}]
    /\ bpc \in [Worker -> BuilderPC]
    /\ registry \in SUBSET DeployId
    /\ cphase \in {"down", "up"}
    /\ cpc \in [DeployId -> ReconcilePC]
    /\ spec \in [DeployId -> Workload \cup {NoWorkload}]
    /\ settings \in [Services -> Version]
    /\ cluster \in [Target -> Workload \cup {NoWorkload}]
    /\ outbox \in SUBSET Message
    /\ applying \in SUBSET SettingsRequest
    /\ prOpen \in SUBSET Target

(* The deploy is the controller's: its notification is being published, is    *)
(* delivered, or its reconcile goroutine runs.                                *)
HandedOver(d) ==
    \/ <<DeploymentChannel, d>> \in outbox
    \/ <<DeploymentChannel, d>> \in inbox[Controller]
    \/ cpc[d] # "idle"

(* The goroutine has won the claim of its deploy and has not given it up.     *)
Owns(w) == bpc[w] \in BuildingPC \cup {"notify"}

(* A deploy is built by one goroutine at a time, whatever mixture of startup  *)
(* sweeps and notifications started goroutines for it, never while the        *)
(* controller has it ("so the same deploy never builds twice",                *)
(* builder/processor.go), and the controller is asked for it only once.       *)
OneOwner ==
    /\ \A v, w \in Worker : v[3] = w[3] /\ Owns(v) /\ Owns(w) => v = w
    /\ \A w \in Worker : Owns(w) => ~HandedOver(w[3])
    /\ \A d \in DeployId :
          /\ cpc[d] # "idle" => <<DeploymentChannel, d>> \notin inbox[Controller]
          /\ <<DeploymentChannel, d>> \in outbox =>
                cpc[d] = "idle" /\ <<DeploymentChannel, d>> \notin inbox[Controller]

(* The pipeline implements the lifecycle of the deploys table.  In particular *)
(* the unguarded UPDATE of UpdateDeployStatus never leaves the status         *)
(* machine, although the SELECT it relies on may be stale by then, and no     *)
(* image column is overwritten.                                               *)
Lifecycle == INSTANCE DeployLifecycle WITH status <- status, image <- image
ImplementsLifecycle == Lifecycle!Spec

(* Whatever the platform may run exists: a deploy that reached the cluster    *)
(* stage has an image that was pushed before, and so has every workload.      *)
ImagePushed ==
    /\ \A d \in DeployId : status[d] \in {"deploying", "live"} =>
          image[d] \in registry \cup Prebuilt
    /\ \A t \in Target : cluster[t] # NoWorkload =>
          cluster[t].image \in registry \cup Prebuilt

(* A workload always runs a deploy made for that very target, with that       *)
(* deploy's image, and a deploy that did reach the cluster stage.             *)
ClusterRunsItsDeploys ==
    \A t \in Target : cluster[t] # NoWorkload =>
        LET d == cluster[t].deploy IN
        /\ target[d] = t
        /\ image[d] = cluster[t].image
        /\ status[d] \in {"deploying", "live", "failed"}

(* The build row never contradicts the deploy row: a failed build means the   *)
(* deploy is failed or is being failed, and a deploy that got past its build  *)
(* has a build that succeeded or, when only the FinishBuild statement was     *)
(* lost, is still shown running.                                              *)
BuildAgrees ==
    \A d \in DeployId :
        /\ build[d] = "failed" => status[d] \in {"building", "failed"}
        /\ status[d] \in {"deploying", "live"} =>
              build[d] = "succeeded" \/ (build[d] = "running" /\ faults > 0)

------------------------------------------------------------------------------
(* The parts of the inductive invariant behind these properties.              *)

(* Whoever owns a deploy knows its status: that is why the unguarded UPDATE   *)
(* of UpdateDeployStatus is safe.                                             *)
OwnerKnowsStatus ==
    /\ \A w \in Worker : bpc[w] \in BuildingPC => status[w[3]] = "building"
    /\ \A w \in Worker : bpc[w] = "notify" => status[w[3]] = "deploying"
    /\ \A d \in DeployId : HandedOver(d) => status[d] = "deploying"

OwnershipInv == OneOwner /\ OwnerKnowsStatus

(* A row without a target is one that does not exist yet.                     *)
TargetInv == \A d \in DeployId : target[d] = NoTarget <=> status[d] = "none"

(* Where a deploy's image stands in each phase of its build.                  *)
ImageInv ==
    /\ \A w \in Worker : bpc[w] \in {"start", "build", "set_image"} => image[w[3]] = NoImage
    /\ \A w \in Worker : bpc[w] = "set_image" => w[3] \in registry
    /\ \A w \in Worker : bpc[w] \in {"finish", "check_deploying", "write_deploying"} =>
          image[w[3]] # NoImage
    /\ \A d \in DeployId : status[d] \in {"none", "queued"} => image[d] = NoImage
    /\ \A d \in DeployId : status[d] \in {"deploying", "live"} => image[d] # NoImage
    /\ \A d \in DeployId : image[d] # NoImage => image[d] \in registry \cup Prebuilt

(* A settings request re-deploys an image that was pushed.                    *)
ApplyingInv == \A a \in applying : a[3] # NoImage => a[3] \in registry \cup Prebuilt

(* A loaded spec describes its deploy until it is applied.                    *)
SpecInv ==
    \A d \in DeployId : cpc[d] = "apply" => spec[d].deploy = d /\ spec[d].image = image[d]
                                            /\ spec[d] # NoWorkload

PipelineInv == /\ TypeOK
               /\ OwnershipInv
               /\ TargetInv
               /\ ImageInv
               /\ ApplyingInv
               /\ SpecInv
               /\ ClusterRunsItsDeploys

------------------------------------------------------------------------------
(* Progress: what is certain to be finished unless a failure strikes first.   *)

Reconciling == DeploymentChannel \in listening[Controller]

(* A build command is running for d.                                          *)
InBuild(d) == \E w \in Worker : w[3] = d /\ bpc[w] = "build"

(* A deploy that has been delivered to a builder, and one whose build has     *)
(* ended, goes on: process and reconcile record an outcome, live or failed,   *)
(* unless the build does not end or a failure strikes first.                  *)
DeliveredTerminates ==
    \A d \in DeployId, f \in 0..MaxFaults :
        /\ faults = f /\ Reconciling
        /\ \/ status[d] = "queued" /\ \E b \in Builders : <<DeployChannel, d>> \in inbox[b]
           \/ \E w \in Worker : w[3] = d /\ bpc[w] \in BuildingPC \ {"build"}
        ~> status[d] \in {"live", "failed"} \/ InBuild(d) \/ faults # f

(* Somebody is to act on d: the notification of a queued deploy is with a     *)
(* builder or about to reach one, a goroutine is about to claim it, one owns  *)
(* it, or it is the controller's.                                             *)
Attended(d) ==
    \/ /\ status[d] = "queued"
       /\ \/ \E b \in Builders :
                \/ <<DeployChannel, d>> \in inbox[b]
                \/ <<DeployChannel, d>> \in outbox /\ DeployChannel \in listening[b]
          \/ \E w \in Worker : w[3] = d /\ bpc[w] = "claim"
    \/ \E w \in Worker : w[3] = d /\ Owns(w)
    \/ HandedOver(d)

(* The safety in it: between the handlers, the goroutines that compete for a  *)
(* claim and the controller, nothing but a failure lets go of a deploy that   *)
(* is attended to before its outcome is recorded.  A goroutine returns from a *)
(* lost claim or a refused transition only when the deploy is another's       *)
(* (process in builder/processor.go), and no notification starts a second     *)
(* goroutine in the place of one that works.                                  *)
NeverDropped ==
    [][\A d \in DeployId : Attended(d) /\ Reconciling /\ faults' = faults =>
          Attended(d)' \/ IsTerminal(status'[d])]_vars

(* A deploy that is queued while a builder is down is claimed after the       *)
(* builder's restart, though its notification is lost ("Sweep anything queued *)
(* while we were down", builder/processor.go).                                *)
SweepRecovers ==
    \A d \in DeployId, f \in 0..MaxFaults :
        faults = f /\ (\E b \in Builders : bphase[b] = "down") /\ status[d] = "queued"
        ~> status[d] # "queued" \/ faults # f

------------------------------------------------------------------------------
(* What the repository's own words promise and its code does not keep.        *)

(* No queued deploy stalls for ever once the builder runs: "deploys enqueued  *)
(* before startup would otherwise stall forever" (builder/processor.go).      *)
QueuedIsClaimed ==
    \A d \in DeployId, f \in 0..MaxFaults :
        faults = f /\ status[d] = "queued" ~> status[d] # "queued" \/ faults # f

(* "an isolated environment" (README.md): a settings change never puts the    *)
(* image a preview built into production.                                     *)
SettingsKeepPreviewsApart ==
    [][\A d \in DeployId, a \in applying :
          ApplyServiceChange(d, a) =>
             \A e \in DeployId : a[3] = e => target[e][2] = Production]_vars

==============================================================================
