------------------------ MODULE MCDeployPipelineProofs -----------------------
(* What a target's workload runs when its deploys come one after the other:   *)
(* never an older deploy than the newest live one, and in the end the current *)
(* settings.  For any number of builders, services, deploys and failures.     *)
EXTENDS MCDeployPipeline, DeployPipelineProofs

USE ImageAssumption, BusAssumption, SettingsAssumption
USE DEF DeployId, Image, Process, DeployChannel, DeploymentChannel, TeardownChannel

------------------------------------------------------------------------------
(* The inductive invariant.                                                   *)

(* A target that is not marked has at most one deploy in flight, its newest:  *)
(* ids are handed out in order.                                               *)
InFlightIsNewest ==
    /\ \A d, e \in DeployId : e < d /\ status[d] # "none" => status[e] # "none"
    /\ \A t \in Target \ raced : ~Contended(t)
    /\ \A t \in Target \ raced : \A d \in InFlight(t), e \in DeployId :
          target[e] = t => e <= d

(* The Deployment object of d has been written by d's own goroutine.          *)
Written(d) == cpc[d] \in {"rollout", "check_live", "write_live"} \/ status[d] = "live"

(* What NewestSupersedes says of a live deploy holds from the write on.       *)
WrittenSupersedes ==
    \A t \in Target \ raced, d \in DeployId :
        target[d] = t /\ Written(d) /\ cluster[t] # NoWorkload => cluster[t].deploy >= d

(* Only previews are ever torn down.                                          *)
PreviewsTornDown ==
    /\ \A t \in prOpen : t[2] # Production
    /\ \A t \in Target : <<TeardownChannel, t>> \in outbox \cup inbox[Controller] =>
          t[2] # Production

(* The version is that of the settings now, or a request is on its way to     *)
(* deploy them.                                                               *)
Current(s, v) == v = settings[s] \/ \E a \in applying : a[1] = s

Newest(d, t) == target[d] = t /\ \A e \in DeployId : target[e] = t => e <= d

(* What the newest deploy of a service has read or written is current.        *)
NewestIsCurrent ==
    faults = 0 => \A s \in Services, d \in DeployId :
        LET t == <<s, Production>> IN
        t \notin raced /\ Newest(d, t) =>
            /\ cpc[d] = "apply" => Current(s, spec[d].version)
            /\ Written(d) => Current(s, cluster[t].version)

RaceInv == InFlightIsNewest /\ WrittenSupersedes /\ PreviewsTornDown /\ NewestIsCurrent

------------------------------------------------------------------------------
(* A step of the pipeline with the record of contended targets.               *)
LEMMA RecordedStep ==
    ASSUME [MCNext]_<<vars, raced>>
    PROVE  /\ [Next]_vars
           /\ \/ raced' = raced \cup {t \in Target : Contended(t)'}
              \/ UNCHANGED <<vars, raced>>
BY DEF MCNext

(* What is proved of the pipeline alone holds here.                           *)
LEMMA RecordedPipeline == MCSpec => Spec
<1>1. MCInit => Init BY DEF MCInit
<1>2. [MCNext]_<<vars, raced>> => [Next]_vars BY RecordedStep
<1> QED BY <1>1, <1>2, PTL DEF MCSpec, Spec

(* A row that exists keeps its target.                                        *)
LEMMA TargetsKept ==
    ASSUME PipelineInv, [Next]_vars, NEW d \in DeployId, status[d] # "none"
    PROVE  target'[d] = target[d] /\ status'[d] # "none"
<1>1. RowStep BY RowsStep
<1> USE DEF PipelineInv, TypeOK
<1>2. CASE RowsKept BY <1>2 DEF RowsKept
<1>3. ASSUME NEW e \in DeployId, RowQueued(e) \/ RowImaged(e) \/ RowRecorded(e)
      PROVE target'[d] = target[d] /\ status'[d] # "none"
    BY <1>3 DEF RowQueued, RowImaged, RowRecorded
<1>4. ASSUME NEW e \in DeployId, NEW to \in Status, RowMoved(e, to)
      PROVE target'[d] = target[d] /\ status'[d] # "none"
    BY <1>4 DEF RowMoved, Status
<1> QED BY <1>1, <1>2, <1>3, <1>4 DEF RowStep

(* A row that appears is in flight and has the next id.                       *)
LEMMA NewRow ==
    ASSUME PipelineInv, [Next]_vars, NEW d \in DeployId, status[d] = "none",
           status'[d] # "none"
    PROVE  /\ status'[d] \in {"queued", "deploying"}
           /\ \A e \in 1..(d - 1) : status[e] # "none"
           /\ \A e \in DeployId : e # d => status'[e] = status[e] /\ target'[e] = target[e]
<1>1. RowStep BY RowsStep
<1> USE DEF PipelineInv, TypeOK
<1>2. ~RowsKept BY DEF RowsKept
<1>3. ASSUME NEW e \in DeployId, RowQueued(e) \/ RowImaged(e) PROVE e = d
    BY <1>3 DEF RowQueued, RowImaged
<1>4. ASSUME NEW e \in DeployId, RowRecorded(e) PROVE FALSE
    BY <1>4 DEF RowRecorded
<1>5. ASSUME NEW e \in DeployId, NEW to \in Status, RowMoved(e, to) PROVE FALSE
    BY <1>5 DEF RowMoved
<1>6. RowQueued(d) \/ RowImaged(d)
    BY <1>1, <1>2, <1>3, <1>4, <1>5 DEF RowStep
<1> QED BY <1>6 DEF RowQueued, RowImaged

(* A deploy that has landed is in flight no more.                             *)
LEMMA FlightsEnd ==
    ASSUME PipelineInv, [Next]_vars, NEW d \in DeployId,
           status'[d] \in {"queued", "building", "deploying"}, status[d] # "none"
    PROVE  status[d] \in {"queued", "building", "deploying"}
<1>1. RowStep BY RowsStep
<1> USE DEF PipelineInv, TypeOK
<1>2. CASE RowsKept BY <1>2 DEF RowsKept, Status
<1>3. ASSUME NEW e \in DeployId, RowQueued(e) \/ RowImaged(e) \/ RowRecorded(e)
      PROVE status[d] \in {"queued", "building", "deploying"}
    BY <1>3 DEF RowQueued, RowImaged, RowRecorded
<1>4. ASSUME NEW e \in DeployId, NEW to \in Status, RowMoved(e, to)
      PROVE status[d] \in {"queued", "building", "deploying"}
    BY <1>4 DEF RowMoved, CanTransition, transitions, Status
<1> QED BY <1>1, <1>2, <1>3, <1>4 DEF RowStep

(* The deploys of a target that is not marked come one after the other.       *)
LEMMA InFlightStep ==
    ASSUME PipelineInv, InFlightIsNewest, [MCNext]_<<vars, raced>>
    PROVE  InFlightIsNewest'
<1> USE RecordedStep
<1>1. \A d, e \in DeployId : e < d /\ status'[d] # "none" => status'[e] # "none"
    <2> SUFFICES ASSUME NEW d \in DeployId, NEW e \in DeployId, e < d, status'[d] # "none"
                 PROVE status'[e] # "none"
        OBVIOUS
    <2>1. status[e] # "none"
        <3>1. CASE status[d] # "none" BY <3>1 DEF InFlightIsNewest
        <3>2. CASE status[d] = "none"
            <4>1. \A f \in 1..(d - 1) : status[f] # "none" BY <3>2, NewRow
            <4> QED BY <4>1
        <3> QED BY <3>1, <3>2
    <2> QED BY <2>1, TargetsKept
<1>2. ASSUME NEW t \in Target, t \notin raced' PROVE t \notin raced /\ ~Contended(t)'
    <2>1. CASE raced' = raced \cup {u \in Target : Contended(u)'} BY <1>2, <2>1
    <2>2. CASE UNCHANGED <<vars, raced>>
        <3>1. t \notin raced BY <1>2, <2>2
        <3>2. ~Contended(t) BY <3>1 DEF InFlightIsNewest
        <3>3. Contended(t)' <=> Contended(t)
            BY <2>2 DEF vars, rowVars, Contended, InFlight
        <3> QED BY <3>1, <3>2, <3>3
    <2> QED BY <2>1, <2>2
<1>3. ASSUME NEW t \in Target, t \notin raced', NEW d \in DeployId, d \in InFlight(t)',
             NEW e \in DeployId, target'[e] = t
      PROVE e <= d
    <2>1. t \notin raced /\ ~Contended(t)' BY <1>2, <1>3
    <2>2. target'[d] = t /\ status'[d] \in {"queued", "building", "deploying"}
        BY <1>3 DEF InFlight
    <2>3. PipelineInv' BY PipelineStep
    <2>4. status'[e] # "none" BY <1>3, <2>3, Shapes DEF PipelineInv, TargetInv
    <2>5. CASE status[e] = "none"
        <3>1. status'[e] \in {"queued", "deploying"} BY <2>4, <2>5, NewRow
        <3>2. e \in InFlight(t)' BY <1>3, <3>1 DEF InFlight
        <3>3. e = d BY <1>3, <2>1, <3>2 DEF Contended
        <3> QED BY <3>3
    <2>6. CASE status[e] # "none" /\ status[d] = "none"
        <3>1. \A f \in DeployId : d < f => status[f] = "none"
            BY <2>6 DEF InFlightIsNewest
        <3> QED BY <2>6, <3>1
    <2>7. CASE status[e] # "none" /\ status[d] # "none"
        <3>1. target[e] = t /\ target[d] = t BY <1>3, <2>2, <2>7, TargetsKept
        <3>2. d \in InFlight(t) BY <2>2, <2>7, <3>1, FlightsEnd DEF InFlight
        <3> QED BY <2>1, <3>1, <3>2 DEF InFlightIsNewest
    <2> QED BY <2>5, <2>6, <2>7
<1>4. \A t \in Target \ raced' : \A d \in InFlight(t)', e \in DeployId : target'[e] = t => e <= d
    BY <1>3 DEF InFlight
<1> QED BY <1>1, <1>2, <1>4 DEF InFlightIsNewest

------------------------------------------------------------------------------
(* What a step can do to the controller's goroutines and to the cluster.      *)

(* Only the controller makes a deploy live.                                   *)
LEMMA OthersMakeNoneLive ==
    ASSUME TypeOK, ApiAction \/ BuilderAction, NEW d \in DeployId, status'[d] = "live"
    PROVE  status[d] = "live"
<1> USE Shapes DEF TypeOK, rowVars, others
<1>1. ASSUME NEW e \in DeployId, NEW to, to # "live", status' = [status EXCEPT ![e] = to]
      PROVE status[d] = "live"
    BY <1>1
<1>2. ASSUME status' = status PROVE status[d] = "live"
    BY <1>2
<1>3. CASE ApiAction
    <2>1. ASSUME \E e \in DeployId : \/ \E t : createBuildableDeploy(e, t)
                                     \/ \E s, i : createImagedDeploy(e, s, i)
          PROVE status[d] = "live"
        BY <1>1, <2>1 DEF createBuildableDeploy, createImagedDeploy
    <2> HIDE DEF TypeOK
    <2> QED
        BY <1>2, <1>3, <2>1
           DEF ApiAction, UserRequest, ApplyChange, EnqueueDeploy, EnqueuePreview, ImageDeploy,
               Rollback, ClosePullRequest, ChangeSettings, NothingToApply, LookUpImage,
               ApplyServiceChange, ApplyServiceChangeFails, Publish, PublishFails
<1>4. CASE BuilderAction
    <2> HIDE DEF TypeOK
    <2>1. ASSUME NEW b \in Builders, BuilderStep(b) \/ BuilderCrash(b) PROVE status[d] = "live"
        BY <1>2, <2>1 DEF BuilderStep, StartBuilder, Sweep, SweepFails, ListenDeploys,
                          HandleDeploy, BuilderCrash
    <2>2. ASSUME NEW w \in Worker, Claim(w) \/ WorkerStep(w) \/ BuilderStatementFails(w)
          PROVE status[d] = "live"
        BY <1>1, <1>2, <2>2
           DEF Claim, ClaimQueuedDeploy, WorkerStep, StartBuild, BuildSucceeds, BuildFails,
               RecordImage, FinishBuild, CheckStatus, UpdateStatus, NotifyDeployment,
               BuilderStatementFails, SetBuildStatus, SetDeployImage, WriteStatus
    <2> QED BY <1>4, <2>1, <2>2 DEF BuilderAction
<1> QED BY <1>3, <1>4

(* A deploy has its workload written by its own ApplyWorkload and by nothing  *)
(* else.                                                                      *)
LEMMA WrittenOnce ==
    ASSUME PipelineInv, [Next]_vars, NEW d \in DeployId, Written(d)'
    PROVE  Written(d) \/ ApplyWorkload(d)
<1> TypeOK BY DEF PipelineInv
<1> USE DEF rowVars, busVars, controllerVars, GotoC, Written
<1>1. CASE ControllerAction
    <2>1. ASSUME UNCHANGED status, \A e \in DeployId : cpc'[e] = cpc[e]
                                      \/ cpc'[e] \in {"idle", "load", "apply", "check_failed"}
          PROVE Written(d)
        BY <2>1
    <2>2. ASSUME NEW e \in DeployId, ReconcileStep(e) PROVE Written(d) \/ ApplyWorkload(d)
        <3>1. CASE LoadSpec(e) \/ ApplyFails(e) \/ RolloutFails(e)
            BY <2>1, <3>1 DEF LoadSpec, ApplyFails, RolloutFails, TypeOK
        <3>2. CASE ApplyWorkload(e)
            BY <3>2 DEF ApplyWorkload, TypeOK
        <3>3. CASE RolloutCompletes(e) \/ CheckStatusC(e, "check_live", "live", "write_live")
            BY <3>3 DEF RolloutCompletes, CheckStatusC, TypeOK
        <3>4. CASE UpdateStatusC(e, "write_live", "live")
            BY <3>4 DEF UpdateStatusC, WriteStatus, TypeOK
        <3>5. CASE CheckStatusC(e, "check_failed", "failed", "write_failed")
            BY <3>5 DEF CheckStatusC, TypeOK
        <3>6. CASE UpdateStatusC(e, "write_failed", "failed")
            BY <3>6 DEF UpdateStatusC, WriteStatus, TypeOK
        <3> QED BY <2>2, <3>1, <3>2, <3>3, <3>4, <3>5, <3>6 DEF ReconcileStep
    <2>3. ASSUME NEW e \in DeployId, HandleDeployment(e) PROVE Written(d)
        BY <2>1, <2>3 DEF HandleDeployment, TypeOK
    <2>4. ASSUME NEW e \in DeployId, ControllerStatementFails(e) PROVE Written(d)
        <3>1. OnErrorC[cpc[e]] \subseteq {"idle", "check_failed"}
            BY <2>4 DEF ControllerStatementFails, OnErrorC
        <3> QED BY <2>1, <2>4, <3>1 DEF ControllerStatementFails, TypeOK
    <2>5. CASE ControllerCrash BY <2>1, <2>5 DEF ControllerCrash
    <2>6. CASE \/ StartController
               \/ \E channel \in Subscriptions(Controller) : ListenController(channel)
               \/ \E t \in Target : Teardown(t) \/ TeardownFails(t)
        BY <2>1, <2>6 DEF StartController, ListenController, Teardown, TeardownFails
    <2> QED BY <1>1, <2>2, <2>3, <2>4, <2>5, <2>6 DEF ControllerAction, ControllerStep
<1>2. CASE UNCHANGED vars BY <1>2 DEF vars
<1>3. CASE ApiAction \/ (BuilderAction /\ UNCHANGED <<controllerVars, apiVars>>)
    <2>1. UNCHANGED <<cpc, spec, cluster>> BY ONLY <1>3, OthersKeepCluster
    <2>2. status'[d] = "live" => status[d] = "live" BY <1>3, OthersMakeNoneLive
    <2> QED BY <2>1, <2>2
<1> QED BY ONLY [Next]_vars, NextCases, <1>1, <1>2, <1>3

(* A workload changes when a deploy for its target is applied, or when its    *)
(* target is torn down.                                                       *)
LEMMA WorkloadSteps ==
    ASSUME PipelineInv, [Next]_vars, NEW t \in Target
    PROVE  \/ cluster'[t] = cluster[t]
           \/ \E e \in DeployId : /\ ApplyWorkload(e)
                                  /\ target[e] = t
                                  /\ cluster'[t] = spec[e]
           \/ Teardown(t) /\ cluster'[t] = NoWorkload
<1> DEFINE Goal == \/ cluster'[t] = cluster[t]
                   \/ \E e \in DeployId : /\ ApplyWorkload(e)
                                          /\ target[e] = t
                                          /\ cluster'[t] = spec[e]
                   \/ Teardown(t) /\ cluster'[t] = NoWorkload
<1> TypeOK BY DEF PipelineInv
<1>1. ASSUME cluster' = cluster PROVE Goal
    BY <1>1
<1>2. ASSUME NEW e \in DeployId, ApplyWorkload(e) PROVE Goal
    BY <1>2 DEF ApplyWorkload, TypeOK
<1>3. ASSUME NEW u \in Target, Teardown(u) PROVE Goal
    BY <1>3 DEF Teardown, TypeOK
<1>4. CASE ControllerAction
    BY <1>1, <1>2, <1>3, <1>4
       DEF ControllerAction, ControllerStep, ReconcileStep, StartController, ListenController,
           HandleDeployment, LoadSpec, ApplyFails, RolloutCompletes, RolloutFails, CheckStatusC,
           UpdateStatusC, TeardownFails, ControllerCrash, ControllerStatementFails, controllerVars
<1>5. CASE UNCHANGED vars BY <1>1, <1>5 DEF vars, controllerVars
<1>6. CASE ApiAction \/ (BuilderAction /\ UNCHANGED <<controllerVars, apiVars>>)
    <2>1. UNCHANGED <<cpc, spec, cluster>> BY ONLY <1>6, OthersKeepCluster
    <2> QED BY <1>1, <2>1
<1> QED BY ONLY [Next]_vars, NextCases, <1>4, <1>5, <1>6

(* A deploy whose workload is written, or about to be, has reached the        *)
(* cluster stage, and keeps its target.                                       *)
LEMMA AtTheCluster ==
    ASSUME PipelineInv, [Next]_vars, NEW d \in DeployId, Written(d) \/ cpc[d] # "idle"
    PROVE  /\ status[d] \in {"deploying", "live"}
           /\ image[d] # NoImage
           /\ target'[d] = target[d]
<1>1. status[d] \in {"deploying", "live"}
    BY DEF Written, PipelineInv, OwnershipInv, OwnerKnowsStatus, HandedOver
<1>2. image[d] # NoImage BY <1>1 DEF PipelineInv, ImageInv
<1> QED BY <1>1, <1>2, TargetsKept

(* Whoever applies a workload for a target that is not marked is its newest.  *)
LEMMA ApplierIsNewest ==
    ASSUME PipelineInv, InFlightIsNewest, NEW e \in DeployId, cpc[e] = "apply",
           NEW t \in Target \ raced, target[e] = t
    PROVE  /\ \A d \in DeployId : target[d] = t => d <= e
           /\ spec[e].deploy = e
<1>1. status[e] = "deploying"
    BY DEF PipelineInv, OwnershipInv, OwnerKnowsStatus, HandedOver
<1>2. e \in InFlight(t) BY <1>1 DEF InFlight
<1> QED BY <1>2 DEF InFlightIsNewest, PipelineInv, SpecInv

LEMMA StillUnraced ==
    ASSUME [MCNext]_<<vars, raced>>, NEW t, t \notin raced' PROVE t \notin raced
BY DEF MCNext

LEMMA SupersedesStep ==
    ASSUME PipelineInv, InFlightIsNewest, WrittenSupersedes, [MCNext]_<<vars, raced>>
    PROVE  WrittenSupersedes'
<1> SUFFICES ASSUME NEW t \in Target, t \notin raced', NEW d \in DeployId,
                    target'[d] = t, Written(d)', cluster'[t] # NoWorkload
             PROVE cluster'[t].deploy >= d
    BY DEF WrittenSupersedes
<1> [Next]_vars BY RecordedStep
<1>1. Written(d) \/ ApplyWorkload(d) BY WrittenOnce
<1>2. ApplyWorkload(d) => cpc[d] = "apply" BY DEF ApplyWorkload
<1>3. target[d] = t BY <1>1, <1>2, AtTheCluster
<1>4. t \notin raced BY StillUnraced
<1>5. ASSUME NEW e \in DeployId, ApplyWorkload(e), target[e] = t, cluster'[t] = spec[e]
      PROVE cluster'[t].deploy >= d
    <2>1. cpc[e] = "apply" BY <1>5 DEF ApplyWorkload
    <2>2. d <= e /\ spec[e].deploy = e BY <1>3, <1>4, <1>5, <2>1, ApplierIsNewest
    <2> QED BY <1>5, <2>2
<1>6. CASE cluster'[t] = cluster[t]
    <2>1. CASE Written(d) BY <1>3, <1>4, <1>6, <2>1 DEF WrittenSupersedes
    <2>2. CASE ApplyWorkload(d)
        BY <1>3, <1>5, <2>2 DEF ApplyWorkload, PipelineInv, TypeOK
    <2> QED BY <1>1, <2>1, <2>2
<1> QED BY <1>5, <1>6, WorkloadSteps

------------------------------------------------------------------------------
(* Only previews are torn down.                                               *)
LEMMA PreviewsStep ==
    ASSUME PipelineInv, PreviewsTornDown, [Next]_vars
    PROVE  PreviewsTornDown'
<1> TypeOK BY DEF PipelineInv
<1> USE DEF rowVars, busVars, builderVars, controllerVars, apiVars, others
<1>1. ASSUME UNCHANGED prOpen,
             \A t : <<TeardownChannel, t>> \in outbox' \cup inbox'[Controller] =>
                       <<TeardownChannel, t>> \in outbox \cup inbox[Controller]
      PROVE PreviewsTornDown'
    BY <1>1 DEF PreviewsTornDown
<1>2. CASE ApiAction
    <2>1. ASSUME NEW d \in DeployId, NEW s \in Services, NEW pr \in PRs, EnqueuePreview(d, s, pr)
          PROVE PreviewsTornDown'
        BY <2>1, TargetAssumption DEF EnqueuePreview, PreviewsTornDown
    <2>2. ASSUME NEW t \in prOpen, ClosePullRequest(t) PROVE PreviewsTornDown'
        BY <2>2 DEF ClosePullRequest, PreviewsTornDown
    <2>3. ASSUME NEW m \in outbox, Publish(m) PROVE PreviewsTornDown'
        <3>1. m = <<m[1], m[2]>> BY Shapes DEF TypeOK
        <3>2. \A n : n \in inbox'[Controller] => n \in inbox[Controller] \/ n = m
            BY <2>3, <3>1 DEF Publish, Notify
        <3> QED BY <1>1, <2>3, <3>2 DEF Publish
    <2>4. ASSUME UNCHANGED <<inbox, prOpen>>, NEW ch \in {DeployChannel, DeploymentChannel},
                 NEW d, outbox' = outbox \cup {<<ch, d>>}
          PROVE PreviewsTornDown'
        BY <1>1, <2>4
    <2>5. ASSUME UNCHANGED <<inbox, prOpen>>, outbox' \subseteq outbox PROVE PreviewsTornDown'
        BY <1>1, <2>5
    <2> QED
        BY <1>2, <2>1, <2>2, <2>3, <2>4, <2>5
           DEF ApiAction, UserRequest, ApplyChange, EnqueueDeploy, ImageDeploy, Rollback,
               ChangeSettings, NothingToApply, LookUpImage, ApplyServiceChange,
               ApplyServiceChangeFails, PublishFails
<1>3. CASE BuilderAction /\ UNCHANGED <<controllerVars, apiVars>>
    <2>1. \A t : <<TeardownChannel, t>> \in inbox'[Controller] =>
                    <<TeardownChannel, t>> \in inbox[Controller]
        <3>1. ASSUME NEW b \in Builders, BuilderStep(b) \/ BuilderCrash(b)
              PROVE inbox'[Controller] = inbox[Controller]
            BY <3>1 DEF BuilderStep, StartBuilder, Sweep, SweepFails, ListenDeploys, Listen,
                        HandleDeploy, Receive, BuilderCrash, Disconnect, TypeOK
        <3>2. ASSUME NEW w \in Worker, NotifyDeployment(w)
              PROVE \A n : n \in inbox'[Controller] =>
                              n \in inbox[Controller] \/ n = <<DeploymentChannel, w[3]>>
            BY <3>2 DEF NotifyDeployment, Notify
        <3>3. ASSUME NEW w \in Worker, Claim(w) \/ WorkerStep(w) \/ BuilderStatementFails(w),
                     ~NotifyDeployment(w)
              PROVE inbox' = inbox
            BY <3>3 DEF Claim, WorkerStep, StartBuild, BuildSucceeds, BuildFails, RecordImage,
                        FinishBuild, CheckStatus, UpdateStatus, BuilderStatementFails
        <3> QED BY <1>3, <3>1, <3>2, <3>3 DEF BuilderAction
    <2> QED BY <1>1, <1>3, <2>1
<1>4. CASE ControllerAction /\ UNCHANGED <<builderVars, apiVars>>
    <2>1. inbox'[Controller] \subseteq inbox[Controller]
        <3>1. ASSUME NEW d \in DeployId, HandleDeployment(d)
              PROVE inbox'[Controller] \subseteq inbox[Controller]
            BY <3>1 DEF HandleDeployment, Receive, TypeOK
        <3>2. ASSUME NEW t \in Target, Teardown(t) \/ TeardownFails(t)
              PROVE inbox'[Controller] \subseteq inbox[Controller]
            BY <3>2 DEF Teardown, TeardownFails, Receive, TypeOK
        <3>3. ASSUME ControllerCrash PROVE inbox'[Controller] \subseteq inbox[Controller]
            BY <3>3 DEF ControllerCrash, Disconnect, TypeOK
        <3>4. ASSUME NEW d \in DeployId, ReconcileStep(d) \/ ControllerStatementFails(d)
              PROVE inbox' = inbox
            BY <3>4 DEF ReconcileStep, LoadSpec, ApplyWorkload, ApplyFails, RolloutCompletes,
                        RolloutFails, CheckStatusC, UpdateStatusC, ControllerStatementFails
        <3>5. ASSUME NEW channel \in Subscriptions(Controller), ListenController(channel)
              PROVE inbox' = inbox
            BY <3>5 DEF ListenController, Listen
        <3>6. ASSUME StartController PROVE inbox' = inbox
            BY <3>6 DEF StartController
        <3> QED BY <1>4, <3>1, <3>2, <3>3, <3>4, <3>5, <3>6 DEF ControllerAction, ControllerStep
    <2> QED BY <1>1, <1>4, <2>1
<1>5. CASE UNCHANGED vars BY <1>1, <1>5 DEF vars
<1> QED BY <1>2, <1>3, <1>4, <1>5 DEF Next

------------------------------------------------------------------------------
(* The settings a deploy has read, until it is superseded.                    *)

(* Failures are only ever added.                                              *)
LEMMA FaultsKept ==
    ASSUME PipelineInv, [Next]_vars, faults' = 0 PROVE faults = 0
<1>1. faults \in Nat BY DEF PipelineInv, TypeOK
<1> USE DEF busVars, others
<1>2. faults' = faults \/ faults' = faults + 1
    <2>1. CASE ApiAction
        BY <2>1 DEF ApiAction, UserRequest, ApplyChange, EnqueueDeploy, EnqueuePreview,
                    ImageDeploy, Rollback, ClosePullRequest, ChangeSettings, NothingToApply,
                    LookUpImage, ApplyServiceChange, ApplyServiceChangeFails, Publish,
                    PublishFails, Fault
    <2>2. CASE BuilderAction
        BY <2>2 DEF BuilderAction, BuilderStep, StartBuilder, Sweep, SweepFails, ListenDeploys,
                    Listen, HandleDeploy, BuilderCrash, Disconnect, Fault, Claim, WorkerStep, StartBuild,
                    BuildSucceeds, BuildFails, RecordImage, FinishBuild, CheckStatus,
                    UpdateStatus, NotifyDeployment, BuilderStatementFails
    <2>3. CASE ControllerAction
        BY <2>3 DEF ControllerAction, ControllerStep, ReconcileStep, StartController,
                    ListenController, Listen, HandleDeployment, LoadSpec, ApplyWorkload,
                    ApplyFails, RolloutCompletes, RolloutFails, CheckStatusC, UpdateStatusC,
                    Teardown, TeardownFails, ControllerCrash, Disconnect, Fault,
                    ControllerStatementFails
    <2>4. CASE UNCHANGED vars BY <2>4 DEF vars
    <2> QED BY <2>1, <2>2, <2>3, <2>4 DEF Next
<1> QED BY <1>1, <1>2

(* The controller and the builders leave the settings and the requests to     *)
(* apply them alone.                                                          *)
LEMMA OthersKeepSettings ==
    ASSUME \/ ControllerAction /\ UNCHANGED <<builderVars, apiVars>>
           \/ BuilderAction /\ UNCHANGED <<controllerVars, apiVars>>
    PROVE  UNCHANGED <<settings, applying>>
BY DEF ControllerAction, ControllerStep, ReconcileStep, StartController, ListenController,
       HandleDeployment, LoadSpec, ApplyWorkload, ApplyFails, RolloutCompletes, RolloutFails,
       CheckStatusC, UpdateStatusC, Teardown, TeardownFails, ControllerCrash,
       ControllerStatementFails, controllerVars, apiVars

(* The version is current after the step.                                     *)
NextCurrent(s, v) == v = settings'[s] \/ \E a \in applying' : a[1] = s

(* As long as a deploy with an image is the newest of its service, a request  *)
(* to apply newer settings is not lost: it ends by making a newer deploy.     *)
LEMMA CurrentKept ==
    ASSUME PipelineInv, InFlightIsNewest, [Next]_vars, faults' = 0,
           NEW s \in Services, NEW d \in DeployId, image[d] # NoImage,
           target[d] = <<s, Production>>,
           \A e \in DeployId : target'[e] = <<s, Production>> => e <= d,
           NEW v, Current(s, v)
    PROVE  NextCurrent(s, v)
<1> TypeOK BY DEF PipelineInv
<1> USE DEF others, controllerVars, builderVars, busVars
<1>1. ASSUME UNCHANGED settings, applying \subseteq applying' PROVE NextCurrent(s, v)
    BY <1>1 DEF Current, NextCurrent
<1>2. ASSUME UNCHANGED settings, NEW a \in applying, applying' = applying \ {a}, a[1] # s
      PROVE NextCurrent(s, v)
    BY <1>2 DEF Current, NextCurrent
<1>3. status[d] # "none" /\ target[d] # NoTarget
    BY DEF PipelineInv, TargetInv, ImageInv
<1>4. CASE ApiAction
    <2>1. ASSUME NEW r \in Services, ChangeSettings(r) PROVE NextCurrent(s, v)
        <3>1. CASE r = s
            <4>1. <<s, settings[s] + 1, NoImage>> \in applying' BY <2>1, <3>1 DEF ChangeSettings
            <4>2. \E a \in applying' : a[1] = s BY <4>1
            <4> QED BY <4>2 DEF NextCurrent
        <3>2. CASE r # s
            BY <2>1, <3>2 DEF ChangeSettings, Current, NextCurrent, TypeOK
        <3> QED BY <3>1, <3>2
    <2>2. ASSUME NEW a \in applying, NothingToApply(a) PROVE NextCurrent(s, v)
        <3>1. d \in ImagedDeploys(s) BY <1>3 DEF ImagedDeploys
        <3>2. a[1] # s BY <2>2, <3>1 DEF NothingToApply
        <3> QED BY <1>2, <2>2, <3>2 DEF NothingToApply
    <2>3. ASSUME NEW a \in applying, NEW last \in DeployId, LookUpImage(a, last)
          PROVE NextCurrent(s, v)
        <3>1. /\ UNCHANGED settings
              /\ applying' = (applying \ {a}) \cup {<<a[1], a[2], image[last]>>}
            BY <2>3 DEF LookUpImage
        <3>2. ASSUME NEW b \in applying, b[1] = s PROVE \E c \in applying' : c[1] = s
            <4>1. CASE b # a BY <3>1, <3>2, <4>1
            <4>2. CASE b = a
                <5>1. <<s, a[2], image[last]>> \in applying' BY <3>1, <3>2, <4>2
                <5> QED BY <5>1
            <4> QED BY <4>1, <4>2
        <3> QED BY <3>1, <3>2 DEF Current, NextCurrent
    <2>4. ASSUME NEW a \in applying, NEW e \in DeployId, ApplyServiceChange(e, a)
          PROVE NextCurrent(s, v)
        <3>1. /\ status[e] = "none"
              /\ target' = [target EXCEPT ![e] = <<a[1], Production>>]
              /\ UNCHANGED settings
              /\ applying' = applying \ {a}
            BY <2>4 DEF ApplyServiceChange, createImagedDeploy, IsNextId
        <3>2. a[1] # s
            <4> SUFFICES ASSUME a[1] = s PROVE FALSE
                OBVIOUS
            <4>1. target'[e] = <<s, Production>> BY <3>1 DEF TypeOK
            <4>2. e <= d /\ e # d BY <1>3, <3>1, <4>1
            <4>3. e < d BY <4>2
            <4> QED BY <1>3, <3>1, <4>3 DEF InFlightIsNewest
        <3> QED BY <1>2, <3>1, <3>2
    <2>5. ASSUME NEW a \in applying, ApplyServiceChangeFails(a) PROVE FALSE
        BY <2>5 DEF ApplyServiceChangeFails, Fault, TypeOK
    <2>6. ASSUME UNCHANGED <<settings, applying>> PROVE NextCurrent(s, v)
        BY <1>1, <2>6
    <2>7. ASSUME NEW e \in DeployId, NEW r \in Services,
                 \/ EnqueueDeploy(e, r)
                 \/ \E pr \in PRs : EnqueuePreview(e, r, pr)
                 \/ \E i \in Prebuilt : ImageDeploy(e, r, i)
          PROVE NextCurrent(s, v)
        BY <2>6, <2>7 DEF EnqueueDeploy, EnqueuePreview, ImageDeploy
    <2>8. ASSUME \/ \E e, from \in DeployId : Rollback(e, from)
                 \/ \E t \in prOpen : ClosePullRequest(t)
                 \/ \E m \in outbox : Publish(m) \/ PublishFails(m)
          PROVE NextCurrent(s, v)
        BY <2>6, <2>8 DEF Rollback, ClosePullRequest, Publish, PublishFails
    <2> QED BY <1>4, <2>1, <2>2, <2>3, <2>4, <2>5, <2>7, <2>8
            DEF ApiAction, UserRequest, ApplyChange
<1>5. CASE \/ ControllerAction /\ UNCHANGED <<builderVars, apiVars>>
           \/ BuilderAction /\ UNCHANGED <<controllerVars, apiVars>>
    BY <1>1, <1>5, OthersKeepSettings
<1>6. CASE UNCHANGED vars BY <1>1, <1>6 DEF vars, apiVars
<1> QED BY <1>4, <1>5, <1>6 DEF Next

(* A spec is loaded from the settings of that moment, and kept until it is    *)
(* applied.                                                                   *)
LEMMA SpecSteps ==
    ASSUME PipelineInv, [Next]_vars, NEW d \in DeployId, cpc'[d] = "apply"
    PROVE  \/ cpc[d] = "apply" /\ spec'[d] = spec[d]
           \/ /\ cpc[d] = "load" /\ spec'[d].version = settings[target[d][1]]
              /\ UNCHANGED <<settings, rowVars>>
<1> DEFINE Goal == \/ cpc[d] = "apply" /\ spec'[d] = spec[d]
                   \/ /\ cpc[d] = "load" /\ spec'[d].version = settings[target[d][1]]
                      /\ UNCHANGED <<settings, rowVars>>
<1> TypeOK BY DEF PipelineInv
<1> USE DEF controllerVars, GotoC
<1>1. CASE ControllerAction
    <2>1. ASSUME NEW e \in DeployId, LoadSpec(e) PROVE Goal
        <3>1. CASE e # d BY <2>1, <3>1 DEF LoadSpec, TypeOK
        <3>2. CASE e = d BY <2>1, <3>2 DEF LoadSpec, TypeOK
        <3> QED BY <3>1, <3>2
    <2>2. ASSUME NEW e \in DeployId, ReconcileStep(e), ~LoadSpec(e)
          PROVE cpc[d] = "apply" /\ spec'[d] = spec[d]
        BY <2>2 DEF ReconcileStep, ApplyWorkload, ApplyFails, RolloutCompletes, RolloutFails,
                    CheckStatusC, UpdateStatusC, TypeOK
    <2>3. ASSUME NEW e \in DeployId, HandleDeployment(e)
          PROVE cpc[d] = "apply" /\ spec'[d] = spec[d]
        BY <2>3 DEF HandleDeployment, TypeOK
    <2>4. ASSUME NEW e \in DeployId, ControllerStatementFails(e)
          PROVE cpc[d] = "apply" /\ spec'[d] = spec[d]
        <3>1. OnErrorC[cpc[e]] \subseteq {"idle", "check_failed"}
            BY <2>4 DEF ControllerStatementFails, OnErrorC
        <3> QED BY <2>4, <3>1 DEF ControllerStatementFails, TypeOK
    <2>5. ~ControllerCrash BY DEF ControllerCrash
    <2>6. CASE \/ StartController
               \/ \E channel \in Subscriptions(Controller) : ListenController(channel)
               \/ \E t \in Target : Teardown(t) \/ TeardownFails(t)
        BY <2>6 DEF StartController, ListenController, Teardown, TeardownFails
    <2> QED BY <1>1, <2>1, <2>2, <2>3, <2>4, <2>5, <2>6 DEF ControllerAction, ControllerStep
<1>2. CASE UNCHANGED vars BY <1>2 DEF vars
<1>3. CASE ApiAction \/ (BuilderAction /\ UNCHANGED <<controllerVars, apiVars>>)
    <2>1. UNCHANGED <<cpc, spec, cluster>> BY ONLY <1>3, OthersKeepCluster
    <2> QED BY <2>1
<1> QED BY ONLY [Next]_vars, NextCases, <1>1, <1>2, <1>3

LEMMA CurrentStep ==
    ASSUME PipelineInv, InFlightIsNewest, PreviewsTornDown, NewestIsCurrent,
           [MCNext]_<<vars, raced>>
    PROVE  NewestIsCurrent'
<1> SUFFICES ASSUME faults' = 0, NEW s \in Services, NEW d \in DeployId,
                    <<s, Production>> \notin raced', Newest(d, <<s, Production>>)'
             PROVE /\ cpc'[d] = "apply" => NextCurrent(s, spec'[d].version)
                   /\ Written(d)' => NextCurrent(s, cluster'[<<s, Production>>].version)
    BY DEF NewestIsCurrent, Current, NextCurrent
<1> DEFINE t == <<s, Production>>
<1> [Next]_vars BY RecordedStep
<1>1. faults = 0 /\ t \in Target /\ t \notin raced BY FaultsKept, StillUnraced, Shapes
<1>2. /\ target'[d] = t
      /\ \A e \in DeployId : target'[e] = t => e <= d
      /\ \A e \in DeployId : target[e] = t => e <= d
    <2>1. \A e \in DeployId : target[e] = t => status[e] # "none"
        BY <1>1, Shapes DEF PipelineInv, TargetInv
    <2> QED BY <2>1, TargetsKept DEF Newest
<1>3. ASSUME Written(d) \/ cpc[d] # "idle" PROVE image[d] # NoImage /\ Newest(d, t)
    BY <1>2, <1>3, AtTheCluster DEF Newest
<1>4. ASSUME Written(d) \/ cpc[d] # "idle", NEW v, Current(s, v) PROVE NextCurrent(s, v)
    BY <1>2, <1>3, <1>4, CurrentKept DEF Newest
<1>5. ASSUME cpc[d] = "apply" PROVE NextCurrent(s, spec[d].version)
    <2>1. Current(s, spec[d].version) BY <1>1, <1>3, <1>5 DEF NewestIsCurrent
    <2> QED BY <1>4, <1>5, <2>1
<1>6. ASSUME cpc'[d] = "apply" PROVE NextCurrent(s, spec'[d].version)
    <2>1. CASE cpc[d] = "apply" /\ spec'[d] = spec[d] BY <1>5, <2>1 DEF NextCurrent
    <2>2. CASE cpc[d] = "load" /\ spec'[d].version = settings[target[d][1]]
               /\ UNCHANGED <<settings, rowVars>>
        <3>1. target[d] = t BY <1>3, <2>2 DEF Newest
        <3> QED BY <2>2, <3>1 DEF NextCurrent
    <2> QED BY <1>6, <2>1, <2>2, SpecSteps
<1>7. ASSUME Written(d)' PROVE NextCurrent(s, cluster'[t].version)
    <2>1. Written(d) \/ (ApplyWorkload(d) /\ cpc[d] = "apply")
        BY <1>7, WrittenOnce DEF ApplyWorkload
    <2>2. target[d] = t BY <1>3, <2>1 DEF Newest
    <2>3. ASSUME NEW e \in DeployId, ApplyWorkload(e), target[e] = t, cluster'[t] = spec[e]
          PROVE NextCurrent(s, cluster'[t].version)
        <3>1. cpc[e] = "apply" BY <2>3 DEF ApplyWorkload
        <3>2. d <= e BY <1>1, <2>2, <2>3, <3>1, ApplierIsNewest
        <3>3. e <= d BY <1>2, <2>3
        <3>4. e = d BY <3>2, <3>3
        <3> QED BY <1>5, <2>3, <3>1, <3>4 DEF NextCurrent
    <2>4. CASE ApplyWorkload(d)
        <3>1. cluster'[t] = spec[d] BY <1>1, <2>2, <2>4 DEF ApplyWorkload, PipelineInv, TypeOK
        <3> QED BY <2>2, <2>3, <2>4, <3>1
    <2>5. CASE Written(d) /\ cluster'[t] = cluster[t]
        <3>1. Current(s, cluster[t].version) BY <1>1, <1>3, <2>5 DEF NewestIsCurrent
        <3>2. NextCurrent(s, cluster[t].version) BY <1>4, <2>5, <3>1
        <3> QED BY <2>5, <3>2 DEF NextCurrent
    <2>6. ~Teardown(t)
        BY <1>1 DEF Teardown, Receive, PreviewsTornDown
    <2> QED BY <1>1, <2>1, <2>3, <2>4, <2>5, <2>6, WorkloadSteps
<1> QED BY <1>6, <1>7

------------------------------------------------------------------------------
(* The theorems.                                                              *)

LEMMA RaceInit == MCInit => RaceInv
BY Shapes DEF MCInit, Init, StoreInit, BusInit, ControllerInit, RaceInv, InFlightIsNewest,
              WrittenSupersedes, PreviewsTornDown, NewestIsCurrent, Contended, InFlight, Written

(* Of a target whose deploys come one after the other: only the newest is in  *)
(* flight, the workload never falls back behind a deploy that has been        *)
(* written, and what the newest has read is current or about to be replaced.  *)
THEOREM RaceCorrect == MCSpec => []RaceInv
<1>1. PipelineInv /\ RaceInv /\ [MCNext]_<<vars, raced>> => RaceInv'
    BY RecordedStep, InFlightStep, SupersedesStep, PreviewsStep, CurrentStep DEF RaceInv
<1>2. MCSpec => []PipelineInv BY RecordedPipeline, PipelineCorrect, PTL
<1> QED BY <1>1, <1>2, RaceInit, PTL DEF MCSpec

(* "a new deploy supersedes it": a workload never falls back behind the       *)
(* newest live deploy of its target.                                          *)
THEOREM WorkloadsSupersede == MCSpec => []NewestSupersedes
<1>1. RaceInv => NewestSupersedes
    BY DEF RaceInv, WrittenSupersedes, NewestSupersedes, Written
<1> QED BY <1>1, RaceCorrect, PTL

(* When all is quiet and nothing has failed, the workload of a service runs   *)
(* the current settings, whenever they were changed.                          *)
THEOREM SettingsAreApplied == MCSpec => []SettingsSettle
<1>1. ASSUME RaceInv PROVE SettingsSettle
    <2> SUFFICES ASSUME Quiescent, faults = 0, NEW s \in Services, NEW d \in DeployId,
                        <<s, Production>> \notin raced, target[d] = <<s, Production>>,
                        status[d] = "live",
                        \A e \in DeployId : target[e] = <<s, Production>> => e <= d
                 PROVE cluster[<<s, Production>>].version = settings[s]
        BY DEF SettingsSettle
    <2>1. Newest(d, <<s, Production>>) /\ Written(d) BY DEF Newest, Written
    <2>2. Current(s, cluster[<<s, Production>>].version)
        BY <1>1, <2>1 DEF RaceInv, NewestIsCurrent
    <2> QED BY <2>2 DEF Current, Quiescent
<1>2. RaceInv => SettingsSettle BY <1>1
<1> QED BY <1>2, RaceCorrect, PTL

==============================================================================
