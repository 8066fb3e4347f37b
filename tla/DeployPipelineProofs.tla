------------------------ MODULE DeployPipelineProofs -------------------------
(* The safety of the deploy pipeline for any number of builders, services,    *)
(* pull requests, deploys, settings and failures.                             *)
EXTENDS DeployPipeline, TLAPS

USE ImageAssumption, BusAssumption, SettingsAssumption
USE DEF DeployId, Image, Process, DeployChannel, DeploymentChannel, TeardownChannel

(* The identity of a worker and of a target is a tuple of known shape.        *)
LEMMA Shapes ==
    /\ \A w \in Worker : w[1] \in Builders /\ w[2] \in Source /\ w[3] \in DeployId
    /\ \A t \in Target : t[1] \in Services /\ t # NoTarget
    /\ \A s \in Services : <<s, Production>> \in Target
    /\ \A s \in Services, pr \in PRs : <<s, pr>> \in Target
    /\ NoWorkload \notin Workload
    /\ \A m \in Message : m = <<m[1], m[2]>>
BY DEF Message, Worker, Target, NoTarget, NoWorkload, Workload

(* Any image an existing row has belongs to a row of a known service.         *)
LEMMA ImagedRow ==
    ASSUME PipelineInv, NEW d \in DeployId, image[d] # NoImage
    PROVE  image[d] \in Image /\ target[d] \in Target /\ target[d][1] \in Services
BY Shapes DEF PipelineInv, TypeOK, TargetInv, ImageInv

------------------------------------------------------------------------------
(* Type correctness.                                                          *)

LEMMA TypeInit == Init => TypeOK
BY DEF Init, StoreInit, BusInit, BuilderInit, ControllerInit, TypeOK, BuilderPC,
       ReconcilePC, Version, Message

(* A row created with an image keeps the table well typed.                    *)
LEMMA TypeImaged ==
    ASSUME TypeOK, NEW d \in DeployId, NEW s \in Services, NEW i \in Image,
           createImagedDeploy(d, s, i)
    PROVE  /\ status' \in [DeployId -> Status \cup {"none"}]
           /\ image' \in [DeployId -> Image \cup {NoImage}]
           /\ build' \in [DeployId -> BuildStatus \cup {"none"}]
           /\ target' \in [DeployId -> Target \cup {NoTarget}]
BY Shapes DEF createImagedDeploy, TypeOK, Status, BuildStatus

LEMMA TypeApi == PipelineInv /\ ApiAction => TypeOK'
<1> SUFFICES ASSUME PipelineInv, ApiAction PROVE TypeOK'
    OBVIOUS
<1> TypeOK BY DEF PipelineInv
<1> USE Shapes, TypeImaged DEF others, rowVars, busVars, builderVars, controllerVars, Message
<1>1. ASSUME NEW d \in DeployId, NEW s \in Services, EnqueueDeploy(d, s) PROVE TypeOK'
    BY <1>1 DEF EnqueueDeploy, createBuildableDeploy, TypeOK, Status, BuildStatus
<1>2. ASSUME NEW d \in DeployId, NEW s \in Services, NEW pr \in PRs, EnqueuePreview(d, s, pr)
      PROVE TypeOK'
    BY <1>2 DEF EnqueuePreview, createBuildableDeploy, TypeOK, Status, BuildStatus
<1>3. ASSUME NEW d \in DeployId, NEW s \in Services, NEW i \in Prebuilt, ImageDeploy(d, s, i)
      PROVE TypeOK'
    BY <1>3 DEF ImageDeploy, TypeOK
<1>4. ASSUME NEW d \in DeployId, NEW from \in DeployId, Rollback(d, from) PROVE TypeOK'
    <2>1. image[from] \in Image /\ target[from][1] \in Services
        BY <1>4, ImagedRow DEF Rollback
    <2> QED BY <1>4, <2>1 DEF Rollback, TypeOK
<1>5. ASSUME NEW t \in prOpen, ClosePullRequest(t) PROVE TypeOK'
    BY <1>5 DEF ClosePullRequest, TypeOK
<1>6. ASSUME NEW s \in Services, ChangeSettings(s) PROVE TypeOK'
    <2>1. settings[s] + 1 \in Version BY <1>6 DEF ChangeSettings, TypeOK, Version
    <2>2. <<s, settings[s] + 1, NoImage>> \in SettingsRequest BY <2>1 DEF SettingsRequest
    <2> QED BY <1>6, <2>1, <2>2 DEF ChangeSettings, TypeOK
<1>7. ASSUME NEW a \in applying, NothingToApply(a) PROVE TypeOK'
    BY <1>7 DEF NothingToApply, TypeOK
<1>12. ASSUME NEW a \in applying, NEW last \in DeployId, LookUpImage(a, last) PROVE TypeOK'
    <2>1. a[1] \in Services /\ a[2] \in Version BY DEF TypeOK, SettingsRequest
    <2>2. image[last] \in Image \cup {NoImage} BY DEF TypeOK
    <2>3. <<a[1], a[2], image[last]>> \in SettingsRequest
        BY <2>1, <2>2 DEF SettingsRequest
    <2> QED BY <1>12, <2>3 DEF LookUpImage, TypeOK
<1>8. ASSUME NEW a \in applying, NEW d \in DeployId, ApplyServiceChange(d, a) PROVE TypeOK'
    <2>1. a[1] \in Services /\ a[3] \in Image BY <1>8 DEF ApplyServiceChange, TypeOK, SettingsRequest
    <2> QED BY <1>8, <2>1 DEF ApplyServiceChange, TypeOK
<1>9. ASSUME NEW a \in applying, ApplyServiceChangeFails(a) PROVE TypeOK'
    BY <1>9 DEF ApplyServiceChangeFails, Fault, TypeOK
<1>10. ASSUME NEW m \in outbox, Publish(m) PROVE TypeOK'
    <2>1. <<m[1], m[2]>> \in Message BY DEF TypeOK
    <2>2. inbox' \in [Process -> SUBSET Message]
        BY <1>10, <2>1 DEF Publish, Notify, TypeOK
    <2> QED BY <1>10, <2>2 DEF Publish, TypeOK
<1>11. ASSUME NEW m \in outbox, PublishFails(m) PROVE TypeOK'
    BY <1>11 DEF PublishFails, Fault, TypeOK
<1> QED
    BY <1>1, <1>2, <1>3, <1>4, <1>5, <1>6, <1>7, <1>8, <1>9, <1>10, <1>11,
       <1>12 DEF ApiAction, UserRequest, ApplyChange

LEMMA TypeBuilder ==
    TypeOK /\ BuilderAction /\ UNCHANGED <<controllerVars, apiVars>> => TypeOK'
<1> SUFFICES ASSUME TypeOK, BuilderAction, UNCHANGED <<controllerVars, apiVars>> PROVE TypeOK'
    OBVIOUS
<1> USE Shapes DEF rowVars, busVars, builderVars, controllerVars, apiVars, Goto,
                   BuilderPC, BuildingPC
<1>1. ASSUME NEW b \in Builders, BuilderStep(b) \/ BuilderCrash(b) PROVE TypeOK'
    <2>1. CASE StartBuilder(b) BY <2>1 DEF StartBuilder, TypeOK
    <2>2. CASE Sweep(b) \/ SweepFails(b) BY <2>2 DEF Sweep, SweepFails, Fault, TypeOK
    <2>3. CASE ListenDeploys(b) BY <2>3 DEF ListenDeploys, Listen, TypeOK
    <2>4. ASSUME NEW d \in DeployId, HandleDeploy(b, d) PROVE TypeOK'
        BY <2>4 DEF HandleDeploy, Receive, TypeOK
    <2>5. CASE BuilderCrash(b) BY <2>5 DEF BuilderCrash, Disconnect, Fault, TypeOK
    <2> QED BY <1>1, <2>1, <2>2, <2>3, <2>4, <2>5 DEF BuilderStep
<1>2. ASSUME NEW w \in Worker, Claim(w) \/ WorkerStep(w) \/ BuilderStatementFails(w)
      PROVE TypeOK'
    <2>1. CASE Claim(w) BY <2>1 DEF Claim, ClaimQueuedDeploy, TypeOK, Status
    <2>2. CASE StartBuild(w) BY <2>2 DEF StartBuild, SetBuildStatus, TypeOK, BuildStatus
    <2>3. CASE BuildSucceeds(w) BY <2>3 DEF BuildSucceeds, TypeOK
    <2>4. CASE BuildFails(w) BY <2>4 DEF BuildFails, TypeOK
    <2>5. CASE RecordImage(w) BY <2>5 DEF RecordImage, SetDeployImage, TypeOK
    <2>6. ASSUME NEW from, NEW s \in BuildStatus, NEW next \in BuilderPC,
                 FinishBuild(w, from, s, next)
          PROVE TypeOK'
        BY <2>6 DEF FinishBuild, SetBuildStatus, TypeOK
    <2>7. ASSUME NEW from, NEW to, NEW next \in BuilderPC, CheckStatus(w, from, to, next)
          PROVE TypeOK'
        BY <2>7 DEF CheckStatus, TypeOK
    <2>8. ASSUME NEW from, NEW to \in Status, NEW next \in BuilderPC,
                 UpdateStatus(w, from, to, next)
          PROVE TypeOK'
        BY <2>8 DEF UpdateStatus, WriteStatus, TypeOK
    <2>9. CASE NotifyDeployment(w) BY <2>9 DEF NotifyDeployment, Notify, TypeOK, Message
    <2>10. CASE BuilderStatementFails(w)
        BY <2>10 DEF BuilderStatementFails, OnError, Fault, TypeOK
    <2> QED
        BY <1>2, <2>1, <2>2, <2>3, <2>4, <2>5, <2>6, <2>7, <2>8, <2>9, <2>10
           DEF WorkerStep, Status, BuildStatus
<1> QED BY <1>1, <1>2 DEF BuilderAction

LEMMA TypeController ==
    PipelineInv /\ ControllerAction /\ UNCHANGED <<builderVars, apiVars>> => TypeOK'
<1> SUFFICES ASSUME PipelineInv, ControllerAction, UNCHANGED <<builderVars, apiVars>>
             PROVE TypeOK'
    OBVIOUS
<1> TypeOK BY DEF PipelineInv
<1> USE Shapes DEF rowVars, busVars, builderVars, controllerVars, apiVars, GotoC, ReconcilePC
<1>1. CASE StartController BY <1>1 DEF StartController, TypeOK
<1>2. ASSUME NEW channel \in Subscriptions(Controller), ListenController(channel) PROVE TypeOK'
    BY <1>2 DEF ListenController, Listen, Subscriptions, TypeOK
<1>3. ASSUME NEW d \in DeployId, HandleDeployment(d) \/ ReconcileStep(d) PROVE TypeOK'
    <2>1. CASE HandleDeployment(d) BY <2>1 DEF HandleDeployment, Receive, TypeOK
    <2>2. CASE LoadSpec(d)
        <3>1. CASE image[d] = NoImage BY <2>2, <3>1 DEF LoadSpec, TypeOK
        <3>2. CASE image[d] # NoImage
            <4> DEFINE loaded == [deploy |-> d, image |-> image[d],
                                  version |-> settings[target[d][1]]]
            <4>1. settings[target[d][1]] \in Version /\ image[d] \in Image
                BY <3>2, ImagedRow DEF TypeOK
            <4>2. loaded \in Workload
                BY <4>1 DEF Workload
            <4>3. spec' = [spec EXCEPT ![d] = loaded]
                BY <2>2, <3>2 DEF LoadSpec
            <4> HIDE DEF loaded
            <4>4. spec' \in [DeployId -> Workload \cup {NoWorkload}]
                BY <4>2, <4>3 DEF TypeOK
            <4> QED BY <2>2, <3>2, <4>4 DEF LoadSpec, TypeOK
        <3> QED BY <3>1, <3>2
    <2>3. CASE ApplyWorkload(d) BY <2>3 DEF ApplyWorkload, TypeOK
    <2>4. CASE ApplyFails(d) BY <2>4 DEF ApplyFails, TypeOK
    <2>5. CASE RolloutCompletes(d) BY <2>5 DEF RolloutCompletes, TypeOK
    <2>6. CASE RolloutFails(d) BY <2>6 DEF RolloutFails, TypeOK
    <2>7. ASSUME NEW from, NEW to, NEW next \in ReconcilePC, CheckStatusC(d, from, to, next)
          PROVE TypeOK'
        BY <2>7 DEF CheckStatusC, TypeOK
    <2>8. ASSUME NEW from, NEW to \in Status, UpdateStatusC(d, from, to) PROVE TypeOK'
        BY <2>8 DEF UpdateStatusC, WriteStatus, TypeOK
    <2> QED
        BY <1>3, <2>1, <2>2, <2>3, <2>4, <2>5, <2>6, <2>7, <2>8 DEF ReconcileStep, Status
<1>4. ASSUME NEW t \in Target, Teardown(t) PROVE TypeOK'
    BY <1>4 DEF Teardown, Receive, TypeOK
<1>5. CASE ControllerCrash BY <1>5 DEF ControllerCrash, Disconnect, Fault, TypeOK
<1>6. ASSUME NEW d \in DeployId, ControllerStatementFails(d) PROVE TypeOK'
    BY <1>6 DEF ControllerStatementFails, OnErrorC, Fault, TypeOK
<1>7. ASSUME NEW t \in Target, TeardownFails(t) PROVE TypeOK'
    BY <1>7 DEF TeardownFails, Receive, Fault, TypeOK
<1> QED
    BY <1>1, <1>2, <1>3, <1>4, <1>5, <1>6, <1>7 DEF ControllerAction, ControllerStep

LEMMA TypeStep == PipelineInv /\ [Next]_vars => TypeOK'
<1> SUFFICES ASSUME PipelineInv, [Next]_vars PROVE TypeOK'
    OBVIOUS
<1> TypeOK BY DEF PipelineInv
<1>1. CASE UNCHANGED vars
    BY <1>1 DEF vars, rowVars, busVars, builderVars, controllerVars, apiVars, TypeOK
<1> QED BY <1>1, TypeApi, TypeBuilder, TypeController DEF Next

------------------------------------------------------------------------------
(* Ownership: at any moment at most one goroutine or notification stands for  *)
(* a deploy beyond the claim, and it knows the deploy's status.               *)

LEMMA OwnershipInit == Init => OwnershipInv
BY Shapes DEF Init, StoreInit, BusInit, BuilderInit, ControllerInit, OwnershipInv, OneOwner,
              OwnerKnowsStatus, HandedOver, Owns, BuildingPC

(* A new row, whichever state it is created in, is nobody's yet; it may be    *)
(* announced on the deployment channel if it is created deploying.            *)
LEMMA OwnershipCreate ==
    ASSUME TypeOK, OwnershipInv, NEW d \in DeployId, NEW to,
           status[d] = "none",
           status' = [status EXCEPT ![d] = to],
           \/ /\ to = "queued"
              /\ outbox' = outbox \cup {<<DeployChannel, d>>}
           \/ /\ to = "deploying"
              /\ outbox' = outbox \cup {<<DeploymentChannel, d>>},
           UNCHANGED <<inbox, bpc, cpc>>
    PROVE  OwnershipInv'
<1>1. ~HandedOver(d) /\ \A w \in Worker : Owns(w) => w[3] # d
    BY DEF OwnershipInv, OwnerKnowsStatus, Owns
<1>2. \A e \in DeployId : e # d => status'[e] = status[e]
    BY DEF TypeOK
<1>3. \A e \in DeployId : e # d => (HandedOver(e)' <=> HandedOver(e))
    BY DEF HandedOver
<1>4. HandedOver(d)' => status'[d] = "deploying"
    BY <1>1 DEF HandedOver, TypeOK
<1>5. OneOwner'
    BY <1>1, <1>3, Shapes DEF OwnershipInv, OneOwner, Owns, HandedOver
<1>6. OwnerKnowsStatus'
    BY <1>1, <1>2, <1>3, <1>4, Shapes DEF OwnershipInv, OwnerKnowsStatus, Owns
<1> QED BY <1>5, <1>6 DEF OwnershipInv

(* Steps that neither change a status nor an owner.                           *)
LEMMA OwnershipFrame ==
    ASSUME OwnershipInv, UNCHANGED <<status, inbox, bpc, cpc>>,
           \A d \in DeployId : <<DeploymentChannel, d>> \in outbox' =>
                                  <<DeploymentChannel, d>> \in outbox
    PROVE  OwnershipInv'
BY Shapes DEF OwnershipInv, OneOwner, OwnerKnowsStatus, HandedOver, Owns

LEMMA OwnershipApi == PipelineInv /\ ApiAction => OwnershipInv'
<1> SUFFICES ASSUME PipelineInv, ApiAction PROVE OwnershipInv'
    OBVIOUS
<1> TypeOK /\ OwnershipInv BY DEF PipelineInv
<1> USE DEF others, rowVars, busVars, builderVars, controllerVars
<1>1. ASSUME NEW d \in DeployId, NEW s \in Services, EnqueueDeploy(d, s) PROVE OwnershipInv'
    BY <1>1, OwnershipCreate DEF EnqueueDeploy, createBuildableDeploy, IsNextId
<1>2. ASSUME NEW d \in DeployId, NEW s \in Services, NEW pr \in PRs, EnqueuePreview(d, s, pr)
      PROVE OwnershipInv'
    BY <1>2, OwnershipCreate DEF EnqueuePreview, createBuildableDeploy, IsNextId
<1>3. ASSUME NEW d \in DeployId, NEW s \in Services, NEW i \in Prebuilt, ImageDeploy(d, s, i)
      PROVE OwnershipInv'
    BY <1>3, OwnershipCreate DEF ImageDeploy, createImagedDeploy, IsNextId
<1>4. ASSUME NEW d \in DeployId, NEW from \in DeployId, Rollback(d, from) PROVE OwnershipInv'
    BY <1>4, OwnershipCreate DEF Rollback, createImagedDeploy, IsNextId
<1>5. ASSUME NEW t \in prOpen, ClosePullRequest(t) PROVE OwnershipInv'
    BY <1>5, OwnershipFrame DEF ClosePullRequest
<1>6. ASSUME NEW s \in Services, ChangeSettings(s) PROVE OwnershipInv'
    BY <1>6, OwnershipFrame DEF ChangeSettings
<1>7. ASSUME NEW a \in applying, NothingToApply(a) PROVE OwnershipInv'
    BY <1>7, OwnershipFrame DEF NothingToApply
<1>12. ASSUME NEW a \in applying, NEW last \in DeployId, LookUpImage(a, last)
       PROVE OwnershipInv'
    BY <1>12, OwnershipFrame DEF LookUpImage
<1>8. ASSUME NEW a \in applying, NEW d \in DeployId, ApplyServiceChange(d, a)
      PROVE OwnershipInv'
    BY <1>8, OwnershipCreate DEF ApplyServiceChange, createImagedDeploy, IsNextId
<1>9. ASSUME NEW a \in applying, ApplyServiceChangeFails(a) PROVE OwnershipInv'
    BY <1>9, OwnershipFrame DEF ApplyServiceChangeFails
<1>10. ASSUME NEW m \in outbox, Publish(m) PROVE OwnershipInv'
    <2>1. m = <<m[1], m[2]>> BY Shapes DEF TypeOK
    <2>2. UNCHANGED <<status, bpc, cpc>> /\ outbox' = outbox \ {m}
        BY <1>10 DEF Publish
    <2>3. \A n : n \in inbox'[Controller] => n \in inbox[Controller] \/ n = m
        BY <1>10, <2>1 DEF Publish, Notify
    <2>4. \A d \in DeployId : HandedOver(d)' => HandedOver(d)
        BY <2>2, <2>3 DEF HandedOver
    <2>5. OneOwner'
        BY <2>2, <2>3, <2>4, Shapes DEF OwnershipInv, OneOwner, Owns
    <2>6. OwnerKnowsStatus'
        BY <2>2, <2>4, Shapes DEF OwnershipInv, OwnerKnowsStatus
    <2> QED BY <2>5, <2>6 DEF OwnershipInv
<1>11. ASSUME NEW m \in outbox, PublishFails(m) PROVE OwnershipInv'
    BY <1>11, OwnershipFrame DEF PublishFails
<1> QED
    BY <1>1, <1>2, <1>3, <1>4, <1>5, <1>6, <1>7, <1>8, <1>9, <1>10, <1>11,
       <1>12 DEF ApiAction, UserRequest, ApplyChange

(* A goroutine moves on within its ownership, or gives it up.                 *)
LEMMA OwnershipKeep ==
    ASSUME TypeOK, OwnershipInv, NEW w \in Worker, NEW pc,
           bpc' = [bpc EXCEPT ![w] = pc],
           \/ bpc[w] \in BuildingPC /\ pc \in BuildingPC
           \/ pc \in {"idle", "claim"},
           UNCHANGED <<status, inbox, outbox, cpc>>
    PROVE  OwnershipInv'
<1>1. \A v \in Worker : bpc'[v] \in BuildingPC => bpc[v] \in BuildingPC
    BY DEF TypeOK, BuildingPC
<1>2. \A v \in Worker : bpc'[v] = "notify" => bpc[v] = "notify"
    BY DEF TypeOK, BuildingPC
<1>3. \A v \in Worker : Owns(v)' => Owns(v)
    BY <1>1, <1>2 DEF Owns
<1>4. \A d \in DeployId : HandedOver(d)' <=> HandedOver(d)
    BY DEF HandedOver
<1>5. OneOwner'
    BY <1>3, <1>4, Shapes DEF OwnershipInv, OneOwner
<1>6. OwnerKnowsStatus'
    BY <1>1, <1>2, <1>4, Shapes DEF OwnershipInv, OwnerKnowsStatus
<1> QED BY <1>5, <1>6 DEF OwnershipInv

(* A goroutine wins the claim: nobody could own a queued deploy.              *)
LEMMA OwnershipClaim ==
    ASSUME TypeOK, OwnershipInv, NEW w \in Worker,
           status[w[3]] = "queued",
           status' = [status EXCEPT ![w[3]] = "building"],
           bpc' = [bpc EXCEPT ![w] = "start"],
           UNCHANGED <<inbox, outbox, cpc>>
    PROVE  OwnershipInv'
<1>1. ~HandedOver(w[3]) /\ \A v \in Worker : v[3] = w[3] => ~Owns(v)
    BY Shapes DEF OwnershipInv, OwnerKnowsStatus, Owns
<1>2. \A v \in Worker : v # w => bpc'[v] = bpc[v]
    BY DEF TypeOK
<1>3. bpc'[w] = "start" /\ status'[w[3]] = "building"
    BY Shapes DEF TypeOK
<1>4. \A d \in DeployId : d # w[3] => status'[d] = status[d]
    BY DEF TypeOK
<1>5. \A d \in DeployId : HandedOver(d)' <=> HandedOver(d)
    BY DEF HandedOver
<1>6. OneOwner'
    BY <1>1, <1>2, <1>5, Shapes DEF OwnershipInv, OneOwner, Owns
<1>7. OwnerKnowsStatus'
    BY <1>1, <1>2, <1>3, <1>4, <1>5, Shapes
       DEF OwnershipInv, OwnerKnowsStatus, Owns, BuildingPC
<1> QED BY <1>6, <1>7 DEF OwnershipInv

(* The owner writes the status of its deploy: it gives the deploy up, or has  *)
(* moved it to deploying and is about to hand it over.                        *)
LEMMA OwnershipWrite ==
    ASSUME TypeOK, OwnershipInv, NEW w \in Worker, NEW to, NEW pc,
           bpc[w] \in BuildingPC,
           status' = [status EXCEPT ![w[3]] = to],
           bpc' = [bpc EXCEPT ![w] = pc],
           pc = "idle" \/ (pc = "notify" /\ to = "deploying"),
           UNCHANGED <<inbox, outbox, cpc>>
    PROVE  OwnershipInv'
<1>1. ~HandedOver(w[3]) /\ \A v \in Worker : v[3] = w[3] /\ v # w => ~Owns(v)
    BY Shapes DEF OwnershipInv, OneOwner, Owns
<1>2. \A v \in Worker : v # w => bpc'[v] = bpc[v]
    BY DEF TypeOK
<1>3. bpc'[w] = pc /\ status'[w[3]] = to
    BY Shapes DEF TypeOK
<1>4. \A d \in DeployId : d # w[3] => status'[d] = status[d]
    BY DEF TypeOK
<1>5. \A d \in DeployId : HandedOver(d)' <=> HandedOver(d)
    BY DEF HandedOver
<1>6. OneOwner'
    BY <1>1, <1>2, <1>3, <1>5, Shapes DEF OwnershipInv, OneOwner, Owns, BuildingPC
<1>7. OwnerKnowsStatus'
    BY <1>1, <1>2, <1>3, <1>4, <1>5, Shapes
       DEF OwnershipInv, OwnerKnowsStatus, Owns, BuildingPC
<1> QED BY <1>6, <1>7 DEF OwnershipInv

LEMMA OwnershipBuilder ==
    PipelineInv /\ BuilderAction /\ UNCHANGED <<controllerVars, apiVars>> => OwnershipInv'
<1> SUFFICES ASSUME PipelineInv, BuilderAction, UNCHANGED <<controllerVars, apiVars>>
             PROVE OwnershipInv'
    OBVIOUS
<1> TypeOK /\ OwnershipInv BY DEF PipelineInv
<1> USE DEF rowVars, busVars, builderVars, controllerVars, apiVars, Goto
<1>1. ASSUME NEW b \in Builders, BuilderStep(b) \/ BuilderCrash(b) PROVE OwnershipInv'
    <2>1. CASE StartBuilder(b) BY <2>1, OwnershipFrame DEF StartBuilder
    <2>2. CASE ListenDeploys(b) BY <2>2, OwnershipFrame DEF ListenDeploys, Listen
    <2>3. ASSUME \A v \in Worker : bpc'[v] = bpc[v] \/ bpc'[v] \in {"idle", "claim"},
                 inbox'[Controller] = inbox[Controller],
                 UNCHANGED <<status, outbox, cpc>>
          PROVE OwnershipInv'
        <3>1. \A v \in Worker : Owns(v)' => Owns(v) /\ bpc'[v] = bpc[v]
            BY <2>3 DEF Owns, BuildingPC
        <3>2. \A d \in DeployId : HandedOver(d)' <=> HandedOver(d)
            BY <2>3 DEF HandedOver
        <3>3. OneOwner' BY <2>3, <3>1, <3>2, Shapes DEF OwnershipInv, OneOwner
        <3>4. OwnerKnowsStatus'
            BY <2>3, <3>1, <3>2, Shapes DEF OwnershipInv, OwnerKnowsStatus, Owns
        <3> QED BY <3>3, <3>4 DEF OwnershipInv
    <2>4. CASE Sweep(b) \/ SweepFails(b) BY <2>3, <2>4 DEF Sweep, SweepFails
    <2>5. ASSUME NEW d \in DeployId, HandleDeploy(b, d) PROVE OwnershipInv'
        BY <2>3, <2>5 DEF HandleDeploy, Receive, TypeOK
    <2>6. CASE BuilderCrash(b) BY <2>3, <2>6 DEF BuilderCrash, Disconnect, TypeOK
    <2> QED BY <1>1, <2>1, <2>2, <2>4, <2>5, <2>6 DEF BuilderStep
<1>2. ASSUME NEW w \in Worker, Claim(w) \/ WorkerStep(w) \/ BuilderStatementFails(w)
      PROVE OwnershipInv'
    <2>1. CASE Claim(w)
        BY <2>1, OwnershipClaim, OwnershipKeep DEF Claim, ClaimQueuedDeploy
    <2>2. CASE StartBuild(w)
        BY <2>2, OwnershipKeep DEF StartBuild, SetBuildStatus, BuildingPC
    <2>3. CASE BuildSucceeds(w) BY <2>3, OwnershipKeep DEF BuildSucceeds, BuildingPC
    <2>4. CASE BuildFails(w) BY <2>4, OwnershipKeep DEF BuildFails, BuildingPC
    <2>5. CASE RecordImage(w)
        BY <2>5, OwnershipKeep DEF RecordImage, SetDeployImage, BuildingPC
    <2>6. ASSUME NEW from \in BuildingPC, NEW s, NEW next \in BuildingPC,
                 FinishBuild(w, from, s, next)
          PROVE OwnershipInv'
        BY <2>6, OwnershipKeep DEF FinishBuild, SetBuildStatus
    <2>7. ASSUME NEW from \in BuildingPC, NEW to, NEW next \in BuildingPC,
                 CheckStatus(w, from, to, next)
          PROVE OwnershipInv'
        BY <2>7, OwnershipKeep DEF CheckStatus
    <2>8. CASE UpdateStatus(w, "write_deploying", "deploying", "notify")
        <3>1. bpc[w] \in BuildingPC BY <2>8 DEF UpdateStatus, BuildingPC
        <3> QED BY <2>8, <3>1, OwnershipWrite DEF UpdateStatus, WriteStatus
    <2>9. CASE UpdateStatus(w, "write_failed", "failed", "idle")
        <3>1. bpc[w] \in BuildingPC BY <2>9 DEF UpdateStatus, BuildingPC
        <3> QED BY <2>9, <3>1, OwnershipWrite DEF UpdateStatus, WriteStatus
    <2>10. CASE NotifyDeployment(w)
        <3>1. bpc[w] = "notify" /\ Owns(w)
            BY <2>10 DEF NotifyDeployment, Owns
        <3>2. status[w[3]] = "deploying" /\ ~HandedOver(w[3])
            BY <3>1, Shapes DEF OwnershipInv, OneOwner, OwnerKnowsStatus
        <3>3. \A v \in Worker : v[3] = w[3] /\ v # w => ~Owns(v)
            BY <3>1 DEF OwnershipInv, OneOwner
        <3>4. /\ bpc'[w] = "idle"
              /\ \A v \in Worker : v # w => bpc'[v] = bpc[v]
              /\ UNCHANGED <<status, outbox, cpc>>
            BY <2>10 DEF NotifyDeployment, TypeOK
        <3>5. \A n : n \in inbox'[Controller] =>
                        n \in inbox[Controller] \/ n = <<DeploymentChannel, w[3]>>
            BY <2>10 DEF NotifyDeployment, Notify
        <3>6. \A d \in DeployId : d # w[3] /\ HandedOver(d)' => HandedOver(d)
            BY <3>4, <3>5 DEF HandedOver
        <3>7. OneOwner'
            BY <3>2, <3>3, <3>4, <3>5, <3>6, Shapes
               DEF OwnershipInv, OneOwner, Owns, HandedOver, BuildingPC
        <3>8. OwnerKnowsStatus'
            BY <3>2, <3>4, <3>6, Shapes DEF OwnershipInv, OwnerKnowsStatus, BuildingPC
        <3> QED BY <3>7, <3>8 DEF OwnershipInv
    <2>11. CASE BuilderStatementFails(w)
        <3>1. \/ bpc[w] \in BuildingPC /\ OnError[bpc[w]] \in BuildingPC
              \/ OnError[bpc[w]] = "idle"
            BY <2>11 DEF BuilderStatementFails, OnError, BuildingPC
        <3> QED BY <2>11, <3>1, OwnershipKeep DEF BuilderStatementFails
    <2> QED
        BY <1>2, <2>1, <2>2, <2>3, <2>4, <2>5, <2>6, <2>7, <2>8, <2>9, <2>10, <2>11
           DEF WorkerStep, BuildingPC
<1> QED BY <1>1, <1>2 DEF BuilderAction

(* The controller's goroutine for a deploy moves on or ends.                  *)
LEMMA OwnershipReconcile ==
    ASSUME TypeOK, OwnershipInv, NEW d \in DeployId, NEW pc, NEW to,
           cpc[d] # "idle",
           cpc' = [cpc EXCEPT ![d] = pc],
           status' = status \/ (pc = "idle" /\ status' = [status EXCEPT ![d] = to]),
           UNCHANGED <<inbox, outbox, bpc>>
    PROVE  OwnershipInv'
<1>1. /\ \A v \in Worker : v[3] = d => ~Owns(v)
      /\ <<DeploymentChannel, d>> \notin inbox[Controller] \cup outbox
    BY DEF OwnershipInv, OneOwner, HandedOver
<1>2. \A e \in DeployId : e # d => cpc'[e] = cpc[e] /\ status'[e] = status[e]
    BY DEF TypeOK
<1>3. cpc'[d] = pc /\ (pc = "idle" \/ status'[d] = status[d])
    BY DEF TypeOK
<1>4. \A e \in DeployId : HandedOver(e)' => HandedOver(e) /\ status'[e] = status[e]
    BY <1>1, <1>2, <1>3 DEF HandedOver
<1>5. OneOwner'
    BY <1>1, <1>2, <1>4, Shapes DEF OwnershipInv, OneOwner, Owns
<1>6. OwnerKnowsStatus'
    BY <1>1, <1>2, <1>4, Shapes DEF OwnershipInv, OwnerKnowsStatus, Owns
<1> QED BY <1>5, <1>6 DEF OwnershipInv

LEMMA OwnershipController ==
    PipelineInv /\ ControllerAction /\ UNCHANGED <<builderVars, apiVars>> => OwnershipInv'
<1> SUFFICES ASSUME PipelineInv, ControllerAction, UNCHANGED <<builderVars, apiVars>>
             PROVE OwnershipInv'
    OBVIOUS
<1> TypeOK /\ OwnershipInv BY DEF PipelineInv
<1> USE DEF rowVars, busVars, builderVars, controllerVars, apiVars, GotoC
<1>1. CASE StartController BY <1>1, OwnershipFrame DEF StartController
<1>2. ASSUME NEW channel \in Subscriptions(Controller), ListenController(channel)
      PROVE OwnershipInv'
    BY <1>2, OwnershipFrame DEF ListenController, Listen
<1>3. ASSUME NEW d \in DeployId, HandleDeployment(d) PROVE OwnershipInv'
    <2>1. /\ <<DeploymentChannel, d>> \in inbox[Controller]
          /\ inbox'[Controller] = inbox[Controller] \ {<<DeploymentChannel, d>>}
          /\ cpc'[d] # "idle"
          /\ \A e \in DeployId : e # d => cpc'[e] = cpc[e]
          /\ UNCHANGED <<status, outbox, bpc>>
        BY <1>3 DEF HandleDeployment, Receive, TypeOK
    <2>2. \A e \in DeployId : HandedOver(e)' => HandedOver(e)
        BY <2>1 DEF HandedOver
    <2>3. OneOwner' BY <2>1, <2>2, Shapes DEF OwnershipInv, OneOwner, Owns
    <2>4. OwnerKnowsStatus' BY <2>1, <2>2, Shapes DEF OwnershipInv, OwnerKnowsStatus
    <2> QED BY <2>3, <2>4 DEF OwnershipInv
<1>4. ASSUME NEW d \in DeployId, ReconcileStep(d) PROVE OwnershipInv'
    <2>1. CASE LoadSpec(d) BY <2>1, OwnershipReconcile DEF LoadSpec
    <2>2. CASE ApplyWorkload(d) BY <2>2, OwnershipReconcile DEF ApplyWorkload
    <2>3. CASE ApplyFails(d) BY <2>3, OwnershipReconcile DEF ApplyFails
    <2>4. CASE RolloutCompletes(d) BY <2>4, OwnershipReconcile DEF RolloutCompletes
    <2>5. CASE RolloutFails(d) BY <2>5, OwnershipReconcile DEF RolloutFails
    <2>6. ASSUME NEW from, from # "idle", NEW to, NEW next, CheckStatusC(d, from, to, next)
          PROVE OwnershipInv'
        BY <2>6, OwnershipReconcile DEF CheckStatusC
    <2>7. ASSUME NEW from, from # "idle", NEW to, UpdateStatusC(d, from, to)
          PROVE OwnershipInv'
        BY <2>7, OwnershipReconcile DEF UpdateStatusC, WriteStatus
    <2> QED BY <1>4, <2>1, <2>2, <2>3, <2>4, <2>5, <2>6, <2>7 DEF ReconcileStep
<1>5. ASSUME inbox'[Controller] \subseteq inbox[Controller],
             \A d \in DeployId : cpc'[d] = cpc[d] \/ cpc'[d] = "idle",
             UNCHANGED <<status, outbox, bpc>>
      PROVE OwnershipInv'
    <2>1. \A e \in DeployId : HandedOver(e)' => HandedOver(e)
        BY <1>5 DEF HandedOver
    <2>2. OneOwner' BY <1>5, <2>1, Shapes DEF OwnershipInv, OneOwner, Owns
    <2>3. OwnerKnowsStatus' BY <1>5, <2>1, Shapes DEF OwnershipInv, OwnerKnowsStatus
    <2> QED BY <2>2, <2>3 DEF OwnershipInv
<1>6. ASSUME NEW t \in Target, Teardown(t) \/ TeardownFails(t) PROVE OwnershipInv'
    BY <1>5, <1>6 DEF Teardown, TeardownFails, Receive, TypeOK
<1>7. CASE ControllerCrash
    BY <1>5, <1>7 DEF ControllerCrash, Disconnect, TypeOK
<1>8. ASSUME NEW d \in DeployId, ControllerStatementFails(d) PROVE OwnershipInv'
    BY <1>8, OwnershipReconcile DEF ControllerStatementFails, OnErrorC
<1> QED
    BY <1>1, <1>2, <1>3, <1>4, <1>6, <1>7, <1>8 DEF ControllerAction, ControllerStep

LEMMA OwnershipStep == PipelineInv /\ [Next]_vars => OwnershipInv'
<1> SUFFICES ASSUME PipelineInv, [Next]_vars PROVE OwnershipInv'
    OBVIOUS
<1>1. CASE UNCHANGED vars
    BY <1>1, OwnershipFrame
       DEF vars, rowVars, busVars, builderVars, controllerVars, apiVars, PipelineInv
<1> QED BY <1>1, OwnershipApi, OwnershipBuilder, OwnershipController DEF Next

------------------------------------------------------------------------------
(* What a step can do to the deploys table.                                   *)

RowsKept == UNCHANGED <<status, image, target>>

RowQueued(d) ==
    /\ status[d] = "none" /\ \A e \in 1..(d - 1) : status[e] # "none"
    /\ status' = [status EXCEPT ![d] = "queued"]
    /\ \E t \in Target : target' = [target EXCEPT ![d] = t]
    /\ UNCHANGED image

RowImaged(d) ==
    /\ status[d] = "none" /\ \A e \in 1..(d - 1) : status[e] # "none"
    /\ status' = [status EXCEPT ![d] = "deploying"]
    /\ \E t \in Target : target' = [target EXCEPT ![d] = t]
    /\ \E i \in Image : i \in registry \cup Prebuilt /\ image' = [image EXCEPT ![d] = i]

RowRecorded(d) ==
    /\ status[d] = "building" /\ image[d] = NoImage /\ d \in registry
    /\ image' = [image EXCEPT ![d] = d]
    /\ UNCHANGED <<status, target>>

RowMoved(d, to) ==
    /\ status[d] # "none" /\ CanTransition(status[d], to)
    /\ to \in {"deploying", "live"} => image[d] # NoImage
    /\ to \in Status
    /\ status' = [status EXCEPT ![d] = to]
    /\ UNCHANGED <<image, target>>

RowStep == \/ RowsKept
           \/ \E d \in DeployId : RowQueued(d) \/ RowImaged(d) \/ RowRecorded(d)
           \/ \E d \in DeployId : \E to \in Status : RowMoved(d, to)

LEMMA RowsApi == PipelineInv /\ ApiAction => RowStep /\ registry' = registry
<1> SUFFICES ASSUME PipelineInv, ApiAction PROVE RowStep /\ registry' = registry
    OBVIOUS
<1> USE Shapes DEF others, rowVars, busVars, builderVars, controllerVars
<1>1. ASSUME NEW d \in DeployId, NEW s \in Services, NEW i \in Image, i \in registry \cup Prebuilt,
             createImagedDeploy(d, s, i)
      PROVE RowStep
    <2>1. RowImaged(d) BY <1>1 DEF RowImaged, createImagedDeploy, IsNextId
    <2> QED BY <2>1 DEF RowStep
<1>2. ASSUME NEW d \in DeployId, NEW t \in Target, createBuildableDeploy(d, t) PROVE RowStep
    <2>1. RowQueued(d) BY <1>2 DEF RowQueued, createBuildableDeploy, IsNextId
    <2> QED BY <2>1 DEF RowStep
<1>3. ASSUME NEW d \in DeployId, image[d] # NoImage
      PROVE image[d] \in Image /\ image[d] \in registry \cup Prebuilt /\ target[d][1] \in Services
    BY <1>3, ImagedRow DEF PipelineInv, ImageInv
<1>4. ASSUME NEW d \in DeployId, NEW s \in Services,
             \/ EnqueueDeploy(d, s)
             \/ \E pr \in PRs : EnqueuePreview(d, s, pr)
             \/ \E i \in Prebuilt : ImageDeploy(d, s, i)
      PROVE RowStep /\ registry' = registry
    BY <1>1, <1>2, <1>4 DEF EnqueueDeploy, EnqueuePreview, ImageDeploy
<1>5. ASSUME NEW d \in DeployId, NEW from \in DeployId, Rollback(d, from)
      PROVE RowStep /\ registry' = registry
    BY <1>1, <1>3, <1>5 DEF Rollback
<1>6. ASSUME NEW d \in DeployId, NEW a \in applying, ApplyServiceChange(d, a)
      PROVE RowStep /\ registry' = registry
    <2>1. a[1] \in Services /\ a[3] \in Image /\ a[3] \in registry \cup Prebuilt
        BY <1>6 DEF ApplyServiceChange, PipelineInv, TypeOK, SettingsRequest, ApplyingInv
    <2> QED BY <1>1, <1>6, <2>1 DEF ApplyServiceChange
<1>7. ASSUME \/ \E t \in prOpen : ClosePullRequest(t)
             \/ \E s \in Services : ChangeSettings(s)
             \/ \E a \in applying : \/ NothingToApply(a) \/ ApplyServiceChangeFails(a)
                                    \/ \E last \in DeployId : LookUpImage(a, last)
             \/ \E m \in outbox : Publish(m) \/ PublishFails(m)
      PROVE RowStep /\ registry' = registry
    BY <1>7 DEF ClosePullRequest, ChangeSettings, NothingToApply, LookUpImage,
                ApplyServiceChangeFails, Publish, PublishFails, RowStep, RowsKept
<1> QED BY <1>4, <1>5, <1>6, <1>7 DEF ApiAction, UserRequest, ApplyChange

LEMMA RowsBuilder == PipelineInv /\ BuilderAction => RowStep /\ registry \subseteq registry'
<1> SUFFICES ASSUME PipelineInv, BuilderAction PROVE RowStep /\ registry \subseteq registry'
    OBVIOUS
<1> USE Shapes DEF rowVars, busVars, builderVars
<1>1. ASSUME NEW b \in Builders, BuilderStep(b) \/ BuilderCrash(b)
      PROVE RowStep /\ registry \subseteq registry'
    BY <1>1 DEF BuilderStep, StartBuilder, Sweep, SweepFails, ListenDeploys, HandleDeploy,
                BuilderCrash, RowStep, RowsKept
<1>2. ASSUME NEW w \in Worker, Claim(w) \/ WorkerStep(w) \/ BuilderStatementFails(w)
      PROVE RowStep /\ registry \subseteq registry'
    <2>1. CASE Claim(w)
        <3>1. CASE status[w[3]] # "queued" /\ UNCHANGED rowVars
            BY <2>1, <3>1 DEF Claim, RowStep, RowsKept
        <3>2. CASE ClaimQueuedDeploy(w[3])
            <4>1. RowMoved(w[3], "building")
                BY <3>2 DEF ClaimQueuedDeploy, RowMoved, CanTransition, transitions, Status
            <4> QED BY <2>1, <4>1 DEF Claim, RowStep, Status
        <3> QED BY <2>1, <3>1, <3>2 DEF Claim
    <2>2. CASE RecordImage(w)
        <3>1. bpc[w] = "set_image" BY <2>2 DEF RecordImage
        <3>2. status[w[3]] = "building" /\ image[w[3]] = NoImage /\ w[3] \in registry
            BY <3>1 DEF PipelineInv, OwnershipInv, OwnerKnowsStatus, ImageInv, BuildingPC
        <3>3. RowRecorded(w[3])
            BY <2>2, <3>2 DEF RecordImage, SetDeployImage, RowRecorded
        <3> QED BY <2>2, <3>3 DEF RecordImage, RowStep
    <2>3. CASE UpdateStatus(w, "write_deploying", "deploying", "notify")
        <3>1. bpc[w] = "write_deploying" BY <2>3 DEF UpdateStatus
        <3>2. status[w[3]] = "building" /\ image[w[3]] # NoImage
            BY <3>1 DEF PipelineInv, OwnershipInv, OwnerKnowsStatus, ImageInv, BuildingPC
        <3>3. RowMoved(w[3], "deploying")
            BY <2>3, <3>2
               DEF UpdateStatus, WriteStatus, RowMoved, CanTransition, transitions, Status
        <3> QED BY <2>3, <3>3 DEF UpdateStatus, RowStep, Status
    <2>4. CASE UpdateStatus(w, "write_failed", "failed", "idle")
        <3>1. bpc[w] = "write_failed" BY <2>4 DEF UpdateStatus
        <3>2. status[w[3]] = "building"
            BY <3>1 DEF PipelineInv, OwnershipInv, OwnerKnowsStatus, BuildingPC
        <3>3. RowMoved(w[3], "failed")
            BY <2>4, <3>2
               DEF UpdateStatus, WriteStatus, RowMoved, CanTransition, transitions, Status
        <3> QED BY <2>4, <3>3 DEF UpdateStatus, RowStep, Status
    <2>5. ASSUME \/ StartBuild(w) \/ BuildSucceeds(w) \/ BuildFails(w) \/ NotifyDeployment(w)
                 \/ BuilderStatementFails(w)
                 \/ \E from, s, next : FinishBuild(w, from, s, next)
                 \/ \E from, to, next : CheckStatus(w, from, to, next)
          PROVE RowStep /\ registry \subseteq registry'
        BY <2>5 DEF StartBuild, BuildSucceeds, BuildFails, NotifyDeployment,
                    BuilderStatementFails, FinishBuild, CheckStatus, SetBuildStatus,
                    RowStep, RowsKept
    <2> QED BY <1>2, <2>1, <2>2, <2>3, <2>4, <2>5 DEF WorkerStep
<1> QED BY <1>1, <1>2 DEF BuilderAction

LEMMA RowsController == PipelineInv /\ ControllerAction => RowStep
<1> SUFFICES ASSUME PipelineInv, ControllerAction PROVE RowStep
    OBVIOUS
<1> USE DEF rowVars, busVars, controllerVars
<1>1. ASSUME NEW d \in DeployId, NEW from \in {"write_live", "write_failed"},
             NEW to \in {"live", "failed"}, UpdateStatusC(d, from, to)
      PROVE RowStep
    <2>1. cpc[d] # "idle" BY <1>1 DEF UpdateStatusC
    <2>2. status[d] = "deploying"
        BY <2>1 DEF PipelineInv, OwnershipInv, OwnerKnowsStatus, HandedOver
    <2>3. image[d] # NoImage BY <2>2 DEF PipelineInv, ImageInv
    <2>4. RowMoved(d, to)
        BY <1>1, <2>2, <2>3
           DEF UpdateStatusC, WriteStatus, RowMoved, CanTransition, transitions, Status
    <2> QED BY <2>4 DEF RowStep, Status
<1>2. ASSUME NEW d \in DeployId, HandleDeployment(d) \/ ReconcileStep(d) PROVE RowStep
    BY <1>1, <1>2
       DEF HandleDeployment, ReconcileStep, LoadSpec, ApplyWorkload, ApplyFails,
           RolloutCompletes, RolloutFails, CheckStatusC, RowStep, RowsKept
<1> QED
    BY <1>2 DEF ControllerAction, ControllerStep, StartController, ListenController, Teardown,
                TeardownFails, ControllerCrash, ControllerStatementFails, RowStep, RowsKept

(* Every step of the pipeline changes at most one row, and in one of the      *)
(* ways the lifecycle allows; no pushed tag is ever lost.                     *)
LEMMA RowsStep == PipelineInv /\ [Next]_vars => RowStep /\ registry \subseteq registry'
<1> SUFFICES ASSUME PipelineInv, [Next]_vars PROVE RowStep /\ registry \subseteq registry'
    OBVIOUS
<1>1. CASE UNCHANGED vars
    BY <1>1 DEF vars, rowVars, builderVars, RowStep, RowsKept
<1> QED BY <1>1, RowsApi, RowsBuilder, RowsController DEF Next, builderVars

------------------------------------------------------------------------------
(* The remaining parts of the invariant, from what a step does to the rows.   *)

LEMMA TargetStep == PipelineInv /\ [Next]_vars => TargetInv'
<1> SUFFICES ASSUME PipelineInv, RowStep PROVE TargetInv'
    BY RowsStep
<1> USE Shapes DEF PipelineInv, TypeOK, TargetInv
<1>1. CASE RowsKept BY <1>1 DEF RowsKept
<1>2. ASSUME NEW d \in DeployId, RowQueued(d) PROVE TargetInv' BY <1>2 DEF RowQueued
<1>3. ASSUME NEW d \in DeployId, RowImaged(d) PROVE TargetInv' BY <1>3 DEF RowImaged
<1>4. ASSUME NEW d \in DeployId, RowRecorded(d) PROVE TargetInv' BY <1>4 DEF RowRecorded
<1>5. ASSUME NEW d \in DeployId, NEW to \in Status, RowMoved(d, to) PROVE TargetInv'
    BY <1>5 DEF RowMoved, Status
<1> QED BY <1>1, <1>2, <1>3, <1>4, <1>5 DEF RowStep

(* The image column of a row: empty before the build, pushed when it is set.  *)
RowImages ==
    /\ \A d \in DeployId : status[d] \in {"none", "queued"} => image[d] = NoImage
    /\ \A d \in DeployId : status[d] \in {"deploying", "live"} => image[d] # NoImage
    /\ \A d \in DeployId : image[d] # NoImage => image[d] \in registry \cup Prebuilt

LEMMA RowImagesStep == PipelineInv /\ [Next]_vars => RowImages'
<1> SUFFICES ASSUME PipelineInv, RowStep, registry \subseteq registry' PROVE RowImages'
    BY RowsStep
<1> TypeOK /\ RowImages BY DEF PipelineInv, ImageInv, RowImages
<1> USE DEF RowImages, TypeOK
<1>1. CASE RowsKept BY <1>1 DEF RowsKept
<1>2. ASSUME NEW d \in DeployId, RowQueued(d) PROVE RowImages' BY <1>2 DEF RowQueued
<1>3. ASSUME NEW d \in DeployId, RowImaged(d) PROVE RowImages' BY <1>3 DEF RowImaged
<1>4. ASSUME NEW d \in DeployId, RowRecorded(d) PROVE RowImages' BY <1>4 DEF RowRecorded
<1>5. ASSUME NEW d \in DeployId, NEW to \in Status, RowMoved(d, to) PROVE RowImages'
    BY <1>5 DEF RowMoved, Status, CanTransition, transitions
<1> QED BY <1>1, <1>2, <1>3, <1>4, <1>5 DEF RowStep

(* Where a goroutine that owns a deploy stands with its image.                *)
WorkerImages ==
    /\ \A w \in Worker : bpc[w] \in {"start", "build", "set_image"} => image[w[3]] = NoImage
    /\ \A w \in Worker : bpc[w] = "set_image" => w[3] \in registry
    /\ \A w \in Worker : bpc[w] \in {"finish", "check_deploying", "write_deploying"} =>
          image[w[3]] # NoImage

(* The images of building rows do not change unless their owner moves.        *)
LEMMA WorkerImagesFrame ==
    ASSUME PipelineInv, registry \subseteq registry',
           \A v \in Worker : bpc'[v] = bpc[v] \/ bpc'[v] \in {"idle", "claim"},
           \A d \in DeployId : status[d] # "none" => image'[d] = image[d]
    PROVE  WorkerImages'
<1>1. \A v \in Worker : bpc[v] \in BuildingPC => image'[v[3]] = image[v[3]]
    BY Shapes DEF PipelineInv, OwnershipInv, OwnerKnowsStatus
<1> QED BY <1>1, Shapes DEF PipelineInv, ImageInv, WorkerImages, BuildingPC

LEMMA ImagesKept ==
    ASSUME PipelineInv, RowStep
    PROVE  \A d \in DeployId : \/ image'[d] = image[d]
                               \/ status[d] = "none"
                               \/ status[d] = "building" /\ image[d] = NoImage
BY DEF RowStep, RowsKept, RowQueued, RowImaged, RowRecorded, RowMoved, PipelineInv, TypeOK

LEMMA WorkerImagesBuilder == PipelineInv /\ BuilderAction => WorkerImages'
<1> SUFFICES ASSUME PipelineInv, BuilderAction PROVE WorkerImages'
    OBVIOUS
<1> TypeOK /\ WorkerImages BY DEF PipelineInv, ImageInv, WorkerImages
<1> USE Shapes DEF rowVars, busVars, builderVars, Goto
<1>1. ASSUME NEW b \in Builders, BuilderStep(b) \/ BuilderCrash(b) PROVE WorkerImages'
    <2>1. CASE StartBuilder(b) BY <2>1, WorkerImagesFrame DEF StartBuilder
    <2>2. CASE Sweep(b) \/ SweepFails(b) BY <2>2, WorkerImagesFrame DEF Sweep, SweepFails
    <2>3. CASE ListenDeploys(b) BY <2>3, WorkerImagesFrame DEF ListenDeploys
    <2>4. ASSUME NEW d \in DeployId, HandleDeploy(b, d) PROVE WorkerImages'
        BY <2>4, WorkerImagesFrame DEF HandleDeploy, TypeOK
    <2>5. CASE BuilderCrash(b) BY <2>5, WorkerImagesFrame DEF BuilderCrash
    <2> QED BY <1>1, <2>1, <2>2, <2>3, <2>4, <2>5 DEF BuilderStep
<1>2. ASSUME NEW w \in Worker, Claim(w) \/ WorkerStep(w) \/ BuilderStatementFails(w)
      PROVE WorkerImages'
    <2>1. CASE Claim(w)
        <3>1. status[w[3]] = "queued" => image[w[3]] = NoImage
            BY DEF PipelineInv, ImageInv
        <3> QED BY <2>1, <3>1 DEF Claim, ClaimQueuedDeploy, WorkerImages, TypeOK
    <2>2. CASE StartBuild(w) BY <2>2 DEF StartBuild, SetBuildStatus, WorkerImages, TypeOK
    <2>3. CASE BuildSucceeds(w) BY <2>3 DEF BuildSucceeds, WorkerImages, TypeOK
    <2>4. CASE BuildFails(w) BY <2>4 DEF BuildFails, WorkerImages, TypeOK
    <2>5. CASE RecordImage(w)
        <3>1. Owns(w) BY <2>5 DEF RecordImage, Owns, BuildingPC
        <3>2. \A v \in Worker : v # w /\ bpc[v] \in BuildingPC => v[3] # w[3]
            BY <3>1 DEF PipelineInv, OwnershipInv, OneOwner, Owns
        <3>3. /\ image' = [image EXCEPT ![w[3]] = w[3]]
              /\ bpc' = [bpc EXCEPT ![w] = "finish"]
              /\ registry' = registry
            BY <2>5 DEF RecordImage, SetDeployImage
        <3>4. \A v \in Worker : v # w => bpc'[v] = bpc[v]
            BY <3>3 DEF TypeOK
        <3>5. \A v \in Worker : v # w /\ bpc[v] \in BuildingPC => image'[v[3]] = image[v[3]]
            BY <3>2, <3>3 DEF TypeOK
        <3>6. bpc'[w] = "finish" /\ image'[w[3]] # NoImage
            BY <3>3 DEF TypeOK
        <3> QED BY <3>3, <3>4, <3>5, <3>6 DEF WorkerImages, BuildingPC
    <2>6. ASSUME NEW s, \/ FinishBuild(w, "finish", s, "check_deploying")
                        \/ FinishBuild(w, "finish_failed", s, "check_failed")
          PROVE WorkerImages'
        BY <2>6 DEF FinishBuild, SetBuildStatus, WorkerImages, TypeOK
    <2>7. CASE \/ CheckStatus(w, "check_deploying", "deploying", "write_deploying")
               \/ CheckStatus(w, "check_failed", "failed", "write_failed")
        BY <2>7 DEF CheckStatus, WorkerImages, TypeOK
    <2>8. CASE \/ UpdateStatus(w, "write_deploying", "deploying", "notify")
               \/ UpdateStatus(w, "write_failed", "failed", "idle")
        BY <2>8 DEF UpdateStatus, WriteStatus, WorkerImages, TypeOK
    <2>9. CASE NotifyDeployment(w) BY <2>9, WorkerImagesFrame DEF NotifyDeployment, TypeOK
    <2>10. CASE BuilderStatementFails(w)
        BY <2>10 DEF BuilderStatementFails, OnError, WorkerImages, TypeOK
    <2> QED
        BY <1>2, <2>1, <2>2, <2>3, <2>4, <2>5, <2>6, <2>7, <2>8, <2>9, <2>10 DEF WorkerStep
<1> QED BY <1>1, <1>2 DEF BuilderAction

(* Only the builder writes the image of a row that exists.                    *)
LEMMA OthersKeepImages ==
    ASSUME TypeOK, ApiAction \/ ControllerAction
    PROVE  \A d \in DeployId : status[d] # "none" => image'[d] = image[d]
<1> USE DEF others, rowVars, busVars, builderVars, controllerVars
<1>1. ASSUME NEW d \in DeployId, NEW s, NEW i, createImagedDeploy(d, s, i)
      PROVE \A e \in DeployId : status[e] # "none" => image'[e] = image[e]
    BY <1>1 DEF createImagedDeploy, IsNextId, TypeOK
<1>2. CASE ApiAction
    BY <1>1, <1>2
       DEF ApiAction, UserRequest, ApplyChange, EnqueueDeploy, EnqueuePreview,
           createBuildableDeploy, ImageDeploy, Rollback, ClosePullRequest, ChangeSettings,
           NothingToApply, LookUpImage, ApplyServiceChange, ApplyServiceChangeFails, Publish,
           PublishFails
<1>3. CASE ControllerAction
    BY <1>3
       DEF ControllerAction, ControllerStep, ReconcileStep, StartController, ListenController,
           HandleDeployment, LoadSpec, ApplyWorkload, ApplyFails, RolloutCompletes, RolloutFails,
           CheckStatusC, UpdateStatusC, WriteStatus, Teardown, TeardownFails, ControllerCrash,
           ControllerStatementFails
<1> QED BY <1>2, <1>3

LEMMA ImageStep == PipelineInv /\ [Next]_vars => ImageInv'
<1> SUFFICES ASSUME PipelineInv, [Next]_vars PROVE ImageInv'
    OBVIOUS
<1> TypeOK BY DEF PipelineInv
<1>1. RowImages' BY RowImagesStep
<1>2. WorkerImages'
    <2>1. CASE BuilderAction BY <2>1, WorkerImagesBuilder
    <2>2. CASE UNCHANGED vars
        BY <2>2, WorkerImagesFrame DEF vars, rowVars, builderVars
    <2>3. CASE ApiAction
        <3>1. UNCHANGED builderVars
            BY <2>3 DEF ApiAction, UserRequest, ApplyChange, EnqueueDeploy, EnqueuePreview,
                        ImageDeploy, Rollback, ClosePullRequest, ChangeSettings, NothingToApply,
                        LookUpImage, ApplyServiceChange, ApplyServiceChangeFails, Publish,
                        PublishFails, others
        <3> QED BY <2>3, <3>1, OthersKeepImages, WorkerImagesFrame DEF builderVars
    <2>4. CASE ControllerAction /\ UNCHANGED <<builderVars, apiVars>>
        BY <2>4, OthersKeepImages, WorkerImagesFrame DEF builderVars
    <2> QED BY <2>1, <2>2, <2>3, <2>4 DEF Next
<1> QED BY <1>1, <1>2 DEF ImageInv, RowImages, WorkerImages

(* Only pushed images are re-deployed by a settings request.                  *)
LEMMA ApplyingStep == PipelineInv /\ [Next]_vars => ApplyingInv'
<1> SUFFICES ASSUME PipelineInv, [Next]_vars PROVE ApplyingInv'
    OBVIOUS
<1>1. registry \subseteq registry' BY RowsStep
<1>2. ASSUME applying' \subseteq applying PROVE ApplyingInv'
    BY <1>1, <1>2 DEF PipelineInv, ApplyingInv
<1>3. ASSUME NEW a \in applying, NEW last \in DeployId, LookUpImage(a, last)
      PROVE ApplyingInv'
    <2>1. image[last] # NoImage => image[last] \in registry \cup Prebuilt
        BY DEF PipelineInv, ImageInv
    <2> QED BY <1>1, <1>3, <2>1 DEF LookUpImage, PipelineInv, ApplyingInv
<1>4. ASSUME NEW s \in Services, ChangeSettings(s) PROVE ApplyingInv'
    BY <1>1, <1>4 DEF ChangeSettings, PipelineInv, ApplyingInv
<1>5. CASE ApiAction
    BY <1>2, <1>3, <1>4, <1>5
       DEF ApiAction, UserRequest, ApplyChange, EnqueueDeploy, EnqueuePreview, ImageDeploy,
           Rollback, ClosePullRequest, NothingToApply, ApplyServiceChange,
           ApplyServiceChangeFails, Publish, PublishFails
<1>6. CASE UNCHANGED apiVars BY <1>2, <1>6 DEF apiVars
<1> QED BY <1>5, <1>6 DEF Next, vars

(* A row the controller has, or has had, keeps its image and its target.      *)
LEMMA HandedRowsKept ==
    ASSUME PipelineInv, [Next]_vars, NEW d \in DeployId,
           status[d] \in {"deploying", "live", "failed"}
    PROVE  /\ image'[d] = image[d] /\ target'[d] = target[d]
           /\ status'[d] \in {"deploying", "live", "failed"}
<1>1. RowStep BY RowsStep
<1> USE DEF PipelineInv, TypeOK
<1>2. CASE RowsKept BY <1>2 DEF RowsKept
<1>3. ASSUME NEW e \in DeployId, RowQueued(e) \/ RowImaged(e) \/ RowRecorded(e)
      PROVE /\ image'[d] = image[d] /\ target'[d] = target[d]
            /\ status'[d] \in {"deploying", "live", "failed"}
    BY <1>3 DEF RowQueued, RowImaged, RowRecorded
<1>4. ASSUME NEW e \in DeployId, NEW to \in Status, RowMoved(e, to)
      PROVE /\ image'[d] = image[d] /\ target'[d] = target[d]
            /\ status'[d] \in {"deploying", "live", "failed"}
    BY <1>4 DEF RowMoved, CanTransition, transitions
<1> QED BY <1>1, <1>2, <1>3, <1>4 DEF RowStep

(* Only the controller touches its goroutines, their specs and the cluster.   *)
LEMMA OthersKeepCluster ==
    ASSUME ApiAction \/ (BuilderAction /\ UNCHANGED <<controllerVars, apiVars>>)
    PROVE  UNCHANGED <<cpc, spec, cluster>>
BY DEF ApiAction, UserRequest, ApplyChange, EnqueueDeploy, EnqueuePreview, ImageDeploy, Rollback,
       ClosePullRequest, ChangeSettings, NothingToApply, LookUpImage,
       ApplyServiceChange, ApplyServiceChangeFails, Publish, PublishFails, others, controllerVars

(* A step is the controller's, or leaves the cluster to it, or is a stutter.  *)
LEMMA NextCases ==
    [Next]_vars => \/ ControllerAction
                   \/ ApiAction \/ (BuilderAction /\ UNCHANGED <<controllerVars, apiVars>>)
                   \/ UNCHANGED vars
<1> SUFFICES ASSUME [Next]_vars, ~(UNCHANGED vars)
             PROVE  \/ ControllerAction
                    \/ ApiAction \/ (BuilderAction /\ UNCHANGED <<controllerVars, apiVars>>)
    OBVIOUS
<1>1. Next OBVIOUS
<1> QED BY ONLY <1>1 DEF Next

LEMMA SpecStep == PipelineInv /\ [Next]_vars => SpecInv'
<1> SUFFICES ASSUME PipelineInv, [Next]_vars, NEW d \in DeployId, cpc'[d] = "apply"
             PROVE /\ spec'[d].deploy = d /\ spec'[d].image = image'[d]
                   /\ spec'[d] # NoWorkload
    BY DEF SpecInv
<1> TypeOK /\ SpecInv BY DEF PipelineInv
<1> USE DEF rowVars, busVars, controllerVars, GotoC
<1>1. ASSUME cpc[d] = "apply", spec'[d] = spec[d]
      PROVE /\ spec'[d].deploy = d /\ spec'[d].image = image'[d]
            /\ spec'[d] # NoWorkload
    <2>1. status[d] = "deploying"
        BY <1>1 DEF PipelineInv, OwnershipInv, OwnerKnowsStatus, HandedOver
    <2> QED BY <1>1, <2>1, HandedRowsKept DEF SpecInv
<1>2. CASE UNCHANGED <<cpc, spec>> BY <1>1, <1>2
<1>3. CASE ControllerAction
    <2>1. ASSUME NEW e \in DeployId, LoadSpec(e)
          PROVE /\ spec'[d].deploy = d /\ spec'[d].image = image'[d]
                /\ spec'[d] # NoWorkload
        <3>1. CASE e # d BY <1>1, <2>1, <3>1 DEF LoadSpec, TypeOK
        <3>2. CASE e = d
            BY <2>1, <3>2 DEF LoadSpec, TypeOK, NoWorkload
        <3> QED BY <3>1, <3>2
    <2>2. ASSUME NEW e \in DeployId, ReconcileStep(e), ~LoadSpec(e)
          PROVE cpc[d] = "apply" /\ spec'[d] = spec[d]
        BY <2>2 DEF ReconcileStep, ApplyWorkload, ApplyFails, RolloutCompletes, RolloutFails,
                    CheckStatusC, UpdateStatusC, TypeOK
    <2>3. ASSUME NEW e \in DeployId, HandleDeployment(e) \/ ControllerStatementFails(e)
          PROVE cpc[d] = "apply" /\ spec'[d] = spec[d]
        <3>1. CASE HandleDeployment(e) BY <3>1 DEF HandleDeployment, TypeOK
        <3>2. CASE ControllerStatementFails(e)
            <4>1. OnErrorC[cpc[e]] \subseteq {"idle", "check_failed"}
                BY <3>2 DEF ControllerStatementFails, OnErrorC
            <4> QED BY <3>2, <4>1 DEF ControllerStatementFails, TypeOK
        <3> QED BY <2>3, <3>1, <3>2
    <2>4. ~ControllerCrash BY DEF ControllerCrash
    <2>5. CASE \/ StartController
               \/ \E channel \in Subscriptions(Controller) : ListenController(channel)
               \/ \E t \in Target : Teardown(t) \/ TeardownFails(t)
        BY <1>2, <2>5 DEF StartController, ListenController, Teardown, TeardownFails
    <2> QED
        BY <1>1, <1>3, <2>1, <2>2, <2>3, <2>4, <2>5 DEF ControllerAction, ControllerStep
<1>4. CASE UNCHANGED vars BY <1>2, <1>4 DEF vars
<1>5. CASE ApiAction \/ (BuilderAction /\ UNCHANGED <<controllerVars, apiVars>>)
    <2>1. UNCHANGED <<cpc, spec, cluster>> BY ONLY <1>5, OthersKeepCluster
    <2> QED BY <1>2, <2>1
<1> QED BY ONLY [Next]_vars, NextCases, <1>3, <1>4, <1>5

LEMMA ClusterStep == PipelineInv /\ [Next]_vars => ClusterRunsItsDeploys'
<1> SUFFICES ASSUME PipelineInv, [Next]_vars, NEW t \in Target, cluster'[t] # NoWorkload
             PROVE LET d == cluster'[t].deploy IN
                   /\ target'[d] = t
                   /\ image'[d] = cluster'[t].image
                   /\ status'[d] \in {"deploying", "live", "failed"}
    BY DEF ClusterRunsItsDeploys
<1> TypeOK /\ ClusterRunsItsDeploys BY DEF PipelineInv
<1> DEFINE Good == LET d == cluster'[t].deploy IN
                   /\ target'[d] = t
                   /\ image'[d] = cluster'[t].image
                   /\ status'[d] \in {"deploying", "live", "failed"}
<1>1. ASSUME cluster'[t] = cluster[t] PROVE Good
    <2> DEFINE d == cluster[t].deploy
    <2>1. cluster[t] \in Workload BY <1>1 DEF TypeOK
    <2>2. d \in DeployId BY <2>1 DEF Workload
    <2>3. target[d] = t /\ image[d] = cluster[t].image
          /\ status[d] \in {"deploying", "live", "failed"}
        BY <1>1 DEF ClusterRunsItsDeploys
    <2>4. /\ image'[d] = image[d] /\ target'[d] = target[d]
          /\ status'[d] \in {"deploying", "live", "failed"}
        BY <2>2, <2>3, HandedRowsKept
    <2> QED BY <1>1, <2>3, <2>4
<1>2. ASSUME NEW e \in DeployId, ApplyWorkload(e) PROVE Good
    <2>1. CASE target[e] # t BY <1>1, <1>2, <2>1 DEF ApplyWorkload, TypeOK
    <2>2. CASE target[e] = t
        <3>1. cpc[e] = "apply" /\ cluster'[t] = spec[e] /\ UNCHANGED rowVars
            BY <1>2, <2>2 DEF ApplyWorkload, TypeOK
        <3>2. status[e] = "deploying"
            BY <3>1 DEF PipelineInv, OwnershipInv, OwnerKnowsStatus, HandedOver
        <3>3. spec[e].deploy = e /\ spec[e].image = image[e]
            BY <3>1 DEF PipelineInv, SpecInv
        <3> QED BY <2>2, <3>1, <3>2, <3>3 DEF rowVars
    <2> QED BY <2>1, <2>2
<1>3. ASSUME NEW u \in Target, Teardown(u) PROVE Good
    BY <1>1, <1>3 DEF Teardown, TypeOK
<1>4. ASSUME cluster' = cluster PROVE Good
    BY <1>1, <1>4
<1>5. CASE ControllerAction
    BY <1>2, <1>3, <1>4, <1>5
       DEF ControllerAction, ControllerStep, ReconcileStep, StartController, ListenController,
           HandleDeployment, LoadSpec, ApplyFails, RolloutCompletes, RolloutFails, CheckStatusC,
           UpdateStatusC, TeardownFails, ControllerCrash, ControllerStatementFails, controllerVars
<1>6. CASE UNCHANGED vars BY <1>4, <1>6 DEF vars, controllerVars
<1>7. CASE ApiAction \/ (BuilderAction /\ UNCHANGED <<controllerVars, apiVars>>)
    <2>1. UNCHANGED <<cpc, spec, cluster>> BY ONLY <1>7, OthersKeepCluster
    <2> QED BY <1>4, <2>1
<1> QED BY ONLY [Next]_vars, NextCases, <1>5, <1>6, <1>7

------------------------------------------------------------------------------
(* The theorems.                                                              *)

LEMMA PipelineInit == Init => PipelineInv
<1> SUFFICES ASSUME Init PROVE PipelineInv
    OBVIOUS
<1>1. TypeOK /\ OwnershipInv BY TypeInit, OwnershipInit
<1>2. TargetInv /\ ImageInv /\ ApplyingInv /\ SpecInv /\ ClusterRunsItsDeploys
    BY Shapes DEF Init, StoreInit, BuilderInit, ControllerInit, TargetInv, ImageInv, ApplyingInv,
                  SpecInv, ClusterRunsItsDeploys
<1> QED BY <1>1, <1>2 DEF PipelineInv

LEMMA PipelineStep == PipelineInv /\ [Next]_vars => PipelineInv'
BY TypeStep, OwnershipStep, TargetStep, ImageStep, ApplyingStep, SpecStep, ClusterStep
   DEF PipelineInv

(* The inductive invariant: types, ownership of deploys, targets, images,     *)
(* loaded specs and the cluster, for every instance of the pipeline.          *)
THEOREM PipelineCorrect == Spec => []PipelineInv
BY PipelineStep, PipelineInit, PTL DEF Spec

(* Every variable of the pipeline keeps its type.                             *)
THEOREM TypeCorrect == Spec => []TypeOK
<1>1. PipelineInv => TypeOK BY DEF PipelineInv
<1> QED BY <1>1, PipelineCorrect, PTL

(* No deploy is ever built twice at once or built while the controller has    *)
(* it, and the controller is asked for it only once: the compare-and-set of   *)
(* ClaimQueuedDeploy suffices, whatever the sweeps and notifications.         *)
THEOREM SingleOwnership == Spec => []OneOwner
<1>1. PipelineInv => OneOwner BY DEF PipelineInv, OwnershipInv
<1> QED BY <1>1, PipelineCorrect, PTL

(* Everything the platform runs or is about to run was pushed before.         *)
THEOREM ImagesExist == Spec => []ImagePushed
<1>1. ASSUME PipelineInv PROVE ImagePushed
    <2>1. \A d \in DeployId : status[d] \in {"deploying", "live"} =>
             image[d] \in registry \cup Prebuilt
        BY <1>1 DEF PipelineInv, ImageInv
    <2>2. ASSUME NEW t \in Target, cluster[t] # NoWorkload
          PROVE cluster[t].image \in registry \cup Prebuilt
        <3>1. cluster[t] \in Workload BY <1>1, <2>2 DEF PipelineInv, TypeOK
        <3>2. cluster[t].deploy \in DeployId /\ cluster[t].image \in Image
            BY <3>1 DEF Workload
        <3>3. image[cluster[t].deploy] = cluster[t].image
            BY <1>1, <2>2 DEF PipelineInv, ClusterRunsItsDeploys
        <3>4. cluster[t].image # NoImage BY <3>2
        <3> QED BY <1>1, <3>2, <3>3, <3>4 DEF PipelineInv, ImageInv
    <2> QED BY <2>1, <2>2 DEF ImagePushed
<1>2. PipelineInv => ImagePushed BY <1>1
<1> QED BY <1>2, PipelineCorrect, PTL

(* A workload runs a deploy made for it, with that deploy's image.            *)
THEOREM ClusterCorrect == Spec => []ClusterRunsItsDeploys
<1>1. PipelineInv => ClusterRunsItsDeploys BY DEF PipelineInv
<1> QED BY <1>1, PipelineCorrect, PTL

(* The pipeline implements the lifecycle of the deploys table: the unguarded  *)
(* UPDATE of UpdateDeployStatus never takes a status off the status machine,  *)
(* because only the owner of a deploy executes it.                            *)
THEOREM PipelineImplementsLifecycle == Spec => ImplementsLifecycle
<1>1. Init => Lifecycle!Init
    BY DEF Init, StoreInit, Lifecycle!Init, Lifecycle!DeployId
<1>2. ASSUME PipelineInv, [Next]_vars PROVE [Lifecycle!Next]_(Lifecycle!vars)
    <2>1. RowStep BY <1>2, RowsStep
    <2> USE DEF Lifecycle!DeployId, Lifecycle!Image, Lifecycle!CanTransition,
                Lifecycle!transitions, Lifecycle!Status, Lifecycle!vars, Lifecycle!Next
    <2>2. CASE RowsKept BY <2>2 DEF RowsKept
    <2>3. ASSUME NEW d \in DeployId, RowQueued(d) \/ RowImaged(d) PROVE Lifecycle!Next
        BY <2>3 DEF RowQueued, RowImaged, Lifecycle!Create
    <2>4. ASSUME NEW d \in DeployId, RowRecorded(d) PROVE Lifecycle!Next
        BY <2>4 DEF RowRecorded, Lifecycle!RecordImage
    <2>5. ASSUME NEW d \in DeployId, NEW to \in Status, RowMoved(d, to) PROVE Lifecycle!Next
        <3>1. Lifecycle!Advance(d, to)
            BY <2>5 DEF RowMoved, Lifecycle!Advance, CanTransition, transitions
        <3> QED BY <3>1 DEF Status
    <2> QED BY <2>1, <2>2, <2>3, <2>4, <2>5 DEF RowStep
<1>3. PipelineInv /\ [Next]_vars => [Lifecycle!Next]_(Lifecycle!vars) BY <1>2
<1> QED BY <1>1, <1>3, PipelineCorrect, PTL
        DEF Spec, ImplementsLifecycle, Lifecycle!Spec

------------------------------------------------------------------------------
(* The build row and the deploy row agree.  They are written by different     *)
(* statements, so what relates them on the way is where the goroutine that    *)
(* owns the deploy stands between the two.                                    *)

(* The build of d has ended well, or only its last statement was lost.        *)
Finished(d) == build[d] = "succeeded" \/ (build[d] = "running" /\ faults > 0)

RunningPC == {"build", "set_image", "finish"}

FinishedPC == {"check_deploying", "write_deploying"}

BuildInv == /\ \A w \in Worker : bpc[w] \in RunningPC => build[w[3]] = "running"
            /\ \A w \in Worker : bpc[w] \in FinishedPC => Finished(w[3])
            /\ BuildAgrees

(* A step that leaves the build rows of existing deploys alone, and takes no  *)
(* goroutine further than its claim.                                          *)
LEMMA BuildFrame ==
    ASSUME PipelineInv, BuildInv, faults' >= faults, faults' \in Nat,
           \A v \in Worker : bpc'[v] = bpc[v] \/ bpc'[v] \notin RunningPC \cup FinishedPC,
           \A d \in DeployId :
               \/ /\ build'[d] = build[d]
                  /\ \/ status'[d] = status[d]
                     \/ status'[d] = "failed"
                     \/ status[d] = "queued" /\ status'[d] = "building"
                     \/ status[d] = "deploying" /\ status'[d] = "live"
               \/ status[d] = "none" /\ status'[d] = "queued" /\ build'[d] = "queued"
               \/ status[d] = "none" /\ status'[d] = "deploying" /\ build'[d] = "succeeded"
    PROVE  BuildInv'
<1>1. faults \in Nat /\ \A d \in DeployId : Finished(d) /\ build'[d] = build[d] => Finished(d)'
    BY DEF PipelineInv, TypeOK, Finished
<1>2. \A w \in Worker : bpc'[w] \in RunningPC \cup FinishedPC =>
         bpc[w] = bpc'[w] /\ status[w[3]] = "building"
    BY DEF PipelineInv, OwnershipInv, OwnerKnowsStatus, BuildingPC, RunningPC, FinishedPC
<1>3. \A w \in Worker : bpc'[w] \in RunningPC \cup FinishedPC => build'[w[3]] = build[w[3]]
    BY <1>2, Shapes
<1>4. \A w \in Worker : bpc'[w] \in RunningPC => build'[w[3]] = "running"
    BY <1>2, <1>3 DEF BuildInv
<1>5. \A w \in Worker : bpc'[w] \in FinishedPC => Finished(w[3])'
    BY <1>1, <1>2, <1>3, Shapes DEF BuildInv
<1>6. BuildAgrees'
    BY <1>1 DEF BuildInv, BuildAgrees
<1> QED BY <1>4, <1>5, <1>6 DEF BuildInv

(* A step of the goroutine that owns a deploy: nobody else's rows or          *)
(* goroutines are concerned.                                                  *)
LEMMA BuildOwned ==
    ASSUME PipelineInv, BuildInv, NEW w \in Worker, bpc[w] \in BuildingPC,
           faults' >= faults, faults' \in Nat,
           \A v \in Worker : v # w => bpc'[v] = bpc[v],
           \A d \in DeployId : d # w[3] => build'[d] = build[d] /\ status'[d] = status[d],
           bpc'[w] \in RunningPC => build'[w[3]] = "running",
           bpc'[w] \in FinishedPC => Finished(w[3])',
           build'[w[3]] = "failed" => status'[w[3]] \in {"building", "failed"},
           status'[w[3]] \in {"deploying", "live"} => Finished(w[3])'
    PROVE  BuildInv'
<1>1. faults \in Nat /\ \A d \in DeployId : Finished(d) /\ build'[d] = build[d] => Finished(d)'
    BY DEF PipelineInv, TypeOK, Finished
<1>2. \A v \in Worker : v # w /\ bpc[v] \in RunningPC \cup FinishedPC => v[3] # w[3]
    BY DEF PipelineInv, OwnershipInv, OneOwner, Owns, BuildingPC, RunningPC, FinishedPC
<1>3. \A v \in Worker : v # w /\ bpc'[v] \in RunningPC => build'[v[3]] = "running"
    BY <1>2, Shapes DEF BuildInv
<1>4. \A v \in Worker : v # w /\ bpc'[v] \in FinishedPC => Finished(v[3])'
    BY <1>1, <1>2, Shapes DEF BuildInv
<1>5. BuildAgrees'
    <2> SUFFICES ASSUME NEW d \in DeployId
                 PROVE /\ build'[d] = "failed" => status'[d] \in {"building", "failed"}
                       /\ status'[d] \in {"deploying", "live"} => Finished(d)'
        BY DEF BuildAgrees, Finished
    <2>1. CASE d = w[3] BY <2>1
    <2>2. CASE d # w[3] BY <1>1, <2>2 DEF BuildInv, BuildAgrees, Finished
    <2> QED BY <2>1, <2>2
<1> QED BY <1>3, <1>4, <1>5 DEF BuildInv

LEMMA BuildApi == PipelineInv /\ BuildInv /\ ApiAction => BuildInv'
<1> SUFFICES ASSUME PipelineInv, BuildInv, ApiAction PROVE BuildInv'
    OBVIOUS
<1> USE Shapes DEF others, rowVars, busVars, builderVars, controllerVars
<1> TypeOK BY DEF PipelineInv
<1>1. faults \in Nat BY DEF TypeOK
<1>2. ASSUME NEW d \in DeployId, NEW t \in Target, createBuildableDeploy(d, t),
             UNCHANGED <<bpc, faults>>
      PROVE BuildInv'
    BY <1>1, <1>2, BuildFrame DEF createBuildableDeploy, IsNextId, TypeOK
<1>3. ASSUME NEW d \in DeployId, NEW s, NEW i, createImagedDeploy(d, s, i),
             UNCHANGED <<bpc, faults>>
      PROVE BuildInv'
    BY <1>1, <1>3, BuildFrame DEF createImagedDeploy, IsNextId, TypeOK
<1>4. ASSUME UNCHANGED <<rowVars, bpc>>, faults' = faults \/ faults' = faults + 1 PROVE BuildInv'
    BY <1>1, <1>4, BuildFrame
<1>5. ASSUME NEW d \in DeployId, NEW s \in Services,
             \/ EnqueueDeploy(d, s)
             \/ \E pr \in PRs : EnqueuePreview(d, s, pr)
             \/ \E i \in Prebuilt : ImageDeploy(d, s, i)
      PROVE BuildInv'
    BY <1>2, <1>3, <1>5 DEF EnqueueDeploy, EnqueuePreview, ImageDeploy
<1>6. ASSUME NEW d \in DeployId, NEW from \in DeployId, Rollback(d, from) PROVE BuildInv'
    BY <1>3, <1>6 DEF Rollback
<1>7. ASSUME NEW d \in DeployId, NEW a \in applying, ApplyServiceChange(d, a) PROVE BuildInv'
    BY <1>3, <1>7 DEF ApplyServiceChange
<1>8. ASSUME \/ \E t \in prOpen : ClosePullRequest(t)
             \/ \E s \in Services : ChangeSettings(s)
             \/ \E a \in applying : \/ NothingToApply(a) \/ ApplyServiceChangeFails(a)
                                    \/ \E last \in DeployId : LookUpImage(a, last)
             \/ \E m \in outbox : Publish(m) \/ PublishFails(m)
      PROVE BuildInv'
    BY <1>4, <1>8 DEF ClosePullRequest, ChangeSettings, NothingToApply, LookUpImage,
                      ApplyServiceChangeFails, Publish, PublishFails, Fault
<1> QED BY <1>5, <1>6, <1>7, <1>8 DEF ApiAction, UserRequest, ApplyChange

LEMMA BuildBuilder == PipelineInv /\ BuildInv /\ BuilderAction => BuildInv'
<1> SUFFICES ASSUME PipelineInv, BuildInv, BuilderAction PROVE BuildInv'
    OBVIOUS
<1> USE Shapes DEF rowVars, busVars, builderVars, Goto
<1> TypeOK BY DEF PipelineInv
<1>1. faults \in Nat BY DEF TypeOK
<1>2. ASSUME NEW b \in Builders, BuilderStep(b) \/ BuilderCrash(b) PROVE BuildInv'
    <2>1. ASSUME UNCHANGED rowVars, faults' = faults \/ faults' = faults + 1,
                 \A v \in Worker : bpc'[v] = bpc[v] \/ bpc'[v] \in {"idle", "claim"}
          PROVE BuildInv'
        BY <1>1, <2>1, BuildFrame DEF RunningPC, FinishedPC
    <2>2. CASE StartBuilder(b) \/ ListenDeploys(b)
        BY <2>1, <2>2 DEF StartBuilder, ListenDeploys, Listen
    <2>3. CASE Sweep(b) \/ SweepFails(b) BY <2>1, <2>3 DEF Sweep, SweepFails, Fault
    <2>4. ASSUME NEW d \in DeployId, HandleDeploy(b, d) PROVE BuildInv'
        BY <2>1, <2>4 DEF HandleDeploy, TypeOK
    <2>5. CASE BuilderCrash(b) BY <2>1, <2>5 DEF BuilderCrash, Disconnect, Fault
    <2> QED BY <1>2, <2>2, <2>3, <2>4, <2>5 DEF BuilderStep
<1>3. ASSUME NEW w \in Worker, Claim(w) \/ WorkerStep(w) \/ BuilderStatementFails(w)
      PROVE BuildInv'
    <2>1. bpc[w] \in BuildingPC => status[w[3]] = "building"
        BY DEF PipelineInv, OwnershipInv, OwnerKnowsStatus
    <2>2. CASE Claim(w)
        BY <1>1, <2>2, BuildFrame DEF Claim, ClaimQueuedDeploy, TypeOK, RunningPC, FinishedPC
    <2>3. ASSUME NEW pc, Goto(w, pc), UNCHANGED <<rowVars, faults>>, bpc[w] \in BuildingPC,
                 pc \in RunningPC => build[w[3]] = "running",
                 pc \in FinishedPC => Finished(w[3])
          PROVE BuildInv'
        <3>1. build[w[3]] = build'[w[3]] /\ (Finished(w[3])' <=> Finished(w[3]))
            BY <2>3 DEF Finished
        <3>2. bpc'[w] = pc /\ \A v \in Worker : v # w => bpc'[v] = bpc[v]
            BY <2>3 DEF TypeOK
        <3>3. UNCHANGED <<status, build>> /\ faults' \in Nat /\ faults' >= faults
            BY <1>1, <2>3
        <3>4. status[w[3]] = "building" /\ status'[w[3]] = "building" BY <2>1, <2>3
        <3> HIDE DEF Goto, rowVars
        <3> QED BY <2>3, <3>1, <3>2, <3>3, <3>4, BuildOwned
    <2>4. ASSUME NEW s, NEW pc, SetBuildStatus(w[3], s), Goto(w, pc), UNCHANGED faults,
                 bpc[w] \in BuildingPC,
                 pc \in RunningPC => s = "running",
                 pc \in FinishedPC => s = "succeeded"
          PROVE BuildInv'
        <3>1. build'[w[3]] = s /\ bpc'[w] = pc BY <2>4 DEF SetBuildStatus, TypeOK
        <3>2. pc \in FinishedPC => Finished(w[3])' BY <2>4, <3>1 DEF Finished
        <3>3. \A v \in Worker : v # w => bpc'[v] = bpc[v]
            BY <2>4 DEF TypeOK
        <3>4. /\ UNCHANGED status /\ faults' \in Nat /\ faults' >= faults
              /\ \A d \in DeployId : d # w[3] => build'[d] = build[d]
            BY <1>1, <2>4 DEF SetBuildStatus, TypeOK
        <3>5. status[w[3]] = "building" /\ status'[w[3]] = "building" BY <2>1, <2>4, <3>4
        <3> HIDE DEF Goto, rowVars
        <3> QED BY <2>4, <3>1, <3>2, <3>3, <3>4, <3>5, BuildOwned
    <2>5. CASE StartBuild(w)
        BY <2>4, <2>5 DEF StartBuild, BuildingPC, RunningPC, FinishedPC
    <2>6. CASE BuildSucceeds(w) \/ BuildFails(w)
        BY <2>3, <2>6 DEF BuildSucceeds, BuildFails, BuildingPC, RunningPC, FinishedPC, BuildInv
    <2>7. CASE RecordImage(w)
        <3>1. bpc[w] = "set_image" /\ build[w[3]] = "running"
            BY <2>7 DEF RecordImage, BuildInv, RunningPC
        <3>2. UNCHANGED <<status, build, faults>> /\ bpc' = [bpc EXCEPT ![w] = "finish"]
            BY <2>7 DEF RecordImage, SetDeployImage
        <3> QED BY <1>1, <2>1, <3>1, <3>2, BuildOwned DEF TypeOK, BuildingPC, RunningPC, FinishedPC
    <2>8. CASE \/ FinishBuild(w, "finish", "succeeded", "check_deploying")
               \/ FinishBuild(w, "finish_failed", "failed", "check_failed")
        BY <2>4, <2>8 DEF FinishBuild, BuildingPC, RunningPC, FinishedPC
    <2>9. CASE CheckStatus(w, "check_deploying", "deploying", "write_deploying")
        BY <2>3, <2>9 DEF CheckStatus, BuildingPC, RunningPC, FinishedPC, BuildInv
    <2>10. CASE CheckStatus(w, "check_failed", "failed", "write_failed")
        BY <2>3, <2>10 DEF CheckStatus, BuildingPC, RunningPC, FinishedPC
    <2>11. CASE UpdateStatus(w, "write_deploying", "deploying", "notify")
        <3>1. Finished(w[3]) BY <2>11 DEF UpdateStatus, BuildInv, FinishedPC
        <3>2. UNCHANGED <<build, faults>> /\ bpc' = [bpc EXCEPT ![w] = "notify"]
              /\ status' = [status EXCEPT ![w[3]] = "deploying"] /\ bpc[w] \in BuildingPC
            BY <2>11 DEF UpdateStatus, WriteStatus, BuildingPC
        <3>3. Finished(w[3])' /\ build'[w[3]] # "failed" BY <3>1, <3>2 DEF Finished
        <3> QED BY <1>1, <3>2, <3>3, BuildOwned DEF TypeOK, RunningPC, FinishedPC
    <2>12. CASE UpdateStatus(w, "write_failed", "failed", "idle")
        BY <1>1, <2>12, BuildFrame DEF UpdateStatus, WriteStatus, TypeOK, RunningPC, FinishedPC
    <2>13. CASE NotifyDeployment(w)
        BY <1>1, <2>13, BuildFrame DEF NotifyDeployment, TypeOK, RunningPC, FinishedPC
    <2>14. CASE BuilderStatementFails(w)
        <3>1. UNCHANGED rowVars /\ faults' = faults + 1 /\ bpc[w] \in DOMAIN OnError
              /\ bpc' = [bpc EXCEPT ![w] = OnError[bpc[w]]]
            BY <2>14 DEF BuilderStatementFails, Fault
        <3>2. CASE bpc[w] = "finish"
            <4>1. build[w[3]] = "running" /\ bpc[w] \in BuildingPC
                BY <3>2 DEF BuildInv, RunningPC, BuildingPC
            <4>2. bpc'[w] = "check_deploying" BY <3>1, <3>2 DEF OnError, TypeOK
            <4>3. Finished(w[3])' BY <1>1, <3>1, <4>1 DEF Finished
            <4>4. build'[w[3]] # "failed" /\ status'[w[3]] = "building" BY <2>1, <3>1, <4>1
            <4>5. \A v \in Worker : v # w => bpc'[v] = bpc[v] BY <3>1 DEF TypeOK
            <4> QED BY <1>1, <3>1, <4>1, <4>2, <4>3, <4>4, <4>5, BuildOwned
                    DEF RunningPC
        <3>3. CASE bpc[w] # "finish"
            <4>1. OnError[bpc[w]] \notin RunningPC \cup FinishedPC
                BY <3>1, <3>3 DEF OnError, RunningPC, FinishedPC
            <4> QED BY <1>1, <3>1, <4>1, BuildFrame DEF TypeOK
        <3> QED BY <3>2, <3>3
    <2> QED
        BY <1>3, <2>2, <2>5, <2>6, <2>7, <2>8, <2>9, <2>10, <2>11, <2>12, <2>13, <2>14
           DEF WorkerStep
<1> QED BY <1>2, <1>3 DEF BuilderAction

LEMMA BuildController ==
    PipelineInv /\ BuildInv /\ ControllerAction /\ UNCHANGED <<builderVars, apiVars>> => BuildInv'
<1> SUFFICES ASSUME PipelineInv, BuildInv, ControllerAction, UNCHANGED <<builderVars, apiVars>>
             PROVE BuildInv'
    OBVIOUS
<1> USE DEF rowVars, busVars, builderVars, controllerVars
<1> TypeOK BY DEF PipelineInv
<1>1. faults \in Nat BY DEF TypeOK
<1>2. ASSUME UNCHANGED rowVars, faults' = faults \/ faults' = faults + 1 PROVE BuildInv'
    BY <1>1, <1>2, BuildFrame
<1>3. ASSUME NEW d \in DeployId, NEW from \in {"write_live", "write_failed"},
             NEW to \in {"live", "failed"}, UpdateStatusC(d, from, to)
      PROVE BuildInv'
    <2>1. cpc[d] # "idle" BY <1>3 DEF UpdateStatusC
    <2>2. status[d] = "deploying"
        BY <2>1 DEF PipelineInv, OwnershipInv, OwnerKnowsStatus, HandedOver
    <2> QED BY <1>1, <1>3, <2>2, BuildFrame DEF UpdateStatusC, WriteStatus, TypeOK
<1>4. ASSUME NEW d \in DeployId, HandleDeployment(d) \/ ReconcileStep(d) PROVE BuildInv'
    BY <1>2, <1>3, <1>4
       DEF HandleDeployment, ReconcileStep, LoadSpec, ApplyWorkload, ApplyFails,
           RolloutCompletes, RolloutFails, CheckStatusC
<1> QED
    BY <1>2, <1>4 DEF ControllerAction, ControllerStep, StartController, ListenController, Listen,
                      Teardown, TeardownFails, ControllerCrash, ControllerStatementFails,
                      Disconnect, Fault

(* The build row of a deploy never contradicts its deploy row, whichever      *)
(* statements fail and whenever a builder dies between the two updates.       *)
THEOREM BuildsAgree == Spec => []BuildAgrees
<1>1. Init => BuildInv
    BY Shapes DEF Init, StoreInit, BuilderInit, BuildInv, BuildAgrees, RunningPC, FinishedPC
<1>2. ASSUME PipelineInv, BuildInv, [Next]_vars PROVE BuildInv'
    <2>1. CASE UNCHANGED vars
        BY <1>2, <2>1 DEF vars, rowVars, busVars, builderVars, BuildInv, BuildAgrees, Finished
    <2> QED BY <1>2, <2>1, BuildApi, BuildBuilder, BuildController DEF Next
<1>3. PipelineInv /\ BuildInv /\ [Next]_vars => BuildInv' BY <1>2
<1>4. BuildInv => BuildAgrees BY DEF BuildInv
<1> QED BY <1>1, <1>3, <1>4, PipelineCorrect, PTL DEF Spec

------------------------------------------------------------------------------
(* No deploy is dropped.  A goroutine has a place of its own, so that a       *)
(* second notification of a deploy would put a new one in the place of one    *)
(* that works: that there is only one is part of the argument.                *)

Notice(d) == <<DeployChannel, d>>

(* Until the notification of a deploy is handled by a builder, no goroutine   *)
(* of that builder was started by it; until it is published, none is sent.    *)
NotifiedOnce ==
    \A d \in DeployId, b \in Builders :
        /\ Notice(d) \in outbox \/ Notice(d) \in inbox[b] \/ status[d] = "none" =>
              bpc[<<b, "notify", d>>] = "idle"
        /\ Notice(d) \in outbox \/ status[d] = "none" => Notice(d) \notin inbox[b]
        /\ status[d] = "none" => Notice(d) \notin outbox

(* A step that sends no notification to builders and starts no goroutine for  *)
(* one.                                                                       *)
LEMMA NotifiedFrame ==
    ASSUME NotifiedOnce,
           \A d \in DeployId : /\ status'[d] = "none" => status[d] = "none"
                               /\ Notice(d) \in outbox' => Notice(d) \in outbox,
           \A d \in DeployId, b \in Builders :
              /\ Notice(d) \in inbox'[b] => Notice(d) \in inbox[b]
              /\ bpc[<<b, "notify", d>>] = "idle" => bpc'[<<b, "notify", d>>] = "idle"
    PROVE  NotifiedOnce'
BY DEF NotifiedOnce, Notice

LEMMA NotifiedApi == PipelineInv /\ NotifiedOnce /\ ApiAction => NotifiedOnce'
<1> SUFFICES ASSUME PipelineInv, NotifiedOnce, ApiAction PROVE NotifiedOnce'
    OBVIOUS
<1> USE DEF others, rowVars, busVars, builderVars, controllerVars
<1> TypeOK BY DEF PipelineInv
<1>1. ASSUME NEW d \in DeployId, NEW t, createBuildableDeploy(d, t),
             outbox' = outbox \cup {<<DeployChannel, d>>}, UNCHANGED <<inbox, bpc>>
      PROVE NotifiedOnce'
    <2>1. \A e \in DeployId : /\ status'[e] = "none" => status[e] = "none" /\ e # d
                              /\ Notice(e) \in outbox' => e = d \/ Notice(e) \in outbox
        BY <1>1 DEF createBuildableDeploy, Notice, TypeOK
    <2>2. status[d] = "none" BY <1>1 DEF createBuildableDeploy, IsNextId
    <2> QED BY <1>1, <2>1, <2>2 DEF NotifiedOnce, Notice
<1>2. ASSUME NEW d \in DeployId, NEW s, NEW i, createImagedDeploy(d, s, i),
             outbox' = outbox \cup {<<DeploymentChannel, d>>}, UNCHANGED <<inbox, bpc>>
      PROVE NotifiedOnce'
    BY <1>2, NotifiedFrame DEF createImagedDeploy, TypeOK, Notice
<1>3. ASSUME UNCHANGED <<status, inbox, bpc>>,
             \A e \in DeployId : Notice(e) \in outbox' => Notice(e) \in outbox
      PROVE NotifiedOnce'
    BY <1>3, NotifiedFrame
<1>4. ASSUME NEW d \in DeployId, NEW s \in Services,
             \/ EnqueueDeploy(d, s)
             \/ \E pr \in PRs : EnqueuePreview(d, s, pr)
             \/ \E i \in Prebuilt : ImageDeploy(d, s, i)
      PROVE NotifiedOnce'
    BY <1>1, <1>2, <1>4 DEF EnqueueDeploy, EnqueuePreview, ImageDeploy
<1>5. ASSUME NEW d \in DeployId, NEW from \in DeployId, Rollback(d, from) PROVE NotifiedOnce'
    BY <1>2, <1>5 DEF Rollback
<1>6. ASSUME NEW d \in DeployId, NEW a \in applying, ApplyServiceChange(d, a) PROVE NotifiedOnce'
    BY <1>2, <1>6 DEF ApplyServiceChange
<1>7. ASSUME \/ \E t \in prOpen : ClosePullRequest(t)
             \/ \E s \in Services : ChangeSettings(s)
             \/ \E a \in applying : \/ NothingToApply(a) \/ ApplyServiceChangeFails(a)
                                    \/ \E last \in DeployId : LookUpImage(a, last)
             \/ \E m \in outbox : PublishFails(m)
      PROVE NotifiedOnce'
    BY <1>3, <1>7 DEF ClosePullRequest, ChangeSettings, NothingToApply, LookUpImage,
                      ApplyServiceChangeFails, PublishFails, Notice
<1>8. ASSUME NEW m \in outbox, Publish(m) PROVE NotifiedOnce'
    <2>1. \A e \in DeployId, b \in Builders :
             Notice(e) \in inbox'[b] => Notice(e) \in inbox[b] \/ m = Notice(e)
        BY <1>8 DEF Publish, Notify, Notice, TypeOK, Message
    <2>2. UNCHANGED <<status, bpc>> /\ outbox' = outbox \ {m}
        BY <1>8 DEF Publish
    <2> QED BY <2>1, <2>2 DEF NotifiedOnce, Notice
<1> QED BY <1>4, <1>5, <1>6, <1>7, <1>8 DEF ApiAction, UserRequest, ApplyChange

LEMMA NotifiedBuilder ==
    PipelineInv /\ NotifiedOnce /\ BuilderAction /\ UNCHANGED apiVars => NotifiedOnce'
<1> SUFFICES ASSUME PipelineInv, NotifiedOnce, BuilderAction, UNCHANGED apiVars
             PROVE  NotifiedOnce'
    OBVIOUS
<1> USE DEF rowVars, busVars, builderVars, apiVars, Goto
<1> TypeOK BY DEF PipelineInv
<1>0. \A b \in Builders, d \in DeployId : <<b, "notify", d>> \in Worker
    BY DEF Worker, Source
<1>1. ASSUME UNCHANGED rowVars,
             \A b \in Builders : inbox'[b] \subseteq inbox[b],
             \A w \in Worker : w[2] = "notify" /\ bpc[w] = "idle" => bpc'[w] = "idle"
      PROVE NotifiedOnce'
    <2>1. \A b \in Builders, d \in DeployId :
             bpc[<<b, "notify", d>>] = "idle" => bpc'[<<b, "notify", d>>] = "idle"
        BY <1>0, <1>1
    <2> QED BY <1>1, <2>1, NotifiedFrame
<1>2. ASSUME NEW b \in Builders, BuilderStep(b) \/ BuilderCrash(b) PROVE NotifiedOnce'
    <2>1. CASE StartBuilder(b) \/ ListenDeploys(b) \/ Sweep(b) \/ SweepFails(b)
        BY <1>1, <2>1 DEF StartBuilder, ListenDeploys, Listen, Sweep, SweepFails
    <2>2. CASE BuilderCrash(b)
        <3>1. inbox' = [inbox EXCEPT ![b] = {}] BY <2>2 DEF BuilderCrash, Disconnect
        <3>2. \A c \in Builders : inbox'[c] \subseteq inbox[c] BY <3>1 DEF TypeOK
        <3> QED BY <1>1, <2>2, <3>2 DEF BuilderCrash
    <2>3. ASSUME NEW d \in DeployId, HandleDeploy(b, d) PROVE NotifiedOnce'
        <3>1. /\ Notice(d) \in inbox[b]
              /\ inbox' = [inbox EXCEPT ![b] = @ \ {Notice(d)}]
              /\ bpc' = [bpc EXCEPT ![<<b, "notify", d>>] = "claim"]
              /\ UNCHANGED <<status, outbox>>
            BY <2>3 DEF HandleDeploy, Receive, Notice
        <3>2. Notice(d) \notin outbox /\ status[d] # "none" /\ Notice(d) \notin inbox'[b]
            BY <3>1 DEF NotifiedOnce, TypeOK
        <3>3. \A c \in Builders, e \in DeployId :
                 <<c, e>> # <<b, d>> =>
                    /\ Notice(e) \in inbox'[c] <=> Notice(e) \in inbox[c]
                    /\ bpc'[<<c, "notify", e>>] = bpc[<<c, "notify", e>>]
            BY <1>0, <3>1 DEF TypeOK, Notice
        <3> SUFFICES ASSUME NEW e \in DeployId, NEW c \in Builders
                     PROVE /\ Notice(e) \in outbox \/ Notice(e) \in inbox'[c] \/ status[e] = "none" =>
                                 bpc'[<<c, "notify", e>>] = "idle"
                           /\ Notice(e) \in outbox \/ status[e] = "none" => Notice(e) \notin inbox'[c]
                           /\ status[e] = "none" => Notice(e) \notin outbox
            BY <3>1 DEF NotifiedOnce, Notice
        <3>4. CASE <<c, e>> = <<b, d>> BY <3>2, <3>4
        <3>5. CASE <<c, e>> # <<b, d>> BY <3>3, <3>5 DEF NotifiedOnce
        <3> QED BY <3>4, <3>5
    <2> QED BY <1>2, <2>1, <2>2, <2>3 DEF BuilderStep
<1>3. ASSUME NEW w \in Worker, Claim(w) \/ WorkerStep(w) \/ BuilderStatementFails(w)
      PROVE NotifiedOnce'
    <2>1. \A v \in Worker : bpc[v] = "idle" => bpc'[v] = "idle"
        BY <1>3 DEF Claim, WorkerStep, BuilderStatementFails, StartBuild, BuildSucceeds, BuildFails,
                    RecordImage, FinishBuild, CheckStatus, UpdateStatus, NotifyDeployment, OnError,
                    TypeOK
    <2>2. /\ outbox' = outbox
          /\ \A d \in DeployId, b \in Builders : Notice(d) \in inbox'[b] => Notice(d) \in inbox[b]
        <3>1. inbox' = inbox \/ Notify(DeploymentChannel, w[3])
            BY <1>3 DEF Claim, WorkerStep, BuilderStatementFails, StartBuild, BuildSucceeds,
                        BuildFails, RecordImage, FinishBuild, CheckStatus, UpdateStatus,
                        NotifyDeployment
        <3> QED BY <3>1 DEF Notify, Notice
    <2>3. \A d \in DeployId : status'[d] = "none" => status[d] = "none"
        BY <1>3, Shapes
           DEF Claim, ClaimQueuedDeploy, WorkerStep, BuilderStatementFails, StartBuild,
               SetBuildStatus, BuildSucceeds, BuildFails, RecordImage, SetDeployImage, FinishBuild,
               CheckStatus, UpdateStatus, WriteStatus, NotifyDeployment, TypeOK
    <2>4. \A b \in Builders, d \in DeployId :
             bpc[<<b, "notify", d>>] = "idle" => bpc'[<<b, "notify", d>>] = "idle"
        BY <1>0, <2>1
    <2> QED BY <2>2, <2>3, <2>4, NotifiedFrame
<1> QED BY <1>2, <1>3 DEF BuilderAction

LEMMA NotifiedController ==
    PipelineInv /\ NotifiedOnce /\ ControllerAction /\ UNCHANGED <<builderVars, apiVars>>
        => NotifiedOnce'
<1> SUFFICES ASSUME PipelineInv, NotifiedOnce, ControllerAction, UNCHANGED <<builderVars, apiVars>>
             PROVE  NotifiedOnce'
    OBVIOUS
<1> USE DEF rowVars, busVars, builderVars, controllerVars, apiVars
<1> TypeOK BY DEF PipelineInv
<1>1. ASSUME \A b \in Builders : inbox'[b] = inbox[b],
             \A d \in DeployId : status'[d] = "none" => status[d] = "none"
      PROVE NotifiedOnce'
    BY <1>1, NotifiedFrame
<1>2. ASSUME NEW d \in DeployId, HandleDeployment(d) \/ ReconcileStep(d) PROVE NotifiedOnce'
    BY <1>1, <1>2
       DEF HandleDeployment, Receive, ReconcileStep, LoadSpec, ApplyWorkload, ApplyFails,
           RolloutCompletes, RolloutFails, CheckStatusC, UpdateStatusC, WriteStatus, TypeOK
<1>3. ASSUME NEW t \in Target, Teardown(t) \/ TeardownFails(t) PROVE NotifiedOnce'
    BY <1>1, <1>3 DEF Teardown, TeardownFails, Receive, TypeOK
<1> QED
    BY <1>1, <1>2, <1>3
       DEF ControllerAction, ControllerStep, StartController, ListenController, Listen,
           ControllerCrash, ControllerStatementFails, Disconnect, TypeOK

(* A step that moves neither the row of d nor what attends to it.             *)
LEMMA AttendedKept ==
    ASSUME NEW d \in DeployId, Attended(d), status'[d] = status[d],
           Notice(d) \in outbox => Notice(d) \in outbox',
           \A b \in Builders :
              /\ Notice(d) \in inbox[b] => Notice(d) \in inbox'[b]
              /\ DeployChannel \in listening[b] => DeployChannel \in listening'[b],
           \A w \in Worker : w[3] = d /\ (bpc[w] = "claim" \/ Owns(w)) => bpc'[w] = bpc[w],
           HandedOver(d) => HandedOver(d)'
    PROVE  Attended(d)'
BY DEF Attended, Owns, Notice

(* What is attended to has a row.                                             *)
LEMMA AttendedExists ==
    ASSUME PipelineInv, NEW d \in DeployId, Attended(d)
    PROVE  status[d] # "none"
BY DEF PipelineInv, OwnershipInv, OwnerKnowsStatus, Attended, Owns

(* The failures are all counted, so that a step that counts none is none.     *)
LEMMA FaultCounts == TypeOK /\ Fault => faults' # faults
BY DEF TypeOK, Fault

LEMMA ApiDropsNone ==
    ASSUME PipelineInv, ApiAction, NEW d \in DeployId, Attended(d), Reconciling, faults' = faults
    PROVE  Attended(d)'
<1> USE DEF others, rowVars, busVars, builderVars, controllerVars
<1> TypeOK BY DEF PipelineInv
<1>1. ~Fault BY FaultCounts
<1>2. ASSUME status'[d] = status[d], \A m : m[2] = d /\ m \in outbox => m \in outbox',
             UNCHANGED <<inbox, listening, bpc, cpc>>
      PROVE Attended(d)'
    BY <1>2, AttendedKept DEF HandedOver, Notice
<1>3. ASSUME NEW e \in DeployId, NEW t, createBuildableDeploy(e, t) PROVE status'[d] = status[d]
    BY <1>3, AttendedExists DEF createBuildableDeploy, IsNextId, TypeOK
<1>4. ASSUME NEW e \in DeployId, NEW s, NEW i, createImagedDeploy(e, s, i)
      PROVE status'[d] = status[d]
    BY <1>4, AttendedExists DEF createImagedDeploy, IsNextId, TypeOK
<1>5. ASSUME NEW e \in DeployId, NEW s \in Services,
             \/ EnqueueDeploy(e, s)
             \/ \E pr \in PRs : EnqueuePreview(e, s, pr)
             \/ \E i \in Prebuilt : ImageDeploy(e, s, i)
      PROVE Attended(d)'
    BY <1>2, <1>3, <1>4, <1>5 DEF EnqueueDeploy, EnqueuePreview, ImageDeploy
<1>6. ASSUME NEW e \in DeployId, NEW from \in DeployId, Rollback(e, from) PROVE Attended(d)'
    BY <1>2, <1>4, <1>6 DEF Rollback
<1>7. ASSUME NEW e \in DeployId, NEW a \in applying, ApplyServiceChange(e, a) PROVE Attended(d)'
    BY <1>2, <1>4, <1>7 DEF ApplyServiceChange
<1>8. ASSUME \/ \E t \in prOpen : ClosePullRequest(t)
             \/ \E s \in Services : ChangeSettings(s)
             \/ \E a \in applying : NothingToApply(a) \/ \E last \in DeployId : LookUpImage(a, last)
      PROVE Attended(d)'
    BY <1>2, <1>8 DEF ClosePullRequest, ChangeSettings, NothingToApply, LookUpImage
<1>9. ASSUME NEW m \in outbox, Publish(m) PROVE Attended(d)'
    <2>1. /\ UNCHANGED <<status, bpc, cpc, listening>> /\ outbox' = outbox \ {m}
          /\ \A p \in Process : inbox'[p] = IF m[1] \in listening[p]
                                            THEN inbox[p] \cup {<<m[1], m[2]>>} ELSE inbox[p]
        BY <1>9 DEF Publish, Notify
    <2>2. \A p \in Process : inbox[p] \subseteq inbox'[p]
        BY <2>1
    <2>3. HandedOver(d) => HandedOver(d)'
        <3>1. CASE m = <<DeploymentChannel, d>>
            BY <2>1, <3>1 DEF HandedOver, Reconciling
        <3>2. CASE m # <<DeploymentChannel, d>>
            BY <2>1, <2>2, <3>2 DEF HandedOver
        <3> QED BY <3>1, <3>2
    <2>4. CASE m = Notice(d)
        <3>1. \A b \in Builders : DeployChannel \in listening[b] => Notice(d) \in inbox'[b]
            BY <2>1, <2>4 DEF Notice
        <3>2. \A b \in Builders : Notice(d) \in inbox[b] => Notice(d) \in inbox'[b]
            BY <2>2
        <3> QED BY <2>1, <2>3, <3>1, <3>2 DEF Attended, Owns, Notice
    <2>5. CASE m # Notice(d)
        BY <2>1, <2>2, <2>3, <2>5, AttendedKept
    <2> QED BY <2>4, <2>5
<1> QED
    BY <1>1, <1>5, <1>6, <1>7, <1>8, <1>9
       DEF ApiAction, UserRequest, ApplyChange, ApplyServiceChangeFails, PublishFails

LEMMA BuilderDropsNone ==
    ASSUME PipelineInv, NotifiedOnce, BuilderAction, UNCHANGED <<controllerVars, apiVars>>,
           NEW d \in DeployId, Attended(d), Reconciling, faults' = faults
    PROVE  Attended(d)' \/ status'[d] = "failed"
<1> USE DEF rowVars, busVars, builderVars, controllerVars, apiVars, Goto
<1> TypeOK BY DEF PipelineInv
<1>1. ~Fault BY FaultCounts
<1>2. ASSUME status'[d] = status[d], \A p \in Process : inbox[p] \subseteq inbox'[p],
             \A b \in Builders : listening[b] \subseteq listening'[b],
             \A w \in Worker : w[3] = d /\ (bpc[w] = "claim" \/ Owns(w)) => bpc'[w] = bpc[w]
      PROVE Attended(d)'
    BY <1>2, AttendedKept DEF HandedOver
<1>3. ASSUME NEW b \in Builders, BuilderStep(b) PROVE Attended(d)'
    <2>1. CASE StartBuilder(b) BY <1>2, <2>1 DEF StartBuilder
    <2>2. CASE ListenDeploys(b) BY <1>2, <2>2 DEF ListenDeploys, Listen, TypeOK
    <2>3. CASE Sweep(b)
        <3>1. \A w \in Worker : Owns(w) => status[w[3]] # "queued"
            BY DEF PipelineInv, OwnershipInv, OwnerKnowsStatus, Owns
        <3>2. \A w \in Worker : bpc[w] = "claim" \/ Owns(w) => bpc'[w] = bpc[w]
            BY <2>3, <3>1 DEF Sweep, QueuedDeployIDs
        <3> QED BY <1>2, <2>3, <3>2 DEF Sweep
    <2>4. ASSUME NEW e \in DeployId, HandleDeploy(b, e) PROVE Attended(d)'
        <3> DEFINE w == <<b, "notify", e>>
        <3>1. w \in Worker /\ w[3] = e BY DEF Worker, Source
        <3>2. /\ Notice(e) \in inbox[b] /\ inbox' = [inbox EXCEPT ![b] = @ \ {Notice(e)}]
              /\ bpc' = [bpc EXCEPT ![w] = "claim"]
              /\ UNCHANGED <<status, outbox, cpc, listening>>
            BY <2>4 DEF HandleDeploy, Receive, Notice
        <3>3. bpc[w] = "idle" BY <3>2 DEF NotifiedOnce
        <3>4. bpc'[w] = "claim" /\ \A v \in Worker : v # w => bpc'[v] = bpc[v]
            BY <3>1, <3>2 DEF TypeOK
        <3> HIDE DEF w
        <3>5. \A v \in Worker : bpc[v] = "claim" \/ Owns(v) => bpc'[v] = bpc[v]
            BY <3>3, <3>4 DEF Owns, BuildingPC
        <3>6. HandedOver(d) => HandedOver(d)'
            BY <3>2 DEF HandedOver, TypeOK
        <3>7. CASE d = e /\ status[d] = "queued"
            BY <3>1, <3>2, <3>4, <3>7 DEF Attended
        <3>8. CASE d = e /\ status[d] # "queued"
            BY <3>2, <3>5, <3>6, <3>8 DEF Attended, Owns
        <3>9. CASE d # e
            <4>1. \A c \in Builders : Notice(d) \in inbox[c] => Notice(d) \in inbox'[c]
                BY <3>2, <3>9 DEF TypeOK, Notice
            <4> QED BY <3>2, <3>5, <3>6, <4>1, AttendedKept
        <3> QED BY <3>7, <3>8, <3>9
    <2> QED BY <1>1, <1>3, <2>1, <2>2, <2>3, <2>4 DEF BuilderStep, SweepFails
<1>4. ASSUME NEW w \in Worker, Claim(w) \/ WorkerStep(w) PROVE Attended(d)' \/ status'[d] = "failed"
    <2>1. \A v \in Worker : v # w => bpc'[v] = bpc[v]
        BY <1>4 DEF Claim, WorkerStep, StartBuild, BuildSucceeds, BuildFails, RecordImage,
                    FinishBuild, CheckStatus, UpdateStatus, NotifyDeployment, TypeOK
    <2>2. /\ UNCHANGED listening
          /\ \A p \in Process : inbox[p] \subseteq inbox'[p]
        <3>1. inbox' = inbox \/ Notify(DeploymentChannel, w[3])
            BY <1>4 DEF Claim, WorkerStep, StartBuild, BuildSucceeds, BuildFails, RecordImage,
                        FinishBuild, CheckStatus, UpdateStatus, NotifyDeployment
        <3>2. UNCHANGED listening
            BY <1>4 DEF Claim, WorkerStep, StartBuild, BuildSucceeds, BuildFails, RecordImage,
                        FinishBuild, CheckStatus, UpdateStatus, NotifyDeployment
        <3> QED BY <3>1, <3>2 DEF Notify
    <2>3. \A e \in DeployId : e # w[3] => status'[e] = status[e]
        BY <1>4, Shapes
           DEF Claim, ClaimQueuedDeploy, WorkerStep, StartBuild, SetBuildStatus, BuildSucceeds,
               BuildFails, RecordImage, SetDeployImage, FinishBuild, CheckStatus, UpdateStatus,
               WriteStatus, NotifyDeployment, TypeOK
    <2>4. CASE d # w[3]
        BY <1>2, <2>1, <2>2, <2>3, <2>4
    <2>5. ASSUME d = w[3], Claim(w) PROVE Attended(d)'
        <3>1. bpc[w] = "claim" BY <2>5 DEF Claim
        <3>2. CASE ClaimQueuedDeploy(d) /\ Goto(w, "start")
            <4>1. bpc'[w] = "start" BY <3>2 DEF TypeOK
            <4> QED BY <2>5, <4>1 DEF Attended, Owns, BuildingPC
        <3>3. CASE status[d] # "queued" /\ UNCHANGED rowVars
            <4>1. ~Owns(w) BY <3>1 DEF Owns, BuildingPC
            <4>2. HandedOver(d) => HandedOver(d)' BY <2>2 DEF HandedOver
            <4> QED BY <2>1, <3>3, <4>1, <4>2 DEF Attended, Owns
        <3> QED BY <2>5, <3>2, <3>3 DEF Claim
    <2>6. ASSUME d = w[3], WorkerStep(w) PROVE Attended(d)' \/ status'[d] = "failed"
        <3>1. ASSUME NEW pc \in BuildingPC \cup {"notify"}, Goto(w, pc) PROVE Attended(d)'
            <4>1. bpc'[w] = pc BY <3>1 DEF TypeOK
            <4> QED BY <2>6, <4>1 DEF Attended, Owns
        <3>2. bpc[w] \in BuildingPC => status[d] = "building"
            BY <2>6 DEF PipelineInv, OwnershipInv, OwnerKnowsStatus
        <3>3. CASE StartBuild(w) \/ BuildSucceeds(w) \/ BuildFails(w) \/ RecordImage(w)
            BY <3>1, <3>3 DEF StartBuild, BuildSucceeds, BuildFails, RecordImage, BuildingPC
        <3>4. CASE \/ FinishBuild(w, "finish", "succeeded", "check_deploying")
                   \/ FinishBuild(w, "finish_failed", "failed", "check_failed")
            BY <3>1, <3>4 DEF FinishBuild, BuildingPC
        <3>5. CASE CheckStatus(w, "check_deploying", "deploying", "write_deploying")
            <4>1. bpc[w] = "check_deploying" BY <3>5 DEF CheckStatus
            <4>2. status[d] = "building" BY <3>2, <4>1 DEF BuildingPC
            <4>3. StatusAllows(d, "deploying") BY <4>2 DEF StatusAllows, CanTransition, transitions
            <4>4. Goto(w, "write_deploying") BY <2>6, <3>5, <4>3 DEF CheckStatus
            <4> QED BY <3>1, <4>4 DEF BuildingPC
        <3>6. CASE CheckStatus(w, "check_failed", "failed", "write_failed")
            <4>1. bpc[w] = "check_failed" BY <3>6 DEF CheckStatus
            <4>2. status[d] = "building" BY <3>2, <4>1 DEF BuildingPC
            <4>3. StatusAllows(d, "failed") BY <4>2 DEF StatusAllows, CanTransition, transitions
            <4>4. Goto(w, "write_failed") BY <2>6, <3>6, <4>3 DEF CheckStatus
            <4> QED BY <3>1, <4>4 DEF BuildingPC
        <3>7. CASE UpdateStatus(w, "write_deploying", "deploying", "notify")
            BY <3>1, <3>7 DEF UpdateStatus
        <3>8. CASE NotifyDeployment(w)
            <4>1. <<DeploymentChannel, d>> \in inbox'[Controller]
                BY <2>6, <3>8 DEF NotifyDeployment, Notify, Reconciling
            <4> QED BY <4>1 DEF Attended, HandedOver
        <3>9. CASE UpdateStatus(w, "write_failed", "failed", "idle")
            BY <2>6, <3>9 DEF UpdateStatus, WriteStatus, TypeOK
        <3> QED BY <2>6, <3>3, <3>4, <3>5, <3>6, <3>7, <3>8, <3>9 DEF WorkerStep
    <2> QED BY <1>4, <2>4, <2>5, <2>6
<1> QED BY <1>1, <1>3, <1>4 DEF BuilderAction, BuilderCrash, Disconnect, BuilderStatementFails

LEMMA ControllerDropsNone ==
    ASSUME PipelineInv, ControllerAction, UNCHANGED <<builderVars, apiVars>>,
           NEW d \in DeployId, Attended(d), faults' = faults
    PROVE  Attended(d)' \/ status'[d] \in {"live", "failed"}
<1> USE DEF rowVars, busVars, builderVars, controllerVars, apiVars, GotoC
<1> TypeOK BY DEF PipelineInv
<1>1. ~Fault BY FaultCounts
<1>2. ASSUME status'[d] = status[d], \A p \in Process : listening[p] \subseteq listening'[p],
             \A b \in Builders : inbox'[b] = inbox[b],
             HandedOver(d) => HandedOver(d)'
      PROVE Attended(d)'
    BY <1>2, AttendedKept
<1>3. CASE StartController BY <1>2, <1>3 DEF StartController, HandedOver
<1>4. ASSUME NEW channel, ListenController(channel) PROVE Attended(d)'
    BY <1>2, <1>4 DEF ListenController, Listen, HandedOver, TypeOK
<1>5. ASSUME NEW t \in Target, Teardown(t) PROVE Attended(d)'
    <2>1. /\ inbox' = [inbox EXCEPT ![Controller] = @ \ {<<TeardownChannel, t>>}]
          /\ UNCHANGED <<status, listening, cpc, outbox>>
        BY <1>5 DEF Teardown, Receive
    <2>2. \A b \in Builders : inbox'[b] = inbox[b] BY <2>1 DEF TypeOK
    <2>3. <<DeploymentChannel, d>> \in inbox[Controller] =>
             <<DeploymentChannel, d>> \in inbox'[Controller]
        BY <2>1 DEF TypeOK
    <2> QED BY <1>2, <2>1, <2>2, <2>3 DEF HandedOver
<1>6. ASSUME NEW e \in DeployId, HandleDeployment(e) PROVE Attended(d)'
    <2>1. /\ inbox' = [inbox EXCEPT ![Controller] = @ \ {<<DeploymentChannel, e>>}]
          /\ cpc' = [cpc EXCEPT ![e] = "load"]
          /\ UNCHANGED <<status, listening, outbox>>
        BY <1>6 DEF HandleDeployment, Receive
    <2>2. \A b \in Builders : inbox'[b] = inbox[b] BY <2>1 DEF TypeOK
    <2>3. HandedOver(d) => HandedOver(d)'
        <3>1. CASE d = e BY <2>1, <3>1 DEF HandedOver, TypeOK
        <3>2. CASE d # e BY <2>1, <3>2 DEF HandedOver, TypeOK
        <3> QED BY <3>1, <3>2
    <2> QED BY <1>2, <2>1, <2>2, <2>3
<1>7. ASSUME NEW e \in DeployId, ReconcileStep(e)
      PROVE  Attended(d)' \/ status'[d] \in {"live", "failed"}
    <2>1. cpc[e] # "idle" /\ status[e] = "deploying"
        <3>1. cpc[e] # "idle"
            BY <1>7 DEF ReconcileStep, LoadSpec, ApplyWorkload, ApplyFails, RolloutCompletes,
                        RolloutFails, CheckStatusC, UpdateStatusC
        <3> QED BY <3>1 DEF PipelineInv, OwnershipInv, OwnerKnowsStatus, HandedOver
    <2>2. UNCHANGED <<inbox, listening, outbox, bpc>>
        BY <1>7 DEF ReconcileStep, LoadSpec, ApplyWorkload, ApplyFails, RolloutCompletes,
                    RolloutFails, CheckStatusC, UpdateStatusC
    <2>3. \/ status' = status /\ \E pc \in ReconcilePC \ {"idle"} : cpc' = [cpc EXCEPT ![e] = pc]
          \/ /\ \E to \in {"live", "failed"} : status' = [status EXCEPT ![e] = to]
             /\ cpc' = [cpc EXCEPT ![e] = "idle"]
        BY <1>7, <2>1
           DEF ReconcileStep, LoadSpec, ApplyWorkload, ApplyFails, RolloutCompletes, RolloutFails,
               CheckStatusC, UpdateStatusC, WriteStatus, StatusAllows, CanTransition, transitions,
               ReconcilePC
    <2>4. CASE d # e
        <3>1. status'[d] = status[d] /\ cpc'[d] = cpc[d] BY <2>3, <2>4 DEF TypeOK
        <3> QED BY <1>2, <2>2, <3>1 DEF HandedOver
    <2>5. CASE d = e
        <3>1. cpc'[d] # "idle" \/ status'[d] \in {"live", "failed"} BY <2>3, <2>5 DEF TypeOK
        <3> QED BY <3>1 DEF Attended, HandedOver
    <2> QED BY <2>4, <2>5
<1> QED
    BY <1>1, <1>3, <1>4, <1>5, <1>6, <1>7
       DEF ControllerAction, ControllerStep, ControllerCrash, Disconnect, ControllerStatementFails,
           TeardownFails

(* No deploy that somebody attends to is dropped before its outcome is        *)
(* recorded, however the builders' sweeps, notifications and claims and the   *)
(* controller interleave, unless a statement fails or a process dies.         *)
THEOREM NoDeployIsDropped == Spec => NeverDropped
<1>1. Init => NotifiedOnce
    BY DEF Init, StoreInit, BusInit, BuilderInit, NotifiedOnce, Worker, Source
<1>2. ASSUME PipelineInv, NotifiedOnce, [Next]_vars PROVE NotifiedOnce'
    <2>1. CASE UNCHANGED vars
        BY <1>2, <2>1, NotifiedFrame DEF vars, rowVars, busVars, builderVars, apiVars
    <2> QED BY <1>2, <2>1, NotifiedApi, NotifiedBuilder, NotifiedController DEF Next
<1> DEFINE Kept == \A d \in DeployId : Attended(d) /\ Reconciling /\ faults' = faults =>
                       Attended(d)' \/ IsTerminal(status'[d])
<1>3. ASSUME PipelineInv, NotifiedOnce, [Next]_vars PROVE [Kept]_vars
    <2> SUFFICES ASSUME Next, NEW d \in DeployId, Attended(d), Reconciling, faults' = faults
                 PROVE  Attended(d)' \/ IsTerminal(status'[d])
        BY <1>3
    <2>1. Attended(d)' \/ status'[d] \in {"live", "failed"}
        BY <1>3, ApiDropsNone, BuilderDropsNone, ControllerDropsNone DEF Next
    <2> QED BY <2>1 DEF IsTerminal, transitions
<1>4. PipelineInv /\ NotifiedOnce /\ [Next]_vars => NotifiedOnce' /\ [Kept]_vars BY <1>2, <1>3
<1> QED BY <1>1, <1>4, PipelineCorrect, PTL DEF Spec, NeverDropped

==============================================================================
