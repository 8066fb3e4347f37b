----------------------------- MODULE DeployStore -----------------------------
(* The deploys and builds tables and the statements run on them               *)
(* (internal/store/deploys.go, builds.go, settings.go).  Each operator is one *)
(* statement or one transaction, hence atomic; UpdateDeployStatus is two      *)
(* statements and so two operators, and whatever its callers interleave with  *)
(* may run between them.                                                      *)
EXTENDS DeployState

CONSTANTS
    Services,     \* service rows
    PRs,          \* pull request numbers
    Production    \* stands where a production deploy has no PR number

ASSUME TargetAssumption == Production \notin PRs

(* The workload a deploy is for: naming.WorkloadName(slug, kind, pr).         *)
Target == Services \X (PRs \cup {Production})

NoTarget == <<>>

VARIABLES
    status,       \* [DeployId -> Status or "none" (no such row)]
    image,        \* [DeployId -> Image or NoImage]
    build,        \* [DeployId -> BuildStatus or "none"]
    target        \* [DeployId -> Target or NoTarget]

rowVars == <<status, image, build, target>>

StoreInit ==
    /\ status = [d \in DeployId |-> "none"]
    /\ image = [d \in DeployId |-> NoImage]
    /\ build = [d \in DeployId |-> "none"]
    /\ target = [d \in DeployId |-> NoTarget]

(* The id the bigserial column gives the next row.                            *)
IsNextId(d) == /\ status[d] = "none"
               /\ \A e \in 1..(d - 1) : status[e] # "none"

createBuildableDeploy(d, t) ==
    /\ IsNextId(d)
    /\ status' = [status EXCEPT ![d] = "queued"]
    /\ build' = [build EXCEPT ![d] = "queued"]
    /\ target' = [target EXCEPT ![d] = t]
    /\ UNCHANGED image

createImagedDeploy(d, s, i) ==
    /\ IsNextId(d)
    /\ status' = [status EXCEPT ![d] = "deploying"]
    /\ image' = [image EXCEPT ![d] = i]
    /\ build' = [build EXCEPT ![d] = "succeeded"]
    /\ target' = [target EXCEPT ![d] = <<s, Production>>]

(* Mutant: the sweep looks for rows a dead builder left building.             *)
BuildingDeployIDs == {d \in DeployId : status[d] = "building"}

QueuedDeployIDs == {d \in DeployId : status[d] = "queued"}

(* Mutant: the claim updates by id alone.                                     *)
ClaimByIdAlone(d) ==
    /\ status' = [status EXCEPT ![d] = "building"]
    /\ UNCHANGED <<image, build, target>>

(* UPDATE ... WHERE id = d AND status = 'queued': the compare-and-set.        *)
ClaimQueuedDeploy(d) ==
    /\ status[d] = "queued"
    /\ status' = [status EXCEPT ![d] = "building"]
    /\ UNCHANGED <<image, build, target>>

(* UpdateDeployStatus: the SELECT and its check ...                           *)
StatusAllows(d, to) == status[d] # "none" /\ CanTransition(status[d], to)

(* ... and the UPDATE, which does not look at the status again.               *)
WriteStatus(d, to) ==
    /\ status' = [status EXCEPT ![d] = to]
    /\ UNCHANGED <<image, build, target>>

SetDeployImage(d, i) ==
    /\ image' = [image EXCEPT ![d] = i]
    /\ UNCHANGED <<status, build, target>>

(* StartBuild and FinishBuild: unconditional updates of the build row.        *)
SetBuildStatus(d, s) ==
    /\ build' = [build EXCEPT ![d] = s]
    /\ UNCHANGED <<status, image, target>>

(* LatestImagedDeploy: the deploys of a service that have an image, whatever  *)
(* their kind or status, and the newest of them.                              *)
ImagedDeploys(s) ==
    {d \in DeployId : target[d] # NoTarget /\ target[d][1] = s /\ image[d] # NoImage}

LatestImagedDeploy(s, last) ==
    last \in ImagedDeploys(s) /\ \A e \in ImagedDeploys(s) : e <= last

==============================================================================
