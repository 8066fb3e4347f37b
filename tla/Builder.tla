------------------------------- MODULE Builder -------------------------------
(* The builder processes (internal/builder/processor.go, cmd/builder).  Run   *)
(* sweeps the queued rows, then LISTENs; both start a goroutine per deploy,   *)
(* so a goroutine is named by its process, what started it, and the deploy.   *)
(* A goroutine's program counter is the statement it executes next.           *)
EXTENDS DeployStore, EventBus

Source == {"sweep", "notify"}

Worker == Builders \X Source \X DeployId

(* The counters of a goroutine that has won the claim and still owns the row. *)
BuildingPC == {"start", "build", "set_image", "finish", "check_deploying",
               "write_deploying", "finish_failed", "check_failed", "write_failed"}

BuilderPC == {"idle", "claim", "notify"} \cup BuildingPC

VARIABLES
    bphase,       \* [Builders -> "down", "up" or "swept"]
    bpc,          \* [Worker -> BuilderPC]
    registry      \* the tags the build backend has pushed

builderVars == <<bphase, bpc, registry>>

BuilderInit == /\ bphase = [b \in Builders |-> "down"]
               /\ bpc = [w \in Worker |-> "idle"]
               /\ registry = {}

Goto(w, pc) == bpc' = [bpc EXCEPT ![w] = pc]

(* systemd (re)starts the unit: main connects to the store and calls Run.     *)
StartBuilder(b) ==
    /\ bphase[b] = "down"
    /\ bphase' = [bphase EXCEPT ![b] = "up"]
    /\ UNCHANGED <<bpc, registry, rowVars, busVars>>

(* Run, first half: one goroutine per row that is queued at this moment.      *)
Sweep(b) ==
    /\ bphase[b] = "up"
    /\ bphase' = [bphase EXCEPT ![b] = "swept"]
    /\ bpc' = [w \in Worker |->
                 IF w[1] = b /\ w[2] = "sweep" /\ w[3] \in QueuedDeployIDs
                 THEN "claim" ELSE bpc[w]]
    /\ UNCHANGED <<registry, rowVars, busVars>>

(* ... or none, when the rows cannot be read: the error is only logged.       *)
SweepFails(b) ==
    /\ bphase[b] = "up"
    /\ Fault
    /\ bphase' = [bphase EXCEPT ![b] = "swept"]
    /\ UNCHANGED <<bpc, registry, rowVars, listening, inbox>>

(* Run, second half: LISTEN is issued only after the sweep.                   *)
ListenDeploys(b) ==
    /\ bphase[b] = "swept"
    /\ Listen(b, DeployChannel)
    /\ UNCHANGED <<builderVars, rowVars>>

HandleDeploy(b, d) ==
    /\ Receive(b, DeployChannel, d)
    /\ Goto(<<b, "notify", d>>, "claim")
    /\ UNCHANGED <<bphase, registry, rowVars, listening, faults>>

(* process: the loads read columns nobody changes, so they and the claim are  *)
(* one step; a goroutine that loses the claim returns.                        *)
Claim(w) ==
    /\ bpc[w] = "claim"
    /\ \/ ClaimQueuedDeploy(w[3]) /\ Goto(w, "start")
       \/ status[w[3]] # "queued" /\ Goto(w, "idle") /\ UNCHANGED rowVars
    /\ UNCHANGED <<bphase, registry, busVars>>

(* Mutant: the build row is given the deploy's status.                        *)
StartBuildWrongConstant(w) ==
    /\ bpc[w] = "start"
    /\ SetBuildStatus(w[3], "building")
    /\ Goto(w, "build")
    /\ UNCHANGED <<bphase, registry, busVars>>

StartBuild(w) ==
    /\ bpc[w] = "start"
    /\ SetBuildStatus(w[3], "running")
    /\ Goto(w, "build")
    /\ UNCHANGED <<bphase, registry, busVars>>

(* backend.Build clones, builds and pushes; only success leaves a pushed tag. *)
BuildSucceeds(w) ==
    /\ bpc[w] = "build"
    /\ registry' = registry \cup {w[3]}
    /\ Goto(w, "set_image")
    /\ UNCHANGED <<bphase, rowVars, busVars>>

(* Mutant: buildErr is not looked at.                                         *)
BuildErrorIgnored(w) ==
    /\ bpc[w] = "build"
    /\ Goto(w, "set_image")
    /\ UNCHANGED <<bphase, registry, rowVars, busVars>>

BuildFails(w) ==
    /\ bpc[w] = "build"
    /\ Goto(w, "finish_failed")
    /\ UNCHANGED <<bphase, registry, rowVars, busVars>>

RecordImage(w) ==
    /\ bpc[w] = "set_image"
    /\ SetDeployImage(w[3], w[3])
    /\ Goto(w, "finish")
    /\ UNCHANGED <<bphase, registry, busVars>>

(* Mutant: the build row is never finished.                                   *)
FinishBuildForgotten(w, from, s, next) ==
    /\ bpc[w] = from
    /\ Goto(w, next)
    /\ UNCHANGED <<bphase, registry, rowVars, busVars>>

FinishBuild(w, from, s, next) ==
    /\ bpc[w] = from
    /\ SetBuildStatus(w[3], s)
    /\ Goto(w, next)
    /\ UNCHANGED <<bphase, registry, busVars>>

(* UpdateDeployStatus as the goroutine runs it: ErrInvalidTransition is       *)
(* logged and ends the goroutine.                                             *)
CheckStatus(w, from, to, next) ==
    /\ bpc[w] = from
    /\ Goto(w, IF StatusAllows(w[3], to) THEN next ELSE "idle")
    /\ UNCHANGED <<bphase, registry, rowVars, busVars>>

UpdateStatus(w, from, to, next) ==
    /\ bpc[w] = from
    /\ WriteStatus(w[3], to)
    /\ Goto(w, next)
    /\ UNCHANGED <<bphase, registry, busVars>>

(* Mutant: the deploy is left deploying and nobody is told.                   *)
NotifyForgotten(w) ==
    /\ bpc[w] = "notify"
    /\ Goto(w, "idle")
    /\ UNCHANGED <<bphase, registry, rowVars, busVars>>

(* The hand-off to the controller.                                            *)
NotifyDeployment(w) ==
    /\ bpc[w] = "notify"
    /\ Notify(DeploymentChannel, w[3])
    /\ Goto(w, "idle")
    /\ UNCHANGED <<bphase, registry, rowVars, listening, faults>>

(* Mutant: a goroutine whose claim errors fails the deploy.                   *)
OnErrorFailUnclaimed ==
    [claim           |-> "finish_failed",
     start           |-> "idle",
     set_image       |-> "finish_failed",
     finish          |-> "check_deploying",
     check_deploying |-> "idle",
     write_deploying |-> "idle",
     notify          |-> "idle",
     finish_failed   |-> "check_failed",
     check_failed    |-> "idle",
     write_failed    |-> "idle"]

(* Where the goroutine goes when the statement it is at returns an error: a   *)
(* return, the fail path, or on, for the errors that are only logged.         *)
OnError == [claim           |-> "idle",
            start           |-> "idle",
            set_image       |-> "finish_failed",
            finish          |-> "check_deploying",
            check_deploying |-> "idle",
            write_deploying |-> "idle",
            notify          |-> "idle",
            finish_failed   |-> "check_failed",
            check_failed    |-> "idle",
            write_failed    |-> "idle"]

BuilderStatementFails(w) ==
    /\ bpc[w] \in DOMAIN OnError
    /\ Fault
    /\ Goto(w, OnError[bpc[w]])
    /\ UNCHANGED <<bphase, registry, rowVars, listening, inbox>>

(* The process is killed, is stopped (its context is cancelled, so no fail    *)
(* path can write either), or loses its LISTEN connection and exits.          *)
BuilderCrash(b) ==
    /\ bphase[b] # "down"
    /\ Disconnect(b)
    /\ bphase' = [bphase EXCEPT ![b] = "down"]
    /\ bpc' = [w \in Worker |-> IF w[1] = b THEN "idle" ELSE bpc[w]]
    /\ UNCHANGED <<registry, rowVars>>

(* The steps of process after the claim.                                      *)
WorkerStep(w) ==
    \/ StartBuild(w)
    \/ BuildSucceeds(w)
    \/ BuildFails(w)
    \/ RecordImage(w)
    \/ FinishBuild(w, "finish", "succeeded", "check_deploying")
    \/ CheckStatus(w, "check_deploying", "deploying", "write_deploying")
    \/ UpdateStatus(w, "write_deploying", "deploying", "notify")
    \/ NotifyDeployment(w)
    \/ FinishBuild(w, "finish_failed", "failed", "check_failed")
    \/ CheckStatus(w, "check_failed", "failed", "write_failed")
    \/ UpdateStatus(w, "write_failed", "failed", "idle")

BuilderStep(b) ==
    \/ StartBuilder(b)
    \/ Sweep(b) \/ SweepFails(b)
    \/ ListenDeploys(b)
    \/ \E d \in DeployId : HandleDeploy(b, d)

==============================================================================
