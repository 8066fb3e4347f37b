----------------------------- MODULE DeployState -----------------------------
(* The status machine of a deploy and the identities deploys are named with:  *)
(* internal/deploy/state.go.  Constant-level only, so that the abstract       *)
(* lifecycle and the detailed pipeline share one definition of the machine.   *)
EXTENDS Naturals

CONSTANTS
    MaxDeploys,   \* bound: how many deploy rows a behaviour may create
    Prebuilt,     \* image references pushed by a CI outside the platform
    NoImage       \* the empty image column

DeployId == 1..MaxDeploys

(* A built image is tagged svc-<id>:<deployID>, so the deploy id names it.    *)
Image == DeployId \cup Prebuilt

ASSUME ImageAssumption ==
    /\ MaxDeploys \in Nat
    /\ Prebuilt \cap DeployId = {}
    /\ NoImage \notin Image

Status == {"queued", "building", "deploying", "live", "failed"}

BuildStatus == {"queued", "running", "succeeded", "failed"}

transitions == [queued    |-> {"building", "failed"},
                building  |-> {"deploying", "failed"},
                deploying |-> {"live", "failed"},
                live      |-> {},
                failed    |-> {}]

CanTransition(from, to) == to \in transitions[from]

IsTerminal(s) == transitions[s] = {}

==============================================================================
