--------------------------- MODULE DeployLifecycle ---------------------------
(* What the deploy pipeline promises about the deploys table, whoever writes  *)
(* it and however their steps interleave: a row is created either queued and  *)
(* without an image or deploying with one; its status moves only along the    *)
(* status machine; its image is written at most once, while it is building,   *)
(* and with its own tag; it is handed to the cluster only with an image.      *)
EXTENDS DeployState

VARIABLES status, image

vars == <<status, image>>

Init == /\ status = [d \in DeployId |-> "none"]
        /\ image = [d \in DeployId |-> NoImage]

Create(d) ==
    /\ status[d] = "none"
    /\ \/ /\ status' = [status EXCEPT ![d] = "queued"]
          /\ UNCHANGED image
       \/ \E i \in Image :
             /\ status' = [status EXCEPT ![d] = "deploying"]
             /\ image' = [image EXCEPT ![d] = i]

RecordImage(d) ==
    /\ status[d] = "building"
    /\ image[d] = NoImage
    /\ image' = [image EXCEPT ![d] = d]
    /\ UNCHANGED status

Advance(d, to) ==
    /\ status[d] # "none"
    /\ CanTransition(status[d], to)
    /\ to \in {"deploying", "live"} => image[d] # NoImage
    /\ status' = [status EXCEPT ![d] = to]
    /\ UNCHANGED image

Next == \E d \in DeployId :
           \/ Create(d)
           \/ RecordImage(d)
           \/ \E to \in Status : Advance(d, to)

Spec == Init /\ [][Next]_vars

==============================================================================
