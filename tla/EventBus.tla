------------------------------ MODULE EventBus -------------------------------
(* LISTEN/NOTIFY as the platform uses it (internal/store/events.go).  A       *)
(* notification reaches the sessions that listen on its channel when it is    *)
(* published and nobody else: there is no backlog.  What a session has been   *)
(* sent and its handler has not taken yet is the inbox of its process.  Each  *)
(* handler starts a goroutine, so the order inside an inbox is immaterial.    *)
(*                                                                            *)
(* Every failure the model injects (a statement that errors, a process that   *)
(* dies) is paid for from one budget.                                         *)
EXTENDS Naturals

CONSTANTS
    Builders,     \* builder processes
    Controller,   \* the controller process
    MaxFaults     \* bound: how many failures a behaviour may contain

ASSUME BusAssumption == Controller \notin Builders /\ MaxFaults \in Nat

DeployChannel     == "uran_deploys"
DeploymentChannel == "uran_deployments"
TeardownChannel   == "uran_teardowns"

Process == Builders \cup {Controller}

(* The channels a process LISTENs on.                                         *)
Subscriptions(p) ==
    IF p = Controller THEN {DeploymentChannel, TeardownChannel}
                      ELSE {DeployChannel}

VARIABLES
    listening,    \* [Process -> SUBSET Channel]: LISTEN has been issued
    inbox,        \* [Process -> set of <<channel, payload>>]
    faults        \* failures injected so far

busVars == <<listening, inbox, faults>>

BusInit == /\ listening = [p \in Process |-> {}]
           /\ inbox = [p \in Process |-> {}]
           /\ faults = 0

Notify(channel, payload) ==
    inbox' = [p \in Process |->
                IF channel \in listening[p]
                THEN inbox[p] \cup {<<channel, payload>>}
                ELSE inbox[p]]

Listen(p, channel) ==
    /\ channel \in Subscriptions(p) \ listening[p]
    /\ listening' = [listening EXCEPT ![p] = @ \cup {channel}]
    /\ UNCHANGED <<inbox, faults>>

(* The handler of p takes a notification.                                     *)
Receive(p, channel, payload) ==
    /\ <<channel, payload>> \in inbox[p]
    /\ inbox' = [inbox EXCEPT ![p] = @ \ {<<channel, payload>>}]

Fault == /\ faults < MaxFaults
         /\ faults' = faults + 1

(* The sessions of a process that dies are closed, their queues discarded.    *)
Disconnect(p) ==
    /\ Fault
    /\ listening' = [listening EXCEPT ![p] = {}]
    /\ inbox' = [inbox EXCEPT ![p] = {}]

==============================================================================
