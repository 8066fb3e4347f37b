----------------------------- MODULE LogDelivery -----------------------------
(* What a log stream promises, apart from how it gets there: each reader sees *)
(* the text of one log from its start, in order and without gaps, and is told *)
(* that the log has ended only when it has seen all of it.                    *)
EXTENDS Sequences, SequencesExt

CONSTANT Readers

VARIABLES
    text,         \* the text written so far
    state,        \* "growing" or "complete"
    seen,         \* [Readers -> the text a reader has seen]
    stream        \* [Readers -> "none", "open", "ended" or "cut"]

vars == <<text, state, seen, stream>>

Init ==
    /\ state \in {"growing", "complete"}
    /\ seen = [r \in Readers |-> <<>>]
    /\ stream = [r \in Readers |-> "none"]

Write ==
    /\ state = "growing"
    /\ IsStrictPrefix(text, text')
    /\ UNCHANGED <<state, seen, stream>>

Complete ==
    /\ state = "growing" /\ state' = "complete"
    /\ UNCHANGED <<text, seen, stream>>

Open(r) ==
    /\ stream[r] = "none"
    /\ stream' = [stream EXCEPT ![r] = "open"]
    /\ UNCHANGED <<text, state, seen>>

(* A reader catches up with the log, and is told its end if it has one.       *)
Deliver(r) ==
    /\ stream[r] = "open"
    /\ seen' = [seen EXCEPT ![r] = text]
    /\ stream' = IF state = "complete" THEN [stream EXCEPT ![r] = "ended"] ELSE stream
    /\ UNCHANGED <<text, state>>

(* The connection ends early: what was seen stays seen.                       *)
Cut(r) ==
    /\ stream[r] = "open"
    /\ stream' = [stream EXCEPT ![r] = "cut"]
    /\ UNCHANGED <<text, state, seen>>

Next ==
    \/ Write
    \/ Complete
    \/ \E r \in Readers : Open(r) \/ Deliver(r) \/ Cut(r)

Spec == Init /\ [][Next]_vars

==============================================================================
