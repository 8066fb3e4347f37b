------------------------------ MODULE LogStream ------------------------------
(* The log of one build: written chunk by chunk by the builder that claimed   *)
(* the deploy (internal/builder/processor.go, logwriter.go,                   *)
(* internal/build/exec.go), kept in the builds row (internal/store/builds.go) *)
(* and followed by any number of readers, each a handler that polls the row   *)
(* (internal/api/logstream_handlers.go) and a client that prints what it gets *)
(* (cmd/uran/logs.go).                                                        *)
(*                                                                            *)
(* A log is a sequence of newlines and of pieces of text within a line, each  *)
(* known by its place in the log.                                             *)
EXTENDS Naturals, Sequences, FiniteSets, SequencesExt

CONSTANTS
    Readers,      \* the readers of the log
    MaxLog,       \* bound: the length at which a build writes no more
    MaxChunk,     \* bound: the length of what it writes at once
    MaxFaults     \* bound: failed statements and deaths of the builder

ASSUME LogAssumption == MaxLog \in Nat /\ MaxChunk \in Nat \ {0} /\ MaxFaults \in Nat

Newline == 0

Terminal == {"succeeded", "failed"}

VARIABLES
    row,          \* "exists" or "deleted": the builds row
    status,       \* its status column
    logs,         \* its logs column
    bpc,          \* what the builder executes next
    stream,       \* [Readers -> "none", "open", "ended" or "cut"]
    sent,         \* [Readers -> how much of the log the handler has sent]
    printed,      \* [Readers -> what the client has printed]
    faults

rowVars == <<row, status, logs>>
readerVars == <<stream, sent, printed>>
vars == <<rowVars, bpc, readerVars, faults>>

(* The row of a deploy that is to be built, or of one with an image           *)
(* (createImagedDeploy), whose log is one line.                               *)
Init ==
    /\ row = "exists"
    /\ \/ status = "queued" /\ logs = <<>> /\ bpc = "claim"
       \/ status = "succeeded" /\ logs = <<1, Newline>> /\ bpc = "done"
    /\ stream = [r \in Readers |-> "none"]
    /\ sent = [r \in Readers |-> 0]
    /\ printed = [r \in Readers |-> <<>>]
    /\ faults = 0

Fault == faults < MaxFaults /\ faults' = faults + 1

Goto(next) == bpc' = next

------------------------------------------------------------------------------
(* The builder.  A statement on a row that is gone does nothing and succeeds. *)

SetStatus(s) == status' = IF row = "exists" THEN s ELSE status

StartBuild ==
    /\ bpc = "claim"
    /\ SetStatus("running")
    /\ Goto("build")
    /\ UNCHANGED <<row, logs, readerVars, faults>>

(* The pieces of text and newlines of a shape, at the end of the log.         *)
Chunk(shape) == [i \in 1..Len(shape) |-> IF shape[i] = "text" THEN Len(logs) + i ELSE Newline]

Shapes == UNION {[1..n -> {"text", "newline"}] : n \in 1..MaxChunk}

AppendBuildLog(chunk) == logs' = IF row = "exists" THEN logs \o chunk ELSE logs

(* Write: the output of git, nixpacks or docker, as it comes.                 *)
WriteOutput(shape) ==
    /\ bpc = "build" /\ Len(logs) + Len(shape) <= MaxLog
    /\ AppendBuildLog(Chunk(shape))
    /\ UNCHANGED <<row, status, bpc, readerVars, faults>>

(* A command fails; or a chunk of its output is not stored, because the       *)
(* statement fails or the chunk ends inside a character.                      *)
BuildFails ==
    /\ bpc = "build"
    /\ Goto("report")
    /\ UNCHANGED <<rowVars, readerVars, faults>>

(* process writes "BUILD FAILED" to the log, where an error is ignored ...    *)
ReportFailure ==
    /\ bpc = "report"
    /\ \/ AppendBuildLog(Chunk(<<"newline", "text", "newline">>)) /\ UNCHANGED faults
       \/ UNCHANGED logs /\ Fault
    /\ Goto("fail")
    /\ UNCHANGED <<row, status, readerVars>>

(* Mutant: the row is left running.                                           *)
FailForgotten ==
    /\ bpc = "fail"
    /\ Goto("done")
    /\ UNCHANGED <<rowVars, readerVars, faults>>

(* ... and then finishes the row.                                             *)
Fail ==
    /\ bpc = "fail"
    /\ SetStatus("failed")
    /\ Goto("done")
    /\ UNCHANGED <<row, logs, readerVars, faults>>

(* The image is pushed and recorded ...                                       *)
BuildSucceeds ==
    /\ bpc = "build"
    /\ \/ Goto("finish") /\ UNCHANGED faults
       \/ Goto("fail") /\ Fault
    /\ UNCHANGED <<rowVars, readerVars>>

(* ... and the row finished.                                                  *)
FinishBuild ==
    /\ bpc = "finish"
    /\ SetStatus("succeeded")
    /\ Goto("done")
    /\ UNCHANGED <<row, logs, readerVars, faults>>

(* The builder dies, or a statement on the status fails: either is the last   *)
(* that the builder does with the row.                                        *)
BuilderStops ==
    /\ bpc # "done"
    /\ Fault
    /\ Goto("done")
    /\ UNCHANGED <<rowVars, readerVars>>

------------------------------------------------------------------------------
(* The readers.                                                               *)

Open(r) ==
    /\ stream[r] = "none" /\ row = "exists"
    /\ stream' = [stream EXCEPT ![r] = "open"]
    /\ UNCHANGED <<rowVars, bpc, sent, printed, faults>>

(* What the client prints of a chunk that writeSSE sends: the newlines at its *)
(* end are cut off, and each of its lines, the last one too, is printed as    *)
(* one.                                                                       *)
writeSSE(chunk) ==
    LET text == {i \in 1..Len(chunk) : chunk[i] # Newline}
        last == CHOOSE i \in text \cup {0} : \A j \in text : j <= i
    IN  SubSeq(chunk, 1, last) \o <<Newline>>

(* Mutant: the offset is one too far.                                         *)
PollPastEnd(r) ==
    /\ stream[r] = "open" /\ row = "exists"
    /\ printed' = IF Len(logs) > sent[r]
                  THEN [printed EXCEPT ![r] = @ \o writeSSE(SubSeq(logs, sent[r] + 1, Len(logs)))]
                  ELSE printed
    /\ sent' = [sent EXCEPT ![r] = Len(logs) + 1]
    /\ stream' = IF status \in Terminal THEN [stream EXCEPT ![r] = "ended"] ELSE stream
    /\ UNCHANGED <<rowVars, bpc, faults>>

(* Mutant: the end is reported without a last look at the log.                *)
PollStatusFirst(r) ==
    /\ stream[r] = "open" /\ row = "exists"
    /\ IF status \in Terminal
       THEN stream' = [stream EXCEPT ![r] = "ended"] /\ UNCHANGED <<sent, printed>>
       ELSE /\ printed' = [printed EXCEPT ![r] = @ \o writeSSE(SubSeq(logs, sent[r] + 1, Len(logs)))]
            /\ sent' = [sent EXCEPT ![r] = Len(logs)]
            /\ UNCHANGED stream
    /\ UNCHANGED <<rowVars, bpc, faults>>

(* One turn of the loop of handleDeployLogs: the row is read once, what is    *)
(* new in its log is sent, and a terminal status ends the stream.  The client *)
(* prints that status like a line of the log.                                 *)
Poll(r) ==
    /\ stream[r] = "open" /\ row = "exists"
    /\ printed' = IF Len(logs) > sent[r]
                  THEN [printed EXCEPT ![r] = @ \o writeSSE(SubSeq(logs, sent[r] + 1, Len(logs)))]
                  ELSE printed
    /\ sent' = [sent EXCEPT ![r] = Len(logs)]
    /\ stream' = IF status \in Terminal THEN [stream EXCEPT ![r] = "ended"] ELSE stream
    /\ UNCHANGED <<rowVars, bpc, faults>>

(* The row is gone or cannot be read, or the client disconnects: the stream   *)
(* stops without a word.                                                      *)
CutStream(r) ==
    /\ stream[r] = "open"
    /\ row = "exists" => Fault
    /\ row = "deleted" => UNCHANGED faults
    /\ stream' = [stream EXCEPT ![r] = "cut"]
    /\ UNCHANGED <<rowVars, bpc, sent, printed>>

(* The project is deleted, and the row with it.                               *)
DeleteRow ==
    /\ row = "exists"
    /\ row' = "deleted"
    /\ UNCHANGED <<status, logs, bpc, readerVars, faults>>

BuilderStep ==
    \/ StartBuild
    \/ \E shape \in Shapes : WriteOutput(shape)
    \/ BuildFails
    \/ ReportFailure
    \/ Fail
    \/ BuildSucceeds
    \/ FinishBuild

Next ==
    \/ BuilderStep
    \/ BuilderStops
    \/ \E r \in Readers : Open(r) \/ Poll(r) \/ CutStream(r)
    \/ DeleteRow

Spec == Init /\ [][Next]_vars

(* A handler polls twice a second, and the builder runs on once the commands  *)
(* have ended.  Nothing makes a command end, a reader come or a row go.       *)
Fairness ==
    /\ WF_vars(ReportFailure \/ Fail \/ FinishBuild)
    /\ \A r \in Readers : WF_vars(Poll(r) \/ (row = "deleted" /\ CutStream(r)))

FairSpec == Spec /\ Fairness

------------------------------------------------------------------------------
(* Properties.                                                                *)

(* Every variable has its type.                                               *)
TypeOK ==
    /\ row \in {"exists", "deleted"}
    /\ status \in {"queued", "running"} \cup Terminal
    /\ logs \in Seq(0..(MaxLog + 3)) /\ \A i \in 1..Len(logs) : logs[i] \in {i, Newline}
    /\ bpc \in {"claim", "build", "report", "fail", "finish", "done"}
    /\ stream \in [Readers -> {"none", "open", "ended", "cut"}]
    /\ sent \in [Readers -> 0..Len(logs)]
    /\ printed \in [Readers -> Seq(0..(MaxLog + 3))]
    /\ faults \in 0..MaxFaults

(* The text of a log without its line breaks: a poll in the middle of a line  *)
(* breaks it, and newlines that end a chunk are lost.                         *)
Keep(text, c) == IF c = Newline THEN text ELSE Append(text, c)

Text(s) ==
    LET kept[n \in 0..Len(s)] == IF n = 0 THEN <<>> ELSE Keep(kept[n - 1], s[n])
    IN  kept[Len(s)]

Delivery == INSTANCE LogDelivery WITH
    text <- Text(logs),
    state <- IF status \in Terminal THEN "complete" ELSE "growing",
    seen <- [r \in Readers |-> Text(printed[r])]

(* "emitting new lines as they are persisted and closing once the build       *)
(* reaches a terminal state" (handleDeployLogs): whenever readers come, poll  *)
(* and go, and wherever the builder stops, each has printed the text of the   *)
(* log from its start without gap or repetition, the log does not change      *)
(* after its end, and the end is reported only to who has printed all of it.  *)
ImplementsDelivery == Delivery!Spec

(* Once the commands of a build have ended, its open streams end: the outcome *)
(* is written and every handler sees it, unless something fails meanwhile:    *)
(* the builder stops, or a statement or the stream of some reader fails.      *)
OutcomeEndsStreams ==
    \A r \in Readers :
        stream[r] = "open" /\ bpc \in {"report", "fail", "finish"}
        ~> stream[r] # "open" \/ faults > 0

==============================================================================
