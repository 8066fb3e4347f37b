------------------------ MODULE WorkloadObjectsProofs ------------------------
(* The cluster objects of an org's services, for any number of projects,      *)
(* services, goroutines and failures.                                         *)
EXTENDS WorkloadObjects, TLAPS

USE ObjectsAssumption
USE DEF ServiceId, Name

------------------------------------------------------------------------------
(* The inductive invariant.                                                   *)

Reconciles(t) == task[t].spec # NoSpec

TearsDown(t) == task[t] # NoTask /\ ~Reconciles(t)

(* The program a goroutine was started with, and how many of its calls have   *)
(* returned.                                                                  *)
Program(t) == IF Reconciles(t) THEN Apply(task[t].spec)
              ELSE IF task[t].name = Namespace THEN DeleteNamespace ELSE Delete

Returned(t) == Len(Program(t)) - Len(task[t].todo)

(* What a goroutine has left to do is the rest of its program.                *)
TasksAreSound ==
    \A t \in Tasks :
        /\ Reconciles(t) => task[t].name \in Slugs
        /\ task[t].todo = <<>> => task[t] = NoTask
        /\ Returned(t) >= 0
        /\ \A j \in 1..Len(task[t].todo) : task[t].todo[j] = Program(t)[Returned(t) + j]

RowsAreSound ==
    /\ \A i \in ServiceId : Exists(i) => services[i].project \in projects /\ i < nextId
    /\ org = "deleted" => projects = {}

(* Until the org is deleted nobody deletes its namespace, and what is not     *)
(* there holds nothing.                                                       *)
NamespaceIsSound ==
    /\ org = "exists" => ns # "terminating" /\ Namespace \notin pending /\ ~Active(Namespace)
    /\ ns = "absent" => \A n \in Name : objects[n] = {}
    /\ ns # "absent" => Slugs # {}
    /\ org = "deleted" /\ disturbed = {} /\ ns = "active" =>
          Namespace \in pending \/ Active(Namespace)

PoliciesPrecede ==
    org = "exists" =>
        \A t \in Tasks : Reconciles(t) /\ Returned(t) >= 2 => "policies" \in objects[Namespace]

(* A slug that is not marked names one service, and a teardown under way is   *)
(* not for it.                                                                *)
SlugIsUsedOnce ==
    \A w \in Slugs \ disturbed :
        /\ \A i, j \in ServiceId : Exists(i) /\ Exists(j) /\ services[i].slug = w
                                   /\ services[j].slug = w => i = j
        /\ \A p \in Projects : w \in listed[p] => w \in SlugsOf(p) \/ org = "deleted"
        /\ w \in pending \/ (\E t \in Tasks : TearsDown(t) /\ task[t].name = w) =>
              w \notin LiveSlugs

(* Whoever applies it does so alone, for a service that exists.               *)
AppliedAlone ==
    \A t \in Tasks : Reconciles(t) /\ task[t].name \notin disturbed =>
        /\ org = "exists"
        /\ \E i \in ServiceId : /\ Exists(i) /\ services[i].slug = task[t].name
                                /\ services[i].spec.type = task[t].spec.type
        /\ \A u \in Tasks : u # t /\ task[u] # NoTask => task[u].name \notin {task[t].name, Namespace}

(* Nobody works on what is reported live.                                     *)
LiveIsLeftAlone ==
    \A w \in Slugs \ disturbed : live[w] # NoSpec =>
        ns # "terminating" /\ ~Active(w) /\ ~Active(Namespace)

Fits(type) ==
    IF type = "cron" THEN {"env", "cronjob"}
    ELSE {"env", "pvc", "deployment", "hpa"}
         \cup IF type = "web" THEN {"cert", "routes", "tls"} ELSE {}

(* A service has no object that its type does not have.                       *)
TypesFit ==
    \A i \in ServiceId : Exists(i) /\ services[i].slug \notin disturbed =>
        objects[services[i].slug] \subseteq Fits(services[i].spec.type)

(* What a slug without a service has left is about to be torn down.           *)
GoneIsClean ==
    \A w \in Slugs \ disturbed :
        \/ w \in LiveSlugs \cup pending \/ Active(w)
        \/ Namespace \in pending \/ Active(Namespace) \/ ns = "terminating"
        \/ objects[w] = {}

(* The calls of a goroutine that have returned have had their effect, and     *)
(* keep it while it runs.                                                     *)
CallsHold ==
    \A t \in Tasks : task[t] # NoTask /\ task[t].name \in Slugs \ disturbed =>
        \A j \in 1..Returned(t) :
            LET call == Program(t)[j] IN
            call.kind \in Kind =>
                /\ call.op = "put" => call.kind \in objects[task[t].name]
                /\ call.op = "drop" => call.kind \notin objects[task[t].name]

ObjectsInv == /\ TypeOK
              /\ TasksAreSound
              /\ RowsAreSound
              /\ NamespaceIsSound
              /\ PoliciesPrecede
              /\ SlugIsUsedOnce
              /\ AppliedAlone
              /\ LiveIsLeftAlone
              /\ TypesFit
              /\ GoneIsClean
              /\ CallsHold
              /\ Isolated
              /\ SecretRefSatisfied
              /\ LiveIsDesired

------------------------------------------------------------------------------
(* The programs of the goroutines.                                            *)

(* The calls of an Apply, for each type of service.                           *)
LEMMA ApplyCron ==
    ASSUME NEW s \in ServiceSpec, s.type = "cron"
    PROVE  /\ Len(Apply(s)) = 4
           /\ Apply(s)[1] = Put("namespace")
           /\ Apply(s)[2] = Put("policies")
           /\ Apply(s)[3] = Put("env")
           /\ Apply(s)[4] = Put("cronjob")
BY DEF Apply, applyNamespacePolicies, applyEnvSecret, applyCronJob, Put

LEMMA ApplyWorker ==
    ASSUME NEW s \in ServiceSpec, s.type # "cron", ~IsRoutable(s)
    PROVE  /\ Len(Apply(s)) = 7
           /\ Apply(s)[1] = Put("namespace")
           /\ Apply(s)[2] = Put("policies")
           /\ Apply(s)[3] = Put("env")
           /\ Apply(s)[4] = reconcileDisk(s)
           /\ Apply(s)[5] = Put("deployment")
           /\ Apply(s)[6] = reconcileAutoscaler(s)
           /\ Apply(s)[7] = WaitForRollout
BY DEF Apply, applyNamespacePolicies, applyEnvSecret, applyDeployment

LEMMA ApplyWeb ==
    ASSUME NEW s \in ServiceSpec, s.type # "cron", IsRoutable(s)
    PROVE  /\ Len(Apply(s)) = 9
           /\ Apply(s)[1] = Put("namespace")
           /\ Apply(s)[2] = Put("policies")
           /\ Apply(s)[3] = Put("env")
           /\ Apply(s)[4] = reconcileDisk(s)
           /\ Apply(s)[5] = Put("deployment")
           /\ Apply(s)[6] = reconcileAutoscaler(s)
           /\ Apply(s)[7] = Put("cert")
           /\ Apply(s)[8] = Put("routes")
           /\ Apply(s)[9] = WaitForRollout
BY DEF Apply, applyNamespacePolicies, applyEnvSecret, applyDeployment, Routing

(* The calls of an Apply: the namespace, its policies and the Secret come     *)
(* first; what is put is desired and what is dropped is not.                  *)
ApplyCall(s, j, c) ==
    /\ c \in Call
    /\ c.kind = "namespace" => j = 1 /\ c.op = "put"
    /\ c.kind = "policies" => j = 2 /\ c.op = "put"
    /\ c.kind = "env" => j = 3 /\ c.op = "put"
    /\ c.kind # "tls"
    /\ c.op = "put" /\ c.kind \in Kind => c.kind \in Desired(s)
    /\ c.op = "drop" => c.kind \in {"pvc", "hpa"} /\ c.kind \notin Desired(s)
    /\ c.op = "wait" => c.kind = "deployment"
    /\ c.kind \in {"deployment", "cronjob"} => j > 3
    /\ c.kind \in {"cert", "routes"} => s.type = "web"
    /\ c.kind = "cronjob" <=> j = 4 /\ s.type = "cron"

LEMMA ApplyCalls ==
    ASSUME NEW s \in ServiceSpec
    PROVE  /\ Len(Apply(s)) \in 4..9
           /\ Apply(s) \in Seq(Call)
           /\ Apply(s)[2] = Put("policies")
           /\ Apply(s)[3] = Put("env")
           /\ \A j \in 1..Len(Apply(s)) : ApplyCall(s, j, Apply(s)[j])
<1> DEFINE P == Apply(s)
<1> USE DEF Put, Drop, WaitForRollout, reconcileDisk, reconcileAutoscaler, Call, Kind
<1>1. CASE s.type = "cron"
    <2>1. \A j \in 1..Len(P) : j \in 1..4 BY <1>1, ApplyCron
    <2>2. \A j \in 1..Len(P) : ApplyCall(s, j, P[j])
        BY <1>1, <2>1, ApplyCron DEF ApplyCall, Desired
    <2>3. P \in Seq(Call)
        BY <1>1 DEF Apply, applyNamespacePolicies, applyEnvSecret, applyCronJob
    <2> QED BY <1>1, <2>2, <2>3, ApplyCron
<1>2. CASE s.type # "cron" /\ ~IsRoutable(s)
    <2>1. \A j \in 1..Len(P) : j \in 1..7 BY <1>2, ApplyWorker
    <2>2. \A j \in 1..Len(P) : ApplyCall(s, j, P[j])
        BY <1>2, <2>1, ApplyWorker DEF ApplyCall, Desired, IsRoutable
    <2>3. P \in Seq(Call)
        BY <1>2 DEF Apply, applyNamespacePolicies, applyEnvSecret, applyDeployment
    <2> QED BY <1>2, <2>2, <2>3, ApplyWorker
<1>3. CASE s.type # "cron" /\ IsRoutable(s)
    <2>1. \A j \in 1..Len(P) : j \in 1..9 BY <1>3, ApplyWeb
    <2>2. \A j \in 1..Len(P) : ApplyCall(s, j, P[j])
        <3>1. ApplyCall(s, 1, P[1]) /\ ApplyCall(s, 2, P[2]) /\ ApplyCall(s, 3, P[3])
            BY <1>3, ApplyWeb DEF ApplyCall, Desired, IsRoutable
        <3>2. ApplyCall(s, 4, P[4]) /\ ApplyCall(s, 5, P[5]) /\ ApplyCall(s, 6, P[6])
            BY <1>3, ApplyWeb DEF ApplyCall, Desired, IsRoutable
        <3>3. ApplyCall(s, 7, P[7]) /\ ApplyCall(s, 8, P[8]) /\ ApplyCall(s, 9, P[9])
            BY <1>3, ApplyWeb DEF ApplyCall, Desired, IsRoutable
        <3> HIDE DEF P
        <3> QED BY <2>1, <3>1, <3>2, <3>3
    <2>3. P \in Seq(Call)
        BY <1>3 DEF Apply, applyNamespacePolicies, applyEnvSecret, applyDeployment, Routing
    <2> QED BY <1>3, <2>2, <2>3, ApplyWeb
<1> QED BY <1>1, <1>2, <1>3

(* No call undoes an earlier one.                                             *)
LEMMA ApplyOnce ==
    ASSUME NEW s \in ServiceSpec, NEW i \in 1..Len(Apply(s)), NEW j \in 1..Len(Apply(s)),
           i < j, Apply(s)[j].op # "wait"
    PROVE  Apply(s)[i].kind # Apply(s)[j].kind
<1> DEFINE P == Apply(s)
<1> USE DEF Put, Drop, WaitForRollout, reconcileDisk, reconcileAutoscaler
<1>1. CASE s.type = "cron" BY <1>1, ApplyCron
<1>2. CASE s.type # "cron"
    <2>1. /\ P[1].kind = "namespace" /\ P[2].kind = "policies" /\ P[3].kind = "env"
          /\ P[4].kind = "pvc" /\ P[5].kind = "deployment" /\ P[6].kind = "hpa"
        BY <1>2, ApplyWorker, ApplyWeb
    <2>2. CASE ~IsRoutable(s)
        <3>1. Len(P) = 7 /\ P[7].op = "wait" BY <1>2, <2>2, ApplyWorker
        <3> QED BY <2>1, <3>1
    <2>3. CASE IsRoutable(s)
        <3>1. /\ Len(P) = 9 /\ P[9].op = "wait"
              /\ P[7].kind = "cert" /\ P[8].kind = "routes"
            BY <1>2, <2>3, ApplyWeb
        <3>2. i \in 1..8 /\ j \in 1..8 BY <3>1
        <3> QED BY <2>1, <3>1, <3>2
    <2> QED BY <2>2, <2>3
<1> QED BY <1>1, <1>2

(* Whatever a service of the type may have is put or dropped.                 *)
LEMMA ApplyDecides ==
    ASSUME NEW s \in ServiceSpec, NEW k \in Fits(s.type), k # "tls"
    PROVE  \E j \in 1..Len(Apply(s)) : Apply(s)[j].kind = k /\ Apply(s)[j].op # "wait"
<1> USE DEF Put, Drop, WaitForRollout, reconcileDisk, reconcileAutoscaler, Fits
<1>1. CASE s.type = "cron" BY <1>1, ApplyCron
<1>2. CASE s.type # "cron" /\ ~IsRoutable(s) BY <1>2, ApplyWorker DEF IsRoutable
<1>3. CASE s.type # "cron" /\ IsRoutable(s) BY <1>3, ApplyWeb DEF IsRoutable
<1> QED BY <1>1, <1>2, <1>3

(* What a service should have is among what its type may have.                *)
LEMMA DesiredFits ==
    ASSUME NEW s \in ServiceSpec
    PROVE  Desired(s) \subseteq Fits(s.type) /\ Desired(s) \subseteq Kind \ {"tls"}
           /\ Fits(s.type) \subseteq Kind
BY DEF Desired, Fits, IsRoutable, Kind

(* The calls of a Delete: every kind is dropped, the Secret after what refers *)
(* to it and the TLS Secret after its certificate.                            *)
LEMMA DeleteCalls ==
    /\ Len(Delete) = 8
    /\ Delete \in Seq(Call)
    /\ \A j \in 1..8 : /\ Delete[j].op = "drop"
                       /\ Delete[j].kind \in Kind
                       /\ Delete[j].kind = "tls" => j = 8
                       /\ Delete[j].kind = "env" => j = 5
    /\ Delete[1].kind = "deployment"
    /\ Delete[2].kind = "cronjob"
    /\ Delete[8].kind = "tls"
    /\ \A k \in Kind : \E j \in 1..8 : Delete[j].kind = k
<1> USE DEF Delete, Drop, Kind, Call
<1>1. Len(Delete) = 8 /\ Delete \in Seq(Call)
    OBVIOUS
<1>2. /\ Delete[1].kind = "deployment"
      /\ Delete[2].kind = "cronjob"
      /\ Delete[8].kind = "tls"
    OBVIOUS
<1>3. \A j \in 1..8 : /\ Delete[j].op = "drop"
                      /\ Delete[j].kind \in Kind
                      /\ Delete[j].kind = "tls" => j = 8
                      /\ Delete[j].kind = "env" => j = 5
    OBVIOUS
<1>4. \A k \in Kind : \E j \in 1..8 : Delete[j].kind = k
    OBVIOUS
<1> QED BY <1>1, <1>2, <1>3, <1>4

(* The one call of a namespace's teardown.                                    *)
LEMMA DeleteNamespaceCalls ==
    Len(DeleteNamespace) = 1 /\ DeleteNamespace \in Seq(Call)
    /\ DeleteNamespace[1] = Drop("namespace")
BY DEF DeleteNamespace, Drop, Call

------------------------------------------------------------------------------
(* What a goroutine does to itself.                                           *)

(* No service has the specification that stands for none.                     *)
LEMMA NoSpecIsNone == NoSpec \notin ServiceSpec
BY DEF NoSpec, ServiceSpec

(* The slugs in use, in this state and in the next.                           *)
LEMMA SlugsInUse ==
    /\ \A w : w \in LiveSlugs <=>
          \E i \in ServiceId : services[i].project \in Projects /\ services[i].slug = w
    /\ \A w : w \in LiveSlugs' <=>
          \E i \in ServiceId : services'[i].project \in Projects /\ services'[i].slug = w
    /\ \A p, w : w \in SlugsOf(p) <=>
          \E i \in ServiceId : services[i].project = p /\ services[i].slug = w
    /\ \A p, w : w \in SlugsOf(p)' <=>
          \E i \in ServiceId : services'[i].project = p /\ services'[i].slug = w
BY DEF LiveSlugs, SlugsOf

(* A row is that of a service, or of none.                                    *)
LEMMA RowShape ==
    ASSUME TypeOK, NEW i \in ServiceId
    PROVE  /\ Exists(i) <=> services[i].project \in Projects
           /\ ~Exists(i) => services[i] = NoService
           /\ Exists(i) => services[i].slug \in Slugs /\ services[i].spec \in ServiceSpec
BY DEF TypeOK, Exists, NoService

(* Projects use slugs.                                                        *)
LEMMA SlugsAreTyped ==
    ASSUME TypeOK, NEW p \in Projects PROVE SlugsOf(p) \subseteq Slugs
BY DEF TypeOK, SlugsOf, NoService

(* A goroutine, and the program it was started with, have their types.        *)
LEMMA TaskShape ==
    ASSUME TypeOK, NEW t \in Tasks
    PROVE  /\ task[t] \in [name : Name, todo : Seq(Call), spec : ServiceSpec \cup {NoSpec}]
           /\ task[t].name \in Name /\ task[t].todo \in Seq(Call)
           /\ Reconciles(t) => task[t].spec \in ServiceSpec
           /\ Len(Program(t)) \in 1..9 /\ Program(t) \in Seq(Call)
           /\ Len(task[t].todo) \in Nat
<1>1. task[t] \in [name : Name, todo : Seq(Call), spec : ServiceSpec \cup {NoSpec}]
    BY DEF TypeOK
<1>2. /\ task[t].name \in Name /\ task[t].todo \in Seq(Call)
      /\ Reconciles(t) => task[t].spec \in ServiceSpec
    BY <1>1 DEF Reconciles
<1>3. Len(Program(t)) \in 1..9 /\ Program(t) \in Seq(Call)
    BY <1>2, ApplyCalls, DeleteCalls, DeleteNamespaceCalls DEF Program
<1> QED BY <1>1, <1>2, <1>3

(* A goroutine that does not run.                                             *)
LEMMA NotRunning ==
    /\ \A t \in Tasks : task[t] = NoTask => ~Reconciles(t) /\ ~TearsDown(t)
    /\ \A t \in Tasks : task'[t] = NoTask => ~Reconciles(t)' /\ ~TearsDown(t)'
BY DEF NoTask, Reconciles, TearsDown

(* A goroutine that is left alone.                                            *)
LEMMA SameTask ==
    ASSUME NEW t \in Tasks, task'[t] = task[t]
    PROVE  /\ Program(t)' = Program(t) /\ Returned(t)' = Returned(t)
           /\ Reconciles(t)' <=> Reconciles(t)
           /\ TearsDown(t)' <=> TearsDown(t)
BY DEF Program, Returned, Reconciles, TearsDown

(* The call a goroutine is at.                                                *)
LEMMA AtCall ==
    ASSUME TypeOK, TasksAreSound, NEW t \in Tasks, task[t].todo # <<>>
    PROVE  /\ task[t] # NoTask
           /\ Returned(t) \in Nat /\ Returned(t) + 1 \in 1..Len(Program(t))
           /\ Current(t) = Program(t)[Returned(t) + 1]
           /\ Current(t) \in Call
<1>1. Len(task[t].todo) \in Nat /\ Len(task[t].todo) > 0 BY TaskShape
<1>2. Current(t) = task[t].todo[1] /\ Current(t) \in Call BY TaskShape DEF Current
<1>3. task[t] # NoTask BY DEF NoTask
<1>4. Returned(t) >= 0 /\ \A j \in 1..Len(task[t].todo) :
                             task[t].todo[j] = Program(t)[Returned(t) + j]
    BY DEF TasksAreSound
<1>5. Returned(t) = Len(Program(t)) - Len(task[t].todo) /\ Len(Program(t)) \in Nat
    BY TaskShape DEF Returned
<1>6. 1 \in 1..Len(task[t].todo) BY <1>1
<1>7. Current(t) = Program(t)[Returned(t) + 1] BY <1>2, <1>4, <1>6
<1> HIDE DEF Program
<1> DEFINE n == Len(Program(t))
           m == Len(task[t].todo)
           r == Returned(t)
<1>8. n \in Nat /\ m \in Nat /\ m > 0 /\ r = n - m /\ r >= 0 BY <1>1, <1>4, <1>5
<1> HIDE DEF n, m, r
<1>9. r \in Nat /\ r + 1 \in 1..n BY <1>8
<1> QED BY <1>2, <1>3, <1>7, <1>9 DEF n, r

(* The call has returned: the goroutine goes on, or was at its last.          *)
GoesOn(t) ==
    /\ task'[t] # NoTask
    /\ task'[t].name = task[t].name /\ task'[t].spec = task[t].spec
    /\ Returned(t)' = Returned(t) + 1 /\ Returned(t) + 1 < Len(Program(t))
    /\ UNCHANGED live

Ends(t) ==
    /\ task'[t] = NoTask
    /\ Returned(t) + 1 = Len(Program(t))
    /\ \A w \in Slugs : IF Reconciles(t) /\ w = task[t].name THEN live'[w] = task[t].spec
                                                            ELSE live'[w] = live[w]

(* A goroutine that advances goes on or ends; the others are left alone.      *)
LEMMA AdvanceSteps ==
    ASSUME TypeOK, TasksAreSound, NEW t \in Tasks, task[t].todo # <<>>, Advance(t)
    PROVE  /\ task' \in [Tasks -> [name : Name, todo : Seq(Call), spec : ServiceSpec \cup {NoSpec}]]
           /\ live' \in [Slugs -> ServiceSpec \cup {NoSpec}]
           /\ \A u \in Tasks : u # t => task'[u] = task[u]
           /\ GoesOn(t) \/ Ends(t)
           /\ TasksAreSound'
<1> DEFINE Record == [name : Name, todo : Seq(Call), spec : ServiceSpec \cup {NoSpec}]
<1>1. task[t] \in Record /\ task[t].todo \in Seq(Call) /\ Len(task[t].todo) \in Nat \ {0}
    BY TaskShape
<1>2. NoTask \in Record BY DEF NoTask
<1>3. Returned(t) = Len(Program(t)) - Len(task[t].todo) /\ Len(Program(t)) \in Nat
    BY TaskShape DEF Returned
<1>4. ASSUME \A u \in Tasks : u # t => task'[u] = task[u],
             \/ task'[t] = NoTask
             \/ /\ task'[t].name = task[t].name /\ task'[t].spec = task[t].spec
                /\ task'[t].todo # <<>>
                /\ Returned(t)' >= 0
                /\ \A j \in 1..Len(task'[t].todo) :
                      task'[t].todo[j] = Program(t)[Returned(t)' + j]
      PROVE TasksAreSound'
    <2> SUFFICES ASSUME NEW u \in Tasks
                 PROVE /\ Reconciles(u)' => task'[u].name \in Slugs
                       /\ task'[u].todo = <<>> => task'[u] = NoTask
                       /\ Returned(u)' >= 0
                       /\ \A j \in 1..Len(task'[u].todo) :
                             task'[u].todo[j] = Program(u)'[Returned(u)' + j]
        BY DEF TasksAreSound
    <2>1. CASE u # t BY <1>4, <2>1, SameTask DEF TasksAreSound
    <2>2. CASE u = t /\ task'[t] = NoTask
        <3>1. task'[u].todo = <<>> /\ ~Reconciles(u)' BY <2>2, NotRunning DEF NoTask
        <3>2. Returned(u)' = 1
            BY <2>2, DeleteNamespaceCalls DEF NoTask, Returned, Program, Reconciles
        <3> QED BY <2>2, <3>1, <3>2
    <2>3. CASE u = t /\ task'[t] # NoTask
        <3>1. Program(t)' = Program(t) /\ (Reconciles(t)' <=> Reconciles(t))
            BY <1>4, <2>3 DEF Program, Reconciles
        <3> QED BY <1>4, <2>3, <3>1 DEF TasksAreSound
    <2> QED BY <2>1, <2>2, <2>3
<1>5. CASE Len(task[t].todo) > 1
    <2>1. /\ task' = [task EXCEPT ![t] = [task[t] EXCEPT !.todo = Tail(task[t].todo)]]
          /\ live' = live
        BY <1>5 DEF Advance
    <2> DEFINE next == [task[t] EXCEPT !.todo = Tail(task[t].todo)]
    <2>2. /\ Tail(task[t].todo) \in Seq(Call)
          /\ Len(Tail(task[t].todo)) = Len(task[t].todo) - 1
          /\ \A j \in 1..(Len(task[t].todo) - 1) : Tail(task[t].todo)[j] = task[t].todo[j + 1]
        BY <1>1, <1>5
    <2>3. /\ next \in Record /\ next.name = task[t].name /\ next.spec = task[t].spec
          /\ next.todo = Tail(task[t].todo)
        BY <1>1, <2>2
    <2> HIDE DEF next
    <2>4. /\ task'[t] = next /\ \A u \in Tasks : u # t => task'[u] = task[u]
          /\ task' \in [Tasks -> Record]
        BY <2>1, <2>3 DEF TypeOK, next
    <2>5. Program(t)' = Program(t) BY <2>3, <2>4 DEF Program, Reconciles
    <2>6. Returned(t)' = Returned(t) + 1
        <3> DEFINE n == Len(Program(t))
                   m == Len(task[t].todo)
        <3>1. Returned(t)' = Len(Program(t)') - Len(task'[t].todo) BY DEF Returned
        <3>2. Len(task'[t].todo) = m - 1 BY <2>2, <2>3, <2>4
        <3>3. Returned(t)' = n - (m - 1) BY <2>5, <3>1, <3>2
        <3>4. n \in Nat /\ m \in Nat /\ Returned(t) = n - m BY <1>1, <1>3
        <3> HIDE DEF n, m
        <3> QED BY <3>3, <3>4
    <2>7. task'[t].todo # <<>> /\ task'[t] # NoTask
        BY <1>5, <2>2, <2>3, <2>4 DEF NoTask
    <2>8. GoesOn(t) BY <1>1, <1>3, <1>5, <2>1, <2>3, <2>4, <2>6, <2>7 DEF GoesOn
    <2>9. /\ Returned(t) >= 0
          /\ \A j \in 1..Len(task[t].todo) : task[t].todo[j] = Program(t)[Returned(t) + j]
        BY DEF TasksAreSound
    <2>10. \A j \in 1..Len(task'[t].todo) : task'[t].todo[j] = Program(t)[Returned(t)' + j]
        <3> SUFFICES ASSUME NEW j \in 1..(Len(task[t].todo) - 1)
                     PROVE Tail(task[t].todo)[j] = Program(t)[Returned(t) + 1 + j]
            BY <2>2, <2>3, <2>4, <2>6
        <3>1. Tail(task[t].todo)[j] = task[t].todo[j + 1] BY <2>2
        <3>2. task[t].todo[j + 1] = Program(t)[Returned(t) + (j + 1)] BY <1>1, <2>9
        <3>3. Returned(t) + (j + 1) = Returned(t) + 1 + j BY <1>1, <1>3
        <3> QED BY <3>1, <3>2, <3>3
    <2>11. Returned(t)' >= 0 BY <1>1, <1>3, <2>6, <2>9
    <2>12. TasksAreSound' BY <1>4, <2>3, <2>4, <2>7, <2>10, <2>11
    <2> QED BY <2>1, <2>4, <2>8, <2>12 DEF TypeOK
<1>6. CASE Len(task[t].todo) = 1
    <2>1. task' = [task EXCEPT ![t] = NoTask] BY <1>6 DEF Advance
    <2>2. /\ task'[t] = NoTask /\ \A u \in Tasks : u # t => task'[u] = task[u]
          /\ task' \in [Tasks -> Record]
        BY <1>2, <2>1 DEF TypeOK
    <2>3. live' = IF task[t].spec = NoSpec THEN live
                  ELSE [live EXCEPT ![task[t].name] = task[t].spec]
        BY <1>6 DEF Advance
    <2>4. task[t].spec # NoSpec => task[t].name \in Slugs /\ task[t].spec \in ServiceSpec
        BY TaskShape DEF TasksAreSound, Reconciles
    <2>5. live' \in [Slugs -> ServiceSpec \cup {NoSpec}] BY <2>3, <2>4 DEF TypeOK
    <2>6. Ends(t) BY <1>3, <1>6, <2>2, <2>3, <2>4 DEF Ends, Reconciles, TypeOK
    <2>7. TasksAreSound' BY <1>4, <2>2
    <2> QED BY <2>2, <2>5, <2>6, <2>7
<1>7. \A m \in Nat \ {0} : m > 1 \/ m = 1 OBVIOUS
<1>8. Len(task[t].todo) > 1 \/ Len(task[t].todo) = 1 BY <1>1, <1>7
<1> QED BY <1>5, <1>6, <1>8

------------------------------------------------------------------------------
(* What a call of a goroutine does to the cluster.                            *)

CallStep(t) == PutObject(t) \/ ensureNamespace(t) \/ DropObject(t) \/ DropNamespace(t)
               \/ waitForRollout(t)

At(t) == Program(t)[Returned(t) + 1]

(* Nothing but the goroutine and the cluster changes.                         *)
OnlyCluster == UNCHANGED <<rowVars, pending, disturbed, faults>>

(* The objects that the call writes.                                          *)
Writes(t, n, c) ==
    /\ objects' \in [Name -> SUBSET (Kind \cup {"policies"})]
    /\ \A w \in Slugs : w # n => objects'[w] = objects[w]
    /\ objects[Namespace] \subseteq objects'[Namespace]
    /\ c.kind = "policies" => "policies" \in objects'[Namespace]
    /\ n \in Slugs /\ c.kind \in Kind /\ c.op = "put" => objects'[n] = objects[n] \cup {c.kind}
    /\ n \in Slugs /\ c.kind \in Kind /\ c.op = "drop" => objects'[n] = objects[n] \ {c.kind}
    /\ n \in Slugs /\ (c.kind \notin Kind \/ c.op = "wait") => objects'[n] = objects[n]
    /\ ns = "absent" => \A m \in Name : objects'[m] \subseteq objects[m]

(* What becomes of the namespace.                                             *)
Moves(t, n) ==
    /\ \/ ns' = ns
       \/ ns = "absent" /\ ns' = "active" /\ Reconciles(t)
       \/ ns = "active" /\ ns' = "terminating" /\ n = Namespace
    /\ n = Namespace => ns' # "active"

(* Which calls there are.                                                     *)
LEMMA CallsAre ==
    ASSUME TypeOK, TasksAreSound, NEW t \in Tasks, task[t].todo # <<>>
    PROVE  /\ task[t].name = Namespace => ~Reconciles(t) /\ At(t) = Drop("namespace")
           /\ ~Reconciles(t) => At(t).op = "drop"
           /\ ~Reconciles(t) /\ task[t].name # Namespace => At(t).kind \in Kind
           /\ Reconciles(t) => /\ task[t].name \in Slugs /\ task[t].spec \in ServiceSpec
                               /\ ApplyCall(task[t].spec, Returned(t) + 1, At(t))
           /\ At(t) = Current(t) /\ At(t) \in Call
<1>1. /\ Returned(t) + 1 \in 1..Len(Program(t))
      /\ Current(t) = At(t) /\ At(t) \in Call
    BY AtCall DEF At
<1>2. Reconciles(t) => task[t].name \in Slugs /\ task[t].spec \in ServiceSpec
    BY TaskShape DEF TasksAreSound
<1>3. CASE Reconciles(t)
    <2>1. Program(t) = Apply(task[t].spec) BY <1>3 DEF Program
    <2>2. ApplyCall(task[t].spec, Returned(t) + 1, At(t)) BY <1>1, <1>2, <1>3, <2>1, ApplyCalls DEF At
    <2> QED BY <1>1, <1>2, <1>3, <2>2
<1>4. CASE ~Reconciles(t) /\ task[t].name = Namespace
    <2>1. Program(t) = DeleteNamespace BY <1>4 DEF Program
    <2>2. Returned(t) + 1 = 1 BY <1>1, <2>1, DeleteNamespaceCalls
    <2>3. At(t) = Drop("namespace") BY <2>1, <2>2, DeleteNamespaceCalls DEF At
    <2> QED BY <1>1, <1>4, <2>3 DEF Drop
<1>5. CASE ~Reconciles(t) /\ task[t].name # Namespace
    <2>1. Program(t) = Delete BY <1>5 DEF Program
    <2>2. At(t).op = "drop" /\ At(t).kind \in Kind BY <1>1, <2>1, DeleteCalls DEF At
    <2> QED BY <1>1, <1>5, <2>2
<1> QED BY <1>3, <1>4, <1>5

(* Every call is one of the five, and has the effect that its kind and its    *)
(* operation say.                                                             *)
LEMMA CallTakes ==
    ASSUME TypeOK, TasksAreSound, NEW t \in Tasks, CallStep(t)
    PROVE  /\ task[t].todo # <<>> /\ Advance(t) /\ OnlyCluster
           /\ Writes(t, task[t].name, At(t))
           /\ Moves(t, task[t].name)
           /\ ns' \in {"absent", "active", "terminating"}
<1> DEFINE n == task[t].name
           c == At(t)
<1>1. task[t].todo # <<>> /\ Advance(t) /\ OnlyCluster
    BY DEF CallStep, PutObject, ensureNamespace, DropObject, DropNamespace, waitForRollout,
           Todo, OnlyCluster, clusterVars
<1>2. /\ c = Current(t) /\ c \in Call /\ n \in Name
      /\ n = Namespace => ~Reconciles(t) /\ c.op = "drop" /\ c.kind = "namespace"
      /\ ~Reconciles(t) => c.op = "drop"
      /\ ~Reconciles(t) /\ n # Namespace => c.kind \in Kind
      /\ Reconciles(t) => n \in Slugs
      /\ Reconciles(t) /\ c.op # "put" => c.kind \in Kind
      /\ Reconciles(t) /\ c.op = "wait" => c.kind = "deployment"
    <2>1. c = Current(t) /\ c \in Call /\ n \in Name BY <1>1, CallsAre, TaskShape
    <2>2. /\ n = Namespace => ~Reconciles(t) /\ c = Drop("namespace")
          /\ ~Reconciles(t) => c.op = "drop"
          /\ ~Reconciles(t) /\ n # Namespace => c.kind \in Kind
          /\ Reconciles(t) => n \in Slugs
        BY <1>1, CallsAre
    <2>3. Reconciles(t) => /\ c.op # "put" => c.kind \in Kind
                           /\ c.op = "wait" => c.kind = "deployment"
        <3> SUFFICES ASSUME Reconciles(t) PROVE /\ c.op # "put" => c.kind \in Kind
                                                /\ c.op = "wait" => c.kind = "deployment"
            OBVIOUS
        <3>1. ApplyCall(task[t].spec, Returned(t) + 1, c) BY <1>1, CallsAre
        <3> HIDE DEF c
        <3>2. c.op \in {"put", "drop", "wait"} BY <2>1 DEF Call
        <3> QED BY <3>1, <3>2 DEF ApplyCall, Kind
    <2>4. Drop("namespace").op = "drop" /\ Drop("namespace").kind = "namespace" BY DEF Drop
    <2> HIDE DEF c, n
    <2> QED BY <2>1, <2>2, <2>3, <2>4
<1>3. /\ c.kind \in Kind \cup {"policies", "namespace"}
      /\ "policies" \notin Kind /\ "namespace" \notin Kind
    BY <1>2 DEF Call, Kind
<1>4. objects \in [Name -> SUBSET (Kind \cup {"policies"})] /\ ns \in {"absent", "active", "terminating"}
    BY DEF TypeOK
<1> HIDE DEF n, c
<1>5. CASE PutObject(t)
    <2>1. /\ c.op = "put" /\ c.kind # "namespace" /\ ns' = ns
          /\ ns = "active" \/ ns = "terminating"
          /\ objects' = [objects EXCEPT ![Owner(n, c.kind)] = @ \cup {c.kind}]
        BY <1>2, <1>5 DEF PutObject, Todo, n
    <2>2. CASE c.kind = "policies"
        <3>1. objects' = [objects EXCEPT ![Namespace] = @ \cup {"policies"}]
            BY <2>1, <2>2 DEF Owner
        <3>2. n \in Slugs BY <1>2, <2>1
        <3>3. /\ objects'[Namespace] = objects[Namespace] \cup {"policies"}
              /\ \A w \in Slugs : objects'[w] = objects[w]
              /\ objects' \in [Name -> SUBSET (Kind \cup {"policies"})]
            BY <1>4, <3>1
        <3>4. Writes(t, n, c) BY <1>3, <2>1, <2>2, <3>2, <3>3 DEF Writes
        <3>5. Moves(t, n) BY <1>2, <2>1 DEF Moves
        <3> QED BY <1>1, <1>4, <2>1, <3>4, <3>5 DEF n, c
    <2>3. CASE c.kind # "policies"
        <3>1. objects' = [objects EXCEPT ![n] = @ \cup {c.kind}] /\ c.kind \in Kind
            BY <1>3, <2>1, <2>3 DEF Owner
        <3>2. n \in Slugs BY <1>2, <2>1
        <3>3. /\ objects'[n] = objects[n] \cup {c.kind}
              /\ \A w \in Name : w # n => objects'[w] = objects[w]
              /\ objects' \in [Name -> SUBSET (Kind \cup {"policies"})]
            BY <1>4, <3>1, <3>2
        <3>4. Namespace # n BY <3>2
        <3>5. Writes(t, n, c) BY <1>3, <2>1, <2>3, <3>1, <3>2, <3>3, <3>4 DEF Writes
        <3>6. Moves(t, n) BY <1>2, <2>1 DEF Moves
        <3> QED BY <1>1, <1>4, <2>1, <3>5, <3>6 DEF n, c
    <2> QED BY <2>2, <2>3
<1>6. CASE ensureNamespace(t)
    <2>1. /\ c.op = "put" /\ c.kind = "namespace" /\ objects' = objects
          /\ ns' = IF ns = "absent" THEN "active" ELSE ns
        BY <1>2, <1>6 DEF ensureNamespace, Todo
    <2>2. Writes(t, n, c) BY <1>2, <1>3, <1>4, <2>1 DEF Writes
    <2>3. Moves(t, n) BY <1>2, <1>4, <2>1 DEF Moves
    <2> QED BY <1>1, <1>4, <2>1, <2>2, <2>3 DEF n, c
<1>7. CASE DropObject(t)
    <2>1. /\ c.op = "drop" /\ c.kind # "namespace" /\ ns' = ns
          /\ objects' = [objects EXCEPT ![n] = @ \ {c.kind}]
        BY <1>2, <1>7 DEF DropObject, Todo, n
    <2>2. n \in Slugs /\ c.kind \in Kind BY <1>2, <2>1
    <2>3. Writes(t, n, c) BY <1>2, <1>3, <1>4, <2>1, <2>2 DEF Writes
    <2>4. Moves(t, n) BY <1>2, <2>1, <2>2 DEF Moves
    <2> QED BY <1>1, <1>4, <2>1, <2>3, <2>4 DEF n, c
<1>8. CASE DropNamespace(t)
    <2>1. /\ c.op = "drop" /\ c.kind = "namespace" /\ objects' = objects
          /\ ns' = IF ns = "active" THEN "terminating" ELSE ns
        BY <1>2, <1>8 DEF DropNamespace, Todo
    <2>2. Writes(t, n, c) BY <1>2, <1>3, <1>4, <2>1 DEF Writes
    <2>3. n = Namespace BY <1>2, <1>3, <2>1
    <2>4. Moves(t, n) BY <1>2, <1>4, <2>1, <2>3 DEF Moves
    <2> QED BY <1>1, <1>4, <2>1, <2>2, <2>4 DEF n, c
<1>9. CASE waitForRollout(t)
    <2>1. c.op = "wait" /\ objects' = objects /\ ns' = ns
        BY <1>2, <1>9 DEF waitForRollout, Todo, clusterVars
    <2>2. Writes(t, n, c) BY <1>2, <1>3, <1>4, <2>1 DEF Writes
    <2>3. Moves(t, n) BY <1>2, <2>1 DEF Moves
    <2> QED BY <1>1, <1>4, <2>1, <2>2, <2>3 DEF n, c
<1> QED BY <1>5, <1>6, <1>7, <1>8, <1>9 DEF CallStep
------------------------------------------------------------------------------
(* A call of a goroutine keeps the invariant.                                 *)

(* No goroutine is started, though some may end.                              *)
NobodyStarts ==
    \A u \in Tasks : \/ task'[u] = NoTask
                     \/ /\ task[u] # NoTask
                        /\ task'[u].name = task[u].name /\ task'[u].spec = task[u].spec

(* A goroutine that runs afterwards has run before, with the same program.    *)
LEMMA StillRunning ==
    ASSUME NobodyStarts
    PROVE  /\ \A m : Active(m)' => Active(m)
           /\ \A u \in Tasks : /\ TearsDown(u)' => TearsDown(u)
                               /\ Reconciles(u)' => Reconciles(u)
                               /\ task'[u] # NoTask => Program(u)' = Program(u)
<1>1. \A u \in Tasks : task'[u] # NoTask => task[u] # NoTask /\ task'[u].name = task[u].name
                                            /\ task'[u].spec = task[u].spec
    BY DEF NobodyStarts
<1>2. \A m : Active(m)' => Active(m) BY <1>1 DEF Active
<1>3. \A u \in Tasks : Reconciles(u)' => task'[u] # NoTask BY NotRunning
<1>4. \A u \in Tasks : task'[u] # NoTask => (Reconciles(u)' <=> Reconciles(u))
    BY <1>1 DEF Reconciles
<1>5. \A u \in Tasks : TearsDown(u)' => TearsDown(u) BY <1>1, <1>4 DEF TearsDown
<1>6. \A u \in Tasks : task'[u] # NoTask => Program(u)' = Program(u)
    BY <1>1 DEF Reconciles, Program
<1> QED BY <1>2, <1>3, <1>4, <1>5, <1>6

(* The slugs in use depend on the rows alone.                                 *)
LEMMA SameRows ==
    ASSUME services' = services
    PROVE  /\ LiveSlugs' = LiveSlugs
           /\ \A p : SlugsOf(p)' = SlugsOf(p)
           /\ \A i : Exists(i)' <=> Exists(i)
BY DEF LiveSlugs, SlugsOf, Exists

(* All that a call changes.                                                   *)
LEMMA Called ==
    ASSUME ObjectsInv, NEW t \in Tasks, CallStep(t)
    PROVE  /\ task[t] # NoTask /\ task[t].name \in Name
           /\ \A u \in Tasks : u # t => task'[u] = task[u]
           /\ GoesOn(t) \/ Ends(t)
           /\ Writes(t, task[t].name, At(t)) /\ Moves(t, task[t].name)
           /\ ns' \in {"absent", "active", "terminating"}
           /\ Returned(t) \in Nat
           /\ NobodyStarts
           /\ org' = org /\ projects' = projects /\ services' = services
           /\ nextId' = nextId /\ listed' = listed /\ pending' = pending
           /\ disturbed' = disturbed /\ faults' = faults
<1>1. TypeOK /\ TasksAreSound BY DEF ObjectsInv
<1>2. /\ task[t].todo # <<>> /\ Advance(t) /\ OnlyCluster
      /\ Writes(t, task[t].name, At(t)) /\ Moves(t, task[t].name)
      /\ ns' \in {"absent", "active", "terminating"}
    BY <1>1, CallTakes
<1>3. /\ \A u \in Tasks : u # t => task'[u] = task[u]
      /\ GoesOn(t) \/ Ends(t)
    BY <1>1, <1>2, AdvanceSteps
<1>4. task[t] # NoTask /\ Returned(t) \in Nat BY <1>1, <1>2, AtCall
<1>5. task[t].name \in Name BY <1>1, TaskShape
<1>6. NobodyStarts BY <1>3, <1>4 DEF NobodyStarts, GoesOn, Ends
<1>7. /\ org' = org /\ projects' = projects /\ services' = services
      /\ nextId' = nextId /\ listed' = listed /\ pending' = pending
      /\ disturbed' = disturbed /\ faults' = faults
    BY <1>2 DEF OnlyCluster, rowVars
<1> QED BY <1>2, <1>3, <1>4, <1>5, <1>6, <1>7

(* The call that is made is the next one of its program.                      *)
LEMMA CallKinds ==
    ASSUME ObjectsInv, NEW t \in Tasks, CallStep(t)
    PROVE  /\ task[t].name = Namespace => ~Reconciles(t)
           /\ ~Reconciles(t) => At(t).op = "drop"
           /\ ~Reconciles(t) /\ task[t].name # Namespace =>
                 At(t).kind \in Kind /\ Program(t) = Delete
           /\ Reconciles(t) => /\ task[t].name \in Slugs /\ task[t].spec \in ServiceSpec
                               /\ ApplyCall(task[t].spec, Returned(t) + 1, At(t))
                               /\ Program(t) = Apply(task[t].spec)
           /\ At(t) \in Call
           /\ Returned(t) \in Nat /\ Returned(t) + 1 \in 1..Len(Program(t))
<1>1. TypeOK /\ TasksAreSound BY DEF ObjectsInv
<1>2. task[t].todo # <<>> BY <1>1, CallTakes
<1>3. Returned(t) \in Nat /\ Returned(t) + 1 \in 1..Len(Program(t)) BY <1>1, <1>2, AtCall
<1>4. /\ ~Reconciles(t) /\ task[t].name # Namespace => Program(t) = Delete
      /\ Reconciles(t) => Program(t) = Apply(task[t].spec)
    BY DEF Program
<1> QED BY <1>1, <1>2, <1>3, <1>4, CallsAre

(* What a call is to have done.                                               *)
Done(c, there) == c.kind \in Kind => /\ c.op = "put" => c.kind \in there
                                     /\ c.op = "drop" => c.kind \notin there

(* The call, and those before it, have had their effect.                      *)
LEMMA CallDone ==
    ASSUME ObjectsInv, NEW t \in Tasks, CallStep(t), task[t].name \in Slugs \ disturbed,
           NEW j \in 1..(Returned(t) + 1)
    PROVE  Done(Program(t)[j], objects'[task[t].name])
<1> DEFINE n == task[t].name
           c == At(t)
           d == Program(t)[j]
           r == Returned(t)
<1>1. /\ Writes(t, n, c) /\ task[t] # NoTask BY Called
<1>2. r \in Nat /\ r + 1 \in 1..Len(Program(t)) /\ c \in Call BY CallKinds
<1>3. CASE j = r + 1
    <2>1. d = c BY <1>3 DEF At
    <2>2. Done(c, objects'[n]) BY <1>1 DEF Writes, Done
    <2> QED BY <2>1, <2>2
<1>4. CASE j # r + 1
    <2>1. j \in 1..r BY <1>2, <1>4
    <2>2. Done(d, objects[n]) BY <1>1, <2>1 DEF ObjectsInv, CallsHold, Done
    <2>3. CASE c.op = "wait" \/ c.kind \notin Kind
        <3>1. objects'[n] = objects[n] BY <1>1, <2>3 DEF Writes
        <3> QED BY <2>2, <3>1
    <2>4. CASE Reconciles(t) /\ c.op # "wait" /\ c.kind \in Kind
        <3>1. Program(t) = Apply(task[t].spec) /\ task[t].spec \in ServiceSpec BY <2>4, CallKinds
        <3>2. j < r + 1 /\ j \in 1..Len(Program(t)) BY <1>2, <2>1
        <3>3. d.kind # c.kind BY <1>2, <2>4, <3>1, <3>2, ApplyOnce DEF At
        <3> HIDE DEF c, d
        <3>4. c.op = "put" \/ c.op = "drop" BY <1>2, <2>4 DEF Call
        <3>5. objects'[n] = objects[n] \cup {c.kind} \/ objects'[n] = objects[n] \ {c.kind}
            BY <1>1, <2>4, <3>4 DEF Writes
        <3> QED BY <2>2, <3>3, <3>5 DEF Done, d
    <2>5. CASE ~Reconciles(t)
        <3>1. c.op = "drop" /\ c.kind \in Kind /\ Program(t) = Delete BY <2>5, CallKinds
        <3>2. j \in 1..8 BY <1>2, <2>1, <3>1, DeleteCalls
        <3>3. d.op = "drop" BY <3>1, <3>2, DeleteCalls
        <3>4. objects'[n] = objects[n] \ {c.kind} BY <1>1, <3>1 DEF Writes
        <3> HIDE DEF c, d
        <3> QED BY <2>2, <3>3, <3>4 DEF Done, d
    <2> QED BY <2>3, <2>4, <2>5
<1> QED BY <1>3, <1>4

(* Types, programs and rows.                                                  *)
LEMMA CallKeepsTypes ==
    ASSUME ObjectsInv, NEW t \in Tasks, CallStep(t) PROVE TypeOK' /\ TasksAreSound' /\ RowsAreSound'
<1>1. TypeOK /\ TasksAreSound /\ RowsAreSound BY DEF ObjectsInv
<1>2. task[t].todo # <<>> /\ Advance(t) BY <1>1, CallTakes
<1>3. /\ task' \in [Tasks -> [name : Name, todo : Seq(Call), spec : ServiceSpec \cup {NoSpec}]]
      /\ live' \in [Slugs -> ServiceSpec \cup {NoSpec}]
      /\ TasksAreSound'
    BY <1>1, <1>2, AdvanceSteps
<1>4. objects' \in [Name -> SUBSET (Kind \cup {"policies"})] BY Called DEF Writes
<1>5. TypeOK'
    <2>1. \A w \in Slugs : objects'[w] \subseteq Kind
        <3> DEFINE c == At(t)
        <3> SUFFICES ASSUME NEW w \in Slugs PROVE objects'[w] \subseteq Kind OBVIOUS
        <3>1. objects[w] \subseteq Kind BY <1>1 DEF TypeOK
        <3>2. c.op \in {"put", "drop", "wait"} BY CallKinds DEF Call
        <3>3. Writes(t, task[t].name, c) BY Called
        <3> HIDE DEF c
        <3> QED BY <3>1, <3>2, <3>3 DEF Writes
    <2> QED BY <1>1, <1>3, <1>4, <2>1, Called DEF TypeOK
<1>6. RowsAreSound' BY <1>1, Called, SameRows DEF RowsAreSound
<1> QED BY <1>3, <1>5, <1>6

(* Only the deletion of the org lets a namespace go.                          *)
LEMMA CallKeepsNamespace ==
    ASSUME ObjectsInv, NEW t \in Tasks, CallStep(t) PROVE NamespaceIsSound'
<1> DEFINE n == task[t].name
           c == At(t)
<1>1. NamespaceIsSound /\ AppliedAlone /\ TypeOK BY DEF ObjectsInv
<1>2. /\ Writes(t, n, c) /\ Moves(t, n) /\ n \in Name /\ task[t] # NoTask /\ NobodyStarts
      /\ org' = org /\ pending' = pending /\ disturbed' = disturbed
      /\ ns' \in {"absent", "active", "terminating"}
      /\ \A u \in Tasks : u # t => task'[u] = task[u]
    BY Called
<1>3. Reconciles(t) => n \in Slugs BY CallKinds
<1>4. c \in Call /\ ns \in {"absent", "active", "terminating"} BY <1>1, CallKinds DEF TypeOK
<1>5. n = Namespace => Active(Namespace) BY <1>2 DEF Active
<1>6. \A m : Active(m)' => Active(m) BY <1>2, StillRunning
<1> HIDE DEF n, c
<1>7. org' = "exists" => ns' # "terminating" /\ Namespace \notin pending' /\ ~Active(Namespace)'
    BY <1>1, <1>2, <1>5, <1>6 DEF NamespaceIsSound, Moves
<1>8. ns' = "absent" => \A m \in Name : objects'[m] = {}
    <2> SUFFICES ASSUME ns' = "absent", NEW m \in Name PROVE objects'[m] = {} OBVIOUS
    <2>1. ns = "absent" BY <1>2 DEF Moves
    <2> QED BY <1>1, <1>2, <2>1 DEF NamespaceIsSound, Writes
<1>9. ns' # "absent" => Slugs # {} BY <1>1, <1>2, <1>3 DEF NamespaceIsSound, Moves
<1>10. org' = "deleted" /\ disturbed' = {} /\ ns' = "active" =>
          Namespace \in pending' \/ Active(Namespace)'
    <2> SUFFICES ASSUME org' = "deleted", disturbed' = {}, ns' = "active"
                 PROVE Namespace \in pending' \/ Active(Namespace)'
        OBVIOUS
    <2>1. ~Reconciles(t) BY <1>1, <1>2 DEF AppliedAlone
    <2>2. ns = "active" BY <1>2, <2>1 DEF Moves
    <2>3. Namespace \in pending \/ Active(Namespace) BY <1>1, <1>2, <2>2 DEF NamespaceIsSound
    <2>4. ASSUME Active(Namespace) PROVE Active(Namespace)'
        <3>1. PICK u \in Tasks : task[u] # NoTask /\ task[u].name = Namespace BY <2>4 DEF Active
        <3>2. u # t BY <1>2, <3>1 DEF Moves, n
        <3> QED BY <1>2, <3>1, <3>2 DEF Active
    <2> QED BY <1>2, <2>3, <2>4
<1> QED BY <1>7, <1>8, <1>9, <1>10 DEF NamespaceIsSound

(* The policies come second in an Apply, before anything that runs.           *)
LEMMA CallKeepsPolicies ==
    ASSUME ObjectsInv, NEW t \in Tasks, CallStep(t) PROVE PoliciesPrecede' /\ Isolated'
<1> DEFINE n == task[t].name
           c == At(t)
           r == Returned(t)
<1>1. PoliciesPrecede /\ Isolated BY DEF ObjectsInv
<1>2. /\ Writes(t, n, c) /\ NobodyStarts /\ org' = org /\ r \in Nat
      /\ GoesOn(t) \/ Ends(t)
      /\ \A u \in Tasks : u # t => task'[u] = task[u]
    BY Called
<1>3. objects[Namespace] \subseteq objects'[Namespace] BY <1>2 DEF Writes
<1>4. PoliciesPrecede'
    <2> SUFFICES ASSUME org = "exists", NEW u \in Tasks, Reconciles(u)', Returned(u)' >= 2
                 PROVE "policies" \in objects'[Namespace]
        BY <1>2 DEF PoliciesPrecede
    <2>1. Reconciles(u) BY <1>2, StillRunning
    <2>2. CASE u # t
        <3>1. Returned(u) >= 2 BY <1>2, <2>2, SameTask
        <3> QED BY <1>1, <1>3, <2>1, <3>1 DEF PoliciesPrecede
    <2>3. CASE u = t
        <3>1. task'[t] # NoTask BY <2>3, NotRunning
        <3>2. Returned(t)' = r + 1 BY <1>2, <3>1 DEF GoesOn, Ends
        <3>3. CASE r >= 2 BY <1>1, <1>3, <2>1, <2>3, <3>3 DEF PoliciesPrecede
        <3>4. CASE ~(r >= 2)
            <4>1. r = 1 BY <1>2, <2>3, <3>2, <3>4
            <4>2. Program(t) = Apply(task[t].spec) /\ task[t].spec \in ServiceSpec
                BY <2>1, <2>3, CallKinds
            <4>3. c = Put("policies") BY <4>1, <4>2, ApplyCalls DEF At
            <4>4. c.kind = "policies" BY <4>3 DEF Put
            <4> QED BY <1>2, <4>4 DEF Writes
        <3> QED BY <3>3, <3>4
    <2> QED BY <2>2, <2>3
<1>5. Isolated'
    <2> SUFFICES ASSUME org = "exists", NEW w \in Slugs, Runs(w)'
                 PROVE "policies" \in objects'[Namespace]
        BY <1>2 DEF Isolated
    <2>1. CASE Runs(w) BY <1>1, <1>3, <2>1 DEF Isolated
    <2>2. CASE ~Runs(w)
        <3>1. PICK k \in {"deployment", "cronjob"} : k \in objects'[w] /\ k \notin objects[w]
            BY <2>2 DEF Runs
        <3>2. c \in Call /\ k \in Kind BY CallKinds DEF Kind
        <3> HIDE DEF c, n, r
        <3>3. n = w /\ c.kind = k /\ c.op = "put"
            <4>1. n = w BY <1>2, <3>1 DEF Writes
            <4>2. c.op \in {"put", "drop", "wait"} BY <3>2 DEF Call
            <4> QED BY <1>2, <3>1, <3>2, <4>1, <4>2 DEF Writes
        <3>4. Reconciles(t) /\ ApplyCall(task[t].spec, r + 1, c) BY <3>3, CallKinds DEF c, r
        <3>5. r + 1 > 3 BY <3>3, <3>4 DEF ApplyCall
        <3>6. r >= 2 BY <1>2, <3>5
        <3> QED BY <1>1, <1>3, <3>4, <3>6 DEF PoliciesPrecede, r
    <2> QED BY <2>1, <2>2
<1> QED BY <1>4, <1>5

(* A call touches no row.                                                     *)
LEMMA CallKeepsSlugs ==
    ASSUME ObjectsInv, NEW t \in Tasks, CallStep(t) PROVE SlugIsUsedOnce' /\ AppliedAlone'
<1>1. SlugIsUsedOnce /\ AppliedAlone BY DEF ObjectsInv
<1>2. /\ NobodyStarts /\ org' = org /\ services' = services /\ listed' = listed
      /\ pending' = pending /\ disturbed' = disturbed
    BY Called
<1>3. /\ LiveSlugs' = LiveSlugs
      /\ \A p : SlugsOf(p)' = SlugsOf(p)
      /\ \A i : Exists(i)' <=> Exists(i)
    BY <1>2, SameRows
<1>4. \A u \in Tasks : /\ TearsDown(u)' => TearsDown(u)
                       /\ Reconciles(u)' => Reconciles(u)
    BY <1>2, StillRunning
<1>5. \A u \in Tasks : task'[u] # NoTask => task[u] # NoTask /\ task'[u].name = task[u].name
                                            /\ task'[u].spec = task[u].spec
    BY <1>2 DEF NobodyStarts
<1>6. \A u \in Tasks : (TearsDown(u)' \/ Reconciles(u)') => task'[u] # NoTask BY NotRunning
<1>7. SlugIsUsedOnce' BY <1>1, <1>2, <1>3, <1>4, <1>5, <1>6 DEF SlugIsUsedOnce
<1>8. AppliedAlone' BY <1>1, <1>2, <1>3, <1>4, <1>5, <1>6 DEF AppliedAlone
<1> QED BY <1>7, <1>8

(* What is live after a call was so before, or is the goroutine's own.        *)
LEMMA CallLeavesLive ==
    ASSUME ObjectsInv, NEW t \in Tasks, CallStep(t),
           NEW w \in Slugs \ disturbed, live'[w] # NoSpec
    PROVE  \/ Ends(t) /\ Reconciles(t) /\ w = task[t].name
           \/ live'[w] = live[w] /\ task[t].name # w /\ task[t].name # Namespace
<1>1. (GoesOn(t) \/ Ends(t)) /\ task[t] # NoTask BY Called
<1>2. CASE ~(Ends(t) /\ Reconciles(t) /\ w = task[t].name)
    <2>1. live'[w] = live[w] BY <1>1, <1>2 DEF GoesOn, Ends
    <2>2. ~Active(w) /\ ~Active(Namespace) BY <2>1 DEF ObjectsInv, LiveIsLeftAlone
    <2> QED BY <1>1, <2>1, <2>2 DEF Active
<1> QED BY <1>2

(* Who has applied a workload alone leaves it alone.                          *)
LEMMA CallKeepsLive ==
    ASSUME ObjectsInv, NEW t \in Tasks, CallStep(t) PROVE LiveIsLeftAlone'
<1> DEFINE n == task[t].name
<1>1. LiveIsLeftAlone /\ AppliedAlone BY DEF ObjectsInv
<1>2. /\ Moves(t, n) /\ NobodyStarts /\ disturbed' = disturbed /\ org' = org
      /\ \A u \in Tasks : u # t => task'[u] = task[u]
    BY Called
<1>3. NamespaceIsSound' BY CallKeepsNamespace
<1> SUFFICES ASSUME NEW w \in Slugs \ disturbed, live'[w] # NoSpec
             PROVE ns' # "terminating" /\ ~Active(w)' /\ ~Active(Namespace)'
    BY <1>2 DEF LiveIsLeftAlone
<1>4. CASE Ends(t) /\ Reconciles(t) /\ w = n
    <2>1. /\ org = "exists"
          /\ \A u \in Tasks : u # t /\ task[u] # NoTask => task[u].name \notin {n, Namespace}
        BY <1>1, <1>4 DEF AppliedAlone
    <2>2. task'[t] = NoTask BY <1>4 DEF Ends
    <2>3. ns' # "terminating" /\ ~Active(Namespace)' BY <1>2, <1>3, <2>1 DEF NamespaceIsSound
    <2>4. ~Active(w)' BY <1>2, <1>4, <2>1, <2>2 DEF Active
    <2> QED BY <2>3, <2>4
<1>5. CASE live'[w] = live[w] /\ n # w /\ n # Namespace
    <2>1. ns # "terminating" /\ ~Active(w) /\ ~Active(Namespace)
        BY <1>1, <1>5 DEF LiveIsLeftAlone
    <2>2. ~Active(w)' /\ ~Active(Namespace)' BY <1>2, <2>1, StillRunning
    <2>3. ns' # "terminating" BY <1>2, <1>5, <2>1 DEF Moves
    <2> QED BY <2>2, <2>3
<1> QED BY <1>4, <1>5, CallLeavesLive

(* A goroutine that applies a slug that is not marked does so for its service.*)
LEMMA AppliedFor ==
    ASSUME ObjectsInv, NEW t \in Tasks, Reconciles(t), task[t].name \notin disturbed
    PROVE  /\ task[t].name \in LiveSlugs
           /\ \A i \in ServiceId : Exists(i) /\ services[i].slug = task[t].name =>
                 services[i].spec.type = task[t].spec.type
           /\ \E i \in ServiceId : Exists(i) /\ services[i].slug = task[t].name
<1>1. TypeOK /\ TasksAreSound /\ AppliedAlone /\ SlugIsUsedOnce BY DEF ObjectsInv
<1>2. task[t].name \in Slugs \ disturbed BY <1>1 DEF TasksAreSound
<1>3. PICK i \in ServiceId : /\ Exists(i) /\ services[i].slug = task[t].name
                             /\ services[i].spec.type = task[t].spec.type
    BY <1>1 DEF AppliedAlone
<1>4. task[t].name \in LiveSlugs BY <1>1, <1>3, RowShape, SlugsInUse
<1>5. \A j \in ServiceId : Exists(j) /\ services[j].slug = task[t].name => i = j
    BY <1>1, <1>2, <1>3 DEF SlugIsUsedOnce
<1> QED BY <1>3, <1>4, <1>5

(* An Apply writes what the type of its service has.                          *)
LEMMA CallKeepsFit ==
    ASSUME ObjectsInv, NEW t \in Tasks, CallStep(t) PROVE TypesFit'
<1> DEFINE n == task[t].name
           c == At(t)
<1>1. TypesFit /\ TypeOK BY DEF ObjectsInv
<1>2. Writes(t, n, c) /\ services' = services /\ disturbed' = disturbed BY Called
<1>3. \A i : Exists(i)' <=> Exists(i) BY <1>2, SameRows
<1> SUFFICES ASSUME NEW i \in ServiceId, Exists(i), services[i].slug \notin disturbed
             PROVE objects'[services[i].slug] \subseteq Fits(services[i].spec.type)
    BY <1>2, <1>3 DEF TypesFit
<1> DEFINE w == services[i].slug
<1>4. objects[w] \subseteq Fits(services[i].spec.type) BY <1>1 DEF TypesFit
<1>5. w \in Slugs BY <1>1, RowShape
<1>6. CASE w # n
    <2>1. objects'[w] = objects[w] BY <1>2, <1>5, <1>6 DEF Writes
    <2> QED BY <1>4, <2>1
<1>7. CASE w = n /\ Reconciles(t)
    <2>1. /\ services[i].spec.type = task[t].spec.type /\ task[t].spec \in ServiceSpec
          /\ ApplyCall(task[t].spec, Returned(t) + 1, c)
        BY <1>7, AppliedFor, CallKinds
    <2>2. c \in Call BY CallKinds
    <2>3. Desired(task[t].spec) \subseteq Fits(services[i].spec.type) BY <2>1, DesiredFits
    <2> HIDE DEF c, n, w
    <2>4. c.op \in {"put", "drop", "wait"} BY <2>2 DEF Call
    <2>5. objects'[n] \subseteq objects[n] \cup Desired(task[t].spec)
        BY <1>2, <1>5, <1>7, <2>1, <2>4 DEF Writes, ApplyCall
    <2>6. objects'[w] \subseteq Fits(services[i].spec.type) BY <1>4, <1>7, <2>3, <2>5
    <2> QED BY <2>6 DEF w
<1>8. CASE w = n /\ ~Reconciles(t)
    <2>1. c.op = "drop" /\ c.kind \in Kind BY <1>5, <1>8, CallKinds
    <2>2. objects'[n] = objects[n] \ {c.kind} BY <1>2, <1>5, <1>8, <2>1 DEF Writes
    <2> QED BY <1>4, <1>8, <2>2
<1> QED BY <1>6, <1>7, <1>8

(* After the last call of a Delete nothing is left of the workload.           *)
LEMMA DeleteClears ==
    ASSUME ObjectsInv, NEW t \in Tasks, CallStep(t), Ends(t), ~Reconciles(t),
           task[t].name \in Slugs \ disturbed
    PROVE  objects'[task[t].name] = {}
<1> DEFINE n == task[t].name
<1>1. Program(t) = Delete BY CallKinds
<1>2. Returned(t) + 1 = 8 BY <1>1, DeleteCalls DEF Ends
<1>3. objects'[n] \subseteq Kind BY CallKeepsTypes DEF TypeOK
<1>4. \A k \in Kind : k \notin objects'[n]
    <2> SUFFICES ASSUME NEW k \in Kind PROVE k \notin objects'[n] OBVIOUS
    <2>1. PICK j \in 1..8 : Delete[j].kind = k /\ Delete[j].op = "drop" BY DeleteCalls
    <2>2. Done(Delete[j], objects'[n]) BY <1>1, <1>2, CallDone
    <2> QED BY <2>1, <2>2 DEF Done
<1> QED BY <1>3, <1>4

(* The last call of a teardown leaves nothing to clean up.                    *)
LEMMA CallKeepsClean ==
    ASSUME ObjectsInv, NEW t \in Tasks, CallStep(t) PROVE GoneIsClean'
<1> DEFINE n == task[t].name
           c == At(t)
<1>1. GoneIsClean /\ TypeOK BY DEF ObjectsInv
<1>2. /\ Writes(t, n, c) /\ Moves(t, n) /\ n \in Name /\ task[t] # NoTask
      /\ services' = services /\ disturbed' = disturbed /\ pending' = pending
      /\ ns' \in {"absent", "active", "terminating"}
      /\ GoesOn(t) \/ Ends(t)
      /\ \A u \in Tasks : u # t => task'[u] = task[u]
    BY Called
<1>3. LiveSlugs' = LiveSlugs BY <1>2, SameRows
<1>4. NamespaceIsSound' BY CallKeepsNamespace
<1> SUFFICES ASSUME NEW w \in Slugs \ disturbed
             PROVE \/ w \in LiveSlugs \cup pending \/ Active(w)'
                   \/ Namespace \in pending \/ Active(Namespace)' \/ ns' = "terminating"
                   \/ objects'[w] = {}
    BY <1>2, <1>3 DEF GoneIsClean
<1>5. \A m : Active(m) /\ (GoesOn(t) \/ m # n) => Active(m)'
    <2> SUFFICES ASSUME NEW m, Active(m), GoesOn(t) \/ m # n PROVE Active(m)' OBVIOUS
    <2>1. PICK u \in Tasks : task[u] # NoTask /\ task[u].name = m BY DEF Active
    <2>2. task'[u] # NoTask /\ task'[u].name = m BY <1>2, <2>1 DEF GoesOn
    <2> QED BY <2>2 DEF Active
<1>6. Active(n) BY <1>2 DEF Active
<1>7. CASE w = n
    <2>1. CASE GoesOn(t) BY <1>5, <1>6, <1>7, <2>1
    <2>2. CASE Ends(t) /\ Reconciles(t) BY <1>7, <2>2, AppliedFor
    <2>3. CASE Ends(t) /\ ~Reconciles(t) BY <1>7, <2>3, DeleteClears
    <2> QED BY <1>2, <2>1, <2>2, <2>3
<1>8. CASE w # n /\ n = Namespace
    <2>1. ns' = "absent" => objects'[w] = {} BY <1>4 DEF NamespaceIsSound
    <2> QED BY <1>2, <1>8, <2>1 DEF Moves
<1>9. CASE w # n /\ n # Namespace
    <2>1. objects'[w] = objects[w] BY <1>2, <1>9 DEF Writes
    <2>2. ns = "terminating" => ns' = "terminating" BY <1>2 DEF Moves
    <2>3. Active(w) => Active(w)' BY <1>5, <1>9
    <2>4. Active(Namespace) => Active(Namespace)' BY <1>5, <1>9
    <2> QED BY <1>1, <2>1, <2>2, <2>3, <2>4 DEF GoneIsClean
<1> QED BY <1>7, <1>8, <1>9

(* No call undoes what another goroutine, or an earlier call, has done.       *)
LEMMA CallKeepsCalls ==
    ASSUME ObjectsInv, NEW t \in Tasks, CallStep(t) PROVE CallsHold'
<1> DEFINE n == task[t].name
           c == At(t)
<1>1. CallsHold /\ TypeOK /\ TasksAreSound /\ AppliedAlone BY DEF ObjectsInv
<1>2. /\ Writes(t, n, c) /\ disturbed' = disturbed /\ NobodyStarts /\ task[t] # NoTask
      /\ GoesOn(t) \/ Ends(t)
      /\ \A u \in Tasks : u # t => task'[u] = task[u]
    BY Called
<1> SUFFICES ASSUME NEW u \in Tasks, task'[u] # NoTask, task'[u].name \in Slugs \ disturbed,
                    NEW j \in 1..Returned(u)'
             PROVE Done(Program(u)'[j], objects'[task'[u].name])
    BY <1>2 DEF CallsHold, Done
<1>3. /\ Program(u)' = Program(u) /\ task[u] # NoTask /\ task'[u].name = task[u].name
    BY <1>2, StillRunning DEF NobodyStarts
<1>4. CASE u = t
    <2>1. Returned(t)' = Returned(t) + 1 BY <1>2, <1>4 DEF GoesOn, Ends
    <2> QED BY <1>3, <1>4, <2>1, CallDone
<1>5. CASE u # t
    <2>1. Returned(u)' = Returned(u) BY <1>2, <1>5, SameTask
    <2>2. Done(Program(u)[j], objects[task[u].name])
        BY <1>1, <1>3, <2>1 DEF CallsHold, Done
    <2>3. CASE task[u].name # n
        <3>1. objects'[task[u].name] = objects[task[u].name] BY <1>2, <1>3, <2>3 DEF Writes
        <3> QED BY <1>3, <2>2, <3>1
    <2>4. CASE task[u].name = n
        <3>1. n \in Slugs \ disturbed BY <1>3, <2>4
        <3>2. ~Reconciles(u) /\ ~Reconciles(t) BY <1>1, <1>2, <1>3, <1>5, <2>4, <3>1 DEF AppliedAlone
        <3>3. c.op = "drop" /\ c.kind \in Kind BY <3>1, <3>2, CallKinds
        <3>4. objects'[n] = objects[n] \ {c.kind} BY <1>2, <3>1, <3>3 DEF Writes
        <3>5. Program(u) = Delete BY <2>4, <3>1, <3>2 DEF Program
        <3>6. Returned(u) = 8 - Len(task[u].todo) /\ Len(task[u].todo) \in Nat
            BY <1>1, <3>5, TaskShape, DeleteCalls DEF Returned
        <3>7. j \in 1..8 BY <2>1, <3>6
        <3>8. Delete[j].op = "drop" BY <3>7, DeleteCalls
        <3> HIDE DEF c
        <3> QED BY <1>3, <2>2, <2>4, <3>4, <3>5, <3>8 DEF Done
    <2> QED BY <2>3, <2>4
<1> QED BY <1>4, <1>5

(* The Secret is written before what refers to it, and deleted after it.      *)
LEMMA CallKeepsSecret ==
    ASSUME ObjectsInv, NEW t \in Tasks, CallStep(t) PROVE SecretRefSatisfied'
<1> DEFINE n == task[t].name
           c == At(t)
           r == Returned(t)
<1>1. SecretRefSatisfied /\ CallsHold BY DEF ObjectsInv
<1>2. Writes(t, n, c) /\ disturbed' = disturbed /\ r \in Nat /\ task[t] # NoTask BY Called
<1> SUFFICES ASSUME NEW w \in Slugs \ disturbed, Runs(w)' PROVE "env" \in objects'[w]
    BY <1>2 DEF SecretRefSatisfied
<1>3. Runs(w) => "env" \in objects[w] BY <1>1 DEF SecretRefSatisfied
<1>4. CASE w # n
    <2>1. objects'[w] = objects[w] BY <1>2, <1>4 DEF Writes
    <2> QED BY <1>3, <2>1 DEF Runs
<1>5. CASE w = n /\ Reconciles(t)
    <2>1. /\ task[t].spec \in ServiceSpec /\ Program(t) = Apply(task[t].spec)
          /\ ApplyCall(task[t].spec, r + 1, c) /\ c \in Call
        BY <1>5, CallKinds
    <2>2. c.op \in {"put", "drop", "wait"} BY <2>1 DEF Call
    <2>3. CASE Runs(w)
        <3> HIDE DEF c, n
        <3>1. c.op = "drop" => c.kind # "env" BY <2>1 DEF ApplyCall
        <3> QED BY <1>2, <1>3, <1>5, <2>2, <2>3, <3>1 DEF Writes
    <2>4. CASE ~Runs(w)
        <3>1. PICK k \in {"deployment", "cronjob"} : k \in objects'[w] /\ k \notin objects[w]
            BY <2>4 DEF Runs
        <3> HIDE DEF c, n, r
        <3>2. c.kind = k BY <1>2, <1>5, <2>2, <3>1 DEF Writes
        <3>3. r + 1 > 3 BY <2>1, <3>2 DEF ApplyCall
        <3>4. 3 \in 1..(r + 1) BY <1>2, <3>3
        <3>5. Apply(task[t].spec)[3] = Put("env") BY <2>1, ApplyCalls
        <3>6. Done(Put("env"), objects'[w]) BY <1>5, <2>1, <3>4, <3>5, CallDone DEF n, r
        <3> QED BY <3>6 DEF Done, Put, Kind
    <2> QED BY <2>3, <2>4
<1>6. CASE w = n /\ ~Reconciles(t)
    <2>1. /\ c.op = "drop" /\ c.kind \in Kind /\ Program(t) = Delete
          /\ r + 1 \in 1..Len(Program(t))
        BY <1>6, CallKinds
    <2>2. objects'[w] = objects[w] \ {c.kind} BY <1>2, <1>6, <2>1 DEF Writes
    <2>3. "env" \in objects[w] BY <1>3, <2>2 DEF Runs
    <2>4. c.kind # "env"
        <3> SUFFICES ASSUME c.kind = "env" PROVE FALSE OBVIOUS
        <3>1. r + 1 = 5 BY <2>1, DeleteCalls DEF At
        <3>2. 1 \in 1..(r + 1) /\ 2 \in 1..(r + 1) BY <3>1
        <3>3. Done(Delete[1], objects'[w]) /\ Done(Delete[2], objects'[w])
            BY <1>6, <2>1, <3>2, CallDone
        <3>4. /\ Delete[1].kind = "deployment" /\ Delete[2].kind = "cronjob"
              /\ Delete[1].op = "drop" /\ Delete[2].op = "drop"
            BY DeleteCalls
        <3>5. "deployment" \notin objects'[w] /\ "cronjob" \notin objects'[w]
            BY <3>3, <3>4 DEF Done, Kind
        <3> QED BY <3>5 DEF Runs
    <2> QED BY <2>2, <2>3, <2>4
<1> QED BY <1>4, <1>5, <1>6

(* At the end of an Apply, every kind of object has been put or dropped.      *)
LEMMA CallKeepsDesired ==
    ASSUME ObjectsInv, NEW t \in Tasks, CallStep(t) PROVE LiveIsDesired'
<1> DEFINE n == task[t].name
           c == At(t)
<1>1. LiveIsDesired /\ TypeOK BY DEF ObjectsInv
<1>2. /\ Writes(t, n, c) /\ disturbed' = disturbed /\ services' = services BY Called
<1> SUFFICES ASSUME NEW w \in Slugs \ disturbed, live'[w] # NoSpec
             PROVE objects'[w] \ {"tls"} = Desired(live'[w])
    BY <1>2 DEF LiveIsDesired, Desired, hasDisk, autoscaled, IsRoutable
<1>3. CASE live'[w] = live[w] /\ n # w
    <2>1. objects'[w] = objects[w] BY <1>2, <1>3 DEF Writes
    <2>2. objects[w] \ {"tls"} = Desired(live[w]) BY <1>1, <1>3 DEF LiveIsDesired
    <2> QED BY <1>3, <2>1, <2>2
<1>4. CASE Ends(t) /\ Reconciles(t) /\ w = n
    <2> DEFINE s == task[t].spec
    <2>1. live'[w] = s BY <1>4 DEF Ends
    <2>2. s \in ServiceSpec /\ Program(t) = Apply(s) BY <1>4, CallKinds
    <2>3. objects'[w] \subseteq Fits(s.type)
        <3>1. PICK i \in ServiceId : Exists(i) /\ services[i].slug = w BY <1>4, AppliedFor
        <3>2. services[i].spec.type = s.type BY <1>4, <3>1, AppliedFor
        <3>3. Exists(i)' BY <1>2, <3>1, SameRows
        <3> QED BY <1>2, <3>1, <3>2, <3>3, CallKeepsFit DEF TypesFit
    <2>4. \A j \in 1..Len(Apply(s)) : Done(Apply(s)[j], objects'[w]) /\ ApplyCall(s, j, Apply(s)[j])
        <3>1. Returned(t) + 1 = Len(Apply(s)) BY <1>4, <2>2 DEF Ends
        <3> QED BY <1>4, <2>2, <3>1, CallDone, ApplyCalls
    <2> HIDE DEF s
    <2>5. \A k \in Fits(s.type) \ {"tls"} : k \in objects'[w] <=> k \in Desired(s)
        <3> SUFFICES ASSUME NEW k \in Fits(s.type), k # "tls"
                     PROVE k \in objects'[w] <=> k \in Desired(s)
            OBVIOUS
        <3>1. PICK j \in 1..Len(Apply(s)) : Apply(s)[j].kind = k /\ Apply(s)[j].op # "wait"
            BY <2>2, ApplyDecides DEF s
        <3> DEFINE d == Apply(s)[j]
        <3>2. Done(d, objects'[w]) /\ ApplyCall(s, j, d) /\ d.kind = k /\ d.op # "wait"
            BY <2>4, <3>1
        <3>3. k \in Kind BY <2>2, DesiredFits DEF s
        <3> HIDE DEF d
        <3>4. d.op \in {"put", "drop", "wait"} BY <3>2 DEF ApplyCall, Call
        <3> QED BY <3>2, <3>3, <3>4 DEF Done, ApplyCall
    <2>6. Desired(s) \subseteq Fits(s.type) \ {"tls"} BY <2>2, DesiredFits DEF s
    <2>7. objects'[w] \ {"tls"} = Desired(s) BY <2>3, <2>5, <2>6
    <2> QED BY <2>1, <2>7 DEF s
<1> QED BY <1>3, <1>4, CallLeavesLive

LEMMA CallKeeps ==
    ASSUME ObjectsInv, NEW t \in Tasks, CallStep(t) PROVE ObjectsInv'
BY CallKeepsTypes, CallKeepsNamespace, CallKeepsPolicies, CallKeepsSlugs, CallKeepsLive,
   CallKeepsFit, CallKeepsClean, CallKeepsCalls, CallKeepsSecret, CallKeepsDesired
   DEF ObjectsInv
------------------------------------------------------------------------------
(* A goroutine that starts keeps the invariant.                               *)

Begins(t, n) ==
    /\ task[t] = NoTask /\ task'[t] # NoTask /\ task'[t].name = n
    /\ \A u \in Tasks : u # t => task'[u] = task[u]
    /\ Returned(t)' = 0
    /\ \A w \in Slugs : live'[w] = IF w \in Scope(n) THEN NoSpec ELSE live[w]
    /\ rowVars' = rowVars /\ objects' = objects /\ ns' = ns /\ disturbed \subseteq disturbed'
    /\ TypeOK' /\ TasksAreSound'

(* A goroutine starts at the first call of its program.                       *)
LEMMA StartBegins ==
    ASSUME TypeOK, TasksAreSound, NEW t \in Tasks, NEW n \in Name, NEW program, NEW s,
           Start(t, n, program, s),
           \/ s \in ServiceSpec /\ program = Apply(s) /\ n \in Slugs
           \/ s = NoSpec /\ program = IF n = Namespace THEN DeleteNamespace ELSE Delete
    PROVE  /\ task[t] = NoTask /\ task'[t] # NoTask /\ task'[t].name = n /\ task'[t].spec = s
           /\ \A u \in Tasks : u # t => task'[u] = task[u]
           /\ Returned(t)' = 0
           /\ \A w \in Slugs : live'[w] = IF w \in Scope(n) THEN NoSpec ELSE live[w]
           /\ TasksAreSound'
           /\ task' \in [Tasks -> [name : Name, todo : Seq(Call), spec : ServiceSpec \cup {NoSpec}]]
           /\ live' \in [Slugs -> ServiceSpec \cup {NoSpec}]
<1> DEFINE new == [name |-> n, todo |-> program, spec |-> s]
<1>1. program \in Seq(Call) /\ Len(program) \in 1..9
    BY ApplyCalls, DeleteCalls, DeleteNamespaceCalls
<1>2. /\ new \in [name : Name, todo : Seq(Call), spec : ServiceSpec \cup {NoSpec}]
      /\ new.name = n /\ new.todo = program /\ new.spec = s
    BY <1>1
<1>3. new # NoTask BY <1>1 DEF NoTask
<1> HIDE DEF new
<1>4. task[t] = NoTask /\ task' = [task EXCEPT ![t] = new]
      /\ live' = [w \in Slugs |-> IF w \in Scope(n) THEN NoSpec ELSE live[w]]
    BY DEF Start, new
<1>5. /\ task'[t] = new /\ \A u \in Tasks : u # t => task'[u] = task[u]
      /\ task' \in [Tasks -> [name : Name, todo : Seq(Call), spec : ServiceSpec \cup {NoSpec}]]
    BY <1>2, <1>4 DEF TypeOK
<1>6. live' \in [Slugs -> ServiceSpec \cup {NoSpec}] BY <1>4 DEF TypeOK
<1>7. Program(t)' = program
    BY <1>2, <1>5, NoSpecIsNone DEF Program, Reconciles
<1>8. Returned(t)' = 0 BY <1>1, <1>2, <1>5, <1>7 DEF Returned
<1>9. TasksAreSound'
    <2> SUFFICES ASSUME NEW u \in Tasks
                 PROVE /\ Reconciles(u)' => task'[u].name \in Slugs
                       /\ task'[u].todo = <<>> => task'[u] = NoTask
                       /\ Returned(u)' >= 0
                       /\ \A j \in 1..Len(task'[u].todo) :
                             task'[u].todo[j] = Program(u)'[Returned(u)' + j]
        BY DEF TasksAreSound
    <2>1. CASE u # t BY <1>5, <2>1, SameTask DEF TasksAreSound
    <2>2. CASE u = t
        <3>1. Reconciles(u)' => n \in Slugs BY <1>2, <1>5, <2>2 DEF Reconciles
        <3>2. program # <<>>
            <4>1. Len(<<>>) = 0 OBVIOUS
            <4>2. \A m \in 1..9 : m # 0 OBVIOUS
            <4>3. Len(program) # 0 BY <1>1, <4>2
            <4> QED BY <4>1, <4>3
        <3>3. task'[u].todo # <<>> BY <1>2, <1>5, <2>2, <3>2
        <3> QED BY <1>1, <1>2, <1>5, <1>7, <1>8, <2>2, <3>1, <3>3
    <2> QED BY <2>1, <2>2
<1> QED BY <1>2, <1>3, <1>4, <1>5, <1>6, <1>8, <1>9

(* What holds whatever is started.                                            *)
LEMMA BeginKeeps ==
    ASSUME ObjectsInv, NEW t \in Tasks, NEW n \in Name, Begins(t, n)
    PROVE  /\ TypeOK' /\ TasksAreSound' /\ RowsAreSound' /\ PoliciesPrecede'
           /\ LiveIsLeftAlone' /\ TypesFit' /\ CallsHold' /\ Isolated'
           /\ SecretRefSatisfied' /\ LiveIsDesired'
           /\ \A m : Active(m)' <=> Active(m) \/ m = n
<1>1. /\ task[t] = NoTask /\ task'[t] # NoTask /\ task'[t].name = n
      /\ \A u \in Tasks : u # t => task'[u] = task[u]
      /\ Returned(t)' = 0
      /\ \A w \in Slugs : live'[w] = IF w \in Scope(n) THEN NoSpec ELSE live[w]
      /\ org' = org /\ projects' = projects /\ services' = services /\ nextId' = nextId
      /\ objects' = objects /\ ns' = ns /\ disturbed \subseteq disturbed'
    BY DEF Begins, rowVars
<1>2. /\ LiveSlugs' = LiveSlugs
      /\ \A i : Exists(i)' <=> Exists(i)
    BY <1>1, SameRows
<1>3. \A m : Active(m)' <=> Active(m) \/ m = n BY <1>1 DEF Active
<1>4. RowsAreSound' BY <1>1, <1>2 DEF ObjectsInv, RowsAreSound
<1>5. \A u \in Tasks : u # t => /\ Returned(u)' = Returned(u) /\ Program(u)' = Program(u)
                                /\ Reconciles(u)' <=> Reconciles(u)
    BY <1>1, SameTask
<1>6. PoliciesPrecede'
    <2> SUFFICES ASSUME org = "exists", NEW u \in Tasks, Reconciles(u)', Returned(u)' >= 2
                 PROVE "policies" \in objects[Namespace]
        BY <1>1 DEF PoliciesPrecede
    <2>1. u # t BY <1>1
    <2> QED BY <1>5, <2>1 DEF ObjectsInv, PoliciesPrecede
<1>7. \A w \in Slugs : live'[w] # NoSpec => live'[w] = live[w] /\ n # w /\ n # Namespace
    BY <1>1 DEF Scope
<1>8. LiveIsLeftAlone' BY <1>1, <1>3, <1>7 DEF ObjectsInv, LiveIsLeftAlone
<1>9. TypesFit' BY <1>1, <1>2 DEF ObjectsInv, TypesFit
<1>10. CallsHold'
    <2> SUFFICES ASSUME NEW u \in Tasks, task'[u] # NoTask, task'[u].name \in Slugs \ disturbed',
                        NEW j \in 1..Returned(u)'
                 PROVE Done(Program(u)'[j], objects[task'[u].name])
        BY <1>1 DEF CallsHold, Done
    <2>1. u # t BY <1>1
    <2> QED BY <1>1, <1>5, <2>1 DEF ObjectsInv, CallsHold, Done
<1>11. Isolated' BY <1>1 DEF ObjectsInv, Isolated, Runs
<1>12. SecretRefSatisfied' BY <1>1 DEF ObjectsInv, SecretRefSatisfied, Runs
<1>13. LiveIsDesired'
    <2> SUFFICES ASSUME NEW w \in Slugs \ disturbed, live'[w] # NoSpec
                 PROVE objects[w] \ {"tls"} = Desired(live'[w])
        BY <1>1 DEF LiveIsDesired, Desired, hasDisk, autoscaled, IsRoutable
    <2>1. objects[w] \ {"tls"} = Desired(live[w]) BY <1>7 DEF ObjectsInv, LiveIsDesired
    <2> QED BY <1>7, <2>1
<1> QED BY <1>3, <1>4, <1>6, <1>8, <1>9, <1>10, <1>11, <1>12, <1>13 DEF Begins

(* A reconcile starts alone on its workload, or marks it.                     *)
LEMMA ReconcileKeeps ==
    ASSUME ObjectsInv, NEW t \in Tasks, NEW i \in ServiceId, StartReconcile(t, i)
    PROVE  ObjectsInv'
<1> DEFINE w == services[i].slug
           s == services[i].spec
<1>1. TypeOK /\ TasksAreSound /\ RowsAreSound BY DEF ObjectsInv
<1>2. /\ Exists(i) /\ Start(t, w, Apply(s), s)
      /\ disturbed' = IF Active(w) \/ Active(Namespace) THEN disturbed \cup {w} ELSE disturbed
      /\ rowVars' = rowVars /\ pending' = pending /\ objects' = objects /\ ns' = ns
      /\ faults' = faults
    BY DEF StartReconcile, rowVars, clusterVars
<1>3. w \in Slugs /\ s \in ServiceSpec BY <1>1, <1>2, RowShape
<1>4. s # NoSpec BY <1>3, NoSpecIsNone
<1> HIDE DEF w, s
<1>5. /\ task[t] = NoTask /\ task'[t] # NoTask /\ task'[t].name = w /\ task'[t].spec = s
      /\ \A u \in Tasks : u # t => task'[u] = task[u]
      /\ Returned(t)' = 0
      /\ \A v \in Slugs : live'[v] = IF v \in Scope(w) THEN NoSpec ELSE live[v]
      /\ TasksAreSound'
      /\ task' \in [Tasks -> [name : Name, todo : Seq(Call), spec : ServiceSpec \cup {NoSpec}]]
      /\ live' \in [Slugs -> ServiceSpec \cup {NoSpec}]
    BY <1>1, <1>2, <1>3, StartBegins
<1>6. /\ org' = org /\ projects' = projects /\ services' = services /\ nextId' = nextId
      /\ listed' = listed
    BY <1>2 DEF rowVars
<1>7. TypeOK' BY <1>1, <1>2, <1>3, <1>5, <1>6 DEF TypeOK
<1>8. Begins(t, w) BY <1>2, <1>5, <1>7 DEF Begins
<1>9. \A m : Active(m)' <=> Active(m) \/ m = w BY <1>3, <1>8, BeginKeeps
<1>10. /\ LiveSlugs' = LiveSlugs
       /\ \A p : SlugsOf(p)' = SlugsOf(p)
       /\ \A j : Exists(j)' <=> Exists(j)
    BY <1>6, SameRows
<1>11. Reconciles(t)' /\ ~TearsDown(t)' BY <1>4, <1>5 DEF Reconciles, TearsDown
<1>12. \A u \in Tasks : u # t => (Reconciles(u)' <=> Reconciles(u)) /\ (TearsDown(u)' <=> TearsDown(u))
    BY <1>5, SameTask
<1>13. NamespaceIsSound'
    <2>1. NamespaceIsSound /\ w # Namespace BY <1>3 DEF ObjectsInv
    <2>2. disturbed' = {} => disturbed = {} BY <1>2
    <2> QED BY <1>2, <1>6, <1>9, <2>1, <2>2 DEF NamespaceIsSound
<1>14. SlugIsUsedOnce'
    <2>1. SlugIsUsedOnce BY DEF ObjectsInv
    <2>2. disturbed \subseteq disturbed' BY <1>2
    <2>3. \A v : (\E u \in Tasks : TearsDown(u)' /\ task'[u].name = v) =>
                 (\E u \in Tasks : TearsDown(u) /\ task[u].name = v)
        BY <1>5, <1>11, <1>12
    <2> QED BY <1>2, <1>6, <1>10, <2>1, <2>2, <2>3 DEF SlugIsUsedOnce
<1>15. AppliedAlone'
    <2> SUFFICES ASSUME NEW u \in Tasks, Reconciles(u)', task'[u].name \notin disturbed'
                 PROVE /\ org = "exists"
                       /\ \E j \in ServiceId : /\ Exists(j) /\ services[j].slug = task'[u].name
                                               /\ services[j].spec.type = task'[u].spec.type
                       /\ \A v \in Tasks : v # u /\ task'[v] # NoTask =>
                             task'[v].name \notin {task'[u].name, Namespace}
        BY <1>6, <1>10 DEF AppliedAlone
    <2>1. CASE u = t
        <3>1. ~Active(w) /\ ~Active(Namespace) BY <1>2, <1>5, <2>1
        <3>2. projects # {} BY <1>1, <1>2 DEF RowsAreSound
        <3>3. org = "exists" BY <1>1, <3>2 DEF RowsAreSound, TypeOK
        <3>4. /\ Exists(i) /\ services[i].slug = task'[u].name
              /\ services[i].spec.type = task'[u].spec.type
            BY <1>2, <1>5, <2>1 DEF w, s
        <3>5. \A v \in Tasks : v # u /\ task'[v] # NoTask =>
                             task'[v].name \notin {task'[u].name, Namespace}
            BY <1>5, <2>1, <3>1 DEF Active
        <3> QED BY <3>3, <3>4, <3>5
    <2>2. CASE u # t
        <3>1. Reconciles(u) /\ task[u].name \notin disturbed /\ task'[u] = task[u]
            BY <1>2, <1>5, <1>12, <2>2
        <3>2. task[u] # NoTask BY <3>1, NotRunning
        <3>3. Active(task[u].name) BY <3>2 DEF Active
        <3>4. w # task[u].name BY <1>2, <3>1, <3>3
        <3>5. /\ org = "exists"
              /\ \E j \in ServiceId : /\ Exists(j) /\ services[j].slug = task[u].name
                                      /\ services[j].spec.type = task[u].spec.type
              /\ \A v \in Tasks : v # u /\ task[v] # NoTask =>
                    task[v].name \notin {task[u].name, Namespace}
            BY <3>1 DEF ObjectsInv, AppliedAlone
        <3>6. \A v \in Tasks : v # u /\ task'[v] # NoTask =>
                             task'[v].name \notin {task'[u].name, Namespace}
            BY <1>3, <1>5, <3>1, <3>4, <3>5
        <3> QED BY <3>1, <3>5, <3>6
    <2> QED BY <2>1, <2>2
<1>16. GoneIsClean'
    <2>1. GoneIsClean BY DEF ObjectsInv
    <2> QED BY <1>2, <1>9, <1>10, <2>1 DEF GoneIsClean
<1> QED BY <1>3, <1>8, <1>13, <1>14, <1>15, <1>16, BeginKeeps DEF ObjectsInv

(* A teardown starts on a workload that nobody applies, or marks it.          *)
LEMMA TeardownKeeps ==
    ASSUME ObjectsInv, NEW t \in Tasks, NEW n \in Name, StartTeardown(t, n)
    PROVE  ObjectsInv'
<1>1. TypeOK /\ TasksAreSound BY DEF ObjectsInv
<1>2. /\ n \in pending /\ pending' = pending \ {n}
      /\ Start(t, n, IF n = Namespace THEN DeleteNamespace ELSE Delete, NoSpec)
      /\ disturbed' = disturbed \cup {w \in Scope(n) : Applying(w)}
      /\ rowVars' = rowVars /\ objects' = objects /\ ns' = ns /\ faults' = faults
    BY DEF StartTeardown, rowVars, clusterVars
<1>3. /\ task[t] = NoTask /\ task'[t] # NoTask /\ task'[t].name = n /\ task'[t].spec = NoSpec
      /\ \A u \in Tasks : u # t => task'[u] = task[u]
      /\ Returned(t)' = 0
      /\ \A w \in Slugs : live'[w] = IF w \in Scope(n) THEN NoSpec ELSE live[w]
      /\ TasksAreSound'
      /\ task' \in [Tasks -> [name : Name, todo : Seq(Call), spec : ServiceSpec \cup {NoSpec}]]
      /\ live' \in [Slugs -> ServiceSpec \cup {NoSpec}]
    BY <1>1, <1>2, StartBegins
<1>4. /\ org' = org /\ projects' = projects /\ services' = services /\ nextId' = nextId
      /\ listed' = listed
    BY <1>2 DEF rowVars
<1>5. disturbed' \subseteq Slugs BY <1>1, <1>2 DEF TypeOK, Scope
<1>6. TypeOK' BY <1>1, <1>2, <1>3, <1>4, <1>5 DEF TypeOK
<1>7. Begins(t, n) BY <1>2, <1>3, <1>6 DEF Begins
<1>8. \A m : Active(m)' <=> Active(m) \/ m = n BY <1>7, BeginKeeps
<1>9. /\ LiveSlugs' = LiveSlugs
      /\ \A p : SlugsOf(p)' = SlugsOf(p)
      /\ \A j : Exists(j)' <=> Exists(j)
    BY <1>4, SameRows
<1>10. ~Reconciles(t)' BY <1>3 DEF Reconciles
<1>11. \A u \in Tasks : u # t => (Reconciles(u)' <=> Reconciles(u)) /\ (TearsDown(u)' <=> TearsDown(u))
    BY <1>3, SameTask
<1>12. NamespaceIsSound'
    <2>1. NamespaceIsSound BY DEF ObjectsInv
    <2>2. disturbed' = {} => disturbed = {} BY <1>2
    <2> QED BY <1>2, <1>4, <1>8, <2>1, <2>2 DEF NamespaceIsSound
<1>13. SlugIsUsedOnce'
    <2>1. SlugIsUsedOnce BY DEF ObjectsInv
    <2>2. disturbed \subseteq disturbed' BY <1>2
    <2>3. \A v : v \in pending' \/ (\E u \in Tasks : TearsDown(u)' /\ task'[u].name = v) =>
                 v \in pending \/ (\E u \in Tasks : TearsDown(u) /\ task[u].name = v)
        BY <1>2, <1>3, <1>11
    <2> QED BY <1>4, <1>9, <2>1, <2>2, <2>3 DEF SlugIsUsedOnce
<1>14. AppliedAlone'
    <2> SUFFICES ASSUME NEW u \in Tasks, Reconciles(u)', task'[u].name \notin disturbed'
                 PROVE /\ org = "exists"
                       /\ \E j \in ServiceId : /\ Exists(j) /\ services[j].slug = task'[u].name
                                               /\ services[j].spec.type = task'[u].spec.type
                       /\ \A v \in Tasks : v # u /\ task'[v] # NoTask =>
                             task'[v].name \notin {task'[u].name, Namespace}
        BY <1>4, <1>9 DEF AppliedAlone
    <2>1. u # t BY <1>10
    <2>2. Reconciles(u) /\ task[u].name \notin disturbed /\ task'[u] = task[u]
        BY <1>2, <1>3, <1>11, <2>1
    <2>3. task[u].name \in Slugs BY <1>1, <2>2 DEF TasksAreSound
    <2>4. Applying(task[u].name) BY <2>2 DEF Applying, Reconciles
    <2>5. task[u].name \notin Scope(n) BY <1>2, <2>2, <2>4
    <2>6. n # task[u].name /\ n # Namespace BY <2>3, <2>5 DEF Scope
    <2>7. /\ org = "exists"
          /\ \E j \in ServiceId : /\ Exists(j) /\ services[j].slug = task[u].name
                                  /\ services[j].spec.type = task[u].spec.type
          /\ \A v \in Tasks : v # u /\ task[v] # NoTask =>
                task[v].name \notin {task[u].name, Namespace}
        BY <2>2 DEF ObjectsInv, AppliedAlone
    <2>8. \A v \in Tasks : v # u /\ task'[v] # NoTask =>
                         task'[v].name \notin {task'[u].name, Namespace}
        BY <1>3, <2>2, <2>6, <2>7
    <2> QED BY <2>2, <2>7, <2>8
<1>15. GoneIsClean'
    <2>1. GoneIsClean BY DEF ObjectsInv
    <2> QED BY <1>2, <1>8, <1>9, <2>1 DEF GoneIsClean
<1> QED BY <1>7, <1>12, <1>13, <1>14, <1>15, BeginKeeps DEF ObjectsInv
------------------------------------------------------------------------------
(* A goroutine that fails, and the crash of them all, keep the invariant.     *)

Stops ==
    /\ \A u \in Tasks : task'[u] = task[u] \/ task'[u] = NoTask
    /\ \A u \in Tasks : task'[u] # task[u] /\ TearsDown(u) => Scope(task[u].name) \subseteq disturbed'
    /\ disturbed \subseteq disturbed'
    /\ rowVars' = rowVars /\ pending' = pending /\ objects' = objects /\ ns' = ns /\ live' = live
    /\ task' \in [Tasks -> [name : Name, todo : Seq(Call), spec : ServiceSpec \cup {NoSpec}]]
    /\ disturbed' \subseteq Slugs
    /\ faults' \in 0..MaxFaults

(* Whoever stops in the middle of a teardown marks what it was for.           *)
LEMMA Stopped ==
    ASSUME TypeOK, TasksAreSound,
           \/ \E t \in Tasks : ApplyFails(t) \/ DeleteFails(t)
           \/ ControllerCrash
    PROVE  Stops
<1> DEFINE Record == [name : Name, todo : Seq(Call), spec : ServiceSpec \cup {NoSpec}]
<1>1. NoTask \in Record BY DEF NoTask
<1>2. task \in [Tasks -> Record] /\ disturbed \subseteq Slugs /\ faults \in 0..MaxFaults
    BY DEF TypeOK
<1>3. \A t \in Tasks : Scope(task[t].name) \subseteq Slugs BY TaskShape DEF Scope
<1>4. Fault => faults' \in 0..MaxFaults BY <1>2 DEF Fault
<1> HIDE DEF Record
<1>5. ASSUME NEW t \in Tasks, ApplyFails(t) PROVE Stops
    <2>1. /\ task' = [task EXCEPT ![t] = NoTask] /\ Reconciles(t)
          /\ rowVars' = rowVars /\ pending' = pending /\ objects' = objects /\ ns' = ns
          /\ live' = live /\ disturbed' = disturbed /\ faults' = faults
        BY <1>5 DEF ApplyFails, clusterVars, rowVars, Reconciles
    <2>2. task'[t] = NoTask /\ \A u \in Tasks : u # t => task'[u] = task[u] BY <1>2, <2>1
    <2>3. task' \in [Tasks -> Record] BY <1>1, <1>2, <2>1
    <2>4. ~TearsDown(t) BY <2>1 DEF TearsDown
    <2> QED BY <1>2, <2>1, <2>2, <2>3, <2>4 DEF Stops, Record
<1>6. ASSUME NEW t \in Tasks, DeleteFails(t) PROVE Stops
    <2>1. /\ task' = [task EXCEPT ![t] = NoTask]
          /\ rowVars' = rowVars /\ pending' = pending /\ objects' = objects /\ ns' = ns
          /\ live' = live /\ disturbed' = disturbed \cup Scope(task[t].name) /\ Fault
        BY <1>6 DEF DeleteFails, clusterVars, rowVars
    <2>2. task'[t] = NoTask /\ \A u \in Tasks : u # t => task'[u] = task[u] BY <1>2, <2>1
    <2>3. task' \in [Tasks -> Record] BY <1>1, <1>2, <2>1
    <2>4. disturbed' \subseteq Slugs BY <1>2, <1>3, <2>1
    <2> QED BY <1>4, <2>1, <2>2, <2>3, <2>4 DEF Stops, Record
<1>7. ASSUME ControllerCrash PROVE Stops
    <2> DEFINE torn == UNION {Scope(task[t].name) :
                              t \in {u \in Tasks : task[u] # NoTask /\ task[u].spec = NoSpec}}
    <2>1. /\ task' = [t \in Tasks |-> NoTask]
          /\ rowVars' = rowVars /\ pending' = pending /\ objects' = objects /\ ns' = ns
          /\ live' = live /\ disturbed' = disturbed \cup torn /\ Fault
        BY <1>7 DEF ControllerCrash, clusterVars, rowVars
    <2>2. task' \in [Tasks -> Record] /\ \A u \in Tasks : task'[u] = NoTask BY <1>1, <2>1
    <2>3. \A u \in Tasks : TearsDown(u) => Scope(task[u].name) \subseteq torn
        BY DEF TearsDown, Reconciles
    <2>4. torn \subseteq Slugs BY <1>3
    <2> HIDE DEF torn
    <2>5. disturbed' \subseteq Slugs BY <1>2, <2>1, <2>4
    <2> QED BY <1>4, <2>1, <2>2, <2>3, <2>5 DEF Stops, Record
<1> QED BY <1>5, <1>6, <1>7

(* A stop leaves the cluster as it is.                                        *)
LEMMA StopKeeps ==
    ASSUME ObjectsInv, Stops PROVE ObjectsInv'
<1>1. TypeOK /\ TasksAreSound BY DEF ObjectsInv
<1>2. /\ \A u \in Tasks : task'[u] = task[u] \/ task'[u] = NoTask
      /\ \A u \in Tasks : task'[u] # task[u] /\ TearsDown(u) => Scope(task[u].name) \subseteq disturbed'
      /\ disturbed \subseteq disturbed'
      /\ org' = org /\ projects' = projects /\ services' = services /\ nextId' = nextId
      /\ listed' = listed
      /\ pending' = pending /\ objects' = objects /\ ns' = ns /\ live' = live
    BY DEF Stops, rowVars
<1>3. NobodyStarts BY <1>2 DEF NobodyStarts
<1>4. /\ \A m : Active(m)' => Active(m)
      /\ \A u \in Tasks : /\ TearsDown(u)' => TearsDown(u)
                          /\ Reconciles(u)' => Reconciles(u)
    BY <1>3, StillRunning
<1>5. \A u \in Tasks : task'[u] # NoTask =>
          /\ task'[u] = task[u] /\ Returned(u)' = Returned(u) /\ Program(u)' = Program(u)
    BY <1>2, SameTask
<1>6. \A u \in Tasks : (TearsDown(u)' \/ Reconciles(u)') => task'[u] # NoTask BY NotRunning
<1>7. /\ LiveSlugs' = LiveSlugs
      /\ \A p : SlugsOf(p)' = SlugsOf(p)
      /\ \A i : Exists(i)' <=> Exists(i)
    BY <1>2, SameRows
<1>8. ASSUME NEW m \in Name, Active(m), ~Active(m)', Scope(m) \cap disturbed' = {}, Scope(m) # {}
      PROVE \E u \in Tasks : Reconciles(u) /\ task[u].name = m
    <2>1. PICK u \in Tasks : task[u] # NoTask /\ task[u].name = m BY <1>8 DEF Active
    <2>2. task'[u] # task[u] BY <1>8, <2>1 DEF Active
    <2>3. ~TearsDown(u) BY <1>2, <1>8, <2>1, <2>2
    <2> QED BY <2>1, <2>3 DEF TearsDown
<1>9. ASSUME Active(Namespace), ~Active(Namespace)', Slugs # {} PROVE Slugs \cap disturbed' # {}
    <2> SUFFICES ASSUME Slugs \cap disturbed' = {} PROVE FALSE OBVIOUS
    <2>1. Scope(Namespace) = Slugs BY DEF Scope
    <2>2. PICK u \in Tasks : Reconciles(u) /\ task[u].name = Namespace BY <1>8, <1>9, <2>1
    <2> QED BY <1>1, <2>2 DEF TasksAreSound
<1>10. TypeOK' BY <1>1, <1>2 DEF TypeOK, Stops
<1>11. TasksAreSound'
    <2> SUFFICES ASSUME NEW u \in Tasks
                 PROVE /\ Reconciles(u)' => task'[u].name \in Slugs
                       /\ task'[u].todo = <<>> => task'[u] = NoTask
                       /\ Returned(u)' >= 0
                       /\ \A j \in 1..Len(task'[u].todo) :
                             task'[u].todo[j] = Program(u)'[Returned(u)' + j]
        BY DEF TasksAreSound
    <2>1. CASE task'[u] # NoTask BY <1>1, <1>4, <1>5, <2>1 DEF TasksAreSound
    <2>2. CASE task'[u] = NoTask
        <3>1. task'[u].todo = <<>> /\ ~Reconciles(u)' BY <2>2, NotRunning DEF NoTask
        <3>2. Returned(u)' = 1
            BY <2>2, DeleteNamespaceCalls DEF NoTask, Returned, Program, Reconciles
        <3> QED BY <2>2, <3>1, <3>2
    <2> QED BY <2>1, <2>2
<1>12. RowsAreSound' BY <1>2, <1>7 DEF ObjectsInv, RowsAreSound
<1>13. NamespaceIsSound'
    <2>1. NamespaceIsSound BY DEF ObjectsInv
    <2>2. ns = "active" /\ disturbed' = {} /\ Active(Namespace) => Active(Namespace)'
        BY <1>9, <2>1 DEF NamespaceIsSound
    <2>3. disturbed' = {} => disturbed = {} BY <1>2
    <2> QED BY <1>2, <1>4, <2>1, <2>2, <2>3 DEF NamespaceIsSound
<1>14. PoliciesPrecede' BY <1>2, <1>4, <1>5, <1>6 DEF ObjectsInv, PoliciesPrecede
<1>15. SlugIsUsedOnce' BY <1>2, <1>4, <1>5, <1>6, <1>7 DEF ObjectsInv, SlugIsUsedOnce
<1>16. AppliedAlone' BY <1>2, <1>4, <1>5, <1>6, <1>7 DEF ObjectsInv, AppliedAlone
<1>17. LiveIsLeftAlone' BY <1>2, <1>4 DEF ObjectsInv, LiveIsLeftAlone
<1>18. TypesFit' BY <1>2, <1>7 DEF ObjectsInv, TypesFit
<1>19. GoneIsClean'
    <2> SUFFICES ASSUME NEW w \in Slugs \ disturbed'
                 PROVE \/ w \in LiveSlugs \cup pending \/ Active(w)'
                       \/ Namespace \in pending \/ Active(Namespace)' \/ ns = "terminating"
                       \/ objects[w] = {}
        BY <1>2, <1>7 DEF GoneIsClean
    <2>1. Active(w) => Active(w)' \/ w \in LiveSlugs
        <3> SUFFICES ASSUME Active(w), ~Active(w)' PROVE w \in LiveSlugs OBVIOUS
        <3>1. Scope(w) = {w} BY DEF Scope
        <3>2. PICK u \in Tasks : Reconciles(u) /\ task[u].name = w BY <1>8, <3>1
        <3> QED BY <1>2, <3>2, AppliedFor
    <2>2. Active(Namespace) => Active(Namespace)'
        <3> SUFFICES ASSUME Active(Namespace), ~Active(Namespace)' PROVE FALSE OBVIOUS
        <3>1. PICK u \in Tasks : task[u] # NoTask /\ task[u].name = Namespace BY DEF Active
        <3>2. task'[u] # task[u] BY <3>1 DEF Active
        <3>3. TearsDown(u) BY <1>1, <3>1 DEF TearsDown, TasksAreSound
        <3> QED BY <1>2, <3>1, <3>2, <3>3 DEF Scope
    <2> QED BY <1>2, <2>1, <2>2 DEF ObjectsInv, GoneIsClean
<1>20. CallsHold' BY <1>2, <1>5 DEF ObjectsInv, CallsHold
<1>21. Isolated' BY <1>2 DEF ObjectsInv, Isolated, Runs
<1>22. SecretRefSatisfied' BY <1>2 DEF ObjectsInv, SecretRefSatisfied, Runs
<1>23. LiveIsDesired'
    BY <1>2 DEF ObjectsInv, LiveIsDesired, Desired, hasDisk, autoscaled, IsRoutable
<1> QED BY <1>10, <1>11, <1>12, <1>13, <1>14, <1>15, <1>16, <1>17, <1>18, <1>19, <1>20, <1>21,
           <1>22, <1>23 DEF ObjectsInv

------------------------------------------------------------------------------
(* The cluster's own steps keep the invariant.                                *)

(* A TLS Secret appears only next to its certificate.                         *)
LEMMA CertificateKeeps ==
    ASSUME ObjectsInv, NEW w \in Slugs, IssueCertificate(w) PROVE ObjectsInv'
<1>1. TypeOK /\ TasksAreSound BY DEF ObjectsInv
<1>2. /\ ns = "active" /\ "cert" \in objects[w]
      /\ objects' = [objects EXCEPT ![w] = @ \cup {"tls"}]
      /\ org' = org /\ projects' = projects /\ services' = services /\ nextId' = nextId
      /\ listed' = listed /\ pending' = pending /\ task' = task /\ ns' = ns /\ live' = live
      /\ disturbed' = disturbed /\ faults' = faults
    BY DEF IssueCertificate, rowVars
<1>3. /\ objects' \in [Name -> SUBSET (Kind \cup {"policies"})]
      /\ objects'[w] = objects[w] \cup {"tls"}
      /\ \A m \in Name : m # w => objects'[m] = objects[m]
    BY <1>1, <1>2 DEF TypeOK, Kind
<1>4. /\ objects'[Namespace] = objects[Namespace]
      /\ \A v \in Slugs : Runs(v)' <=> Runs(v)
      /\ \A v \in Slugs : "env" \in objects'[v] <=> "env" \in objects[v]
      /\ \A v \in Slugs : objects'[v] \ {"tls"} = objects[v] \ {"tls"}
    BY <1>3 DEF Runs
<1>5. /\ LiveSlugs' = LiveSlugs
      /\ \A p : SlugsOf(p)' = SlugsOf(p)
      /\ \A i : Exists(i)' <=> Exists(i)
    BY <1>2, SameRows
<1>6. /\ \A u \in Tasks : /\ Returned(u)' = Returned(u) /\ Program(u)' = Program(u)
                          /\ Reconciles(u)' <=> Reconciles(u)
                          /\ TearsDown(u)' <=> TearsDown(u)
      /\ \A m : Active(m)' <=> Active(m)
    BY <1>2, SameTask DEF Active
<1>7. TypeOK'
    <2>1. \A v \in Slugs : objects'[v] \subseteq Kind BY <1>1, <1>3 DEF TypeOK, Kind
    <2> QED BY <1>1, <1>2, <1>3, <2>1 DEF TypeOK
<1>8. TasksAreSound' BY <1>1, <1>2, <1>6 DEF TasksAreSound
<1>9. RowsAreSound' BY <1>2, <1>5 DEF ObjectsInv, RowsAreSound
<1>10. NamespaceIsSound'
    <2>1. NamespaceIsSound BY DEF ObjectsInv
    <2> QED BY <1>2, <1>6, <2>1 DEF NamespaceIsSound
<1>11. PoliciesPrecede' BY <1>2, <1>4, <1>6 DEF ObjectsInv, PoliciesPrecede
<1>12. SlugIsUsedOnce' BY <1>2, <1>5, <1>6 DEF ObjectsInv, SlugIsUsedOnce
<1>13. AppliedAlone' BY <1>2, <1>5, <1>6 DEF ObjectsInv, AppliedAlone
<1>14. LiveIsLeftAlone' BY <1>2, <1>6 DEF ObjectsInv, LiveIsLeftAlone
<1>15. TypesFit'
    <2> SUFFICES ASSUME NEW i \in ServiceId, Exists(i), services[i].slug \notin disturbed
                 PROVE objects'[services[i].slug] \subseteq Fits(services[i].spec.type)
        BY <1>2, <1>5 DEF TypesFit
    <2>1. objects[services[i].slug] \subseteq Fits(services[i].spec.type)
        BY DEF ObjectsInv, TypesFit
    <2>2. services[i].slug \in Slugs BY <1>1, RowShape
    <2>3. CASE services[i].slug # w BY <1>3, <2>1, <2>2, <2>3
    <2>4. CASE services[i].slug = w
        <3>1. "cert" \in Fits(services[i].spec.type) BY <1>2, <2>1, <2>4
        <3>2. "tls" \in Fits(services[i].spec.type) BY <3>1 DEF Fits
        <3> QED BY <1>3, <2>1, <2>4, <3>2
    <2> QED BY <2>3, <2>4
<1>16. GoneIsClean'
    <2> SUFFICES ASSUME NEW v \in Slugs \ disturbed
                 PROVE \/ v \in LiveSlugs \cup pending \/ Active(v)
                       \/ Namespace \in pending \/ Active(Namespace) \/ ns = "terminating"
                       \/ objects'[v] = {}
        BY <1>2, <1>5, <1>6 DEF GoneIsClean
    <2>1. objects[v] = {} => objects'[v] = {} BY <1>2, <1>3
    <2> QED BY <2>1 DEF ObjectsInv, GoneIsClean
<1>17. CallsHold'
    <2> SUFFICES ASSUME NEW u \in Tasks, task[u] # NoTask, task[u].name \in Slugs \ disturbed,
                        NEW j \in 1..Returned(u)
                 PROVE Done(Program(u)[j], objects'[task[u].name])
        BY <1>2, <1>6 DEF CallsHold, Done
    <2> DEFINE d == Program(u)[j]
    <2>1. Done(d, objects[task[u].name]) BY DEF ObjectsInv, CallsHold, Done
    <2>2. /\ Returned(u) = Len(Program(u)) - Len(task[u].todo) /\ Len(task[u].todo) \in Nat
          /\ task[u].todo # <<>> /\ Len(Program(u)) \in Nat /\ task[u].todo \in Seq(Call)
        <3>1. \A m \in 1..9 : m \in Nat OBVIOUS
        <3>2. /\ Len(Program(u)) \in Nat /\ Len(task[u].todo) \in Nat
              /\ task[u].todo \in Seq(Call)
            BY <1>1, <3>1, TaskShape
        <3>3. task[u].todo # <<>> BY <1>1 DEF TasksAreSound
        <3>4. Returned(u) = Len(Program(u)) - Len(task[u].todo) BY DEF Returned
        <3> QED BY <3>2, <3>3, <3>4
    <2>3. Len(task[u].todo) > 0 BY <2>2
    <2>4. j \in 1..Len(Program(u)) /\ j < Len(Program(u))
        <3> DEFINE p == Len(Program(u))
                   m == Len(task[u].todo)
        <3>1. p \in Nat /\ m \in Nat /\ m > 0 /\ j \in 1..(p - m) BY <2>2, <2>3
        <3> HIDE DEF p, m
        <3>2. j \in 1..p /\ j < p BY <3>1
        <3> QED BY <3>2 DEF p
    <2>5. d.kind # "tls"
        <3>1. CASE Reconciles(u)
            <4>1. Program(u) = Apply(task[u].spec) /\ task[u].spec \in ServiceSpec
                BY <1>1, <3>1, TaskShape DEF Program
            <4>2. ApplyCall(task[u].spec, j, d) BY <2>4, <4>1, ApplyCalls
            <4> QED BY <4>2 DEF ApplyCall
        <3>2. CASE ~Reconciles(u)
            <4>1. Program(u) = Delete BY <3>2 DEF Program
            <4> QED BY <2>4, <4>1, DeleteCalls
        <3> QED BY <3>1, <3>2
    <2>6. objects'[task[u].name] = objects[task[u].name]
          \/ objects'[task[u].name] = objects[task[u].name] \cup {"tls"}
        BY <1>3
    <2> HIDE DEF d
    <2>7. Done(d, objects'[task[u].name]) BY <2>1, <2>5, <2>6 DEF Done
    <2> QED BY <2>7 DEF d
<1>18. Isolated' BY <1>2, <1>4 DEF ObjectsInv, Isolated
<1>19. SecretRefSatisfied' BY <1>2, <1>4 DEF ObjectsInv, SecretRefSatisfied
<1>20. LiveIsDesired'
    BY <1>2, <1>4 DEF ObjectsInv, LiveIsDesired, Desired, hasDisk, autoscaled, IsRoutable
<1> QED BY <1>7, <1>8, <1>9, <1>10, <1>11, <1>12, <1>13, <1>14, <1>15, <1>16, <1>17, <1>18,
           <1>19, <1>20 DEF ObjectsInv

(* A namespace goes only with its org, when nobody reports anything live.     *)
LEMMA FinalizeKeeps ==
    ASSUME ObjectsInv, FinalizeNamespace PROVE ObjectsInv'
<1>1. TypeOK /\ TasksAreSound /\ NamespaceIsSound BY DEF ObjectsInv
<1>2. /\ ns = "terminating" /\ ns' = "absent" /\ objects' = [n \in Name |-> {}]
      /\ org' = org /\ projects' = projects /\ services' = services /\ nextId' = nextId
      /\ listed' = listed /\ pending' = pending /\ task' = task /\ live' = live
      /\ disturbed' = disturbed /\ faults' = faults
    BY DEF FinalizeNamespace, rowVars
<1>3. \A m \in Name : objects'[m] = {} BY <1>2
<1>4. org # "exists" BY <1>1, <1>2 DEF NamespaceIsSound
<1>5. /\ LiveSlugs' = LiveSlugs
      /\ \A p : SlugsOf(p)' = SlugsOf(p)
      /\ \A i : Exists(i)' <=> Exists(i)
    BY <1>2, SameRows
<1>6. /\ \A u \in Tasks : /\ Returned(u)' = Returned(u) /\ Program(u)' = Program(u)
                          /\ Reconciles(u)' <=> Reconciles(u)
                          /\ TearsDown(u)' <=> TearsDown(u)
      /\ \A m : Active(m)' <=> Active(m)
    BY <1>2, SameTask DEF Active
<1>7. \A w \in Slugs \ disturbed : live[w] = NoSpec
    BY <1>2 DEF ObjectsInv, LiveIsLeftAlone
<1>8. \A t \in Tasks : Reconciles(t) => task[t].name \in disturbed
    BY <1>4 DEF ObjectsInv, AppliedAlone
<1>9. TypeOK' BY <1>1, <1>2 DEF TypeOK
<1>10. TasksAreSound' BY <1>1, <1>2, <1>6 DEF TasksAreSound
<1>11. RowsAreSound' BY <1>2, <1>5 DEF ObjectsInv, RowsAreSound
<1>12. NamespaceIsSound' BY <1>2, <1>3, <1>4 DEF NamespaceIsSound
<1>13. PoliciesPrecede' /\ Isolated' BY <1>2, <1>4 DEF PoliciesPrecede, Isolated
<1>14. SlugIsUsedOnce' BY <1>2, <1>5, <1>6 DEF ObjectsInv, SlugIsUsedOnce
<1>15. AppliedAlone' BY <1>2, <1>6, <1>8 DEF AppliedAlone
<1>16. LiveIsLeftAlone' BY <1>2, <1>7 DEF LiveIsLeftAlone
<1>17. TypesFit'
    <2>1. \A i \in ServiceId : Exists(i) => services[i].slug \in Slugs BY <1>1, RowShape
    <2> QED BY <1>2, <1>3, <1>5, <2>1 DEF TypesFit
<1>18. GoneIsClean' BY <1>2, <1>3 DEF GoneIsClean
<1>19. CallsHold'
    <2> SUFFICES ASSUME NEW u \in Tasks, task[u] # NoTask, task[u].name \in Slugs \ disturbed,
                        NEW j \in 1..Returned(u)
                 PROVE Done(Program(u)[j], {})
        BY <1>2, <1>3, <1>6 DEF CallsHold, Done
    <2>1. Program(u) = Delete BY <1>8 DEF Program
    <2>2. Returned(u) = 8 - Len(task[u].todo) /\ Len(task[u].todo) \in Nat
        BY <1>1, <2>1, TaskShape, DeleteCalls DEF Returned
    <2>3. j \in 1..8 BY <2>2
    <2>4. Delete[j].op = "drop" BY <2>3, DeleteCalls
    <2> QED BY <2>1, <2>4 DEF Done
<1>20. SecretRefSatisfied' BY <1>2, <1>3 DEF SecretRefSatisfied, Runs
<1>21. LiveIsDesired' BY <1>2, <1>7 DEF LiveIsDesired
<1> QED BY <1>9, <1>10, <1>11, <1>12, <1>13, <1>14, <1>15, <1>16, <1>17, <1>18, <1>19, <1>20,
           <1>21 DEF ObjectsInv
------------------------------------------------------------------------------
(* The API keeps the invariant: it changes rows, and what is to be torn down. *)

RowStep ==
    /\ task' = task /\ objects' = objects /\ ns' = ns /\ live' = live
    /\ disturbed \subseteq disturbed'
    /\ org' = "exists" => org = "exists"

(* What no row decides.                                                       *)
LEMMA RowStepKeeps ==
    ASSUME ObjectsInv, RowStep
    PROVE  /\ TasksAreSound' /\ PoliciesPrecede' /\ LiveIsLeftAlone' /\ CallsHold' /\ Isolated'
           /\ SecretRefSatisfied' /\ LiveIsDesired'
           /\ \A m : Active(m)' <=> Active(m)
           /\ \A u \in Tasks : /\ Reconciles(u)' <=> Reconciles(u)
                               /\ TearsDown(u)' <=> TearsDown(u)
<1>1. /\ task' = task /\ objects' = objects /\ ns' = ns /\ live' = live
      /\ disturbed \subseteq disturbed'
      /\ org' = "exists" => org = "exists"
    BY DEF RowStep
<1>2. /\ \A u \in Tasks : /\ Returned(u)' = Returned(u) /\ Program(u)' = Program(u)
                          /\ Reconciles(u)' <=> Reconciles(u)
                          /\ TearsDown(u)' <=> TearsDown(u)
      /\ \A m : Active(m)' <=> Active(m)
    BY <1>1, SameTask DEF Active
<1>3. TasksAreSound' BY <1>1, <1>2 DEF ObjectsInv, TasksAreSound
<1>4. PoliciesPrecede' BY <1>1, <1>2 DEF ObjectsInv, PoliciesPrecede
<1>5. LiveIsLeftAlone' BY <1>1, <1>2 DEF ObjectsInv, LiveIsLeftAlone
<1>6. CallsHold' BY <1>1, <1>2 DEF ObjectsInv, CallsHold
<1>7. Isolated' BY <1>1 DEF ObjectsInv, Isolated, Runs
<1>8. SecretRefSatisfied' BY <1>1 DEF ObjectsInv, SecretRefSatisfied, Runs
<1>9. LiveIsDesired'
    BY <1>1 DEF ObjectsInv, LiveIsDesired, Desired, hasDisk, autoscaled, IsRoutable
<1> QED BY <1>2, <1>3, <1>4, <1>5, <1>6, <1>7, <1>8, <1>9

(* A new service finds nothing under its slug, or marks it.                   *)
LEMMA CreateKeeps ==
    ASSUME ObjectsInv, NEW p \in Projects, NEW w \in Slugs, NEW s \in ServiceSpec,
           CreateService(p, w, s)
    PROVE  ObjectsInv'
<1>1. TypeOK /\ RowsAreSound /\ NamespaceIsSound BY DEF ObjectsInv
<1> DEFINE new == [project |-> p, slug |-> w, spec |-> s]
           clash == \/ w \in LiveSlugs \cup pending
                    \/ Active(w)
                    \/ \E q \in Projects : w \in listed[q]
<1>2. /\ p \in projects /\ nextId <= MaxServices
      /\ services' = [services EXCEPT ![nextId] = new]
      /\ nextId' = nextId + 1
      /\ disturbed' = IF clash THEN disturbed \cup {w} ELSE disturbed
      /\ org' = org /\ projects' = projects /\ listed' = listed /\ pending' = pending
      /\ faults' = faults
      /\ task' = task /\ objects' = objects /\ ns' = ns /\ live' = live
    BY DEF CreateService, clusterVars
<1>3. /\ new.project = p /\ new.slug = w /\ new.spec = s
      /\ new \in [project : Projects, slug : Slugs, spec : ServiceSpec]
    OBVIOUS
<1> HIDE DEF new
<1>4. nextId \in ServiceId BY <1>1, <1>2 DEF TypeOK
<1>5. services'[nextId] = new /\ \A i \in ServiceId : i # nextId => services'[i] = services[i]
    BY <1>1, <1>2, <1>4 DEF TypeOK
<1>6. TypeOK' BY <1>1, <1>2, <1>3, <1>4 DEF TypeOK
<1>7. ~Exists(nextId) BY <1>1, <1>4 DEF RowsAreSound, TypeOK
<1>8. \A i \in ServiceId : Exists(i)' <=> Exists(i) \/ i = nextId
    BY <1>3, <1>5 DEF Exists
<1>9. /\ \A v : v \in LiveSlugs' <=> v \in LiveSlugs \/ v = w
      /\ \A q, v : v \in SlugsOf(q) /\ q \in Projects => v \in SlugsOf(q)'
    <2>1. \A i \in ServiceId : services[i].project \in Projects => i # nextId
        BY <1>1, <1>7, RowShape
    <2> QED BY <1>3, <1>4, <1>5, <2>1, SlugsInUse
<1>10. org = "exists" BY <1>1, <1>2 DEF RowsAreSound, TypeOK
<1>11. RowStep BY <1>2, <1>10 DEF RowStep
<1>12. w \notin disturbed' => ~clash /\ w \notin disturbed BY <1>2
<1>13. disturbed \subseteq disturbed' BY <1>2
<1>14. /\ \A m : Active(m)' <=> Active(m)
       /\ \A u \in Tasks : /\ Reconciles(u)' <=> Reconciles(u)
                           /\ TearsDown(u)' <=> TearsDown(u)
    BY <1>11, RowStepKeeps
<1>15. RowsAreSound'
    <2>1. \A i \in ServiceId : Exists(i)' => services'[i].project \in projects /\ i < nextId + 1
        BY <1>1, <1>2, <1>3, <1>4, <1>5, <1>8 DEF RowsAreSound, TypeOK
    <2> QED BY <1>1, <1>2, <2>1 DEF RowsAreSound
<1>16. NamespaceIsSound'
    BY <1>1, <1>2, <1>10, <1>14 DEF NamespaceIsSound
<1> HIDE DEF clash
<1>17. SlugIsUsedOnce'
    <2> SUFFICES ASSUME NEW v \in Slugs \ disturbed'
                 PROVE /\ \A i, j \in ServiceId : Exists(i)' /\ Exists(j)' /\ services'[i].slug = v
                                                  /\ services'[j].slug = v => i = j
                       /\ \A q \in Projects : v \in listed[q] => v \in SlugsOf(q)'
                       /\ v \in pending \/ (\E t \in Tasks : TearsDown(t) /\ task[t].name = v) =>
                             v \notin LiveSlugs'
        BY <1>2, <1>14 DEF SlugIsUsedOnce
    <2>1. v \in Slugs \ disturbed BY <1>13
    <2>2. /\ \A i, j \in ServiceId : Exists(i) /\ Exists(j) /\ services[i].slug = v
                                     /\ services[j].slug = v => i = j
          /\ \A q \in Projects : v \in listed[q] => v \in SlugsOf(q)
          /\ v \in pending \/ (\E t \in Tasks : TearsDown(t) /\ task[t].name = v) =>
                v \notin LiveSlugs
        BY <1>10, <2>1 DEF ObjectsInv, SlugIsUsedOnce
    <2>3. CASE v # w BY <1>3, <1>5, <1>8, <1>9, <2>2, <2>3
    <2>4. CASE v = w
        <3>1. /\ v \notin LiveSlugs /\ v \notin pending /\ ~Active(v)
              /\ \A q \in Projects : v \notin listed[q]
            BY <1>12, <2>4 DEF clash
        <3>2. \A i \in ServiceId : Exists(i) => services[i].slug # v
            BY <1>1, <3>1, RowShape, SlugsInUse
        <3>3. \A t \in Tasks : TearsDown(t) => task[t].name # v BY <3>1 DEF Active, TearsDown
        <3> QED BY <1>5, <1>8, <3>1, <3>2, <3>3
    <2> QED BY <2>3, <2>4
<1>18. AppliedAlone'
    <2> SUFFICES ASSUME NEW t \in Tasks, Reconciles(t), task[t].name \notin disturbed
                 PROVE /\ org = "exists"
                       /\ \E i \in ServiceId : /\ Exists(i)' /\ services'[i].slug = task[t].name
                                               /\ services'[i].spec.type = task[t].spec.type
                       /\ \A u \in Tasks : u # t /\ task[u] # NoTask =>
                             task[u].name \notin {task[t].name, Namespace}
        BY <1>2, <1>13, <1>14 DEF AppliedAlone
    <2>1. PICK i \in ServiceId : /\ Exists(i) /\ services[i].slug = task[t].name
                                 /\ services[i].spec.type = task[t].spec.type
        BY DEF ObjectsInv, AppliedAlone
    <2>2. Exists(i)' /\ services'[i] = services[i] BY <1>5, <1>7, <1>8, <2>1
    <2> QED BY <1>10, <2>1, <2>2 DEF ObjectsInv, AppliedAlone
<1>19. TypesFit'
    <2> SUFFICES ASSUME NEW i \in ServiceId, Exists(i)', services'[i].slug \notin disturbed'
                 PROVE objects[services'[i].slug] \subseteq Fits(services'[i].spec.type)
        BY <1>2 DEF TypesFit
    <2>1. CASE i # nextId BY <1>5, <1>8, <1>13, <2>1 DEF ObjectsInv, TypesFit
    <2>2. CASE i = nextId
        <3>1. /\ w \notin LiveSlugs /\ w \notin pending /\ ~Active(w) /\ w \notin disturbed
            BY <1>3, <1>5, <1>12, <2>2 DEF clash
        <3>2. ns # "terminating" /\ Namespace \notin pending /\ ~Active(Namespace)
            BY <1>1, <1>10 DEF NamespaceIsSound
        <3>3. objects[w] = {} BY <3>1, <3>2 DEF ObjectsInv, GoneIsClean
        <3> QED BY <1>3, <1>5, <2>2, <3>3
    <2> QED BY <2>1, <2>2
<1>20. GoneIsClean' BY <1>2, <1>9, <1>13, <1>14 DEF ObjectsInv, GoneIsClean
<1> QED BY <1>6, <1>11, <1>15, <1>16, <1>17, <1>18, <1>19, <1>20, RowStepKeeps DEF ObjectsInv

(* Settings change neither the name nor the type of a service.                *)
LEMMA SettingsKeep ==
    ASSUME ObjectsInv, NEW i \in ServiceId, NEW f \in Settings, ChangeSettings(i, f)
    PROVE  ObjectsInv'
<1>1. TypeOK /\ RowsAreSound /\ NamespaceIsSound BY DEF ObjectsInv
<1>2. /\ Exists(i) /\ services[i].spec.type # "cron"
      /\ services' = [services EXCEPT ![i].spec.features = f]
      /\ org' = org /\ projects' = projects /\ nextId' = nextId /\ listed' = listed
      /\ pending' = pending /\ disturbed' = disturbed /\ faults' = faults
      /\ task' = task /\ objects' = objects /\ ns' = ns /\ live' = live
    BY DEF ChangeSettings, clusterVars
<1>3. /\ services[i] \in [project : Projects, slug : Slugs, spec : ServiceSpec]
    BY <1>1, <1>2 DEF TypeOK, Exists, NoService
<1> DEFINE new == [services[i] EXCEPT !.spec = [services[i].spec EXCEPT !.features = f]]
<1>4. [services[i].spec EXCEPT !.features = f] \in ServiceSpec
      /\ [services[i].spec EXCEPT !.features = f].type = services[i].spec.type
    BY <1>2, <1>3 DEF ServiceSpec
<1>5. /\ new \in [project : Projects, slug : Slugs, spec : ServiceSpec]
      /\ new.project = services[i].project /\ new.slug = services[i].slug
      /\ new.spec.type = services[i].spec.type
    BY <1>3, <1>4
<1>6. services' = [services EXCEPT ![i] = new] BY <1>2
<1> HIDE DEF new
<1>7. TypeOK'
    <2>1. services' \in [ServiceId -> [project : Projects, slug : Slugs, spec : ServiceSpec]
                                       \cup {NoService}]
        BY <1>1, <1>5, <1>6 DEF TypeOK
    <2> QED BY <1>1, <1>2, <2>1 DEF TypeOK
<1>8. \A j \in ServiceId : /\ services'[j].project = services[j].project
                           /\ services'[j].slug = services[j].slug
                           /\ services'[j].spec.type = services[j].spec.type
    BY <1>1, <1>5, <1>6 DEF TypeOK
<1>9. \A j \in ServiceId : Exists(j)' <=> Exists(j) BY <1>8 DEF Exists
<1>10. /\ \A v : v \in LiveSlugs' <=> v \in LiveSlugs
       /\ \A q, v : v \in SlugsOf(q)' <=> v \in SlugsOf(q)
    BY <1>8, SlugsInUse
<1>11. RowStep BY <1>2 DEF RowStep
<1>12. /\ \A m : Active(m)' <=> Active(m)
       /\ \A u \in Tasks : /\ Reconciles(u)' <=> Reconciles(u)
                           /\ TearsDown(u)' <=> TearsDown(u)
    BY <1>11, RowStepKeeps
<1>13. RowsAreSound' BY <1>1, <1>2, <1>8, <1>9 DEF RowsAreSound
<1>14. NamespaceIsSound' BY <1>1, <1>2, <1>12 DEF NamespaceIsSound
<1>15. SlugIsUsedOnce' BY <1>2, <1>8, <1>9, <1>10, <1>12 DEF ObjectsInv, SlugIsUsedOnce
<1>16. AppliedAlone' BY <1>2, <1>8, <1>9, <1>12 DEF ObjectsInv, AppliedAlone
<1>17. TypesFit' BY <1>2, <1>8, <1>9 DEF ObjectsInv, TypesFit
<1>18. GoneIsClean' BY <1>2, <1>10, <1>12 DEF ObjectsInv, GoneIsClean
<1> QED BY <1>7, <1>11, <1>13, <1>14, <1>15, <1>16, <1>17, <1>18, RowStepKeeps DEF ObjectsInv

(* A project's services are listed, or the deletion is given up.              *)
LEMMA ListingKeeps ==
    ASSUME ObjectsInv, NEW p \in Projects,
           ListServices(p) \/ ListServicesFails(p) \/ DeleteProjectFails(p)
    PROVE  ObjectsInv'
<1>1. TypeOK /\ RowsAreSound /\ NamespaceIsSound BY DEF ObjectsInv
<1>2. /\ org' = org /\ projects' = projects /\ services' = services /\ nextId' = nextId
      /\ pending' = pending /\ disturbed \subseteq disturbed'
      /\ disturbed' \subseteq disturbed \cup SlugsOf(p)
      /\ task' = task /\ objects' = objects /\ ns' = ns /\ live' = live
    BY DEF ListServices, ListServicesFails, DeleteProjectFails, clusterVars
<1>3. PICK list \in {SlugsOf(p), {}, NotListed} : listed' = [listed EXCEPT ![p] = list]
    BY DEF ListServices, ListServicesFails, DeleteProjectFails
<1>4. faults' \in 0..MaxFaults
    BY <1>1 DEF TypeOK, ListServices, ListServicesFails, DeleteProjectFails, Fault
<1>5. SlugsOf(p) \subseteq Slugs BY <1>1, SlugsAreTyped
<1>6. \A q \in Projects : listed'[q] = IF q = p THEN list ELSE listed[q]
    BY <1>1, <1>3 DEF TypeOK
<1>7. listed' \in [Projects -> (SUBSET Slugs) \cup {NotListed}] BY <1>1, <1>3, <1>5 DEF TypeOK
<1>8. TypeOK' BY <1>1, <1>2, <1>4, <1>5, <1>7 DEF TypeOK
<1>9. /\ LiveSlugs' = LiveSlugs
      /\ \A q : SlugsOf(q)' = SlugsOf(q)
      /\ \A j : Exists(j)' <=> Exists(j)
    BY <1>2, SameRows
<1>10. RowStep BY <1>2 DEF RowStep
<1>11. /\ \A m : Active(m)' <=> Active(m)
       /\ \A u \in Tasks : /\ Reconciles(u)' <=> Reconciles(u)
                           /\ TearsDown(u)' <=> TearsDown(u)
    BY <1>10, RowStepKeeps
<1>12. RowsAreSound' BY <1>1, <1>2, <1>9 DEF RowsAreSound
<1>13. NamespaceIsSound'
    <2>1. disturbed' = {} => disturbed = {} BY <1>2
    <2> QED BY <1>1, <1>2, <1>11, <2>1 DEF NamespaceIsSound
<1>14. SlugIsUsedOnce'
    <2>1. \A v \in Slugs : \A q \in Projects :
             v \in listed'[q] => v \in listed[q] \/ v \in SlugsOf(q)
        BY <1>6 DEF NotListed
    <2> QED BY <1>2, <1>9, <1>11, <2>1 DEF ObjectsInv, SlugIsUsedOnce
<1>15. AppliedAlone' BY <1>2, <1>9, <1>11 DEF ObjectsInv, AppliedAlone
<1>16. TypesFit' BY <1>2, <1>9 DEF ObjectsInv, TypesFit
<1>17. GoneIsClean' BY <1>2, <1>9, <1>11 DEF ObjectsInv, GoneIsClean
<1> QED BY <1>8, <1>10, <1>12, <1>13, <1>14, <1>15, <1>16, <1>17, RowStepKeeps DEF ObjectsInv

(* What loses its row is torn down, or marked.                                *)
LEMMA DeleteProjectKeeps ==
    ASSUME ObjectsInv, NEW p \in Projects, DeleteProject(p) PROVE ObjectsInv'
<1>1. TypeOK /\ RowsAreSound /\ NamespaceIsSound BY DEF ObjectsInv
<1>2. /\ listed[p] # NotListed
      /\ projects' = projects \ {p}
      /\ services' = Without({p})
      /\ pending' = pending \cup listed[p]
      /\ listed' = [listed EXCEPT ![p] = NotListed]
      /\ disturbed' = disturbed \cup {w \in SlugsOf(p) : w \notin listed[p] \/ Applying(w)}
      /\ org' = org /\ nextId' = nextId /\ faults' = faults
      /\ task' = task /\ objects' = objects /\ ns' = ns /\ live' = live
    BY DEF DeleteProject, clusterVars
<1>3. listed[p] \subseteq Slugs /\ SlugsOf(p) \subseteq Slugs BY <1>1, <1>2, SlugsAreTyped DEF TypeOK
<1>4. /\ \A i \in ServiceId : services'[i] = IF services[i].project = p THEN NoService ELSE services[i]
      /\ services' \in [ServiceId -> [project : Projects, slug : Slugs, spec : ServiceSpec]
                                     \cup {NoService}]
    BY <1>1, <1>2 DEF Without, TypeOK
<1>5. TypeOK' BY <1>1, <1>2, <1>3, <1>4 DEF TypeOK
<1>6. \A i \in ServiceId : Exists(i)' => Exists(i) /\ services'[i] = services[i]
                                         /\ services[i].project # p
    BY <1>4 DEF Exists, NoService
<1>7. \A i \in ServiceId : Exists(i) /\ services[i].project # p => Exists(i)' /\ services'[i] = services[i]
    BY <1>4 DEF Exists
<1>8. /\ \A v : v \in LiveSlugs' => v \in LiveSlugs
      /\ \A v : v \in LiveSlugs => v \in LiveSlugs' \/ v \in SlugsOf(p)
      /\ \A q \in Projects \ {p} : \A v : v \in SlugsOf(q) => v \in SlugsOf(q)'
    <2>1. \A i \in ServiceId : services'[i].project \in Projects <=> Exists(i)'
        BY <1>5, <1>4, <1>6, RowShape, <1>1 DEF NoService, Exists
    <2>2. \A i \in ServiceId : services[i].project \in Projects <=> Exists(i) BY <1>1, RowShape
    <2>3. \A v : v \in LiveSlugs' => v \in LiveSlugs BY <1>6, <2>1, <2>2, SlugsInUse
    <2>4. \A v : v \in LiveSlugs => v \in LiveSlugs' \/ v \in SlugsOf(p)
        BY <1>7, <2>1, <2>2, SlugsInUse
    <2>5. \A q \in Projects \ {p} : \A v : v \in SlugsOf(q) => v \in SlugsOf(q)'
        BY <1>4, SlugsInUse
    <2> QED BY <2>3, <2>4, <2>5
<1>9. RowStep BY <1>2 DEF RowStep
<1>10. /\ \A m : Active(m)' <=> Active(m)
       /\ \A u \in Tasks : /\ Reconciles(u)' <=> Reconciles(u)
                           /\ TearsDown(u)' <=> TearsDown(u)
    BY <1>9, RowStepKeeps
<1>11. disturbed \subseteq disturbed' /\ pending \subseteq pending' BY <1>2
<1>12. RowsAreSound'
    <2>1. \A i \in ServiceId : Exists(i)' => services'[i].project \in projects' /\ i < nextId
        BY <1>1, <1>2, <1>6 DEF RowsAreSound
    <2>2. org = "deleted" => projects' = {} BY <1>1, <1>2 DEF RowsAreSound
    <2> QED BY <1>2, <2>1, <2>2 DEF RowsAreSound
<1>13. NamespaceIsSound'
    <2>1. disturbed' = {} => disturbed = {} BY <1>11
    <2>2. Namespace \in pending' <=> Namespace \in pending BY <1>2, <1>3
    <2> QED BY <1>1, <1>2, <1>10, <2>1, <2>2 DEF NamespaceIsSound
<1>14. SlugIsUsedOnce'
    <2> SUFFICES ASSUME NEW v \in Slugs \ disturbed'
                 PROVE /\ \A i, j \in ServiceId : Exists(i)' /\ Exists(j)' /\ services'[i].slug = v
                                                  /\ services'[j].slug = v => i = j
                       /\ \A q \in Projects : v \in listed'[q] => v \in SlugsOf(q)' \/ org = "deleted"
                       /\ v \in pending' \/ (\E t \in Tasks : TearsDown(t) /\ task[t].name = v) =>
                             v \notin LiveSlugs'
        BY <1>2, <1>10 DEF SlugIsUsedOnce
    <2>1. /\ \A i, j \in ServiceId : Exists(i) /\ Exists(j) /\ services[i].slug = v
                                     /\ services[j].slug = v => i = j
          /\ \A q \in Projects : v \in listed[q] => v \in SlugsOf(q) \/ org = "deleted"
          /\ v \in pending \/ (\E t \in Tasks : TearsDown(t) /\ task[t].name = v) =>
                v \notin LiveSlugs
        BY <1>11 DEF ObjectsInv, SlugIsUsedOnce
    <2>2. \A i, j \in ServiceId : Exists(i)' /\ Exists(j)' /\ services'[i].slug = v
                                  /\ services'[j].slug = v => i = j
        BY <1>6, <2>1
    <2>3. \A q \in Projects : v \in listed'[q] => q # p /\ v \in listed[q]
        BY <1>1, <1>2 DEF TypeOK, NotListed
    <2>4. \A q \in Projects : v \in listed'[q] => v \in SlugsOf(q)' \/ org = "deleted"
        BY <1>8, <2>1, <2>3
    <2>5. ASSUME v \in listed[p], v \in LiveSlugs' PROVE FALSE
        <3>1. PICK i \in ServiceId : services'[i].project \in Projects /\ services'[i].slug = v
            BY <2>5, SlugsInUse
        <3>2. Exists(i)' BY <3>1 DEF Exists
        <3>3. Exists(i) /\ services[i].slug = v /\ services[i].project # p BY <1>6, <3>1, <3>2
        <3>4. org # "deleted" BY <1>1, <3>3 DEF RowsAreSound
        <3>5. v \in SlugsOf(p) BY <2>1, <2>5, <3>4
        <3>6. PICK j \in ServiceId : services[j].project = p /\ services[j].slug = v
            BY <3>5, SlugsInUse
        <3>7. Exists(j) BY <3>6 DEF Exists
        <3> QED BY <2>1, <3>3, <3>6, <3>7
    <2> QED BY <1>2, <1>8, <2>1, <2>2, <2>4, <2>5
<1>15. AppliedAlone'
    <2> SUFFICES ASSUME NEW t \in Tasks, Reconciles(t), task[t].name \notin disturbed'
                 PROVE /\ org = "exists"
                       /\ \E i \in ServiceId : /\ Exists(i)' /\ services'[i].slug = task[t].name
                                               /\ services'[i].spec.type = task[t].spec.type
                       /\ \A u \in Tasks : u # t /\ task[u] # NoTask =>
                             task[u].name \notin {task[t].name, Namespace}
        BY <1>2, <1>10 DEF AppliedAlone
    <2>1. task[t].name \notin disturbed BY <1>11
    <2>2. PICK i \in ServiceId : /\ Exists(i) /\ services[i].slug = task[t].name
                                 /\ services[i].spec.type = task[t].spec.type
        BY <2>1 DEF ObjectsInv, AppliedAlone
    <2>3. Applying(task[t].name) BY DEF Applying, Reconciles
    <2>4. task[t].name \notin SlugsOf(p) BY <1>2, <2>3
    <2>5. services[i].project # p BY <2>2, <2>4, SlugsInUse
    <2>6. Exists(i)' /\ services'[i] = services[i] BY <1>7, <2>2, <2>5
    <2> QED BY <2>1, <2>2, <2>6 DEF ObjectsInv, AppliedAlone
<1>16. TypesFit' BY <1>2, <1>6, <1>11 DEF ObjectsInv, TypesFit
<1>17. GoneIsClean'
    <2> SUFFICES ASSUME NEW w \in Slugs \ disturbed'
                 PROVE \/ w \in LiveSlugs' \cup pending' \/ Active(w)
                       \/ Namespace \in pending' \/ Active(Namespace) \/ ns = "terminating"
                       \/ objects[w] = {}
        BY <1>2, <1>10 DEF GoneIsClean
    <2>1. w \in SlugsOf(p) => w \in pending' BY <1>2
    <2> QED BY <1>8, <1>11, <2>1 DEF ObjectsInv, GoneIsClean
<1> QED BY <1>5, <1>9, <1>12, <1>13, <1>14, <1>15, <1>16, <1>17, RowStepKeeps DEF ObjectsInv

(* All rows go, and the namespace is to follow.                               *)
LEMMA DeleteOrgKeeps ==
    ASSUME ObjectsInv, DeleteOrg PROVE ObjectsInv'
<1>1. TypeOK /\ NamespaceIsSound /\ TasksAreSound BY DEF ObjectsInv
<1>2. /\ org = "exists" /\ org' = "deleted" /\ projects' = {}
      /\ services' = Without(Projects)
      /\ pending' = pending \cup {Namespace}
      /\ disturbed' = disturbed \cup {w \in Slugs : Applying(w)}
      /\ nextId' = nextId /\ listed' = listed /\ faults' = faults
      /\ task' = task /\ objects' = objects /\ ns' = ns /\ live' = live
    BY DEF DeleteOrg, clusterVars
<1>3. /\ \A i \in ServiceId : services'[i] = NoService
      /\ services' \in [ServiceId -> [project : Projects, slug : Slugs, spec : ServiceSpec]
                                     \cup {NoService}]
    BY <1>1, <1>2 DEF Without, TypeOK, NoService
<1>4. TypeOK' BY <1>1, <1>2, <1>3 DEF TypeOK
<1>5. \A i \in ServiceId : ~Exists(i)' BY <1>3 DEF Exists, NoService
<1>6. LiveSlugs' = {} BY <1>3, SlugsInUse DEF NoService
<1>7. RowStep BY <1>2 DEF RowStep
<1>8. /\ \A m : Active(m)' <=> Active(m)
      /\ \A u \in Tasks : Reconciles(u)' <=> Reconciles(u)
    BY <1>7, RowStepKeeps
<1>9. RowsAreSound' BY <1>2, <1>5 DEF RowsAreSound
<1>10. NamespaceIsSound' BY <1>1, <1>2 DEF NamespaceIsSound
<1>11. SlugIsUsedOnce' BY <1>2, <1>5, <1>6 DEF SlugIsUsedOnce
<1>12. AppliedAlone'
    <2>1. \A t \in Tasks : Reconciles(t) => task[t].name \in disturbed'
        BY <1>1, <1>2 DEF TasksAreSound, Applying, Reconciles
    <2> QED BY <1>2, <1>8, <2>1 DEF AppliedAlone
<1>13. TypesFit' BY <1>5 DEF TypesFit
<1>14. GoneIsClean' BY <1>2 DEF GoneIsClean
<1> QED BY <1>4, <1>7, <1>9, <1>10, <1>11, <1>12, <1>13, <1>14, RowStepKeeps DEF ObjectsInv

(* A lost teardown marks what it was for.                                     *)
LEMMA LossKeeps ==
    ASSUME ObjectsInv, NEW n \in Name, LoseTeardown(n) PROVE ObjectsInv'
<1>1. TypeOK /\ RowsAreSound /\ NamespaceIsSound BY DEF ObjectsInv
<1>2. /\ n \in pending /\ pending' = pending \ {n} /\ disturbed' = disturbed \cup Scope(n)
      /\ org' = org /\ projects' = projects /\ services' = services /\ nextId' = nextId
      /\ listed' = listed /\ Fault
      /\ task' = task /\ objects' = objects /\ ns' = ns /\ live' = live
    BY DEF LoseTeardown, clusterVars, rowVars
<1>3. Scope(n) \subseteq Slugs BY DEF Scope
<1>4. faults' \in 0..MaxFaults BY <1>1, <1>2 DEF TypeOK, Fault
<1>5. TypeOK' BY <1>1, <1>2, <1>3, <1>4 DEF TypeOK
<1>6. /\ LiveSlugs' = LiveSlugs
      /\ \A q : SlugsOf(q)' = SlugsOf(q)
      /\ \A j : Exists(j)' <=> Exists(j)
    BY <1>2, SameRows
<1>7. RowStep BY <1>2 DEF RowStep
<1>8. /\ \A m : Active(m)' <=> Active(m)
      /\ \A u \in Tasks : /\ Reconciles(u)' <=> Reconciles(u)
                          /\ TearsDown(u)' <=> TearsDown(u)
    BY <1>7, RowStepKeeps
<1>9. disturbed \subseteq disturbed' BY <1>2
<1>10. RowsAreSound' BY <1>1, <1>2, <1>6 DEF RowsAreSound
<1>11. NamespaceIsSound'
    <2>1. ns = "active" /\ disturbed' = {} => n # Namespace /\ disturbed = {}
        BY <1>1, <1>2 DEF NamespaceIsSound, Scope
    <2> QED BY <1>1, <1>2, <1>8, <2>1 DEF NamespaceIsSound
<1>12. SlugIsUsedOnce' BY <1>2, <1>6, <1>8, <1>9 DEF ObjectsInv, SlugIsUsedOnce
<1>13. AppliedAlone' BY <1>2, <1>6, <1>8, <1>9 DEF ObjectsInv, AppliedAlone
<1>14. TypesFit' BY <1>2, <1>6, <1>9 DEF ObjectsInv, TypesFit
<1>15. GoneIsClean'
    <2>1. \A w \in Slugs \ disturbed' : n # w /\ n # Namespace BY <1>2 DEF Scope
    <2> QED BY <1>2, <1>6, <1>8, <1>9, <2>1 DEF ObjectsInv, GoneIsClean
<1> QED BY <1>5, <1>7, <1>10, <1>11, <1>12, <1>13, <1>14, <1>15, RowStepKeeps DEF ObjectsInv

------------------------------------------------------------------------------
(* The invariant and the properties that follow.                              *)

(* The invariant holds initially ...                                          *)
LEMMA InitObjects == Init => ObjectsInv
<1> SUFFICES ASSUME Init PROVE ObjectsInv OBVIOUS
<1>1. /\ org = "exists" /\ projects = Projects
      /\ services = [i \in ServiceId |-> NoService] /\ nextId = 1
      /\ listed = [p \in Projects |-> NotListed]
      /\ pending = {}
      /\ task = [t \in Tasks |-> NoTask]
      /\ objects = [n \in Name |-> {}] /\ ns = "absent"
      /\ live = [w \in Slugs |-> NoSpec]
      /\ disturbed = {}
      /\ faults = 0
    BY DEF Init
<1>2. NoTask \in [name : Name, todo : Seq(Call), spec : ServiceSpec \cup {NoSpec}] BY DEF NoTask
<1>3. TypeOK BY <1>1, <1>2 DEF TypeOK
<1>4. \A t \in Tasks : task[t] = NoTask /\ ~Reconciles(t) /\ ~TearsDown(t) BY <1>1, NotRunning
<1>5. \A m : ~Active(m) BY <1>4 DEF Active
<1>6. \A i \in ServiceId : ~Exists(i) BY <1>1 DEF Exists, NoService
<1>7. LiveSlugs = {} BY <1>1, SlugsInUse DEF NoService
<1>8. \A m \in Name : objects[m] = {} BY <1>1
<1>9. TasksAreSound
    <2> SUFFICES ASSUME NEW t \in Tasks
                 PROVE /\ task[t].todo = <<>> /\ Returned(t) >= 0
        BY <1>4 DEF TasksAreSound
    <2>1. task[t].todo = <<>> BY <1>4 DEF NoTask
    <2>2. Program(t) = DeleteNamespace BY <1>4 DEF NoTask, Program
    <2>3. Len(task[t].todo) = 0 BY <2>1
    <2>4. Returned(t) = 1 BY <2>2, <2>3, DeleteNamespaceCalls DEF Returned
    <2> QED BY <2>1, <2>4
<1>10. RowsAreSound BY <1>1, <1>6 DEF RowsAreSound
<1>11. NamespaceIsSound BY <1>1, <1>5, <1>8 DEF NamespaceIsSound
<1>12. PoliciesPrecede BY <1>4 DEF PoliciesPrecede
<1>13. SlugIsUsedOnce
    <2>1. \A p \in Projects, w \in Slugs : w \notin listed[p] BY <1>1 DEF NotListed
    <2> QED BY <1>1, <1>4, <1>6, <2>1 DEF SlugIsUsedOnce
<1>14. AppliedAlone BY <1>4 DEF AppliedAlone
<1>15. LiveIsLeftAlone /\ LiveIsDesired BY <1>1 DEF LiveIsLeftAlone, LiveIsDesired
<1>16. TypesFit BY <1>6 DEF TypesFit
<1>17. GoneIsClean BY <1>8 DEF GoneIsClean
<1>18. CallsHold BY <1>4 DEF CallsHold
<1>19. Isolated /\ SecretRefSatisfied BY <1>8 DEF Isolated, SecretRefSatisfied, Runs
<1> QED BY <1>3, <1>9, <1>10, <1>11, <1>12, <1>13, <1>14, <1>15, <1>16, <1>17, <1>18, <1>19
        DEF ObjectsInv

(* ... and is kept by every step.                                             *)
LEMMA ObjectsStep == ObjectsInv /\ [Next]_vars => ObjectsInv'
<1> SUFFICES ASSUME ObjectsInv, [Next]_vars PROVE ObjectsInv' OBVIOUS
<1>1. ASSUME NEW p \in Projects, NEW w \in Slugs, NEW s \in ServiceSpec, CreateService(p, w, s)
      PROVE ObjectsInv'
    BY <1>1, CreateKeeps
<1>2. ASSUME NEW i \in ServiceId, NEW f \in Settings, ChangeSettings(i, f) PROVE ObjectsInv'
    BY <1>2, SettingsKeep
<1>3. ASSUME NEW p \in Projects,
             ListServices(p) \/ ListServicesFails(p) \/ DeleteProjectFails(p)
      PROVE ObjectsInv'
    BY <1>3, ListingKeeps
<1>4. ASSUME NEW p \in Projects, DeleteProject(p) PROVE ObjectsInv' BY <1>4, DeleteProjectKeeps
<1>5. ASSUME DeleteOrg PROVE ObjectsInv' BY <1>5, DeleteOrgKeeps
<1>6. ASSUME NEW n \in Name, LoseTeardown(n) PROVE ObjectsInv' BY <1>6, LossKeeps
<1>7. ASSUME NEW t \in Tasks, NEW i \in ServiceId, StartReconcile(t, i) PROVE ObjectsInv'
    BY <1>7, ReconcileKeeps
<1>8. ASSUME NEW t \in Tasks, NEW n \in Name, StartTeardown(t, n) PROVE ObjectsInv'
    BY <1>8, TeardownKeeps
<1>9. ASSUME NEW t \in Tasks, CallStep(t) PROVE ObjectsInv' BY <1>9, CallKeeps
<1>10. ASSUME (\E t \in Tasks : ApplyFails(t) \/ DeleteFails(t)) \/ ControllerCrash
       PROVE ObjectsInv'
    BY <1>10, Stopped, StopKeeps DEF ObjectsInv
<1>11. ASSUME NEW w \in Slugs, IssueCertificate(w) PROVE ObjectsInv' BY <1>11, CertificateKeeps
<1>12. ASSUME FinalizeNamespace PROVE ObjectsInv' BY <1>12, FinalizeKeeps
<1>13. CASE UNCHANGED vars
    <2>1. Stops BY <1>13 DEF vars, rowVars, clusterVars, Stops, ObjectsInv, TypeOK
    <2> QED BY <2>1, StopKeeps
<1> QED BY <1>1, <1>2, <1>3, <1>4, <1>5, <1>6, <1>7, <1>8, <1>9, <1>10, <1>11, <1>12, <1>13
        DEF Next, CallStep

(* Every reachable state satisfies the invariant, whatever the goroutines of  *)
(* the controller, the API and the cluster interleave, fail or lose.          *)
THEOREM ObjectsCorrect == Spec => []ObjectsInv
BY InitObjects, ObjectsStep, PTL DEF Spec

(* Every variable keeps its type.                                             *)
THEOREM ObjectsTypes == Spec => []TypeOK
<1>1. ObjectsInv => TypeOK BY DEF ObjectsInv
<1> QED BY <1>1, ObjectsCorrect, PTL

(* As long as the org exists nothing runs in its namespace without the        *)
(* network policy, the quota and the limits (Apply, policies.go).             *)
THEOREM NamespaceIsolated == Spec => []Isolated
<1>1. ObjectsInv => Isolated BY DEF ObjectsInv
<1> QED BY <1>1, ObjectsCorrect, PTL

(* A Deployment or CronJob has the Secret it refers to, in the middle of an   *)
(* Apply or Delete and after one that failed.                                 *)
THEOREM SecretsPrecede == Spec => []SecretRefSatisfied
<1>1. ObjectsInv => SecretRefSatisfied BY DEF ObjectsInv
<1> QED BY <1>1, ObjectsCorrect, PTL

(* What is reported live has exactly the objects that its settings call for.  *)
THEOREM LiveAsDesired == Spec => []LiveIsDesired
<1>1. ObjectsInv => LiveIsDesired BY DEF ObjectsInv
<1> QED BY <1>1, ObjectsCorrect, PTL

(* What is deleted leaves nothing behind once all is quiet.                   *)
THEOREM DeletedGoesAway == Spec => []DeletedIsGone
<1>1. ObjectsInv => DeletedIsGone
    <2> SUFFICES ASSUME ObjectsInv, Quiet
                 PROVE /\ \A w \in Slugs \ (disturbed \cup LiveSlugs) : objects[w] = {}
                       /\ org = "deleted" /\ disturbed = {} => ns = "absent"
        BY DEF DeletedIsGone
    <2>1. pending = {} /\ ns # "terminating" /\ \A t \in Tasks : task[t] = NoTask BY DEF Quiet
    <2>2. \A m : ~Active(m) BY <2>1 DEF Active
    <2>3. \A w \in Slugs \ (disturbed \cup LiveSlugs) : objects[w] = {}
        BY <2>1, <2>2 DEF ObjectsInv, GoneIsClean
    <2>4. org = "deleted" /\ disturbed = {} => ns = "absent"
        BY <2>1, <2>2 DEF ObjectsInv, NamespaceIsSound, TypeOK
    <2> QED BY <2>3, <2>4
<1> QED BY <1>1, ObjectsCorrect, PTL

(* No step takes down a service that exists, as long as its slug is in use    *)
(* once.                                                                      *)
THEOREM ExistingStays == Spec => ExistingKeepsRunning
<1> DEFINE Keeps == \A w \in Slugs \ disturbed' :
                       w \in LiveSlugs /\ w \in LiveSlugs' /\ Runs(w) => Runs(w)'
<1>1. ObjectsInv /\ [Next]_vars => [Keeps]_vars
    <2> SUFFICES ASSUME ObjectsInv, Next, NEW w \in Slugs, w \notin disturbed', w \in LiveSlugs, Runs(w)
                 PROVE Runs(w)'
        OBVIOUS
    <2>1. CASE objects' = objects BY <2>1 DEF Runs
    <2>2. CASE \E t \in Tasks : CallStep(t)
        <3>1. PICK t \in Tasks : CallStep(t) BY <2>2
        <3> DEFINE n == task[t].name
                   c == At(t)
        <3>2. Writes(t, n, c) /\ disturbed' = disturbed /\ task[t] # NoTask BY <3>1, Called
        <3>3. CASE w # n
            <4>1. objects'[w] = objects[w] BY <3>2, <3>3 DEF Writes
            <4> QED BY <4>1 DEF Runs
        <3>4. CASE w = n
            <4>1. Reconciles(t)
                BY <3>2, <3>4 DEF ObjectsInv, SlugIsUsedOnce, TearsDown
            <4>2. ApplyCall(task[t].spec, Returned(t) + 1, c) /\ c \in Call
                BY <3>1, <4>1, CallKinds
            <4> HIDE DEF n, c
            <4>3. /\ c.op \in {"put", "drop", "wait"}
                  /\ c.op = "drop" => c.kind \in {"pvc", "hpa"}
                BY <4>2 DEF ApplyCall, Call
            <4>4. CASE c.op = "put" \/ c.op = "wait"
                <5>1. objects[w] \subseteq objects'[w] BY <3>2, <3>4, <4>4 DEF Writes
                <5> QED BY <5>1 DEF Runs
            <4>5. CASE c.op = "drop"
                <5>1. objects'[w] = objects[w] \ {c.kind} \/ objects'[w] = objects[w]
                    BY <3>2, <3>4, <4>5 DEF Writes
                <5> QED BY <4>3, <4>5, <5>1 DEF Runs
            <4> QED BY <4>3, <4>4, <4>5
        <3> QED BY <3>3, <3>4
    <2>3. CASE \E v \in Slugs : IssueCertificate(v)
        <3>1. \A m \in Name : objects[m] \subseteq objects'[m]
            BY <2>3 DEF IssueCertificate, ObjectsInv, TypeOK
        <3> QED BY <3>1 DEF Runs
    <2>4. CASE FinalizeNamespace
        <3>1. org = "deleted"
            BY <2>4 DEF FinalizeNamespace, ObjectsInv, NamespaceIsSound, TypeOK
        <3>2. PICK i \in ServiceId : services[i].project \in Projects /\ services[i].slug = w
            BY SlugsInUse
        <3>3. Exists(i) BY <3>2 DEF Exists
        <3> QED BY <3>1, <3>3 DEF ObjectsInv, RowsAreSound
    <2> QED
        BY <2>1, <2>2, <2>3, <2>4
        DEF Next, CallStep, CreateService, ChangeSettings, ListServices, ListServicesFails,
            DeleteProject, DeleteProjectFails, DeleteOrg, LoseTeardown, StartReconcile,
            StartTeardown, ApplyFails, DeleteFails, ControllerCrash, clusterVars
<1>2. Spec => [][Keeps]_vars BY <1>1, ObjectsCorrect, PTL DEF Spec
<1> QED BY <1>2 DEF ExistingKeepsRunning
==============================================================================
