--------------------------- MODULE WorkloadObjects ---------------------------
(* The cluster objects of an org's services: Apply and Delete object by       *)
(* object (internal/k8s), the deletion of projects and of the org             *)
(* (internal/api/resource_handlers.go) and the goroutines of the controller   *)
(* that reconcile and tear down (internal/controller/processor.go).           *)
(*                                                                            *)
(* A workload is named by the slug of its service in the org's namespace.     *)
(* Every goroutine writes one object per step, and any two interleave.        *)
(* Previews, databases and registry credentials are left out.                 *)
EXTENDS Naturals, Sequences, FiniteSets, TLC

CONSTANTS
    Projects,     \* the projects the org has at first
    Slugs,        \* slugs of services
    Namespace,    \* names the org's namespace, as a slug names a workload
    Types,        \* service types in use, among web, worker and cron
    Settings,     \* settings in use: sets of disk, autoscale and suspended
    Tasks,        \* goroutines of the controller that may run at a time
    MaxServices,  \* bound: service rows ever created
    MaxFaults     \* bound: lost notifications, failing deletes, crashes

(* Stands for the project of a service that does not exist (any more).        *)
NoProject == "none"

ASSUME ObjectsAssumption ==
    /\ Types \subseteq {"web", "worker", "cron"}
    /\ Settings \subseteq SUBSET {"disk", "autoscale", "suspended"}
    /\ Namespace \notin Slugs
    /\ NoProject \notin Projects
    /\ MaxServices \in Nat /\ MaxFaults \in Nat

ServiceId == 1..MaxServices

(* What Apply uses of a ServiceSpec: static sites are applied like web        *)
(* services, and no setting reaches a cron job.                               *)
ServiceSpec == [type : Types \ {"cron"}, features : Settings]
               \cup [type : Types \cap {"cron"}, features : {{}}]

(* The services row of a service that does not exist.                         *)
NoSpec == [type |-> "none", features |-> {}]
NoService == [project |-> NoProject, slug |-> Namespace, spec |-> NoSpec]

Kind == {"env", "cronjob", "pvc", "deployment", "hpa", "cert", "routes", "tls"}

hasDisk(s) == "disk" \in s.features

autoscaled(s) == "autoscale" \in s.features /\ ~hasDisk(s) /\ "suspended" \notin s.features

------------------------------------------------------------------------------
(* The programs of the goroutines: the objects they write, in order.          *)

Put(k) == [op |-> "put", kind |-> k]
Drop(k) == [op |-> "drop", kind |-> k]
WaitForRollout == [op |-> "wait", kind |-> "deployment"]

(* The quota, the limits and the network policy count as one object: they are *)
(* written one after the other, before anything runs.                         *)
applyNamespacePolicies == Put("policies")
applyEnvSecret == Put("env")
applyCronJob == Put("cronjob")
reconcileDisk(s) == IF hasDisk(s) THEN Put("pvc") ELSE Drop("pvc")
applyDeployment == Put("deployment")
reconcileAutoscaler(s) == IF autoscaled(s) THEN Put("hpa") ELSE Drop("hpa")

(* applyCertificate, then applyService and applyIngressRoute: the Service and *)
(* its two routes count as one object too.                                    *)
Routing == <<Put("cert"), Put("routes")>>

IsRoutable(s) == s.type = "web"

(* Mutant: the policies come last.                                            *)
ApplyPoliciesLast(s) ==
    <<Put("namespace"), applyEnvSecret, applyDeployment, applyNamespacePolicies>>

(* Mutant: what a service no longer has is left in place.                     *)
ApplyOnlyAdds(s) ==
    <<Put("namespace"), applyNamespacePolicies, applyEnvSecret>>
    \o IF s.type = "cron" THEN <<applyCronJob>> ELSE
       (IF hasDisk(s) THEN <<Put("pvc")>> ELSE <<>>)
       \o <<applyDeployment>>
       \o (IF autoscaled(s) THEN <<Put("hpa")>> ELSE <<>>)
       \o (IF IsRoutable(s) THEN Routing ELSE <<>>)
       \o <<WaitForRollout>>

Apply(s) ==
    <<Put("namespace"), applyNamespacePolicies, applyEnvSecret>>
    \o IF s.type = "cron" THEN <<applyCronJob>> ELSE
       <<reconcileDisk(s), applyDeployment, reconcileAutoscaler(s)>>
       \o (IF IsRoutable(s) THEN Routing ELSE <<>>)
       \o <<WaitForRollout>>

(* Mutant: the Secret goes before what refers to it.                          *)
DeleteSecretFirst ==
    <<Drop("env"), Drop("deployment"), Drop("cronjob"), Drop("hpa"), Drop("pvc"),
      Drop("routes"), Drop("cert"), Drop("tls")>>

(* Mutant: the TLS Secret goes before its certificate.                        *)
DeleteCertificateLast ==
    <<Drop("deployment"), Drop("cronjob"), Drop("hpa"), Drop("pvc"), Drop("env"),
      Drop("routes"), Drop("tls"), Drop("cert")>>

Delete ==
    <<Drop("deployment"), Drop("cronjob"), Drop("hpa"), Drop("pvc"), Drop("env"),
      Drop("routes"), Drop("cert"), Drop("tls")>>

DeleteNamespace == <<Drop("namespace")>>

------------------------------------------------------------------------------
VARIABLES
    org,          \* "exists" or "deleted": the org's row
    projects,     \* SUBSET Projects: the projects rows
    services,     \* [ServiceId -> row or NoService]
    nextId,       \* the id the next service gets
    listed,       \* [Projects -> slugs handleDeleteProject has listed, or NotListed]
    pending,      \* SUBSET Name: resource teardowns notified and not yet taken up
    task,         \* [Tasks -> the goroutine's name, what it has left to do, its spec]
    objects,      \* [Name -> SUBSET Kind], the namespace's own objects included
    ns,           \* "absent", "active" or "terminating"
    live,         \* [Slugs -> the spec last reported live, if nothing has started
                  \*           to work on the workload since, or NoSpec]
    disturbed,    \* history: names where activities overlapped or a teardown got lost
    faults

rowVars == <<org, projects, services, nextId, listed>>
clusterVars == <<objects, ns>>
vars == <<rowVars, pending, task, clusterVars, live, disturbed, faults>>

Name == Slugs \cup {Namespace}
NotListed == {Namespace}
NoTask == [name |-> Namespace, todo |-> <<>>, spec |-> NoSpec]

Init ==
    /\ org = "exists" /\ projects = Projects
    /\ services = [i \in ServiceId |-> NoService] /\ nextId = 1
    /\ listed = [p \in Projects |-> NotListed]
    /\ pending = {}
    /\ task = [t \in Tasks |-> NoTask]
    /\ objects = [n \in Name |-> {}] /\ ns = "absent"
    /\ live = [w \in Slugs |-> NoSpec]
    /\ disturbed = {}
    /\ faults = 0

Exists(i) == services[i].project # NoProject

SlugsOf(p) == {services[i].slug : i \in {j \in ServiceId : services[j].project = p}}

LiveSlugs == UNION {SlugsOf(p) : p \in Projects}

Applying(w) == \E t \in Tasks : task[t].name = w /\ task[t].spec # NoSpec

Active(n) == \E t \in Tasks : task[t] # NoTask /\ task[t].name = n

(* The workloads a name stands for.                                           *)
Scope(n) == IF n = Namespace THEN Slugs ELSE {n}

Fault == faults < MaxFaults /\ faults' = faults + 1

------------------------------------------------------------------------------
(* The API.                                                                   *)

(* A service with its first settings.  A slug is unique in its project.  One *)
(* that another project uses, or that is still being torn down, names the    *)
(* workload of both.                                                          *)
CreateService(p, w, s) ==
    /\ p \in projects /\ w \notin SlugsOf(p) /\ nextId <= MaxServices
    /\ services' = [services EXCEPT ![nextId] = [project |-> p, slug |-> w, spec |-> s]]
    /\ nextId' = nextId + 1
    /\ disturbed' = IF \/ w \in LiveSlugs \cup pending
                       \/ Active(w)
                       \/ \E q \in Projects : w \in listed[q]
                    THEN disturbed \cup {w} ELSE disturbed
    /\ UNCHANGED <<org, projects, listed, pending, task, clusterVars, live, faults>>

(* handleScale, handleAttachDisk, handleDetachDisk, setSuspended.             *)
ChangeSettings(i, f) ==
    /\ Exists(i) /\ services[i].spec.type # "cron" /\ services[i].spec.features # f
    /\ services' = [services EXCEPT ![i].spec.features = f]
    /\ UNCHANGED <<org, projects, nextId, listed, pending, task, clusterVars, live, disturbed,
                   faults>>

(* Mutant: the list is not restricted to the project.                         *)
ListAllServices(p) ==
    /\ p \in projects /\ listed[p] = NotListed
    /\ listed' = [listed EXCEPT ![p] = LiveSlugs]
    /\ UNCHANGED <<org, projects, services, nextId, pending, task, clusterVars, live, disturbed,
                   faults>>

(* handleDeleteProject first collects what it will tear down ...              *)
ListServices(p) ==
    /\ p \in projects /\ listed[p] = NotListed
    /\ listed' = [listed EXCEPT ![p] = SlugsOf(p)]
    /\ UNCHANGED <<org, projects, services, nextId, pending, task, clusterVars, live, disturbed,
                   faults>>

(* ... where an error is taken for an empty list ...                          *)
ListServicesFails(p) ==
    /\ p \in projects /\ listed[p] = NotListed
    /\ Fault
    /\ listed' = [listed EXCEPT ![p] = {}]
    /\ disturbed' = disturbed \cup SlugsOf(p)
    /\ UNCHANGED <<org, projects, services, nextId, pending, task, clusterVars, live>>

(* ON DELETE CASCADE.                                                         *)
Without(gone) ==
    [i \in ServiceId |-> IF services[i].project \in gone THEN NoService ELSE services[i]]

(* ... then deletes the row, with which the services go, and notifies.  What  *)
(* is being applied, or was created meanwhile, escapes.                       *)
DeleteProject(p) ==
    /\ listed[p] # NotListed
    /\ projects' = projects \ {p}
    /\ services' = Without({p})
    /\ pending' = pending \cup listed[p]
    /\ listed' = [listed EXCEPT ![p] = NotListed]
    /\ disturbed' = disturbed \cup {w \in SlugsOf(p) : w \notin listed[p] \/ Applying(w)}
    /\ UNCHANGED <<org, nextId, task, clusterVars, live, faults>>

DeleteProjectFails(p) ==
    /\ listed[p] # NotListed
    /\ Fault
    /\ listed' = [listed EXCEPT ![p] = NotListed]
    /\ UNCHANGED <<org, projects, services, nextId, pending, task, clusterVars, live, disturbed>>

DeleteOrg ==
    /\ org = "exists"
    /\ org' = "deleted"
    /\ projects' = {}
    /\ services' = Without(Projects)
    /\ pending' = pending \cup {Namespace}
    /\ disturbed' = disturbed \cup {w \in Slugs : Applying(w)}
    /\ UNCHANGED <<nextId, listed, task, clusterVars, live, faults>>

(* The notification fails, or the controller does not listen.                 *)
LoseTeardown(n) ==
    /\ n \in pending
    /\ Fault
    /\ pending' = pending \ {n}
    /\ disturbed' = disturbed \cup Scope(n)
    /\ UNCHANGED <<rowVars, task, clusterVars, live>>

------------------------------------------------------------------------------
(* The controller.                                                            *)

Start(t, n, program, s) ==
    /\ task[t] = NoTask
    /\ task' = [task EXCEPT ![t] = [name |-> n, todo |-> program, spec |-> s]]
    /\ live' = [w \in Slugs |-> IF w \in Scope(n) THEN NoSpec ELSE live[w]]

(* reconcile loads the service; without a row it fails the deploy.            *)
StartReconcile(t, i) ==
    LET w == services[i].slug  s == services[i].spec IN
    /\ Exists(i)
    /\ Start(t, w, Apply(s), s)
    /\ disturbed' = IF Active(w) \/ Active(Namespace) THEN disturbed \cup {w} ELSE disturbed
    /\ UNCHANGED <<rowVars, pending, clusterVars, faults>>

(* resourceTeardown works from its payload: the rows are gone.                *)
StartTeardown(t, n) ==
    /\ n \in pending
    /\ pending' = pending \ {n}
    /\ Start(t, n, IF n = Namespace THEN DeleteNamespace ELSE Delete, NoSpec)
    /\ disturbed' = disturbed \cup {w \in Scope(n) : Applying(w)}
    /\ UNCHANGED <<rowVars, clusterVars, faults>>

Current(t) == Head(task[t].todo)

Todo(t, op) == task[t].todo # <<>> /\ Current(t).op = op

(* One call returned without an error; after the last, the deploy is live.    *)
Advance(t) ==
    IF Len(task[t].todo) > 1
    THEN /\ task' = [task EXCEPT ![t].todo = Tail(@)]
         /\ UNCHANGED live
    ELSE /\ task' = [task EXCEPT ![t] = NoTask]
         /\ live' = IF task[t].spec = NoSpec THEN live
                                            ELSE [live EXCEPT ![task[t].name] = task[t].spec]

(* Mutant: the policies are named like the workload.                          *)
OwnerIsWorkload(n, k) == n

(* Policies belong to the namespace, all else to the workload.                *)
Owner(n, k) == IF k = "policies" THEN Namespace ELSE n

(* A namespace that is terminating takes updates and no new objects.          *)
PutObject(t) ==
    LET k == Current(t).kind  n == Owner(task[t].name, k) IN
    /\ Todo(t, "put") /\ k # "namespace"
    /\ ns = "active" \/ (ns = "terminating" /\ k \in objects[n])
    /\ objects' = [objects EXCEPT ![n] = @ \cup {k}]
    /\ Advance(t)
    /\ UNCHANGED <<rowVars, pending, ns, disturbed, faults>>

ensureNamespace(t) ==
    /\ Todo(t, "put") /\ Current(t).kind = "namespace"
    /\ ns' = IF ns = "absent" THEN "active" ELSE ns
    /\ Advance(t)
    /\ UNCHANGED <<rowVars, pending, objects, disturbed, faults>>

(* A missing object is ignored.                                               *)
DropObject(t) ==
    /\ Todo(t, "drop") /\ Current(t).kind # "namespace"
    /\ objects' = [objects EXCEPT ![task[t].name] = @ \ {Current(t).kind}]
    /\ Advance(t)
    /\ UNCHANGED <<rowVars, pending, ns, disturbed, faults>>

DropNamespace(t) ==
    /\ Todo(t, "drop") /\ Current(t).kind = "namespace"
    /\ ns' = IF ns = "active" THEN "terminating" ELSE ns
    /\ Advance(t)
    /\ UNCHANGED <<rowVars, pending, objects, disturbed, faults>>

waitForRollout(t) ==
    /\ Todo(t, "wait") /\ "deployment" \in objects[task[t].name]
    /\ Advance(t)
    /\ UNCHANGED <<rowVars, pending, clusterVars, disturbed, faults>>

(* Apply returns at its first error: the cluster refuses an object, or the    *)
(* rollout does not complete in time.                                         *)
ApplyFails(t) ==
    /\ task[t].spec # NoSpec
    /\ task' = [task EXCEPT ![t] = NoTask]
    /\ UNCHANGED <<rowVars, pending, clusterVars, live, disturbed, faults>>

(* So does Delete, and is not tried again.                                    *)
DeleteFails(t) ==
    /\ task[t] # NoTask /\ task[t].spec = NoSpec
    /\ Fault
    /\ task' = [task EXCEPT ![t] = NoTask]
    /\ disturbed' = disturbed \cup Scope(task[t].name)
    /\ UNCHANGED <<rowVars, pending, clusterVars, live>>

ControllerCrash ==
    /\ \E t \in Tasks : task[t] # NoTask
    /\ Fault
    /\ task' = [t \in Tasks |-> NoTask]
    /\ disturbed' = disturbed \cup
          UNION {Scope(task[t].name) :
                    t \in {u \in Tasks : task[u] # NoTask /\ task[u].spec = NoSpec}}
    /\ UNCHANGED <<rowVars, pending, clusterVars, live>>

------------------------------------------------------------------------------
(* The cluster.                                                               *)

(* cert-manager writes the TLS Secret of a certificate, and writes it again   *)
(* when it is missing.                                                        *)
IssueCertificate(w) ==
    /\ ns = "active" /\ "cert" \in objects[w] /\ "tls" \notin objects[w]
    /\ objects' = [objects EXCEPT ![w] = @ \cup {"tls"}]
    /\ UNCHANGED <<rowVars, pending, task, ns, live, disturbed, faults>>

FinalizeNamespace ==
    /\ ns = "terminating"
    /\ ns' = "absent"
    /\ objects' = [n \in Name |-> {}]
    /\ UNCHANGED <<rowVars, pending, task, live, disturbed, faults>>

Next ==
    \/ \E p \in Projects, w \in Slugs, s \in ServiceSpec : CreateService(p, w, s)
    \/ \E i \in ServiceId, f \in Settings : ChangeSettings(i, f)
    \/ \E p \in Projects :
          \/ ListServices(p)
          \/ ListServicesFails(p)
          \/ DeleteProject(p)
          \/ DeleteProjectFails(p)
    \/ DeleteOrg
    \/ \E n \in Name : LoseTeardown(n)
    \/ \E t \in Tasks, i \in ServiceId : StartReconcile(t, i)
    \/ \E t \in Tasks, n \in Name : StartTeardown(t, n)
    \/ \E t \in Tasks :
          \/ PutObject(t)
          \/ ensureNamespace(t)
          \/ DropObject(t)
          \/ DropNamespace(t)
          \/ waitForRollout(t)
          \/ ApplyFails(t)
          \/ DeleteFails(t)
    \/ ControllerCrash
    \/ \E w \in Slugs : IssueCertificate(w)
    \/ FinalizeNamespace

Spec == Init /\ [][Next]_vars

(* Goroutines are alike, and so are projects.                                 *)
Symmetry == Permutations(Tasks) \cup Permutations(Projects)

------------------------------------------------------------------------------
(* Properties.                                                                *)

(* What a step of a goroutine asks of the cluster.                            *)
Call == [op : {"put", "drop", "wait"}, kind : Kind \cup {"policies", "namespace"}]

(* Every variable has its type; the policies are the namespace's own.         *)
TypeOK ==
    /\ org \in {"exists", "deleted"}
    /\ projects \subseteq Projects
    /\ services \in [ServiceId -> [project : Projects, slug : Slugs, spec : ServiceSpec]
                                     \cup {NoService}]
    /\ nextId \in 1..(MaxServices + 1)
    /\ listed \in [Projects -> (SUBSET Slugs) \cup {NotListed}]
    /\ pending \subseteq Name
    /\ task \in [Tasks -> [name : Name, todo : Seq(Call), spec : ServiceSpec \cup {NoSpec}]]
    /\ objects \in [Name -> SUBSET (Kind \cup {"policies"})]
    /\ \A w \in Slugs : objects[w] \subseteq Kind
    /\ ns \in {"absent", "active", "terminating"}
    /\ live \in [Slugs -> ServiceSpec \cup {NoSpec}]
    /\ disturbed \subseteq Slugs
    /\ faults \in 0..MaxFaults

Runs(w) == objects[w] \cap {"deployment", "cronjob"} # {}

(* "NetworkPolicy that isolate[s] an org's namespace from other tenants"      *)
(* (policies.go): as long as the org exists nothing runs in its namespace     *)
(* without the policies, whatever overlaps, fails or crashes.                 *)
Isolated == org = "exists" /\ (\E w \in Slugs : Runs(w)) => "policies" \in objects[Namespace]

(* "The Secret is always applied (even when empty) so the Deployment's        *)
(* secretRef is satisfied" (reconcile.go): what runs has the Secret it refers *)
(* to, in the middle of an Apply or Delete and after one that failed.         *)
SecretRefSatisfied == \A w \in Slugs \ disturbed : Runs(w) => "env" \in objects[w]

Desired(s) ==
    {"env"} \cup
    IF s.type = "cron" THEN {"cronjob"}
    ELSE {"deployment"} \cup (IF hasDisk(s) THEN {"pvc"} ELSE {})
                       \cup (IF autoscaled(s) THEN {"hpa"} ELSE {})
                       \cup (IF IsRoutable(s) THEN {"cert", "routes"} ELSE {})

(* A live deploy has the objects its settings call for and no others: none    *)
(* that earlier settings, a failed Apply, or a deleted service of the same    *)
(* slug has left.  That no disk is autoscaled is part of it.                  *)
LiveIsDesired ==
    \A w \in Slugs \ disturbed : live[w] # NoSpec =>
        objects[w] \ {"tls"} = Desired(live[w])

Quiet == pending = {} /\ ns # "terminating" /\ \A t \in Tasks : task[t] = NoTask

(* Deleting a project or the org removes what its services run (resource      *)
(* handlers and resourceTeardown): nothing is left once all is quiet, not     *)
(* even a Secret that cert-manager wrote, unless a deploy was being applied   *)
(* or a teardown was lost.                                                    *)
DeletedIsGone ==
    Quiet => /\ \A w \in Slugs \ (disturbed \cup LiveSlugs) : objects[w] = {}
             /\ org = "deleted" /\ disturbed = {} => ns = "absent"

(* Nothing takes down a service that exists: neither the deletion of another  *)
(* project nor a failed deploy, as long as the slug is in use once.           *)
ExistingKeepsRunning ==
    [][\A w \in Slugs \ disturbed' :
          w \in LiveSlugs /\ w \in LiveSlugs' /\ Runs(w) => Runs(w)']_vars

==============================================================================
