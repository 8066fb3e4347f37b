--------------------------- MODULE ManagedDatabase ---------------------------
(* Managed databases: the API handlers that create, scale, back up and delete *)
(* them (internal/api/database_handlers.go, backup_handlers.go), alone or     *)
(* with their project (resource_handlers.go), the databases table             *)
(* (internal/store/databases.go), and in the controller the goroutines that   *)
(* provision, back up and tear them down (internal/controller/processor.go)   *)
(* and the autoscaler loop (internal/controller/dbautoscaler.go).             *)
(*                                                                            *)
(* A request is followed from its handler into the goroutine its notification *)
(* starts; its program counter says what it executes next.  A statement on    *)
(* the table is atomic, and so is the write of one cluster object.            *)
EXTENDS Naturals

CONSTANTS
    Projects,        \* projects of one org
    Slugs,           \* database slugs
    Engines,         \* the engines users ask for
    Tiers,           \* the tiers users ask for
    Features,        \* the sets of options users ask for
    ObjectStore,     \* whether an object store for backups is configured
    MaxDatabases,    \* bound: database rows a behaviour may create
    MaxRequests,     \* bound: API requests a behaviour may contain
    MaxInstances,    \* bound: the instance counts users may ask for
    MaxFaults        \* bound: failed statements and controller deaths

ASSUME DatabaseAssumption ==
    /\ Engines \subseteq {"postgres", "redis"}
    /\ Tiers \subseteq {"standard", "autoscale"}
    /\ Features \subseteq SUBSET {"pooling", "backups"}
    /\ ObjectStore \in BOOLEAN
    /\ MaxDatabases \in Nat /\ MaxRequests \in Nat /\ MaxFaults \in Nat
    /\ MaxInstances \in Nat \ {0}

DbId == 1..MaxDatabases
Request == 1..MaxRequests
Count == 1..MaxInstances

(* The columns a row keeps for life, and the cluster objects of the org's     *)
(* namespace.                                                                 *)
Config == [project : Projects, slug : Slugs, engine : Engines, tier : Tiers,
           min : Count, max : Count, features : Features \cup {{}}]
Cluster == Slugs \X Engines

NoConfig == <<>>

HandlerPC == {"scale", "publish", "td_publish", "bk_publish"}
GoroutinePC == {"load", "provision", "schedule", "wait", "pool", "store", "fail", "teardown",
                "bk_load", "bk_create"}
PC == {"none", "done"} \cup HandlerPC \cup GoroutinePC

VARIABLES
    dbStatus,     \* [DbId -> "none", "creating", "ready", "failed" or "deleted"]
    conf,         \* [DbId -> Config or NoConfig]
    instances,    \* [DbId -> 0 or Count]: the instances column
    uris,         \* [DbId -> which of the connection URI columns are filled]
    pc,           \* [Request -> PC]
    db,           \* [Request -> 0 or DbId]: the database a request is about
    count,        \* [Request -> 0 or Count]: the instances it will write or apply
    deleting,     \* databases whose delete handler has yet to remove the row
    projects,     \* the projects rows
    listing,      \* [Projects -> databases handleDeleteProject has listed, or NotListed]
    notices,      \* databases of deleted projects whose teardown is yet to be published
    doomed,       \* databases for which a user has asked for the deletion
    asked,        \* databases for which a user has asked for a count
    disturbed,    \* history: databases whose requests overlapped, or whose teardown
                  \*          got lost
    nodes,        \* [Cluster -> 0 (no such cluster) or Count]
    archiving,    \* clusters with a backup stanza
    schedules,    \* clusters with a daily ScheduledBackup
    ondemand,     \* clusters with a Backup a user has asked for
    poolers,      \* clusters with a PgBouncer pooler
    up,           \* "up" or "down": the controller process
    todo,         \* the <<database, instances>> the autoscaler has listed
    job,          \* <<phase, database, desired>>: what the autoscaler applies
    faults

rowVars == <<dbStatus, conf, instances, uris>>
clusterVars == <<nodes, archiving, schedules, ondemand, poolers>>
projectVars == <<projects, listing, notices>>
askedVars == <<deleting, doomed, asked, disturbed>>
requestVars == <<pc, db, count, askedVars, projectVars>>
autoscalerVars == <<todo, job>>
vars == <<rowVars, clusterVars, requestVars, autoscalerVars, up, faults>>

NoJob == <<"idle", 0, 0>>
NotListed == {0}

Init ==
    /\ dbStatus = [d \in DbId |-> "none"]
    /\ conf = [d \in DbId |-> NoConfig]
    /\ instances = [d \in DbId |-> 0]
    /\ uris = [d \in DbId |-> {}]
    /\ pc = [r \in Request |-> "none"]
    /\ db = [r \in Request |-> 0]
    /\ count = [r \in Request |-> 0]
    /\ deleting = {} /\ doomed = {} /\ asked = {} /\ disturbed = {}
    /\ projects = Projects /\ listing = [p \in Projects |-> NotListed] /\ notices = {}
    /\ nodes = [c \in Cluster |-> 0]
    /\ archiving = {} /\ schedules = {} /\ ondemand = {} /\ poolers = {}
    /\ up = "down"
    /\ todo = {} /\ job = NoJob
    /\ faults = 0

Exists(d) == dbStatus[d] \notin {"none", "deleted"}

(* naming.DatabaseCluster, and the engine's kind of object: the name does not *)
(* hold the project.                                                          *)
ClusterOf(d) == <<conf[d].slug, conf[d].engine>>

Fault == faults < MaxFaults /\ faults' = faults + 1

(* What is under way for d: requests, other than for backups, until their     *)
(* handler and the goroutine they started are done, and the autoscaler.       *)
Active(d) ==
    \/ d \in deleting
    \/ \E r \in Request :
          db[r] = d /\ pc[r] \notin {"none", "done", "bk_publish", "bk_load", "bk_create"}

Autoscaling(d) == job[2] = d \/ \E x \in todo : x[1] = d

Overlaps(d) == Active(d) \/ Autoscaling(d)

Disturb(D) == disturbed' = disturbed \cup D

------------------------------------------------------------------------------
(* The API.                                                                   *)

(* Mutant: the count is stored as it was sent.                                *)
NoFloor(n) == n

AtLeastOne(n) == IF n < 1 THEN 1 ELSE n

CreateReq == [engine : Engines, tier : Tiers, instances : 0..MaxInstances,
              min : 0..MaxInstances, max : 0..MaxInstances, features : Features]

(* The checks of handleCreateDatabase ...                                     *)
Accepted(q) ==
    /\ q.tier = "autoscale" => q.engine = "postgres" /\ q.max >= AtLeastOne(q.min)
    /\ q.tier = "standard" /\ q.engine = "redis" => AtLeastOne(q.instances) = 1

(* ... and the row it stores; an autoscaled database starts at the floor.     *)
Stored(p, s, q) ==
    LET low == AtLeastOne(IF q.tier = "autoscale" THEN q.min ELSE q.instances)
    IN  [project |-> p, slug |-> s, engine |-> q.engine, tier |-> q.tier, min |-> low,
         max |-> IF q.tier = "autoscale" THEN q.max ELSE low,
         features |-> IF q.engine = "postgres" THEN q.features ELSE {}]

NewConfig ==
    {Stored(p, s, q) : p \in Projects, s \in Slugs, q \in {x \in CreateReq : Accepted(x)}}

IsNextRequest(r) == pc[r] = "none" /\ \A q \in 1..(r - 1) : pc[q] # "none"

IsNextId(d) == dbStatus[d] = "none" /\ \A e \in 1..(d - 1) : dbStatus[e] # "none"

CreateDatabase(r, d, c) ==
    /\ IsNextRequest(r) /\ IsNextId(d) /\ c.project \in projects
    /\ \A e \in DbId : Exists(e) => <<conf[e].project, conf[e].slug>> # <<c.project, c.slug>>
    /\ dbStatus' = [dbStatus EXCEPT ![d] = "creating"]
    /\ conf' = [conf EXCEPT ![d] = c]
    /\ instances' = [instances EXCEPT ![d] = c.min]
    /\ pc' = [pc EXCEPT ![r] = "publish"]
    /\ db' = [db EXCEPT ![r] = d]
    /\ UNCHANGED <<uris, count, askedVars, projectVars, clusterVars, autoscalerVars, up, faults>>

(* handleScaleDatabase reads the row; a field left out is taken from it.      *)
ReadForScale(r, d, n) ==
    /\ IsNextRequest(r) /\ Exists(d)
    /\ conf[d].engine = "redis" => n \in {0, 1}
    /\ count' = [count EXCEPT ![r] = IF n = 0 THEN instances[d] ELSE n]
    /\ asked' = IF n = 0 THEN asked ELSE asked \cup {d}
    /\ pc' = [pc EXCEPT ![r] = "scale"]
    /\ db' = [db EXCEPT ![r] = d]
    /\ Disturb({d} \cap {e \in DbId : Overlaps(e)})
    /\ UNCHANGED <<deleting, doomed, projectVars, rowVars, clusterVars, autoscalerVars, up, faults>>

(* SetDatabaseScaling writes every field back and marks the row for the       *)
(* controller; no row, no effect.                                             *)
SetDatabaseScaling(r) ==
    /\ pc[r] = "scale"
    /\ IF Exists(db[r])
       THEN /\ instances' = [instances EXCEPT ![db[r]] = count[r]]
            /\ dbStatus' = [dbStatus EXCEPT ![db[r]] = "creating"]
       ELSE UNCHANGED <<instances, dbStatus>>
    /\ pc' = [pc EXCEPT ![r] = "publish"]
    /\ UNCHANGED <<conf, uris, db, count, askedVars, projectVars, clusterVars, autoscalerVars, up, faults>>

(* NOTIFY reaches a controller that is up.                                    *)
Publish(r, from, to) ==
    /\ pc[r] = from
    /\ pc' = [pc EXCEPT ![r] = IF up = "up" THEN to ELSE "done"]

PublishDatabase(r) ==
    /\ Publish(r, "publish", "load")
    /\ UNCHANGED <<db, count, askedVars, projectVars, rowVars, clusterVars, autoscalerVars, up, faults>>

(* handleTriggerBackup asks for the option, not for the status.               *)
ReadForBackup(r, d) ==
    /\ IsNextRequest(r) /\ Exists(d) /\ "backups" \in conf[d].features
    /\ pc' = [pc EXCEPT ![r] = "bk_publish"]
    /\ db' = [db EXCEPT ![r] = d]
    /\ UNCHANGED <<count, askedVars, projectVars, rowVars, clusterVars, autoscalerVars, up, faults>>

PublishBackup(r) ==
    /\ Publish(r, "bk_publish", "bk_load")
    /\ UNCHANGED <<db, count, askedVars, projectVars, rowVars, clusterVars, autoscalerVars, up, faults>>

(* handleDeleteDatabase: the teardown is requested first ...                  *)
ReadForDelete(r, d) ==
    /\ IsNextRequest(r) /\ Exists(d)
    /\ pc' = [pc EXCEPT ![r] = "td_publish"]
    /\ db' = [db EXCEPT ![r] = d]
    /\ doomed' = doomed \cup {d}
    /\ Disturb({d} \cap {e \in DbId : Overlaps(e)})
    /\ UNCHANGED <<count, deleting, asked, projectVars, rowVars, clusterVars, autoscalerVars, up, faults>>

PublishTeardown(r) ==
    /\ Publish(r, "td_publish", "teardown")
    /\ deleting' = deleting \cup {db[r]}
    /\ Disturb(IF up = "up" THEN {} ELSE {db[r]})
    /\ UNCHANGED <<db, count, doomed, asked, projectVars, rowVars, clusterVars, autoscalerVars, up, faults>>

(* ... and the row removed after.                                             *)
DeleteDatabase(d) ==
    /\ d \in deleting
    /\ deleting' = deleting \ {d}
    /\ dbStatus' = [dbStatus EXCEPT ![d] = IF Exists(d) THEN "deleted" ELSE @]
    /\ UNCHANGED <<conf, instances, uris, pc, db, count, doomed, asked, disturbed, projectVars,
                   clusterVars, autoscalerVars, up, faults>>

(* handleDeleteProject goes the other way round: it lists the databases,      *)
(* where an error is taken for an empty list, ...                             *)
DatabasesOf(p) == {d \in DbId : Exists(d) /\ conf[d].project = p}

ListDatabases(p) ==
    /\ p \in projects /\ listing[p] = NotListed
    /\ \/ listing' = [listing EXCEPT ![p] = DatabasesOf(p)] /\ UNCHANGED faults
       \/ listing' = [listing EXCEPT ![p] = {}] /\ Fault
    /\ UNCHANGED <<projects, notices, pc, db, count, askedVars, rowVars, clusterVars,
                   autoscalerVars, up>>

(* Mutant: the databases are not torn down with their project.                *)
DeleteProjectOnly(p) ==
    /\ listing[p] # NotListed
    /\ projects' = projects \ {p}
    /\ dbStatus' = [d \in DbId |-> IF d \in DatabasesOf(p) THEN "deleted" ELSE dbStatus[d]]
    /\ listing' = [listing EXCEPT ![p] = NotListed]
    /\ doomed' = doomed \cup DatabasesOf(p)
    /\ Disturb({d \in DatabasesOf(p) : d \notin listing[p] \/ Overlaps(d)})
    /\ UNCHANGED <<conf, instances, uris, pc, db, count, deleting, asked, notices, clusterVars,
                   autoscalerVars, up, faults>>

(* ... removes the project, with which all its databases go, ...              *)
DeleteProject(p) ==
    /\ listing[p] # NotListed
    /\ projects' = projects \ {p}
    /\ dbStatus' = [d \in DbId |-> IF d \in DatabasesOf(p) THEN "deleted" ELSE dbStatus[d]]
    /\ notices' = notices \cup listing[p]
    /\ listing' = [listing EXCEPT ![p] = NotListed]
    /\ doomed' = doomed \cup DatabasesOf(p)
    /\ Disturb({d \in DatabasesOf(p) : d \notin listing[p] \/ Overlaps(d)})
    /\ UNCHANGED <<conf, instances, uris, pc, db, count, deleting, asked, clusterVars,
                   autoscalerVars, up, faults>>

(* ... and notifies for those it had listed.                                  *)
PublishNotice(r, d) ==
    /\ IsNextRequest(r) /\ d \in notices
    /\ notices' = notices \ {d}
    /\ pc' = [pc EXCEPT ![r] = IF up = "up" THEN "teardown" ELSE "done"]
    /\ db' = [db EXCEPT ![r] = d]
    /\ Disturb(IF up = "up" THEN {} ELSE {d})
    /\ UNCHANGED <<count, deleting, doomed, asked, projects, listing, rowVars, clusterVars,
                   autoscalerVars, up, faults>>

(* A statement of a handler errors.  A lost notification is only logged, so   *)
(* that the delete goes on; a failed write ends the handler.                  *)
HandlerFails(r) ==
    /\ pc[r] \in HandlerPC
    /\ Fault
    /\ pc' = [pc EXCEPT ![r] = "done"]
    /\ deleting' = IF pc[r] = "td_publish" THEN deleting \cup {db[r]} ELSE deleting
    /\ Disturb({db[r]})
    /\ UNCHANGED <<db, count, doomed, asked, projectVars, rowVars, clusterVars, autoscalerVars, up>>

DeleteFails(d) ==
    /\ d \in deleting
    /\ Fault
    /\ deleting' = deleting \ {d}
    /\ UNCHANGED <<pc, db, count, doomed, asked, disturbed, projectVars, rowVars, clusterVars,
                   autoscalerVars, up>>

DeleteProjectFails(p) ==
    /\ listing[p] # NotListed
    /\ Fault
    /\ listing' = [listing EXCEPT ![p] = NotListed]
    /\ UNCHANGED <<pc, db, count, askedVars, projects, notices, rowVars, clusterVars,
                   autoscalerVars, up>>

NoticeFails(d) ==
    /\ d \in notices
    /\ Fault
    /\ notices' = notices \ {d}
    /\ Disturb({d})
    /\ UNCHANGED <<pc, db, count, deleting, doomed, asked, projects, listing, rowVars, clusterVars,
                   autoscalerVars, up>>

ApiStep ==
    \/ \E r \in Request, d \in DbId :
          \/ \E c \in NewConfig : CreateDatabase(r, d, c)
          \/ \E n \in 0..MaxInstances : ReadForScale(r, d, n)
          \/ ReadForBackup(r, d)
          \/ ReadForDelete(r, d)
          \/ PublishNotice(r, d)
    \/ \E r \in Request :
          \/ SetDatabaseScaling(r)
          \/ PublishDatabase(r)
          \/ PublishBackup(r)
          \/ PublishTeardown(r)
    \/ \E d \in DbId : DeleteDatabase(d)
    \/ \E p \in Projects : ListDatabases(p) \/ DeleteProject(p)

------------------------------------------------------------------------------
(* The controller's goroutines.                                               *)

Goto(r, next) == pc' = [pc EXCEPT ![r] = next]

StartController ==
    /\ up = "down"
    /\ up' = "up"
    /\ UNCHANGED <<rowVars, clusterVars, requestVars, autoscalerVars, faults>>

(* reconcileDatabase loads the row, if it is still there.                     *)
LoadDatabase(r) ==
    /\ pc[r] = "load"
    /\ IF Exists(db[r])
       THEN /\ count' = [count EXCEPT ![r] = instances[db[r]]]
            /\ Goto(r, "provision")
       ELSE Goto(r, "done") /\ UNCHANGED count
    /\ UNCHANGED <<db, askedVars, projectVars, rowVars, clusterVars, autoscalerVars, up, faults>>

(* ProvisionPostgres applies the Cluster object as a whole: what its spec     *)
(* leaves out is removed.                                                     *)
ProvisionPostgres(c, n, features) ==
    /\ nodes' = [nodes EXCEPT ![c] = n]
    /\ archiving' = IF "backups" \in features /\ ObjectStore THEN archiving \cup {c}
                                                             ELSE archiving \ {c}

(* A volume, a Deployment of one instance and a Service.                      *)
ProvisionRedis(c) ==
    /\ nodes' = [nodes EXCEPT ![c] = 1]
    /\ UNCHANGED archiving

(* provisionEngine.                                                           *)
Provision(r) ==
    LET d == db[r]  c == ClusterOf(d) IN
    /\ pc[r] = "provision"
    /\ IF conf[d].engine = "redis" THEN ProvisionRedis(c)
       ELSE ProvisionPostgres(c, count[r], conf[d].features)
    /\ Goto(r, IF "backups" \in conf[d].features /\ ObjectStore THEN "schedule" ELSE "wait")
    /\ UNCHANGED <<schedules, ondemand, poolers, db, count, askedVars, projectVars, rowVars,
                   autoscalerVars, up, faults>>

applyScheduledBackup(r) ==
    /\ pc[r] = "schedule"
    /\ schedules' = schedules \cup {ClusterOf(db[r])}
    /\ Goto(r, "wait")
    /\ UNCHANGED <<nodes, archiving, ondemand, poolers, db, count, askedVars, projectVars, rowVars,
                   autoscalerVars, up, faults>>

(* WaitPostgresReady, WaitRedisReady: the cluster reports a ready instance.   *)
WaitReady(r) ==
    /\ pc[r] = "wait"
    /\ nodes[ClusterOf(db[r])] > 0
    /\ Goto(r, IF conf[db[r]].engine = "postgres" THEN "pool" ELSE "store")
    /\ UNCHANGED <<db, count, askedVars, projectVars, rowVars, clusterVars, autoscalerVars, up, faults>>

ReconcilePgBouncer(r) ==
    /\ pc[r] = "pool"
    /\ poolers' = IF "pooling" \in conf[db[r]].features THEN poolers \cup {ClusterOf(db[r])}
                                                        ELSE poolers \ {ClusterOf(db[r])}
    /\ Goto(r, "store")
    /\ UNCHANGED <<nodes, archiving, schedules, ondemand, db, count, askedVars, projectVars, rowVars,
                   autoscalerVars, up, faults>>

(* Mutant: an error is logged and the goroutine goes on.                      *)
ReconcileErrorIgnored(r) ==
    /\ pc[r] \in {"provision", "schedule", "wait", "pool"}
    /\ Goto(r, CASE pc[r] \in {"provision", "schedule"} -> "wait"
                 [] pc[r] = "wait" -> "pool"
                 [] pc[r] = "pool" -> "store")
    /\ UNCHANGED <<db, count, askedVars, projectVars, rowVars, clusterVars, autoscalerVars, up,
                   faults>>

(* The cluster refuses an object, or is not ready in time.                    *)
ReconcileFails(r) ==
    /\ pc[r] \in {"provision", "schedule", "wait", "pool"}
    /\ Goto(r, "fail")
    /\ UNCHANGED <<db, count, askedVars, projectVars, rowVars, clusterVars, autoscalerVars, up, faults>>

(* The URIs of an instance: a read endpoint when it was loaded with several   *)
(* instances, a pooled one when it has a pooler.                              *)
UrisOf(r) ==
    {"rw"} \cup (IF conf[db[r]].engine = "postgres" /\ count[r] > 1 THEN {"read"} ELSE {})
           \cup (IF "pooling" \in conf[db[r]].features THEN {"pooled"} ELSE {})

SetDatabaseConnection(r) ==
    /\ pc[r] = "store"
    /\ IF Exists(db[r])
       THEN /\ uris' = [uris EXCEPT ![db[r]] = UrisOf(r)]
            /\ dbStatus' = [dbStatus EXCEPT ![db[r]] = "ready"]
       ELSE UNCHANGED <<uris, dbStatus>>
    /\ Goto(r, "done")
    /\ UNCHANGED <<conf, instances, db, count, askedVars, projectVars, clusterVars, autoscalerVars, up,
                   faults>>

(* Mutant: the failure is only logged.                                        *)
FailureForgotten(r) ==
    /\ pc[r] = "fail"
    /\ Goto(r, "done")
    /\ UNCHANGED <<db, count, askedVars, projectVars, rowVars, clusterVars, autoscalerVars, up, faults>>

FailDatabase(r) ==
    /\ pc[r] = "fail"
    /\ dbStatus' = IF Exists(db[r]) THEN [dbStatus EXCEPT ![db[r]] = "failed"] ELSE dbStatus
    /\ Goto(r, "done")
    /\ UNCHANGED <<conf, instances, uris, db, count, askedVars, projectVars, clusterVars,
                   autoscalerVars, up, faults>>

(* Mutant: the pooler is left in front of the deleted cluster.                *)
DeleteClusterOnly(c) ==
    /\ nodes' = [nodes EXCEPT ![c] = 0]
    /\ archiving' = archiving \ {c}
    /\ UNCHANGED poolers

(* The pooler and the cluster; the schedule and the backups are left.         *)
DeletePostgres(c) ==
    /\ poolers' = poolers \ {c}
    /\ nodes' = [nodes EXCEPT ![c] = 0]
    /\ archiving' = archiving \ {c}

DeleteRedis(c) ==
    /\ nodes' = [nodes EXCEPT ![c] = 0]
    /\ UNCHANGED <<archiving, poolers>>

(* teardownDatabase works from its payload: the row may be gone or not.       *)
TeardownDatabase(r) ==
    LET c == ClusterOf(db[r]) IN
    /\ pc[r] = "teardown"
    /\ IF c[2] = "redis" THEN DeleteRedis(c) ELSE DeletePostgres(c)
    /\ Goto(r, "done")
    /\ UNCHANGED <<schedules, ondemand, db, count, askedVars, projectVars, rowVars, autoscalerVars,
                   up, faults>>

(* backupDatabase loads the row for the name of the cluster ...               *)
LoadForBackup(r) ==
    /\ pc[r] = "bk_load"
    /\ Goto(r, IF Exists(db[r]) THEN "bk_create" ELSE "done")
    /\ UNCHANGED <<db, count, askedVars, projectVars, rowVars, clusterVars, autoscalerVars, up, faults>>

(* ... and creates a Backup, whether the cluster is there or not.             *)
TriggerBackup(r) ==
    /\ pc[r] = "bk_create"
    /\ ondemand' = ondemand \cup {ClusterOf(db[r])}
    /\ Goto(r, "done")
    /\ UNCHANGED <<nodes, archiving, schedules, poolers, db, count, askedVars, projectVars, rowVars,
                   autoscalerVars, up, faults>>

(* A statement errors, or a teardown is refused after it removed the pooler   *)
(* or before: logged, never retried.                                          *)
GoroutineFails(r) ==
    /\ pc[r] \in {"load", "store", "fail", "teardown", "bk_load", "bk_create"}
    /\ Fault
    /\ poolers' \in IF pc[r] = "teardown" THEN {poolers, poolers \ {ClusterOf(db[r])}}
                                          ELSE {poolers}
    /\ Goto(r, "done")
    /\ Disturb({db[r]})
    /\ UNCHANGED <<nodes, archiving, schedules, ondemand, db, count, deleting, doomed, asked,
                   projectVars, rowVars, autoscalerVars, up>>

GoroutineStep(r) ==
    \/ LoadDatabase(r)
    \/ Provision(r)
    \/ applyScheduledBackup(r)
    \/ WaitReady(r)
    \/ ReconcilePgBouncer(r)
    \/ ReconcileFails(r)
    \/ SetDatabaseConnection(r)
    \/ FailDatabase(r)
    \/ TeardownDatabase(r)
    \/ LoadForBackup(r)
    \/ TriggerBackup(r)

------------------------------------------------------------------------------
(* The autoscaler: one loop, which lists the ready autoscaled databases and   *)
(* then takes them one by one as they were when it listed them.               *)

ListAutoscaleDatabases ==
    /\ up = "up" /\ todo = {} /\ job = NoJob
    /\ todo' = {<<d, instances[d]>> :
                  d \in {e \in DbId : dbStatus[e] = "ready" /\ conf[e].tier = "autoscale"}}
    /\ todo' # {}
    /\ Disturb({x[1] : x \in todo'} \cap {d \in DbId : Active(d)})
    /\ UNCHANGED <<job, pc, db, count, deleting, doomed, asked, projectVars, rowVars, clusterVars, up,
                   faults>>

(* Mutant: the ceiling is off by one.                                         *)
DesiredPastMax(d, n) ==
    {to \in 1..MaxInstances : \/ n <= conf[d].max /\ to = n + 1
                              \/ n > conf[d].min /\ to = n - 1}

(* One more above 70% of the requested CPU, one fewer below 30%: the load is  *)
(* whatever it is, the bounds are the row's.                                  *)
Desired(d, n) ==
    {to \in 1..MaxInstances : \/ n < conf[d].max /\ to = n + 1
                              \/ n > conf[d].min /\ to = n - 1}

(* autoscaleOne returns: no metrics, load in between, at a bound, cooling     *)
(* down, or the cluster refused the object.                                   *)
SkipDatabase(x) ==
    /\ x \in todo /\ job = NoJob
    /\ todo' = todo \ {x}
    /\ UNCHANGED <<job, rowVars, clusterVars, requestVars, up, faults>>

(* The new size is applied without the backup stanza ...                      *)
AutoscaleProvision(x, to) ==
    /\ x \in todo /\ job = NoJob
    /\ to \in Desired(x[1], x[2])
    /\ ProvisionPostgres(ClusterOf(x[1]), to, {})
    /\ todo' = todo \ {x}
    /\ job' = <<"persist", x[1], to>>
    /\ UNCHANGED <<schedules, ondemand, poolers, rowVars, requestVars, up, faults>>

(* Mutant: the new size is not stored.                                        *)
InstancesNotStored ==
    /\ job[1] = "persist"
    /\ job' = NoJob
    /\ UNCHANGED <<todo, rowVars, clusterVars, requestVars, up, faults>>

(* ... and then stored, whatever the row says by now.                         *)
SetDatabaseInstances ==
    /\ job[1] = "persist"
    /\ instances' = IF Exists(job[2]) THEN [instances EXCEPT ![job[2]] = job[3]] ELSE instances
    /\ job' = NoJob
    /\ UNCHANGED <<dbStatus, conf, uris, todo, clusterVars, requestVars, up, faults>>

PersistFails ==
    /\ job[1] = "persist"
    /\ Fault
    /\ job' = NoJob
    /\ UNCHANGED <<todo, rowVars, clusterVars, requestVars, up>>

AutoscalerStep ==
    \/ ListAutoscaleDatabases
    \/ \E x \in todo : SkipDatabase(x) \/ \E to \in Count : AutoscaleProvision(x, to)
    \/ SetDatabaseInstances

ControllerCrash ==
    /\ up = "up"
    /\ Fault
    /\ up' = "down"
    /\ pc' = [r \in Request |-> IF pc[r] \in GoroutinePC THEN "done" ELSE pc[r]]
    /\ todo' = {} /\ job' = NoJob
    /\ Disturb({db[r] : r \in {q \in Request : pc[q] \in GoroutinePC}})
    /\ UNCHANGED <<db, count, deleting, doomed, asked, projectVars, rowVars, clusterVars>>

Failure ==
    \/ \E r \in Request : HandlerFails(r) \/ GoroutineFails(r)
    \/ \E d \in DbId : DeleteFails(d) \/ NoticeFails(d)
    \/ \E p \in Projects : DeleteProjectFails(p)
    \/ PersistFails
    \/ ControllerCrash

Next ==
    \/ ApiStep
    \/ StartController
    \/ \E r \in Request : GoroutineStep(r)
    \/ AutoscalerStep
    \/ Failure

Spec == Init /\ [][Next]_vars

(* The controller is restarted by systemd and its goroutines run on: every    *)
(* wait has a timeout.  An API handler runs to its end.  Nothing makes users  *)
(* or the autoscaler act.                                                     *)
Fairness ==
    /\ WF_vars(StartController)
    /\ \A r \in Request :
          /\ WF_vars(\/ SetDatabaseScaling(r)
                     \/ PublishDatabase(r)
                     \/ PublishBackup(r)
                     \/ PublishTeardown(r))
          /\ WF_vars(GoroutineStep(r))
    /\ \A d \in DbId : WF_vars(DeleteDatabase(d))

FairSpec == Spec /\ Fairness

------------------------------------------------------------------------------
(* Properties.                                                                *)

(* Every variable has its type.                                               *)
TypeOK ==
    /\ dbStatus \in [DbId -> {"none", "creating", "ready", "failed", "deleted"}]
    /\ conf \in [DbId -> Config \cup {NoConfig}]
    /\ instances \in [DbId -> 0..MaxInstances]
    /\ \A d \in DbId : dbStatus[d] # "none" => conf[d] \in Config /\ instances[d] # 0
    /\ uris \in [DbId -> SUBSET {"rw", "read", "pooled"}]
    /\ pc \in [Request -> PC]
    /\ db \in [Request -> 0..MaxDatabases]
    /\ \A r \in Request : pc[r] # "none" => db[r] # 0 /\ dbStatus[db[r]] # "none"
    /\ count \in [Request -> 0..MaxInstances]
    /\ deleting \subseteq doomed /\ doomed \subseteq {d \in DbId : dbStatus[d] # "none"}
    /\ asked \subseteq DbId
    /\ nodes \in [Cluster -> 0..MaxInstances]
    /\ archiving \subseteq Cluster /\ schedules \subseteq Cluster
    /\ ondemand \subseteq Cluster /\ poolers \subseteq Cluster
    /\ projects \subseteq Projects /\ notices \subseteq doomed /\ disturbed \subseteq DbId
    /\ listing \in [Projects -> (SUBSET DbId) \cup {NotListed}]
    /\ up \in {"up", "down"}
    /\ todo \subseteq DbId \X Count
    /\ job \in ({"persist"} \X DbId \X Count) \cup {NoJob}
    /\ faults \in 0..MaxFaults

(* The row d is the only one its cluster was ever named after, and nobody has *)
(* asked for its deletion.                                                    *)
Sole(d) ==
    /\ Exists(d) /\ d \notin doomed
    /\ \A e \in DbId \ {d} : dbStatus[e] # "none" => ClusterOf(e) # ClusterOf(d)

(* A ready database is there, with the endpoints its row advertises:          *)
(* handleDatabaseConnection hands out the URIs of a ready row, whatever       *)
(* failed, raced or was autoscaled before.  One that is not autoscaled also   *)
(* archives and is backed up daily, if it was created with backups.           *)
ReadyIsServed ==
    \A d \in DbId : dbStatus[d] = "ready" /\ Sole(d) =>
        LET c == ClusterOf(d) IN
        /\ nodes[c] > 0
        /\ "rw" \in uris[d]
        /\ "pooled" \in uris[d] <=> c \in poolers
        /\ conf[d].tier = "standard" /\ "backups" \in conf[d].features /\ ObjectStore =>
              c \in archiving \cap schedules

(* A scale request "triggers a re-reconcile" (database_handlers.go): a ready  *)
(* database has the instances its row says, if its requests came one after    *)
(* the other and the autoscaler is not between its two writes; and "read_uri  *)
(* is present only for HA databases", unless the autoscaler resizes them.     *)
ReadyIsScaled ==
    faults = 0 => \A d \in DbId \ disturbed : dbStatus[d] = "ready" /\ Sole(d) /\ job[2] # d =>
        /\ nodes[ClusterOf(d)] = instances[d]
        /\ conf[d].tier = "standard" => ("read" \in uris[d] <=> instances[d] > 1)

(* A deleted database is gone, deleted alone or with its project, before or   *)
(* after its row (handleDeleteDatabase, handleDeleteProject,                  *)
(* teardownDatabase), once its handler and its goroutines are done; unless    *)
(* something else was working on it or its teardown got lost.                 *)
DeletedIsGone ==
    \A d \in DbId \ disturbed :
        /\ dbStatus[d] = "deleted" /\ ~Overlaps(d) /\ d \notin notices
        /\ \A e \in DbId \ {d} : dbStatus[e] # "none" => ClusterOf(e) # ClusterOf(d)
        => nodes[ClusterOf(d)] = 0 /\ ClusterOf(d) \notin archiving \cup poolers

(* autoscaleOne keeps an autoscaled database, the row and the cluster, within *)
(* its bounds, though it works from the row it listed earlier and the row is  *)
(* provisioned and torn down meanwhile; only a user can ask for more.         *)
AutoscaleInBounds ==
    \A d \in DbId : Exists(d) /\ conf[d].tier = "autoscale" /\ d \notin asked =>
        /\ instances[d] \in conf[d].min..conf[d].max
        /\ Sole(d) => nodes[ClusterOf(d)] \in {0} \cup (conf[d].min..conf[d].max)

(* Something will reconcile d: a goroutine, or a handler whose notification   *)
(* will find the controller up.                                               *)
Provisioning(d) ==
    \E r \in Request : db[r] = d /\
        (\/ pc[r] \in {"load", "provision", "schedule", "wait", "pool", "store", "fail"}
         \/ pc[r] \in {"scale", "publish"} /\ up = "up")

(* A database that is "creating" and that something will reconcile is never   *)
(* dropped half way: reconcileDatabase leaves it only with its URIs stored,   *)
(* its row failed or gone, whatever other requests for it, teardowns, and the *)
(* autoscaler do, unless a statement fails or the controller dies.            *)
CreatingNotDropped ==
    [][\A d \in DbId : dbStatus[d] = "creating" /\ Provisioning(d) /\ faults' = faults =>
          Provisioning(d)' \/ dbStatus'[d] # "creating"]_vars

(* A database whose notification reached the controller leaves "creating":    *)
(* reconcileDatabase ends by storing the URIs or by failing the row, unless a *)
(* statement fails or the controller dies.                                    *)
DeliveredProvisionEnds ==
    \A d \in DbId, f \in 0..MaxFaults :
        /\ faults = f /\ dbStatus[d] = "creating"
        /\ \E r \in Request : pc[r] = "load" /\ db[r] = d
        ~> dbStatus[d] # "creating" \/ faults # f

------------------------------------------------------------------------------
(* What the repository's own words promise and its code does not keep.        *)

(* A database created with backups goes on archiving while it is ready:       *)
(* "continuous backups" (README.md).                                          *)
BackupsContinue ==
    \A d \in DbId : dbStatus[d] = "ready" /\ Sole(d) /\ "backups" \in conf[d].features =>
        ClusterOf(d) \in archiving

==============================================================================
