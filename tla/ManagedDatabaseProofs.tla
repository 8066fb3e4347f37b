------------------------ MODULE ManagedDatabaseProofs ------------------------
(* Managed databases, for any number of projects, databases, requests,        *)
(* instances and faults.                                                      *)
EXTENDS ManagedDatabase, TLAPS

USE DatabaseAssumption

------------------------------------------------------------------------------
(* The inductive invariant.                                                   *)

Known(d) == dbStatus[d] # "none"

(* Nobody else's cluster was ever named like that of d.                       *)
OwnName(d) == \A e \in DbId \ {d} : Known(e) => ClusterOf(e) # ClusterOf(d)

WorkPC == {"scale", "publish", "load", "provision", "schedule", "wait", "pool", "store", "fail"}
ProvisionedPC == {"schedule", "wait", "pool", "store"}

Works(r, d) == db[r] = d /\ pc[r] \in WorkPC
TearsDown(r, d) == db[r] = d /\ pc[r] \in {"td_publish", "teardown"}

(* What the checks of handleCreateDatabase and handleScaleDatabase leave in a *)
(* row.                                                                       *)
RowIsSound ==
    \A d \in DbId : Known(d) =>
        /\ conf[d].tier = "autoscale" => conf[d].engine = "postgres"
        /\ conf[d].engine = "redis" => conf[d].features = {} /\ instances[d] = 1

(* Counts on their way into a row or a cluster are positive, one for Redis.   *)
CountIsSound ==
    \A r \in Request : pc[r] \in {"scale", "provision"} \cup ProvisionedPC =>
        /\ count[r] # 0
        /\ conf[db[r]].engine = "redis" => count[r] = 1

(* Rows that are listed somewhere exist or did.                               *)
ListedIsKnown ==
    /\ \A p \in Projects : listing[p] # NotListed =>
          \A d \in listing[p] : Known(d) /\ conf[d].project = p
    /\ \A x \in todo : Known(x[1]) /\ conf[x[1]].tier = "autoscale"
    /\ job # NoJob => Known(job[2]) /\ conf[job[2]].tier = "autoscale"

(* Only PostgreSQL clusters archive or are pooled, and a cluster nobody asked *)
(* for is not there.                                                          *)
ClusterIsSound ==
    /\ \A c \in archiving \cup poolers : c[2] # "redis"
    /\ \A r \in Request : pc[r] = "pool" => conf[db[r]].engine # "redis"
    /\ \A c \in Cluster : (\A d \in DbId : Known(d) => ClusterOf(d) # c) =>
          nodes[c] = 0 /\ c \notin archiving \cup poolers

(* What is torn down or gone was asked to be.                                 *)
GoneIsDoomed ==
    /\ \A d \in DbId : dbStatus[d] = "deleted" => d \in doomed
    /\ \A d \in notices : dbStatus[d] = "deleted"
    /\ \A r \in Request : pc[r] \in {"td_publish", "teardown"} => db[r] \in doomed

Bounds(d) == conf[d].min..conf[d].max

(* Without a user asking for a count, every count is within the bounds.       *)
BoundsAreKept ==
    \A d \in DbId \ asked : Known(d) /\ conf[d].tier = "autoscale" =>
        /\ instances[d] \in Bounds(d)
        /\ \A r \in Request : db[r] = d /\ pc[r] \in {"scale", "provision"} => count[r] \in Bounds(d)
        /\ \A x \in todo : x[1] = d => x[2] \in Bounds(d)
        /\ job[2] = d => job[3] \in Bounds(d)
        /\ OwnName(d) => nodes[ClusterOf(d)] \in {0} \cup Bounds(d)

BackedUp(d) == conf[d].tier = "standard" /\ "backups" \in conf[d].features /\ ObjectStore

(* How far a goroutine has come with a database that nobody takes down.       *)
ProvisionIsKept ==
    \A r \in Request : LET d == db[r]  c == ClusterOf(db[r]) IN
        pc[r] \in ProvisionedPC /\ Sole(d) =>
            /\ nodes[c] > 0
            /\ BackedUp(d) => c \in archiving
            /\ BackedUp(d) /\ pc[r] # "schedule" => c \in schedules
            /\ pc[r] = "store" => ("pooling" \in conf[d].features <=> c \in poolers)

(* A ready row says what the cluster has.                                     *)
ReadyIsKept ==
    \A d \in DbId : dbStatus[d] = "ready" /\ Sole(d) =>
        LET c == ClusterOf(d) IN
        /\ nodes[c] > 0
        /\ "rw" \in uris[d]
        /\ "pooled" \in uris[d] <=> "pooling" \in conf[d].features
        /\ "pooling" \in conf[d].features <=> c \in poolers
        /\ BackedUp(d) => c \in archiving \cap schedules

Going(d) ==
    \/ dbStatus[d] = "deleted" \/ d \in deleting \cup notices
    \/ \E r \in Request : TearsDown(r, d)

(* An undisturbed database has one thing done to it at a time.                *)
OneAtATime ==
    \A d \in DbId \ disturbed :
        /\ \A r, q \in Request : Works(r, d) /\ Works(q, d) => r = q
        /\ \A r \in Request : Works(r, d) => ~Autoscaling(d) /\ ~Going(d)
        /\ Going(d) => ~Autoscaling(d)

(* The teardown of an undisturbed database is to come or was done.            *)
TornDown ==
    \A d \in DbId \ disturbed : Going(d) /\ OwnName(d) =>
        \/ d \in notices \/ \E r \in Request : TearsDown(r, d)
        \/ nodes[ClusterOf(d)] = 0 /\ ClusterOf(d) \notin archiving \cup poolers

(* The counts of an undisturbed database agree.                               *)
CountsAgree ==
    faults = 0 => \A d \in DbId \ disturbed : Sole(d) =>
        /\ \A r \in Request : db[r] = d =>
              /\ pc[r] \in {"provision"} \cup ProvisionedPC => count[r] = instances[d]
              /\ pc[r] \in ProvisionedPC => nodes[ClusterOf(d)] = instances[d]
        /\ job[2] = d => nodes[ClusterOf(d)] = job[3]
        /\ dbStatus[d] = "ready" /\ job[2] # d => nodes[ClusterOf(d)] = instances[d]
        /\ dbStatus[d] = "ready" /\ conf[d].tier = "standard" =>
              ("read" \in uris[d] <=> instances[d] > 1)

DatabaseInv ==
    /\ TypeOK
    /\ RowIsSound
    /\ CountIsSound
    /\ ListedIsKnown
    /\ ClusterIsSound
    /\ GoneIsDoomed
    /\ BoundsAreKept
    /\ ProvisionIsKept
    /\ ReadyIsKept
    /\ OneAtATime
    /\ TornDown
    /\ CountsAgree

------------------------------------------------------------------------------
(* Facts about rows and programs.                                             *)

LEMMA ZeroIsNoDatabase == DbId \subseteq Nat /\ 0 \notin DbId /\ DbId \subseteq 0..MaxDatabases
BY DEF DbId

LEMMA CountIsPositive == Count = (0..MaxInstances) \ {0}
BY DEF Count

LEMMA ProgramCounters ==
    /\ WorkPC \subseteq PC /\ ProvisionedPC \subseteq WorkPC /\ GoroutinePC \subseteq PC
    /\ PC = WorkPC \cup {"none", "done", "td_publish", "teardown", "bk_publish", "bk_load", "bk_create"}
BY DEF WorkPC, ProvisionedPC, PC, GoroutinePC, HandlerPC

(* A request that was made is about a row that exists or did.                 *)
LEMMA RequestShape ==
    ASSUME TypeOK, NEW r \in Request, pc[r] # "none"
    PROVE  db[r] \in DbId /\ Known(db[r])
BY DEF TypeOK, DbId, Known

(* Such a row names a cluster.                                                *)
LEMMA RowShape ==
    ASSUME TypeOK, NEW d \in DbId, Known(d)
    PROVE  /\ conf[d] \in Config /\ instances[d] \in Count
           /\ ClusterOf(d) \in Cluster /\ ClusterOf(d)[2] = conf[d].engine
           /\ conf[d].engine \in {"postgres", "redis"}
<1>1. conf[d] \in Config /\ instances[d] \in Count
    BY CountIsPositive DEF TypeOK, Known
<1>2. conf[d].slug \in Slugs /\ conf[d].engine \in Engines
    BY <1>1 DEF Config
<1> QED BY <1>1, <1>2 DEF ClusterOf, Cluster

(* What handleCreateDatabase stores.                                          *)
LEMMA NewRowShape ==
    ASSUME NEW c \in NewConfig
    PROVE  /\ c \in Config /\ c.min <= c.max
           /\ c.tier = "autoscale" => c.engine = "postgres"
           /\ c.engine = "redis" => c.features = {} /\ c.min = 1
<1>1. PICK p \in Projects, s \in Slugs, q \in CreateReq : Accepted(q) /\ c = Stored(p, s, q)
    BY DEF NewConfig
<1> DEFINE low == AtLeastOne(IF q.tier = "autoscale" THEN q.min ELSE q.instances)
<1>2. low \in Count /\ (q.tier # "autoscale" => low = AtLeastOne(q.instances))
    BY <1>1 DEF CreateReq, AtLeastOne, Count
<1>3. q.tier = "autoscale" => q.engine = "postgres" /\ q.max \in Count /\ low <= q.max
    BY <1>1 DEF Accepted, CreateReq, AtLeastOne, Count
<1>4. q.engine = "redis" => low = 1
    BY <1>1, <1>2, <1>3 DEF Accepted, CreateReq
<1>5. /\ c.project = p /\ c.slug = s /\ c.engine = q.engine /\ c.tier = q.tier /\ c.min = low
      /\ c.max = (IF q.tier = "autoscale" THEN q.max ELSE low)
      /\ c.features = (IF q.engine = "postgres" THEN q.features ELSE {})
      /\ c = [project |-> p, slug |-> s, engine |-> q.engine, tier |-> q.tier, min |-> low,
              max |-> IF q.tier = "autoscale" THEN q.max ELSE low,
              features |-> IF q.engine = "postgres" THEN q.features ELSE {}]
    BY <1>1 DEF Stored
<1> HIDE DEF low
<1>6. c.min <= c.max /\ c.max \in Count
    BY <1>2, <1>3, <1>5 DEF Count
<1>7. q.engine \in Engines /\ q.tier \in Tiers /\ q.features \in Features
    BY <1>1 DEF CreateReq
<1>8. c \in Config
    BY <1>2, <1>5, <1>6, <1>7 DEF Config
<1> QED BY <1>3, <1>4, <1>5, <1>6, <1>8

(* The groups of variables are always seen through.                           *)
USE DEF rowVars, clusterVars, projectVars, askedVars, requestVars, autoscalerVars

(* As long as the table is left alone, so is what its rows stand for.         *)
LEMMA RowsSame ==
    ASSUME UNCHANGED rowVars
    PROVE  /\ dbStatus' = dbStatus /\ conf' = conf /\ instances' = instances /\ uris' = uris
           /\ \A d : /\ Known(d)' = Known(d) /\ Exists(d)' = Exists(d)
                     /\ ClusterOf(d)' = ClusterOf(d) /\ OwnName(d)' = OwnName(d)
                     /\ Bounds(d)' = Bounds(d) /\ BackedUp(d)' = BackedUp(d)
BY DEF Known, Exists, ClusterOf, OwnName, Bounds, BackedUp

(* What a step leaves of a row is its columns for life.                       *)
LEMMA RowsKept ==
    ASSUME conf' = conf, \A d \in DbId : Known(d)' = Known(d)
    PROVE  \A d \in DbId : /\ ClusterOf(d)' = ClusterOf(d) /\ OwnName(d)' = OwnName(d)
                           /\ Bounds(d)' = Bounds(d) /\ BackedUp(d)' = BackedUp(d)
BY DEF ClusterOf, OwnName, Bounds, BackedUp

(* Nothing is under way for a row that no request is about.                   *)
LEMMA Idle ==
    ASSUME TypeOK, GoneIsDoomed, NEW d \in DbId, Exists(d), ~Active(d)
    PROVE  ~Going(d) /\ \A r \in Request : ~Works(r, d)
BY DEF TypeOK, GoneIsDoomed, Exists, Active, Going, Works, TearsDown, WorkPC

(* Once a fault has happened, the counts need not agree.                      *)
LEMMA AfterAFault == TypeOK /\ Fault => CountsAgree'
BY DEF TypeOK, Fault, CountsAgree

(* A cluster with an owner is touched for its owner only.                     *)
LEMMA OneOwner ==
    ASSUME NEW d \in DbId, NEW e \in DbId, OwnName(d), Known(e), ClusterOf(e) = ClusterOf(d)
    PROVE  e = d
BY DEF OwnName

LEMMA SoleShape == \A d \in DbId : Sole(d) <=> Exists(d) /\ d \notin doomed /\ OwnName(d)
BY DEF Sole, OwnName, Known

LEMMA SoleKept ==
    ASSUME conf' = conf, \A d \in DbId : Known(d)' = Known(d)
    PROVE  \A d \in DbId : Sole(d)' <=> Exists(d)' /\ d \notin doomed' /\ OwnName(d)
<1>1. \A d \in DbId : OwnName(d)' = OwnName(d)
    BY RowsKept
<1>2. \A d \in DbId : Sole(d)' <=> Exists(d)' /\ d \notin doomed' /\ OwnName(d)'
    BY DEF Sole, OwnName, Known
<1> QED BY <1>1, <1>2

LEMMA ExistingIsKnown == \A d : Exists(d) => Known(d)
BY DEF Exists, Known

LEMMA OneAtATimeKept ==
    ASSUME OneAtATime, disturbed \subseteq disturbed',
           \A e \in DbId : e \notin disturbed' =>
              /\ Autoscaling(e)' => Autoscaling(e)
              /\ Going(e)' => Going(e)
              /\ \A q \in Request : Works(q, e)' => Works(q, e)
    PROVE  OneAtATime'
BY DEF OneAtATime

LEMMA TornDownKept ==
    ASSUME TornDown, disturbed \subseteq disturbed',
           \A e \in DbId : e \notin disturbed' /\ Going(e)' =>
              /\ OwnName(e)' => OwnName(e)
              /\ Going(e)
              /\ e \in notices => e \in notices'
              /\ \A q \in Request : TearsDown(q, e) => TearsDown(q, e)'
              /\ nodes[ClusterOf(e)] = 0 /\ ClusterOf(e) \notin archiving \cup poolers =>
                    (nodes[ClusterOf(e)] = 0 /\ ClusterOf(e) \notin archiving \cup poolers)'
    PROVE  TornDown'
BY DEF TornDown

LEMMA ListedShape ==
    ASSUME TypeOK
    PROVE  /\ \A p \in Projects : listing[p] # NotListed => listing[p] \subseteq DbId
           /\ \A x \in todo : x[1] \in DbId /\ x[2] \in Count
           /\ job # NoJob => job[1] = "persist" /\ job[2] \in DbId /\ job[3] \in Count
           /\ NoJob[1] = "idle" /\ NoJob[2] = 0
<1>1. \A p \in Projects : listing[p] # NotListed => listing[p] \subseteq DbId
    BY DEF TypeOK
<1>2. \A x \in todo : x[1] \in DbId /\ x[2] \in Count
    BY DEF TypeOK
<1>3. job # NoJob => job[1] = "persist" /\ job[2] \in DbId /\ job[3] \in Count
    BY DEF TypeOK
<1>4. NoJob[1] = "idle" /\ NoJob[2] = 0
    BY DEF NoJob
<1> QED BY <1>1, <1>2, <1>3, <1>4

(* A row changes its status or its size, and whoever did it is done with it.  *)
LEMMA StatusMoves ==
    ASSUME DatabaseInv, conf' = conf,
           \A e \in DbId : /\ Known(e)' = Known(e) /\ Exists(e)' = Exists(e)
                           /\ dbStatus'[e] = "deleted" <=> dbStatus[e] = "deleted",
           \A q \in Request :
              pc'[q] = pc[q] \/ (pc[q] \in WorkPC /\ pc'[q] \in {"done", "publish"}),
           job' = job \/ job' = NoJob,
           UNCHANGED <<todo, db, count, deleting, doomed, asked, disturbed, projectVars, clusterVars>>
    PROVE  /\ CountIsSound' /\ ListedIsKnown' /\ ClusterIsSound' /\ GoneIsDoomed'
           /\ ProvisionIsKept' /\ OneAtATime' /\ TornDown'
           /\ \A e \in DbId : Sole(e)' = Sole(e)
<1> TypeOK /\ CountIsSound /\ ListedIsKnown /\ ClusterIsSound /\ GoneIsDoomed /\
    ProvisionIsKept /\ OneAtATime /\ TornDown
    BY DEF DatabaseInv
<1>1. \A e \in DbId : /\ ClusterOf(e)' = ClusterOf(e) /\ OwnName(e)' = OwnName(e)
                      /\ BackedUp(e)' = BackedUp(e)
    BY RowsKept
<1>2. \A e \in DbId : Sole(e)' = Sole(e)
    <2>1. \A e \in DbId : Known(e)' = Known(e)
        OBVIOUS
    <2>2. \A e \in DbId : Sole(e)' <=> Exists(e) /\ e \notin doomed /\ OwnName(e)
        BY <2>1, SoleKept
    <2> QED BY <2>2, SoleShape DEF Sole
<1>3. CountIsSound'
    BY DEF CountIsSound, ProvisionedPC
<1>4. ListedIsKnown'
    BY ListedShape DEF ListedIsKnown
<1>5. ClusterIsSound'
    BY <1>1 DEF ClusterIsSound
<1>6. GoneIsDoomed'
    <2>1. notices \subseteq DbId
        BY DEF TypeOK
    <2> QED BY <2>1 DEF GoneIsDoomed, WorkPC
<1>7. ProvisionIsKept'
    <2>1. \A q \in Request : pc'[q] \in ProvisionedPC =>
             pc'[q] = pc[q] /\ db[q] \in DbId /\ db'[q] = db[q]
        BY RequestShape DEF ProvisionedPC
    <2> QED BY <1>1, <1>2, <2>1 DEF ProvisionIsKept
<1>8. \A e \in DbId, q \in Request : /\ TearsDown(q, e)' <=> TearsDown(q, e)
                                     /\ Works(q, e)' => Works(q, e)
    BY DEF TearsDown, Works, WorkPC
<1>9. \A e \in DbId : Going(e)' <=> Going(e)
    BY <1>8 DEF Going
<1>10. \A e \in DbId : Autoscaling(e)' => Autoscaling(e)
    BY ListedShape, ZeroIsNoDatabase DEF Autoscaling
<1>11. OneAtATime'
    BY <1>8, <1>9, <1>10, OneAtATimeKept
<1>12. TornDown'
    BY <1>1, <1>8, <1>9, TornDownKept
<1> QED BY <1>2, <1>3, <1>4, <1>5, <1>6, <1>7, <1>11, <1>12

(* Rows that somebody has asked to delete go, and nothing else happens to the *)
(* table.                                                                     *)
LEMMA RowsGo ==
    ASSUME DatabaseInv, UNCHANGED <<conf, instances, uris, pc, db, count, asked, clusterVars, todo,
                                    job, faults>>,
           \A e \in DbId : Known(e)' = Known(e) /\ (Exists(e)' => dbStatus'[e] = dbStatus[e]),
           doomed \subseteq doomed', disturbed \subseteq disturbed'
    PROVE  /\ RowIsSound' /\ CountIsSound' /\ ClusterIsSound'
           /\ BoundsAreKept' /\ ProvisionIsKept' /\ ReadyIsKept' /\ CountsAgree'
<1> TypeOK /\ RowIsSound /\ CountIsSound /\ ClusterIsSound /\
    BoundsAreKept /\ ProvisionIsKept /\ ReadyIsKept /\ CountsAgree
    BY DEF DatabaseInv
<1>1. \A e \in DbId : /\ ClusterOf(e)' = ClusterOf(e) /\ OwnName(e)' = OwnName(e)
                      /\ Bounds(e)' = Bounds(e) /\ BackedUp(e)' = BackedUp(e)
    BY RowsKept
<1>2. \A e \in DbId : Sole(e)' => Sole(e)
    <2>1. \A e \in DbId : Exists(e)' => Exists(e)
        BY DEF Exists
    <2>2. \A e \in DbId : Sole(e)' <=> Exists(e)' /\ e \notin doomed' /\ OwnName(e)
        BY SoleKept
    <2> QED BY <2>1, <2>2, SoleShape
<1>3. RowIsSound' /\ CountIsSound'
    BY DEF RowIsSound, CountIsSound
<1>4. ClusterIsSound'
    BY <1>1 DEF ClusterIsSound
<1>5. BoundsAreKept'
    BY <1>1 DEF BoundsAreKept
<1>6. ProvisionIsKept'
    <2>1. \A q \in Request : pc[q] \in ProvisionedPC => db[q] \in DbId
        BY RequestShape DEF ProvisionedPC
    <2> QED BY <1>1, <1>2, <2>1 DEF ProvisionIsKept
<1>7. \A e \in DbId : dbStatus'[e] = "ready" => dbStatus[e] = "ready"
    BY DEF Exists
<1>8. ReadyIsKept'
    BY <1>1, <1>2, <1>7 DEF ReadyIsKept
<1>9. CountsAgree'
    BY <1>1, <1>2, <1>7 DEF CountsAgree
<1> QED BY <1>3, <1>4, <1>5, <1>6, <1>8, <1>9

------------------------------------------------------------------------------
(* Every step keeps the invariant.                                            *)

(* A row is created under an id that was never used.                          *)
LEMMA CreateDatabaseKeeps ==
    ASSUME DatabaseInv, NEW r \in Request, NEW d \in DbId, NEW c \in NewConfig, CreateDatabase(r, d, c)
    PROVE  DatabaseInv'
<1> TypeOK /\ RowIsSound /\ CountIsSound /\ ListedIsKnown /\ ClusterIsSound /\ GoneIsDoomed /\
    BoundsAreKept /\ ProvisionIsKept /\ ReadyIsKept /\ OneAtATime /\ TornDown /\ CountsAgree
    BY DEF DatabaseInv
<1>1. /\ pc[r] = "none" /\ dbStatus[d] = "none"
      /\ dbStatus' = [dbStatus EXCEPT ![d] = "creating"] /\ conf' = [conf EXCEPT ![d] = c]
      /\ instances' = [instances EXCEPT ![d] = c.min]
      /\ pc' = [pc EXCEPT ![r] = "publish"] /\ db' = [db EXCEPT ![r] = d]
      /\ UNCHANGED <<uris, count, deleting, doomed, asked, disturbed, projects, listing, notices,
                     nodes, archiving, schedules, ondemand, poolers, todo, job, up, faults>>
    BY DEF CreateDatabase, IsNextRequest, IsNextId
<1>2. /\ dbStatus'[d] = "creating" /\ conf'[d] = c /\ instances'[d] = c.min
      /\ \A e \in DbId : e # d => /\ dbStatus'[e] = dbStatus[e] /\ conf'[e] = conf[e]
                                  /\ instances'[e] = instances[e]
    BY <1>1 DEF TypeOK
<1>3. /\ pc'[r] = "publish" /\ db'[r] = d
      /\ \A q \in Request : q # r => pc'[q] = pc[q] /\ db'[q] = db[q]
      /\ \A q \in Request : pc[q] # "none" => q # r /\ db[q] # d /\ db[q] \in DbId
    <2>1. /\ pc'[r] = "publish" /\ db'[r] = d
          /\ \A q \in Request : q # r => pc'[q] = pc[q] /\ db'[q] = db[q]
        BY <1>1 DEF TypeOK
    <2> QED BY <1>1, <2>1, RequestShape DEF Known
<1>4. /\ ~Known(d) /\ Known(d)'
      /\ \A e \in DbId : e # d =>
            /\ Known(e)' = Known(e) /\ Exists(e)' = Exists(e) /\ ClusterOf(e)' = ClusterOf(e)
            /\ Bounds(e)' = Bounds(e) /\ BackedUp(e)' = BackedUp(e)
    BY <1>1, <1>2 DEF Known, Exists, ClusterOf, Bounds, BackedUp
<1>5. \A e \in DbId : e # d => (OwnName(e)' => OwnName(e)) /\ (Sole(e)' => Sole(e))
    <2>1. \A e \in DbId : e # d /\ OwnName(e)' => OwnName(e)
        BY <1>4 DEF OwnName
    <2>2. \A e \in DbId : Sole(e)' <=> Exists(e)' /\ e \notin doomed' /\ OwnName(e)'
        BY DEF Sole, OwnName, Known
    <2> QED BY <1>1, <1>4, <2>1, <2>2, SoleShape
<1>6. d \notin deleting \cup notices \cup doomed /\ ~Autoscaling(d)
    <2>1. d \notin deleting \cup notices \cup doomed
        BY <1>1 DEF TypeOK
    <2> QED BY <1>4, <2>1, ListedShape, ZeroIsNoDatabase DEF ListedIsKnown, Autoscaling
<1>7. /\ c \in Config /\ c.min <= c.max /\ c.min \in Count /\ c.max \in Count
      /\ c.tier = "autoscale" => c.engine = "postgres"
      /\ c.engine = "redis" => c.features = {} /\ c.min = 1
    <2>1. c \in Config
        BY NewRowShape
    <2>2. c.min \in Count /\ c.max \in Count
        BY <2>1 DEF Config
    <2> QED BY <2>1, <2>2, NewRowShape
<1>8. ClusterOf(d)' \in Cluster /\ (OwnName(d)' => nodes[ClusterOf(d)'] = 0)
    <2>1. c.slug \in Slugs /\ c.engine \in Engines
        BY <1>7 DEF Config
    <2>2. ClusterOf(d)' \in Cluster
        BY <1>2, <2>1 DEF ClusterOf, Cluster
    <2>3. OwnName(d)' => \A e \in DbId : Known(e) => ClusterOf(e) # ClusterOf(d)'
        BY <1>4 DEF OwnName
    <2> QED BY <2>2, <2>3 DEF ClusterIsSound
<1>TypeOK. TypeOK'
    <2>1. /\ dbStatus' \in [DbId -> {"none", "creating", "ready", "failed", "deleted"}]
          /\ conf' \in [DbId -> Config \cup {NoConfig}]
          /\ instances' \in [DbId -> 0..MaxInstances]
        BY <1>1, <1>7, CountIsPositive DEF TypeOK
    <2>2. \A e \in DbId : dbStatus'[e] # "none" => conf'[e] \in Config /\ instances'[e] # 0
        BY <1>2, <1>7, CountIsPositive DEF TypeOK
    <2>3. pc' \in [Request -> PC] /\ db' \in [Request -> 0..MaxDatabases]
        BY <1>1, ZeroIsNoDatabase DEF TypeOK, PC, HandlerPC
    <2>4. \A q \in Request : pc'[q] # "none" => db'[q] # 0 /\ dbStatus'[db'[q]] # "none"
        <3>1. \A e \in DbId : dbStatus[e] # "none" => dbStatus'[e] # "none"
            BY <1>2
        <3> QED BY <1>2, <1>3, <3>1, RequestShape, ZeroIsNoDatabase DEF Known
    <2>5. doomed \subseteq {e \in DbId : dbStatus'[e] # "none"}
        BY <1>2 DEF TypeOK
    <2> QED BY <1>1, <2>1, <2>2, <2>3, <2>4, <2>5 DEF TypeOK
<1>RowIsSound. RowIsSound'
    BY <1>2, <1>4, <1>7 DEF RowIsSound
<1>CountIsSound. CountIsSound'
    BY <1>1, <1>2, <1>3 DEF CountIsSound, ProvisionedPC
<1>ListedIsKnown. ListedIsKnown'
    <2>1. \A e \in DbId : Known(e) => Known(e)' /\ conf'[e] = conf[e]
        BY <1>2, <1>4
    <2> QED BY <1>1, <2>1, ListedShape DEF ListedIsKnown
<1>ClusterIsSound. ClusterIsSound'
    <2>1. \A q \in Request : pc'[q] = "pool" => conf'[db'[q]].engine # "redis"
        BY <1>2, <1>3 DEF ClusterIsSound
    <2>2. \A k \in Cluster : (\A e \in DbId : Known(e)' => ClusterOf(e)' # k) =>
                                \A e \in DbId : Known(e) => ClusterOf(e) # k
        BY <1>4
    <2> QED BY <1>1, <2>1, <2>2 DEF ClusterIsSound
<1>GoneIsDoomed. GoneIsDoomed'
    BY DEF CreateDatabase, IsNextRequest, IsNextId, GoneIsDoomed
<1>BoundsAreKept. BoundsAreKept'
    <2> SUFFICES ASSUME NEW e \in DbId, e \notin asked, Known(e)', conf'[e].tier = "autoscale"
                 PROVE  /\ instances'[e] \in Bounds(e)'
                        /\ \A q \in Request : db'[q] = e /\ pc'[q] \in {"scale", "provision"} =>
                              count[q] \in Bounds(e)'
                        /\ \A x \in todo : x[1] = e => x[2] \in Bounds(e)'
                        /\ job[2] = e => job[3] \in Bounds(e)'
                        /\ OwnName(e)' => nodes[ClusterOf(e)'] \in {0} \cup Bounds(e)'
        BY <1>1 DEF BoundsAreKept
    <2>1. CASE e = d
        <3>1. c.min \in c.min..c.max
            BY <1>7 DEF Count
        <3>2. instances'[e] \in Bounds(e)'
            BY <1>2, <2>1, <3>1 DEF Bounds
        <3> QED BY <1>3, <1>6, <1>8, <2>1, <3>2 DEF Autoscaling
    <2>2. CASE e # d
        BY <1>2, <1>3, <1>4, <1>5, <2>2 DEF BoundsAreKept
    <2> QED BY <2>1, <2>2
<1>ProvisionIsKept. ProvisionIsKept'
    <2>1. \A q \in Request : pc'[q] \in ProvisionedPC =>
             pc'[q] = pc[q] /\ db'[q] = db[q] /\ db[q] \in DbId \ {d}
        BY <1>3 DEF ProvisionedPC
    <2> QED BY <1>1, <1>2, <1>4, <1>5, <2>1 DEF ProvisionIsKept
<1>ReadyIsKept. ReadyIsKept'
    <2>1. \A e \in DbId : dbStatus'[e] = "ready" => e # d
        BY <1>2
    <2> QED BY <1>1, <1>2, <1>4, <1>5, <2>1 DEF ReadyIsKept
<1>OneAtATime. OneAtATime'
    <2>1. \A e \in DbId : Autoscaling(e)' = Autoscaling(e)
        BY <1>1 DEF Autoscaling
    <2>2. \A q \in Request : /\ Works(q, d)' => q = r
                             /\ ~TearsDown(q, d)'
                             /\ \A e \in DbId : e # d => /\ Works(q, e)' => Works(q, e)
                                                         /\ TearsDown(q, e)' => TearsDown(q, e)
        BY <1>3 DEF Works, TearsDown, WorkPC
    <2>3. ~Going(d)' /\ \A e \in DbId : e # d => (Going(e)' => Going(e))
        BY <1>1, <1>2, <1>6, <2>2 DEF Going
    <2> QED BY <1>1, <1>6, <2>1, <2>2, <2>3 DEF OneAtATime
<1>TornDown. TornDown'
    <2>1. \A q \in Request, e \in DbId : /\ TearsDown(q, e)' => TearsDown(q, e) /\ e # d
                                         /\ TearsDown(q, e) => TearsDown(q, e)'
        BY <1>1, <1>3 DEF TearsDown
    <2>2. \A e \in DbId : Going(e)' => Going(e) /\ e # d
        BY <1>1, <1>2, <1>6, <2>1 DEF Going
    <2> QED BY <1>1, <1>4, <1>5, <2>1, <2>2, TornDownKept
<1>CountsAgree. CountsAgree'
    <2>1. \A q \in Request : pc'[q] \in {"provision"} \cup ProvisionedPC =>
             pc'[q] = pc[q] /\ db'[q] = db[q] /\ db[q] # d
        BY <1>3 DEF ProvisionedPC
    <2>2. job[2] # d /\ dbStatus'[d] # "ready"
        BY <1>2, <1>6 DEF Autoscaling
    <2> QED BY <1>1, <1>2, <1>4, <1>5, <2>1, <2>2 DEF CountsAgree
<1> QED BY <1>TypeOK, <1>RowIsSound, <1>CountIsSound, <1>ListedIsKnown, <1>ClusterIsSound,
       <1>GoneIsDoomed, <1>BoundsAreKept, <1>ProvisionIsKept, <1>ReadyIsKept, <1>OneAtATime,
       <1>TornDown, <1>CountsAgree
       DEF DatabaseInv

(* A scale request reads the row.                                             *)
LEMMA ReadForScaleKeeps ==
    ASSUME DatabaseInv, NEW r \in Request, NEW d \in DbId, NEW n \in 0..MaxInstances, ReadForScale(r, d, n)
    PROVE  DatabaseInv'
<1> TypeOK /\ RowIsSound /\ CountIsSound /\ ListedIsKnown /\ ClusterIsSound /\ GoneIsDoomed /\
    BoundsAreKept /\ ProvisionIsKept /\ ReadyIsKept /\ OneAtATime /\ TornDown /\ CountsAgree
    BY DEF DatabaseInv
<1>rows. UNCHANGED rowVars
    BY DEF ReadForScale
<1>1. /\ pc[r] = "none" /\ Exists(d) /\ (conf[d].engine = "redis" => n \in {0, 1})
      /\ pc' = [pc EXCEPT ![r] = "scale"] /\ db' = [db EXCEPT ![r] = d]
      /\ count' = [count EXCEPT ![r] = IF n = 0 THEN instances[d] ELSE n]
      /\ asked' = IF n = 0 THEN asked ELSE asked \cup {d}
    BY DEF ReadForScale, IsNextRequest
<1>2. Known(d) /\ instances[d] \in Count
    BY <1>1, RowShape DEF Exists, Known
<1>3. /\ pc'[r] = "scale" /\ db'[r] = d /\ count'[r] = IF n = 0 THEN instances[d] ELSE n
      /\ \A q \in Request : q # r => pc'[q] = pc[q] /\ db'[q] = db[q] /\ count'[q] = count[q]
    BY <1>1 DEF TypeOK
<1>4. disturbed' = disturbed \cup ({d} \cap {e \in DbId : Overlaps(e)})
    BY DEF ReadForScale, Disturb
<1>other. RowIsSound' /\ ListedIsKnown' /\ ReadyIsKept'
    BY <1>rows, RowsSame DEF ReadForScale, RowIsSound, ListedIsKnown, ReadyIsKept, Sole, OwnName
<1>TypeOK. TypeOK'
    <2>1. pc' \in [Request -> PC] /\ db' \in [Request -> 0..MaxDatabases]
          /\ count' \in [Request -> 0..MaxInstances]
        BY <1>1, <1>2, ZeroIsNoDatabase, CountIsPositive DEF TypeOK, PC, HandlerPC
    <2>2. \A q \in Request : pc'[q] # "none" => db'[q] # 0 /\ dbStatus[db'[q]] # "none"
        BY <1>2, <1>3, ZeroIsNoDatabase DEF TypeOK, Known
    <2>3. asked' \subseteq DbId /\ disturbed' \subseteq DbId
        BY <1>1, <1>4 DEF TypeOK
    <2> QED BY <2>1, <2>2, <2>3, <1>rows, RowsSame
               DEF ReadForScale, TypeOK
<1>CountIsSound. CountIsSound'
    BY <1>1, <1>2, <1>3, <1>rows, RowsSame, CountIsPositive DEF CountIsSound, RowIsSound
<1>ClusterIsSound. ClusterIsSound'
    BY <1>rows, RowsSame DEF ReadForScale, IsNextRequest, Disturb, ClusterIsSound
<1>GoneIsDoomed. GoneIsDoomed'
    BY <1>rows, RowsSame DEF ReadForScale, IsNextRequest, Disturb, GoneIsDoomed
<1>BoundsAreKept. BoundsAreKept'
    BY <1>1, <1>2, <1>3, <1>rows, RowsSame
       DEF ReadForScale, BoundsAreKept
<1>ProvisionIsKept. ProvisionIsKept'
    BY <1>rows, RowsSame
       DEF ReadForScale, IsNextRequest, Disturb, ProvisionIsKept, ProvisionedPC, Sole, OwnName
<1>OneAtATime. OneAtATime'
    <2>1. \A e \in DbId : Autoscaling(e)' = Autoscaling(e)
        BY DEF ReadForScale, Autoscaling
    <2>2. \A e \in DbId, q \in Request : TearsDown(q, e)' => TearsDown(q, e)
        BY <1>3 DEF TearsDown
    <2>3. \A e \in DbId : Going(e)' => Going(e)
        BY <2>2, <1>rows, RowsSame DEF ReadForScale, Going
    <2>4. \A e \in DbId, q \in Request : Works(q, e)' => Works(q, e) \/ (q = r /\ e = d)
        BY <1>3 DEF Works
    <2>5. d \notin disturbed' =>
             ~Going(d) /\ ~Autoscaling(d) /\ \A q \in Request : ~Works(q, d)
        BY <1>1, <1>4, Idle DEF Overlaps
    <2> QED BY <1>4, <2>1, <2>3, <2>4, <2>5 DEF OneAtATime
<1>TornDown. TornDown'
    BY <1>rows, RowsSame DEF ReadForScale, IsNextRequest, Disturb, TornDown, Going, TearsDown
<1>CountsAgree. CountsAgree'
    BY <1>rows, RowsSame
       DEF ReadForScale, IsNextRequest, Disturb, CountsAgree, ProvisionedPC, Sole, OwnName
<1> QED BY <1>other, <1>TypeOK, <1>CountIsSound, <1>ClusterIsSound, <1>GoneIsDoomed,
       <1>BoundsAreKept, <1>ProvisionIsKept, <1>OneAtATime, <1>TornDown, <1>CountsAgree
       DEF DatabaseInv

(* It writes the row.                                                         *)
LEMMA SetDatabaseScalingKeeps ==
    ASSUME DatabaseInv, NEW r \in Request, SetDatabaseScaling(r)
    PROVE  DatabaseInv'
<1> TypeOK /\ RowIsSound /\ CountIsSound /\ ListedIsKnown /\ ClusterIsSound /\ GoneIsDoomed /\
    BoundsAreKept /\ ProvisionIsKept /\ ReadyIsKept /\ OneAtATime /\ TornDown /\ CountsAgree
    BY DEF DatabaseInv
<1> DEFINE d == db[r]
<1>1. /\ pc[r] = "scale" /\ pc' = [pc EXCEPT ![r] = "publish"]
      /\ IF Exists(d)
         THEN /\ instances' = [instances EXCEPT ![d] = count[r]]
              /\ dbStatus' = [dbStatus EXCEPT ![d] = "creating"]
         ELSE UNCHANGED <<instances, dbStatus>>
      /\ UNCHANGED <<conf, uris, db, count, deleting, doomed, asked, disturbed, projectVars,
                     clusterVars, todo, job, up, faults>>
    BY DEF SetDatabaseScaling
<1>2. d \in DbId /\ Known(d) /\ count[r] \in Count /\ (conf[d].engine = "redis" => count[r] = 1)
    BY <1>1, RequestShape, CountIsPositive DEF CountIsSound, TypeOK
<1> HIDE DEF d
<1>3. /\ \A e \in DbId : e # d => dbStatus'[e] = dbStatus[e] /\ instances'[e] = instances[e]
      /\ Exists(d) => dbStatus'[d] = "creating" /\ instances'[d] = count[r]
      /\ ~Exists(d) => dbStatus'[d] = dbStatus[d] /\ instances'[d] = instances[d]
    BY <1>1, <1>2 DEF TypeOK
<1>4. \A e \in DbId : /\ Known(e)' = Known(e) /\ Exists(e)' = Exists(e)
                      /\ dbStatus'[e] = "deleted" <=> dbStatus[e] = "deleted"
    BY <1>3 DEF Known, Exists
<1>5. /\ pc'[r] = "publish" /\ \A q \in Request : q # r => pc'[q] = pc[q]
      /\ \A q \in Request : pc'[q] = pc[q] \/ (pc[q] \in WorkPC /\ pc'[q] \in {"done", "publish"})
    BY <1>1 DEF TypeOK, WorkPC
<1>6. \A e \in DbId : Bounds(e)' = Bounds(e) /\ ClusterOf(e)' = ClusterOf(e) /\ OwnName(e)' = OwnName(e)
                      /\ BackedUp(e)' = BackedUp(e)
    BY <1>1, <1>4, RowsKept
<1>other. /\ CountIsSound' /\ ListedIsKnown' /\ ClusterIsSound' /\ GoneIsDoomed'
          /\ ProvisionIsKept' /\ OneAtATime' /\ TornDown'
          /\ \A e \in DbId : Sole(e)' = Sole(e)
    BY <1>1, <1>4, <1>5, StatusMoves
<1>TypeOK. TypeOK'
    <2>1. /\ pc' \in [Request -> PC] /\ instances' \in [DbId -> 0..MaxInstances]
          /\ dbStatus' \in [DbId -> {"none", "creating", "ready", "failed", "deleted"}]
        BY <1>1, <1>2, CountIsPositive DEF TypeOK, PC, HandlerPC
    <2>2. \A e \in DbId : Known(e)' => conf[e] \in Config /\ instances'[e] # 0
        BY <1>2, <1>3, <1>4, CountIsPositive DEF TypeOK, Known
    <2>3. \A q \in Request : pc'[q] # "none" => db[q] # 0 /\ Known(db[q])'
        <3> SUFFICES ASSUME NEW q \in Request, pc'[q] # "none"
                     PROVE  db[q] # 0 /\ Known(db[q])'
            OBVIOUS
        <3>1. pc[q] # "none"
            BY <1>1, <1>5
        <3>2. db[q] \in DbId /\ Known(db[q])
            BY <3>1, RequestShape
        <3>3. db' = db
            BY <1>1
        <3>4. db[q] # 0
            BY <3>2, ZeroIsNoDatabase
        <3>5. Known(db[q])'
            BY <1>4, <3>2, <3>3 DEF Known
        <3> QED BY <3>4, <3>5
    <2>4. doomed \subseteq {e \in DbId : Known(e)'}
        BY <1>4 DEF TypeOK, Known
    <2> QED BY <1>1, <2>1, <2>2, <2>3, <2>4 DEF TypeOK, Known
<1>RowIsSound. RowIsSound'
    BY <1>1, <1>2, <1>3, <1>4 DEF RowIsSound
<1>BoundsAreKept. BoundsAreKept'
    <2>1. d \notin asked /\ conf[d].tier = "autoscale" => count[r] \in Bounds(d)
        BY <1>1, <1>2 DEF BoundsAreKept, d
    <2> QED BY <1>1, <1>3, <1>4, <1>5, <1>6, <2>1 DEF BoundsAreKept
<1>ReadyIsKept. ReadyIsKept'
    <2>1. \A e \in DbId : dbStatus'[e] = "ready" => dbStatus[e] = "ready"
        BY <1>3
    <2> QED BY <1>1, <1>6, <1>other, <2>1 DEF ReadyIsKept
<1>CountsAgree. CountsAgree'
    <2> SUFFICES ASSUME faults = 0, NEW e \in DbId, e \notin disturbed, Sole(e)
                 PROVE  /\ \A q \in Request : db[q] = e =>
                              /\ pc'[q] \in {"provision"} \cup ProvisionedPC => count[q] = instances'[e]
                              /\ pc'[q] \in ProvisionedPC => nodes[ClusterOf(e)] = instances'[e]
                        /\ job[2] = e => nodes[ClusterOf(e)] = job[3]
                        /\ dbStatus'[e] = "ready" /\ job[2] # e => nodes[ClusterOf(e)] = instances'[e]
                        /\ dbStatus'[e] = "ready" /\ conf[e].tier = "standard" =>
                              ("read" \in uris[e] <=> instances'[e] > 1)
        BY <1>1, <1>6, <1>other DEF CountsAgree
    <2>1. CASE e = d
        <3>1. \A q \in Request : db[q] = d /\ pc[q] \in WorkPC => q = r
            BY <1>1, <2>1 DEF OneAtATime, Works, WorkPC, d
        <3>2. \A q \in Request : db[q] = d => pc'[q] \notin {"provision"} \cup ProvisionedPC
            BY <1>5, <3>1 DEF WorkPC, ProvisionedPC
        <3>3. dbStatus'[d] # "ready"
            BY <1>3, <2>1 DEF Exists
        <3> QED BY <2>1, <3>2, <3>3 DEF CountsAgree
    <2>2. CASE e # d
        <3>1. \A q \in Request : pc'[q] \in {"provision"} \cup ProvisionedPC => pc'[q] = pc[q]
            BY <1>5 DEF ProvisionedPC
        <3> QED BY <1>3, <2>2, <3>1 DEF CountsAgree
    <2> QED BY <2>1, <2>2
<1> QED BY <1>other, <1>TypeOK, <1>RowIsSound, <1>BoundsAreKept, <1>ReadyIsKept, <1>CountsAgree
       DEF DatabaseInv

(* The controller is notified.                                                *)
LEMMA PublishDatabaseKeeps ==
    ASSUME DatabaseInv, NEW r \in Request, PublishDatabase(r)
    PROVE  DatabaseInv'
<1> TypeOK /\ RowIsSound /\ CountIsSound /\ ListedIsKnown /\ ClusterIsSound /\ GoneIsDoomed /\
    BoundsAreKept /\ ProvisionIsKept /\ ReadyIsKept /\ OneAtATime /\ TornDown /\ CountsAgree
    BY DEF DatabaseInv
<1>rows. UNCHANGED rowVars
    BY DEF PublishDatabase
<1>other. RowIsSound' /\ ListedIsKnown' /\ ReadyIsKept'
    BY <1>rows, RowsSame DEF PublishDatabase, RowIsSound, ListedIsKnown, ReadyIsKept, Sole, OwnName
<1>TypeOK. TypeOK'
    BY <1>rows, RowsSame DEF PublishDatabase, Publish, TypeOK, PC, HandlerPC, GoroutinePC
<1>CountIsSound. CountIsSound'
    BY <1>rows, RowsSame DEF PublishDatabase, Publish, CountIsSound, ProvisionedPC
<1>ClusterIsSound. ClusterIsSound'
    BY <1>rows, RowsSame DEF PublishDatabase, Publish, ClusterIsSound
<1>GoneIsDoomed. GoneIsDoomed'
    BY <1>rows, RowsSame DEF PublishDatabase, Publish, GoneIsDoomed
<1>BoundsAreKept. BoundsAreKept'
    BY <1>rows, RowsSame DEF PublishDatabase, Publish, BoundsAreKept
<1>ProvisionIsKept. ProvisionIsKept'
    BY <1>rows, RowsSame DEF PublishDatabase, Publish, ProvisionIsKept, ProvisionedPC, Sole, OwnName
<1>OneAtATime. OneAtATime'
    BY <1>rows, RowsSame
       DEF PublishDatabase, Publish, OneAtATime, Going, Works, TearsDown, WorkPC, Autoscaling
<1>TornDown. TornDown'
    BY <1>rows, RowsSame DEF PublishDatabase, Publish, TornDown, Going, TearsDown
<1>CountsAgree. CountsAgree'
    BY <1>rows, RowsSame DEF PublishDatabase, Publish, CountsAgree, ProvisionedPC, Sole, OwnName
<1> QED BY <1>other, <1>TypeOK, <1>CountIsSound, <1>ClusterIsSound, <1>GoneIsDoomed,
       <1>BoundsAreKept, <1>ProvisionIsKept, <1>OneAtATime, <1>TornDown, <1>CountsAgree
       DEF DatabaseInv

(* A backup is asked for.                                                     *)
LEMMA ReadForBackupKeeps ==
    ASSUME DatabaseInv, NEW r \in Request, NEW d \in DbId, ReadForBackup(r, d)
    PROVE  DatabaseInv'
<1> TypeOK /\ RowIsSound /\ CountIsSound /\ ListedIsKnown /\ ClusterIsSound /\ GoneIsDoomed /\
    BoundsAreKept /\ ProvisionIsKept /\ ReadyIsKept /\ OneAtATime /\ TornDown /\ CountsAgree
    BY DEF DatabaseInv
<1>rows. UNCHANGED rowVars
    BY DEF ReadForBackup
<1>other. RowIsSound' /\ ListedIsKnown' /\ ReadyIsKept'
    BY <1>rows, RowsSame DEF ReadForBackup, RowIsSound, ListedIsKnown, ReadyIsKept, Sole, OwnName
<1>TypeOK. TypeOK'
    <2>1. /\ pc' = [pc EXCEPT ![r] = "bk_publish"] /\ db' = [db EXCEPT ![r] = d] /\ Known(d)
        BY DEF ReadForBackup, Exists, Known
    <2>2. pc' \in [Request -> PC] /\ db' \in [Request -> 0..MaxDatabases]
        BY <2>1, ZeroIsNoDatabase DEF TypeOK, PC, HandlerPC
    <2>3. \A q \in Request : pc'[q] # "none" => db'[q] # 0 /\ dbStatus[db'[q]] # "none"
        BY <2>1, ZeroIsNoDatabase DEF TypeOK, Known
    <2> QED BY <2>2, <2>3, <1>rows, RowsSame
               DEF ReadForBackup, TypeOK
<1>CountIsSound. CountIsSound'
    BY <1>rows, RowsSame DEF ReadForBackup, IsNextRequest, CountIsSound, ProvisionedPC
<1>ClusterIsSound. ClusterIsSound'
    BY <1>rows, RowsSame DEF ReadForBackup, IsNextRequest, ClusterIsSound
<1>GoneIsDoomed. GoneIsDoomed'
    BY <1>rows, RowsSame DEF ReadForBackup, IsNextRequest, GoneIsDoomed
<1>BoundsAreKept. BoundsAreKept'
    BY <1>rows, RowsSame DEF ReadForBackup, IsNextRequest, BoundsAreKept
<1>ProvisionIsKept. ProvisionIsKept'
    BY <1>rows, RowsSame
       DEF ReadForBackup, IsNextRequest, ProvisionIsKept, ProvisionedPC, Sole, OwnName
<1>OneAtATime. OneAtATime'
    BY <1>rows, RowsSame
       DEF ReadForBackup, IsNextRequest, OneAtATime, Going, Works, TearsDown, WorkPC, Autoscaling
<1>TornDown. TornDown'
    BY <1>rows, RowsSame DEF ReadForBackup, IsNextRequest, TornDown, Going, TearsDown
<1>CountsAgree. CountsAgree'
    BY <1>rows, RowsSame DEF ReadForBackup, IsNextRequest, CountsAgree, ProvisionedPC, Sole, OwnName
<1> QED BY <1>other, <1>TypeOK, <1>CountIsSound, <1>ClusterIsSound, <1>GoneIsDoomed,
       <1>BoundsAreKept, <1>ProvisionIsKept, <1>OneAtATime, <1>TornDown, <1>CountsAgree
       DEF DatabaseInv

(* And notified.                                                              *)
LEMMA PublishBackupKeeps ==
    ASSUME DatabaseInv, NEW r \in Request, PublishBackup(r)
    PROVE  DatabaseInv'
<1> TypeOK /\ RowIsSound /\ CountIsSound /\ ListedIsKnown /\ ClusterIsSound /\ GoneIsDoomed /\
    BoundsAreKept /\ ProvisionIsKept /\ ReadyIsKept /\ OneAtATime /\ TornDown /\ CountsAgree
    BY DEF DatabaseInv
<1>rows. UNCHANGED rowVars
    BY DEF PublishBackup
<1>other. RowIsSound' /\ ListedIsKnown' /\ ReadyIsKept'
    BY <1>rows, RowsSame DEF PublishBackup, RowIsSound, ListedIsKnown, ReadyIsKept, Sole, OwnName
<1>TypeOK. TypeOK'
    BY <1>rows, RowsSame DEF PublishBackup, Publish, TypeOK, PC, HandlerPC, GoroutinePC
<1>CountIsSound. CountIsSound'
    BY <1>rows, RowsSame DEF PublishBackup, Publish, CountIsSound, ProvisionedPC
<1>ClusterIsSound. ClusterIsSound'
    BY <1>rows, RowsSame DEF PublishBackup, Publish, ClusterIsSound
<1>GoneIsDoomed. GoneIsDoomed'
    BY <1>rows, RowsSame DEF PublishBackup, Publish, GoneIsDoomed
<1>BoundsAreKept. BoundsAreKept'
    BY <1>rows, RowsSame DEF PublishBackup, Publish, BoundsAreKept
<1>ProvisionIsKept. ProvisionIsKept'
    BY <1>rows, RowsSame DEF PublishBackup, Publish, ProvisionIsKept, ProvisionedPC, Sole, OwnName
<1>OneAtATime. OneAtATime'
    BY <1>rows, RowsSame
       DEF PublishBackup, Publish, OneAtATime, Going, Works, TearsDown, WorkPC, Autoscaling
<1>TornDown. TornDown'
    BY <1>rows, RowsSame DEF PublishBackup, Publish, TornDown, Going, TearsDown
<1>CountsAgree. CountsAgree'
    BY <1>rows, RowsSame DEF PublishBackup, Publish, CountsAgree, ProvisionedPC, Sole, OwnName
<1> QED BY <1>other, <1>TypeOK, <1>CountIsSound, <1>ClusterIsSound, <1>GoneIsDoomed,
       <1>BoundsAreKept, <1>ProvisionIsKept, <1>OneAtATime, <1>TornDown, <1>CountsAgree
       DEF DatabaseInv

(* A database is to be deleted.                                               *)
LEMMA ReadForDeleteKeeps ==
    ASSUME DatabaseInv, NEW r \in Request, NEW d \in DbId, ReadForDelete(r, d)
    PROVE  DatabaseInv'
<1> TypeOK /\ RowIsSound /\ CountIsSound /\ ListedIsKnown /\ ClusterIsSound /\ GoneIsDoomed /\
    BoundsAreKept /\ ProvisionIsKept /\ ReadyIsKept /\ OneAtATime /\ TornDown /\ CountsAgree
    BY DEF DatabaseInv
<1>rows. UNCHANGED rowVars
    BY DEF ReadForDelete
<1>1. /\ pc[r] = "none" /\ Exists(d)
      /\ pc' = [pc EXCEPT ![r] = "td_publish"] /\ db' = [db EXCEPT ![r] = d]
      /\ doomed' = doomed \cup {d}
      /\ disturbed' = disturbed \cup ({d} \cap {e \in DbId : Overlaps(e)})
    BY DEF ReadForDelete, IsNextRequest, Disturb
<1>2. Known(d)
    BY <1>1 DEF Exists, Known
<1>3. /\ pc'[r] = "td_publish" /\ db'[r] = d
      /\ \A q \in Request : q # r => pc'[q] = pc[q] /\ db'[q] = db[q]
    BY <1>1 DEF TypeOK
<1>other. RowIsSound' /\ ListedIsKnown'
    BY <1>rows, RowsSame DEF ReadForDelete, RowIsSound, ListedIsKnown
<1>TypeOK. TypeOK'
    <2>1. pc' \in [Request -> PC] /\ db' \in [Request -> 0..MaxDatabases]
        BY <1>1, ZeroIsNoDatabase DEF TypeOK, PC, HandlerPC
    <2>2. \A q \in Request : pc'[q] # "none" => db'[q] # 0 /\ dbStatus[db'[q]] # "none"
        BY <1>2, <1>3, ZeroIsNoDatabase DEF TypeOK, Known
    <2>3. doomed' \subseteq {e \in DbId : dbStatus[e] # "none"} /\ disturbed' \subseteq DbId
        BY <1>1, <1>2 DEF TypeOK, Known
    <2>4. deleting \subseteq doomed' /\ notices \subseteq doomed'
        BY <1>1 DEF TypeOK
    <2> QED BY <2>1, <2>2, <2>3, <2>4, <1>rows, RowsSame
               DEF ReadForDelete, TypeOK
<1>CountIsSound. CountIsSound'
    BY <1>rows, RowsSame DEF ReadForDelete, IsNextRequest, Disturb, CountIsSound, ProvisionedPC
<1>ClusterIsSound. ClusterIsSound'
    BY <1>rows, RowsSame DEF ReadForDelete, IsNextRequest, Disturb, ClusterIsSound
<1>GoneIsDoomed. GoneIsDoomed'
    BY <1>1, <1>3, <1>rows, RowsSame DEF ReadForDelete, GoneIsDoomed
<1>BoundsAreKept. BoundsAreKept'
    BY <1>rows, RowsSame DEF ReadForDelete, IsNextRequest, Disturb, BoundsAreKept
<1>ProvisionIsKept. ProvisionIsKept'
    BY <1>rows, RowsSame
       DEF ReadForDelete, IsNextRequest, Disturb, ProvisionIsKept, ProvisionedPC, Sole, OwnName
<1>ReadyIsKept. ReadyIsKept'
    BY <1>rows, RowsSame DEF ReadForDelete, IsNextRequest, Disturb, ReadyIsKept, Sole, OwnName
<1>OneAtATime. OneAtATime'
    <2>1. \A e \in DbId : Autoscaling(e)' = Autoscaling(e)
        BY DEF ReadForDelete, Autoscaling
    <2>2. \A e \in DbId, q \in Request : TearsDown(q, e)' => TearsDown(q, e) \/ e = d
        BY <1>3 DEF TearsDown
    <2>3. \A e \in DbId : Going(e)' => Going(e) \/ e = d
        BY <2>2, <1>rows, RowsSame DEF ReadForDelete, Going
    <2>4. \A e \in DbId, q \in Request : Works(q, e)' => Works(q, e)
        BY <1>3 DEF Works, WorkPC
    <2>5. d \notin disturbed' => ~Autoscaling(d) /\ \A q \in Request : ~Works(q, d)
        BY <1>1, Idle DEF Overlaps
    <2> QED BY <1>1, <2>1, <2>3, <2>4, <2>5 DEF OneAtATime
<1>TornDown. TornDown'
    BY <1>rows, RowsSame DEF ReadForDelete, IsNextRequest, Disturb, TornDown, Going, TearsDown
<1>CountsAgree. CountsAgree'
    BY <1>rows, RowsSame
       DEF ReadForDelete, IsNextRequest, Disturb, CountsAgree, ProvisionedPC, Sole, OwnName
<1> QED BY <1>other, <1>TypeOK, <1>CountIsSound, <1>ClusterIsSound, <1>GoneIsDoomed,
       <1>BoundsAreKept, <1>ProvisionIsKept, <1>ReadyIsKept, <1>OneAtATime, <1>TornDown,
       <1>CountsAgree
       DEF DatabaseInv

(* Its teardown is notified.                                                  *)
LEMMA PublishTeardownKeeps ==
    ASSUME DatabaseInv, NEW r \in Request, PublishTeardown(r)
    PROVE  DatabaseInv'
<1> TypeOK /\ RowIsSound /\ CountIsSound /\ ListedIsKnown /\ ClusterIsSound /\ GoneIsDoomed /\
    BoundsAreKept /\ ProvisionIsKept /\ ReadyIsKept /\ OneAtATime /\ TornDown /\ CountsAgree
    BY DEF DatabaseInv
<1>rows. UNCHANGED rowVars
    BY DEF PublishTeardown
<1>1. /\ pc[r] = "td_publish" /\ db[r] \in doomed
      /\ pc' = [pc EXCEPT ![r] = IF up = "up" THEN "teardown" ELSE "done"]
      /\ deleting' = deleting \cup {db[r]}
      /\ disturbed' = disturbed \cup IF up = "up" THEN {} ELSE {db[r]}
    BY DEF PublishTeardown, Publish, Disturb, GoneIsDoomed
<1>other. RowIsSound' /\ ListedIsKnown' /\ ReadyIsKept'
    BY <1>rows, RowsSame DEF PublishTeardown, RowIsSound, ListedIsKnown, ReadyIsKept, Sole, OwnName
<1>TypeOK. TypeOK'
    <2>1. pc' \in [Request -> PC] /\ deleting' \subseteq doomed /\ disturbed' \subseteq DbId
        BY <1>1 DEF TypeOK, PC, GoroutinePC
    <2>2. \A q \in Request : pc'[q] # "none" => pc[q] # "none"
        BY <1>1 DEF TypeOK
    <2> QED BY <2>1, <2>2, <1>rows, RowsSame
               DEF PublishTeardown, TypeOK
<1>CountIsSound. CountIsSound'
    BY <1>rows, RowsSame DEF PublishTeardown, Publish, Disturb, CountIsSound, ProvisionedPC
<1>ClusterIsSound. ClusterIsSound'
    BY <1>rows, RowsSame DEF PublishTeardown, Publish, Disturb, ClusterIsSound
<1>GoneIsDoomed. GoneIsDoomed'
    BY <1>rows, RowsSame DEF PublishTeardown, Publish, Disturb, GoneIsDoomed
<1>BoundsAreKept. BoundsAreKept'
    BY <1>rows, RowsSame DEF PublishTeardown, Publish, Disturb, BoundsAreKept
<1>ProvisionIsKept. ProvisionIsKept'
    BY <1>rows, RowsSame
       DEF PublishTeardown, Publish, Disturb, ProvisionIsKept, ProvisionedPC, Sole, OwnName
<1>OneAtATime. OneAtATime'
    BY <1>rows, RowsSame
       DEF PublishTeardown, Publish, Disturb, OneAtATime, Going, Works, TearsDown, WorkPC,
           Autoscaling
<1>TornDown. TornDown'
    BY <1>rows, RowsSame DEF PublishTeardown, Publish, Disturb, TornDown, Going, TearsDown
<1>CountsAgree. CountsAgree'
    BY <1>rows, RowsSame
       DEF PublishTeardown, Publish, Disturb, CountsAgree, ProvisionedPC, Sole, OwnName
<1> QED BY <1>other, <1>TypeOK, <1>CountIsSound, <1>ClusterIsSound, <1>GoneIsDoomed,
       <1>BoundsAreKept, <1>ProvisionIsKept, <1>OneAtATime, <1>TornDown, <1>CountsAgree
       DEF DatabaseInv

(* Its row goes.                                                              *)
LEMMA DeleteDatabaseKeeps ==
    ASSUME DatabaseInv, NEW d \in DbId, DeleteDatabase(d)
    PROVE  DatabaseInv'
<1> TypeOK /\ RowIsSound /\ CountIsSound /\ ListedIsKnown /\ ClusterIsSound /\ GoneIsDoomed /\
    BoundsAreKept /\ ProvisionIsKept /\ ReadyIsKept /\ OneAtATime /\ TornDown /\ CountsAgree
    BY DEF DatabaseInv
<1>1. /\ d \in deleting /\ deleting' = deleting \ {d}
      /\ dbStatus' = [dbStatus EXCEPT ![d] = IF Exists(d) THEN "deleted" ELSE @]
      /\ UNCHANGED <<conf, instances, uris, pc, db, count, doomed, asked, disturbed, projectVars,
                     clusterVars, todo, job, up, faults>>
    BY DEF DeleteDatabase
<1>2. /\ dbStatus'[d] = (IF Exists(d) THEN "deleted" ELSE dbStatus[d])
      /\ \A e \in DbId : e # d => dbStatus'[e] = dbStatus[e]
    BY <1>1 DEF TypeOK
<1>3. d \in doomed /\ Known(d)
    BY <1>1 DEF TypeOK, Known
<1>4. \A e \in DbId : Known(e)' = Known(e) /\ (Exists(e)' => dbStatus'[e] = dbStatus[e])
    BY <1>2 DEF Known, Exists
<1>other. /\ RowIsSound' /\ CountIsSound' /\ ClusterIsSound' /\ BoundsAreKept'
          /\ ProvisionIsKept' /\ ReadyIsKept' /\ CountsAgree'
    BY <1>1, <1>4, RowsGo
<1>TypeOK. TypeOK'
    BY DEF DeleteDatabase, TypeOK, PC, HandlerPC, GoroutinePC
<1>ListedIsKnown. ListedIsKnown'
    BY <1>1, <1>4, ListedShape DEF ListedIsKnown
<1>GoneIsDoomed. GoneIsDoomed'
    <2>1. notices \subseteq DbId
        BY DEF TypeOK
    <2>2. \A e \in DbId : dbStatus[e] = "deleted" => dbStatus'[e] = "deleted"
        BY <1>2
    <2> QED BY <1>1, <1>2, <1>3, <2>1, <2>2 DEF GoneIsDoomed
<1>OneAtATime. OneAtATime'
    <2>1. \A e \in DbId : /\ Going(e)' => Going(e)
                          /\ Autoscaling(e)' = Autoscaling(e)
                          /\ \A q \in Request : Works(q, e)' = Works(q, e)
        BY <1>1, <1>2 DEF Going, TearsDown, Autoscaling, Works
    <2> QED BY <1>1, <2>1, OneAtATimeKept
<1>TornDown. TornDown'
    <2>1. \A e \in DbId : /\ Going(e)' => Going(e)
                          /\ ClusterOf(e)' = ClusterOf(e) /\ OwnName(e)' = OwnName(e)
                          /\ \A q \in Request : TearsDown(q, e)' = TearsDown(q, e)
        BY <1>1, <1>2, <1>4, RowsKept DEF Going, TearsDown
    <2> QED BY <1>1, <2>1, TornDownKept
<1> QED BY <1>other, <1>TypeOK, <1>ListedIsKnown, <1>GoneIsDoomed, <1>OneAtATime, <1>TornDown
       DEF DatabaseInv

(* The databases of a project are listed.                                     *)
LEMMA ListDatabasesKeeps ==
    ASSUME DatabaseInv, NEW p \in Projects, ListDatabases(p)
    PROVE  DatabaseInv'
<1> TypeOK /\ RowIsSound /\ CountIsSound /\ ListedIsKnown /\ ClusterIsSound /\ GoneIsDoomed /\
    BoundsAreKept /\ ProvisionIsKept /\ ReadyIsKept /\ OneAtATime /\ TornDown /\ CountsAgree
    BY DEF DatabaseInv
<1>rows. UNCHANGED rowVars
    BY DEF ListDatabases
<1>other. /\ RowIsSound' /\ CountIsSound' /\ ClusterIsSound' /\ GoneIsDoomed'
          /\ BoundsAreKept' /\ ProvisionIsKept' /\ ReadyIsKept' /\ OneAtATime'
          /\ TornDown'
    BY <1>rows, RowsSame
       DEF ListDatabases, RowIsSound, CountIsSound, ProvisionedPC, ClusterIsSound, GoneIsDoomed,
           BoundsAreKept, ProvisionIsKept, Sole, OwnName, ReadyIsKept, OneAtATime, Going, Works,
           TearsDown, WorkPC, Autoscaling, TornDown
<1>TypeOK. TypeOK'
    BY <1>rows, RowsSame DEF ListDatabases, Fault, DatabasesOf, TypeOK, PC, HandlerPC, GoroutinePC
<1>ListedIsKnown. ListedIsKnown'
    <2>1. \A d \in DatabasesOf(p) : Known(d) /\ conf[d].project = p
        BY DEF DatabasesOf, Exists, Known
    <2>2. /\ \A q \in Projects : q # p => listing'[q] = listing[q]
          /\ listing'[p] = DatabasesOf(p) \/ listing'[p] = {}
        BY DEF ListDatabases, TypeOK
    <2> QED BY <2>1, <2>2, <1>rows, RowsSame DEF ListedIsKnown, ListDatabases
<1>CountsAgree. CountsAgree'
    <2>1. CASE UNCHANGED faults
        BY <2>1, <1>rows, RowsSame DEF ListDatabases, CountsAgree, Sole, OwnName,
                                       clusterVars, autoscalerVars
    <2>2. CASE Fault
        BY <2>2, AfterAFault
    <2> QED BY <2>1, <2>2 DEF ListDatabases
<1> QED BY <1>other, <1>TypeOK, <1>ListedIsKnown, <1>CountsAgree DEF DatabaseInv

(* A project goes, with the rows of its databases.                            *)
LEMMA DeleteProjectKeeps ==
    ASSUME DatabaseInv, NEW p \in Projects, DeleteProject(p)
    PROVE  DatabaseInv'
<1> TypeOK /\ RowIsSound /\ CountIsSound /\ ListedIsKnown /\ ClusterIsSound /\ GoneIsDoomed /\
    BoundsAreKept /\ ProvisionIsKept /\ ReadyIsKept /\ OneAtATime /\ TornDown /\ CountsAgree
    BY DEF DatabaseInv
<1> DEFINE D == DatabasesOf(p)
<1>1. /\ listing[p] # NotListed /\ projects' = projects \ {p}
      /\ dbStatus' = [e \in DbId |-> IF e \in D THEN "deleted" ELSE dbStatus[e]]
      /\ notices' = notices \cup listing[p] /\ listing' = [listing EXCEPT ![p] = NotListed]
      /\ doomed' = doomed \cup D
      /\ disturbed' = disturbed \cup {e \in D : e \notin listing[p] \/ Overlaps(e)}
      /\ UNCHANGED <<conf, instances, uris, pc, db, count, deleting, asked, clusterVars, todo, job,
                     up, faults>>
    BY DEF DeleteProject, Disturb
<1>2. D \subseteq DbId /\ \A e \in D : Exists(e) /\ Known(e)
    BY DEF DatabasesOf, Exists, Known
<1>3. listing[p] \subseteq DbId /\ \A e \in listing[p] \ D : dbStatus[e] = "deleted"
    <2>1. listing[p] \subseteq DbId /\ \A e \in listing[p] : Known(e) /\ conf[e].project = p
        BY <1>1, ListedShape DEF ListedIsKnown
    <2> QED BY <2>1 DEF DatabasesOf, Exists, Known
<1> HIDE DEF D
<1>4. /\ \A e \in DbId : e \in D => dbStatus'[e] = "deleted"
      /\ \A e \in DbId : e \notin D => dbStatus'[e] = dbStatus[e]
    BY <1>1
<1>5. \A e \in DbId : Known(e)' = Known(e) /\ (Exists(e)' => dbStatus'[e] = dbStatus[e])
    BY <1>2, <1>4 DEF Known, Exists
<1>6. \A e \in DbId \ disturbed' : e \in D =>
         e \in listing[p] /\ ~Autoscaling(e) /\ \A q \in Request : ~Works(q, e)
    BY <1>1, <1>2, Idle DEF Overlaps
<1>7. \A e \in DbId : Going(e)' => Going(e) \/ e \in D
    BY <1>1, <1>3, <1>4 DEF Going, TearsDown
<1>other. /\ RowIsSound' /\ CountIsSound' /\ ClusterIsSound' /\ BoundsAreKept'
          /\ ProvisionIsKept' /\ ReadyIsKept' /\ CountsAgree'
    BY <1>1, <1>5, RowsGo
<1>TypeOK. TypeOK'
    <2>1. dbStatus' \in [DbId -> {"none", "creating", "ready", "failed", "deleted"}]
        BY <1>1 DEF TypeOK
    <2>2. \A e \in DbId : dbStatus'[e] # "none" => conf[e] \in Config /\ instances[e] # 0
        BY <1>5 DEF TypeOK, Known
    <2>3. \A q \in Request : pc[q] # "none" => db[q] # 0 /\ dbStatus'[db[q]] # "none"
        BY <1>5, RequestShape, ZeroIsNoDatabase DEF Known
    <2>4. doomed' \subseteq {e \in DbId : dbStatus'[e] # "none"} /\ deleting \subseteq doomed'
        BY <1>1, <1>2, <1>5 DEF TypeOK, Known
    <2>5. notices' \subseteq doomed' /\ disturbed' \subseteq DbId
        BY <1>1, <1>2, <1>3 DEF TypeOK, GoneIsDoomed
    <2>6. projects' \subseteq Projects /\ listing' \in [Projects -> (SUBSET DbId) \cup {NotListed}]
        BY <1>1 DEF TypeOK
    <2> QED BY <1>1, <2>1, <2>2, <2>3, <2>4, <2>5, <2>6 DEF TypeOK
<1>ListedIsKnown. ListedIsKnown'
    <2>1. \A q \in Projects : listing'[q] = (IF q = p THEN NotListed ELSE listing[q])
        BY <1>1 DEF TypeOK
    <2>2. \A q \in Projects : listing'[q] # NotListed =>
             \A e \in listing'[q] : Known(e)' /\ conf[e].project = q
        BY <2>1, <1>5, ListedShape DEF ListedIsKnown
    <2> QED BY <1>1, <1>5, <2>2, ListedShape DEF ListedIsKnown
<1>GoneIsDoomed. GoneIsDoomed'
    <2>1. notices \subseteq DbId
        BY DEF TypeOK
    <2> QED BY <1>1, <1>3, <1>4, <2>1 DEF GoneIsDoomed
<1>OneAtATime. OneAtATime'
    <2>1. \A e \in DbId, q \in Request : Works(q, e)' = Works(q, e)
        BY <1>1 DEF Works
    <2>2. \A e \in DbId : Autoscaling(e)' = Autoscaling(e)
        BY <1>1 DEF Autoscaling
    <2> QED BY <1>1, <1>6, <1>7, <2>1, <2>2 DEF OneAtATime
<1>TornDown. TornDown'
    <2>1. \A e \in DbId : ClusterOf(e)' = ClusterOf(e) /\ OwnName(e)' = OwnName(e)
        BY <1>1, <1>5, RowsKept
    <2>2. \A e \in DbId, q \in Request : TearsDown(q, e)' = TearsDown(q, e)
        BY <1>1 DEF TearsDown
    <2> QED BY <1>1, <1>6, <1>7, <2>1, <2>2 DEF TornDown
<1> QED BY <1>other, <1>TypeOK, <1>ListedIsKnown, <1>GoneIsDoomed, <1>OneAtATime, <1>TornDown
       DEF DatabaseInv

(* Their teardowns are notified.                                              *)
LEMMA PublishNoticeKeeps ==
    ASSUME DatabaseInv, NEW r \in Request, NEW d \in DbId, PublishNotice(r, d)
    PROVE  DatabaseInv'
<1> TypeOK /\ RowIsSound /\ CountIsSound /\ ListedIsKnown /\ ClusterIsSound /\ GoneIsDoomed /\
    BoundsAreKept /\ ProvisionIsKept /\ ReadyIsKept /\ OneAtATime /\ TornDown /\ CountsAgree
    BY DEF DatabaseInv
<1>rows. UNCHANGED rowVars
    BY DEF PublishNotice
<1>1. /\ pc[r] = "none" /\ d \in notices /\ notices' = notices \ {d}
      /\ pc' = [pc EXCEPT ![r] = IF up = "up" THEN "teardown" ELSE "done"]
      /\ db' = [db EXCEPT ![r] = d]
      /\ disturbed' = disturbed \cup IF up = "up" THEN {} ELSE {d}
    BY DEF PublishNotice, IsNextRequest, Disturb
<1>2. d \in doomed /\ dbStatus[d] = "deleted" /\ Known(d)
    BY <1>1 DEF TypeOK, GoneIsDoomed, Known
<1>3. /\ pc'[r] = (IF up = "up" THEN "teardown" ELSE "done") /\ db'[r] = d
      /\ \A q \in Request : q # r => pc'[q] = pc[q] /\ db'[q] = db[q]
    BY <1>1 DEF TypeOK
<1>other. RowIsSound' /\ ListedIsKnown' /\ ReadyIsKept'
    BY <1>rows, RowsSame DEF PublishNotice, RowIsSound, ListedIsKnown, ReadyIsKept, Sole, OwnName
<1>TypeOK. TypeOK'
    <2>1. pc' \in [Request -> PC] /\ db' \in [Request -> 0..MaxDatabases]
        BY <1>1, ZeroIsNoDatabase DEF TypeOK, PC, GoroutinePC
    <2>2. \A q \in Request : pc'[q] # "none" => db'[q] # 0 /\ dbStatus[db'[q]] # "none"
        BY <1>2, <1>3, ZeroIsNoDatabase DEF TypeOK, Known
    <2>3. notices' \subseteq doomed /\ disturbed' \subseteq DbId
        BY <1>1 DEF TypeOK
    <2> QED BY <2>1, <2>2, <2>3, <1>rows, RowsSame
               DEF PublishNotice, TypeOK
<1>CountIsSound. CountIsSound'
    BY <1>rows, RowsSame DEF PublishNotice, IsNextRequest, Disturb, CountIsSound, ProvisionedPC
<1>ClusterIsSound. ClusterIsSound'
    BY <1>rows, RowsSame DEF PublishNotice, IsNextRequest, Disturb, ClusterIsSound
<1>GoneIsDoomed. GoneIsDoomed'
    BY <1>1, <1>2, <1>3, <1>rows, RowsSame DEF PublishNotice, GoneIsDoomed
<1>BoundsAreKept. BoundsAreKept'
    BY <1>rows, RowsSame DEF PublishNotice, IsNextRequest, Disturb, BoundsAreKept
<1>ProvisionIsKept. ProvisionIsKept'
    BY <1>rows, RowsSame
       DEF PublishNotice, IsNextRequest, Disturb, ProvisionIsKept, ProvisionedPC, Sole, OwnName
<1>OneAtATime. OneAtATime'
    <2>1. \A e \in DbId : Autoscaling(e)' = Autoscaling(e)
        BY DEF PublishNotice, Autoscaling
    <2>2. \A e \in DbId, q \in Request : TearsDown(q, e)' => TearsDown(q, e) \/ e = d
        BY <1>3 DEF TearsDown
    <2>3. \A e \in DbId : Going(e)' => Going(e)
        BY <1>1, <1>2, <2>2, <1>rows, RowsSame DEF PublishNotice, Going
    <2>4. \A e \in DbId, q \in Request : Works(q, e)' => Works(q, e)
        BY <1>3 DEF Works, WorkPC
    <2> QED BY <1>1, <2>1, <2>3, <2>4 DEF OneAtATime
<1>TornDown. TornDown'
    <2> SUFFICES ASSUME NEW e \in DbId, e \notin disturbed', Going(e)', OwnName(e)
                 PROVE  \/ e \in notices' \/ \E q \in Request : TearsDown(q, e)'
                        \/ nodes[ClusterOf(e)] = 0 /\ ClusterOf(e) \notin archiving \cup poolers
        BY <1>rows, RowsSame DEF PublishNotice, TornDown
    <2>1. e = d => TearsDown(r, e)'
        BY <1>1, <1>3 DEF TearsDown
    <2>2. e # d => Going(e) /\ (e \in notices => e \in notices')
        BY <1>1, <1>3, <1>rows, RowsSame DEF PublishNotice, Going, TearsDown
    <2>3. \A q \in Request : e # d /\ TearsDown(q, e) => TearsDown(q, e)'
        BY <1>1, <1>3 DEF TearsDown
    <2> QED BY <1>1, <2>1, <2>2, <2>3 DEF TornDown
<1>CountsAgree. CountsAgree'
    BY <1>rows, RowsSame
       DEF PublishNotice, IsNextRequest, Disturb, CountsAgree, ProvisionedPC, Sole, OwnName
<1> QED BY <1>other, <1>TypeOK, <1>CountIsSound, <1>ClusterIsSound, <1>GoneIsDoomed,
       <1>BoundsAreKept, <1>ProvisionIsKept, <1>OneAtATime, <1>TornDown, <1>CountsAgree
       DEF DatabaseInv

(* A handler fails.                                                           *)
LEMMA HandlerFailsKeeps ==
    ASSUME DatabaseInv, NEW r \in Request, HandlerFails(r)
    PROVE  DatabaseInv'
<1> TypeOK /\ RowIsSound /\ CountIsSound /\ ListedIsKnown /\ ClusterIsSound /\ GoneIsDoomed /\
    BoundsAreKept /\ ProvisionIsKept /\ ReadyIsKept /\ OneAtATime /\ TornDown /\ CountsAgree
    BY DEF DatabaseInv
<1>rows. UNCHANGED rowVars
    BY DEF HandlerFails
<1>1. /\ pc[r] \in HandlerPC /\ pc' = [pc EXCEPT ![r] = "done"]
      /\ deleting' = IF pc[r] = "td_publish" THEN deleting \cup {db[r]} ELSE deleting
      /\ disturbed' = disturbed \cup {db[r]} /\ faults' \in 0..MaxFaults
    BY DEF HandlerFails, Disturb, Fault, TypeOK
<1>other. RowIsSound' /\ ListedIsKnown' /\ ReadyIsKept'
    BY <1>rows, RowsSame DEF HandlerFails, RowIsSound, ListedIsKnown, ReadyIsKept, Sole, OwnName
<1>TypeOK. TypeOK'
    <2>1. db[r] \in DbId /\ (pc[r] = "td_publish" => db[r] \in doomed)
        BY <1>1, RequestShape DEF HandlerPC, GoneIsDoomed
    <2>2. pc' \in [Request -> PC] /\ deleting' \subseteq doomed /\ disturbed' \subseteq DbId
        BY <1>1, <2>1 DEF TypeOK, PC
    <2>3. \A q \in Request : pc'[q] # "none" => pc[q] # "none"
        BY <1>1 DEF TypeOK, HandlerPC
    <2> QED BY <1>1, <2>2, <2>3, <1>rows, RowsSame
               DEF HandlerFails, TypeOK
<1>CountIsSound. CountIsSound'
    BY <1>rows, RowsSame DEF HandlerFails, Fault, Disturb, HandlerPC, CountIsSound, ProvisionedPC
<1>ClusterIsSound. ClusterIsSound'
    BY <1>rows, RowsSame DEF HandlerFails, Fault, Disturb, HandlerPC, ClusterIsSound
<1>GoneIsDoomed. GoneIsDoomed'
    BY <1>rows, RowsSame DEF HandlerFails, Fault, Disturb, HandlerPC, GoneIsDoomed
<1>BoundsAreKept. BoundsAreKept'
    BY <1>rows, RowsSame DEF HandlerFails, Fault, Disturb, HandlerPC, BoundsAreKept
<1>ProvisionIsKept. ProvisionIsKept'
    BY <1>rows, RowsSame
       DEF HandlerFails, Fault, Disturb, HandlerPC, ProvisionIsKept, ProvisionedPC, Sole, OwnName
<1>OneAtATime. OneAtATime'
    BY <1>rows, RowsSame
       DEF HandlerFails, Fault, Disturb, HandlerPC, OneAtATime, Going, Works, TearsDown, WorkPC,
           Autoscaling
<1>TornDown. TornDown'
    BY <1>rows, RowsSame DEF HandlerFails, Fault, Disturb, HandlerPC, TornDown, Going, TearsDown
<1>CountsAgree. CountsAgree'
    BY AfterAFault DEF HandlerFails
<1> QED BY <1>other, <1>TypeOK, <1>CountIsSound, <1>ClusterIsSound, <1>GoneIsDoomed,
       <1>BoundsAreKept, <1>ProvisionIsKept, <1>OneAtATime, <1>TornDown, <1>CountsAgree
       DEF DatabaseInv

(* The row could not be deleted.                                              *)
LEMMA DeleteFailsKeeps ==
    ASSUME DatabaseInv, NEW d \in DbId, DeleteFails(d)
    PROVE  DatabaseInv'
<1> TypeOK /\ RowIsSound /\ CountIsSound /\ ListedIsKnown /\ ClusterIsSound /\ GoneIsDoomed /\
    BoundsAreKept /\ ProvisionIsKept /\ ReadyIsKept /\ OneAtATime /\ TornDown /\ CountsAgree
    BY DEF DatabaseInv
<1>rows. UNCHANGED rowVars
    BY DEF DeleteFails
<1>other. /\ RowIsSound' /\ CountIsSound' /\ ListedIsKnown' /\ ClusterIsSound'
          /\ GoneIsDoomed' /\ BoundsAreKept' /\ ProvisionIsKept' /\ ReadyIsKept'
    BY <1>rows, RowsSame
       DEF DeleteFails, RowIsSound, CountIsSound, ProvisionedPC, ListedIsKnown, ClusterIsSound,
           GoneIsDoomed, BoundsAreKept, ProvisionIsKept, Sole, OwnName, ReadyIsKept
<1>TypeOK. TypeOK'
    BY <1>rows, RowsSame DEF DeleteFails, Fault, TypeOK, PC, HandlerPC, GoroutinePC
<1>OneAtATime. OneAtATime'
    BY <1>rows, RowsSame
       DEF DeleteFails, Fault, OneAtATime, Going, Works, TearsDown, WorkPC, Autoscaling
<1>TornDown. TornDown'
    BY <1>rows, RowsSame DEF DeleteFails, Fault, TornDown, Going, TearsDown
<1>CountsAgree. CountsAgree'
    BY AfterAFault DEF DeleteFails
<1> QED BY <1>other, <1>TypeOK, <1>OneAtATime, <1>TornDown, <1>CountsAgree DEF DatabaseInv

(* The project could not be deleted.                                          *)
LEMMA DeleteProjectFailsKeeps ==
    ASSUME DatabaseInv, NEW p \in Projects, DeleteProjectFails(p)
    PROVE  DatabaseInv'
<1> TypeOK /\ RowIsSound /\ CountIsSound /\ ListedIsKnown /\ ClusterIsSound /\ GoneIsDoomed /\
    BoundsAreKept /\ ProvisionIsKept /\ ReadyIsKept /\ OneAtATime /\ TornDown /\ CountsAgree
    BY DEF DatabaseInv
<1>rows. UNCHANGED rowVars
    BY DEF DeleteProjectFails
<1>other. /\ RowIsSound' /\ CountIsSound' /\ ClusterIsSound' /\ GoneIsDoomed'
          /\ BoundsAreKept' /\ ProvisionIsKept' /\ ReadyIsKept' /\ OneAtATime'
          /\ TornDown'
    BY <1>rows, RowsSame
       DEF DeleteProjectFails, RowIsSound, CountIsSound, ProvisionedPC, ClusterIsSound,
           GoneIsDoomed, BoundsAreKept, ProvisionIsKept, Sole, OwnName, ReadyIsKept, OneAtATime,
           Going, Works, TearsDown, WorkPC, Autoscaling, TornDown
<1>TypeOK. TypeOK'
    <2>1. listing' \in [Projects -> (SUBSET DbId) \cup {NotListed}]
        BY DEF DeleteProjectFails, TypeOK
    <2>2. faults' \in 0..MaxFaults
        BY DEF DeleteProjectFails, TypeOK, Fault
    <2> QED BY <2>1, <2>2, <1>rows, RowsSame
               DEF DeleteProjectFails, TypeOK
<1>ListedIsKnown. ListedIsKnown'
    BY <1>rows, RowsSame DEF DeleteProjectFails, Fault, ListedIsKnown
<1>CountsAgree. CountsAgree'
    BY AfterAFault DEF DeleteProjectFails
<1> QED BY <1>other, <1>TypeOK, <1>ListedIsKnown, <1>CountsAgree DEF DatabaseInv

(* A teardown is not notified.                                                *)
LEMMA NoticeFailsKeeps ==
    ASSUME DatabaseInv, NEW d \in DbId, NoticeFails(d)
    PROVE  DatabaseInv'
<1> TypeOK /\ RowIsSound /\ CountIsSound /\ ListedIsKnown /\ ClusterIsSound /\ GoneIsDoomed /\
    BoundsAreKept /\ ProvisionIsKept /\ ReadyIsKept /\ OneAtATime /\ TornDown /\ CountsAgree
    BY DEF DatabaseInv
<1>rows. UNCHANGED rowVars
    BY DEF NoticeFails
<1>other. /\ RowIsSound' /\ CountIsSound' /\ ListedIsKnown' /\ ClusterIsSound'
          /\ BoundsAreKept' /\ ProvisionIsKept' /\ ReadyIsKept'
    BY <1>rows, RowsSame
       DEF NoticeFails, RowIsSound, CountIsSound, ProvisionedPC, ListedIsKnown, ClusterIsSound,
           BoundsAreKept, ProvisionIsKept, Sole, OwnName, ReadyIsKept
<1>TypeOK. TypeOK'
    BY <1>rows, RowsSame DEF NoticeFails, Fault, Disturb, TypeOK, PC, HandlerPC, GoroutinePC
<1>GoneIsDoomed. GoneIsDoomed'
    BY <1>rows, RowsSame DEF NoticeFails, Fault, Disturb, GoneIsDoomed
<1>OneAtATime. OneAtATime'
    BY <1>rows, RowsSame
       DEF NoticeFails, Fault, Disturb, OneAtATime, Going, Works, TearsDown, WorkPC, Autoscaling
<1>TornDown. TornDown'
    BY <1>rows, RowsSame DEF NoticeFails, Fault, Disturb, TornDown, Going, TearsDown
<1>CountsAgree. CountsAgree'
    BY AfterAFault DEF NoticeFails
<1> QED BY <1>other, <1>TypeOK, <1>GoneIsDoomed, <1>OneAtATime, <1>TornDown, <1>CountsAgree
       DEF DatabaseInv

(* The controller starts.                                                     *)
LEMMA StartControllerKeeps ==
    ASSUME DatabaseInv, StartController
    PROVE  DatabaseInv'
<1> TypeOK /\ RowIsSound /\ CountIsSound /\ ListedIsKnown /\ ClusterIsSound /\ GoneIsDoomed /\
    BoundsAreKept /\ ProvisionIsKept /\ ReadyIsKept /\ OneAtATime /\ TornDown /\ CountsAgree
    BY DEF DatabaseInv
<1>rows. UNCHANGED rowVars
    BY DEF StartController
<1>other. /\ RowIsSound' /\ CountIsSound' /\ ListedIsKnown' /\ ClusterIsSound'
          /\ GoneIsDoomed' /\ BoundsAreKept' /\ ProvisionIsKept' /\ ReadyIsKept'
          /\ OneAtATime' /\ TornDown' /\ CountsAgree'
    BY <1>rows, RowsSame
       DEF StartController, RowIsSound, CountIsSound, ProvisionedPC, ListedIsKnown,
           ClusterIsSound, GoneIsDoomed, BoundsAreKept, ProvisionIsKept, Sole, OwnName,
           ReadyIsKept, OneAtATime, Going, Works, TearsDown, WorkPC, Autoscaling, TornDown,
           CountsAgree
<1>TypeOK. TypeOK'
    BY <1>rows, RowsSame DEF StartController, TypeOK, PC, HandlerPC, GoroutinePC
<1> QED BY <1>other, <1>TypeOK DEF DatabaseInv

(* A goroutine loads the row.                                                 *)
LEMMA LoadDatabaseKeeps ==
    ASSUME DatabaseInv, NEW r \in Request, LoadDatabase(r)
    PROVE  DatabaseInv'
<1> TypeOK /\ RowIsSound /\ CountIsSound /\ ListedIsKnown /\ ClusterIsSound /\ GoneIsDoomed /\
    BoundsAreKept /\ ProvisionIsKept /\ ReadyIsKept /\ OneAtATime /\ TornDown /\ CountsAgree
    BY DEF DatabaseInv
<1>rows. UNCHANGED rowVars
    BY DEF LoadDatabase
<1>1. /\ pc[r] = "load" /\ pc' = [pc EXCEPT ![r] = IF Exists(db[r]) THEN "provision" ELSE "done"]
      /\ count' = IF Exists(db[r]) THEN [count EXCEPT ![r] = instances[db[r]]] ELSE count
      /\ UNCHANGED <<db, deleting, doomed, asked, disturbed, projectVars, clusterVars, autoscalerVars,
                     faults>>
    BY DEF LoadDatabase, Goto
<1>2. db[r] \in DbId /\ Known(db[r]) /\ instances[db[r]] \in Count
    BY <1>1, RequestShape, RowShape
<1>3. /\ pc'[r] = "done" \/ (pc'[r] = "provision" /\ count'[r] = instances[db[r]])
      /\ \A q \in Request : q # r => pc'[q] = pc[q] /\ count'[q] = count[q]
    BY <1>1 DEF TypeOK
<1>other. RowIsSound' /\ ListedIsKnown' /\ ReadyIsKept'
    BY <1>rows, RowsSame DEF LoadDatabase, RowIsSound, ListedIsKnown, ReadyIsKept, Sole, OwnName
<1>TypeOK. TypeOK'
    <2>1. pc' \in [Request -> PC] /\ count' \in [Request -> 0..MaxInstances]
        BY <1>1, <1>2, CountIsPositive DEF TypeOK, PC, GoroutinePC
    <2>2. \A q \in Request : pc'[q] # "none" => pc[q] # "none"
        BY <1>1, <1>3
    <2> QED BY <1>1, <2>1, <2>2, <1>rows, RowsSame
               DEF LoadDatabase, TypeOK
<1>CountIsSound. CountIsSound'
    BY <1>1, <1>2, <1>3, <1>rows, RowsSame, CountIsPositive
       DEF CountIsSound, RowIsSound, ProvisionedPC
<1>ClusterIsSound. ClusterIsSound'
    BY <1>1, <1>2, <1>3, <1>rows, RowsSame DEF ClusterIsSound
<1>GoneIsDoomed. GoneIsDoomed'
    BY <1>1, <1>2, <1>3, <1>rows, RowsSame DEF GoneIsDoomed
<1>BoundsAreKept. BoundsAreKept'
    BY <1>1, <1>2, <1>3, <1>rows, RowsSame DEF BoundsAreKept
<1>ProvisionIsKept. ProvisionIsKept'
    BY <1>1, <1>2, <1>3, <1>rows, RowsSame DEF ProvisionIsKept, ProvisionedPC, Sole, OwnName
<1>OneAtATime. OneAtATime'
    <2>1. \A e \in DbId : Autoscaling(e)' => Autoscaling(e)
        BY <1>1, <1>2, <1>3, <1>rows, RowsSame DEF Autoscaling
    <2>2. \A e \in DbId, q \in Request : TearsDown(q, e)' => TearsDown(q, e)
        BY <1>1, <1>2, <1>3, <1>rows, RowsSame DEF TearsDown
    <2>3. \A e \in DbId : Going(e)' => Going(e)
        BY <1>1, <1>2, <1>3, <1>rows, RowsSame, <2>2 DEF Going
    <2>4. \A e \in DbId, q \in Request : Works(q, e)' => Works(q, e)
        BY <1>1, <1>2, <1>3, <1>rows, RowsSame DEF Works, WorkPC
    <2> QED BY <1>1, <1>2, <1>3, <1>rows, RowsSame, <2>1, <2>3, <2>4, OneAtATimeKept
<1>TornDown. TornDown'
    <2>1. \A e \in DbId, q \in Request : TearsDown(q, e)' <=> TearsDown(q, e)
        BY <1>1, <1>2, <1>3, <1>rows, RowsSame DEF TearsDown
    <2>2. \A e \in DbId : Going(e)' => Going(e)
        BY <1>1, <1>2, <1>3, <1>rows, RowsSame, <2>1 DEF Going
    <2> QED BY <1>1, <1>2, <1>3, <1>rows, RowsSame, <2>1, <2>2, TornDownKept
<1>CountsAgree. CountsAgree'
    BY <1>1, <1>2, <1>3, <1>rows, RowsSame DEF CountsAgree, ProvisionedPC, Sole, OwnName
<1> QED BY <1>other, <1>TypeOK, <1>CountIsSound, <1>ClusterIsSound, <1>GoneIsDoomed,
       <1>BoundsAreKept, <1>ProvisionIsKept, <1>OneAtATime, <1>TornDown, <1>CountsAgree
       DEF DatabaseInv

(* It writes the cluster object.                                              *)
LEMMA ProvisionKeeps ==
    ASSUME DatabaseInv, NEW r \in Request, Provision(r)
    PROVE  DatabaseInv'
<1> TypeOK /\ RowIsSound /\ CountIsSound /\ ListedIsKnown /\ ClusterIsSound /\ GoneIsDoomed /\
    BoundsAreKept /\ ProvisionIsKept /\ ReadyIsKept /\ OneAtATime /\ TornDown /\ CountsAgree
    BY DEF DatabaseInv
<1>rows. UNCHANGED rowVars
    BY DEF Provision
<1> DEFINE d == db[r]
           c == ClusterOf(d)
           backups == "backups" \in conf[d].features /\ ObjectStore
<1>1. /\ pc[r] = "provision" /\ pc' = [pc EXCEPT ![r] = IF backups THEN "schedule" ELSE "wait"]
      /\ IF conf[d].engine = "redis" THEN ProvisionRedis(c)
         ELSE ProvisionPostgres(c, count[r], conf[d].features)
      /\ UNCHANGED <<schedules, ondemand, poolers, db, count, deleting, doomed, asked, disturbed,
                     projectVars, todo, job, up, faults>>
    BY DEF Provision, Goto
<1>2. /\ d \in DbId /\ Known(d) /\ c \in Cluster /\ c[2] = conf[d].engine
      /\ count[r] \in Count /\ (conf[d].engine = "redis" => count[r] = 1 /\ ~backups)
    BY <1>1, RequestShape, RowShape, CountIsPositive DEF CountIsSound, RowIsSound, TypeOK
<1>3. /\ pc'[r] = (IF backups THEN "schedule" ELSE "wait")
      /\ \A q \in Request : q # r => pc'[q] = pc[q]
    BY <1>1 DEF TypeOK
<1>4. /\ nodes' = [nodes EXCEPT ![c] = count[r]]
      /\ backups => c \in archiving'
      /\ \A k : k # c => (k \in archiving' <=> k \in archiving)
      /\ conf[d].engine = "redis" => archiving' = archiving
    BY <1>1, <1>2 DEF ProvisionRedis, ProvisionPostgres
<1>5. nodes'[c] = count[r] /\ \A k \in Cluster : k # c => nodes'[k] = nodes[k]
    BY <1>2, <1>4 DEF TypeOK
<1>6. \A e \in DbId : Sole(e)' = Sole(e)
    BY <1>1, <1>rows, RowsSame DEF Sole, OwnName
<1>7. \A e \in DbId : OwnName(e) /\ ClusterOf(e) = c => e = d
    BY <1>2, OneOwner
<1>8. \A e \in DbId : Sole(e) => ClusterOf(e) \in Cluster /\ OwnName(e)
    BY SoleShape, RowShape, ExistingIsKnown
<1>9. BackedUp(d) => backups
    BY DEF BackedUp
<1> HIDE DEF c, d, backups
<1>other. RowIsSound' /\ ListedIsKnown'
    BY <1>rows, RowsSame DEF Provision, RowIsSound, ListedIsKnown
<1>TypeOK. TypeOK'
    <2>1. pc' \in [Request -> PC] /\ \A q \in Request : pc'[q] # "none" => pc[q] # "none"
        BY <1>1, <1>3 DEF TypeOK, PC, GoroutinePC
    <2>2. nodes' \in [Cluster -> 0..MaxInstances]
        BY <1>2, <1>4, CountIsPositive DEF TypeOK
    <2>3. archiving' \subseteq Cluster
        BY <1>2, <1>4 DEF TypeOK
    <2> QED BY <1>1, <2>1, <2>2, <2>3, <1>rows, RowsSame DEF TypeOK
<1>CountIsSound. CountIsSound'
    BY <1>rows, RowsSame
       DEF Provision, Goto, ProvisionRedis, ProvisionPostgres, CountIsSound, ProvisionedPC
<1>ClusterIsSound. ClusterIsSound'
    <2>1. \A k \in archiving' \cup poolers' : k[2] # "redis"
        BY <1>1, <1>2, <1>4 DEF ClusterIsSound
    <2>2. \A q \in Request : pc'[q] = "pool" => conf[db[q]].engine # "redis"
        BY <1>3 DEF ClusterIsSound
    <2>3. \A k \in Cluster : (\A e \in DbId : Known(e) => ClusterOf(e) # k) => k # c
        BY <1>2 DEF c
    <2> QED BY <1>1, <1>4, <1>5, <2>1, <2>2, <2>3, <1>rows, RowsSame DEF ClusterIsSound
<1>GoneIsDoomed. GoneIsDoomed'
    BY <1>rows, RowsSame DEF Provision, Goto, ProvisionRedis, ProvisionPostgres, GoneIsDoomed
<1>BoundsAreKept. BoundsAreKept'
    <2>1. d \notin asked /\ conf[d].tier = "autoscale" => count[r] \in Bounds(d)
        BY <1>1, <1>2 DEF BoundsAreKept, d
    <2>2. \A e \in DbId : Known(e) => ClusterOf(e) \in Cluster
        BY RowShape
    <2>3. \A e \in DbId : e \notin asked /\ Known(e) /\ conf[e].tier = "autoscale" /\ OwnName(e) =>
             nodes'[ClusterOf(e)] \in {0} \cup Bounds(e)
        BY <1>5, <1>7, <2>1, <2>2 DEF BoundsAreKept
    <2> QED BY <1>1, <1>3, <2>3, <1>rows, RowsSame DEF BoundsAreKept
<1>ProvisionIsKept. ProvisionIsKept'
    <2> SUFFICES ASSUME NEW q \in Request, pc'[q] \in ProvisionedPC, Sole(db[q]), db[q] \in DbId
                 PROVE  /\ nodes'[ClusterOf(db[q])] > 0
                        /\ BackedUp(db[q]) => ClusterOf(db[q]) \in archiving'
                        /\ BackedUp(db[q]) /\ pc'[q] # "schedule" => ClusterOf(db[q]) \in schedules
                        /\ pc'[q] = "store" =>
                              ("pooling" \in conf[db[q]].features <=> ClusterOf(db[q]) \in poolers)
        <3>1. \A q \in Request : pc'[q] \in ProvisionedPC => db[q] \in DbId
            BY <1>1, <1>2, <1>3, RequestShape DEF ProvisionedPC, d
        <3> QED BY <1>1, <1>6, <3>1, <1>rows, RowsSame DEF ProvisionIsKept
    <2>1. CASE q = r
        BY <1>2, <1>3, <1>4, <1>5, <1>9, <2>1, CountIsPositive DEF c, d
    <2>2. CASE q # r
        <3>1. pc'[q] = pc[q]
            BY <1>3, <2>2
        <3>2. db[q] = d => nodes'[ClusterOf(db[q])] > 0 /\ (BackedUp(db[q]) => ClusterOf(db[q]) \in archiving')
            BY <1>2, <1>4, <1>5, <1>9, CountIsPositive DEF c
        <3>3. db[q] # d => ClusterOf(db[q]) # c /\ ClusterOf(db[q]) \in Cluster
            BY <1>7, <1>8
        <3> QED BY <1>4, <1>5, <3>1, <3>2, <3>3 DEF ProvisionIsKept
    <2> QED BY <2>1, <2>2
<1>ReadyIsKept. ReadyIsKept'
    <2>1. \A e \in DbId : Sole(e) /\ nodes[ClusterOf(e)] > 0 => nodes'[ClusterOf(e)] > 0
        BY <1>2, <1>5, <1>8, CountIsPositive
    <2>2. \A e \in DbId : Sole(e) /\ BackedUp(e) /\ ClusterOf(e) \in archiving =>
             ClusterOf(e) \in archiving'
        BY <1>4, <1>7, <1>8, <1>9
    <2> QED BY <1>1, <1>6, <2>1, <2>2, <1>rows, RowsSame DEF ReadyIsKept
<1>OneAtATime. OneAtATime'
    BY <1>rows, RowsSame
       DEF Provision, Goto, ProvisionRedis, ProvisionPostgres, OneAtATime, Going, Works,
           TearsDown, WorkPC, Autoscaling
<1>TornDown. TornDown'
    <2>1. \A e \in DbId, q \in Request : TearsDown(q, e)' <=> TearsDown(q, e)
        BY <1>1, <1>3 DEF TearsDown
    <2>2. \A e \in DbId : Going(e)' <=> Going(e)
        BY <1>1, <2>1, <1>rows, RowsSame DEF Going
    <2>3. \A e \in DbId : e \notin disturbed /\ Going(e) => e # d
        BY <1>1 DEF OneAtATime, Works, WorkPC, d
    <2>4. \A e \in DbId : Going(e) => ClusterOf(e) \in Cluster
        <3>1. \A e \in DbId : Going(e) => Known(e)
            BY RequestShape DEF Going, TearsDown, TypeOK, Known
        <3> QED BY <3>1, RowShape
    <2> QED BY <1>1, <1>4, <1>5, <1>7, <2>1, <2>2, <2>3, <2>4, <1>rows, RowsSame
               DEF TornDown
<1>CountsAgree. CountsAgree'
    <2> SUFFICES ASSUME faults = 0, NEW e \in DbId, e \notin disturbed, Sole(e)
                 PROVE  /\ \A q \in Request : db[q] = e =>
                              /\ pc'[q] \in {"provision"} \cup ProvisionedPC => count[q] = instances[e]
                              /\ pc'[q] \in ProvisionedPC => nodes'[ClusterOf(e)] = instances[e]
                        /\ job[2] = e => nodes'[ClusterOf(e)] = job[3]
                        /\ dbStatus[e] = "ready" /\ job[2] # e => nodes'[ClusterOf(e)] = instances[e]
                        /\ dbStatus[e] = "ready" /\ conf[e].tier = "standard" =>
                              ("read" \in uris[e] <=> instances[e] > 1)
        BY <1>1, <1>6, <1>rows, RowsSame DEF CountsAgree
    <2>1. \A q \in Request : pc'[q] \in {"provision"} \cup ProvisionedPC =>
             pc[q] \in {"provision"} \cup ProvisionedPC
        BY <1>1, <1>3 DEF ProvisionedPC
    <2>2. CASE e = d
        <3>1. count[r] = instances[d]
            BY <1>1, <2>2 DEF CountsAgree, d
        <3>2. job[2] # d
            BY <1>1, <2>2 DEF OneAtATime, Works, WorkPC, Autoscaling, d
        <3> QED BY <1>5, <2>1, <2>2, <3>1, <3>2 DEF CountsAgree, c
    <2>3. CASE e # d
        <3>1. nodes'[ClusterOf(e)] = nodes[ClusterOf(e)]
            BY <1>5, <1>7, <1>8, <2>3
        <3>2. \A q \in Request : db[q] = e => pc'[q] = pc[q]
            BY <1>3, <2>3 DEF d
        <3> QED BY <3>1, <3>2 DEF CountsAgree
    <2> QED BY <2>2, <2>3
<1> QED BY <1>other, <1>TypeOK, <1>CountIsSound, <1>ClusterIsSound, <1>GoneIsDoomed,
       <1>BoundsAreKept, <1>ProvisionIsKept, <1>ReadyIsKept, <1>OneAtATime, <1>TornDown,
       <1>CountsAgree
       DEF DatabaseInv

(* It writes the schedule.                                                    *)
LEMMA ApplyScheduledBackupKeeps ==
    ASSUME DatabaseInv, NEW r \in Request, applyScheduledBackup(r)
    PROVE  DatabaseInv'
<1> TypeOK /\ RowIsSound /\ CountIsSound /\ ListedIsKnown /\ ClusterIsSound /\ GoneIsDoomed /\
    BoundsAreKept /\ ProvisionIsKept /\ ReadyIsKept /\ OneAtATime /\ TornDown /\ CountsAgree
    BY DEF DatabaseInv
<1>rows. UNCHANGED rowVars
    BY DEF applyScheduledBackup
<1>other. RowIsSound' /\ ListedIsKnown'
    BY <1>rows, RowsSame DEF applyScheduledBackup, RowIsSound, ListedIsKnown
<1>TypeOK. TypeOK'
    <2>1. ClusterOf(db[r]) \in Cluster
        BY RequestShape, RowShape DEF applyScheduledBackup
    <2>2. pc' \in [Request -> PC] /\ \A q \in Request : pc'[q] # "none" => pc[q] # "none"
        BY DEF applyScheduledBackup, Goto, TypeOK, PC, GoroutinePC
    <2> QED BY <2>1, <2>2, <1>rows, RowsSame
               DEF applyScheduledBackup, TypeOK
<1>CountIsSound. CountIsSound'
    BY <1>rows, RowsSame DEF applyScheduledBackup, Goto, CountIsSound, ProvisionedPC
<1>ClusterIsSound. ClusterIsSound'
    BY <1>rows, RowsSame DEF applyScheduledBackup, Goto, ClusterIsSound
<1>GoneIsDoomed. GoneIsDoomed'
    BY <1>rows, RowsSame DEF applyScheduledBackup, Goto, GoneIsDoomed
<1>BoundsAreKept. BoundsAreKept'
    BY <1>rows, RowsSame DEF applyScheduledBackup, Goto, BoundsAreKept
<1>ProvisionIsKept. ProvisionIsKept'
    BY <1>rows, RowsSame
       DEF applyScheduledBackup, Goto, ProvisionIsKept, ProvisionedPC, Sole, OwnName
<1>ReadyIsKept. ReadyIsKept'
    BY <1>rows, RowsSame DEF applyScheduledBackup, Goto, ReadyIsKept, Sole, OwnName
<1>OneAtATime. OneAtATime'
    BY <1>rows, RowsSame
       DEF applyScheduledBackup, Goto, OneAtATime, Going, Works, TearsDown, WorkPC, Autoscaling
<1>TornDown. TornDown'
    BY <1>rows, RowsSame DEF applyScheduledBackup, Goto, TornDown, Going, TearsDown
<1>CountsAgree. CountsAgree'
    BY <1>rows, RowsSame DEF applyScheduledBackup, Goto, CountsAgree, ProvisionedPC, Sole, OwnName
<1> QED BY <1>other, <1>TypeOK, <1>CountIsSound, <1>ClusterIsSound, <1>GoneIsDoomed,
       <1>BoundsAreKept, <1>ProvisionIsKept, <1>ReadyIsKept, <1>OneAtATime, <1>TornDown,
       <1>CountsAgree
       DEF DatabaseInv

(* It waits for the cluster.                                                  *)
LEMMA WaitReadyKeeps ==
    ASSUME DatabaseInv, NEW r \in Request, WaitReady(r)
    PROVE  DatabaseInv'
<1> TypeOK /\ RowIsSound /\ CountIsSound /\ ListedIsKnown /\ ClusterIsSound /\ GoneIsDoomed /\
    BoundsAreKept /\ ProvisionIsKept /\ ReadyIsKept /\ OneAtATime /\ TornDown /\ CountsAgree
    BY DEF DatabaseInv
<1>rows. UNCHANGED rowVars
    BY DEF WaitReady
<1>other. RowIsSound' /\ ListedIsKnown' /\ ReadyIsKept'
    BY <1>rows, RowsSame DEF WaitReady, RowIsSound, ListedIsKnown, ReadyIsKept, Sole, OwnName
<1>TypeOK. TypeOK'
    BY <1>rows, RowsSame DEF WaitReady, Goto, TypeOK, PC, HandlerPC, GoroutinePC
<1>CountIsSound. CountIsSound'
    BY <1>rows, RowsSame DEF WaitReady, Goto, CountIsSound, ProvisionedPC
<1>ClusterIsSound. ClusterIsSound'
    BY <1>rows, RowsSame DEF WaitReady, Goto, ClusterIsSound
<1>GoneIsDoomed. GoneIsDoomed'
    BY <1>rows, RowsSame DEF WaitReady, Goto, GoneIsDoomed
<1>BoundsAreKept. BoundsAreKept'
    BY <1>rows, RowsSame DEF WaitReady, Goto, BoundsAreKept
<1>ProvisionIsKept. ProvisionIsKept'
    <2> SUFFICES ASSUME NEW q \in Request, pc'[q] \in ProvisionedPC, Sole(db[q])
                 PROVE  LET d == db[q]  c == ClusterOf(db[q]) IN
                        /\ nodes[c] > 0
                        /\ BackedUp(d) => c \in archiving
                        /\ BackedUp(d) /\ pc'[q] # "schedule" => c \in schedules
                        /\ pc'[q] = "store" => ("pooling" \in conf[d].features <=> c \in poolers)
        BY <1>rows, RowsSame DEF WaitReady, ProvisionIsKept, Sole, OwnName
    <2>1. CASE q = r
        <3>1. db[r] \in DbId /\ Known(db[r])
            BY RequestShape DEF WaitReady
        <3>2. conf[db[r]].engine = "redis" =>
                 "pooling" \notin conf[db[r]].features /\ ClusterOf(db[r]) \notin poolers
            BY <3>1, RowShape DEF RowIsSound, ClusterIsSound
        <3>3. pc[r] = "wait" /\ pc'[r] = IF conf[db[r]].engine = "postgres" THEN "pool" ELSE "store"
            BY DEF WaitReady, Goto, TypeOK
        <3>4. conf[db[r]].engine \in {"postgres", "redis"}
            BY <3>1, RowShape
        <3> QED BY <2>1, <3>2, <3>3, <3>4 DEF ProvisionIsKept, ProvisionedPC
    <2>2. CASE q # r
        <3>1. pc'[q] = pc[q]
            BY <2>2 DEF WaitReady, Goto, TypeOK
        <3> QED BY <3>1 DEF ProvisionIsKept
    <2> QED BY <2>1, <2>2
<1>OneAtATime. OneAtATime'
    BY <1>rows, RowsSame
       DEF WaitReady, Goto, OneAtATime, Going, Works, TearsDown, WorkPC, Autoscaling
<1>TornDown. TornDown'
    BY <1>rows, RowsSame DEF WaitReady, Goto, TornDown, Going, TearsDown
<1>CountsAgree. CountsAgree'
    BY <1>rows, RowsSame DEF WaitReady, Goto, CountsAgree, ProvisionedPC, Sole, OwnName
<1> QED BY <1>other, <1>TypeOK, <1>CountIsSound, <1>ClusterIsSound, <1>GoneIsDoomed,
       <1>BoundsAreKept, <1>ProvisionIsKept, <1>OneAtATime, <1>TornDown, <1>CountsAgree
       DEF DatabaseInv

(* It writes or removes the pooler.                                           *)
LEMMA ReconcilePgBouncerKeeps ==
    ASSUME DatabaseInv, NEW r \in Request, ReconcilePgBouncer(r)
    PROVE  DatabaseInv'
<1> TypeOK /\ RowIsSound /\ CountIsSound /\ ListedIsKnown /\ ClusterIsSound /\ GoneIsDoomed /\
    BoundsAreKept /\ ProvisionIsKept /\ ReadyIsKept /\ OneAtATime /\ TornDown /\ CountsAgree
    BY DEF DatabaseInv
<1>rows. UNCHANGED rowVars
    BY DEF ReconcilePgBouncer
<1> DEFINE d == db[r]
           c == ClusterOf(d)
<1>1. /\ pc[r] = "pool" /\ pc' = [pc EXCEPT ![r] = "store"]
      /\ poolers' = IF "pooling" \in conf[d].features THEN poolers \cup {c} ELSE poolers \ {c}
      /\ UNCHANGED <<nodes, archiving, schedules, ondemand, db, count, deleting, doomed, asked,
                     disturbed, projectVars, todo, job, up, faults>>
    BY DEF ReconcilePgBouncer, Goto
<1>2. /\ d \in DbId /\ Known(d) /\ c \in Cluster /\ c[2] # "redis"
    BY <1>1, RequestShape, RowShape DEF ClusterIsSound
<1>3. /\ pc'[r] = "store" /\ \A q \in Request : q # r => pc'[q] = pc[q]
    BY <1>1 DEF TypeOK
<1>4. /\ c \in poolers' <=> "pooling" \in conf[d].features
      /\ \A k : k # c => (k \in poolers' <=> k \in poolers)
    BY <1>1
<1>5. \A e \in DbId : Sole(e)' = Sole(e)
    BY <1>1, <1>rows, RowsSame DEF Sole, OwnName
<1>6. \A e \in DbId : Sole(e) /\ ClusterOf(e) = c => e = d
    BY <1>2, OneOwner, SoleShape
<1> HIDE DEF c, d
<1>other. RowIsSound' /\ ListedIsKnown'
    BY <1>rows, RowsSame DEF ReconcilePgBouncer, RowIsSound, ListedIsKnown
<1>TypeOK. TypeOK'
    <2>1. pc' \in [Request -> PC] /\ \A q \in Request : pc'[q] # "none" => pc[q] # "none"
        BY <1>1, <1>3 DEF TypeOK, PC, GoroutinePC
    <2>2. poolers' \subseteq Cluster
        BY <1>1, <1>2 DEF TypeOK
    <2> QED BY <1>1, <2>1, <2>2, <1>rows, RowsSame DEF TypeOK
<1>CountIsSound. CountIsSound'
    BY <1>rows, RowsSame DEF ReconcilePgBouncer, Goto, CountIsSound, ProvisionedPC
<1>ClusterIsSound. ClusterIsSound'
    <2>1. \A k \in archiving' \cup poolers' : k[2] # "redis"
        BY <1>1, <1>2, <1>4 DEF ClusterIsSound
    <2>2. \A q \in Request : pc'[q] = "pool" => conf[db[q]].engine # "redis"
        BY <1>3 DEF ClusterIsSound
    <2>3. \A k \in Cluster : (\A e \in DbId : Known(e) => ClusterOf(e) # k) => k # c
        BY <1>2 DEF c
    <2> QED BY <1>1, <1>4, <2>1, <2>2, <2>3, <1>rows, RowsSame DEF ClusterIsSound
<1>GoneIsDoomed. GoneIsDoomed'
    BY <1>rows, RowsSame DEF ReconcilePgBouncer, Goto, GoneIsDoomed
<1>BoundsAreKept. BoundsAreKept'
    BY <1>rows, RowsSame DEF ReconcilePgBouncer, Goto, BoundsAreKept
<1>ProvisionIsKept. ProvisionIsKept'
    <2> SUFFICES ASSUME NEW q \in Request, pc'[q] \in ProvisionedPC, Sole(db[q]), db[q] \in DbId
                 PROVE  /\ nodes[ClusterOf(db[q])] > 0
                        /\ BackedUp(db[q]) => ClusterOf(db[q]) \in archiving
                        /\ BackedUp(db[q]) /\ pc'[q] # "schedule" => ClusterOf(db[q]) \in schedules
                        /\ pc'[q] = "store" =>
                              ("pooling" \in conf[db[q]].features <=> ClusterOf(db[q]) \in poolers')
        <3>1. \A q \in Request : pc'[q] \in ProvisionedPC => db[q] \in DbId
            BY <1>1, <1>3, RequestShape DEF ProvisionedPC
        <3> QED BY <1>1, <1>5, <3>1, <1>rows, RowsSame DEF ProvisionIsKept
    <2>1. pc[q] \in ProvisionedPC /\ (pc'[q] = pc[q] \/ (q = r /\ pc[q] = "pool"))
        BY <1>1, <1>3 DEF ProvisionedPC
    <2>2. CASE db[q] = d
        BY <1>4, <2>1, <2>2 DEF ProvisionIsKept, c
    <2>3. CASE db[q] # d
        <3>1. ClusterOf(db[q]) # c /\ pc'[q] = pc[q]
            BY <1>6, <2>1, <2>3 DEF d
        <3> QED BY <1>4, <3>1 DEF ProvisionIsKept
    <2> QED BY <2>2, <2>3
<1>ReadyIsKept. ReadyIsKept'
    <2>1. \A e \in DbId : Sole(e) /\ ("pooling" \in conf[e].features <=> ClusterOf(e) \in poolers) =>
             ("pooling" \in conf[e].features <=> ClusterOf(e) \in poolers')
        BY <1>4, <1>6 DEF c
    <2> QED BY <1>1, <1>5, <2>1, <1>rows, RowsSame DEF ReadyIsKept
<1>OneAtATime. OneAtATime'
    BY <1>rows, RowsSame
       DEF ReconcilePgBouncer, Goto, OneAtATime, Going, Works, TearsDown, WorkPC, Autoscaling
<1>TornDown. TornDown'
    <2>1. \A e \in DbId, q \in Request : TearsDown(q, e)' <=> TearsDown(q, e)
        BY <1>1, <1>3 DEF TearsDown
    <2>2. \A e \in DbId : Going(e)' <=> Going(e)
        BY <1>1, <2>1, <1>rows, RowsSame DEF Going
    <2>3. \A e \in DbId : e \notin disturbed /\ Going(e) => e # d
        BY <1>1 DEF OneAtATime, Works, WorkPC, d
    <2>4. \A e \in DbId : OwnName(e) /\ e # d => ClusterOf(e) # c
        BY <1>2, OneOwner DEF c
    <2> QED BY <1>1, <1>4, <2>1, <2>2, <2>3, <2>4, <1>rows, RowsSame DEF TornDown
<1>CountsAgree. CountsAgree'
    BY <1>rows, RowsSame DEF ReconcilePgBouncer, Goto, CountsAgree, ProvisionedPC, Sole, OwnName
<1> QED BY <1>other, <1>TypeOK, <1>CountIsSound, <1>ClusterIsSound, <1>GoneIsDoomed,
       <1>BoundsAreKept, <1>ProvisionIsKept, <1>ReadyIsKept, <1>OneAtATime, <1>TornDown,
       <1>CountsAgree
       DEF DatabaseInv

(* It gives up.                                                               *)
LEMMA ReconcileFailsKeeps ==
    ASSUME DatabaseInv, NEW r \in Request, ReconcileFails(r)
    PROVE  DatabaseInv'
<1> TypeOK /\ RowIsSound /\ CountIsSound /\ ListedIsKnown /\ ClusterIsSound /\ GoneIsDoomed /\
    BoundsAreKept /\ ProvisionIsKept /\ ReadyIsKept /\ OneAtATime /\ TornDown /\ CountsAgree
    BY DEF DatabaseInv
<1>rows. UNCHANGED rowVars
    BY DEF ReconcileFails
<1>other. RowIsSound' /\ ListedIsKnown' /\ ReadyIsKept'
    BY <1>rows, RowsSame DEF ReconcileFails, RowIsSound, ListedIsKnown, ReadyIsKept, Sole, OwnName
<1>TypeOK. TypeOK'
    BY <1>rows, RowsSame DEF ReconcileFails, Goto, TypeOK, PC, HandlerPC, GoroutinePC
<1>CountIsSound. CountIsSound'
    BY <1>rows, RowsSame DEF ReconcileFails, Goto, CountIsSound, ProvisionedPC
<1>ClusterIsSound. ClusterIsSound'
    BY <1>rows, RowsSame DEF ReconcileFails, Goto, ClusterIsSound
<1>GoneIsDoomed. GoneIsDoomed'
    BY <1>rows, RowsSame DEF ReconcileFails, Goto, GoneIsDoomed
<1>BoundsAreKept. BoundsAreKept'
    BY <1>rows, RowsSame DEF ReconcileFails, Goto, BoundsAreKept
<1>ProvisionIsKept. ProvisionIsKept'
    BY <1>rows, RowsSame DEF ReconcileFails, Goto, ProvisionIsKept, ProvisionedPC, Sole, OwnName
<1>OneAtATime. OneAtATime'
    BY <1>rows, RowsSame
       DEF ReconcileFails, Goto, OneAtATime, Going, Works, TearsDown, WorkPC, Autoscaling
<1>TornDown. TornDown'
    BY <1>rows, RowsSame DEF ReconcileFails, Goto, TornDown, Going, TearsDown
<1>CountsAgree. CountsAgree'
    BY <1>rows, RowsSame DEF ReconcileFails, Goto, CountsAgree, ProvisionedPC, Sole, OwnName
<1> QED BY <1>other, <1>TypeOK, <1>CountIsSound, <1>ClusterIsSound, <1>GoneIsDoomed,
       <1>BoundsAreKept, <1>ProvisionIsKept, <1>OneAtATime, <1>TornDown, <1>CountsAgree
       DEF DatabaseInv

(* It stores the URIs.                                                        *)
LEMMA SetDatabaseConnectionKeeps ==
    ASSUME DatabaseInv, NEW r \in Request, SetDatabaseConnection(r)
    PROVE  DatabaseInv'
<1> TypeOK /\ RowIsSound /\ CountIsSound /\ ListedIsKnown /\ ClusterIsSound /\ GoneIsDoomed /\
    BoundsAreKept /\ ProvisionIsKept /\ ReadyIsKept /\ OneAtATime /\ TornDown /\ CountsAgree
    BY DEF DatabaseInv
<1> DEFINE d == db[r]
<1>1. /\ pc[r] = "store" /\ pc' = [pc EXCEPT ![r] = "done"]
      /\ IF Exists(d)
         THEN /\ uris' = [uris EXCEPT ![d] = UrisOf(r)]
              /\ dbStatus' = [dbStatus EXCEPT ![d] = "ready"]
         ELSE UNCHANGED <<uris, dbStatus>>
      /\ UNCHANGED <<conf, instances, db, count, deleting, doomed, asked, disturbed, projectVars,
                     clusterVars, todo, job, up, faults>>
    BY DEF SetDatabaseConnection, Goto
<1>2. d \in DbId /\ Known(d)
    BY <1>1, RequestShape
<1>7. /\ UrisOf(r) \subseteq {"rw", "read", "pooled"} /\ "rw" \in UrisOf(r)
      /\ "pooled" \in UrisOf(r) <=> "pooling" \in conf[d].features
      /\ "read" \in UrisOf(r) <=> conf[d].engine = "postgres" /\ count[r] > 1
    BY DEF UrisOf
<1> HIDE DEF d
<1>3. /\ \A e \in DbId : e # d => dbStatus'[e] = dbStatus[e] /\ uris'[e] = uris[e]
      /\ Exists(d) => dbStatus'[d] = "ready" /\ uris'[d] = UrisOf(r)
      /\ ~Exists(d) => dbStatus'[d] = dbStatus[d] /\ uris'[d] = uris[d]
    BY <1>1, <1>2 DEF TypeOK
<1>4. \A e \in DbId : /\ Known(e)' = Known(e) /\ Exists(e)' = Exists(e)
                      /\ dbStatus'[e] = "deleted" <=> dbStatus[e] = "deleted"
    BY <1>3 DEF Known, Exists
<1>5. /\ pc'[r] = "done" /\ \A q \in Request : q # r => pc'[q] = pc[q]
      /\ \A q \in Request : pc'[q] = pc[q] \/ (pc[q] \in WorkPC /\ pc'[q] \in {"done", "publish"})
    BY <1>1 DEF TypeOK, WorkPC
<1>6. \A e \in DbId : Bounds(e)' = Bounds(e) /\ ClusterOf(e)' = ClusterOf(e) /\ OwnName(e)' = OwnName(e)
                      /\ BackedUp(e)' = BackedUp(e)
    BY <1>1, <1>4, RowsKept
<1>other. /\ CountIsSound' /\ ListedIsKnown' /\ ClusterIsSound' /\ GoneIsDoomed'
          /\ ProvisionIsKept' /\ OneAtATime' /\ TornDown'
          /\ \A e \in DbId : Sole(e)' = Sole(e)
    BY <1>1, <1>4, <1>5, StatusMoves
<1>TypeOK. TypeOK'
    <2>1. /\ pc' \in [Request -> PC]
          /\ dbStatus' \in [DbId -> {"none", "creating", "ready", "failed", "deleted"}]
          /\ uris' \in [DbId -> SUBSET {"rw", "read", "pooled"}]
        BY <1>1, <1>2, <1>7 DEF TypeOK, PC
    <2>2. \A e \in DbId : Known(e)' => conf[e] \in Config /\ instances[e] # 0
        BY <1>4 DEF TypeOK, Known
    <2>3. \A q \in Request : pc'[q] # "none" => db[q] # 0 /\ dbStatus'[db[q]] # "none"
        <3> SUFFICES ASSUME NEW q \in Request, pc'[q] # "none"
                     PROVE  db[q] # 0 /\ dbStatus'[db[q]] # "none"
            OBVIOUS
        <3>1. db[q] \in DbId /\ Known(db[q])
            BY <1>1, <1>5, RequestShape
        <3>2. db[q] # 0
            BY <3>1, ZeroIsNoDatabase
        <3> QED BY <1>4, <3>1, <3>2 DEF Known
    <2>4. doomed \subseteq {e \in DbId : Known(e)'}
        BY <1>4 DEF TypeOK, Known
    <2>5. /\ conf' = conf /\ instances' = instances
          /\ UNCHANGED <<db, count, deleting, doomed, asked, disturbed, projects, listing, notices,
                         nodes, archiving, schedules, ondemand, poolers, todo, job, up, faults>>
        BY <1>1
    <2> QED BY <2>5, <2>1, <2>2, <2>3, <2>4 DEF TypeOK, Known
<1>RowIsSound. RowIsSound'
    BY <1>1, <1>4 DEF RowIsSound
<1>BoundsAreKept. BoundsAreKept'
    BY <1>1, <1>4, <1>5, <1>6 DEF BoundsAreKept
<1>ReadyIsKept. ReadyIsKept'
    <2> SUFFICES ASSUME NEW e \in DbId, dbStatus'[e] = "ready", Sole(e)
                 PROVE  LET c == ClusterOf(e) IN
                        /\ nodes[c] > 0
                        /\ "rw" \in uris'[e]
                        /\ "pooled" \in uris'[e] <=> "pooling" \in conf[e].features
                        /\ "pooling" \in conf[e].features <=> c \in poolers
                        /\ BackedUp(e) => c \in archiving \cap schedules
        BY <1>1, <1>6, <1>other DEF ReadyIsKept
    <2>1. CASE e = d /\ Exists(d)
        <3>1. /\ nodes[ClusterOf(d)] > 0
              /\ BackedUp(d) => ClusterOf(d) \in archiving \cap schedules
              /\ "pooling" \in conf[d].features <=> ClusterOf(d) \in poolers
            BY <1>1, <2>1 DEF ProvisionIsKept, ProvisionedPC, d
        <3> QED BY <1>3, <1>7, <2>1, <3>1
    <2>2. CASE ~(e = d /\ Exists(d))
        <3>1. dbStatus[e] = "ready" /\ uris'[e] = uris[e]
            BY <1>3, <2>2
        <3> QED BY <3>1 DEF ReadyIsKept
    <2> QED BY <2>1, <2>2
<1>CountsAgree. CountsAgree'
    <2> SUFFICES ASSUME faults = 0, NEW e \in DbId, e \notin disturbed, Sole(e)
                 PROVE  /\ \A q \in Request : db[q] = e =>
                              /\ pc'[q] \in {"provision"} \cup ProvisionedPC => count[q] = instances[e]
                              /\ pc'[q] \in ProvisionedPC => nodes[ClusterOf(e)] = instances[e]
                        /\ job[2] = e => nodes[ClusterOf(e)] = job[3]
                        /\ dbStatus'[e] = "ready" /\ job[2] # e => nodes[ClusterOf(e)] = instances[e]
                        /\ dbStatus'[e] = "ready" /\ conf[e].tier = "standard" =>
                              ("read" \in uris'[e] <=> instances[e] > 1)
        BY <1>1, <1>6, <1>other DEF CountsAgree
    <2>1. \A q \in Request : pc'[q] \in {"provision"} \cup ProvisionedPC => pc'[q] = pc[q]
        BY <1>5 DEF ProvisionedPC
    <2>2. CASE e = d /\ Exists(d)
        <3>1. count[r] = instances[d] /\ nodes[ClusterOf(d)] = instances[d]
            BY <1>1, <2>2 DEF CountsAgree, ProvisionedPC, d
        <3>2. conf[d].engine \in {"postgres", "redis"} /\ (conf[d].engine = "redis" => instances[d] = 1)
            BY <1>2, RowShape DEF RowIsSound
        <3>3. "read" \in uris'[d] <=> instances[d] > 1
            BY <1>3, <1>7, <2>2, <3>1, <3>2
        <3> QED BY <2>1, <2>2, <3>1, <3>3 DEF CountsAgree
    <2>3. CASE ~(e = d /\ Exists(d))
        <3>1. dbStatus'[e] = dbStatus[e] /\ uris'[e] = uris[e]
            BY <1>3, <2>3
        <3> QED BY <2>1, <3>1 DEF CountsAgree
    <2> QED BY <2>2, <2>3
<1> QED BY <1>other, <1>TypeOK, <1>RowIsSound, <1>BoundsAreKept, <1>ReadyIsKept, <1>CountsAgree
       DEF DatabaseInv

(* It stores the failure.                                                     *)
LEMMA FailDatabaseKeeps ==
    ASSUME DatabaseInv, NEW r \in Request, FailDatabase(r)
    PROVE  DatabaseInv'
<1> TypeOK /\ RowIsSound /\ CountIsSound /\ ListedIsKnown /\ ClusterIsSound /\ GoneIsDoomed /\
    BoundsAreKept /\ ProvisionIsKept /\ ReadyIsKept /\ OneAtATime /\ TornDown /\ CountsAgree
    BY DEF DatabaseInv
<1> DEFINE d == db[r]
<1>1. /\ pc[r] = "fail" /\ pc' = [pc EXCEPT ![r] = "done"]
      /\ dbStatus' = IF Exists(d) THEN [dbStatus EXCEPT ![d] = "failed"] ELSE dbStatus
      /\ UNCHANGED <<conf, instances, uris, db, count, deleting, doomed, asked, disturbed, projectVars,
                     clusterVars, todo, job, up, faults>>
    BY DEF FailDatabase, Goto
<1>2. d \in DbId /\ Known(d)
    BY <1>1, RequestShape
<1> HIDE DEF d
<1>3. /\ \A e \in DbId : e # d => dbStatus'[e] = dbStatus[e]
      /\ Exists(d) => dbStatus'[d] = "failed"
      /\ ~Exists(d) => dbStatus'[d] = dbStatus[d]
    BY <1>1, <1>2 DEF TypeOK
<1>4. \A e \in DbId : /\ Known(e)' = Known(e) /\ Exists(e)' = Exists(e)
                      /\ dbStatus'[e] = "deleted" <=> dbStatus[e] = "deleted"
    BY <1>3 DEF Known, Exists
<1>5. /\ pc'[r] = "done" /\ \A q \in Request : q # r => pc'[q] = pc[q]
      /\ \A q \in Request : pc'[q] = pc[q] \/ (pc[q] \in WorkPC /\ pc'[q] \in {"done", "publish"})
    BY <1>1 DEF TypeOK, WorkPC
<1>6. \A e \in DbId : Bounds(e)' = Bounds(e) /\ ClusterOf(e)' = ClusterOf(e) /\ OwnName(e)' = OwnName(e)
                      /\ BackedUp(e)' = BackedUp(e)
    BY <1>1, <1>4, RowsKept
<1>other. /\ CountIsSound' /\ ListedIsKnown' /\ ClusterIsSound' /\ GoneIsDoomed'
          /\ ProvisionIsKept' /\ OneAtATime' /\ TornDown'
          /\ \A e \in DbId : Sole(e)' = Sole(e)
    BY <1>1, <1>4, <1>5, StatusMoves
<1>TypeOK. TypeOK'
    <2>1. /\ pc' \in [Request -> PC]
          /\ dbStatus' \in [DbId -> {"none", "creating", "ready", "failed", "deleted"}]
        BY <1>1, <1>2 DEF TypeOK, PC
    <2>2. \A e \in DbId : Known(e)' => conf[e] \in Config /\ instances[e] # 0
        BY <1>4 DEF TypeOK, Known
    <2>3. \A q \in Request : pc'[q] # "none" => db[q] # 0 /\ dbStatus'[db[q]] # "none"
        <3> SUFFICES ASSUME NEW q \in Request, pc'[q] # "none"
                     PROVE  db[q] # 0 /\ dbStatus'[db[q]] # "none"
            OBVIOUS
        <3>1. db[q] \in DbId /\ Known(db[q])
            BY <1>1, <1>5, RequestShape
        <3>2. db[q] # 0
            BY <3>1, ZeroIsNoDatabase
        <3> QED BY <1>4, <3>1, <3>2 DEF Known
    <2>4. doomed \subseteq {e \in DbId : Known(e)'}
        BY <1>4 DEF TypeOK, Known
    <2> QED BY <1>1, <2>1, <2>2, <2>3, <2>4 DEF TypeOK, Known
<1>RowIsSound. RowIsSound'
    BY <1>1, <1>4 DEF RowIsSound
<1>BoundsAreKept. BoundsAreKept'
    BY <1>1, <1>4, <1>5, <1>6 DEF BoundsAreKept
<1>ReadyIsKept. ReadyIsKept'
    <2>1. \A e \in DbId : dbStatus'[e] = "ready" => dbStatus[e] = "ready"
        BY <1>3
    <2> QED BY <1>1, <1>6, <1>other, <2>1 DEF ReadyIsKept
<1>CountsAgree. CountsAgree'
    <2>1. \A q \in Request : pc'[q] \in {"provision"} \cup ProvisionedPC => pc'[q] = pc[q]
        BY <1>5 DEF ProvisionedPC
    <2>2. \A e \in DbId : dbStatus'[e] = "ready" => dbStatus[e] = "ready"
        BY <1>3
    <2> QED BY <1>1, <1>6, <1>other, <2>1, <2>2 DEF CountsAgree
<1> QED BY <1>other, <1>TypeOK, <1>RowIsSound, <1>BoundsAreKept, <1>ReadyIsKept, <1>CountsAgree
       DEF DatabaseInv

(* A goroutine tears a cluster down.                                          *)
LEMMA TeardownDatabaseKeeps ==
    ASSUME DatabaseInv, NEW r \in Request, TeardownDatabase(r)
    PROVE  DatabaseInv'
<1> TypeOK /\ RowIsSound /\ CountIsSound /\ ListedIsKnown /\ ClusterIsSound /\ GoneIsDoomed /\
    BoundsAreKept /\ ProvisionIsKept /\ ReadyIsKept /\ OneAtATime /\ TornDown /\ CountsAgree
    BY DEF DatabaseInv
<1>rows. UNCHANGED rowVars
    BY DEF TeardownDatabase
<1> DEFINE d == db[r]
           c == ClusterOf(d)
<1>1. /\ pc[r] = "teardown" /\ pc' = [pc EXCEPT ![r] = "done"]
      /\ IF c[2] = "redis" THEN DeleteRedis(c) ELSE DeletePostgres(c)
      /\ UNCHANGED <<schedules, ondemand, db, count, deleting, doomed, asked, disturbed, projectVars,
                     todo, job, up, faults>>
    BY DEF TeardownDatabase, Goto
<1>2. d \in DbId /\ Known(d) /\ c \in Cluster /\ d \in doomed
    BY <1>1, RequestShape, RowShape DEF GoneIsDoomed
<1>3. pc'[r] = "done" /\ \A q \in Request : q # r => pc'[q] = pc[q]
    BY <1>1 DEF TypeOK
<1>4. /\ nodes' = [nodes EXCEPT ![c] = 0]
      /\ archiving' \subseteq archiving /\ poolers' \subseteq poolers
      /\ c \notin archiving' \cup poolers'
      /\ \A k : k # c => (k \in archiving' <=> k \in archiving) /\ (k \in poolers' <=> k \in poolers)
    BY <1>1 DEF DeleteRedis, DeletePostgres, ClusterIsSound
<1>5. nodes'[c] = 0 /\ \A k \in Cluster : k # c => nodes'[k] = nodes[k]
    BY <1>2, <1>4 DEF TypeOK
<1>6. \A e \in DbId : Sole(e)' = Sole(e)
    BY <1>1, <1>rows, RowsSame DEF Sole, OwnName
<1>7. \A e \in DbId : OwnName(e) /\ ClusterOf(e) = c => e = d
    BY <1>2, OneOwner
<1>8. \A e \in DbId : Sole(e) => ClusterOf(e) \in Cluster /\ ClusterOf(e) # c
    BY <1>2, <1>7, SoleShape, RowShape, ExistingIsKnown
<1>9. \A e \in DbId : Sole(e) =>
         /\ nodes'[ClusterOf(e)] = nodes[ClusterOf(e)]
         /\ ClusterOf(e) \in archiving' <=> ClusterOf(e) \in archiving
         /\ ClusterOf(e) \in poolers' <=> ClusterOf(e) \in poolers
    BY <1>4, <1>5, <1>8
<1> HIDE DEF c, d
<1>other. RowIsSound' /\ ListedIsKnown'
    BY <1>rows, RowsSame DEF TeardownDatabase, RowIsSound, ListedIsKnown
<1>TypeOK. TypeOK'
    <2>1. pc' \in [Request -> PC] /\ \A q \in Request : pc'[q] # "none" => pc[q] # "none"
        BY <1>1, <1>3 DEF TypeOK, PC
    <2>2. nodes' \in [Cluster -> 0..MaxInstances]
        <3>1. nodes \in [Cluster -> 0..MaxInstances] /\ 0 \in 0..MaxInstances
            BY DEF TypeOK
        <3>2. nodes' = [nodes EXCEPT ![c] = 0]
            BY <1>4
        <3> QED BY <3>1, <3>2
    <2>3. archiving' \subseteq Cluster /\ poolers' \subseteq Cluster
        BY <1>4 DEF TypeOK
    <2>4. UNCHANGED <<schedules, ondemand, db, count, deleting, doomed, asked, disturbed, projects,
                      listing, notices, todo, job, up, faults>>
        BY <1>1
    <2> QED BY <2>1, <2>2, <2>3, <2>4, <1>rows, RowsSame DEF TypeOK
<1>CountIsSound. CountIsSound'
    BY <1>rows, RowsSame
       DEF TeardownDatabase, Goto, DeleteRedis, DeletePostgres, CountIsSound, ProvisionedPC
<1>ClusterIsSound. ClusterIsSound'
    <2>1. \A q \in Request : pc'[q] = "pool" => conf[db[q]].engine # "redis"
        BY <1>3 DEF ClusterIsSound
    <2>2. \A k \in Cluster : nodes[k] = 0 => nodes'[k] = 0
        BY <1>5
    <2> QED BY <1>1, <1>4, <2>1, <2>2, <1>rows, RowsSame DEF ClusterIsSound
<1>GoneIsDoomed. GoneIsDoomed'
    BY <1>rows, RowsSame DEF TeardownDatabase, Goto, DeleteRedis, DeletePostgres, GoneIsDoomed
<1>BoundsAreKept. BoundsAreKept'
    <2>1. \A e \in DbId : Known(e) => nodes'[ClusterOf(e)] \in {0, nodes[ClusterOf(e)]}
        BY <1>5, RowShape
    <2> QED BY <1>1, <1>3, <2>1, <1>rows, RowsSame DEF BoundsAreKept
<1>ProvisionIsKept. ProvisionIsKept'
    <2>1. \A q \in Request : pc'[q] \in ProvisionedPC => pc'[q] = pc[q] /\ db[q] \in DbId
        BY <1>3, RequestShape DEF ProvisionedPC
    <2> QED BY <1>1, <1>6, <1>9, <2>1, <1>rows, RowsSame DEF ProvisionIsKept
<1>ReadyIsKept. ReadyIsKept'
    BY <1>1, <1>6, <1>9, <1>rows, RowsSame DEF ReadyIsKept
<1>OneAtATime. OneAtATime'
    BY <1>rows, RowsSame
       DEF TeardownDatabase, Goto, DeleteRedis, DeletePostgres, OneAtATime, Going, Works,
           TearsDown, WorkPC, Autoscaling
<1>TornDown. TornDown'
    <2> SUFFICES ASSUME NEW e \in DbId, e \notin disturbed, Going(e)', OwnName(e)
                 PROVE  \/ e \in notices \/ \E q \in Request : TearsDown(q, e)'
                        \/ nodes'[ClusterOf(e)] = 0 /\ ClusterOf(e) \notin archiving' \cup poolers'
        BY <1>1, <1>rows, RowsSame DEF TornDown
    <2>1. Going(e)
        BY <1>1, <1>3, <1>rows, RowsSame DEF Going, TearsDown
    <2>2. Known(e)
        BY <2>1, RequestShape DEF Going, TearsDown, TypeOK, Known
    <2>3. CASE e = d
        BY <1>4, <1>5, <2>3 DEF c
    <2>4. CASE e # d
        <3>1. ClusterOf(e) \in Cluster /\ ClusterOf(e) # c
            BY <1>7, <2>2, <2>4, RowShape
        <3>2. \A q \in Request : TearsDown(q, e) => TearsDown(q, e)'
            BY <1>1, <1>3, <2>4 DEF TearsDown, d
        <3> QED BY <1>4, <1>5, <2>1, <3>1, <3>2 DEF TornDown
    <2> QED BY <2>3, <2>4
<1>CountsAgree. CountsAgree'
    <2>1. \A q \in Request : pc'[q] \in {"provision"} \cup ProvisionedPC => pc'[q] = pc[q]
        BY <1>3 DEF ProvisionedPC
    <2> QED BY <1>1, <1>6, <1>9, <2>1, <1>rows, RowsSame DEF CountsAgree
<1> QED BY <1>other, <1>TypeOK, <1>CountIsSound, <1>ClusterIsSound, <1>GoneIsDoomed,
       <1>BoundsAreKept, <1>ProvisionIsKept, <1>ReadyIsKept, <1>OneAtATime, <1>TornDown,
       <1>CountsAgree
       DEF DatabaseInv

(* A goroutine loads the row for a backup.                                    *)
LEMMA LoadForBackupKeeps ==
    ASSUME DatabaseInv, NEW r \in Request, LoadForBackup(r)
    PROVE  DatabaseInv'
<1> TypeOK /\ RowIsSound /\ CountIsSound /\ ListedIsKnown /\ ClusterIsSound /\ GoneIsDoomed /\
    BoundsAreKept /\ ProvisionIsKept /\ ReadyIsKept /\ OneAtATime /\ TornDown /\ CountsAgree
    BY DEF DatabaseInv
<1>rows. UNCHANGED rowVars
    BY DEF LoadForBackup
<1>other. RowIsSound' /\ ListedIsKnown' /\ ReadyIsKept'
    BY <1>rows, RowsSame DEF LoadForBackup, RowIsSound, ListedIsKnown, ReadyIsKept, Sole, OwnName
<1>TypeOK. TypeOK'
    BY <1>rows, RowsSame DEF LoadForBackup, Goto, TypeOK, PC, HandlerPC, GoroutinePC
<1>CountIsSound. CountIsSound'
    BY <1>rows, RowsSame DEF LoadForBackup, Goto, CountIsSound, ProvisionedPC
<1>ClusterIsSound. ClusterIsSound'
    BY <1>rows, RowsSame DEF LoadForBackup, Goto, ClusterIsSound
<1>GoneIsDoomed. GoneIsDoomed'
    BY <1>rows, RowsSame DEF LoadForBackup, Goto, GoneIsDoomed
<1>BoundsAreKept. BoundsAreKept'
    BY <1>rows, RowsSame DEF LoadForBackup, Goto, BoundsAreKept
<1>ProvisionIsKept. ProvisionIsKept'
    BY <1>rows, RowsSame DEF LoadForBackup, Goto, ProvisionIsKept, ProvisionedPC, Sole, OwnName
<1>OneAtATime. OneAtATime'
    BY <1>rows, RowsSame
       DEF LoadForBackup, Goto, OneAtATime, Going, Works, TearsDown, WorkPC, Autoscaling
<1>TornDown. TornDown'
    BY <1>rows, RowsSame DEF LoadForBackup, Goto, TornDown, Going, TearsDown
<1>CountsAgree. CountsAgree'
    BY <1>rows, RowsSame DEF LoadForBackup, Goto, CountsAgree, ProvisionedPC, Sole, OwnName
<1> QED BY <1>other, <1>TypeOK, <1>CountIsSound, <1>ClusterIsSound, <1>GoneIsDoomed,
       <1>BoundsAreKept, <1>ProvisionIsKept, <1>OneAtATime, <1>TornDown, <1>CountsAgree
       DEF DatabaseInv

(* It creates the Backup.                                                     *)
LEMMA TriggerBackupKeeps ==
    ASSUME DatabaseInv, NEW r \in Request, TriggerBackup(r)
    PROVE  DatabaseInv'
<1> TypeOK /\ RowIsSound /\ CountIsSound /\ ListedIsKnown /\ ClusterIsSound /\ GoneIsDoomed /\
    BoundsAreKept /\ ProvisionIsKept /\ ReadyIsKept /\ OneAtATime /\ TornDown /\ CountsAgree
    BY DEF DatabaseInv
<1>rows. UNCHANGED rowVars
    BY DEF TriggerBackup
<1>other. RowIsSound' /\ ListedIsKnown' /\ ReadyIsKept'
    BY <1>rows, RowsSame DEF TriggerBackup, RowIsSound, ListedIsKnown, ReadyIsKept, Sole, OwnName
<1>TypeOK. TypeOK'
    <2>1. ClusterOf(db[r]) \in Cluster
        BY RequestShape, RowShape DEF TriggerBackup
    <2>2. pc' \in [Request -> PC] /\ \A q \in Request : pc'[q] # "none" => pc[q] # "none"
        BY DEF TriggerBackup, Goto, TypeOK, PC
    <2> QED BY <2>1, <2>2, <1>rows, RowsSame
               DEF TriggerBackup, TypeOK
<1>CountIsSound. CountIsSound'
    BY <1>rows, RowsSame DEF TriggerBackup, Goto, CountIsSound, ProvisionedPC
<1>ClusterIsSound. ClusterIsSound'
    BY <1>rows, RowsSame DEF TriggerBackup, Goto, ClusterIsSound
<1>GoneIsDoomed. GoneIsDoomed'
    BY <1>rows, RowsSame DEF TriggerBackup, Goto, GoneIsDoomed
<1>BoundsAreKept. BoundsAreKept'
    BY <1>rows, RowsSame DEF TriggerBackup, Goto, BoundsAreKept
<1>ProvisionIsKept. ProvisionIsKept'
    BY <1>rows, RowsSame DEF TriggerBackup, Goto, ProvisionIsKept, ProvisionedPC, Sole, OwnName
<1>OneAtATime. OneAtATime'
    BY <1>rows, RowsSame
       DEF TriggerBackup, Goto, OneAtATime, Going, Works, TearsDown, WorkPC, Autoscaling
<1>TornDown. TornDown'
    BY <1>rows, RowsSame DEF TriggerBackup, Goto, TornDown, Going, TearsDown
<1>CountsAgree. CountsAgree'
    BY <1>rows, RowsSame DEF TriggerBackup, Goto, CountsAgree, ProvisionedPC, Sole, OwnName
<1> QED BY <1>other, <1>TypeOK, <1>CountIsSound, <1>ClusterIsSound, <1>GoneIsDoomed,
       <1>BoundsAreKept, <1>ProvisionIsKept, <1>OneAtATime, <1>TornDown, <1>CountsAgree
       DEF DatabaseInv

(* A goroutine fails.                                                         *)
LEMMA GoroutineFailsKeeps ==
    ASSUME DatabaseInv, NEW r \in Request, GoroutineFails(r)
    PROVE  DatabaseInv'
<1> TypeOK /\ RowIsSound /\ CountIsSound /\ ListedIsKnown /\ ClusterIsSound /\ GoneIsDoomed /\
    BoundsAreKept /\ ProvisionIsKept /\ ReadyIsKept /\ OneAtATime /\ TornDown /\ CountsAgree
    BY DEF DatabaseInv
<1>rows. UNCHANGED rowVars
    BY DEF GoroutineFails
<1> DEFINE c == ClusterOf(db[r])
<1>1. /\ pc' = [pc EXCEPT ![r] = "done"] /\ poolers \ {c} \subseteq poolers' /\ poolers' \subseteq poolers
      /\ poolers' # poolers => pc[r] = "teardown"
      /\ UNCHANGED <<nodes, archiving, schedules, db, doomed>>
    BY DEF GoroutineFails, Goto
<1>2. /\ \A q \in Request : pc'[q] = pc[q] \/ pc'[q] = "done"
      /\ poolers' # poolers => db[r] \in DbId /\ Known(db[r]) /\ db[r] \in doomed
    BY <1>1, RequestShape DEF TypeOK, GoneIsDoomed
<1>3. \A d \in DbId : Sole(d)' = Sole(d)
    BY <1>1, <1>rows, RowsSame DEF Sole, OwnName
<1>4. \A d \in DbId : Sole(d) => (ClusterOf(d) \in poolers' <=> ClusterOf(d) \in poolers)
    BY <1>1, <1>2, OneOwner, SoleShape
<1>other. RowIsSound' /\ ListedIsKnown'
    BY <1>rows, RowsSame DEF GoroutineFails, RowIsSound, ListedIsKnown
<1>TypeOK. TypeOK'
    BY <1>rows, RowsSame, RequestShape
       DEF GoroutineFails, Goto, Fault, Disturb, TypeOK, PC, HandlerPC, GoroutinePC
<1>CountIsSound. CountIsSound'
    BY <1>rows, RowsSame DEF GoroutineFails, Goto, Fault, Disturb, CountIsSound, ProvisionedPC
<1>ClusterIsSound. ClusterIsSound'
    BY <1>rows, RowsSame DEF GoroutineFails, Goto, Fault, Disturb, ClusterIsSound
<1>GoneIsDoomed. GoneIsDoomed'
    BY <1>rows, RowsSame DEF GoroutineFails, Goto, Fault, Disturb, GoneIsDoomed
<1>BoundsAreKept. BoundsAreKept'
    BY <1>rows, RowsSame DEF GoroutineFails, Goto, Fault, Disturb, BoundsAreKept
<1>ProvisionIsKept. ProvisionIsKept'
    <2>1. \A q \in Request : pc'[q] \in ProvisionedPC => pc'[q] = pc[q] /\ db[q] \in DbId
        BY <1>2, RequestShape DEF ProvisionedPC
    <2> QED BY <1>1, <1>3, <1>4, <2>1, <1>rows, RowsSame DEF ProvisionIsKept
<1>ReadyIsKept. ReadyIsKept'
    BY <1>1, <1>3, <1>4, <1>rows, RowsSame DEF ReadyIsKept
<1>OneAtATime. OneAtATime'
    BY <1>rows, RowsSame
       DEF GoroutineFails, Goto, Fault, Disturb, OneAtATime, Going, Works, TearsDown, WorkPC,
           Autoscaling
<1>TornDown. TornDown'
    BY <1>rows, RowsSame DEF GoroutineFails, Goto, Fault, Disturb, TornDown, Going, TearsDown
<1>CountsAgree. CountsAgree'
    BY AfterAFault DEF GoroutineFails
<1> QED BY <1>other, <1>TypeOK, <1>CountIsSound, <1>ClusterIsSound, <1>GoneIsDoomed,
       <1>BoundsAreKept, <1>ProvisionIsKept, <1>ReadyIsKept, <1>OneAtATime, <1>TornDown,
       <1>CountsAgree
       DEF DatabaseInv

(* The autoscaler lists the ready databases.                                  *)
LEMMA ListAutoscaleDatabasesKeeps ==
    ASSUME DatabaseInv, ListAutoscaleDatabases
    PROVE  DatabaseInv'
<1> TypeOK /\ RowIsSound /\ CountIsSound /\ ListedIsKnown /\ ClusterIsSound /\ GoneIsDoomed /\
    BoundsAreKept /\ ProvisionIsKept /\ ReadyIsKept /\ OneAtATime /\ TornDown /\ CountsAgree
    BY DEF DatabaseInv
<1>rows. UNCHANGED rowVars
    BY DEF ListAutoscaleDatabases
<1> DEFINE Ready == {e \in DbId : dbStatus[e] = "ready" /\ conf[e].tier = "autoscale"}
<1>1. /\ job = NoJob /\ todo' = {<<d, instances[d]>> : d \in Ready}
      /\ disturbed' = disturbed \cup ({x[1] : x \in todo'} \cap {d \in DbId : Active(d)})
      /\ UNCHANGED <<job, pc, db, count, deleting, doomed, asked, projectVars, clusterVars>>
    BY DEF ListAutoscaleDatabases, Disturb
<1>2. \A x \in todo' : /\ x[1] \in Ready /\ x[2] = instances[x[1]] /\ Known(x[1]) /\ Exists(x[1])
                       /\ x = <<x[1], x[2]>>
    BY <1>1 DEF Known, Exists
<1>other. /\ RowIsSound' /\ CountIsSound' /\ ClusterIsSound' /\ GoneIsDoomed'
          /\ ProvisionIsKept' /\ ReadyIsKept'
    BY <1>rows, RowsSame
       DEF ListAutoscaleDatabases, RowIsSound, CountIsSound, ProvisionedPC, ClusterIsSound,
           GoneIsDoomed, ProvisionIsKept, Sole, OwnName, ReadyIsKept
<1>TypeOK. TypeOK'
    <2>1. todo' \subseteq DbId \X Count
        BY <1>2, RowShape
    <2>2. disturbed' \subseteq DbId
        BY <1>1 DEF TypeOK
    <2> QED BY <1>1, <2>1, <2>2, <1>rows, RowsSame
               DEF ListAutoscaleDatabases, TypeOK
<1>ListedIsKnown. ListedIsKnown'
    BY <1>1, <1>2, <1>rows, RowsSame DEF ListedIsKnown
<1>BoundsAreKept. BoundsAreKept'
    BY <1>1, <1>2, <1>rows, RowsSame DEF BoundsAreKept
<1>OneAtATime. OneAtATime'
    <2>1. \A e \in DbId : /\ Going(e)' = Going(e)
                          /\ \A q \in Request : Works(q, e)' = Works(q, e)
        BY <1>1, <1>rows, RowsSame DEF Going, Works, TearsDown
    <2>2. \A e \in DbId : e \notin disturbed' /\ Autoscaling(e)' =>
             Autoscaling(e) \/ (~Going(e) /\ \A q \in Request : ~Works(q, e))
        BY <1>1, <1>2, Idle DEF Autoscaling
    <2> QED BY <1>1, <2>1, <2>2 DEF OneAtATime
<1>TornDown. TornDown'
    BY <1>rows, RowsSame DEF ListAutoscaleDatabases, Disturb, TornDown, Going, TearsDown
<1>CountsAgree. CountsAgree'
    BY <1>rows, RowsSame
       DEF ListAutoscaleDatabases, Disturb, CountsAgree, ProvisionedPC, Sole, OwnName
<1> QED BY <1>other, <1>TypeOK, <1>ListedIsKnown, <1>BoundsAreKept, <1>OneAtATime, <1>TornDown,
       <1>CountsAgree
       DEF DatabaseInv

(* It leaves one alone.                                                       *)
LEMMA SkipDatabaseKeeps ==
    ASSUME DatabaseInv, NEW x \in todo, SkipDatabase(x)
    PROVE  DatabaseInv'
<1> TypeOK /\ RowIsSound /\ CountIsSound /\ ListedIsKnown /\ ClusterIsSound /\ GoneIsDoomed /\
    BoundsAreKept /\ ProvisionIsKept /\ ReadyIsKept /\ OneAtATime /\ TornDown /\ CountsAgree
    BY DEF DatabaseInv
<1>rows. UNCHANGED rowVars
    BY DEF SkipDatabase
<1>other. /\ RowIsSound' /\ CountIsSound' /\ ClusterIsSound' /\ GoneIsDoomed'
          /\ ProvisionIsKept' /\ ReadyIsKept' /\ TornDown' /\ CountsAgree'
    BY <1>rows, RowsSame
       DEF SkipDatabase, RowIsSound, CountIsSound, ProvisionedPC, ClusterIsSound, GoneIsDoomed,
           ProvisionIsKept, Sole, OwnName, ReadyIsKept, TornDown, Going, TearsDown, CountsAgree
<1>TypeOK. TypeOK'
    BY <1>rows, RowsSame DEF SkipDatabase, TypeOK, PC, HandlerPC, GoroutinePC
<1>ListedIsKnown. ListedIsKnown'
    BY <1>rows, RowsSame DEF SkipDatabase, ListedIsKnown
<1>BoundsAreKept. BoundsAreKept'
    BY <1>rows, RowsSame DEF SkipDatabase, BoundsAreKept
<1>OneAtATime. OneAtATime'
    BY <1>rows, RowsSame DEF SkipDatabase, OneAtATime, Going, Works, TearsDown, WorkPC, Autoscaling
<1> QED BY <1>other, <1>TypeOK, <1>ListedIsKnown, <1>BoundsAreKept, <1>OneAtATime DEF DatabaseInv

(* It resizes one.                                                            *)
LEMMA AutoscaleProvisionKeeps ==
    ASSUME DatabaseInv, NEW x \in todo, NEW to \in Count, AutoscaleProvision(x, to)
    PROVE  DatabaseInv'
<1> TypeOK /\ RowIsSound /\ CountIsSound /\ ListedIsKnown /\ ClusterIsSound /\ GoneIsDoomed /\
    BoundsAreKept /\ ProvisionIsKept /\ ReadyIsKept /\ OneAtATime /\ TornDown /\ CountsAgree
    BY DEF DatabaseInv
<1>rows. UNCHANGED rowVars
    BY DEF AutoscaleProvision
<1> DEFINE d == x[1]
           c == ClusterOf(d)
<1>1. /\ job = NoJob /\ to \in Desired(d, x[2]) /\ todo' = todo \ {x} /\ job' = <<"persist", d, to>>
      /\ nodes' = [nodes EXCEPT ![c] = to] /\ archiving' = archiving \ {c}
      /\ UNCHANGED <<schedules, ondemand, poolers, pc, db, count, deleting, doomed, asked, disturbed,
                     projectVars, up, faults>>
    BY DEF AutoscaleProvision, ProvisionPostgres
<1>2. /\ d \in DbId /\ Known(d) /\ c \in Cluster /\ conf[d].tier = "autoscale" /\ x[2] \in Count
      /\ conf[d] \in Config /\ NoJob[2] = 0 /\ 0 \notin DbId
    BY ListedShape, RowShape, ZeroIsNoDatabase DEF ListedIsKnown
<1>3. x[2] \in Bounds(d) => to \in Bounds(d)
    BY <1>1, <1>2 DEF Desired, Bounds, Config, Count
<1>5. nodes'[c] = to /\ \A k \in Cluster : k # c => nodes'[k] = nodes[k]
    BY <1>1, <1>2 DEF TypeOK
<1>6. \A e \in DbId : Sole(e)' = Sole(e)
    BY <1>1, <1>rows, RowsSame DEF Sole, OwnName
<1>7. \A e \in DbId : OwnName(e) /\ ClusterOf(e) = c => e = d
    BY <1>2, OneOwner
<1>8. \A e \in DbId : Sole(e) => ClusterOf(e) \in Cluster /\ OwnName(e)
    BY SoleShape, RowShape, ExistingIsKnown
<1>9. /\ \A e \in DbId : Sole(e) /\ nodes[ClusterOf(e)] > 0 => nodes'[ClusterOf(e)] > 0
      /\ \A e \in DbId : Sole(e) /\ BackedUp(e) =>
            (ClusterOf(e) \in archiving' <=> ClusterOf(e) \in archiving)
    <2>1. ~BackedUp(d)
        BY <1>2 DEF BackedUp
    <2> QED BY <1>1, <1>5, <1>7, <1>8, <2>1, CountIsPositive
<1> HIDE DEF c, d
<1>other. RowIsSound' /\ CountIsSound' /\ GoneIsDoomed'
    BY <1>rows, RowsSame
       DEF AutoscaleProvision, RowIsSound, CountIsSound, ProvisionedPC, GoneIsDoomed
<1>TypeOK. TypeOK'
    <2>1. nodes' \in [Cluster -> 0..MaxInstances]
        BY <1>1, CountIsPositive DEF TypeOK
    <2>2. todo' \subseteq DbId \X Count /\ job' \in {"persist"} \X DbId \X Count
        BY <1>1, <1>2 DEF TypeOK
    <2> QED BY <1>1, <2>1, <2>2, <1>rows, RowsSame DEF TypeOK
<1>ListedIsKnown. ListedIsKnown'
    BY <1>rows, RowsSame DEF AutoscaleProvision, ProvisionPostgres, Desired, ListedIsKnown
<1>ClusterIsSound. ClusterIsSound'
    <2>1. \A k \in Cluster : (\A e \in DbId : Known(e) => ClusterOf(e) # k) => k # c
        BY <1>2 DEF c
    <2> QED BY <1>1, <1>5, <2>1, <1>rows, RowsSame DEF ClusterIsSound
<1>BoundsAreKept. BoundsAreKept'
    <2>1. d \notin asked => to \in Bounds(d)
        BY <1>2, <1>3 DEF BoundsAreKept, d
    <2>2. \A e \in DbId : Known(e) => ClusterOf(e) \in Cluster
        BY RowShape
    <2>3. \A e \in DbId : e \notin asked /\ Known(e) /\ conf[e].tier = "autoscale" /\ OwnName(e) =>
             nodes'[ClusterOf(e)] \in {0} \cup Bounds(e)
        BY <1>5, <1>7, <2>1, <2>2 DEF BoundsAreKept
    <2>4. job'[2] = d /\ job'[3] = to
        BY <1>1
    <2> QED BY <1>1, <2>1, <2>3, <2>4, <1>rows, RowsSame DEF BoundsAreKept
<1>ProvisionIsKept. ProvisionIsKept'
    <2>1. \A q \in Request : pc[q] \in ProvisionedPC => db[q] \in DbId
        BY RequestShape DEF ProvisionedPC
    <2> QED BY <1>1, <1>6, <1>9, <2>1, <1>rows, RowsSame DEF ProvisionIsKept
<1>ReadyIsKept. ReadyIsKept'
    BY <1>1, <1>6, <1>9, <1>rows, RowsSame DEF ReadyIsKept
<1>OneAtATime. OneAtATime'
    BY <1>rows, RowsSame
       DEF AutoscaleProvision, ProvisionPostgres, Desired, OneAtATime, Going, Works, TearsDown,
           WorkPC, Autoscaling
<1>TornDown. TornDown'
    <2>1. \A e \in DbId : /\ Going(e)' <=> Going(e)
                          /\ \A q \in Request : TearsDown(q, e)' <=> TearsDown(q, e)
        BY <1>1, <1>rows, RowsSame DEF Going, TearsDown
    <2>2. \A e \in DbId : e \notin disturbed /\ Going(e) => e # d
        BY DEF OneAtATime, Autoscaling, d
    <2>3. \A e \in DbId : Going(e) => ClusterOf(e) \in Cluster
        <3>1. \A e \in DbId : Going(e) => Known(e)
            BY RequestShape DEF Going, TearsDown, TypeOK, Known
        <3> QED BY <3>1, RowShape
    <2> QED BY <1>1, <1>5, <1>7, <2>1, <2>2, <2>3, <1>rows, RowsSame DEF TornDown
<1>CountsAgree. CountsAgree'
    <2> SUFFICES ASSUME faults = 0, NEW e \in DbId, e \notin disturbed, Sole(e)
                 PROVE  /\ \A q \in Request : db[q] = e =>
                              /\ pc[q] \in {"provision"} \cup ProvisionedPC => count[q] = instances[e]
                              /\ pc[q] \in ProvisionedPC => nodes'[ClusterOf(e)] = instances[e]
                        /\ job'[2] = e => nodes'[ClusterOf(e)] = job'[3]
                        /\ dbStatus[e] = "ready" /\ job'[2] # e => nodes'[ClusterOf(e)] = instances[e]
                        /\ dbStatus[e] = "ready" /\ conf[e].tier = "standard" =>
                              ("read" \in uris[e] <=> instances[e] > 1)
        BY <1>1, <1>6, <1>rows, RowsSame DEF CountsAgree
    <2>1. job'[2] = d /\ job'[3] = to /\ job[2] # e
        BY <1>1, <1>2
    <2>2. CASE e = d
        <3>1. \A q \in Request : db[q] = d => pc[q] \notin WorkPC
            BY <2>2 DEF OneAtATime, Works, Autoscaling, d
        <3> QED BY <1>2, <1>5, <2>1, <2>2, <3>1 DEF WorkPC, ProvisionedPC, c
    <2>3. CASE e # d
        <3>1. nodes'[ClusterOf(e)] = nodes[ClusterOf(e)]
            BY <1>5, <1>7, <1>8, <2>3
        <3> QED BY <2>1, <2>3, <3>1 DEF CountsAgree
    <2> QED BY <2>2, <2>3
<1> QED BY <1>other, <1>TypeOK, <1>ListedIsKnown, <1>ClusterIsSound, <1>BoundsAreKept,
       <1>ProvisionIsKept, <1>ReadyIsKept, <1>OneAtATime, <1>TornDown, <1>CountsAgree
       DEF DatabaseInv

(* It stores the new size.                                                    *)
LEMMA SetDatabaseInstancesKeeps ==
    ASSUME DatabaseInv, SetDatabaseInstances
    PROVE  DatabaseInv'
<1> TypeOK /\ RowIsSound /\ CountIsSound /\ ListedIsKnown /\ ClusterIsSound /\ GoneIsDoomed /\
    BoundsAreKept /\ ProvisionIsKept /\ ReadyIsKept /\ OneAtATime /\ TornDown /\ CountsAgree
    BY DEF DatabaseInv
<1> DEFINE d == job[2]
<1>1. /\ job[1] = "persist" /\ job' = NoJob
      /\ instances' = IF Exists(d) THEN [instances EXCEPT ![d] = job[3]] ELSE instances
      /\ UNCHANGED <<dbStatus, conf, uris, todo, clusterVars, pc, db, count, deleting, doomed, asked,
                     disturbed, projectVars, up, faults>>
    BY DEF SetDatabaseInstances
<1>2. /\ job # NoJob /\ d \in DbId /\ Known(d) /\ job[3] \in Count
      /\ conf[d].tier = "autoscale" /\ conf[d].engine = "postgres" /\ NoJob[2] = 0 /\ 0 \notin DbId
    BY <1>1, ListedShape, ZeroIsNoDatabase DEF ListedIsKnown, RowIsSound
<1> HIDE DEF d
<1>3. /\ \A e \in DbId : e # d => instances'[e] = instances[e]
      /\ Exists(d) => instances'[d] = job[3]
      /\ ~Exists(d) => instances'[d] = instances[d]
    BY <1>1, <1>2 DEF TypeOK
<1>4. \A e \in DbId : /\ Known(e)' = Known(e) /\ Exists(e)' = Exists(e)
                      /\ dbStatus'[e] = "deleted" <=> dbStatus[e] = "deleted"
    BY <1>1 DEF Known, Exists
<1>5. \A q \in Request : pc'[q] = pc[q]
    BY <1>1
<1>6. \A e \in DbId : Bounds(e)' = Bounds(e) /\ ClusterOf(e)' = ClusterOf(e) /\ OwnName(e)' = OwnName(e)
                      /\ BackedUp(e)' = BackedUp(e)
    BY <1>1, <1>4, RowsKept
<1>other. /\ CountIsSound' /\ ListedIsKnown' /\ ClusterIsSound' /\ GoneIsDoomed'
          /\ ProvisionIsKept' /\ OneAtATime' /\ TornDown'
          /\ \A e \in DbId : Sole(e)' = Sole(e)
    BY <1>1, <1>4, <1>5, StatusMoves
<1>TypeOK. TypeOK'
    <2>1. instances' \in [DbId -> 0..MaxInstances]
        BY <1>1, <1>2, CountIsPositive DEF TypeOK
    <2>2. \A e \in DbId : dbStatus[e] # "none" => instances'[e] # 0
        BY <1>2, <1>3, CountIsPositive DEF TypeOK
    <2> QED BY <1>1, <2>1, <2>2 DEF TypeOK
<1>RowIsSound. RowIsSound'
    BY <1>1, <1>2, <1>3, <1>4 DEF RowIsSound
<1>BoundsAreKept. BoundsAreKept'
    <2>1. d \notin asked => job[3] \in Bounds(d)
        BY <1>2 DEF BoundsAreKept, d
    <2> QED BY <1>1, <1>2, <1>3, <1>4, <1>6, <2>1 DEF BoundsAreKept
<1>ReadyIsKept. ReadyIsKept'
    BY <1>1, <1>6, <1>other DEF ReadyIsKept
<1>CountsAgree. CountsAgree'
    <2> SUFFICES ASSUME faults = 0, NEW e \in DbId, e \notin disturbed, Sole(e)
                 PROVE  /\ \A q \in Request : db[q] = e =>
                              /\ pc[q] \in {"provision"} \cup ProvisionedPC => count[q] = instances'[e]
                              /\ pc[q] \in ProvisionedPC => nodes[ClusterOf(e)] = instances'[e]
                        /\ dbStatus[e] = "ready" => nodes[ClusterOf(e)] = instances'[e]
                        /\ dbStatus[e] = "ready" /\ conf[e].tier = "standard" =>
                              ("read" \in uris[e] <=> instances'[e] > 1)
        BY <1>1, <1>2, <1>6, <1>other DEF CountsAgree
    <2>1. CASE e = d
        <3>1. \A q \in Request : db[q] = d => pc[q] \notin WorkPC
            BY <1>2, <2>1 DEF OneAtATime, Works, Autoscaling, d
        <3>2. nodes[ClusterOf(d)] = job[3] /\ Exists(d)
            BY <1>2, <2>1, SoleShape DEF CountsAgree, d
        <3> QED BY <1>2, <1>3, <2>1, <3>1, <3>2 DEF WorkPC, ProvisionedPC
    <2>2. CASE e # d
        <3>1. job[2] # e
            BY <2>2 DEF d
        <3> QED BY <1>3, <2>2, <3>1 DEF CountsAgree
    <2> QED BY <2>1, <2>2
<1> QED BY <1>other, <1>TypeOK, <1>RowIsSound, <1>BoundsAreKept, <1>ReadyIsKept, <1>CountsAgree
       DEF DatabaseInv

(* It could not store it.                                                     *)
LEMMA PersistFailsKeeps ==
    ASSUME DatabaseInv, PersistFails
    PROVE  DatabaseInv'
<1> TypeOK /\ RowIsSound /\ CountIsSound /\ ListedIsKnown /\ ClusterIsSound /\ GoneIsDoomed /\
    BoundsAreKept /\ ProvisionIsKept /\ ReadyIsKept /\ OneAtATime /\ TornDown /\ CountsAgree
    BY DEF DatabaseInv
<1>rows. UNCHANGED rowVars
    BY DEF PersistFails
<1>1. /\ job[1] = "persist" /\ job' = NoJob /\ NoJob[2] = 0 /\ 0 \notin DbId
      /\ UNCHANGED <<todo, clusterVars, requestVars>>
    BY ZeroIsNoDatabase DEF PersistFails, NoJob
<1>other. /\ RowIsSound' /\ CountIsSound' /\ ClusterIsSound' /\ GoneIsDoomed'
          /\ ProvisionIsKept' /\ ReadyIsKept' /\ TornDown'
    BY <1>rows, RowsSame
       DEF PersistFails, RowIsSound, CountIsSound, ProvisionedPC, ClusterIsSound, GoneIsDoomed,
           ProvisionIsKept, Sole, OwnName, ReadyIsKept, TornDown, Going, TearsDown
<1>TypeOK. TypeOK'
    BY <1>rows, RowsSame DEF PersistFails, Fault, TypeOK, PC, HandlerPC, GoroutinePC
<1>ListedIsKnown. ListedIsKnown'
    BY <1>rows, RowsSame DEF PersistFails, Fault, ListedIsKnown
<1>BoundsAreKept. BoundsAreKept'
    BY <1>1, <1>rows, RowsSame DEF BoundsAreKept
<1>OneAtATime. OneAtATime'
    <2>1. \A e \in DbId : Autoscaling(e)' => Autoscaling(e)
        BY <1>1 DEF Autoscaling
    <2>2. \A e \in DbId : /\ Going(e)' => Going(e)
                          /\ \A q \in Request : Works(q, e)' => Works(q, e)
        BY <1>1, <1>rows, RowsSame DEF Going, Works, TearsDown
    <2> QED BY <1>1, <2>1, <2>2, OneAtATimeKept
<1>CountsAgree. CountsAgree'
    BY AfterAFault DEF PersistFails
<1> QED BY <1>other, <1>TypeOK, <1>ListedIsKnown, <1>BoundsAreKept, <1>OneAtATime, <1>CountsAgree
       DEF DatabaseInv

(* The controller dies, and its goroutines with it.                           *)
LEMMA ControllerCrashKeeps ==
    ASSUME DatabaseInv, ControllerCrash
    PROVE  DatabaseInv'
<1> TypeOK /\ RowIsSound /\ CountIsSound /\ ListedIsKnown /\ ClusterIsSound /\ GoneIsDoomed /\
    BoundsAreKept /\ ProvisionIsKept /\ ReadyIsKept /\ OneAtATime /\ TornDown /\ CountsAgree
    BY DEF DatabaseInv
<1>rows. UNCHANGED rowVars
    BY DEF ControllerCrash
<1>1. /\ pc' = [q \in Request |-> IF pc[q] \in GoroutinePC THEN "done" ELSE pc[q]]
      /\ todo' = {} /\ job' = NoJob /\ NoJob[2] = 0 /\ 0 \notin DbId
      /\ disturbed' = disturbed \cup {db[q] : q \in {u \in Request : pc[u] \in GoroutinePC}}
      /\ UNCHANGED <<db, count, deleting, doomed, asked, projectVars, clusterVars>>
    BY ZeroIsNoDatabase DEF ControllerCrash, NoJob, Disturb
<1>2. \A q \in Request : pc'[q] = "done" \/ pc'[q] = pc[q]
    BY <1>1
<1>other. RowIsSound' /\ ReadyIsKept'
    BY <1>rows, RowsSame DEF ControllerCrash, RowIsSound, ReadyIsKept, Sole, OwnName
<1>TypeOK. TypeOK'
    <2>1. pc' \in [Request -> PC]
        BY <1>1, <1>2 DEF TypeOK, PC
    <2>2. \A q \in Request : pc'[q] # "none" => pc[q] # "none"
        BY <1>1 DEF GoroutinePC
    <2>3. disturbed' \subseteq DbId
        <3>1. \A q \in Request : pc[q] \in GoroutinePC => db[q] \in DbId
            BY RequestShape DEF GoroutinePC
        <3> QED BY <1>1, <3>1 DEF TypeOK
    <2>4. todo' \subseteq DbId \X Count /\ faults' \in 0..MaxFaults /\ up' = "down"
        BY <1>1 DEF ControllerCrash, TypeOK, Fault
    <2> QED BY <1>1, <2>1, <2>2, <2>3, <2>4, <1>rows, RowsSame
               DEF TypeOK
<1>CountIsSound. CountIsSound'
    BY <1>rows, RowsSame DEF ControllerCrash, Fault, Disturb, CountIsSound, ProvisionedPC
<1>ListedIsKnown. ListedIsKnown'
    BY <1>rows, RowsSame DEF ControllerCrash, Fault, Disturb, ListedIsKnown
<1>ClusterIsSound. ClusterIsSound'
    BY <1>rows, RowsSame DEF ControllerCrash, Fault, Disturb, ClusterIsSound
<1>GoneIsDoomed. GoneIsDoomed'
    BY <1>rows, RowsSame DEF ControllerCrash, Fault, Disturb, GoneIsDoomed
<1>BoundsAreKept. BoundsAreKept'
    BY <1>1, <1>2, <1>rows, RowsSame DEF BoundsAreKept
<1>ProvisionIsKept. ProvisionIsKept'
    BY <1>rows, RowsSame
       DEF ControllerCrash, Fault, Disturb, ProvisionIsKept, ProvisionedPC, Sole, OwnName
<1>OneAtATime. OneAtATime'
    <2>1. \A e \in DbId : Autoscaling(e)' => Autoscaling(e)
        BY <1>1 DEF Autoscaling
    <2>2. \A e \in DbId, q \in Request : TearsDown(q, e)' => TearsDown(q, e)
        BY <1>1, <1>2 DEF TearsDown
    <2>3. \A e \in DbId : Going(e)' => Going(e)
        BY <1>1, <2>2, <1>rows, RowsSame DEF Going
    <2>4. \A e \in DbId, q \in Request : Works(q, e)' => Works(q, e)
        BY <1>1, <1>2 DEF Works, WorkPC
    <2> QED BY <1>1, <2>1, <2>3, <2>4, OneAtATimeKept
<1>TornDown. TornDown'
    BY <1>rows, RowsSame DEF ControllerCrash, Fault, Disturb, TornDown, Going, TearsDown
<1>CountsAgree. CountsAgree'
    BY AfterAFault DEF ControllerCrash
<1> QED BY <1>other, <1>TypeOK, <1>CountIsSound, <1>ListedIsKnown, <1>ClusterIsSound,
       <1>GoneIsDoomed, <1>BoundsAreKept, <1>ProvisionIsKept, <1>OneAtATime, <1>TornDown,
       <1>CountsAgree
       DEF DatabaseInv

(* Nothing changes.                                                           *)
LEMMA StutterKeeps == ASSUME DatabaseInv, UNCHANGED vars  PROVE DatabaseInv'
<1> TypeOK /\ RowIsSound /\ CountIsSound /\ ListedIsKnown /\ ClusterIsSound /\ GoneIsDoomed /\
    BoundsAreKept /\ ProvisionIsKept /\ ReadyIsKept /\ OneAtATime /\ TornDown /\ CountsAgree
    BY DEF DatabaseInv
<1>1. UNCHANGED rowVars
    BY DEF vars
<1>2. UNCHANGED <<pc, db, count, deleting, doomed, asked, disturbed, projects, listing, notices, nodes,
                  archiving, schedules, ondemand, poolers, todo, job, up, faults>>
    BY DEF vars
<1>3. TypeOK'
    BY <1>1, <1>2, RowsSame DEF TypeOK
<1>4. RowIsSound' /\ CountIsSound' /\ ListedIsKnown' /\ ClusterIsSound' /\ GoneIsDoomed' /\ BoundsAreKept'
    BY <1>1, <1>2, RowsSame
       DEF RowIsSound, CountIsSound, ListedIsKnown, ClusterIsSound, GoneIsDoomed,
                                BoundsAreKept
<1>5. \A d : Sole(d)' = Sole(d)
    BY <1>1, <1>2, RowsSame DEF Sole
<1>6. ProvisionIsKept' /\ ReadyIsKept' /\ CountsAgree'
    BY <1>1, <1>2, <1>5, RowsSame DEF ProvisionIsKept, ReadyIsKept, CountsAgree
<1>7. \A d : /\ Going(d)' = Going(d) /\ Autoscaling(d)' = Autoscaling(d)
             /\ \A r : Works(r, d)' = Works(r, d) /\ TearsDown(r, d)' = TearsDown(r, d)
    BY <1>1, <1>2, RowsSame DEF Going, Autoscaling, Works, TearsDown
<1>8. OneAtATime' /\ TornDown'
    BY <1>1, <1>2, <1>7, RowsSame DEF OneAtATime, TornDown
<1> QED BY <1>3, <1>4, <1>6, <1>8 DEF DatabaseInv

------------------------------------------------------------------------------
(* The theorems.                                                              *)

LEMMA DatabaseInit == Init => DatabaseInv
<1> SUFFICES ASSUME Init PROVE DatabaseInv
    OBVIOUS
<1>1. /\ \A d \in DbId : ~Known(d) /\ ~Exists(d) /\ dbStatus[d] = "none"
      /\ \A r \in Request : pc[r] = "none" /\ db[r] = 0
      /\ \A c \in Cluster : nodes[c] = 0
      /\ \A p \in Projects : listing[p] = NotListed
      /\ NoJob[2] = 0 /\ 0 \notin DbId
    BY ZeroIsNoDatabase DEF Init, Known, Exists, NoJob
<1>2. TypeOK
    <2>1. /\ dbStatus \in [DbId -> {"none", "creating", "ready", "failed", "deleted"}]
          /\ conf \in [DbId -> Config \cup {NoConfig}] /\ instances \in [DbId -> 0..MaxInstances]
          /\ uris \in [DbId -> SUBSET {"rw", "read", "pooled"}]
        BY DEF Init
    <2>2. /\ pc \in [Request -> PC] /\ db \in [Request -> 0..MaxDatabases]
          /\ count \in [Request -> 0..MaxInstances]
        BY DEF Init, PC
    <2>3. nodes \in [Cluster -> 0..MaxInstances]
        BY DEF Init
    <2>4. /\ listing \in [Projects -> (SUBSET DbId) \cup {NotListed}]
        BY DEF Init
    <2> QED BY <1>1, <2>1, <2>2, <2>3, <2>4 DEF TypeOK, Init
<1>3. RowIsSound /\ CountIsSound /\ ListedIsKnown /\ ClusterIsSound /\ GoneIsDoomed /\ BoundsAreKept
    BY <1>1 DEF Init, RowIsSound, CountIsSound, ListedIsKnown, ClusterIsSound, GoneIsDoomed,
                BoundsAreKept, ProvisionedPC
<1>4. ProvisionIsKept /\ ReadyIsKept /\ CountsAgree
    BY <1>1 DEF ProvisionIsKept, ReadyIsKept, CountsAgree, ProvisionedPC, Sole
<1>5. OneAtATime /\ TornDown
    BY <1>1 DEF Init, OneAtATime, TornDown, Going, Works, TearsDown, WorkPC
<1> QED BY <1>2, <1>3, <1>4, <1>5 DEF DatabaseInv

LEMMA DatabaseNext == DatabaseInv /\ [Next]_vars => DatabaseInv'
<1> SUFFICES ASSUME DatabaseInv, [Next]_vars PROVE DatabaseInv'
    OBVIOUS
<1>1. ASSUME NEW r \in Request, NEW d \in DbId, NEW c \in NewConfig, CreateDatabase(r, d, c)
      PROVE  DatabaseInv'
    BY <1>1, CreateDatabaseKeeps
<1>2. ASSUME NEW r \in Request, NEW d \in DbId, NEW n \in 0..MaxInstances, ReadForScale(r, d, n)
      PROVE  DatabaseInv'
    BY <1>2, ReadForScaleKeeps
<1>3. ASSUME NEW r \in Request, NEW d \in DbId,
             ReadForBackup(r, d) \/ ReadForDelete(r, d) \/ PublishNotice(r, d)
      PROVE  DatabaseInv'
    BY <1>3, ReadForBackupKeeps, ReadForDeleteKeeps, PublishNoticeKeeps
<1>4. ASSUME NEW r \in Request,
             SetDatabaseScaling(r) \/ PublishDatabase(r) \/ PublishBackup(r) \/ PublishTeardown(r)
      PROVE  DatabaseInv'
    BY <1>4, SetDatabaseScalingKeeps, PublishDatabaseKeeps, PublishBackupKeeps, PublishTeardownKeeps
<1>5. ASSUME NEW d \in DbId, DeleteDatabase(d)
      PROVE  DatabaseInv'
    BY <1>5, DeleteDatabaseKeeps
<1>6. ASSUME NEW p \in Projects, ListDatabases(p) \/ DeleteProject(p)
      PROVE  DatabaseInv'
    BY <1>6, ListDatabasesKeeps, DeleteProjectKeeps
<1>7. CASE ApiStep
    BY <1>1, <1>2, <1>3, <1>4, <1>5, <1>6, <1>7 DEF ApiStep
<1>8. CASE StartController
    BY <1>8, StartControllerKeeps
<1>9. ASSUME NEW r \in Request, GoroutineStep(r)
      PROVE  DatabaseInv'
    BY <1>9, LoadDatabaseKeeps, ProvisionKeeps, ApplyScheduledBackupKeeps, WaitReadyKeeps,
       ReconcilePgBouncerKeeps, ReconcileFailsKeeps, SetDatabaseConnectionKeeps, FailDatabaseKeeps,
       TeardownDatabaseKeeps, LoadForBackupKeeps, TriggerBackupKeeps
       DEF GoroutineStep
<1>10. ASSUME NEW x \in todo, NEW to \in Count, SkipDatabase(x) \/ AutoscaleProvision(x, to)
       PROVE  DatabaseInv'
    BY <1>10, SkipDatabaseKeeps, AutoscaleProvisionKeeps
<1>11. CASE AutoscalerStep
    BY <1>10, <1>11, SkipDatabaseKeeps, ListAutoscaleDatabasesKeeps, SetDatabaseInstancesKeeps
       DEF AutoscalerStep
<1>12. CASE Failure
    BY <1>12, HandlerFailsKeeps, GoroutineFailsKeeps, DeleteFailsKeeps, NoticeFailsKeeps,
       DeleteProjectFailsKeeps, PersistFailsKeeps, ControllerCrashKeeps
       DEF Failure
<1>13. CASE UNCHANGED vars
    BY <1>13, StutterKeeps
<1> QED BY <1>7, <1>8, <1>9, <1>11, <1>12, <1>13 DEF Next

(* However the handlers, the goroutines, the autoscaler, their failures and   *)
(* the controller's restarts interleave, the databases table, the requests    *)
(* under way and the clusters stay in agreement.                              *)
THEOREM DatabaseCorrect == Spec => []DatabaseInv
BY DatabaseInit, DatabaseNext, PTL DEF Spec

(* Every variable keeps its type: no step of a handler, a goroutine or the    *)
(* autoscaler stores a count of instances below one or above what was asked   *)
(* for, or refers to a row that never existed.                                *)
THEOREM DatabaseTypes == Spec => []TypeOK
<1>1. DatabaseInv => TypeOK
    BY DEF DatabaseInv
<1> QED BY <1>1, DatabaseCorrect, PTL

(* A ready database that nobody asked to delete and whose cluster bears no    *)
(* other database's name is there, with the endpoints handleDatabaseConnection*)
(* hands out and, if it is not autoscaled, with its backups, whatever failed  *)
(* or raced in reconcileDatabase and in the autoscaler.                       *)
THEOREM ReadyServes == Spec => []ReadyIsServed
<1>1. DatabaseInv => ReadyIsServed
    BY DEF DatabaseInv, ReadyIsKept, ReadyIsServed, BackedUp
<1> QED BY <1>1, DatabaseCorrect, PTL

(* Without faults, a ready database whose requests did not overlap has the    *)
(* instances that SetDatabaseScaling or SetDatabaseInstances last stored, and *)
(* a read endpoint exactly when it has several.                               *)
THEOREM ReadyScales == Spec => []ReadyIsScaled
<1>1. DatabaseInv => ReadyIsScaled
    BY DEF DatabaseInv, CountsAgree, ReadyIsScaled
<1> QED BY <1>1, DatabaseCorrect, PTL

(* A database deleted by handleDeleteDatabase or handleDeleteProject leaves   *)
(* no cluster and no pooler behind once its teardown has run, if nothing else *)
(* was working on it and the teardown was not lost.                           *)
THEOREM DeletedGoes == Spec => []DeletedIsGone
<1>1. ASSUME DatabaseInv PROVE DeletedIsGone
    <2> SUFFICES ASSUME NEW d \in DbId, d \notin disturbed, dbStatus[d] = "deleted", ~Overlaps(d),
                        d \notin notices,
                        \A e \in DbId \ {d} : dbStatus[e] # "none" => ClusterOf(e) # ClusterOf(d)
                 PROVE  nodes[ClusterOf(d)] = 0 /\ ClusterOf(d) \notin archiving \cup poolers
        BY DEF DeletedIsGone
    <2>1. Going(d) /\ OwnName(d)
        BY DEF Going, OwnName, Known
    <2>2. \A r \in Request : ~TearsDown(r, d)
        BY DEF Overlaps, Active, TearsDown
    <2> QED BY <1>1, <2>1, <2>2 DEF DatabaseInv, TornDown
<1> QED BY <1>1, DatabaseCorrect, PTL

(* autoscaleOne never takes a database, the row or the cluster, past the      *)
(* bounds of its row, though it works from a row it listed earlier.           *)
THEOREM BoundsHold == Spec => []AutoscaleInBounds
<1>1. ASSUME DatabaseInv PROVE AutoscaleInBounds
    BY <1>1, SoleShape, ExistingIsKnown DEF DatabaseInv, BoundsAreKept, AutoscaleInBounds, Bounds
<1> QED BY <1>1, DatabaseCorrect, PTL

------------------------------------------------------------------------------
(* Databases that are being created.                                          *)

ReconcilePC == {"load", "provision", "schedule", "wait", "pool", "store", "fail"}

(* The request r will reconcile d.                                            *)
Provisions(r, d) ==
    db[r] = d /\ (pc[r] \in ReconcilePC \/ (pc[r] \in {"scale", "publish"} /\ up = "up"))

LEMMA ProvisioningShape == \A d : Provisioning(d) <=> \E r \in Request : Provisions(r, d)
BY DEF Provisioning, Provisions, ReconcilePC

(* A step that leaves the request and the controller alone leaves it at it.   *)
LEMMA ProvisionsKept ==
    ASSUME NEW d \in DbId, NEW r \in Request, Provisions(r, d),
           db'[r] = db[r], pc'[r] = pc[r], up' = up \/ up' = "up"
    PROVE  Provisioning(d)'
BY DEF Provisioning, Provisions, ReconcilePC

(* No handler takes a database from the goroutine that reconciles it.         *)
LEMMA ApiDropsNone ==
    ASSUME TypeOK, ApiStep, NEW d \in DbId, dbStatus[d] = "creating", Provisioning(d)
    PROVE  Provisioning(d)' \/ dbStatus'[d] # "creating"
<1>1. PICK r \in Request : Provisions(r, d) BY ProvisioningShape
<1> USE DEF TypeOK, requestVars, projectVars
<1>2. ASSUME NEW q \in Request, NEW e \in DbId,
             \/ \E c \in NewConfig : CreateDatabase(q, e, c)
             \/ \E n \in 0..MaxInstances : ReadForScale(q, e, n)
             \/ ReadForBackup(q, e) \/ ReadForDelete(q, e) \/ PublishNotice(q, e)
      PROVE  Provisioning(d)'
    <2>1. pc[q] = "none" /\ up' = up
          /\ (\E to : pc' = [pc EXCEPT ![q] = to]) /\ db' = [db EXCEPT ![q] = e]
        BY <1>2 DEF CreateDatabase, ReadForScale, ReadForBackup, ReadForDelete, PublishNotice,
                    IsNextRequest
    <2>2. r # q BY <1>1, <2>1 DEF Provisions, ReconcilePC
    <2> QED BY <1>1, <2>1, <2>2, ProvisionsKept
<1>3. ASSUME NEW q \in Request, SetDatabaseScaling(q)
      PROVE  Provisioning(d)'
    <2>1. pc[q] = "scale" /\ pc' = [pc EXCEPT ![q] = "publish"] /\ UNCHANGED <<db, up>>
        BY <1>3 DEF SetDatabaseScaling
    <2>2. CASE r # q BY <1>1, <2>1, <2>2, ProvisionsKept
    <2>3. CASE r = q
        BY <1>1, <2>1, <2>3 DEF Provisions, ReconcilePC, Provisioning
    <2> QED BY <2>2, <2>3
<1>4. ASSUME NEW q \in Request, PublishDatabase(q) \/ PublishBackup(q) \/ PublishTeardown(q)
      PROVE  Provisioning(d)'
    <2>1. /\ pc[q] \in {"publish", "bk_publish", "td_publish"} /\ UNCHANGED <<db, up>>
          /\ \E to : pc' = [pc EXCEPT ![q] = to]
          /\ pc[q] = "publish" /\ up = "up" => pc' = [pc EXCEPT ![q] = "load"]
        BY <1>4 DEF PublishDatabase, PublishBackup, PublishTeardown, Publish
    <2>2. CASE r # q BY <1>1, <2>1, <2>2, ProvisionsKept
    <2>3. CASE r = q
        <3>1. pc[q] = "publish" /\ up = "up" BY <1>1, <2>1, <2>3 DEF Provisions, ReconcilePC
        <3> QED BY <1>1, <2>1, <2>3, <3>1 DEF Provisions, Provisioning
    <2> QED BY <2>2, <2>3
<1>5. ASSUME \/ \E e \in DbId : DeleteDatabase(e)
             \/ \E p \in Projects : ListDatabases(p) \/ DeleteProject(p)
      PROVE  Provisioning(d)'
    <2>1. UNCHANGED <<pc, db, up>> BY <1>5 DEF DeleteDatabase, ListDatabases, DeleteProject
    <2> QED BY <1>1, <2>1, ProvisionsKept
<1> QED BY <1>2, <1>3, <1>4, <1>5 DEF ApiStep

(* A goroutine leaves a database only with its outcome in the row.            *)
LEMMA GoroutineDropsNone ==
    ASSUME TypeOK, NEW q \in Request, GoroutineStep(q), NEW d \in DbId,
           dbStatus[d] = "creating", Provisioning(d)
    PROVE  Provisioning(d)' \/ dbStatus'[d] # "creating"
<1>1. PICK r \in Request : Provisions(r, d) BY ProvisioningShape
<1> USE DEF TypeOK, Goto
<1>2. /\ pc[q] \in ReconcilePC \cup {"teardown", "bk_load", "bk_create"}
      /\ UNCHANGED <<db, up>>
      /\ \E to : pc' = [pc EXCEPT ![q] = to]
    BY DEF GoroutineStep, LoadDatabase, Provision, applyScheduledBackup, WaitReady,
           ReconcilePgBouncer, ReconcileFails, SetDatabaseConnection, FailDatabase,
           TeardownDatabase, LoadForBackup, TriggerBackup, ReconcilePC
<1>3. CASE r # q BY <1>1, <1>2, <1>3, ProvisionsKept
<1>4. CASE r = q
    <2>1. pc[q] \in ReconcilePC /\ db[q] = d /\ Exists(d)
        BY <1>1, <1>2, <1>4 DEF Provisions, ReconcilePC, Exists
    <2>2. CASE \/ LoadDatabase(q) \/ Provision(q) \/ applyScheduledBackup(q) \/ WaitReady(q)
               \/ ReconcilePgBouncer(q) \/ ReconcileFails(q)
        <3>1. \E to \in ReconcilePC : pc' = [pc EXCEPT ![q] = to]
            BY <2>1, <2>2 DEF LoadDatabase, Provision, applyScheduledBackup, WaitReady,
                              ReconcilePgBouncer, ReconcileFails, ReconcilePC
        <3> QED BY <1>2, <2>1, <3>1 DEF Provisioning, ReconcilePC
    <2>3. CASE SetDatabaseConnection(q) \/ FailDatabase(q)
        BY <2>1, <2>3 DEF SetDatabaseConnection, FailDatabase
    <2> QED BY <2>1, <2>2, <2>3 DEF GoroutineStep, TeardownDatabase, LoadForBackup, TriggerBackup,
                                    ReconcilePC
<1> QED BY <1>3, <1>4

(* A database in "creating" that something will reconcile is left with its    *)
(* outcome in the row, however creates, scales, deletes and the autoscaler    *)
(* interleave with reconcileDatabase, unless a statement fails or the         *)
(* controller dies.                                                           *)
THEOREM CreatingIsNotDropped == Spec => CreatingNotDropped
<1> DEFINE Kept == \A d \in DbId :
        dbStatus[d] = "creating" /\ Provisioning(d) /\ faults' = faults =>
            Provisioning(d)' \/ dbStatus'[d] # "creating"
<1>1. ASSUME TypeOK, [Next]_vars PROVE [Kept]_vars
    <2> SUFFICES ASSUME Next, NEW d \in DbId, dbStatus[d] = "creating", Provisioning(d),
                        faults' = faults
                 PROVE  Provisioning(d)' \/ dbStatus'[d] # "creating"
        BY <1>1
    <2>1. CASE ApiStep BY <1>1, <2>1, ApiDropsNone
    <2>2. CASE StartController \/ AutoscalerStep
        <3>1. UNCHANGED <<pc, db>> /\ (up' = up \/ up' = "up")
            BY <2>2 DEF StartController, AutoscalerStep, ListAutoscaleDatabases, SkipDatabase,
                        AutoscaleProvision, SetDatabaseInstances, requestVars
        <3> QED BY <3>1, ProvisioningShape, ProvisionsKept
    <2>3. CASE \E r \in Request : GoroutineStep(r) BY <1>1, <2>3, GoroutineDropsNone
    <2>4. CASE Failure
        <3>1. Fault
            BY <2>4 DEF Failure, HandlerFails, GoroutineFails, DeleteFails, NoticeFails,
                        DeleteProjectFails, PersistFails, ControllerCrash
        <3> QED BY <1>1, <3>1 DEF Fault, TypeOK
    <2> QED BY <2>1, <2>2, <2>3, <2>4 DEF Next
<1>2. TypeOK /\ [Next]_vars => [Kept]_vars BY <1>1
<1> QED BY <1>2, DatabaseTypes, PTL DEF Spec, CreatingNotDropped

==============================================================================
