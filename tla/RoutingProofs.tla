----------------------------- MODULE RoutingProofs -----------------------------
(* Who is reached under which name, for any number of orgs, services, pull    *)
(* requests, custom domains and deploys under way.                            *)
EXTENDS Routing, TLAPS

USE RoutingAssumption

------------------------------------------------------------------------------
(* The inductive invariant.                                                   *)

(* What runs under a name is an environment of that name.                     *)
RunsUnderItsName ==
    \A w \in Workload : LET env == running[w].by IN
        env # Nobody => former[env[1]] # NoRow /\ WorkloadOf(env) = w

(* A deploy is of a service that was created ...                              *)
TaskIsKnown == \A t \in Tasks : task[t] # NoTask => former[task[t].env[1]] # NoRow

(* ... and wanted, unless its environment was taken down meanwhile.           *)
TaskIsWanted ==
    \A t \in Tasks : LET env == task[t].env IN
        task[t] # NoTask /\ env \notin disturbed =>
            IF env[2] = Production THEN Exists(env[1]) ELSE env \in open

(* The domains a deploy has loaded are those of its service, or have left it  *)
(* since: such a domain stays stale while a deploy can bring it back.         *)
LoadedAreHeld ==
    \A t \in Tasks : \A d \in task[t].domains : LET env == task[t].env IN
        env[2] = Production /\ Held(env[1], d)

(* The same holds for the domains a name is routed by, whoever runs there or  *)
(* nobody: the routes were written by a deploy of some service of that name.  *)
RoutesAreHeld ==
    \A w \in Workload, d \in Domains : d \in running[w].hosts /\ d # Host(w) =>
        \E i \in ServiceId :
            former[i] # NoRow /\ WorkloadOf(<<i, Production>>) = w /\ Held(i, d)

(* The previews of a deleted project are left behind.                         *)
OrphansAreDisturbed ==
    \A i \in ServiceId, n \in PRs :
        former[i] # NoRow /\ ~Exists(i) => <<i, n>> \in disturbed

(* What runs and is not wanted has its teardown to come.                      *)
TeardownToCome ==
    \A w \in Workload : LET env == running[w].by IN
        env # Nobody /\ env \notin disturbed =>
            IF env[2] = Production
            THEN Exists(env[1]) \/ w \in pending
            ELSE env \in open \/ env \in pending

RoutingInv ==
    /\ TypeOK
    /\ RunsUnderItsName
    /\ TaskIsKnown
    /\ TaskIsWanted
    /\ LoadedAreHeld
    /\ OrphansAreDisturbed
    /\ TeardownToCome
    /\ RoutesAreHeld

------------------------------------------------------------------------------
(* Facts about names and rows.                                                *)

LEMMA RowsAreRows == NoRow \notin Orgs \X Slug
BY DEF NoRow

LEMMA NobodyIsNoEnvironment ==
    /\ Nobody \notin ServiceId \X Target
    /\ 0 \notin ServiceId
    /\ ServiceId \subseteq Nat
BY DEF Nobody, ServiceId

(* The teardown of a preview and that of a workload are never mistaken for    *)
(* one another.                                                               *)
LEMMA TeardownsDiffer == (ServiceId \X PRs) \cap Workload = {}
<1> SUFFICES ASSUME NEW m \in ServiceId \X PRs, m \in Workload PROVE FALSE
    OBVIOUS
<1>1. m[1] \in ServiceId /\ m[1] \in Orgs
    BY DEF Workload
<1> QED BY <1>1 DEF ServiceId

(* An environment of a service that was created has a name.                   *)
LEMMA WorkloadOfEnvironment ==
    ASSUME TypeOK, NEW env \in ServiceId \X Target, former[env[1]] # NoRow
    PROVE  WorkloadOf(env) \in Workload
<1>1. former[env[1]] \in Orgs \X Slug /\ env[2] \in Target
    BY DEF TypeOK
<1>2. WorkloadName(former[env[1]][2], env[2]) \in Name
    BY <1>1 DEF Name
<1> QED BY <1>1, <1>2 DEF WorkloadOf, Workload

(* A deploy has an environment.                                               *)
LEMMA TaskShape ==
    ASSUME TypeOK, NEW t \in Tasks
    PROVE  /\ task[t] # NoTask =>
                 /\ task[t].env \in ServiceId \X Target
                 /\ task[t].domains \subseteq Domains
                 /\ task[t].phase \in {"build", "apply", "route"}
           /\ task[t] = NoTask =>
                 task[t].env = Nobody /\ task[t].domains = {} /\ task[t].phase = "none"
BY DEF TypeOK, NoTask

(* What runs is an environment.                                               *)
LEMMA RunShape ==
    ASSUME TypeOK, NEW w \in Workload
    PROVE  /\ running[w].by # Nobody => running[w].by \in ServiceId \X Target
           /\ running[w].hosts \subseteq Name \cup Domains
BY DEF TypeOK

(* Writing the Deployment of a workload leaves all routes alone ...           *)
LEMMA DeploymentWrite ==
    ASSUME TypeOK, NEW w \in Workload, NEW env \in (ServiceId \X Target) \cup {Nobody}
    PROVE  LET r == [running EXCEPT ![w].by = env] IN
           /\ r \in [Workload -> [by : (ServiceId \X Target) \cup {Nobody},
                                  hosts : SUBSET (Name \cup Domains)]]
           /\ r[w].by = env
           /\ \A u \in Workload : /\ r[u].hosts = running[u].hosts
                                  /\ u # w => r[u] = running[u]
<1> DEFINE R == [by : (ServiceId \X Target) \cup {Nobody}, hosts : SUBSET (Name \cup Domains)]
           x == [running[w] EXCEPT !.by = env]
<1>1. running \in [Workload -> R] /\ running[w] \in R
    BY DEF TypeOK
<1>2. x \in R /\ x.by = env /\ x.hosts = running[w].hosts
    BY <1>1
<1>3. [running EXCEPT ![w].by = env] = [running EXCEPT ![w] = x]
    OBVIOUS
<1> HIDE DEF R, x
<1>4. /\ [running EXCEPT ![w] = x] \in [Workload -> R]
      /\ \A u \in Workload : [running EXCEPT ![w] = x][u] = IF u = w THEN x ELSE running[u]
    BY <1>1, <1>2
<1> QED BY <1>2, <1>3, <1>4 DEF R

(* ... and writing its routes all Deployments.                                *)
LEMMA RoutesWrite ==
    ASSUME TypeOK, NEW w \in Workload, NEW hosts \in SUBSET (Name \cup Domains)
    PROVE  LET r == [running EXCEPT ![w].hosts = hosts] IN
           /\ r \in [Workload -> [by : (ServiceId \X Target) \cup {Nobody},
                                  hosts : SUBSET (Name \cup Domains)]]
           /\ r[w].hosts = hosts
           /\ \A u \in Workload : /\ r[u].by = running[u].by
                                  /\ u # w => r[u] = running[u]
<1> DEFINE R == [by : (ServiceId \X Target) \cup {Nobody}, hosts : SUBSET (Name \cup Domains)]
           x == [running[w] EXCEPT !.hosts = hosts]
<1>1. running \in [Workload -> R] /\ running[w] \in R
    BY DEF TypeOK
<1>2. x \in R /\ x.hosts = hosts /\ x.by = running[w].by
    BY <1>1
<1>3. [running EXCEPT ![w].hosts = hosts] = [running EXCEPT ![w] = x]
    OBVIOUS
<1> HIDE DEF R, x
<1>4. /\ [running EXCEPT ![w] = x] \in [Workload -> R]
      /\ \A u \in Workload : [running EXCEPT ![w] = x][u] = IF u = w THEN x ELSE running[u]
    BY <1>1, <1>2
<1> QED BY <1>2, <1>3, <1>4 DEF R

------------------------------------------------------------------------------
(* Every step keeps the invariant.                                            *)

(* A service is created: nothing of its id is around.                         *)
LEMMA CreateServiceKeeps ==
    ASSUME RoutingInv, NEW o \in Orgs, NEW s \in Slug, CreateService(o, s)
    PROVE  RoutingInv'
<1> TypeOK /\ RunsUnderItsName /\ TaskIsKnown /\ TaskIsWanted
    BY DEF RoutingInv
<1> LoadedAreHeld /\ OrphansAreDisturbed /\ TeardownToCome /\ RoutesAreHeld
    BY DEF RoutingInv
<1>1. nextId \in ServiceId /\ former[nextId] = NoRow /\ service[nextId] = NoRow
    BY RowsAreRows DEF CreateService, TypeOK, ServiceId, Exists
<1>2. /\ former' = [former EXCEPT ![nextId] = <<o, s>>]
      /\ service' = [service EXCEPT ![nextId] = <<o, s>>]
      /\ nextId' = nextId + 1 /\ <<o, s>> # NoRow
    BY DEF CreateService, NoRow
<1>3. \A j \in ServiceId : j # nextId => former'[j] = former[j] /\ service'[j] = service[j]
    BY <1>2 DEF TypeOK
<1>4. former'[nextId] = <<o, s>> /\ service'[nextId] = <<o, s>>
    BY <1>1, <1>2 DEF TypeOK
<1>types. TypeOK'
    <2>1. /\ former' \in [ServiceId -> (Orgs \X Slug) \cup {NoRow}]
          /\ service' \in [ServiceId -> (Orgs \X Slug) \cup {NoRow}]
          /\ nextId' \in 1..(MaxServices + 1)
        BY <1>1, <1>2 DEF TypeOK, ServiceId
    <2>2. \A j \in ServiceId : former'[j] # NoRow <=> j < nextId'
        BY <1>1, <1>2, <1>3, <1>4 DEF TypeOK, ServiceId
    <2>3. \A j \in ServiceId : /\ Exists(j)' => former'[j] = service'[j]
                               /\ Exists(j) => Exists(j)'
        BY <1>2, <1>3, <1>4 DEF TypeOK, Exists
    <2>4. UNCHANGED <<holder, deploys, open, task, pending, running, clearing, stale, disturbed,
                    faults>>
        BY DEF CreateService
    <2>5. \A d \in Domains : holder'[d] # 0 => Exists(holder[d])'
        BY <2>3, <2>4 DEF TypeOK
    <2>6. open' \subseteq {j \in ServiceId : Exists(j)'} \X PRs
        BY <2>3, <2>4 DEF TypeOK
    <2>7. /\ holder' \in [Domains -> ServiceId \cup {0}]
          /\ stale' \subseteq ServiceId \X Domains
          /\ disturbed' \subseteq ServiceId \X Target
          /\ pending' \subseteq (ServiceId \X PRs) \cup Workload /\ clearing' \subseteq Workload
          /\ deploys' \in 0..MaxDeploys /\ faults' \in 0..MaxFaults
        BY <2>4 DEF TypeOK
    <2>8. /\ task' \in [Tasks -> [phase : {"build", "apply", "route"}, env : ServiceId \X Target,
                                domains : SUBSET Domains] \cup {NoTask}]
          /\ running' \in [Workload -> [by : (ServiceId \X Target) \cup {Nobody},
                                       hosts : SUBSET (Name \cup Domains)]]
        BY <2>4 DEF TypeOK
    <2> QED BY <2>1, <2>2, <2>3, <2>5, <2>6, <2>7, <2>8, NobodyIsNoEnvironment DEF TypeOK
<1>named. RunsUnderItsName'
    <2> SUFFICES ASSUME NEW w \in Workload
                 PROVE  LET env == running[w].by IN
                        env # Nobody => former'[env[1]] # NoRow /\ WorkloadOf(env)' = w
        BY DEF CreateService, RunsUnderItsName
    <2>1. running[w].by # Nobody => running[w].by[1] \in ServiceId /\ running[w].by[1] # nextId
        BY <1>1, RunShape DEF RunsUnderItsName
    <2>2. running[w].by # Nobody => former'[running[w].by[1]] = former[running[w].by[1]]
        BY <1>3, <2>1
    <2>3. running[w].by # Nobody => WorkloadOf(running[w].by)' = WorkloadOf(running[w].by)
        BY <2>2 DEF WorkloadOf, CreateService
    <2> QED BY <2>2, <2>3 DEF RunsUnderItsName
<1>known. TaskIsKnown'
    BY RowsAreRows, TaskShape DEF CreateService, TaskIsKnown
<1>wanted. TaskIsWanted'
    BY RowsAreRows, TaskShape DEF CreateService, TaskIsWanted, Exists
<1>held. LoadedAreHeld'
    BY RowsAreRows, TaskShape DEF CreateService, LoadedAreHeld, Held
<1>orphans. OrphansAreDisturbed'
    BY <1>2, <1>3, <1>4 DEF CreateService, OrphansAreDisturbed, Exists
<1>teardown. TeardownToCome'
    BY RowsAreRows, RunShape DEF CreateService, TeardownToCome, Exists
<1>domains. RoutesAreHeld'
    <2> SUFFICES ASSUME NEW w \in Workload, NEW d \in Domains, d \in running[w].hosts, d # Host(w)
                 PROVE  \E i \in ServiceId : /\ former'[i] # NoRow /\ Held(i, d)'
                                             /\ WorkloadOf(<<i, Production>>)' = w
        BY DEF CreateService, RoutesAreHeld, Held, WorkloadOf
    <2>1. PICK i \in ServiceId :
             former[i] # NoRow /\ WorkloadOf(<<i, Production>>) = w /\ Held(i, d)
        BY DEF RoutesAreHeld
    <2>2. former'[i] = former[i]
        BY <1>1, <1>3, <2>1
    <2>3. WorkloadOf(<<i, Production>>)' = w /\ Held(i, d)'
        BY <2>1, <2>2 DEF CreateService, WorkloadOf, Held
    <2> QED BY <2>1, <2>2, <2>3
<1> QED BY <1>types, <1>named, <1>known, <1>wanted, <1>held, <1>orphans, <1>teardown, <1>domains
       DEF RoutingInv

(* A domain nobody has is attached.                                           *)
LEMMA AddCustomDomainKeeps ==
    ASSUME RoutingInv, NEW i \in ServiceId, NEW d \in Domains, AddCustomDomain(i, d)
    PROVE  RoutingInv'
<1> TypeOK /\ RunsUnderItsName /\ TaskIsKnown /\ TaskIsWanted
    BY DEF RoutingInv
<1> LoadedAreHeld /\ OrphansAreDisturbed /\ TeardownToCome /\ RoutesAreHeld
    BY DEF RoutingInv
<1>types. TypeOK'
    BY NobodyIsNoEnvironment DEF AddCustomDomain, rowVars, TypeOK, Exists
<1>named. RunsUnderItsName'
    BY NobodyIsNoEnvironment, RunShape DEF AddCustomDomain, rowVars, RunsUnderItsName, WorkloadOf
<1>known. TaskIsKnown'
    BY NobodyIsNoEnvironment, TaskShape DEF AddCustomDomain, rowVars, TaskIsKnown
<1>wanted. TaskIsWanted'
    BY NobodyIsNoEnvironment, TaskShape DEF AddCustomDomain, rowVars, TaskIsWanted, Exists
<1>held. LoadedAreHeld'
    BY NobodyIsNoEnvironment, TaskShape DEF AddCustomDomain, rowVars, LoadedAreHeld, Held
<1>orphans. OrphansAreDisturbed'
    BY NobodyIsNoEnvironment DEF AddCustomDomain, rowVars, OrphansAreDisturbed, Exists
<1>teardown. TeardownToCome'
    BY NobodyIsNoEnvironment, RunShape DEF AddCustomDomain, rowVars, TeardownToCome, Exists
<1>domains. RoutesAreHeld'
    <2>1. \A i2 \in ServiceId, c \in Domains : Held(i2, c) => Held(i2, c)'
        BY NobodyIsNoEnvironment DEF AddCustomDomain, Held, TypeOK
    <2>2. /\ UNCHANGED <<former, running>>
          /\ \A env : WorkloadOf(env)' = WorkloadOf(env)
        BY DEF AddCustomDomain, WorkloadOf
    <2> QED BY <2>1, <2>2 DEF RoutesAreHeld
<1> QED BY <1>types, <1>named, <1>known, <1>wanted, <1>held, <1>orphans, <1>teardown, <1>domains
       DEF RoutingInv

(* A domain is detached: it is stale from now on.                             *)
LEMMA DeleteCustomDomainKeeps ==
    ASSUME RoutingInv, NEW i \in ServiceId, NEW d \in Domains, DeleteCustomDomain(i, d)
    PROVE  RoutingInv'
<1> TypeOK /\ RunsUnderItsName /\ TaskIsKnown /\ TaskIsWanted
    BY DEF RoutingInv
<1> LoadedAreHeld /\ OrphansAreDisturbed /\ TeardownToCome /\ RoutesAreHeld
    BY DEF RoutingInv
<1>types. TypeOK'
    BY NobodyIsNoEnvironment DEF DeleteCustomDomain, rowVars, TypeOK, Exists
<1>named. RunsUnderItsName'
    BY NobodyIsNoEnvironment, RunShape DEF DeleteCustomDomain, rowVars, RunsUnderItsName, WorkloadOf
<1>known. TaskIsKnown'
    BY NobodyIsNoEnvironment, TaskShape DEF DeleteCustomDomain, rowVars, TaskIsKnown
<1>wanted. TaskIsWanted'
    BY NobodyIsNoEnvironment, TaskShape DEF DeleteCustomDomain, rowVars, TaskIsWanted, Exists
<1>held. LoadedAreHeld'
    BY NobodyIsNoEnvironment, TaskShape DEF DeleteCustomDomain, rowVars, LoadedAreHeld, Held
<1>orphans. OrphansAreDisturbed'
    BY NobodyIsNoEnvironment DEF DeleteCustomDomain, rowVars, OrphansAreDisturbed, Exists
<1>teardown. TeardownToCome'
    BY NobodyIsNoEnvironment, RunShape DEF DeleteCustomDomain, rowVars, TeardownToCome, Exists
<1>domains. RoutesAreHeld'
    BY NobodyIsNoEnvironment, RunShape
       DEF DeleteCustomDomain, rowVars, RoutesAreHeld, Held, WorkloadOf
<1> QED BY <1>types, <1>named, <1>known, <1>wanted, <1>held, <1>orphans, <1>teardown, <1>domains
       DEF RoutingInv

(* A deploy of production begins.                                             *)
LEMMA EnqueueDeployKeeps ==
    ASSUME RoutingInv, NEW t \in Tasks, NEW i \in ServiceId, EnqueueDeploy(t, i)
    PROVE  RoutingInv'
<1> TypeOK /\ RunsUnderItsName /\ TaskIsKnown /\ TaskIsWanted
    BY DEF RoutingInv
<1> LoadedAreHeld /\ OrphansAreDisturbed /\ TeardownToCome /\ RoutesAreHeld
    BY DEF RoutingInv
<1>1. /\ task' = [task EXCEPT ![t] = [phase |-> "build", env |-> <<i, Production>>, domains |-> {}]]
      /\ former' = former /\ former[i] # NoRow
    BY RowsAreRows DEF EnqueueDeploy, Enqueue, rowVars, TypeOK, Exists
<1>types. TypeOK'
    BY NobodyIsNoEnvironment DEF EnqueueDeploy, Enqueue, rowVars, Target, TypeOK, Exists
<1>named. RunsUnderItsName'
    BY NobodyIsNoEnvironment, RunShape
       DEF EnqueueDeploy, Enqueue, rowVars, Target, RunsUnderItsName, WorkloadOf
<1>known. TaskIsKnown'
    <2>1. \A u \in Tasks : u # t => task'[u] = task[u]
        BY <1>1 DEF TypeOK
    <2>2. task'[t].env[1] = i
        BY <1>1 DEF TypeOK
    <2> QED BY <1>1, <2>1, <2>2 DEF TaskIsKnown
<1>wanted. TaskIsWanted'
    BY NobodyIsNoEnvironment, TaskShape
       DEF EnqueueDeploy, Enqueue, rowVars, Target, TaskIsWanted, Exists
<1>held. LoadedAreHeld'
    BY NobodyIsNoEnvironment, TaskShape
       DEF EnqueueDeploy, Enqueue, rowVars, Target, LoadedAreHeld, Held
<1>orphans. OrphansAreDisturbed'
    BY NobodyIsNoEnvironment
       DEF EnqueueDeploy, Enqueue, rowVars, Target, OrphansAreDisturbed, Exists
<1>teardown. TeardownToCome'
    BY NobodyIsNoEnvironment, RunShape
       DEF EnqueueDeploy, Enqueue, rowVars, Target, TeardownToCome, Exists
<1>domains. RoutesAreHeld'
    BY NobodyIsNoEnvironment, RunShape
       DEF EnqueueDeploy, Enqueue, rowVars, Target, RoutesAreHeld, Held, WorkloadOf
<1> QED BY <1>types, <1>named, <1>known, <1>wanted, <1>held, <1>orphans, <1>teardown, <1>domains
       DEF RoutingInv

(* A deploy of a preview begins: its pull request is open.                    *)
LEMMA EnqueuePreviewKeeps ==
    ASSUME RoutingInv, NEW t \in Tasks, NEW i \in ServiceId, NEW n \in PRs, EnqueuePreview(t, i, n)
    PROVE  RoutingInv'
<1> TypeOK /\ RunsUnderItsName /\ TaskIsKnown /\ TaskIsWanted
    BY DEF RoutingInv
<1> LoadedAreHeld /\ OrphansAreDisturbed /\ TeardownToCome /\ RoutesAreHeld
    BY DEF RoutingInv
<1>1. /\ task' = [task EXCEPT ![t] = [phase |-> "build", env |-> <<i, n>>, domains |-> {}]]
      /\ former' = former /\ former[i] # NoRow
    BY RowsAreRows DEF EnqueuePreview, Enqueue, rowVars, TypeOK, Exists
<1>types. TypeOK'
    BY NobodyIsNoEnvironment DEF EnqueuePreview, Enqueue, rowVars, Target, TypeOK, Exists
<1>named. RunsUnderItsName'
    BY NobodyIsNoEnvironment, RunShape
       DEF EnqueuePreview, Enqueue, rowVars, Target, RunsUnderItsName, WorkloadOf
<1>known. TaskIsKnown'
    <2>1. \A u \in Tasks : u # t => task'[u] = task[u]
        BY <1>1 DEF TypeOK
    <2>2. task'[t].env[1] = i
        BY <1>1 DEF TypeOK
    <2> QED BY <1>1, <2>1, <2>2 DEF TaskIsKnown
<1>wanted. TaskIsWanted'
    BY NobodyIsNoEnvironment, TaskShape
       DEF EnqueuePreview, Enqueue, rowVars, Target, TaskIsWanted, Exists
<1>held. LoadedAreHeld'
    BY NobodyIsNoEnvironment, TaskShape
       DEF EnqueuePreview, Enqueue, rowVars, Target, LoadedAreHeld, Held
<1>orphans. OrphansAreDisturbed'
    BY NobodyIsNoEnvironment
       DEF EnqueuePreview, Enqueue, rowVars, Target, OrphansAreDisturbed, Exists
<1>teardown. TeardownToCome'
    BY NobodyIsNoEnvironment, RunShape
       DEF EnqueuePreview, Enqueue, rowVars, Target, TeardownToCome, Exists
<1>domains. RoutesAreHeld'
    BY NobodyIsNoEnvironment, RunShape
       DEF EnqueuePreview, Enqueue, rowVars, Target, RoutesAreHeld, Held, WorkloadOf
<1> QED BY <1>types, <1>named, <1>known, <1>wanted, <1>held, <1>orphans, <1>teardown, <1>domains
       DEF RoutingInv

(* A pull request is closed: its teardown is to come.                         *)
LEMMA ClosePullRequestKeeps ==
    ASSUME RoutingInv, NEW i \in ServiceId, NEW n \in PRs, ClosePullRequest(i, n)
    PROVE  RoutingInv'
<1> TypeOK /\ RunsUnderItsName /\ TaskIsKnown /\ TaskIsWanted
    BY DEF RoutingInv
<1> LoadedAreHeld /\ OrphansAreDisturbed /\ TeardownToCome /\ RoutesAreHeld
    BY DEF RoutingInv
<1>types. TypeOK'
    BY DEF ClosePullRequest, rowVars, InFlight, Target, TypeOK, Exists
<1>named. RunsUnderItsName'
    BY RunShape DEF ClosePullRequest, rowVars, InFlight, Target, RunsUnderItsName, WorkloadOf
<1>known. TaskIsKnown'
    BY TaskShape DEF ClosePullRequest, rowVars, InFlight, Target, TaskIsKnown
<1>wanted. TaskIsWanted'
    BY TaskShape DEF ClosePullRequest, rowVars, InFlight, Target, TaskIsWanted, Exists
<1>held. LoadedAreHeld'
    BY TaskShape DEF ClosePullRequest, rowVars, InFlight, Target, LoadedAreHeld, Held
<1>orphans. OrphansAreDisturbed'
    BY DEF ClosePullRequest, rowVars, InFlight, Target, OrphansAreDisturbed, Exists
<1>teardown. TeardownToCome'
    BY RunShape DEF ClosePullRequest, rowVars, InFlight, Target, TeardownToCome, Exists
<1>domains. RoutesAreHeld'
    BY RunShape DEF ClosePullRequest, rowVars, InFlight, Target, RoutesAreHeld, Held, WorkloadOf
<1> QED BY <1>types, <1>named, <1>known, <1>wanted, <1>held, <1>orphans, <1>teardown, <1>domains
       DEF RoutingInv

(* A project is deleted: the teardown of production is to come.               *)
LEMMA DeleteProjectKeeps ==
    ASSUME RoutingInv, NEW i \in ServiceId, DeleteProject(i)
    PROVE  RoutingInv'
<1> TypeOK /\ RunsUnderItsName /\ TaskIsKnown /\ TaskIsWanted
    BY DEF RoutingInv
<1> LoadedAreHeld /\ OrphansAreDisturbed /\ TeardownToCome /\ RoutesAreHeld
    BY DEF RoutingInv
<1>types. TypeOK'
    <2>1. /\ service' \in [ServiceId -> (Orgs \X Slug) \cup {NoRow}]
          /\ \A j \in ServiceId : Exists(j)' <=> Exists(j) /\ j # i
          /\ \A j \in ServiceId : Exists(j)' => service'[j] = service[j]
        BY DEF DeleteProject, TypeOK, Exists
    <2>2. /\ holder' \in [Domains -> ServiceId \cup {0}]
          /\ \A d \in Domains : holder'[d] # 0 => holder'[d] = holder[d] /\ holder[d] # i
        BY DEF DeleteProject, TypeOK
    <2>3. \A d \in Domains : holder'[d] # 0 => Exists(holder[d])'
        BY <2>1, <2>2, Zenon DEF TypeOK
    <2>4. open' \subseteq {j \in ServiceId : Exists(j)'} \X PRs
        BY <2>1 DEF DeleteProject, TypeOK
    <2>5. pending' \subseteq (ServiceId \X PRs) \cup Workload
        <3>1. WorkloadOf(<<i, Production>>) \in Workload
            BY WorkloadOfEnvironment, RowsAreRows DEF DeleteProject, TypeOK, Exists, Target
        <3> QED BY <3>1 DEF DeleteProject, TypeOK
    <2>6. stale' \subseteq ServiceId \X Domains /\ disturbed' \subseteq ServiceId \X Target
        BY DEF DeleteProject, TypeOK, DomainsOf
    <2>7. UNCHANGED <<nextId, former, deploys, task, running, clearing, faults>>
        BY DEF DeleteProject
    <2> QED BY <2>1, <2>2, <2>3, <2>4, <2>5, <2>6, <2>7 DEF TypeOK
<1>named. RunsUnderItsName'
    BY RunShape DEF DeleteProject, DomainsOf, InFlight, Target, RunsUnderItsName, WorkloadOf
<1>known. TaskIsKnown'
    BY TaskShape DEF DeleteProject, DomainsOf, InFlight, Target, TaskIsKnown
<1>wanted. TaskIsWanted'
    BY TaskShape DEF DeleteProject, DomainsOf, InFlight, Target, TaskIsWanted, Exists
<1>held. LoadedAreHeld'
    BY TaskShape DEF DeleteProject, DomainsOf, InFlight, Target, LoadedAreHeld, Held
<1>orphans. OrphansAreDisturbed'
    BY DEF DeleteProject, DomainsOf, InFlight, Target, OrphansAreDisturbed, Exists
<1>teardown. TeardownToCome'
    <2> SUFFICES ASSUME NEW w \in Workload, running[w].by # Nobody,
                        running[w].by \notin disturbed'
                 PROVE  LET env == running[w].by IN
                        IF env[2] = Production
                        THEN Exists(env[1])' \/ w \in pending'
                        ELSE env \in open' \/ env \in pending'
        BY DEF DeleteProject, TeardownToCome
    <2>1. running[w].by \in ServiceId \X Target /\ WorkloadOf(running[w].by) = w
        BY RunShape DEF RunsUnderItsName
    <2>2. CASE running[w].by[1] = i
        <3>1. running[w].by[2] = Production
            BY <2>1, <2>2 DEF DeleteProject
        <3>2. running[w].by = <<i, Production>>
            BY <2>1, <2>2, <3>1
        <3> QED BY <2>1, <3>1, <3>2 DEF DeleteProject
    <2>3. CASE running[w].by[1] # i
        <3>1. Exists(running[w].by[1])' = Exists(running[w].by[1])
            BY <2>1, <2>3 DEF DeleteProject, Exists, TypeOK
        <3> QED BY <2>1, <2>3, <3>1 DEF DeleteProject, TeardownToCome
    <2> QED BY <2>2, <2>3
<1>domains. RoutesAreHeld'
    <2>1. \A j \in ServiceId, d \in Domains : Held(j, d) => Held(j, d)'
        BY DEF DeleteProject, DomainsOf, Held, TypeOK
    <2>2. /\ UNCHANGED <<former, running>>
          /\ \A env : WorkloadOf(env)' = WorkloadOf(env)
        BY DEF DeleteProject, WorkloadOf
    <2> QED BY <2>1, <2>2 DEF RoutesAreHeld
<1> QED BY <1>types, <1>named, <1>known, <1>wanted, <1>held, <1>orphans, <1>teardown, <1>domains
       DEF RoutingInv

(* The controller loads the row and its domains.                              *)
LEMMA LoadKeeps ==
    ASSUME RoutingInv, NEW t \in Tasks, Load(t)
    PROVE  RoutingInv'
<1> TypeOK /\ RunsUnderItsName /\ TaskIsKnown /\ TaskIsWanted
    BY DEF RoutingInv
<1> LoadedAreHeld /\ OrphansAreDisturbed /\ TeardownToCome /\ RoutesAreHeld
    BY DEF RoutingInv
<1>1. task[t] # NoTask /\ task[t].env \in ServiceId \X Target
    BY TaskShape DEF Load
<1>2. /\ task' = [task EXCEPT ![t] = IF Exists(task[t].env[1])
                       THEN [phase |-> "apply", env |-> task[t].env,
                             domains |-> IF task[t].env[2] = Production
                                         THEN DomainsOf(task[t].env[1]) ELSE {}]
                       ELSE NoTask]
      /\ UNCHANGED <<rowVars, deploys, open, pending, running, clearing, stale, disturbed,
                     faults>>
    BY DEF Load
<1>types. TypeOK'
    <2>1. DomainsOf(task[t].env[1]) \subseteq Domains
        BY DEF DomainsOf
    <2> QED BY <1>1, <1>2, <2>1 DEF TypeOK, Exists, rowVars
<1>named. RunsUnderItsName'
    BY RunShape DEF Load, DomainsOf, rowVars, RunsUnderItsName, WorkloadOf
<1>known. TaskIsKnown'
    BY TaskShape DEF Load, DomainsOf, rowVars, TaskIsKnown
<1>wanted. TaskIsWanted'
    BY TaskShape DEF Load, DomainsOf, rowVars, TaskIsWanted, Exists
<1>held. LoadedAreHeld'
    <2>1. \A u \in Tasks : u # t => task'[u] = task[u]
        BY <1>2 DEF TypeOK
    <2>2. \A d \in task'[t].domains :
             task'[t].env[2] = Production /\ holder[d] = task'[t].env[1]
        BY <1>2 DEF TypeOK, NoTask, DomainsOf
    <2> QED BY <1>2, <2>1, <2>2 DEF LoadedAreHeld, Held, rowVars
<1>orphans. OrphansAreDisturbed'
    BY DEF Load, DomainsOf, rowVars, OrphansAreDisturbed, Exists
<1>teardown. TeardownToCome'
    BY RunShape DEF Load, DomainsOf, rowVars, TeardownToCome, Exists
<1>domains. RoutesAreHeld'
    BY RunShape DEF Load, DomainsOf, rowVars, RoutesAreHeld, Held, WorkloadOf
<1> QED BY <1>types, <1>named, <1>known, <1>wanted, <1>held, <1>orphans, <1>teardown, <1>domains
       DEF RoutingInv

(* A deploy ends, half way or before.                                         *)
LEMMA DeployFailsKeeps ==
    ASSUME RoutingInv, NEW t \in Tasks, DeployFails(t)
    PROVE  RoutingInv'
<1> TypeOK /\ RunsUnderItsName /\ TaskIsKnown /\ TaskIsWanted
    BY DEF RoutingInv
<1> LoadedAreHeld /\ OrphansAreDisturbed /\ TeardownToCome /\ RoutesAreHeld
    BY DEF RoutingInv
<1>types. TypeOK'
    BY DEF DeployFails, rowVars, TypeOK, Exists
<1>named. RunsUnderItsName'
    BY RunShape DEF DeployFails, rowVars, RunsUnderItsName, WorkloadOf
<1>known. TaskIsKnown'
    BY TaskShape DEF DeployFails, rowVars, TaskIsKnown
<1>wanted. TaskIsWanted'
    BY TaskShape DEF DeployFails, rowVars, TaskIsWanted, Exists
<1>held. LoadedAreHeld'
    <2>1. \A u \in Tasks : u # t => task'[u] = task[u]
        BY DEF DeployFails, TypeOK
    <2>2. task'[t].domains = {}
        BY DEF DeployFails, TypeOK, NoTask
    <2> QED BY <2>1, <2>2 DEF DeployFails, LoadedAreHeld, Held, rowVars
<1>orphans. OrphansAreDisturbed'
    BY DEF DeployFails, rowVars, OrphansAreDisturbed, Exists
<1>teardown. TeardownToCome'
    BY RunShape DEF DeployFails, rowVars, TeardownToCome, Exists
<1>domains. RoutesAreHeld'
    BY RunShape DEF DeployFails, rowVars, RoutesAreHeld, Held, WorkloadOf
<1> QED BY <1>types, <1>named, <1>known, <1>wanted, <1>held, <1>orphans, <1>teardown, <1>domains
       DEF RoutingInv

(* A deploy is applied under the name of its environment: the Deployment.     *)
LEMMA ApplyDeploymentKeeps ==
    ASSUME RoutingInv, NEW t \in Tasks, ApplyDeployment(t)
    PROVE  RoutingInv'
<1> TypeOK /\ RunsUnderItsName /\ TaskIsKnown /\ TaskIsWanted
    BY DEF RoutingInv
<1> LoadedAreHeld /\ OrphansAreDisturbed /\ TeardownToCome /\ RoutesAreHeld
    BY DEF RoutingInv
<1> DEFINE env == task[t].env
           w == WorkloadOf(env)
<1>1. task[t] # NoTask /\ env \in ServiceId \X Target /\ env # Nobody
    BY TaskShape, NobodyIsNoEnvironment DEF ApplyDeployment
<1>2. w \in Workload /\ former[env[1]] # NoRow
    BY <1>1, WorkloadOfEnvironment DEF TaskIsKnown
<1>3. /\ running' = [running EXCEPT ![w].by = env]
      /\ task' = [task EXCEPT ![t].phase = "route"]
      /\ UNCHANGED <<rowVars, deploys, open, pending, clearing, stale, disturbed, faults>>
    BY DEF ApplyDeployment
<1> HIDE DEF w
<1>4. /\ running'[w].by = env
      /\ \A v \in Workload : v # w => running'[v] = running[v]
      /\ \A v \in Workload : running'[v].hosts = running[v].hosts
    BY <1>2, <1>3 DEF TypeOK
<1>5. /\ \A u \in Tasks : task'[u].env = task[u].env /\ task'[u].domains = task[u].domains
      /\ \A u \in Tasks : task'[u] # NoTask => task[u] # NoTask
    BY <1>1, <1>3 DEF TypeOK
<1>6. \A e : WorkloadOf(e)' = WorkloadOf(e)
    BY <1>3 DEF WorkloadOf, rowVars
<1>7. \A i, d : Held(i, d)' = Held(i, d)
    BY <1>3 DEF Held, rowVars
<1>8. \A i : Exists(i)' = Exists(i)
    BY <1>3 DEF Exists, rowVars
<1>types. TypeOK'
    <2>1. running' \in [Workload -> [by : (ServiceId \X Target) \cup {Nobody},
                                     hosts : SUBSET (Name \cup Domains)]]
        BY <1>1, <1>2, <1>3, DeploymentWrite
    <2>2. task[t] \in [phase : {"build", "apply", "route"}, env : ServiceId \X Target,
                       domains : SUBSET Domains]
        BY <1>1 DEF TypeOK
    <2>3. task' \in [Tasks -> [phase : {"build", "apply", "route"}, env : ServiceId \X Target,
                               domains : SUBSET Domains] \cup {NoTask}]
        BY <1>3, <2>2 DEF TypeOK
    <2> QED BY <1>3, <2>1, <2>3 DEF TypeOK, rowVars, Exists
<1>named. RunsUnderItsName'
    <2>1. former[running'[w].by[1]] # NoRow /\ WorkloadOf(running'[w].by) = w
        BY <1>2, <1>4 DEF w
    <2> QED BY <1>3, <1>4, <1>6, <2>1 DEF RunsUnderItsName, rowVars
<1>known. TaskIsKnown'
    BY <1>3, <1>5 DEF TaskIsKnown, rowVars
<1>wanted. TaskIsWanted'
    BY <1>3, <1>5, <1>8 DEF TaskIsWanted
<1>held. LoadedAreHeld'
    BY <1>5, <1>7 DEF LoadedAreHeld
<1>orphans. OrphansAreDisturbed'
    BY <1>3, <1>8 DEF OrphansAreDisturbed, rowVars
<1>teardown. TeardownToCome'
    <2>1. env \notin disturbed => IF env[2] = Production THEN Exists(env[1]) ELSE env \in open
        BY <1>1 DEF TaskIsWanted
    <2> QED BY <1>3, <1>4, <1>8, <2>1 DEF TeardownToCome
<1>domains. RoutesAreHeld'
    BY <1>3, <1>4, <1>6, <1>7 DEF RoutesAreHeld, rowVars
<1> QED BY <1>types, <1>named, <1>known, <1>wanted, <1>held, <1>orphans, <1>teardown, <1>domains
       DEF RoutingInv

(* The routes follow: of those a service has written before, under its own    *)
(* name, none is left, so what they alone brought is stale no more.           *)
LEMMA ApplyRoutesKeeps ==
    ASSUME RoutingInv, NEW t \in Tasks, ApplyRoutes(t)
    PROVE  RoutingInv'
<1> TypeOK /\ RunsUnderItsName /\ TaskIsKnown /\ TaskIsWanted
    BY DEF RoutingInv
<1> LoadedAreHeld /\ OrphansAreDisturbed /\ TeardownToCome /\ RoutesAreHeld
    BY DEF RoutingInv
<1> DEFINE env == task[t].env
           w == WorkloadOf(env)
<1>1. task[t] # NoTask /\ env \in ServiceId \X Target /\ task[t].domains \subseteq Domains
    BY TaskShape DEF ApplyRoutes
<1>2. w \in Workload /\ former[env[1]] # NoRow
    BY <1>1, WorkloadOfEnvironment DEF TaskIsKnown
<1>3. /\ running' = [running EXCEPT ![w].hosts = {Host(w)} \cup task[t].domains]
      /\ task' = [task EXCEPT ![t] = NoTask]
      /\ stale' = IF env[2] = Production THEN stale \ ({env[1]} \X Dropped(env[1])) ELSE stale
      /\ UNCHANGED <<rowVars, deploys, open, pending, clearing, disturbed, faults>>
    BY DEF ApplyRoutes
<1> HIDE DEF w
<1>4. /\ running'[w].hosts = {Host(w)} \cup task[t].domains
      /\ \A v \in Workload : v # w => running'[v] = running[v]
      /\ \A v \in Workload : running'[v].by = running[v].by
    BY <1>2, <1>3 DEF TypeOK
<1>5. /\ \A u \in Tasks : u # t => task'[u] = task[u]
      /\ task'[t] = NoTask /\ task'[t].domains = {}
    BY <1>3 DEF TypeOK, NoTask
<1>6. \A e : WorkloadOf(e)' = WorkloadOf(e)
    BY <1>3 DEF WorkloadOf, rowVars
<1>7. \A i : Exists(i)' = Exists(i)
    BY <1>3 DEF Exists, rowVars
<1>8. ASSUME NEW i \in ServiceId, NEW d \in Domains, Held(i, d),
             i # env[1] \/ env[2] # Production \/ d \notin Dropped(i)
      PROVE  holder[d] = i \/ <<i, d>> \in stale'
    BY <1>3, <1>8 DEF Held
<1>types. TypeOK'
    <2> DEFINE h == {Host(w)} \cup task[t].domains
    <2>1. h \in SUBSET (Name \cup Domains)
        BY <1>1, <1>2 DEF Host, Workload
    <2>2. running' = [running EXCEPT ![w].hosts = h]
        BY <1>3
    <2> HIDE DEF h
    <2>3. running' \in [Workload -> [by : (ServiceId \X Target) \cup {Nobody},
                                    hosts : SUBSET (Name \cup Domains)]]
        BY <1>2, <2>1, <2>2, RoutesWrite
    <2> QED BY <1>3, <2>3 DEF TypeOK, rowVars, Exists
<1>named. RunsUnderItsName'
    BY <1>3, <1>4, <1>6 DEF RunsUnderItsName, rowVars
<1>known. TaskIsKnown'
    BY <1>3, <1>5 DEF TaskIsKnown, rowVars
<1>wanted. TaskIsWanted'
    BY <1>3, <1>5, <1>7 DEF TaskIsWanted
<1>held. LoadedAreHeld'
    <2> SUFFICES ASSUME NEW u \in Tasks, NEW d \in task[u].domains, u # t
                 PROVE  /\ task[u].env[2] = Production
                        /\ holder[d] = task[u].env[1] \/ <<task[u].env[1], d>> \in stale'
        BY <1>3, <1>5 DEF LoadedAreHeld, Held, rowVars
    <2>1. d \in Domains /\ task[u].env[1] \in ServiceId
        BY TaskShape
    <2>2. d \notin Dropped(task[u].env[1])
        BY DEF Dropped
    <2> QED BY <1>8, <2>1, <2>2 DEF LoadedAreHeld
<1>orphans. OrphansAreDisturbed'
    BY <1>3, <1>7 DEF OrphansAreDisturbed, rowVars
<1>teardown. TeardownToCome'
    BY <1>3, <1>4, <1>7 DEF TeardownToCome
<1>domains. RoutesAreHeld'
    <2> SUFFICES ASSUME NEW v \in Workload, NEW d \in Domains, d \in running'[v].hosts, d # Host(v)
                 PROVE  \E i \in ServiceId :
                            /\ former[i] # NoRow /\ WorkloadOf(<<i, Production>>) = v
                            /\ holder[d] = i \/ <<i, d>> \in stale'
        BY <1>3, <1>6 DEF RoutesAreHeld, Held, rowVars
    <2>1. CASE v = w
        <3>1. d \in task[t].domains
            BY <1>4, <2>1
        <3>2. env[2] = Production /\ Held(env[1], d)
            BY <3>1 DEF LoadedAreHeld
        <3>3. d \notin Dropped(env[1])
            BY <3>1 DEF Dropped
        <3>4. env[1] \in ServiceId /\ (holder[d] = env[1] \/ <<env[1], d>> \in stale')
            BY <1>1, <1>8, <3>2, <3>3
        <3>5. WorkloadOf(<<env[1], Production>>) = v
            BY <1>1, <2>1, <3>2 DEF w, WorkloadOf
        <3> QED BY <1>2, <3>4, <3>5
    <2>2. CASE v # w
        <3>1. PICK i \in ServiceId :
                 former[i] # NoRow /\ WorkloadOf(<<i, Production>>) = v /\ Held(i, d)
            BY <1>4, <2>2 DEF RoutesAreHeld
        <3>2. i # env[1] \/ env[2] # Production
            BY <2>2, <3>1 DEF w, WorkloadOf
        <3> QED BY <1>8, <3>1, <3>2
    <2> QED BY <2>1, <2>2
<1> QED BY <1>types, <1>named, <1>known, <1>wanted, <1>held, <1>orphans, <1>teardown, <1>domains
       DEF RoutingInv

(* A teardown deletes the Deployment of a workload, and touches nothing that  *)
(* another runs or is routed by.                                              *)
LEMMA DeleteShape ==
    ASSUME TypeOK, NEW w \in Workload, Delete(w)
    PROVE  /\ running' \in [Workload -> [by : (ServiceId \X Target) \cup {Nobody},
                                         hosts : SUBSET (Name \cup Domains)]]
           /\ clearing' \subseteq Workload
           /\ running'[w].by = Nobody
           /\ \A v \in Workload : v # w => running'[v] = running[v]
           /\ \A v \in Workload : running'[v].hosts = running[v].hosts
BY DEF TypeOK, Delete

(* The preview of a closed pull request is torn down, if its row is there.    *)
LEMMA TeardownKeeps ==
    ASSUME RoutingInv, NEW i \in ServiceId, NEW n \in PRs, Teardown(i, n)
    PROVE  RoutingInv'
<1> TypeOK /\ RunsUnderItsName /\ TaskIsKnown /\ TaskIsWanted
    BY DEF RoutingInv
<1> LoadedAreHeld /\ OrphansAreDisturbed /\ TeardownToCome /\ RoutesAreHeld
    BY DEF RoutingInv
<1> DEFINE w == WorkloadOf(<<i, n>>)
<1>1. /\ pending' = pending \ {<<i, n>>}
      /\ UNCHANGED <<rowVars, deploys, open, task, stale, disturbed, faults>>
      /\ IF Exists(i) THEN Delete(w) ELSE UNCHANGED <<running, clearing>>
    BY DEF Teardown
<1>2. <<i, n>> \in ServiceId \X Target /\ n # Production
    BY DEF Target
<1>3. Exists(i) => w \in Workload
    BY <1>2, WorkloadOfEnvironment, RowsAreRows DEF TypeOK, Exists
<1> HIDE DEF w
<1>4. /\ running' \in [Workload -> [by : (ServiceId \X Target) \cup {Nobody},
                                   hosts : SUBSET (Name \cup Domains)]]
      /\ clearing' \subseteq Workload
      /\ \A v \in Workload : running'[v].hosts = running[v].hosts
      /\ \A v \in Workload : running'[v].by = Nobody \/ running'[v].by = running[v].by
      /\ Exists(i) => running'[w].by = Nobody
    <2>1. CASE Exists(i)
        BY <1>1, <1>3, <2>1, DeleteShape
    <2>2. CASE ~Exists(i)
        BY <1>1, <2>2 DEF TypeOK
    <2> QED BY <2>1, <2>2
<1>types. TypeOK'
    BY <1>1, <1>4 DEF TypeOK, rowVars, Exists
<1>named. RunsUnderItsName'
    BY <1>1, <1>4 DEF RunsUnderItsName, WorkloadOf, rowVars
<1>known. TaskIsKnown'
    BY <1>1 DEF rowVars, TaskIsKnown
<1>wanted. TaskIsWanted'
    BY <1>1 DEF rowVars, TaskIsWanted, Exists
<1>held. LoadedAreHeld'
    BY <1>1 DEF rowVars, LoadedAreHeld, Held
<1>orphans. OrphansAreDisturbed'
    BY <1>1 DEF rowVars, OrphansAreDisturbed, Exists
<1>teardown. TeardownToCome'
    <2> SUFFICES ASSUME NEW v \in Workload, running'[v].by # Nobody,
                        running[v].by \notin disturbed
                 PROVE  LET env == running[v].by IN
                        IF env[2] = Production
                        THEN Exists(env[1]) \/ v \in pending'
                        ELSE env \in open \/ env \in pending'
        BY <1>1, <1>4 DEF TeardownToCome, Exists, rowVars
    <2>1. running'[v].by = running[v].by /\ running[v].by # Nobody
        BY <1>4
    <2>2. running[v].by # <<i, n>>
        <3> SUFFICES ASSUME running[v].by = <<i, n>> PROVE FALSE
            OBVIOUS
        <3>1. former[i] # NoRow /\ w = v
            BY <2>1 DEF RunsUnderItsName, w
        <3>2. Exists(i)
            BY <3>1 DEF OrphansAreDisturbed
        <3> QED BY <1>4, <3>1, <3>2
    <2>3. v # <<i, n>>
        BY TeardownsDiffer
    <2> QED BY <1>1, <2>1, <2>2, <2>3 DEF TeardownToCome
<1>domains. RoutesAreHeld'
    <2>1. \A e : WorkloadOf(e)' = WorkloadOf(e)
        BY <1>1 DEF WorkloadOf, rowVars
    <2>2. \A j, d : Held(j, d)' = Held(j, d)
        BY <1>1 DEF Held, rowVars
    <2> QED BY <1>1, <1>4, <2>1, <2>2 DEF RoutesAreHeld, rowVars
<1> QED BY <1>types, <1>named, <1>known, <1>wanted, <1>held, <1>orphans, <1>teardown, <1>domains
       DEF RoutingInv

(* The production of a deleted project is torn down.                          *)
LEMMA ResourceTeardownKeeps ==
    ASSUME RoutingInv, NEW w \in Workload, ResourceTeardown(w)
    PROVE  RoutingInv'
<1> TypeOK /\ RunsUnderItsName /\ TaskIsKnown /\ TaskIsWanted
    BY DEF RoutingInv
<1> LoadedAreHeld /\ OrphansAreDisturbed /\ TeardownToCome /\ RoutesAreHeld
    BY DEF RoutingInv
<1>1. /\ pending' = pending \ {w} /\ Delete(w)
      /\ UNCHANGED <<rowVars, deploys, open, task, stale, disturbed, faults>>
    BY DEF ResourceTeardown
<1>2. /\ running'[w].by = Nobody
      /\ \A v \in Workload : v # w => running'[v] = running[v]
      /\ \A v \in Workload : running'[v].hosts = running[v].hosts
    BY <1>1, DeleteShape
<1>types. TypeOK'
    <2>1. /\ running' \in [Workload -> [by : (ServiceId \X Target) \cup {Nobody},
                                        hosts : SUBSET (Name \cup Domains)]]
          /\ clearing' \subseteq Workload
        BY <1>1, DeleteShape
    <2> QED BY <1>1, <2>1 DEF TypeOK, rowVars, Exists
<1>named. RunsUnderItsName'
    BY <1>1, <1>2 DEF rowVars, RunsUnderItsName, WorkloadOf
<1>known. TaskIsKnown'
    BY <1>1 DEF rowVars, TaskIsKnown
<1>wanted. TaskIsWanted'
    BY <1>1 DEF rowVars, TaskIsWanted, Exists
<1>held. LoadedAreHeld'
    BY <1>1 DEF rowVars, LoadedAreHeld, Held
<1>orphans. OrphansAreDisturbed'
    BY <1>1 DEF rowVars, OrphansAreDisturbed, Exists
<1>teardown. TeardownToCome'
    <2> SUFFICES ASSUME NEW v \in Workload, v # w, running[v].by # Nobody,
                        running[v].by \notin disturbed
                 PROVE  LET env == running[v].by IN
                        IF env[2] = Production
                        THEN Exists(env[1]) \/ v \in pending'
                        ELSE env \in open \/ env \in pending'
        BY <1>1, <1>2 DEF TeardownToCome, Exists, rowVars
    <2>1. running[v].by \in ServiceId \X Target
        BY RunShape
    <2>2. running[v].by = w => running[v].by[1] \in ServiceId /\ running[v].by[1] \in Orgs
        BY <2>1 DEF Workload
    <2>3. running[v].by # w
        BY <2>2 DEF ServiceId
    <2> QED BY <1>1, <2>3 DEF TeardownToCome
<1>domains. RoutesAreHeld'
    BY <1>1, <1>2 DEF RoutesAreHeld, Held, WorkloadOf, rowVars
<1> QED BY <1>types, <1>named, <1>known, <1>wanted, <1>held, <1>orphans, <1>teardown, <1>domains
       DEF RoutingInv

(* The teardown deletes the routes, or fails and leaves them.                 *)
LEMMA ClearingKeeps ==
    ASSUME RoutingInv, NEW w \in Workload, DeleteRoutes(w) \/ DeleteFails(w)
    PROVE  RoutingInv'
<1> TypeOK /\ RunsUnderItsName /\ TaskIsKnown /\ TaskIsWanted
    BY DEF RoutingInv
<1> LoadedAreHeld /\ OrphansAreDisturbed /\ TeardownToCome /\ RoutesAreHeld
    BY DEF RoutingInv
<1>1. UNCHANGED <<rowVars, deploys, open, task, pending, stale, disturbed>>
    BY DEF DeleteRoutes, DeleteFails
<1>2. /\ running' \in [Workload -> [by : (ServiceId \X Target) \cup {Nobody},
                                   hosts : SUBSET (Name \cup Domains)]]
      /\ \A v \in Workload : running'[v].by = running[v].by
      /\ \A v \in Workload : running'[v].hosts \subseteq running[v].hosts
    <2>1. CASE DeleteRoutes(w)
        <3>1. running' = [running EXCEPT ![w].hosts = {}]
            BY <2>1 DEF DeleteRoutes
        <3> QED BY <3>1, RoutesWrite
    <2>2. CASE DeleteFails(w)
        BY <2>2 DEF DeleteFails, TypeOK
    <2> QED BY <2>1, <2>2
<1>types. TypeOK'
    <2>1. clearing' \subseteq Workload /\ faults' \in 0..MaxFaults
        BY DEF DeleteRoutes, DeleteFails, Fault, TypeOK
    <2> QED BY <1>1, <1>2, <2>1 DEF TypeOK, rowVars, Exists
<1>named. RunsUnderItsName'
    BY <1>1, <1>2 DEF rowVars, RunsUnderItsName, WorkloadOf
<1>known. TaskIsKnown'
    BY <1>1 DEF rowVars, TaskIsKnown
<1>wanted. TaskIsWanted'
    BY <1>1 DEF rowVars, TaskIsWanted, Exists
<1>held. LoadedAreHeld'
    BY <1>1 DEF rowVars, LoadedAreHeld, Held
<1>orphans. OrphansAreDisturbed'
    BY <1>1 DEF rowVars, OrphansAreDisturbed, Exists
<1>teardown. TeardownToCome'
    BY <1>1, <1>2 DEF rowVars, TeardownToCome, Exists
<1>domains. RoutesAreHeld'
    BY <1>1, <1>2 DEF RoutesAreHeld, Held, WorkloadOf, rowVars
<1> QED BY <1>types, <1>named, <1>known, <1>wanted, <1>held, <1>orphans, <1>teardown, <1>domains
       DEF RoutingInv

(* A teardown is lost: what it was for is left alone.                         *)
LEMMA LoseTeardownKeeps ==
    ASSUME RoutingInv, NEW m \in pending, LoseTeardown(m)
    PROVE  RoutingInv'
<1> TypeOK /\ RunsUnderItsName /\ TaskIsKnown /\ TaskIsWanted
    BY DEF RoutingInv
<1> LoadedAreHeld /\ OrphansAreDisturbed /\ TeardownToCome /\ RoutesAreHeld
    BY DEF RoutingInv
<1>types. TypeOK'
    BY DEF LoseTeardown, Fault, rowVars, TypeOK, Exists
<1>named. RunsUnderItsName'
    BY RunShape DEF LoseTeardown, Fault, rowVars, RunsUnderItsName, WorkloadOf
<1>known. TaskIsKnown'
    BY TaskShape DEF LoseTeardown, Fault, rowVars, TaskIsKnown
<1>wanted. TaskIsWanted'
    BY TaskShape DEF LoseTeardown, Fault, rowVars, TaskIsWanted, Exists
<1>held. LoadedAreHeld'
    BY TaskShape DEF LoseTeardown, Fault, rowVars, LoadedAreHeld, Held
<1>orphans. OrphansAreDisturbed'
    BY DEF LoseTeardown, Fault, rowVars, OrphansAreDisturbed, Exists
<1>teardown. TeardownToCome'
    <2> SUFFICES ASSUME NEW w \in Workload, running[w].by # Nobody,
                        running[w].by \notin disturbed'
                 PROVE  LET env == running[w].by IN
                        IF env[2] = Production
                        THEN Exists(env[1]) \/ w \in pending'
                        ELSE env \in open \/ env \in pending'
        BY DEF LoseTeardown, TeardownToCome, Exists, rowVars
    <2>1. /\ running[w].by \in ServiceId \X Target /\ former[running[w].by[1]] # NoRow
          /\ WorkloadOf(running[w].by) = w
        BY RunShape DEF RunsUnderItsName
    <2>2. running[w].by # m /\ w # m /\ running[w].by \notin disturbed
        BY <2>1 DEF LoseTeardown
    <2>3. pending' = pending \ {m}
        BY DEF LoseTeardown
    <2> QED BY <2>2, <2>3 DEF TeardownToCome
<1>domains. RoutesAreHeld'
    BY RunShape DEF LoseTeardown, Fault, rowVars, RoutesAreHeld, Held, WorkloadOf
<1> QED BY <1>types, <1>named, <1>known, <1>wanted, <1>held, <1>orphans, <1>teardown, <1>domains
       DEF RoutingInv

LEMMA StutterKeeps == RoutingInv /\ UNCHANGED vars => RoutingInv'
<1> SUFFICES ASSUME RoutingInv, UNCHANGED vars PROVE RoutingInv'
    OBVIOUS
<1> USE DEF vars, rowVars
<1>1. TypeOK'
    BY DEF RoutingInv, TypeOK, Exists
<1>2. RunsUnderItsName' /\ RoutesAreHeld'
    BY DEF RoutingInv, RunsUnderItsName, WorkloadOf, RoutesAreHeld, Held, WorkloadOf
<1>3. TaskIsKnown' /\ TaskIsWanted' /\ LoadedAreHeld'
    BY DEF RoutingInv, TaskIsKnown, TaskIsWanted, LoadedAreHeld, Held, Exists
<1>4. OrphansAreDisturbed' /\ TeardownToCome'
    BY DEF RoutingInv, OrphansAreDisturbed, TeardownToCome, Exists
<1> QED BY <1>1, <1>2, <1>3, <1>4 DEF RoutingInv

LEMMA RoutingInit == Init => RoutingInv
<1> SUFFICES ASSUME Init PROVE RoutingInv
    OBVIOUS
<1>1. TypeOK
    BY NobodyIsNoEnvironment DEF Init, TypeOK, Exists, NoTask, NotRunning, ServiceId
<1>2. RunsUnderItsName /\ RoutesAreHeld /\ TeardownToCome
    BY DEF Init, RunsUnderItsName, RoutesAreHeld, TeardownToCome, NotRunning
<1>3. TaskIsKnown /\ TaskIsWanted /\ LoadedAreHeld
    BY DEF Init, TaskIsKnown, TaskIsWanted, LoadedAreHeld, NoTask
<1>4. OrphansAreDisturbed
    BY DEF Init, OrphansAreDisturbed
<1> QED BY <1>1, <1>2, <1>3, <1>4 DEF RoutingInv

LEMMA RoutingNext == RoutingInv /\ [Next]_vars => RoutingInv'
<1> SUFFICES ASSUME RoutingInv, [Next]_vars PROVE RoutingInv'
    OBVIOUS
<1>1. CASE UNCHANGED vars
    BY <1>1, StutterKeeps
<1>2. CASE ApiStep
    <2>1. ASSUME NEW o \in Orgs, NEW s \in Slug, CreateService(o, s) PROVE RoutingInv'
        BY <2>1, CreateServiceKeeps
    <2>2. ASSUME NEW i \in ServiceId, NEW d \in Domains,
                 AddCustomDomain(i, d) \/ DeleteCustomDomain(i, d)
          PROVE  RoutingInv'
        BY <2>2, AddCustomDomainKeeps, DeleteCustomDomainKeeps
    <2>3. ASSUME NEW t \in Tasks, NEW i \in ServiceId, EnqueueDeploy(t, i) PROVE RoutingInv'
        BY <2>3, EnqueueDeployKeeps
    <2>4. ASSUME NEW t \in Tasks, NEW i \in ServiceId, NEW n \in PRs, EnqueuePreview(t, i, n)
          PROVE  RoutingInv'
        BY <2>4, EnqueuePreviewKeeps
    <2>5. ASSUME NEW i \in ServiceId, NEW n \in PRs, ClosePullRequest(i, n) PROVE RoutingInv'
        BY <2>5, ClosePullRequestKeeps
    <2>6. ASSUME NEW i \in ServiceId, DeleteProject(i) PROVE RoutingInv'
        BY <2>6, DeleteProjectKeeps
    <2> QED BY <1>2, <2>1, <2>2, <2>3, <2>4, <2>5, <2>6 DEF ApiStep
<1>3. ASSUME NEW t \in Tasks, Load(t) \/ ApplyDeployment(t) \/ ApplyRoutes(t) \/ DeployFails(t)
      PROVE  RoutingInv'
    BY <1>3, LoadKeeps, ApplyDeploymentKeeps, ApplyRoutesKeeps, DeployFailsKeeps
<1>4. CASE TeardownStep
    BY <1>4, TeardownKeeps, ResourceTeardownKeeps, ClearingKeeps DEF TeardownStep
<1>5. ASSUME NEW m \in pending, LoseTeardown(m) PROVE RoutingInv'
    BY <1>5, LoseTeardownKeeps
<1> QED BY <1>1, <1>2, <1>3, <1>4, <1>5 DEF Next

------------------------------------------------------------------------------
(* The theorems.                                                              *)

(* The invariant holds in every state of every run of the API's handlers, the *)
(* webhooks and the controller's goroutines.                                  *)
THEOREM RoutingCorrect == Spec => []RoutingInv
<1>1. Init => RoutingInv
    BY RoutingInit
<1>2. RoutingInv /\ [Next]_vars => RoutingInv'
    BY RoutingNext
<1> QED BY <1>1, <1>2, PTL DEF Spec

(* Rows, domains, deploys, teardowns and routes have their types, a service   *)
(* is never reborn, and a domain never outlives the service it is attached to *)
(* (the cascades of DeleteProject).                                           *)
THEOREM RoutingTypes == Spec => []TypeOK
<1>1. RoutingInv => TypeOK
    BY DEF RoutingInv
<1> QED BY <1>1, RoutingCorrect, PTL

(* A custom domain is routed to production of the service it is attached to   *)
(* and to no other, however deploys that loaded it earlier, detachments,      *)
(* deletions and teardowns interleave or fail between the Deployment and the  *)
(* routes; and under a name that only this service has, it is the service     *)
(* that runs there, or nothing.                                               *)
THEOREM DomainsLeadHome == Spec => []DomainLeadsToHolder
<1>1. RoutingInv => DomainLeadsToHolder
    <2> SUFFICES ASSUME RoutingInv, NEW w \in Workload, NEW i \in ServiceId,
                        former[i] # NoRow, WorkloadOf(<<i, Production>>) = w, ~Shared(w)
                 PROVE  running[w].by \in {<<i, Production>>, Nobody}
        BY DEF RoutingInv, RoutesAreHeld, DomainLeadsToHolder
    <2> DEFINE e == <<i, Production>>
               f == running[w].by
    <2>1. e \in ServiceId \X Target /\ former[e[1]] # NoRow
        BY DEF Target
    <2>2. f # Nobody => f \in ServiceId \X Target /\ former[f[1]] # NoRow /\ WorkloadOf(f) = w
        BY RunShape DEF RoutingInv, RunsUnderItsName
    <2> QED BY <2>1, <2>2 DEF Shared
<1> QED BY <1>1, RoutingCorrect, PTL

(* Once the teardowns are through, the preview of a closed pull request and   *)
(* the production of a deleted project are gone, unless a deploy of theirs    *)
(* was under way or their teardown was lost.                                  *)
THEOREM ClosedGoesAway == Spec => []ClosedIsTornDown
<1>1. RoutingInv => ClosedIsTornDown
    BY DEF RoutingInv, TeardownToCome, ClosedIsTornDown
<1> QED BY <1>1, RoutingCorrect, PTL

(* What one environment runs under a name nobody else has is replaced by its  *)
(* own deploys only and removed by its own teardown only.                     *)
THEOREM LeftAlone == Spec => OthersLeaveItAlone
<1> DEFINE Change(w) ==
        running'[w] # running[w] /\ running[w].by # Nobody /\ ~Shared(w) =>
          \/ \E t \in Tasks : task[t].env = running[w].by /\ running'[w].by = running[w].by
          \/ running[w].by \in pending \/ w \in pending \/ w \in clearing
<1>1. RoutingInv /\ [Next]_vars => [\A w \in Workload : Change(w)]_vars
    <2> SUFFICES ASSUME RoutingInv, Next, NEW w \in Workload, running'[w] # running[w],
                        running[w].by # Nobody, ~Shared(w)
                 PROVE  \/ \E t \in Tasks : task[t].env = running[w].by
                                            /\ running'[w].by = running[w].by
                        \/ running[w].by \in pending \/ w \in pending \/ w \in clearing
        OBVIOUS
    <2> TypeOK /\ RunsUnderItsName /\ TaskIsKnown
        BY DEF RoutingInv
    <2>1. /\ running[w].by \in ServiceId \X Target /\ former[running[w].by[1]] # NoRow
          /\ WorkloadOf(running[w].by) = w
        BY RunShape DEF RunsUnderItsName
    <2>2. ASSUME NEW env \in ServiceId \X Target, former[env[1]] # NoRow, WorkloadOf(env) = w
          PROVE  env = running[w].by
        BY <2>1, <2>2 DEF Shared
    <2>3. ASSUME NEW t \in Tasks, ApplyDeployment(t) \/ ApplyRoutes(t)
          PROVE  task[t].env = running[w].by /\ running'[w].by = running[w].by
        <3> DEFINE env == task[t].env
        <3>1. env \in ServiceId \X Target /\ former[env[1]] # NoRow
            BY <2>3, TaskShape DEF ApplyDeployment, ApplyRoutes, TaskIsKnown
        <3>2. w = WorkloadOf(env) /\ (running'[w].by = env \/ running'[w].by = running[w].by)
            BY <2>3 DEF ApplyDeployment, ApplyRoutes, TypeOK
        <3> QED BY <2>2, <3>1, <3>2
    <2>4. ASSUME NEW i \in ServiceId, NEW n \in PRs, Teardown(i, n)
          PROVE  running[w].by \in pending
        <3>1. Exists(i) /\ <<i, n>> \in pending
            BY <2>4 DEF Teardown
        <3>2. w = WorkloadOf(<<i, n>>)
            BY <2>4, <3>1 DEF Teardown, Delete, TypeOK
        <3>3. <<i, n>> \in ServiceId \X Target /\ former[<<i, n>>[1]] # NoRow
            BY <3>1 DEF Target, TypeOK, Exists
        <3> QED BY <2>2, <3>1, <3>2, <3>3
    <2>5. ASSUME NEW v \in Workload, ResourceTeardown(v) \/ DeleteRoutes(v) \/ DeleteFails(v)
          PROVE  w \in pending \/ w \in clearing
        BY <2>5 DEF ResourceTeardown, DeleteRoutes, DeleteFails, Delete, TypeOK
    <2>6. CASE ApiStep
        BY <2>6 DEF ApiStep, CreateService, AddCustomDomain, DeleteCustomDomain, EnqueueDeploy,
                    EnqueuePreview, ClosePullRequest, DeleteProject
    <2>7. ASSUME NEW t \in Tasks, Load(t) \/ DeployFails(t) PROVE FALSE
        BY <2>7 DEF Load, DeployFails
    <2>8. ASSUME NEW m \in pending, LoseTeardown(m) PROVE FALSE
        BY <2>8 DEF LoseTeardown
    <2> QED BY <2>3, <2>4, <2>5, <2>6, <2>7, <2>8 DEF Next, TeardownStep
<1> QED BY <1>1, RoutingCorrect, PTL DEF Spec, OthersLeaveItAlone

==============================================================================
