------------------------------- MODULE Routing -------------------------------
(* Who is reached under which name: production and preview environments of    *)
(* the services of several orgs, named by internal/naming and routed by       *)
(* internal/k8s, the custom domains attached to services                      *)
(* (internal/api/domain_handlers.go, internal/store/domains.go), and the      *)
(* events that bring environments up and take them down: deploys, pull        *)
(* requests (internal/api/webhook_handlers.go), deleted projects              *)
(* (internal/api/resource_handlers.go) and the goroutines of the controller   *)
(* that act on them (internal/controller/processor.go).                       *)
(*                                                                            *)
(* Names are sequences of words.  Services are web services, one in each      *)
(* project, and the objects of a workload count as one: WorkloadObjects is    *)
(* about their number and order, DeployPipeline about deploys and statuses.   *)
EXTENDS Naturals, Sequences, TLC

CONSTANTS
    Orgs,
    Words,        \* what services are called
    PRs,          \* pull request numbers
    Domains,      \* custom domains
    Tasks,        \* deploys that may be under way at a time
    Production,   \* the target that is no pull request
    MaxServices,  \* bound: services ever created
    MaxDeploys,   \* bound: deploys ever requested
    MaxFaults     \* bound: lost and failed teardowns

ASSUME RoutingAssumption ==
    /\ Production \notin PRs
    /\ Orgs \cap (1..MaxServices) = {}     \* a service is not an org
    /\ MaxServices \in Nat /\ MaxDeploys \in Nat /\ MaxFaults \in Nat

ServiceId == 1..MaxServices
Target == PRs \cup {Production}

(* A service may well be called "web", or "web PR 1".                         *)
Slug == {<<w>> : w \in Words} \cup {<<w, "pr", n>> : w \in Words, n \in PRs}

WorkloadName(slug, target) ==
    IF target = Production THEN slug ELSE slug \o <<"pr", target>>

Name == {WorkloadName(s, t) : s \in Slug, t \in Target}

(* A workload is named in the namespace of its org.  Its default host does    *)
(* not hold the namespace.                                                    *)
Workload == Orgs \X Name

Host(w) == w[2]

NoRow == <<>>
Nobody == <<0, Production>>
NotRunning == [by |-> Nobody, hosts |-> {}]
NoTask == [phase |-> "none", env |-> Nobody, domains |-> {}]

VARIABLES
    service,      \* [ServiceId -> <<org, slug>> or NoRow]
    nextId,       \* the id the next service gets
    former,       \* [ServiceId -> the <<org, slug>> it has or had, or NoRow]
    holder,       \* [Domains -> the service it is attached to, or 0]
    open,         \* the <<service, pull request>> with an open pull request
    task,         \* [Tasks -> a deploy: what it is up to, its environment <<service,
                  \*           target>> and the domains it has loaded]
    deploys,      \* the number of deploys requested
    pending,      \* teardowns notified: <<service, pull request>> or a Workload
    running,      \* [Workload -> the environment its Deployment runs, or Nobody, and
                  \*              the hosts of its routes]
    clearing,     \* workloads whose teardown has yet to delete the routes
    stale,        \* history: <<service, domain>> removed since the last deploy
    disturbed,    \* history: environments deployed while they were taken down, or
                  \*          whose teardown got lost
    faults

rowVars == <<service, nextId, former, holder>>
vars == <<rowVars, open, task, deploys, pending, running, clearing, stale,
          disturbed, faults>>

Init ==
    /\ service = [i \in ServiceId |-> NoRow] /\ nextId = 1
    /\ former = [i \in ServiceId |-> NoRow]
    /\ holder = [d \in Domains |-> 0]
    /\ open = {}
    /\ task = [t \in Tasks |-> NoTask]
    /\ deploys = 0 /\ pending = {}
    /\ running = [w \in Workload |-> NotRunning]
    /\ clearing = {} /\ stale = {} /\ disturbed = {}
    /\ faults = 0

Exists(i) == service[i] # NoRow

WorkloadOf(env) == <<former[env[1]][1], WorkloadName(former[env[1]][2], env[2])>>

DomainsOf(i) == {d \in Domains : holder[d] = i}

InFlight(env) == \E t \in Tasks : task[t].env = env

Fault == faults < MaxFaults /\ faults' = faults + 1

------------------------------------------------------------------------------
(* The API.                                                                   *)

CreateService(o, s) ==
    /\ nextId <= MaxServices
    /\ service' = [service EXCEPT ![nextId] = <<o, s>>]
    /\ former' = [former EXCEPT ![nextId] = <<o, s>>]
    /\ nextId' = nextId + 1
    /\ UNCHANGED <<holder, deploys, open, task, pending, running, clearing, stale,
                   disturbed, faults>>

(* A domain is attached once, to whichever service asks first; nothing is     *)
(* deployed.                                                                  *)
AddCustomDomain(i, d) ==
    /\ Exists(i) /\ holder[d] = 0
    /\ holder' = [holder EXCEPT ![d] = i]
    /\ UNCHANGED <<service, nextId, former, deploys, open, task, pending, running,
                   clearing, stale, disturbed, faults>>

DeleteCustomDomain(i, d) ==
    /\ Exists(i) /\ holder[d] = i
    /\ holder' = [holder EXCEPT ![d] = 0]
    /\ stale' = stale \cup {<<i, d>>}
    /\ UNCHANGED <<service, nextId, former, deploys, open, task, pending, running,
                   clearing, disturbed, faults>>

Enqueue(t, env) ==
    /\ Exists(env[1]) /\ task[t] = NoTask /\ deploys < MaxDeploys
    /\ deploys' = deploys + 1
    /\ task' = [task EXCEPT ![t] = [phase |-> "build", env |-> env, domains |-> {}]]

EnqueueDeploy(t, i) ==
    /\ Enqueue(t, <<i, Production>>)
    /\ UNCHANGED <<rowVars, open, pending, running, clearing, stale, disturbed, faults>>

(* handlePullRequest, opened, synchronized or reopened, for one of the        *)
(* services of the repository ...                                             *)
EnqueuePreview(t, i, n) ==
    /\ Enqueue(t, <<i, n>>)
    /\ open' = open \cup {<<i, n>>}
    /\ disturbed' = IF <<i, n>> \in pending THEN disturbed \cup {<<i, n>>} ELSE disturbed
    /\ UNCHANGED <<rowVars, pending, running, clearing, stale, faults>>

(* Mutant: nobody is told.                                                    *)
CloseUnnoticed(i, n) ==
    /\ Exists(i) /\ <<i, n>> \in open
    /\ open' = open \ {<<i, n>>}
    /\ UNCHANGED <<rowVars, deploys, task, pending, running, clearing, stale, disturbed,
                   faults>>

(* ... and closed: a deploy of the preview that is under way goes on.         *)
ClosePullRequest(i, n) ==
    /\ Exists(i) /\ <<i, n>> \in open
    /\ open' = open \ {<<i, n>>}
    /\ pending' = pending \cup {<<i, n>>}
    /\ disturbed' = IF InFlight(<<i, n>>) THEN disturbed \cup {<<i, n>>} ELSE disturbed
    /\ UNCHANGED <<rowVars, deploys, task, running, clearing, stale, faults>>

(* Mutant: the domains stay.                                                  *)
DeleteWithoutCascade(i) ==
    /\ Exists(i)
    /\ service' = [service EXCEPT ![i] = NoRow]
    /\ pending' = pending \cup {WorkloadOf(<<i, Production>>)}
    /\ open' = open \ ({i} \X PRs)
    /\ UNCHANGED <<nextId, former, deploys, holder, task, running, clearing, stale,
                   disturbed, faults>>

(* The row goes, its domains with it, and the teardown of production is       *)
(* notified.  Previews are not, and their own teardown will find no row.      *)
DeleteProject(i) ==
    /\ Exists(i)
    /\ service' = [service EXCEPT ![i] = NoRow]
    /\ holder' = [d \in Domains |-> IF holder[d] = i THEN 0 ELSE holder[d]]
    /\ stale' = stale \cup {<<i, d>> : d \in DomainsOf(i)}
    /\ pending' = pending \cup {WorkloadOf(<<i, Production>>)}
    /\ open' = open \ ({i} \X PRs)
    /\ disturbed' = disturbed \cup {env \in {i} \X Target : InFlight(env) \/ env[2] # Production}
    /\ UNCHANGED <<nextId, former, deploys, task, running, clearing, faults>>

------------------------------------------------------------------------------
(* The controller.                                                            *)

(* reconcile loads the row and, for production only, the domains.             *)
Load(t) ==
    LET env == task[t].env IN
    /\ task[t].phase = "build"
    /\ task' = [task EXCEPT ![t] =
          IF Exists(env[1])
          THEN [phase |-> "apply", env |-> env,
                domains |-> IF env[2] = Production THEN DomainsOf(env[1]) ELSE {}]
          ELSE NoTask]
    /\ UNCHANGED <<rowVars, deploys, open, pending, running, clearing, stale, disturbed,
                   faults>>

(* The build fails, or a call of the deploy does: before it changes anything, *)
(* or with its Deployment written and its routes not.                         *)
DeployFails(t) ==
    /\ task[t] # NoTask
    /\ task' = [task EXCEPT ![t] = NoTask]
    /\ UNCHANGED <<rowVars, deploys, open, pending, running, clearing, stale, disturbed,
                   faults>>

(* Apply makes the Deployment of the name run this deploy ...                 *)
ApplyDeployment(t) ==
    /\ task[t].phase = "apply"
    /\ running' = [running EXCEPT ![WorkloadOf(task[t].env)].by = task[t].env]
    /\ task' = [task EXCEPT ![t].phase = "route"]
    /\ UNCHANGED <<rowVars, deploys, open, pending, clearing, stale, disturbed, faults>>

(* Domains that no deploy of i brings back.                                   *)
Dropped(i) == {d \in Domains : \A t \in Tasks : task[t].env[1] = i => d \notin task[t].domains}

(* Mutant: the hosts of a route are added to, never removed.                  *)
ApplyMoreHosts(t) ==
    LET env == task[t].env  w == WorkloadOf(env) IN
    /\ task[t].phase = "route"
    /\ running' = [running EXCEPT ![w].hosts = @ \cup {Host(w)} \cup task[t].domains]
    /\ stale' = IF env[2] = Production THEN stale \ ({env[1]} \X Dropped(env[1])) ELSE stale
    /\ task' = [task EXCEPT ![t] = NoTask]
    /\ UNCHANGED <<rowVars, deploys, open, pending, clearing, disturbed, faults>>

(* ... and then writes the routes to it: the default host and the domains as  *)
(* they were loaded, whether the rollout completes or not.  By then the       *)
(* Deployment may be another's, or gone.                                      *)
ApplyRoutes(t) ==
    LET env == task[t].env  w == WorkloadOf(env) IN
    /\ task[t].phase = "route"
    /\ running' = [running EXCEPT ![w].hosts = {Host(w)} \cup task[t].domains]
    /\ stale' = IF env[2] = Production THEN stale \ ({env[1]} \X Dropped(env[1])) ELSE stale
    /\ task' = [task EXCEPT ![t] = NoTask]
    /\ UNCHANGED <<rowVars, deploys, open, pending, clearing, disturbed, faults>>

(* Delete takes the Deployment first ...                                      *)
Delete(w) ==
    /\ running' = [running EXCEPT ![w].by = Nobody]
    /\ clearing' = clearing \cup {w}

(* Mutant: all that is labelled with the slug is deleted.                     *)
TeardownAll(i, n) ==
    /\ <<i, n>> \in pending
    /\ pending' = pending \ {<<i, n>>}
    /\ running' = [w \in Workload |-> IF running[w].by[1] = i THEN NotRunning ELSE running[w]]
    /\ UNCHANGED <<rowVars, deploys, open, task, clearing, stale, disturbed, faults>>

(* teardown needs the row for the name.                                       *)
Teardown(i, n) ==
    /\ <<i, n>> \in pending
    /\ pending' = pending \ {<<i, n>>}
    /\ IF Exists(i) THEN Delete(WorkloadOf(<<i, n>>)) ELSE UNCHANGED <<running, clearing>>
    /\ UNCHANGED <<rowVars, deploys, open, task, stale, disturbed, faults>>

(* resourceTeardown has the name in its payload.                              *)
ResourceTeardown(w) ==
    /\ w \in pending
    /\ pending' = pending \ {w}
    /\ Delete(w)
    /\ UNCHANGED <<rowVars, deploys, open, task, stale, disturbed, faults>>

(* ... and the routes later ...                                               *)
DeleteRoutes(w) ==
    /\ w \in clearing
    /\ clearing' = clearing \ {w}
    /\ running' = [running EXCEPT ![w].hosts = {}]
    /\ UNCHANGED <<rowVars, deploys, open, task, pending, stale, disturbed, faults>>

(* ... unless a call in between fails.                                        *)
DeleteFails(w) ==
    /\ w \in clearing
    /\ Fault
    /\ clearing' = clearing \ {w}
    /\ UNCHANGED <<rowVars, deploys, open, task, pending, running, stale, disturbed>>

(* A notification is lost or its teardown fails at once: it is not tried      *)
(* again.                                                                     *)
LoseTeardown(m) ==
    /\ m \in pending
    /\ Fault
    /\ pending' = pending \ {m}
    /\ disturbed' = disturbed \cup
          {env \in ServiceId \X Target : env = m \/ (former[env[1]] # NoRow /\ WorkloadOf(env) = m)}
    /\ UNCHANGED <<rowVars, deploys, open, task, running, clearing, stale>>

ApiStep ==
    \/ \E o \in Orgs, s \in Slug : CreateService(o, s)
    \/ \E i \in ServiceId, d \in Domains : AddCustomDomain(i, d) \/ DeleteCustomDomain(i, d)
    \/ \E t \in Tasks, i \in ServiceId :
          EnqueueDeploy(t, i) \/ \E n \in PRs : EnqueuePreview(t, i, n)
    \/ \E i \in ServiceId, n \in PRs : ClosePullRequest(i, n)
    \/ \E i \in ServiceId : DeleteProject(i)

TeardownStep ==
    \/ \E i \in ServiceId, n \in PRs : Teardown(i, n)
    \/ \E w \in Workload : ResourceTeardown(w) \/ DeleteRoutes(w) \/ DeleteFails(w)

Next ==
    \/ ApiStep
    \/ \E t \in Tasks : Load(t) \/ ApplyDeployment(t) \/ ApplyRoutes(t) \/ DeployFails(t)
    \/ TeardownStep
    \/ \E m \in pending : LoseTeardown(m)

Spec == Init /\ [][Next]_vars

(* Deploys are alike, and so are orgs.                                        *)
Symmetry == Permutations(Tasks) \cup Permutations(Orgs)

------------------------------------------------------------------------------
(* Properties.                                                                *)

(* Every variable has its type; a service is never reborn, and what belongs   *)
(* to it - its domains, its open pull requests - goes with it.                *)
TypeOK ==
    /\ service \in [ServiceId -> (Orgs \X Slug) \cup {NoRow}]
    /\ former \in [ServiceId -> (Orgs \X Slug) \cup {NoRow}]
    /\ nextId \in 1..(MaxServices + 1)
    /\ \A i \in ServiceId : /\ former[i] # NoRow <=> i < nextId
                            /\ Exists(i) => former[i] = service[i]
    /\ holder \in [Domains -> ServiceId \cup {0}]
    /\ \A d \in Domains : holder[d] # 0 => Exists(holder[d])
    /\ open \subseteq {i \in ServiceId : Exists(i)} \X PRs
    /\ task \in [Tasks -> [phase : {"build", "apply", "route"}, env : ServiceId \X Target,
                           domains : SUBSET Domains] \cup {NoTask}]
    /\ pending \subseteq (ServiceId \X PRs) \cup Workload
    /\ running \in [Workload -> [by : (ServiceId \X Target) \cup {Nobody},
                                 hosts : SUBSET (Name \cup Domains)]]
    /\ clearing \subseteq Workload
    /\ stale \subseteq ServiceId \X Domains
    /\ disturbed \subseteq ServiceId \X Target
    /\ deploys \in 0..MaxDeploys /\ faults \in 0..MaxFaults

(* Two environments share a workload.  "Preview deploys are suffixed with the *)
(* pull request number so they live alongside production without colliding"   *)
(* (naming.go): not if a service is called like the preview of another, and   *)
(* two projects may each have a service of the same name.                     *)
Shared(w) ==
    \E e, f \in {env \in ServiceId \X Target : former[env[1]] # NoRow} :
        e # f /\ WorkloadOf(e) = w /\ WorkloadOf(f) = w

(* "torn down when the PR closes" (README.md): the preview of a closed pull   *)
(* request is gone, and so is the production of a deleted project, once their *)
(* teardown is through, unless one of their deploys was under way or the      *)
(* teardown got lost.  Previews of a deleted project are not torn down.       *)
ClosedIsTornDown ==
    \A w \in Workload : LET env == running[w].by IN
        env # Nobody /\ env \notin disturbed /\ pending = {} =>
            IF env[2] = Production THEN Exists(env[1]) ELSE env \in open

(* The domain is attached to service i, or was, and no deploy of i has        *)
(* dropped it since.                                                          *)
Held(i, d) == holder[d] = i \/ <<i, d>> \in stale

(* A custom domain is routed to production of the service it is attached to   *)
(* ("Custom domains only apply to production deploys", reconcile), and to no  *)
(* other: also after it was moved from one service to another, once the       *)
(* former has been deployed again without an older deploy still to come, and  *)
(* whatever deploys and teardowns come between a Deployment and its routes or *)
(* fail there.  What runs there is that service, if anything does, unless the *)
(* name is shared: of two such deploys at a time one may write the Deployment *)
(* last and the other the routes, and then the domain of one leads to the     *)
(* other for good.  (Nothing keeps a service from attaching the default host  *)
(* of a workload, which also leads where it always did.)                      *)
DomainLeadsToHolder ==
    \A w \in Workload, d \in Domains : d \in running[w].hosts /\ d # Host(w) =>
        \E i \in ServiceId :
            /\ former[i] # NoRow /\ WorkloadOf(<<i, Production>>) = w
            /\ Held(i, d)
            /\ running[w].by \in {<<i, Production>>, Nobody} \/ Shared(w)

(* What is deployed under a name nobody else has is replaced by deploys of    *)
(* its own environment only, and goes away only when its pull request was     *)
(* closed or its project deleted: no other pull request, project or org       *)
(* touches it.                                                                *)
OthersLeaveItAlone ==
    [][\A w \in Workload : running'[w] # running[w] /\ running[w].by # Nobody /\ ~Shared(w) =>
          \/ \E t \in Tasks : task[t].env = running[w].by /\ running'[w].by = running[w].by
          \/ running[w].by \in pending \/ w \in pending \/ w \in clearing]_vars

==============================================================================
