# Uran API: a TLA+ verification project

Uran is a small deployment platform: an API, a builder and a controller share
one Postgres and coordinate over `LISTEN`/`NOTIFY` (`src/README.md:53`).  The
hard part of the code is what happens *between* those processes: rows written
by one and read by another, notifications nobody may be listening for, one
goroutine per notification without ordering, several statements without a
transaction.  That is what the modules here model, check and prove.

## 1. Inventory

| Part | State it keeps | Operations | Talks to |
|---|---|---|---|
| deploy state machine (`internal/deploy`) | – | `CanTransition`, `IsTerminal` | store |
| store: deploys, builds (`internal/store/deploys.go`, `builds.go`) | `deploys`, `builds` rows | create, claim, update status, set image, start and finish build | Postgres |
| event bus (`internal/store/events.go`) | sessions that listen | `Notify`, `Listen` | API → builder, controller |
| builder (`internal/builder`, `cmd/builder`) | one goroutine per deploy | sweep, listen, build, hand over | store, bus, registry |
| controller (`internal/controller`, `cmd/controller`) | one goroutine per notification, the autoscaler loop | reconcile, teardown, provision, autoscale, sample usage | store, bus, Kubernetes |
| Kubernetes reconciler (`internal/k8s`) | cluster objects | `Apply`, `Delete`, `ProvisionPostgres`, `ReconcilePgBouncer`, … | cluster |
| API: deploys, webhooks, settings (`internal/api`) | – | manual deploy, push, pull request, image deploy, rollback, scale, health, disk, suspend | store, bus |
| API: databases, backups | `databases` rows | create, scale, delete, backup | store, bus |
| API: members (`internal/api/member_handlers.go`, `internal/rbac`) | `org_members` rows | add, set role, remove | store |
| API: orgs, projects, services | rows and their cascades | create, rename, delete | store, bus |
| log streaming (`internal/builder/logwriter.go`, `internal/api/logstream_handlers.go`, `cmd/uran/logs.go`) | the `logs` column, an offset per stream | append, poll, print | builder → store → API → client |
| custom domains, naming (`internal/api/domain_handlers.go`, `internal/naming`) | `custom_domains` rows; names and hosts of workloads | attach, detach; name a workload, a preview, a cluster | store, Kubernetes |
| auth, tokens, audit, usage, registries, GitHub OAuth | rows | single-statement operations | store |
| builds (`internal/build`), CLI (`cmd/uran`) | – | run git, Nixpacks, docker; call the API | external |

What makes these parts correct:

* **Deploy pipeline.**  A deploy is built once, whoever hears of it; its row
  stays on the status machine although `UpdateDeployStatus` reads and writes in
  two statements; nothing runs that was not pushed; a workload runs a deploy
  made for it; a delivered deploy reaches an outcome.
* **Managed databases.**  A ready row has a cluster and the endpoints it
  advertises, and its backups; the autoscaler stays within the bounds; a
  delivered request leaves `creating`; a deleted database is gone.
* **Workload objects.**  Nothing runs without its policies or its Secret; a live
  deploy has just the objects its settings call for; what is deleted leaves
  nothing, and takes nothing else with it.
* **Names and routes.**  The preview of a closed pull request and the production
  of a deleted project are torn down; a custom domain leads to the service that
  holds it; nobody touches what another pull request, project or org runs.
* **Log streams.**  Every reader gets the log from its start, in order and without
  gaps, and is told its end when it has all of it; the streams of a build that
  ends, end.
* **Members.**  An org keeps an owner; power is granted by owners only.

What is hard: the interleaving of sweep, notification and restarts; lost
notifications; a claim or a hand-over cut in half by a failing statement or a
dying process; reconciles of the same workload in either order; rows loaded
long before they are applied; teardowns that overtake what they tear down;
guards that count in one statement and write in another.  `PROJECT.json` lists
each of these hazards at its line with the properties that watch it.

## 2. Modules

| Module | Models |
|---|---|
| `DeployState` | statuses, transitions, images (`internal/deploy/state.go`) |
| `DeployLifecycle` | abstract specification: what the pipeline promises about the deploys table |
| `EventBus` | `LISTEN`/`NOTIFY` without backlog, and the budget of failures |
| `DeployStore` | the statements on the deploys and builds tables |
| `Builder` | the builder process: sweep, listen, `process` statement by statement |
| `Controller` | the controller process: `reconcile` and `teardown`, and the cluster |
| `DeployPipeline` | composition of the above with the API handlers; properties |
| `MCDeployPipeline` | the pipeline with a record of contended targets, and what holds for the others |
| `DeployPipelineProofs` | inductive invariant, safety theorems, refinement |
| `MCDeployPipelineProofs` | theorems about targets without contention |
| `ManagedDatabase` | databases: API handlers, backups, provisioning goroutines, autoscaler, deletion alone or with the project |
| `ManagedDatabaseProofs` | its inductive invariant and safety theorems |
| `WorkloadObjects` | `Apply` and `Delete` object by object, deletion of projects and of the org, resource teardowns |
| `WorkloadObjectsProofs` | its inductive invariant, safety theorems and action property |
| `Routing` | names and hosts of production and preview environments, custom domains, the teardowns that go by those names |
| `RoutingProofs` | its inductive invariant, safety theorems and action property |
| `LogDelivery` | abstract specification: what a log stream promises its readers |
| `LogStream` | a build's log from the commands' output to the client's terminal, shown to implement `LogDelivery` |
| `LogStreamProofs` | what a stream does to text, the inductive invariant, the refinement |
| `OrgMembership` | members and roles of an org |
| `MCOrgMembership` | the members with a record of overlapping requests, and what holds without them |
| `OrgMembershipProofs` | its inductive invariant, safety theorems and action properties |

**State and code.**  A row is a function from ids to column values; only columns
some property tells apart are kept.  A goroutine is a program counter (`bpc` for
the builder's `process`, `cpc` for `reconcile`, `pc` in the other modules) whose
value names the statement it executes next.  A single SQL statement, or the
write of one cluster object, is atomic; where a module takes several writes as one
it says so below.  Loads that read only
immutable columns are merged with the next statement.  A statement that errors
is taken as not applied.  `UpdateDeployStatus` is two steps (`CheckStatus`, then
an unguarded write) as in the code; `ClaimQueuedDeploy` is one, because the SQL
is one guarded `UPDATE`.

**API handlers.**  A handler that commits a row and then notifies is two
actions, with the notification waiting in `outbox` in between; it may be lost
there.  `prOpen` records which pull requests are open and is read by properties
only.  A settings change is a version number per service; `applying` holds the
requests between the stored change, the look-up of the latest image and the new
row.

**Databases.**  A request is followed from its handler into the goroutine its
notification starts.  `asked` and `doomed` record what users asked for and are
read by properties only.  The autoscaler's CPU reading and its cooldown are free
choices: it may scale by one within the bounds of the row it listed, or skip.  The
deletion of a project lists its databases, deletes the rows with the project and
then publishes one teardown after the other, each from what was listed.  The
objects of a Redis count as one.  `DeletePostgres` deletes the pooler and then the
cluster; the model does both in one step, or only the first when it fails.  What a
provisioning goroutine does between the two calls comes to the same: it writes the
cluster first, which might as well happen before both, and then the pooler, which
might as well happen after both.  Several goroutines one after the other between the
two calls are not followed; the properties except a teardown so overlapped.

**Workload objects.**  A goroutine is the list of objects it has left to write,
which is what `Apply` and `Delete` come to for a given spec; each step writes one,
or waits for the rollout.  The namespace goes through Kubernetes' terminating
phase, and cert-manager writes TLS Secrets on its own; both are external.  The
quota, limits and network policies count as one object, and so do the Service and
its two routes: they are written one after the other and deleted alike.  `live`
remembers the spec last reported live.

**Routing.**  Names are sequences of words, so that `web` in pull request 1 and a
service called `web PR 1` come to the same name, as they do in `internal/naming`.
`former` keeps the org and slug of deleted services, which the payload of their
teardown carries.  A deploy is a task that is built and then loads the row and the
domains and applies them: what is deployed is in `DeployPipeline`, what objects it
has in `WorkloadObjects`.  Two of the objects are told apart: the Deployment
(`running[w].by`, whose deploy it runs) and the routes (`running[w].hosts`).  `Apply`
writes the first and then the second, `Delete` deletes them in the same order, with
other goroutines in between, and either may stop there.  The disk and the autoscaler
go with the Deployment; the Certificate, the Service and the two routes, which have
one set of hosts, count as one.  `clearing` holds the workloads whose teardown has
deleted the Deployment and not yet the routes.  `open` records open pull requests.

**Log streams.**  A log is a sequence of newlines and of pieces of text, each known
by its place, so that a lost, repeated or misplaced piece shows.  `writeSSE` is
modelled by what it does to a chunk: newlines at its end are cut off and every line
is printed as one.  The refinement maps the log to its text, the build to
`"complete"` if its status is terminal, and a reader to the text it has printed.

**Failures.**  Every failing statement and every death of a process is taken
from one budget, `MaxFaults`.  Rollouts that time out, builds that fail and
clusters that do not get ready are outcomes of the code's own waits and cost
nothing.

**Contention.**  The code orders neither two deploys of one target, nor two
requests about one database, nor two requests about one org's members.  Some
guarantees therefore hold only as long as such activities do not overlap.  The
two `MC` modules add a history variable `raced` that remembers where they did;
`WorkloadObjects`, `ManagedDatabase` and `Routing` have `disturbed`, which also
remembers lost teardowns, and `Routing` has `stale`, the domains a service has lost
since its last deploy.  The properties except those targets, databases, workloads,
environments or the org, and nothing else.

**Mutants.**  Definitions introduced by "Mutant:" are wrong variants of the
definition below them, kept to show that the properties notice.

## 3. Runs

Passing runs (each property is also shown to fail for a plausible bug):

| Run | Bounds | Shows |
|---|---|---|
| `workers` | 2 builders, 1 deploy, 1 prebuilt image, 1 settings change, 1 failure, fairness | types; one owner per deploy; build and deploy rows agree; rows follow the lifecycle; a deploy somebody attends to is not dropped; delivered deploys end; a restart's sweep recovers queued ones |
| `workloads` | 1 builder, 2 deploys, 1 pull request, 1 prebuilt image | images exist; a workload runs a deploy made for it |
| `settings` | 1 builder, 2 deploys, 1 prebuilt image, 1 settings change, 1 failure | without contention a workload does not fall back behind the newest live deploy, and ends with the current settings |
| `db_serving` | 2 PostgreSQL rows on one slug, both tiers, pooling and backups, 3 requests, up to 2 instances | types; a ready row is served as advertised and, without contention, has its size; the autoscaler keeps its bounds; what is deleted is gone |
| `db_progress` | 2 rows, both engines and tiers, with and without options, 2 requests, 1 failure, fairness | what is ready is served and what is deleted is gone in spite of a failure; what is being provisioned is not dropped; a delivered request leaves `creating` |
| `objects` | 2 goroutines, 2 projects, 2 web services on one slug, with autoscaling and with or without a disk, 1 failure | types; policies and Secrets precede what runs; a live deploy has just its objects; what is deleted is gone, and takes nothing from another project |
| `routing` | 2 services with one word and one pull request number for names, 1 org, 1 domain, 2 deploys, 1 lost or half-done teardown | types; what is closed is torn down; a domain leads to its holder; others leave an environment alone |
| `log_stream` | 2 readers, chunks of up to 2 pieces, 4 pieces and the failure message, 1 failure, fairness | types; the streams implement `LogDelivery`; they end with the build |
| `org_roles` | 3 users, 2 requests at a time, 1 failure | types; admins and owners are made by owners only; without contention the org keeps an owner and owners are demoted by owners |

Two deploys or rows on one target are what a race needs, one failure in each
place is what a partial failure needs, two deploys are what it takes for a domain to
be routed and dropped, or brought back by the older of them, four pieces of log are two chunks
of any shape with a poll between and around them, and handlers are slots that are
reused, so that sequences of requests have any length in `OrgMembership`.  The
other counters are bounded by the constants called `Max...`.  Deadlock is not
checked: a behaviour ends when its requests are used up, and an org whose owners
and admins are gone can do nothing more.  In `org_roles` the handlers are
symmetric, and so are the users other than the founder; in `objects` the
goroutines and the projects are; in `routing` the deploys and the orgs are.

What these bounds leave out, section 4 has: workers, cron services and any other
settings in `WorkloadObjects`, several orgs in `Routing`, Redis next to the autoscaler, and more deploys and
failures in the pipeline are covered by the theorems.

Two runs check a refinement.  `ImplementsLifecycle` of `workers`: the deploys table
follows `DeployLifecycle`.  `ImplementsDelivery` of `log_stream`: whenever readers
poll, and wherever the build or a stream stops, the readers' view is a behaviour of
`LogDelivery`.  Both are also proved.

`ClosedIsTornDown` needs no exception for colliding names: a teardown goes by the
name, and takes down whatever runs under it.  `DomainLeadsToHolder` has one.  Two
projects of an org may each have a service `web`, and both then write one Deployment
and one set of routes.  Deployed at the same time, in the order Deployment of the
first, Deployment of the second, routes of the second, routes of the first (or with
the second failing after its Deployment), they leave the domains of the first leading
to the pods of the second until one of them is deployed again.  The property says for
every name that the routes are those of a service with that name which holds the
domain; that it is this service which runs there, it says for names that are not
shared.  It is about custom domains; a service may attach the default host of a
workload, which goes on leading to that workload too.

Violations: places where the code does not do what the repository says of it
(the finding in `PROJECT.json` quotes the words).

| Run | What happens |
|---|---|
| `queued` | a notification between the builder's sweep and its `LISTEN` is lost, and the deploy stays queued |
| `promoted` | a settings change re-deploys the service's newest image to production, which may be a preview's |
| `db_backups` | the autoscaler applies the cluster without its backup stanza |

Further behaviours the models exhibit.  The properties are stated so as not to
claim more than the code gives, and the hazards in `PROJECT.json` name the lines:

* the controller has no sweep: a deploy handed over, or a database created,
  while it is down stays `deploying` or `creating`;
* an error or a death between claim and hand-over leaves a deploy `building`;
* of two overlapping deploys of a target the older may be applied last, with the
  settings it loaded, and a preview may be applied after its pull request closed;
* of two overlapping scale requests the older count may stay; the teardown of a
  deleted database may overtake its provisioning or hit one created again under
  the same slug; two projects of an org share the cluster of a common slug; the
  autoscaler may leave a read URI without a standby;
* a backup is accepted, and its object created, for a database whose cluster does
  not exist yet; the schedule of a deleted database stays;
* a deploy that is being applied when its project or org is deleted leaves its
  objects behind; two projects that use one slug for a service share its workload;
  the previews of a deleted project are not torn down; suspending a cron service
  does not stop it;
* a service called like the preview of another shares its workload, although
  `naming.go` means previews to live "without colliding"; the default host holds no
  org, so that services of two orgs with one slug have the same; a detached domain
  stays routed until the next production deploy of the service that had it;
* a poll in the middle of a line breaks it for the reader, and newlines at the end
  of a chunk are lost; output cut inside a character is not stored and fails the
  build; a builder that dies leaves the streams of its build open;
* two owners removed in overlapping requests leave an org without one; an admin
  may remove an owner; `handleAddMember` accepts a role that is none.

**Fairness.**  `FairSpec` asks of the running processes what their scheduling
gives: systemd restarts them (`Restart=always` in `src/deploy/*.service`), a
listener hands every notification to a goroutine, a goroutine runs its
statements to the end, a handler that has committed goes on, and the waits for
rollouts and clusters have timeouts.  A build has none
(`internal/build/exec.go`), so its end is not assumed, and `DeliveredTerminates`
excepts a deploy whose build is running.  In `LogStream` a handler polls twice a
second for as long as its stream is open, and the builder goes on once the commands
have ended.  No user request, failure or autoscaler step is owed.

## 4. Proofs

Every theorem holds for all values of the constants that satisfy the named
assumptions: numbers are naturals, and the values that stand for "none",
"production", "the namespace" and the like are not among those they must not be
confused with.  Two of these deserve mention.  `RoutingAssumption` keeps orgs and
service ids apart, because a pending teardown is either a pair of a service and a
pull request or a pair of an org and a name, which the code sends on two channels.
`ObjectsAssumption` says that no project is the one that stands for none.

An invariant of a run is seldom inductive; the module named in each heading defines
the stronger one, as a conjunction of named parts, and proves that it holds
initially, that every action keeps it, and that the property follows.  TLC checked
the parts on the instances of section 3 before they were proved.

**`DeployPipelineProofs`**, with `PipelineInv` (theorem `PipelineCorrect`):
`TypeCorrect` (`TypeOK`), `SingleOwnership` (`OneOwner`), `ImagesExist`
(`ImagePushed`), `ClusterCorrect` (`ClusterRunsItsDeploys`), `BuildsAgree`
(`BuildAgrees`) and `PipelineImplementsLifecycle` (`ImplementsLifecycle`).
`OneOwner` alone is not inductive: that a goroutine may write a status it read
before depends on what its program counter says about the row (`OwnerKnowsStatus`),
and that in turn on nobody else owning the deploy.  `ImageInv` ties recorded images
to the registry, `SpecInv` what a reconcile has loaded to the row it came from,
`ApplyingInv` the image a settings request has looked up to the registry, and
`TargetInv` says which rows have a target.  `BuildInv` adds what the builder's
program counter says of the build row, which is written in statements of its own.
The refinement rests on `OwnerKnowsStatus`: the unguarded `UPDATE` of
`UpdateDeployStatus` is a legal transition because the status is still the one that
was checked.  `NoDeployIsDropped` (`NeverDropped`) is what safety has to say towards
`DeliveredTerminates`: as long as the controller listens and nothing fails, a deploy
that is attended to (its notification is on its way, a goroutine is about to claim
it, one owns it, or the controller has it) is attended to after the step, or has its
outcome.  Two facts carry it.  A goroutine returns from a claim only if it got the
deploy or another one did, which then owns it; and a notification never lands on a
goroutine that is at work for the same deploy, because each deploy is announced at
most once (`NotifiedOnce`).  What is left to liveness is that whoever attends to a
deploy goes on.

**`MCDeployPipelineProofs`**, with `RaceInv` (`RaceCorrect`): `WorkloadsSupersede`
(`NewestSupersedes`) and `SettingsAreApplied` (`SettingsSettle`).  Ids are handed
out in order, so that the one deploy in flight of a target without contention is its
newest; what is said of live deploys has to hold from the moment the Deployment is
written; and the version that the newest deploy has read or written is current, or
a request that will deploy the current one is still on its way.

**`OrgMembershipProofs`**, with `MembershipInv` (`MembershipCorrect`):
`MembershipTypes`, `OwnerRemains` (`HasOwner`), `GrantedByOwners` (`OwnersGrant`),
`DemotedByOwners` (`OwnersDemoteOwners`).  What the guards have read is still true
when the statement runs (`AnotherOwner`, `OwnerAsked`), because without contention
the request is alone (`Alone`); a grant was authorised whether it is alone or not
(`GrantsAuthorised`).

**`LogStreamProofs`**, with `LogInv` (`LogCorrect`): `LogTypes` and
`StreamImplementsDelivery` (`ImplementsDelivery`), for logs of any length and any
number of readers.  The refinement mapping is `Text`, a recursive function on
sequences.  That `Text` of a concatenation is the concatenation of the texts, and
that `writeSSE` preserves the text of a chunk, are proved by taking the least
length at which they fail, since the library's induction theorems cannot be
instantiated by the provers.  `PrintedIsSent` then says that a reader has printed
the text of what it was sent, and `OutcomeIsLast` that nothing is appended once the
outcome is written.

**`RoutingProofs`**, with `RoutingInv` (`RoutingCorrect`): `RoutingTypes`,
`DomainsLeadHome` (`DomainLeadsToHolder`), `ClosedGoesAway` (`ClosedIsTornDown`),
`LeftAlone` (`OthersLeaveItAlone`).  What runs under a name was put there by an
environment of that name (`RunsUnderItsName`); a deploy under way is for an
environment that is wanted or marked (`TaskIsWanted`), and has loaded domains that
its service holds or has lost (`LoadedAreHeld`); so are the domains of the routes
under a name, those of some service of that name, whatever runs there (`RoutesAreHeld`),
and if no other environment has the name it is this service that does; what nobody
wants is marked
(`OrphansAreDisturbed`) or its teardown is pending (`TeardownToCome`).

**`ManagedDatabaseProofs`**, with `DatabaseInv` (`DatabaseCorrect`):
`DatabaseTypes`, `ReadyServes` (`ReadyIsServed`), `ReadyScales` (`ReadyIsScaled`),
`DeletedGoes` (`DeletedIsGone`), `BoundsHold` (`AutoscaleInBounds`).  The parts
follow a request from its row through the goroutine to the cluster: what a
provisioning goroutine has written so far (`ProvisionIsKept`) and what a ready row
relies on (`ReadyIsKept`) survive the other goroutines and the autoscaler, whose
listed rows are old but known (`ListedIsKnown`, `BoundsAreKept`); for a database
without contention only one of them is at work (`OneAtATime`), so that the counts of
request, row and cluster agree (`CountsAgree`) and a teardown has the last word
(`TornDown`).  `CreatingIsNotDropped` (`CreatingNotDropped`) is the safety half of
`DeliveredProvisionEnds`: no early return of `reconcileDatabase` leaves a row in
`creating` without a goroutine or a handler that will come back to it.

**`WorkloadObjectsProofs`**, with `ObjectsInv` (`ObjectsCorrect`): `ObjectsTypes`,
`NamespaceIsolated` (`Isolated`), `SecretsPrecede` (`SecretRefSatisfied`),
`LiveAsDesired` (`LiveIsDesired`), `DeletedGoesAway` (`DeletedIsGone`),
`ExistingStays` (`ExistingKeepsRunning`).  First come facts about the programs
`Apply` and `Delete`, for every service: the order of their calls, that no call
undoes an earlier one, and that an `Apply` decides on every kind of object its type
may have.  The heart is `CallsHold`: the calls a goroutine has made still have their
effect while it runs, as long as its workload is not marked.  With the order of the
calls it gives the Secret before what refers to it, at the end of an `Apply` the
desired objects, and at the end of a `Delete` none.  `AppliedAlone` and
`SlugIsUsedOnce` say why nobody interferes, `PoliciesPrecede` and `NamespaceIsSound`
why the policies stay until the org is deleted, and `GoneIsClean` that what has no
service is empty or about to be torn down.

Only model-checked: liveness (`DeliveredTerminates`, `SweepRecovers`,
`DeliveredProvisionEnds`, `OutcomeEndsStreams`), which is out of the prover's reach;
of the first and the third the step-wise half is proved, as said above.
Every other property of a passing run is a theorem.

## 5. Not modelled

* Environment variables (they take effect on the next deploy), build arguments,
  sizes and storage: data no decision depends on.
* Matching of webhooks to services, and signatures: parsing of strings.  Which
  services a webhook is for is arbitrary in the models.  (`trim(trailing '.git'
  from ...)` in `internal/store/deploys.go:208` strips characters and not the suffix,
  so that some repositories match each other's pushes.)
* In the pipeline rows are never deleted: the cascade by which a deleted project or
  org takes its deploys with it is left out of `DeployStore`.  A goroutine that works
  on such a deploy gets "no rows" and ends; what happens to the cluster then is in
  `WorkloadObjects` and `Routing`, which have the deletions.
* In the pipeline a workload is one object and a target is a service and a pull
  request; `WorkloadObjects` has the objects and `Routing` the names.  A composition
  of the three is past what TLC finishes.
* Registry credentials and the pull secret: a Secret per namespace that every
  `Apply` writes anew.  In `WorkloadObjects`, where it belongs, it multiplies the
  states beyond an exhaustive run.
* Sessions and API tokens: a request looks its credential up in one statement, and
  one statement creates or deletes it; there is no second step to interleave with.
* Logs of running pods, which the API passes through; renames of orgs and projects,
  which touch no name in the cluster; the slug a name is turned into.
* Audit, usage, status, OAuth, configuration, CLI: append-only records, read-only
  views and clients; see the components in `PROJECT.json`.

## 6. Plan

1. Done: the models of the deploy pipeline, `ManagedDatabase`, `OrgMembership`,
   `WorkloadObjects`, `Routing` and `LogStream`; the theorems of section 4, which
   state every safety property, action property and refinement the runs check.
2. Proofs: shorter ones, where lemmas of two modules say the same of different
   state.
3. Models: webhook matching as operators against a reference definition; registry
   credentials in a module of their own.
