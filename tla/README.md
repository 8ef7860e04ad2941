# TLA+ models of sh-mcp-go

sh-mcp-go is an MCP server through which a client manages Helm releases. Its
deployment service keeps a record of every deployment in SQLite while Helm
keeps its own in the cluster; most of what can go wrong lies between the two.
This directory models the service with everything it drives, and four smaller
parts next to it (the chart repositories, the planner, the cluster service over
the Kubernetes adapter, the life of the process). TLC checks them on small instances; TLAPS
proves their safety properties for every instance.

## 1. The system

### Components

| Component | State | Operations | Hard behaviour | What makes it correct |
|---|---|---|---|---|
| Deployment aggregate (`domain/deployment`) | status, version, history, pending events | `New`, `StartDeployment`, `MarkSucceeded`, `MarkFailed`, `StartUpgrade`, `StartRollback`, `MarkRolledBack`, `DrainEvents` | some commands have no guard; each handler works on its own copy | the version counts the history; commands are taken in a legal order |
| SQLite store (`adapters/storage/sqlite`) | the `deployments` table | `Save` (upsert), `Delete`, `FindByReleaseName` | several rows per release; the upsert lists its columns; one connection | a row is what was last saved; lookups see the row that is live |
| Deployment service (`application/deployment`) | none but the aggregates in flight | `InstallChart`, `UpgradeChart`, `RollbackChart`, `UninstallChart` | load, change, save with Helm in between and no lock; partial failure; the caller's context may be done | store and Helm agree; no row is stuck; events tell what is stored |
| Helm adapter, releases (`adapters/helm/client.go`) | Helm's release records in the cluster | `Install`, `Upgrade`, `Rollback`, `Uninstall` | install and upgrade are retried as a whole; an attempt may have written | a call ends; revisions only grow |
| Helm adapter, repositories | `repositories.yaml`, index cache | `AddRepo`, `RemoveRepo`, `UpdateRepos`, `UpdateRepo`, `ListRepos`, `SearchRepo`, `ResolveVersion`, `loadChart` with `ensureRepo` | the file is read, changed, truncated and written without a lock; two caches; tools that only show a chart write it | a configured repository has its index; no entry is lost, none is made up |
| Retry policy (`infrastructure/retry`) | attempt counter | `Do` | cancellation during the back-off | bounded attempts |
| Kubernetes adapter (`adapters/kubernetes`) | the cluster | `EnsureNamespace`, `WaitForRollout`, `GetResourceHealth`, `ValidateCluster`, `GetClusterInfo` | several requests for one answer; polling against a deadline; ignored errors; a cluster that goes on meanwhile | what is reported was so at some time of the call; a call ends |
| Cluster service (`application/cluster`) | none | `GetInventory`, `ValidateCluster`, `GetHealthSummary`, `GenerateRCA` | parts of an answer may be missing | alarms and all-clears are justified |
| Planner and Plan aggregate (`application/planner`, `domain/plan`) | the plan's status and steps | parse an intent, build steps, approve, execute, roll back | transitions without a guard; steps taken up in any order their dependencies allow | a step begins when what it builds on is there, and not later; the plan does what was asked |
| MCP handlers and server (`adapters/mcp`) | none | one handler per tool | concurrent calls; two families of tools over the same releases | the arguments reach the operation |
| Process (`cmd`, `bootstrap`, `infrastructure/server`) | root context, listeners | `run`, `Load`, `Build`, `Shutdown`, `HTTPServer.Start` | order of shutdown; one component failing; signals | it stops when told; a failure reaches the exit status; the store closes last |
| Circuit breaker (`infrastructure/circuit`) | counters, state | `Execute` | half-open probes | not wired into the program |
| Configuration (`infrastructure/config`) | the settings | `Load`, `validate` | what it accepts is not what the program serves | a mistake is reported and ends the process |
| Observability, logger, version, errors, operator port | none that decides anything | | | |

### How they interact

A tool call becomes a goroutine of the MCP server. `ServeStdio` and `ServeSSE`
drop the context that `run` gives them: over stdio a call's context ends when
the MCP library's own handler catches the signal, over SSE with the request of
the client; of the two components only the HTTP server reacts to the context of
`run`. The chart tools (`install_chart`, ...) go
through the deployment service; the `helm_*` tools go straight to the Helm
adapter. The service calls its ports one after another and holds the aggregate
in memory between the calls:

    InstallChart   New, EnsureNamespace, Save(PENDING), Save(DEPLOYING), Helm, Save(outcome), Publish
    UpgradeChart   Find, Save(UPGRADING),    Helm, Save(outcome), Publish
    RollbackChart  Find, Save(ROLLING_BACK), Helm, Save(outcome), Publish
    UninstallChart Helm, Find, Delete

No lock or transaction spans two of these calls, no constraint keeps a release
to one row, and nothing in `Build` looks at rows a dead process left behind.

The repository tools (`repo_add`, ...) change a file that every chart load
reads, and writes, through `ensureRepo`: `show_chart`, `template_chart`,
`generate_values_yaml` and the other tools that show something of a chart
configure a repository named after the chart, if the file has none of that
name. `plan_deployment` returns a plan
that nothing in the program executes: the client takes up its steps. The tools
of the cluster service (`health_check`, `generate_rca`, `validate_cluster`,
`cluster_inventory`, ...) send the Kubernetes API one request after another
while the cluster goes on. `run` loads the configuration, builds the program,
has two components in an errgroup, the MCP server and the HTTP server, and
closes the store when both have returned.

The full list of hazards, each at its line and with the properties that cover
it, is `hazards` in `PROJECT.json`.

## 2. The modules

| Module | Models | Remarks |
|---|---|---|
| `ValueObjects` | `value_objects.go` | constants: ids, releases (name and namespace together), charts |
| `Deployment` | `entity.go`, `events.go` | one pure operator per command; its guard is `Can...` next to it |
| `Repository` | `sqlite/repository.go` | `table` by id; `UpdatedRow` is the SET clause of the upsert; `FirstRowFor` the lookup's choice among several rows |
| `HelmClient` | `helm/client.go`, `retry/policy.go` | the retry loop is the code's; the SDK is external, modelled by what the code relies on |
| `McpTools` | the handlers of `mcp/handler.go` | the requests each tool can make |
| `DeploymentService` | `deployment/service.go`, composing all of the above | one action per port call |
| `ReleaseLifecycle` | the lifecycle the aggregate promises | the abstract specification that the stored rows refine |
| `RepositoryFile` | the repository operations of `helm/client.go` | one action per access to the file or the cache |
| `RepositoryTools` | the handlers that use them | the requests each tool can make: `Changes` and `Queries` |
| `RepositoryBook` | what the repository tools promise | the abstract specification that the file refines while calls do not overlap |
| `Planner` | `planner/service.go` | pure operators: `DetectApps`, `ActionOf`, `BuildSteps`, `BuildRollbackPlan`; the two loops of the code are the recursive functions `Found` and `Built` |
| `Plan` | `plan/entity.go`, `Service.Plan` | one action per command of the aggregate, and a client who works the plan off |
| `Process` | `main.go`, `config.go`, `bootstrap.go`, `server/http.go`, the transports | the configuration, the goroutines of the errgroup, the signal, the order of the shutdown |
| `Workloads`, `Nodes` | the cluster, as the adapter reads it | external: pods and nodes, and a status that lags behind them |
| `KubernetesClient` | the reading operations of `kubernetes/client.go` | one action per request to the API server |
| `ClusterService` | `cluster/service.go` and its tools, over the adapter and the cluster | one call, and the cluster that goes on meanwhile |
| `MCDeploymentService`, `MCRepositoryFile`, `MCPlan` | | instances and request sets for TLC |
| `DeploymentServiceProofs`, `NoStuckRowProofs`, `LifecycleProofs`, `RevisionProofs` | | theorems about the deployment service, each module resting on the one before |
| `RepositoryFileProofs` | | theorems about the chart repositories: first for calls that overlap, then for calls that do not |
| `ClusterServiceProofs`, `PlanProofs`, `ProcessProofs` | | theorems about these three |

The deployment service and the modules it composes are described first; the
other four parts share no state with it and follow.

### The deployment service

**State.** `pc[c]` is where the handler of call `c` stands, `request[c]` what
it was asked, `agg[c]` the aggregate in its local variable (present only while
it has one). `table` is the database, `helm` the newest revision of each
release in the cluster, `operation[c]` the Helm operation a call is in,
`published[c]` the events it handed to the publisher, `cancelled` whether the
context of the calls is done (a signal, with the stdio transport). `abandoned` is a history variable: the ids left by a
failed `Save` or held by a handler when the process died.

**Steps.** A step ends at each port call, since that is where other calls
interleave; local code after a port call belongs to the step. A statement of
SQLite is atomic (`MaxOpenConns` is 1). A Helm operation takes a step when it
records its revision and another when it ends, so calls, signals and deaths of
the process fall in between; a refused attempt, a failed one, each back-off and
each retry are steps too. When the context is done the store and Kubernetes
answer with errors, while `Rollback` and `Uninstall` of the Helm adapter, which
do not take the context, run on.

**Abstractions.** A release name and its namespace are one value, and names are
valid. A chart's name, repository and source are one value, its version
another. Values, labels, annotations, timestamps and messages are left out:
no decision depends on them. Of Helm's revisions only the newest is kept, which
is all the service's results depend on. UUIDs do not collide: a call's own name
is the id it draws. `FirstRowFor` returns the row with the least rowid: the
query has no `ORDER BY`, and SQLite's scan of the index it uses runs in that
order. The bounds in the specification are `MaxInFlight` and `MaxRestarts`;
`Calls` bounds how many calls one behaviour has.

### The chart repositories

`file` is `repositories.yaml` (whether it parses, and its entries), `cache` the
index files of the configured cache by repository name, `copy[c]` what call `c`
has read. A write is two steps: `repo.File.WriteFile` truncates the file and
then writes it, and a call that loads it in between finds an empty file, which
is a file without repositories. When another call has written a longer text
meanwhile, its end remains, and the file has further entries or does not parse:
this is possible only if that text has an entry which this call's has not, or
another URL for one (`CoversFile`). The time stamp in the text, which has always
the same form, is left out.
`ensureRepo` runs inside a chart load (`loadChart`) and downloads into Helm's
own cache instead of the configured one; whatever becomes of it, the load goes
on to `Locate`, where Helm asks the given URL itself. `list` reads the file,
`search` (`repo_search`, `ResolveVersion`) the cache. An index is the URL it
came from, and `reply[c]` is the URL whose index or chart a call answers with;
credentials are left out.

### Planner and plan

An intent is the set of those words the planner looks for that its text
contains. A step's UUID is its type and its application, since an application
is found at most once. The commands of the aggregate are actions that may
happen at any time, with the guards they have. `BeginStep`, `SkipStep` and
`EndStep` are the client's: it takes up what `ReadySteps` returns, at most
`MaxRunning` at once, and may answer after the plan was aborted.

### The process

`setting` is `mcp.transport` as the file and the environment have it ("unset"
stands for neither), `transport` what `Load` makes of it: stdio by default, or
one of those the validation accepts. Before the signals are caught, while the
configuration is loaded, they kill the process. `mcp` and `http` are the two
goroutines, `stopping` the errgroup's context,
`told` the root context, `early` a history variable: a component failed before
anything wanted it to stop. The MCP library's stdio server ends at the end of
its input, at an error, and at a signal that arrives while it runs; its SSE
server only at an error. `http.Server.Shutdown` returns at once when it has no
request in flight or its context is done, and its context derives from one that
is done.

### The cluster service

`Workloads` is the cluster as to a release: pods start, stop and fail, and a
controller reports their number some time later. `Nodes` is the cluster as to
its nodes: they join without a Ready condition, report one and leave.
`KubernetesClient` has a step for each request to the API server, as the code
sends them one after the other; each may fail, and what the code does with the
error (drop it, log it, return it) is in the step. `ClusterService` is one call
of any of the tools, chosen at the beginning: calls that only read do not
disturb each other, so one is enough. `health` holds the entries of
`GetResourceHealth`, `verdict` the answer of `ValidateCluster`, `inventory` the
nodes of `GetClusterInfo` and which of the optional parts came.

`WaitForRollout` looks whenever its ticker ticks and compares the clock with
the deadline only then; a ticker drops the ticks that come during a slow look.
`ticks` bounds how many ticks are left before the deadline, and a tick may use
up several. It has no tool yet; its call stands for any user of the port.

`wasReady`, `wasUnready` and `nodesSeen` are history variables: which workloads
were ready, which were not and which nodes there were at some time of the call.
A workload is ready as far as its status tells: `Satisfied` is the comparison
the code makes (`IsReady`), so the properties do not judge that rule. They are
about when an answer was so, and of which workload. What lies behind the status
is not modelled further: versions of pods, `observedGeneration` and
`updatedReplicas`, which a workload that is fully rolled out would need, and a
release without Info, on which `GetInventory` would panic. A call that reads workloads sees the nodes at rest and the
other way round, since no answer puts the two together. `MaxChanges` bounds
what users and failures do to the workloads or the nodes; pods and reports are
bounded by the replicas.

## 3. The runs

The runs of the deployment service are all on one release and one namespace:
the code never relates two releases. Calls are interchangeable, so runs of safety properties use symmetry.

| Run | Instance | Shows |
|---|---|---|
| `overlapping` | 3 tracked calls, all at once, 2 attempts, all faults, 1 restart | `VersionCountsHistory`, `IntentMatchesStep`, `StuckOnlyByFault`, `HelmRevisionsIncrease`, `OneRowSucceeded` |
| `sequential` | 4 tracked calls one at a time, with charts that `New` accepts and refuses, failing saves, a crash | `FollowsLifecycle` (refinement), `PublishedSuccessIsStored`, `StoredRevisionIsCurrent` |
| `progress` | 2 overlapping calls of any tool, `helm_*` included, each with at most one option off its default; 2 attempts, failures, SIGTERM | `CallsReturn`, `RowsSettle` (liveness) |
| `repo_overlapping` | 2 names, 2 URLs, 3 overlapping calls of any tool, all faults | `ConfiguredHasIndex`, `NothingInvented` |
| `repo_sequential` | 2 names, 2 URLs, 4 calls one at a time, failing downloads | `IndexIsCurrent`, `FollowsBook` (refinement) |
| `plan_worked_off` | installs, an upgrade and a rollback of one or two applications of every shape, 3 steps at once | `NothingTooEarly`, `NothingTooLate` |
| `process_life` | no setting, each accepted transport and one the validation refuses, 2 HTTP requests | `OpenWhileServing`, `FailureIsReported`, `SignalStops`, `UnknownTransportStops` (the last two liveness) |
| `health_overlapping` | any tool of the cluster service; a Deployment and a StatefulSet, 2 replicas, 2 nodes, 2 ticks, 3 changes, failing requests, cancellation | `AlarmIsJustified`, `QuietIsJustified`, `RolloutIsJustified`, `SnapshotIsReal`, `CallEnds` (liveness) |

- `VersionCountsHistory`: a row's version is one more than the successes in
  its history, which are numbered from 1. Two overlapping upgrades lose one of
  the successes, but never half of it: `Save` writes both columns.
- `IntentMatchesStep`: a handler's copy is in the status its next step
  supposes, so after the intent is saved nothing refuses to record what Helm did.
- `StuckOnlyByFault`: a row in progress has a handler working on it, unless a
  `Save` on it failed or the process died. Both exceptions are real: such a
  row stays as it is until an uninstall deletes it, since the aggregate's
  guards refuse every other command.
- `StoredRevisionIsCurrent`: at rest, a `SUCCEEDED` row names the revision
  Helm has deployed. It is stated for releases installed once and never
  uninstalled, because several rows for one release and dry-run or
  history-keeping uninstalls break it in the code as it stands.
- `OneRowSucceeded`: every installation makes a row of its own, and the lookup
  returns the oldest. At most one of a release's rows ever records a success,
  so a row that shadows the one of the live deployment has never succeeded.
  This takes Helm, which refuses a name in use, the upsert, which writes to the
  row that was loaded, and the retry of an install, which finds its own name in
  use. Stated for the same releases as `HelmRevisionsIncrease`: after an
  uninstall, or for a dry run, a second installation may succeed.
- `FollowsLifecycle`: while calls do not overlap, the rows go from one saved
  status to the next only along `ReleaseLifecycle`.
- `HelmRevisionsIncrease`: stated for releases without an uninstall, which
  purges revisions, and without dry runs: a dry run is recorded as a success
  with a revision that Helm never made.
- `ConfiguredHasIndex`: however calls overlap and wherever they break off, a
  name in the file has an index in the cache, or a chart load asked for it. It
  survives lost updates, since whatever a call has read was downloaded before.
- `NothingInvented`: however writes tear the file apart and whichever download
  fails, no name is paired with a URL that nobody asked for it with, in the
  file, the cache, a copy or an answer.
- `IndexIsCurrent` and `FollowsBook` need calls that do not overlap and a disk
  that does not fail; `repo_lost` shows why for the first condition.
- `NothingTooEarly` and `NothingTooLate` together say that the dependencies of
  the steps are exactly what is needed: everything a step builds on is settled
  when it begins, and it waits for nothing else, so a failed application does
  not hold up another one. A namespace that fails holds up everything, as it
  should.
- `OpenWhileServing`, `FailureIsReported`: the store closes after both
  components; a failure that nobody wanted is in the exit status even if a
  signal follows it. `SignalStops` holds for the stdio server only.
  `UnknownTransportStops` is about both ways a wrong setting can go: refused by
  the validation, or accepted and found out by a goroutine of the errgroup.
- `AlarmIsJustified`, `QuietIsJustified`: an alarm names a workload that was
  seen not ready, and is not a list that failed; an all-clear, when both lists
  came, has seen the workloads of both kinds ready. No state has to fit the
  whole answer: the lists are taken one after the other.
- `RolloutIsJustified`: whatever is scaled while `WaitForRollout` waits, its
  success names a workload that was ready then, and its timeout one that was
  seen not ready, unless no look came back at all.
- `SnapshotIsReal`: `validate_cluster` and `cluster_inventory` describe nodes
  that were there together; an inventory is never without its nodes, and a
  cluster is invalid only for a request that failed.
- `CallEnds`: an error of a look is only logged and a workload of an unknown
  kind is looked at again and again, but the deadline comes.

**Bounds.** Three overlapping calls are an install and two calls on its row, or
two installs and a lookup among their rows: the smallest instance in which a
lost update, a row inserted again, a duplicate row and a stale copy all occur.
Four sequential calls reach every status and every command twice. Two attempts
are enough for a retry after a write; three, the code's number, only repeat
that. One restart shows every interrupted step; a second process only starts
from the same rows. For the repository file, a lost update, a half-written file
and a leftover end need two writers and a third call that reads what they left;
four sequential calls add, replace, remove and refresh one name. Two
applications show that neither waits for the other; the catalogue's shapes
(storage or not, ingress or not) all occur. Two requests are one that is
answered and one that is not. Two replicas tell some from all, and three changes
scale a workload, break a pod and scale another between the lists, or let a node
join, report and leave. Two ticks are a look that does not find the workload
ready and one that comes later or is dropped. `overlapping` and
`repo_sequential` reach 1.4 million states each, `sequential` 1.1 million,
`repo_overlapping` 840 thousand, the others up to 600 thousand.

**Deadlock** is checked in every run. The server waiting for the next call is
the stuttering action `Waiting`, enabled only when no call is in flight; a call
in flight that could not go on would be reported.

**Fairness** is weak fairness of each call's own handler, and of nothing else:
the Go scheduler runs a ready goroutine, Helm's operations end within their
timeout, and the store is a local file. Nothing forces calls to arrive, faults
to happen or a process to be restarted. In `Process` what goes on by itself is
fair: loading the configuration, building, the start of the goroutines, the reactions to the end of a
context, waiting and shutting down; no error, signal, end of input or answer to
a request is forced. In `ClusterService` a request to the API server ends, one
way or the other, and the ticker ticks; nothing forces a call, a cancellation or
the cluster to settle.

### Where documentation and code disagree

Each of these runs checks one sentence from a comment or a document and TLC
finds a behaviour of the code that contradicts it (`findings` in
`PROJECT.json` quotes the sentences).

| Run | Contradicted | By |
|---|---|---|
| `resurrection` | `Delete` removes a record permanently | the save of an overlapping upgrade inserts it again |
| `repo_lost` | `AddRepo` adds a repository | of two overlapping additions of different names, both confirmed, the one written first is lost |
| `process_sse` | all stop on the first error or signal | the transports drop the context; the SSE server runs on after a signal |
| `health_unreadable` | all resources are checked | a list that fails counts as an empty one |

Others show in a call or two; the modules have them as the code does, and no
run is spent on them:

- a dry-run install creates the namespace (`CreateNS || !DryRun`), although a
  dry run applies nothing (docs/tools.md);
- the upsert of `Save`, which "inserts or replaces a Deployment record"
  (sqlite/repository.go), does not replace the chart's name, repository and
  source, so after an upgrade to another chart the row pairs the old name with
  the new version. `StartUpgrade` takes any chart, also one that `New` refuses:
  its version and the whole reference in the history are stored;
- on the failure paths the error of `Save` is dropped and the failure is
  published all the same, although events are published after a successful save
  (domain/deployment/repository.go);
- `helm_install` calls the Helm port directly and leaves no record, although
  README.md shows it going through the service;
- `repo_search` reads the first index file in the cache, whatever `repo_url` is;
- `Complete`, `Fail` and `Abort` of a plan have no guard, although the status
  machine of docs/architecture.md lets a plan end after `EXECUTING` only;
- an intent to roll back or to uninstall yields steps that install, and the
  companion plan of an installation rolls back to a revision there is not;
- the HTTP server's shutdown context is already done, so the window of
  `server.shutdown_timeout` has no length;
- an error of the HTTP server does not end a process with the stdio transport
  before its input ends;
- `health_check` does not list DaemonSets;
- `validate_cluster` asks for the version and the nodes; the storage class and
  the CRDs that docs/tools.md has it check are not looked at;
- the tools that show a chart write `repositories.yaml`: they configure a
  repository named after the chart if there is none of that name (there
  `ensureRepo` returns early and the file stays as it is);
- `WaitForRollout` "waits until a workload is fully rolled out", but compares
  the ready replicas with the wanted ones only: right after an upgrade the pods
  of the previous version pass;
- `/readyz` says "ready" whatever the state of the program, and the drivers that
  `storage.driver` accepts all mean SQLite;
- `deployment_status` answers from the cluster, not from the store that tracks the
  deployment, and without its id; like it `security_scan` and `lint_chart`
  declare arguments they do not read;
- two overlapping calls may turn one outcome of a row into another: both load
  the same row, and their last saves follow one another.

## 4. The proofs

The theorems hold for every value of the constants that the ASSUMEs of the
modules admit. For the deployment service these are any sets of calls,
releases, charts and requests, any number of calls in flight, any faults,
attempts and restarts (the calls serve as ids, the requests are requests of the
tools, every release has a namespace); for the repository file any calls,
names, URLs and faults (no URL is one of the other replies); for the cluster
service any workloads, nodes, replicas, changes, ticks and faults; for the
process any transports and number of requests; for the planner any intent and
any number of steps at once.

| Theorem | Statement | Argument |
|---|---|---|
| `TypeCorrect` (`DeploymentServiceProofs`) | `Spec => []TypeOK` | inductive as it stands. Besides types, it says that a call in flight has its request and that a handler holds an aggregate wherever its next step uses one: without that `agg[c]` would mean nothing. One lemma per group of actions; `HandlerGoesOn` and `HandlerReturns` are what the moves of a handler have in common; `FirstRowIsARow` shows that the lookup's choice exists (a set of naturals has a least member, from the library's well-foundedness theorems) |
| `VersionsCorrect` | `Spec => []VersionCountsHistory` | inductive together with `TypeOK`: every command keeps the count (`CommandsCount`), a save writes version and history of one aggregate (`RowsCount`), a lookup returns both of one row |
| `IntentsMatch` | `Spec => []IntentMatchesStep` | inductive as `IntentInv`, which adds that a handler about to load serves a tracked request; other handlers are undisturbed because the aggregate is a local copy (`OthersMatch`) |
| `NoStuckRow` | `Spec => []StuckOnlyByFault` | needs `IntentsMatch`: if a command could be refused, the handler would return and leave its row in progress. Each step excuses the row it wrote or worked on (`StuckStep`, `SaveExcuses`) |
| `SuccessIsStored` | `MaxInFlight = 1` gives `Spec => PublishedSuccessIsStored` | from `SequentialInv`: at most one call is in flight, its copy is the row that it is about to write (`MatchesRow`, up to the command it has taken), and every row is that of a call that has arrived (`RowsArrived`). So a handler that publishes a success got there through a `Save`, and nobody has touched the row since |
| `LifecycleIsFollowed` | `MaxInFlight = 1` gives `Spec => FollowsLifecycle` | step by step under `SequentialInv`: each `Save` that succeeds is one step of `ReleaseLifecycle`, chosen by the command that came before it (`SavedRecord`, `OwnSteps`), a `Delete` is its deletion, and any other step, the death of the process included, a stutter (`HandleFollows`) |
| `RevisionsIncrease` | `Spec => []HelmRevisionsIncrease` | for any overlap of tracked calls and `helm_*` tools. `OriginInv` says which request every row, aggregate and operation came from; `IncreaseInv` that, for a release with nothing purged, all histories increase and none is ahead of Helm, and that an operation in progress has a revision newer than its handler's history. An atomic install that fails takes Helm's revisions away: it is harmless because at most one install of a release runs at a time and only before one has succeeded (`InstallsOnce`, `Established`), when no history has an entry (`AwayOrdered`) |
| `OneRowSucceeds` | `Spec => []OneRowSucceeded` | from `OneSuccessInv`, on top of `OriginInv` and `IncreaseInv`: of the ids that have a recorded success of a release, or whose install has succeeded in Helm and is still to be recorded (`Successes`), there is at most one. Away from Helm they only get fewer (`AwaySuccesses`: a failed save or a crash may lose one); in Helm an install succeeds only for a release that none has yet (`HelmSuccesses`, with `InstallsOnce` and `Established`) |
| `StoredRevisionCurrent` | `MaxInFlight = 1` and `TrackedAndReal` give `Spec => []StoredRevisionIsCurrent` | from `CurrentRevisionInv`, on top of `SequentialInv` and `OriginInv`: while a handler is away, Helm's newest revision is its operation's; in the handler's hands and in a `SUCCEEDED` row, the last success is the revision Helm has deployed |
| `TypeCorrect` (`RepositoryFileProofs`) | `Spec => []TypeOK` | inductive as it stands; entries are functions on sets of names, and `UpdatedIsEntries`, `WithoutIsEntries` and `WrittenContent` show that the operations on them stay among them |
| `ConfiguredIndexed` | `Spec => []ConfiguredHasIndex` | inductive as `IndexInv`, which says the same of what every call has read: a copy that is about to be written was read from the file or downloaded for. No step takes an index away (`IndexesStay`) |
| `NothingIsInvented` | `Spec => []NothingInvented` | inductive as `AskInv`: every call in flight serves a request, and what it has read or is about to write was asked for. Whatever becomes of a write, it leaves entries of what the writer or the file had (`WrittenAskedFor`) |
| `BookIsFollowed` | `Undisturbed` gives `Spec => FollowsBook` | step by step under `AloneInv` (one call in flight, whose copy is the file up to the change it was asked to make): the truncation is the step of `RepositoryBook`, since the entries are then those on their way, and the write a stutter |
| `IndexesAreCurrent` | `Undisturbed` gives `Spec => []IndexIsCurrent` | from `CurrentInv`, which says of every step of a call how far file and cache may be apart, on top of `AloneInv` |
| `TypeCorrect` (`ClusterServiceProofs`) | `Spec => []TypeOK` | inductive as it stands; one lemma for the workloads, one for the nodes, one for the requests of a call (`WorkloadsStay`, `NodesStay`, `RequestKeepsTypes`) |
| `AlarmJustified`, `QuietJustified` | `Spec => []AlarmIsJustified`, `Spec => []QuietIsJustified` | from `EntriesInv`: every entry was so at some time of the call, and a list that came is there in full. It rests on `SeenInv` (the history has the cluster as it is, so what a request reads is in the history) and `PlaceInv` (a step belongs to a call of its kind), which all theorems of this module share |
| `RolloutJustified` | `Spec => []RolloutIsJustified` | from `LooksInv`: a wait that has looked and goes on has found its target not ready |
| `SnapshotReal` | `Spec => []SnapshotIsReal` | from `NodesInv`: the verdict and the inventory were made of nodes that were seen; `WarnedOfUnwell` says that the code's warning is exactly about nodes that are not all well |
| `TypeCorrect` (`PlanProofs`) | `Spec => []TypeOK` | what is built is a sequence of steps of the catalogue's applications; a command changes one status |
| `NothingBeginsEarly`, `NothingWaitsLong` | `Spec => []NothingTooEarly`, `Spec => []NothingTooLate` | from `ShapeInv` (each step has an id of its own; a dependency is a step that comes before; whatever comes before is depended on, directly or through what is) and `BegunInv` (a step begun or skipped finds settled all that comes before, so a client that looks at direct dependencies only does right). That the plan of any intent has this shape is `PlanWellBuilt`: by induction over the applications, each of which appears once (`AppsFound`) and builds on the namespace and on nothing of another (`ConnectedGrows`) |
| `TypeCorrect` (`ProcessProofs`) | `Spec => []TypeOK` | inductive as it stands |
| `StoreIsOpen` | `Spec => []OpenWhileServing` | from `LifeInv` (lemma `Life`): the components run only while `run` waits for them, with the store open |
| `FailureReported` | `Spec => []FailureIsReported` | from `LifeInv`: as long as nothing wants the process to stop the group has no error, so the first failure is the one that is kept |

Some theorems have a hypothesis, and each is one that the property needs.
`MaxInFlight = 1` says that calls do not overlap: between a handler's load and
its save another one may delete the row or change it, and `resurrection` and
`repo_lost` show what then happens to the rows and to the file. Nothing else is
assumed there: any requests, any faults, any number of restarts. `Undisturbed`
(`MaxInFlight = 1` and `Faults` within `{"network"}`) adds for the repositories
that the disk works and the process lives, since a file that is truncated and
not written has lost its entries; downloads may fail. `TrackedAndReal` (every
request goes through the service and none is a dry run) is for the revision a
row names: a `helm_*` tool changes it behind the store's back, and a dry run
records a revision Helm never made.

The loops of the planner are recursive functions, and the induction over them
is carried out on sets of naturals (`CountingUp`, from the least member of a
set; `LoopEnds` shows that such a function exists).

Only model-checked: liveness (`CallsReturn`, `RowsSettle`, `SignalStops`,
`UnknownTransportStops`, `CallEnds`), which is out of the prover's reach. Every
other property that a passing run checks is proved. The four runs that end in a
violation show a behaviour and have nothing to prove.

## 5. Not modelled, and the plan

Not modelled because nothing in them decides anything or because they are pure
input and output: tool schemas, result formatting, the queries over releases
(get, list, status, history, diff) and the operations on registries, packages
and their linting, which keep nothing; logging, metrics, tracing, version, build
targets, the stub operator tools and the operator port without an
implementation. Not modelled because the program never calls them:
`DeleteNamespace`, `ApplyCRD`, `CRDExists`, `SetLabel`, `SetAnnotation`,
`SetRollbackPlan`, the other queries of the store, `LoadFromFile` and `Watch` of
the configuration, and the circuit breaker, which wraps a library.
`EstimateResources` (tool `resource_estimation`) is a table that reads and keeps
nothing, and `helm test` runs pods that nothing here depends on.

Left to model, in this order:

1. `ValidateCluster` as the source of the verdict that `Plan` takes as an input.
2. The retry policy's delays (cap, growth).

Left to prove: that a row of two overlapping calls goes through a weaker
lifecycle, which allows a save to undo another one's, and that `RevisionsIncrease`
carries over to releases whose uninstalls keep the history.
