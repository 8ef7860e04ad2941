-------------------------- MODULE DeploymentService --------------------------
(***************************************************************************)
(* The deployment service (internal/application/deployment/service.go)     *)
(* with everything it drives: each tool call is a process that walks       *)
(* through its handler, and a step is taken at each call of a port, the    *)
(* points where other calls interleave.  The aggregate a handler holds is  *)
(* a local copy: agg[c].  The tools helm_install ... helm_uninstall, which *)
(* go to Helm without the service, are the requests that are not tracked.  *)
(***************************************************************************)
EXTENDS Repository, HelmClient, McpTools, FiniteSets

CONSTANTS
    Requests,     \* the requests clients may send
    MaxInFlight,  \* how many calls the MCP server runs at once
    Faults,       \* the environment faults that may happen
    MaxRestarts   \* bound on the restarts of the process

\* New draws a fresh UUID: no two calls draw the same, so the call serves.
ASSUME CallsAssumption == Calls \subseteq Ids
ASSUME RequestsAssumption == Requests \subseteq Request
ASSUME BoundsAssumption == MaxInFlight \in Nat \ {0} /\ MaxRestarts \in Nat
ASSUME FaultsAssumption == Faults \subseteq {"store", "kubernetes", "signal", "crash"}

VARIABLES
    pc,           \* where each call is in its handler
    request,      \* the requests of the calls that have arrived
    agg,          \* the aggregates held by the handlers that hold one
    published,    \* the events each call has handed to the publisher
    cancelled,    \* the context of the calls is done: SIGTERM was received
    restarts,
    abandoned     \* history: ids left by a failed Save or by a dead process

serviceVars ==
    <<pc, request, agg, published, cancelled, restarts, abandoned>>
vars == <<storeVars, helmVars, serviceVars>>

Step == {"idle", "namespace", "savePending", "load", "saveIntent", "helm",
         "saveOutcome", "publish", "find", "delete", "done", "lost"}

InFlight == {c \in Calls : pc[c] \notin {"idle", "done", "lost"}}

\* A call that has arrived has a request; a handler holds an aggregate from
\* the moment it has made or loaded one until it returns.
HoldingSteps == {"namespace", "savePending", "saveIntent", "saveOutcome",
                 "publish", "delete"}

RequestsOK ==
    /\ DOMAIN request \subseteq Calls
    /\ \A c \in DOMAIN request : request[c] \in Requests
    /\ InFlight \subseteq DOMAIN request

AggregatesOK ==
    /\ DOMAIN agg \subseteq InFlight
    /\ \A c \in DOMAIN agg : agg[c] \in Aggregate
    /\ \A c \in Calls : pc[c] \in HoldingSteps => c \in DOMAIN agg

TypeOK ==
    /\ StoreTypeOK
    /\ HelmTypeOK
    /\ pc \in [Calls -> Step]
    /\ RequestsOK
    /\ AggregatesOK
    /\ published \in [Calls -> Seq(EventType)]
    /\ cancelled \in BOOLEAN
    /\ restarts \in 0 .. MaxRestarts
    /\ abandoned \subseteq Ids

Init ==
    /\ StoreInit
    /\ HelmInit
    /\ pc = [c \in Calls |-> "idle"]
    /\ request = [c \in {} |-> {}]
    /\ agg = [c \in {} |-> {}]
    /\ published = [c \in Calls |-> <<>>]
    /\ cancelled = FALSE
    /\ restarts = 0
    /\ abandoned = {}

-----------------------------------------------------------------------------
(* Where a handler goes next, and what its ports may answer                *)

Goto(c, step) == pc' = [pc EXCEPT ![c] = step]

\* The handler returns, with a result or an error, and drops its aggregate.
Return(c) == Goto(c, "done") /\ agg' = Drop(agg, c)

\* database/sql answers with the context's error once the context is done.
StoreAnswers == ~cancelled
StoreFails == cancelled \/ "store" \in Faults
KubernetesFails == cancelled \/ "kubernetes" \in Faults

SaveSucceeds(c) ==
    /\ StoreAnswers
    /\ Save(agg[c])
    /\ UNCHANGED abandoned

SaveFails(c) ==
    /\ StoreFails
    /\ abandoned' = abandoned \cup {agg[c].id}
    /\ UNCHANGED storeVars

Accept(c, q) ==
    /\ pc[c] = "idle" /\ ~cancelled
    /\ Cardinality(InFlight) < MaxInFlight
    /\ request' = Put(request, c, q)
    /\ UNCHANGED <<storeVars, helmVars, published, cancelled,
                   restarts, abandoned>>

-----------------------------------------------------------------------------
(* InstallChart                                                            *)

StartInstall(c, q) ==
    /\ q.kind = "install" /\ q.tracked
    /\ Accept(c, q)
    /\ IF CanCreate(q.chart)
       THEN /\ agg' = Put(agg, c, NewDeployment(c, q.release, q.chart))
            /\ Goto(c, IF q.createNS \/ ~q.dryRun THEN "namespace"
                                                  ELSE "savePending")
       ELSE Return(c)

\* The Kubernetes adapter takes an existing namespace for a created one.
NamespaceEnsured(namespace) == namespaces' = namespaces \cup {namespace}

EnsureNamespace(c) ==
    /\ pc[c] = "namespace"
    /\ \/ /\ ~cancelled
          /\ NamespaceEnsured(NamespaceOf[request[c].release])
          /\ Goto(c, "savePending")
          /\ UNCHANGED agg
       \/ /\ KubernetesFails
          /\ Return(c)
          /\ UNCHANGED namespaces
    /\ UNCHANGED <<storeVars, helm, operation, request, published,
                   cancelled, restarts, abandoned>>

SavePending(c) ==
    /\ pc[c] = "savePending"
    /\ \/ /\ SaveSucceeds(c)
          /\ IF CanStartDeployment(agg[c])
             THEN /\ agg' = [agg EXCEPT ![c] = StartDeployment(agg[c])]
                  /\ Goto(c, "saveIntent")
             ELSE Return(c)
       \/ SaveFails(c) /\ Return(c)
    /\ UNCHANGED <<helmVars, request, published, cancelled, restarts>>

-----------------------------------------------------------------------------
(* UpgradeChart and RollbackChart                                          *)

StartFromStore(c, q) ==
    /\ q.kind \in {"upgrade", "rollback"} /\ q.tracked
    /\ Accept(c, q)
    /\ Goto(c, "load")
    /\ UNCHANGED agg

LoadUnchangedVars == <<storeVars, helmVars, request, published,
                       cancelled, restarts, abandoned>>

\* FindByReleaseName fails, or finds no row.
LoadFails(c) ==
    /\ pc[c] = "load"
    /\ StoreFails \/ RowsFor(request[c].release) = {}
    /\ Return(c)
    /\ UNCHANGED LoadUnchangedVars

\* Mutant of LoadForUpgrade: Helm runs before the intent is saved.
LoadForUpgradeUnsaved(c) ==
    LET d == Reconstitute(FirstRowFor(request[c].release)) IN
    /\ pc[c] = "load" /\ request[c].kind = "upgrade"
    /\ StoreAnswers /\ RowsFor(request[c].release) # {}
    /\ IF CanStartUpgrade(d)
       THEN /\ agg' = Put(agg, c, StartUpgrade(d, request[c].chart))
            /\ Goto(c, "helm")
       ELSE Return(c)
    /\ UNCHANGED LoadUnchangedVars

LoadForUpgrade(c) ==
    LET d == Reconstitute(FirstRowFor(request[c].release)) IN
    /\ pc[c] = "load" /\ request[c].kind = "upgrade"
    /\ StoreAnswers /\ RowsFor(request[c].release) # {}
    /\ IF CanStartUpgrade(d)
       THEN /\ agg' = Put(agg, c, StartUpgrade(d, request[c].chart))
            /\ Goto(c, "saveIntent")
       ELSE Return(c)
    /\ UNCHANGED LoadUnchangedVars

LoadForRollback(c) ==
    LET d == Reconstitute(FirstRowFor(request[c].release)) IN
    /\ pc[c] = "load" /\ request[c].kind = "rollback"
    /\ StoreAnswers /\ RowsFor(request[c].release) # {}
    /\ IF CanStartRollback(d)
       THEN /\ agg' = Put(agg, c, StartRollback(d))
            /\ Goto(c, "saveIntent")
       ELSE Return(c)
    /\ UNCHANGED LoadUnchangedVars

-----------------------------------------------------------------------------
(* What the three share: save, run Helm, record the outcome, publish       *)

SaveIntent(c) ==
    /\ pc[c] = "saveIntent"
    /\ \/ SaveSucceeds(c) /\ Goto(c, "helm") /\ UNCHANGED agg
       \/ SaveFails(c) /\ Return(c)
    /\ UNCHANGED <<helmVars, request, published, cancelled, restarts>>

RunHelm(c) ==
    /\ pc[c] = "helm"
    /\ HelmStep(c, request[c], cancelled)
    /\ UNCHANGED <<storeVars, serviceVars>>

HelmAnswers(c, phase) ==
    /\ pc[c] = "helm" /\ operation[c].phase = phase
    /\ HelmReturns(c)

OutcomeUnchangedVars == <<storeVars, request, published, cancelled, restarts,
                          abandoned>>

RecordSuccess(c) ==
    /\ HelmAnswers(c, "succeeded") /\ c \in DOMAIN agg
    /\ request[c].kind \in {"install", "upgrade"}
    /\ IF CanMarkSucceeded(agg[c])
       THEN /\ agg' = [agg EXCEPT ![c] =
                          MarkSucceeded(agg[c], operation[c].revision)]
            /\ Goto(c, "saveOutcome")
       ELSE Return(c)
    /\ UNCHANGED OutcomeUnchangedVars

RecordRollback(c) ==
    /\ HelmAnswers(c, "succeeded") /\ c \in DOMAIN agg
    /\ request[c].kind = "rollback"
    /\ agg' = [agg EXCEPT ![c] = MarkRolledBack(agg[c])]
    /\ Goto(c, "saveOutcome")
    /\ UNCHANGED OutcomeUnchangedVars

\* Mutant of RecordFailure: the error is returned without being recorded.
RecordFailureForgotten(c) ==
    /\ HelmAnswers(c, "failed") /\ c \in DOMAIN agg
    /\ Return(c)
    /\ UNCHANGED OutcomeUnchangedVars

RecordFailure(c) ==
    /\ HelmAnswers(c, "failed") /\ c \in DOMAIN agg
    /\ agg' = [agg EXCEPT ![c] = MarkFailed(agg[c])]
    /\ Goto(c, "saveOutcome")
    /\ UNCHANGED OutcomeUnchangedVars

\* Mutant of SaveOutcome: the error of every Save is ignored.
SaveOutcomeIgnoringErrors(c) ==
    /\ pc[c] = "saveOutcome"
    /\ SaveSucceeds(c) \/ SaveFails(c)
    /\ Goto(c, "publish")
    /\ UNCHANGED <<helmVars, agg, request, published, cancelled, restarts>>

\* A failed Save of a success ends the call; that of a failure is ignored.
SaveOutcome(c) ==
    /\ pc[c] = "saveOutcome"
    /\ \/ SaveSucceeds(c) /\ Goto(c, "publish") /\ UNCHANGED agg
       \/ /\ SaveFails(c)
          /\ IF agg[c].status = "FAILED"
             THEN Goto(c, "publish") /\ UNCHANGED agg
             ELSE Return(c)
    /\ UNCHANGED <<helmVars, request, published, cancelled, restarts>>

PublishEvents(c) ==
    /\ pc[c] = "publish"
    /\ published' = [published EXCEPT ![c] = agg[c].events]
    /\ Return(c)
    /\ UNCHANGED <<storeVars, helmVars, request, cancelled, restarts,
                   abandoned>>

-----------------------------------------------------------------------------
(* UninstallChart, and the tools that bypass the service                   *)

StartAtHelm(c, q) ==
    /\ q.kind = "uninstall" \/ ~q.tracked
    /\ Accept(c, q)
    /\ Goto(c, "helm")
    /\ UNCHANGED agg

FinishDirect(c) ==
    /\ HelmAnswers(c, "succeeded") \/ HelmAnswers(c, "failed")
    /\ ~request[c].tracked
    /\ Return(c)
    /\ UNCHANGED OutcomeUnchangedVars

FinishUninstall(c) ==
    /\ pc[c] = "helm"
    /\ request[c].tracked /\ request[c].kind = "uninstall"
    /\ \/ HelmAnswers(c, "failed") /\ Return(c)
       \/ HelmAnswers(c, "succeeded") /\ Goto(c, "find") /\ UNCHANGED agg
    /\ UNCHANGED OutcomeUnchangedVars

\* Mutant of FindForUninstall: the row is deleted even if none was found.
FindForUninstallUnchecked(c) ==
    /\ pc[c] = "find"
    /\ \/ /\ StoreFails \/ RowsFor(request[c].release) = {}
          /\ UNCHANGED agg
       \/ /\ StoreAnswers /\ RowsFor(request[c].release) # {}
          /\ agg' = Put(agg, c, Reconstitute(FirstRowFor(request[c].release)))
    /\ Goto(c, "delete")
    /\ UNCHANGED LoadUnchangedVars

FindForUninstall(c) ==
    /\ pc[c] = "find"
    /\ \/ /\ StoreFails \/ RowsFor(request[c].release) = {}
          /\ Return(c)
       \/ /\ StoreAnswers /\ RowsFor(request[c].release) # {}
          /\ agg' = Put(agg, c, Reconstitute(FirstRowFor(request[c].release)))
          /\ Goto(c, "delete")
    /\ UNCHANGED LoadUnchangedVars

\* The error of Delete is ignored.
DeleteRow(c) ==
    /\ pc[c] = "delete"
    /\ \/ StoreAnswers /\ Delete(agg[c].id)
       \/ StoreFails /\ UNCHANGED storeVars
    /\ Return(c)
    /\ UNCHANGED <<helmVars, request, published, cancelled, restarts,
                   abandoned>>

-----------------------------------------------------------------------------
(* The process: over stdio the MCP library's server catches SIGTERM and    *)
(* ends the context of every call in flight.  Whenever the process dies    *)
(* the calls in flight are lost, and nothing in Build takes up the rows    *)
(* they leave behind.  A new process starts at once.                       *)

Signal ==
    /\ "signal" \in Faults /\ ~cancelled
    /\ cancelled' = TRUE
    /\ UNCHANGED <<storeVars, helmVars, pc, request, agg, published,
                   restarts, abandoned>>

Restart ==
    /\ "crash" \in Faults \/ cancelled
    /\ restarts < MaxRestarts
    /\ restarts' = restarts + 1
    /\ cancelled' = FALSE
    /\ pc' = [c \in Calls |-> IF c \in InFlight THEN "lost" ELSE pc[c]]
    /\ agg' = [c \in {} |-> {}]
    /\ operation' = [c \in Calls |-> IF c \in InFlight THEN FreshOperation
                                                       ELSE operation[c]]
    /\ abandoned' = abandoned \cup {agg[c].id : c \in DOMAIN agg}
    /\ UNCHANGED <<storeVars, helm, namespaces, request, published>>

\* No call is in flight: the server waits for the next one.
Waiting == InFlight = {} /\ UNCHANGED vars

Receive(c) ==
    \E q \in Requests :
        \/ StartInstall(c, q)
        \/ StartFromStore(c, q)
        \/ StartAtHelm(c, q)

Handle(c) ==
    \/ EnsureNamespace(c)
    \/ SavePending(c)
    \/ LoadFails(c)
    \/ LoadForUpgrade(c)
    \/ LoadForRollback(c)
    \/ SaveIntent(c)
    \/ RunHelm(c)
    \/ RecordSuccess(c)
    \/ RecordRollback(c)
    \/ RecordFailure(c)
    \/ SaveOutcome(c)
    \/ PublishEvents(c)
    \/ FinishDirect(c)
    \/ FinishUninstall(c)
    \/ FindForUninstall(c)
    \/ DeleteRow(c)

Next ==
    \/ \E c \in Calls : Receive(c) \/ Handle(c)
    \/ Signal
    \/ Restart
    \/ Waiting

Spec == Init /\ [][Next]_vars

\* A handler's goroutine keeps running, and each port call returns: Helm's
\* operations are bounded by their timeout, the store is a local file.
Fairness == \A c \in Calls : WF_vars(Handle(c))
FairSpec == Spec /\ Fairness
-----------------------------------------------------------------------------
(* Safety                                                                  *)

\* A deployment's version is one more than the successes in its history,
\* which are numbered from 1 (MarkSucceeded, entity.go).
HistoryCounts(d) ==
    /\ d.version = Len(d.history) + 1
    /\ \A i \in 1 .. Len(d.history) : d.history[i].version = i

\* Whatever calls overlap, whichever of their saves is lost and wherever the
\* process dies, each stored row and each aggregate a handler holds has a
\* version that counts its history: Save writes the two together.
VersionCountsHistory ==
    /\ \A id \in DOMAIN table : HistoryCounts(table[id])
    /\ \A c \in DOMAIN agg : HistoryCounts(agg[c])

Outcomes == {"SUCCEEDED", "FAILED", "ROLLED_BACK"}
IntentOf == [install |-> "DEPLOYING", upgrade |-> "UPGRADING",
             rollback |-> "ROLLING_BACK"]

\* What a handler holds is in the status its step supposes, so a call that
\* has announced its intent never meets ErrInvalidTransition: once Helm has
\* done the work, recording it cannot be refused, whatever other calls have
\* done to the row meanwhile.
MatchesStep(c) ==
    /\ pc[c] \in {"namespace", "savePending"} =>
           /\ request[c].tracked /\ request[c].kind = "install"
           /\ agg[c].status = "PENDING"
    /\ pc[c] \in {"saveIntent", "helm"} =>
           /\ request[c].tracked
           /\ request[c].kind \in DOMAIN IntentOf
           /\ agg[c].status = IntentOf[request[c].kind]
    /\ pc[c] = "saveOutcome" => agg[c].status \in Outcomes

IntentMatchesStep == \A c \in DOMAIN agg : MatchesStep(c)

\* The handler still has an outcome to save for this row.
WorksOn(c, id) ==
    /\ c \in DOMAIN agg /\ agg[c].id = id
    /\ pc[c] \in {"savePending", "saveIntent", "helm", "saveOutcome"}

\* A row that says work is in progress has a handler at work on it, unless
\* a Save failed on it or the process died while a handler held it.
StuckOnlyByFault ==
    \A id \in DOMAIN table :
        table[id].status \in InProgress =>
            (\E c \in Calls : WorksOn(c, id)) \/ id \in abandoned

\* When a handler publishes a success or a rollback, the row in the store
\* is the one it announces.  It holds while calls do not overlap.
PublishedSuccessIsStored ==
    [][\A c \in Calls :
          published'[c] # published[c] /\ agg[c].status # "FAILED"
            => /\ agg[c].id \in DOMAIN table
               /\ table[agg[c].id].status = agg[c].status
               /\ table[agg[c].id].version = agg[c].version]_vars

Requested(c, kind, release) ==
    /\ c \in DOMAIN request
    /\ request[c].kind = kind /\ request[c].release = release

InstalledOnce(release) ==
    \A c, d \in Calls : Requested(c, "install", release)
                        /\ Requested(d, "install", release) => c = d

\* With no call in flight, a SUCCEEDED row of a release that was installed
\* by one call and never uninstalled names Helm's current revision, and
\* that one is deployed.  It holds while calls do not overlap, whatever
\* fails.
StoredRevisionIsCurrent ==
    InFlight = {} =>
        \A id \in DOMAIN table :
            LET row == table[id]
                r == row.release IN
            /\ row.status = "SUCCEEDED"
            /\ InstalledOnce(r)
            /\ \A c \in Calls : ~Requested(c, "uninstall", r)
            => helm[r] = [status |-> "deployed",
                          revision |-> row.history[Len(row.history)].helmVersion]

\* Every request for this release is real and leaves its revisions in place.
NothingPurged(release) ==
    \A c \in DOMAIN request :
        request[c].release = release
            => ~request[c].dryRun /\ request[c].kind # "uninstall"

\* The Helm revisions in a row's history increase, however upgrades overlap,
\* whichever of their saves is lost and however often Helm is retried.  A dry
\* run records a revision that Helm never made; an uninstall purges them.
HelmRevisionsIncrease ==
    \A id \in DOMAIN table :
        LET history == table[id].history IN
        NothingPurged(table[id].release) =>
            \A i, j \in 1 .. Len(history) :
                i < j => history[i].helmVersion < history[j].helmVersion

\* A release may have several rows, as every installation makes its own.  At
\* most one of them ever records a success, however calls overlap, fail and
\* are retried: a row that shadows the release's own in FindByReleaseName is
\* one that has never succeeded.  A dry run succeeds every time, and after an
\* uninstall the next installation succeeds as well.
OneRowSucceeded ==
    \A i, j \in DOMAIN table :
        /\ table[i].history # <<>> /\ table[j].history # <<>>
        /\ table[i].release = table[j].release
        /\ NothingPurged(table[i].release)
        => i = j

-----------------------------------------------------------------------------
(* Refinement and liveness                                                 *)

Lifecycle == INSTANCE ReleaseLifecycle WITH
    record <- [id \in Ids |->
                  IF id \in DOMAIN table
                  THEN [status |-> table[id].status,
                        version |-> table[id].version]
                  ELSE [status |-> "ABSENT", version |-> 0]]

\* While calls do not overlap, the stored rows follow the lifecycle of the
\* aggregate from one saved state to the next, whatever fails in between.
FollowsLifecycle == Lifecycle!Spec

\* A call that has arrived returns, or is lost with the process.
CallsReturn == \A c \in Calls : c \in InFlight ~> c \notin InFlight

\* A row in progress reaches an outcome, is removed, or is abandoned by a
\* failed Save or a dead process, however calls overlap.
Unsettled(id) == id \in DOMAIN table /\ table[id].status \in InProgress
RowsSettle ==
    \A id \in Ids : Unsettled(id) ~> (~Unsettled(id) \/ id \in abandoned)

-----------------------------------------------------------------------------
(* What the documentation and the comments claim and the code does not do  *)

\* A deleted record is gone permanently: only an install's first save makes
\* a row appear (Repository.Delete, domain/deployment/repository.go).
DeletedForGood ==
    [][\A id \in DOMAIN table' \ DOMAIN table :
          table'[id].status = "PENDING"]_vars
=============================================================================
