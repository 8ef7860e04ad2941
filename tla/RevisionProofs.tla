---------------------------- MODULE RevisionProofs ----------------------------
(***************************************************************************)
(* Proofs about the Helm revisions that the store names: those in a row's  *)
(* history increase and one row of a release at most has any, however      *)
(* calls overlap, and while clients make one tracked, real call after the  *)
(* other a SUCCEEDED row names the revision that Helm has deployed.        *)
(***************************************************************************)
EXTENDS LifecycleProofs

-----------------------------------------------------------------------------
(* Where rows and aggregates come from                                     *)

\* Requests are added and never changed.
Grown(c) ==
    \/ UNCHANGED request
    \/ /\ c \notin DOMAIN request
       /\ \E q \in Requests : request' = Put(request, c, q)

\* So what a release was asked for stays asked for.
LEMMA GrownKeeps ==
    ASSUME NEW c \in Calls, Grown(c)
    PROVE  /\ \A d \in DOMAIN request :
                  d \in DOMAIN request' /\ request'[d] = request[d]
           /\ DOMAIN request' \subseteq DOMAIN request \cup {c}
           /\ \A d, kind, r : Requested(d, kind, r) => Requested(d, kind, r)'
           /\ \A r : NothingPurged(r)' => NothingPurged(r)
<1>1. /\ \A d \in DOMAIN request :
             d \in DOMAIN request' /\ request'[d] = request[d]
      /\ DOMAIN request' \subseteq DOMAIN request \cup {c}
    BY DEF Grown, Put
<1>2. \A d, kind, r : Requested(d, kind, r) => Requested(d, kind, r)'
    BY <1>1 DEF Requested
<1>3. \A r : NothingPurged(r)' => NothingPurged(r)
    BY <1>1 DEF NothingPurged
<1> QED
    BY <1>1, <1>2, <1>3

\* The row that a handler's step writes is the aggregate it holds, and keeps
\* its release if it was there.
Writes(c, id) ==
    /\ pc[c] \in {"savePending", "saveIntent", "saveOutcome"}
    /\ c \in DOMAIN agg /\ id = agg[c].id
    /\ table'[id].status = agg[c].status
    /\ table'[id].history = agg[c].history
    /\ table'[id].release = IF id \in DOMAIN table THEN table[id].release
                                                   ELSE agg[c].release

\* A row is as it was or the step has written it.
LEMMA RowSources ==
    ASSUME TypeOK, NEW c \in Calls, Receive(c) \/ Handle(c),
           NEW id \in DOMAIN table'
    PROVE  \/ id \in DOMAIN table /\ table'[id] = table[id]
           \/ Writes(c, id)
<1>1. CASE /\ SavePending(c) \/ SaveIntent(c) \/ SaveOutcome(c)
           /\ Save(agg[c])
    <2>1. /\ pc[c] \in {"savePending", "saveIntent", "saveOutcome"}
          /\ c \in DOMAIN agg /\ agg[c] \in Aggregate
        BY <1>1, AtWork DEF SavePending, SaveIntent, SaveOutcome, HoldingSteps
    <2> DEFINE d == agg[c]
               Written(row) ==
                   /\ row.status = d.status /\ row.history = d.history
                   /\ row.release = IF d.id \in DOMAIN table
                                    THEN table[d.id].release ELSE d.release
    <2>2. d.id \in DOMAIN table => Written(UpdatedRow(table[d.id], d))
        BY DEF UpdatedRow, TypeOK, StoreTypeOK, Row
    <2>3. d.id \notin DOMAIN table => Written(RowOf(d, nextRowid))
        BY DEF RowOf
    <2>4. \E row : Written(row) /\ table' = Put(table, d.id, row)
        BY <1>1, <2>2, <2>3, Zenon DEF Save
    <2> QED
        BY <2>1, <2>4 DEF Put, Writes
<1>2. CASE DeleteRow(c)
    BY <1>2 DEF DeleteRow, Delete, Drop, storeVars
<1>3. CASE UNCHANGED table
    BY <1>3
<1>4. /\ Receive(c) => UNCHANGED table
      /\ Handle(c) => \/ UNCHANGED table
                      \/ DeleteRow(c)
                      \/ /\ SavePending(c) \/ SaveIntent(c) \/ SaveOutcome(c)
                         /\ Save(agg[c])
    BY DEF Handle, Receive, StartInstall, StartFromStore, StartAtHelm, Accept,
           EnsureNamespace, LoadFails, LoadForUpgrade, LoadForRollback,
           RunHelm, RecordSuccess, RecordRollback, RecordFailure,
           PublishEvents, FinishDirect, FinishUninstall, FindForUninstall,
           SavePending, SaveIntent, SaveOutcome, SaveSucceeds, SaveFails,
           LoadUnchangedVars, OutcomeUnchangedVars, storeVars
<1> QED
    BY <1>1, <1>2, <1>3, <1>4

\* The ways a handler comes to hold what it holds: as before but for a status
\* that is no success, with a success appended to the history, or loaded.
Continues(c) ==
    /\ c \in DOMAIN agg
    /\ agg'[c].id = agg[c].id /\ agg'[c].release = agg[c].release
    /\ agg'[c].history = agg[c].history
    /\ agg'[c].status \in {"SUCCEEDED", "UPGRADING"} =>
           agg'[c].status = agg[c].status

Succeeds(c) ==
    /\ RecordSuccess(c) /\ c \in DOMAIN agg
    /\ agg'[c].id = agg[c].id /\ agg'[c].release = agg[c].release
    /\ \E entry \in HistoryEntry :
           /\ agg'[c].history = Append(agg[c].history, entry)
           /\ entry.helmVersion = operation[c].revision

Loads(c) ==
    /\ pc[c] \in {"load", "find"}
    /\ \E id \in RowsFor(request[c].release) :
           /\ agg'[c].id = id /\ agg'[c].release = table[id].release
           /\ agg'[c].history = table[id].history
           /\ agg'[c].status \in {"SUCCEEDED", "UPGRADING"} =>
                  table[id].status \in {"SUCCEEDED", "UPGRADING"}

Starts(c) ==
    /\ c \in DOMAIN request'
    /\ request'[c].kind = "install"
    /\ agg'[c].id = c /\ agg'[c].release = request'[c].release
    /\ agg'[c].history = <<>> /\ agg'[c].status = "PENDING"
    /\ pc'[c] \in {"namespace", "savePending"}

\* A handler that holds an aggregate has come by it in one of these ways.
LEMMA HoldingSources ==
    ASSUME TypeOK, NEW c \in Calls, Handle(c), c \in DOMAIN agg'
    PROVE  Continues(c) \/ Succeeds(c) \/ Loads(c)
<1> DEFINE loaded == Reconstitute(FirstRowFor(request[c].release))
<1>1. ~Return(c)
    BY DEF Return, Drop
<1>2. /\ c \in DOMAIN agg => agg[c] \in Aggregate
      /\ operation[c].revision \in Nat
    BY DEF TypeOK, AggregatesOK, HelmTypeOK, Operation
<1>3. CASE UNCHANGED agg
    BY <1>3 DEF Continues
<1>4. CASE SavePending(c) /\ agg' # agg
    <2>1. c \in DOMAIN agg /\ agg'[c] = StartDeployment(agg[c])
        BY <1>1, <1>4, AtWork DEF SavePending, HoldingSteps
    <2> QED
        BY <1>2, <2>1 DEF StartDeployment, Aggregate, Continues
<1>5. CASE LoadForUpgrade(c) \/ LoadForRollback(c) \/ FindForUninstall(c)
    <2>1. /\ pc[c] \in {"load", "find"}
          /\ RowsFor(request[c].release) # {}
          /\ \/ /\ loaded.status = "SUCCEEDED"
                /\ agg'[c] = StartUpgrade(loaded, request[c].chart)
             \/ agg'[c] = StartRollback(loaded)
             \/ agg'[c] = loaded
        BY <1>1, <1>5 DEF LoadForUpgrade, LoadForRollback, FindForUninstall,
                          CanStartUpgrade, Put
    <2>2. PICK id \in RowsFor(request[c].release) : loaded = Reconstitute(id)
        BY <2>1, FirstRowIsARow DEF TypeOK
    <2>3. /\ loaded \in Aggregate
          /\ loaded.id = id /\ loaded.release = table[id].release
          /\ loaded.history = table[id].history
          /\ loaded.status = table[id].status
        BY <2>1, <2>2, LoadedType DEF Reconstitute, TypeOK
    <2> HIDE DEF loaded
    <2>4. /\ agg'[c].id = loaded.id /\ agg'[c].release = loaded.release
          /\ agg'[c].history = loaded.history
          /\ agg'[c].status \in {"SUCCEEDED", "UPGRADING"} =>
                 loaded.status \in {"SUCCEEDED", "UPGRADING"}
        BY <2>1, <2>3 DEF StartUpgrade, StartRollback, Aggregate
    <2> QED
        BY <2>1, <2>2, <2>3, <2>4 DEF Loads
<1>6. CASE RecordSuccess(c)
    <2>1. c \in DOMAIN agg
          /\ agg'[c] = MarkSucceeded(agg[c], operation[c].revision)
        BY <1>1, <1>6 DEF RecordSuccess
    <2> DEFINE entry == [version |-> agg[c].version, status |-> agg[c].status,
                         chart |-> agg[c].chart,
                         helmVersion |-> operation[c].revision]
    <2>2. entry \in HistoryEntry /\ entry.helmVersion = operation[c].revision
        BY <1>2, <2>1 DEF HistoryEntry, Aggregate
    <2>3. /\ agg'[c].id = agg[c].id /\ agg'[c].release = agg[c].release
          /\ agg'[c].history = Append(agg[c].history, entry)
        BY <1>2, <2>1 DEF MarkSucceeded, Aggregate
    <2> QED
        BY <1>6, <2>1, <2>2, <2>3 DEF Succeeds
<1>7. CASE RecordRollback(c) \/ RecordFailure(c)
    <2>1. /\ c \in DOMAIN agg
          /\ agg'[c] = MarkRolledBack(agg[c]) \/ agg'[c] = MarkFailed(agg[c])
        BY <1>7 DEF RecordRollback, RecordFailure
    <2> QED
        BY <1>2, <2>1 DEF MarkRolledBack, MarkFailed, Aggregate, Continues
<1>8. \/ UNCHANGED agg \/ SavePending(c)
      \/ LoadForUpgrade(c) \/ LoadForRollback(c) \/ FindForUninstall(c)
      \/ RecordSuccess(c) \/ RecordRollback(c) \/ RecordFailure(c)
    BY <1>1 DEF Handle, EnsureNamespace, LoadFails, SaveIntent, RunHelm,
                SaveOutcome, PublishEvents, FinishDirect, FinishUninstall,
                DeleteRow, serviceVars
<1> QED
    BY <1>3, <1>4, <1>5, <1>6, <1>7, <1>8

\* What a request that arrives makes its handler hold.
LEMMA ArrivalSources ==
    ASSUME TypeOK, NEW c \in Calls, Receive(c), c \in DOMAIN agg'
    PROVE  Starts(c)
<1>1. PICK q \in Requests :
          StartInstall(c, q) \/ StartFromStore(c, q) \/ StartAtHelm(c, q)
    BY DEF Receive
<1>2. pc[c] = "idle" /\ request' = Put(request, c, q)
    BY <1>1 DEF StartInstall, StartFromStore, StartAtHelm, Accept
<1>3. c \notin DOMAIN agg
    BY <1>2 DEF TypeOK, AggregatesOK, InFlight
<1>4. /\ q.kind = "install" /\ pc'[c] \in {"namespace", "savePending"}
      /\ agg'[c] = NewDeployment(c, q.release, q.chart)
    BY <1>1, <1>3 DEF StartInstall, StartFromStore, StartAtHelm, Return, Drop,
                      Put, Goto, TypeOK
<1>5. c \in DOMAIN request' /\ request'[c] = q
    BY <1>2 DEF Put
<1> QED
    BY <1>4, <1>5 DEF Starts, NewDeployment

-----------------------------------------------------------------------------
(* What a step of a Helm operation does to its release                     *)

AtWorkPhases == {"running", "succeeded"}

\* The operation rests, or is over without success.
Rests(c) == UNCHANGED helm /\ operation'[c].phase \notin AtWorkPhases

\* It takes the release's next revision; an installation needs a free name.
Begins(c, q) ==
    /\ operation[c].phase = "ready"
    /\ q.kind = "install" => helm[q.release].status = "none"
    /\ operation'[c].phase = "running"
    /\ operation'[c].revision = helm[q.release].revision + 1
    /\ helm'[q.release] = [status |-> "pending",
                           revision |-> helm[q.release].revision + 1]

\* It succeeds, and its revision is deployed if it is still the newest.
Completes(c, q) ==
    /\ operation[c].phase = "running" /\ operation'[c].phase = "succeeded"
    /\ operation'[c].revision = operation[c].revision
    /\ IF helm[q.release].revision = operation[c].revision
       THEN helm'[q.release] = [status |-> "deployed",
                                revision |-> operation[c].revision]
       ELSE helm'[q.release] = helm[q.release]

\* It fails after it has written: only an atomic installation takes revisions
\* away, and those of the whole release.
Breaks(c, q) ==
    /\ operation[c].phase = "running"
    /\ operation'[c].phase \notin AtWorkPhases
    /\ \/ /\ q.kind = "install"
          /\ helm'[q.release] = NoRelease
       \/ /\ helm'[q.release].revision >= helm[q.release].revision
          /\ \/ helm'[q.release].status # "none"
             \/ helm'[q.release].status = helm[q.release].status

\* A Helm operation touches its own release and no other operation.
LEMMA HelmFrame ==
    ASSUME HelmTypeOK, NEW c \in Calls, NEW q \in Requests, NEW done,
           HelmStep(c, q, done)
    PROVE  /\ \A r \in Releases \ {q.release} : helm'[r] = helm[r]
           /\ \A d \in Calls \ {c} : operation'[d] = operation[d]
BY DEF HelmStep, SetupFails, AttemptRefused, DryRun, BeginInstall,
       BeginUpgrade, BeginRollback, BeginUninstall, NewRevision, Complete,
       Break, Retry, GiveUp, AttemptFailed, Moved, WriteStatus, Purge,
       HelmTypeOK

\* Every step of a real operation that is no uninstall is one of these.
LEMMA HelmEffects ==
    ASSUME HelmTypeOK, NEW c \in Calls, NEW q \in Requests, NEW done,
           ~q.dryRun, q.kind # "uninstall", HelmStep(c, q, done)
    PROVE  Rests(c) \/ Begins(c, q) \/ Completes(c, q) \/ Breaks(c, q)
<1>1. /\ q.release \in Releases
      /\ helm \in [Releases -> ReleaseRecord]
      /\ operation \in [Calls -> Operation]
      /\ helm[q.release] \in ReleaseRecord /\ operation[c] \in Operation
    BY RequestFields DEF HelmTypeOK
<1>2. \A status : WriteStatus(c, q, status) =>
          IF helm[q.release].revision = operation[c].revision
          THEN helm'[q.release] = [status |-> status,
                                   revision |-> operation[c].revision]
          ELSE helm'[q.release] = helm[q.release]
    BY <1>1 DEF WriteStatus, ReleaseRecord
<1>3. AttemptFailed(c, q, done) => operation'[c].phase \notin AtWorkPhases
    BY <1>1 DEF AttemptFailed, Moved, Operation, AtWorkPhases
<1>4. CASE SetupFails(c) \/ AttemptRefused(c, q, done)
           \/ Retry(c, done) \/ GiveUp(c, done)
    <2>1. operation'[c].phase \notin AtWorkPhases
        BY <1>1, <1>3, <1>4
        DEF SetupFails, AttemptRefused, Retry, GiveUp, Moved, Operation,
            AtWorkPhases
    <2> QED
        BY <1>4, <2>1 DEF SetupFails, AttemptRefused, Retry, GiveUp, Rests
<1>5. CASE BeginInstall(c, q, done) \/ BeginUpgrade(c, q, done)
           \/ BeginRollback(c, q)
    <2>1. /\ operation[c].phase = "ready" /\ Accepts(q)
          /\ NewRevision(c, q)
        BY <1>5 DEF BeginInstall, BeginUpgrade, BeginRollback, Begin
    <2>2. q.kind = "install" => helm[q.release].status = "none"
        BY <2>1 DEF Accepts
    <2>3. /\ operation'[c].phase = "running"
          /\ operation'[c].revision = helm[q.release].revision + 1
          /\ helm'[q.release] = [status |-> "pending",
                                 revision |-> helm[q.release].revision + 1]
        BY <1>1, <2>1 DEF NewRevision, Operation
    <2> QED
        BY <2>1, <2>2, <2>3 DEF Begins
<1>6. CASE Complete(c, q)
    <2>1. /\ operation[c].phase = "running"
          /\ operation'[c].phase = "succeeded"
          /\ operation'[c].revision = operation[c].revision
          /\ WriteStatus(c, q, "deployed")
        BY <1>1, <1>6 DEF Complete, Moved, Operation
    <2> QED
        BY <1>2, <2>1 DEF Completes
<1>7. CASE Break(c, q, done)
    <2>1. /\ operation[c].phase = "running"
          /\ operation'[c].phase \notin AtWorkPhases
        BY <1>3, <1>7 DEF Break
    <2>2. helm[q.release].revision \in Nat
        BY <1>1 DEF ReleaseRecord
    <2>3. CASE WriteStatus(c, q, "failed")
        <3>1. /\ helm'[q.release].revision = helm[q.release].revision
              /\ \/ helm'[q.release].status = "failed"
                 \/ helm'[q.release].status = helm[q.release].status
            <4>1. IF helm[q.release].revision = operation[c].revision
                  THEN helm'[q.release] = [status |-> "failed",
                                           revision |-> operation[c].revision]
                  ELSE helm'[q.release] = helm[q.release]
                BY <1>2, <2>3
            <4> QED
                BY <4>1
        <3>2. helm'[q.release].revision >= helm[q.release].revision
            BY <2>2, <3>1
        <3> QED
            BY <2>1, <3>1, <3>2 DEF Breaks
    <2>4. CASE q.kind = "install" /\ Purge(q)
        BY <1>1, <2>1, <2>4 DEF Breaks, Purge
    <2>5. CASE helm' = [helm EXCEPT ![q.release] =
                   [status |-> "deployed", revision |-> @.revision + 1]]
        BY <1>1, <2>1, <2>2, <2>5 DEF Breaks
    <2> QED
        BY <1>7, <2>3, <2>4, <2>5 DEF Break
<1> QED
    BY <1>4, <1>5, <1>6, <1>7 DEF HelmStep, DryRun, BeginUninstall, Rests

-----------------------------------------------------------------------------
(* Rows and aggregates carry the release their installation asked for      *)

RowsOriginate ==
    \A id \in DOMAIN table : Requested(id, "install", table[id].release)

HolderOriginates(c) ==
    /\ agg[c].release = request[c].release
    /\ Requested(agg[c].id, "install", agg[c].release)

\* A Helm operation is under way only while the handler is at its Helm call,
\* and a tracked call that records its outcome holds an aggregate there.
HelmReached(c) ==
    /\ pc[c] # "helm" => operation[c].phase = "ready"
    /\ pc[c] = "helm" => \/ request[c].kind = "uninstall"
                         \/ ~request[c].tracked
                         \/ c \in DOMAIN agg

\* What has succeeded has a success in its history.
SuccessRecorded(d) ==
    d.status \in {"SUCCEEDED", "UPGRADING"} => d.history # <<>>

OriginInv ==
    /\ \A c \in DOMAIN request : pc[c] # "idle"
    /\ RowsOriginate
    /\ \A c \in DOMAIN agg : HolderOriginates(c)
    /\ \A c \in Calls : HelmReached(c)
    /\ \A id \in DOMAIN table : SuccessRecorded(table[id])
    /\ \A c \in DOMAIN agg : SuccessRecorded(agg[c])

\* A step of a call leaves the other calls alone and requests as they were.
LEMMA CallsAlone ==
    ASSUME TypeOK, OriginInv, NEW c \in Calls, Receive(c) \/ Handle(c)
    PROVE  /\ Grown(c) /\ OnlyChanges(c) /\ pc'[c] # "idle"
           /\ \A d \in Calls \ {c} : pc'[d] = pc[d]
<1>1. CASE Receive(c)
    <2>1. PICK q \in Requests :
              StartInstall(c, q) \/ StartFromStore(c, q) \/ StartAtHelm(c, q)
        BY <1>1 DEF Receive
    <2>2. pc[c] = "idle" /\ request' = Put(request, c, q)
        BY <2>1 DEF StartInstall, StartFromStore, StartAtHelm, Accept
    <2>3. Grown(c)
        BY <2>2 DEF OriginInv, Grown
    <2>4. pc'[c] # "idle" /\ \A d \in Calls \ {c} : pc'[d] = pc[d]
        BY <2>1 DEF StartInstall, StartFromStore, StartAtHelm, Goto, Return,
                    TypeOK
    <2>5. OnlyChanges(c)
        BY <2>1 DEF StartInstall, StartFromStore, StartAtHelm, Return, Put,
                    Drop, OnlyChanges
    <2> QED
        BY <2>3, <2>4, <2>5
<1>2. CASE RunHelm(c)
    BY <1>2 DEF RunHelm, serviceVars, Grown, OnlyChanges
<1>3. CASE Handle(c) /\ ~RunHelm(c)
    <2>1. pc'[c] # "idle"
        BY <1>3 DEF Handle, EnsureNamespace, SavePending, LoadFails,
               LoadForUpgrade, LoadForRollback, SaveIntent,
               RecordSuccess, RecordRollback, RecordFailure, SaveOutcome,
               PublishEvents, FinishDirect, FinishUninstall,
               FindForUninstall, DeleteRow, Return, Goto, TypeOK
    <2> QED
        BY <1>3, <2>1, HandleMoves DEF Grown
<1> QED
    BY <1>1, <1>2, <1>3

\* Away from its Helm call a handler leaves Helm alone, and comes to it or
\* leaves it with no operation under way.
LEMMA HelmAlone ==
    ASSUME TypeOK, OriginInv, NEW c \in Calls,
           Receive(c) \/ (Handle(c) /\ ~RunHelm(c))
    PROVE  /\ UNCHANGED helm
           /\ operation'[c].phase = "ready"
           /\ \A d \in Calls \ {c} : operation'[d] = operation[d]
           /\ HelmReached(c)'
<1>1. HelmReached(c) /\ pc \in [Calls -> Step]
      /\ operation \in [Calls -> Operation]
    BY DEF OriginInv, TypeOK, HelmTypeOK
<1>2. CASE Receive(c)
    <2>1. PICK q \in Requests :
              StartInstall(c, q) \/ StartFromStore(c, q) \/ StartAtHelm(c, q)
        BY <1>2 DEF Receive
    <2>2. /\ pc[c] = "idle" /\ UNCHANGED <<helm, operation>>
          /\ request'[c] = q
        BY <2>1 DEF StartInstall, StartFromStore, StartAtHelm, Accept,
                    helmVars, Put
    <2>3. pc'[c] = "helm" => q.kind = "uninstall" \/ ~q.tracked
        BY <1>1, <2>1 DEF StartInstall, StartFromStore, StartAtHelm, Goto,
                          Return
    <2> QED
        BY <1>1, <2>2, <2>3 DEF HelmReached
<1>3. CASE \/ RecordSuccess(c) \/ RecordRollback(c) \/ RecordFailure(c)
           \/ FinishDirect(c) \/ FinishUninstall(c)
    <2>1. HelmReturns(c)
        BY <1>3 DEF RecordSuccess, RecordRollback, RecordFailure,
                    FinishDirect, FinishUninstall, HelmAnswers
    <2>2. pc'[c] # "helm"
        BY <1>1, <1>3 DEF RecordSuccess, RecordRollback, RecordFailure,
                    FinishDirect, FinishUninstall, Goto, Return
    <2> QED
        BY <1>1, <2>1, <2>2 DEF HelmReturns, FreshOperation, HelmReached
<1>4. CASE SaveIntent(c)
    <2>1. /\ pc[c] = "saveIntent" /\ UNCHANGED <<helm, operation, request>>
          /\ c \in DOMAIN agg
          /\ pc'[c] = "helm" => UNCHANGED agg
        BY <1>1, <1>4, AtWork DEF SaveIntent, HoldingSteps, helmVars, Goto,
                                  Return
    <2> QED
        BY <1>1, <2>1 DEF HelmReached
<1>5. CASE \/ EnsureNamespace(c) \/ SavePending(c) \/ LoadFails(c)
           \/ LoadForUpgrade(c) \/ LoadForRollback(c) \/ SaveOutcome(c)
           \/ PublishEvents(c) \/ FindForUninstall(c) \/ DeleteRow(c)
    <2>1. /\ pc[c] # "helm" /\ pc'[c] # "helm"
          /\ UNCHANGED <<helm, operation>>
        BY <1>1, <1>5
        DEF EnsureNamespace, SavePending, LoadFails, LoadForUpgrade,
            LoadForRollback, SaveOutcome, PublishEvents, FindForUninstall,
            DeleteRow, LoadUnchangedVars, helmVars, Goto, Return
    <2> QED
        BY <1>1, <2>1 DEF HelmReached
<1> QED
    BY <1>2, <1>3, <1>4, <1>5 DEF Handle

\* What a handler holds is of the release its request names, which is that of
\* an installation, and records its success if it has one.
LEMMA HolderOrigin ==
    ASSUME TypeOK, OriginInv, NEW c \in Calls, Receive(c) \/ Handle(c),
           c \in DOMAIN agg'
    PROVE  HolderOriginates(c)' /\ SuccessRecorded(agg'[c])
<1>1. Grown(c)
    BY CallsAlone
<1>2. CASE Receive(c)
    BY <1>2, ArrivalSources
    DEF Starts, HolderOriginates, Requested, SuccessRecorded
<1>3. CASE Handle(c)
    <2>1. c \in DOMAIN request /\ request'[c] = request[c]
        <3>1. pc[c] \notin {"idle", "done", "lost"}
            BY <1>3, HandleMoves DEF RunHelm
        <3> QED
            BY <1>1, <3>1, AtWork, GrownKeeps
    <2>2. CASE Continues(c)
        BY <2>1, <2>2, <1>1, GrownKeeps
        DEF OriginInv, Continues, HolderOriginates, SuccessRecorded
    <2>3. CASE Succeeds(c)
        <3>1. agg'[c].history # <<>>
            <4>1. agg[c].history \in Seq(HistoryEntry)
                BY <2>3 DEF Succeeds, TypeOK, AggregatesOK, Aggregate
            <4> QED
                BY <2>3, <4>1 DEF Succeeds
        <3> QED
            BY <2>1, <2>3, <3>1, <1>1, GrownKeeps
            DEF OriginInv, Succeeds, HolderOriginates, SuccessRecorded
    <2>4. CASE Loads(c)
        BY <2>1, <2>4, <1>1, GrownKeeps
        DEF OriginInv, Loads, RowsFor, RowsOriginate, HolderOriginates,
            SuccessRecorded
    <2> QED
        BY <1>3, <2>2, <2>3, <2>4, HoldingSources
<1> QED
    BY <1>2, <1>3

\* A row that a step writes has the release of the aggregate: both are what
\* the same installation asked for.
LEMMA WrittenRelease ==
    ASSUME OriginInv, NEW c \in Calls, NEW id, Writes(c, id)
    PROVE  table'[id].release = agg[c].release
BY DEF OriginInv, Writes, HolderOriginates, RowsOriginate, Requested

\* The rows keep their origin and record their success.
LEMMA RowOrigin ==
    ASSUME TypeOK, OriginInv, NEW c \in Calls, Receive(c) \/ Handle(c)
    PROVE  /\ RowsOriginate'
           /\ \A id \in DOMAIN table' : SuccessRecorded(table'[id])
<1>1. Grown(c)
    BY CallsAlone
<1> SUFFICES ASSUME NEW id \in DOMAIN table'
             PROVE  /\ Requested(id, "install", table[id].release)'
                    /\ SuccessRecorded(table'[id])
    BY DEF RowsOriginate
<1>2. CASE id \in DOMAIN table /\ table'[id] = table[id]
    <2>1. Requested(id, "install", table[id].release)
        BY <1>2 DEF OriginInv, RowsOriginate
    <2> QED
        BY <1>1, <1>2, <2>1, GrownKeeps DEF OriginInv, Requested
<1>3. CASE Writes(c, id)
    <2>1. Requested(id, "install", agg[c].release)
        BY <1>3 DEF OriginInv, Writes, HolderOriginates
    <2>2. Requested(id, "install", table'[id].release)
        BY <1>3, <2>1, WrittenRelease
    <2> QED
        BY <1>1, <1>3, <2>2, GrownKeeps
        DEF OriginInv, Writes, SuccessRecorded, Requested
<1> QED
    BY <1>2, <1>3, RowSources

\* The inductive step of OriginInv.
LEMMA OriginStep ==
    ASSUME TypeOK, OriginInv, [Next]_vars
    PROVE  OriginInv'
<1>1. ASSUME NEW c \in Calls, Receive(c) \/ Handle(c)
      PROVE  OriginInv'
    <2>1. /\ Grown(c) /\ OnlyChanges(c) /\ pc'[c] # "idle"
          /\ \A d \in Calls \ {c} : pc'[d] = pc[d]
        BY <1>1, CallsAlone
    <2>2. TypeOK'
        BY <1>1, StepType DEF Next
    <2>3. \A d \in DOMAIN request' : pc'[d] # "idle"
        BY <2>1, <2>2, GrownKeeps DEF OriginInv, TypeOK, RequestsOK
    <2>4. ASSUME NEW d \in Calls \ {c}, d \in DOMAIN agg'
          PROVE  HolderOriginates(d)' /\ SuccessRecorded(agg'[d])
        <3>1. d \in DOMAIN agg /\ agg'[d] = agg[d] /\ d \in DOMAIN request
            BY <2>1, <2>4 DEF OnlyChanges, TypeOK, AggregatesOK, RequestsOK
        <3>2. request'[d] = request[d]
            BY <2>1, <3>1, GrownKeeps
        <3> QED
            BY <2>1, <3>1, <3>2, GrownKeeps DEF OriginInv, HolderOriginates
    <2>5. ASSUME NEW d \in Calls PROVE HelmReached(d)'
        <3>1. CASE d = c /\ ~RunHelm(c)
            BY <1>1, <3>1, HelmAlone
        <3>2. CASE RunHelm(c) /\ d = c
            <4>1. pc[c] = "helm" /\ UNCHANGED <<pc, request, agg>>
                BY <3>2 DEF RunHelm, serviceVars
            <4> QED
                BY <3>2, <4>1 DEF OriginInv, HelmReached
        <3>3. CASE d # c
            <4>1. operation'[d] = operation[d]
                <5>1. CASE RunHelm(c)
                    BY <3>3, <5>1, AtWork, HelmFrame
                    DEF RunHelm, TypeOK
                <5> QED
                    BY <1>1, <3>3, <5>1, HelmAlone
            <4>2. pc'[d] = pc[d] /\ (d \in DOMAIN agg' <=> d \in DOMAIN agg)
                BY <2>1, <3>3 DEF OnlyChanges
            <4>3. pc[d] = "helm" => request'[d] = request[d]
                BY <2>1, GrownKeeps, AtWork
            <4> QED
                BY <4>1, <4>2, <4>3 DEF OriginInv, HelmReached
        <3> QED
            BY <3>1, <3>2, <3>3
    <2>6. DOMAIN agg' \subseteq Calls
        BY <2>2 DEF TypeOK, AggregatesOK, InFlight
    <2>7. \A d \in DOMAIN agg' :
              HolderOriginates(d)' /\ SuccessRecorded(agg'[d])
        BY <1>1, <2>4, <2>6, HolderOrigin
    <2>8. \A d \in DOMAIN agg' : SuccessRecorded(agg'[d])
        BY <2>7
    <2> QED
        BY <1>1, <2>3, <2>5, <2>7, <2>8, RowOrigin DEF OriginInv
<1>2. CASE Restart
    <2>1. UNCHANGED <<table, request>> /\ DOMAIN agg' = {}
        BY <1>2 DEF Restart, storeVars
    <2>2. \A d \in Calls : /\ pc[d] # "idle" => pc'[d] # "idle"
                           /\ pc'[d] # "helm"
                           /\ operation'[d].phase = "ready"
        BY <1>2 DEF Restart, InFlight, FreshOperation, OriginInv, HelmReached
    <2> QED
        BY <2>1, <2>2 DEF OriginInv, RowsOriginate, Requested, HelmReached,
                          TypeOK, RequestsOK
<1>3. CASE UNCHANGED <<table, agg, pc, request, operation>>
    BY <1>3 DEF OriginInv, RowsOriginate, Requested, HelmReached,
                HolderOriginates
<1> QED
    BY <1>1, <1>2, <1>3
    DEF Next, Signal, Waiting, vars, storeVars, helmVars, serviceVars

\* Whatever calls overlap, rows and aggregates keep their origin.
LEMMA OriginKept == Spec => []OriginInv
<1>1. Init => OriginInv
    BY DEF Init, StoreInit, HelmInit, FreshOperation, OriginInv,
           RowsOriginate, HelmReached
<1>2. TypeOK /\ OriginInv /\ [Next]_vars => OriginInv'
    BY OriginStep
<1> QED
    BY <1>1, <1>2, TypeCorrect, PTL DEF Spec

-----------------------------------------------------------------------------
(* The revisions in a history increase                                     *)

Histories(r) ==
    {table[id].history : id \in {i \in DOMAIN table : table[i].release = r}}
    \cup {agg[c].history : c \in {d \in DOMAIN agg : agg[d].release = r}}

Increases(history) ==
    \A i, j \in 1 .. Len(history) :
        i < j => history[i].helmVersion < history[j].helmVersion

UpTo(history, n) ==
    \A i \in 1 .. Len(history) : history[i].helmVersion <= n

InstallAt(c, r, phase) ==
    /\ pc[c] = "helm"
    /\ request[c].kind = "install" /\ request[c].release = r
    /\ operation[c].phase = phase

\* An installation of the release has succeeded.
Established(r) ==
    \/ \E history \in Histories(r) : history # <<>>
    \/ \E c \in Calls : InstallAt(c, r, "succeeded")

\* The revision that the handler is about to append to a history.
WorksFor(c, r) ==
    /\ pc[c] = "helm" /\ c \in DOMAIN agg
    /\ request[c].release = r
    /\ request[c].kind \in {"install", "upgrade"}
    /\ operation[c].phase \in AtWorkPhases

\* Only a failed atomic installation takes revisions away from a release that
\* nobody uninstalls, and one is under way only before any has succeeded.
InstallsOnce(r) ==
    \A c \in Calls : InstallAt(c, r, "running") =>
        /\ helm[r].status # "none" /\ ~Established(r)
        /\ \A d \in Calls : InstallAt(d, r, "running") => c = d

RevisionsOrdered(r) ==
    /\ \A history \in Histories(r) :
           Increases(history) /\ UpTo(history, helm[r].revision)
    /\ InstallsOnce(r)
    /\ Established(r) => helm[r].status # "none"
    /\ \A c \in Calls : WorksFor(c, r) =>
           /\ operation[c].revision <= helm[r].revision
           /\ UpTo(agg[c].history, operation[c].revision - 1)

IncreaseInv == \A r \in Releases : NothingPurged(r) => RevisionsOrdered(r)

\* A step adds to the histories of a release an empty one or the one that
\* records the success of its Helm operation.
Extends(c, r, history) ==
    /\ Succeeds(c) /\ agg[c].release = r
    /\ \E entry \in HistoryEntry :
           /\ history = Append(agg[c].history, entry)
           /\ entry.helmVersion = operation[c].revision

\* After a step, a history of a release is one it had before, empty, or one
\* that a success of a call on this release extends.
LEMMA HistorySources ==
    ASSUME TypeOK, OriginInv, NEW c \in Calls, Receive(c) \/ Handle(c),
           NEW r, NEW history \in Histories(r)'
    PROVE  \/ history \in Histories(r) \/ history = <<>>
           \/ Extends(c, r, history)
<1>1. CASE \E id \in DOMAIN table' : /\ table'[id].release = r
                                     /\ history = table'[id].history
    <2>1. PICK id \in DOMAIN table' : /\ table'[id].release = r
                                      /\ history = table'[id].history
        BY <1>1
    <2>2. CASE id \in DOMAIN table /\ table'[id] = table[id]
        BY <2>1, <2>2 DEF Histories
    <2>3. CASE Writes(c, id)
        <3>1. agg[c].release = r
            BY <2>1, <2>3, WrittenRelease
        <3> QED
            BY <2>1, <2>3, <3>1 DEF Writes, Histories
    <2> QED
        BY <2>2, <2>3, RowSources
<1>2. CASE \E d \in DOMAIN agg' : /\ agg'[d].release = r
                                  /\ history = agg'[d].history
    <2>1. PICK d \in DOMAIN agg' : /\ agg'[d].release = r
                                   /\ history = agg'[d].history
        BY <1>2
    <2>2. d \in Calls
        BY StepType DEF Next, TypeOK, AggregatesOK, InFlight
    <2>3. CASE d # c
        BY <2>1, <2>2, <2>3, CallsAlone DEF OnlyChanges, Histories
    <2>4. CASE d = c /\ Receive(c)
        BY <2>1, <2>4, ArrivalSources DEF Starts
    <2>5. CASE d = c /\ Handle(c)
        <3>1. CASE Continues(c)
            BY <2>1, <2>5, <3>1 DEF Continues, Histories
        <3>2. CASE Succeeds(c)
            BY <2>1, <2>5, <3>2 DEF Succeeds, Extends
        <3>3. CASE Loads(c)
            BY <2>1, <2>5, <3>3 DEF Loads, RowsFor, Histories
        <3> QED
            BY <2>1, <2>5, <3>1, <3>2, <3>3, HoldingSources
    <2> QED
        BY <2>3, <2>4, <2>5
<1> QED
    BY <1>1, <1>2 DEF Histories

\* The revisions in a history are numbers.
LEMMA HistoryVersions ==
    ASSUME NEW history \in Seq(HistoryEntry),
           NEW i \in 1 .. Len(history)
    PROVE  history[i].helmVersion \in Nat
<1>1. history[i] \in HistoryEntry
    OBVIOUS
<1> QED
    BY <1>1 DEF HistoryEntry

\* The histories of rows and aggregates are sequences of entries.
LEMMA HistoriesType ==
    ASSUME TypeOK, NEW r, NEW history \in Histories(r)
    PROVE  history \in Seq(HistoryEntry)
BY DEF Histories, TypeOK, StoreTypeOK, Row, AggregatesOK, Aggregate

\* A newer revision may be appended.
LEMMA AppendIncreases ==
    ASSUME NEW history \in Seq(HistoryEntry), NEW entry \in HistoryEntry,
           NEW n \in Nat, entry.helmVersion = n, Increases(history),
           UpTo(history, n - 1)
    PROVE  /\ Increases(Append(history, entry))
           /\ UpTo(Append(history, entry), n)
<1> DEFINE longer == Append(history, entry)
<1>1. /\ Len(longer) = Len(history) + 1 /\ Len(history) \in Nat
      /\ \A i \in 1 .. Len(history) : longer[i] = history[i]
      /\ longer[Len(history) + 1] = entry
    OBVIOUS
<1>2. \A i \in 1 .. Len(history) : history[i].helmVersion \in Nat
    BY HistoryVersions
<1>3. \A i \in 1 .. Len(longer) :
          i \in 1 .. Len(history) \/ i = Len(history) + 1
    BY <1>1
<1> HIDE DEF longer
<1>4. ASSUME NEW i \in 1 .. Len(longer) PROVE longer[i].helmVersion <= n
    <2>1. CASE i \in 1 .. Len(history)
        <3>1. history[i].helmVersion <= n - 1 /\ longer[i] = history[i]
            BY <1>1, <2>1 DEF UpTo
        <3> QED
            BY <1>2, <2>1, <3>1
    <2>2. CASE i = Len(history) + 1
        BY <1>1, <2>2
    <2> QED
        BY <1>3, <2>1, <2>2
<1>5. ASSUME NEW i \in 1 .. Len(longer), NEW j \in 1 .. Len(longer), i < j
      PROVE  longer[i].helmVersion < longer[j].helmVersion
    <2>1. i \in 1 .. Len(history)
        BY <1>1, <1>5
    <2>2. longer[i] = history[i] /\ history[i].helmVersion \in Nat
        BY <1>1, <1>2, <2>1
    <2>3. CASE j \in 1 .. Len(history)
        <3>1. longer[j] = history[j]
            BY <1>1, <2>3
        <3>2. history[i].helmVersion < history[j].helmVersion
            BY <1>5, <2>1, <2>3 DEF Increases
        <3> QED
            BY <2>2, <3>1, <3>2
    <2>4. CASE j = Len(history) + 1
        <3>1. longer[j].helmVersion = n
            BY <1>1, <2>4
        <3>2. history[i].helmVersion <= n - 1
            BY <2>1 DEF UpTo
        <3> QED
            BY <2>2, <3>1, <3>2
    <2> QED
        BY <1>3, <2>3, <2>4
<1> QED
    BY <1>4, <1>5 DEF longer, UpTo, Increases

\* Whoever is about to record a success finds the release established.
LEMMA SuccessEstablished ==
    ASSUME TypeOK, IntentMatchesStep, OriginInv, NEW c \in Calls, Succeeds(c)
    PROVE  /\ Established(agg[c].release)
           /\ WorksFor(c, agg[c].release)
           /\ agg[c].history \in Histories(agg[c].release)
<1>1. /\ pc[c] = "helm" /\ operation[c].phase = "succeeded"
      /\ c \in DOMAIN agg /\ request[c].kind \in {"install", "upgrade"}
    BY DEF Succeeds, RecordSuccess, HelmAnswers
<1>2. agg[c].release = request[c].release
    BY <1>1 DEF OriginInv, HolderOriginates
<1>3. agg[c].history \in Histories(agg[c].release)
    BY <1>1 DEF Histories
<1>4. ASSUME request[c].kind = "install" PROVE Established(agg[c].release)
    BY <1>1, <1>2, <1>4 DEF Established, InstallAt
<1>5. ASSUME request[c].kind = "upgrade" PROVE Established(agg[c].release)
    <2>1. agg[c].status = "UPGRADING"
        BY <1>1, <1>5 DEF IntentMatchesStep, MatchesStep, IntentOf
    <2> QED
        BY <1>1, <1>3, <2>1 DEF OriginInv, SuccessRecorded, Established
<1> QED
    BY <1>1, <1>2, <1>3, <1>4, <1>5 DEF WorksFor, AtWorkPhases

\* Away from Helm a step leaves the revisions of every release in order.
LEMMA AwayOrdered ==
    ASSUME TypeOK, IntentMatchesStep, OriginInv, NEW c \in Calls,
           Receive(c) \/ (Handle(c) /\ ~RunHelm(c)),
           NEW r \in Releases, RevisionsOrdered(r)
    PROVE  RevisionsOrdered(r)'
<1>1. /\ UNCHANGED helm /\ operation'[c].phase = "ready"
      /\ \A d \in Calls \ {c} : operation'[d] = operation[d]
    BY HelmAlone
<1>2. /\ Grown(c) /\ OnlyChanges(c)
      /\ \A d \in Calls \ {c} : pc'[d] = pc[d]
    BY CallsAlone
<1>3. ASSUME NEW d \in Calls, pc'[d] = "helm",
             operation'[d].phase \in AtWorkPhases
      PROVE  /\ d # c /\ pc[d] = "helm" /\ request'[d] = request[d]
             /\ operation'[d] = operation[d]
    <2>1. d # c
        BY <1>1, <1>3 DEF AtWorkPhases
    <2>2. pc[d] = "helm" /\ d \in DOMAIN request
        BY <1>2, <1>3, <2>1, AtWork
    <2> QED
        BY <1>1, <1>2, <2>1, <2>2, GrownKeeps
<1>4. \A d \in Calls : \A phase \in AtWorkPhases :
          InstallAt(d, r, phase)' => InstallAt(d, r, phase)
    BY <1>3 DEF InstallAt
<1>5. \A d \in Calls : WorksFor(d, r)' =>
          /\ WorksFor(d, r)
          /\ agg'[d] = agg[d] /\ operation'[d] = operation[d]
    BY <1>2, <1>3 DEF WorksFor, OnlyChanges
<1>6. ASSUME NEW history \in Histories(r)'
      PROVE  /\ Increases(history) /\ UpTo(history, helm[r].revision)
             /\ history # <<>> => Established(r)
    <2>1. CASE history \in Histories(r)
        BY <2>1 DEF RevisionsOrdered, Established
    <2>2. CASE history = <<>>
        BY <2>2 DEF Increases, UpTo
    <2>3. CASE Extends(c, r, history)
        <3>1. /\ Established(r) /\ WorksFor(c, r)
              /\ agg[c].history \in Histories(r)
            BY <2>3, SuccessEstablished DEF Extends
        <3>2. PICK entry \in HistoryEntry :
                  /\ history = Append(agg[c].history, entry)
                  /\ entry.helmVersion = operation[c].revision
            BY <2>3 DEF Extends
        <3>3. /\ operation[c].revision <= helm[r].revision
              /\ UpTo(agg[c].history, operation[c].revision - 1)
              /\ Increases(agg[c].history)
            BY <3>1 DEF RevisionsOrdered
        <3>4. /\ agg[c].history \in Seq(HistoryEntry)
              /\ operation[c].revision \in Nat /\ helm[r].revision \in Nat
            BY <3>1 DEF WorksFor, TypeOK, AggregatesOK, Aggregate, HelmTypeOK,
                        Operation, ReleaseRecord
        <3>5. /\ Increases(history)
              /\ UpTo(history, operation[c].revision)
            BY <3>2, <3>3, <3>4, AppendIncreases
        <3>6. history \in Seq(HistoryEntry)
            BY <3>2, <3>4
        <3>7. UpTo(history, helm[r].revision)
            <4>1. \A i \in 1 .. Len(history) : history[i].helmVersion \in Nat
                BY <3>6, HistoryVersions
            <4> QED
                BY <3>3, <3>4, <3>5, <4>1 DEF UpTo
        <3> QED
            BY <3>1, <3>5, <3>7
    <2> QED
        BY <2>1, <2>2, <2>3, HistorySources
<1>7. Established(r)' => Established(r)
    <2>1. ASSUME NEW d \in Calls, InstallAt(d, r, "succeeded")'
          PROVE  Established(r)
        BY <1>4, <2>1 DEF Established, AtWorkPhases
    <2> QED
        BY <1>6, <2>1 DEF Established
<1>8. InstallsOnce(r)'
    <2>1. ASSUME NEW d \in Calls, InstallAt(d, r, "running")'
          PROVE  /\ helm[r].status # "none" /\ ~Established(r)
                 /\ \A e \in Calls : InstallAt(e, r, "running") => d = e
        BY <1>4, <2>1 DEF AtWorkPhases, RevisionsOrdered, InstallsOnce
    <2> QED
        BY <1>1, <1>4, <1>7, <2>1 DEF AtWorkPhases, InstallsOnce
<1>9. ASSUME NEW d \in Calls, WorksFor(d, r)'
      PROVE  /\ operation'[d].revision <= helm'[r].revision
             /\ UpTo(agg'[d].history, operation'[d].revision - 1)
    BY <1>1, <1>5, <1>9 DEF RevisionsOrdered
<1>10. \A history \in Histories(r)' :
           Increases(history) /\ UpTo(history, helm'[r].revision)
    BY <1>1, <1>6
<1>11. Established(r)' => helm'[r].status # "none"
    BY <1>1, <1>7 DEF RevisionsOrdered
<1> QED
    BY <1>8, <1>9, <1>10, <1>11 DEF RevisionsOrdered

\* While a release loses no revision and no success or operation is added, its
\* revisions stay in order.
LEMMA StillOrdered ==
    ASSUME TypeOK, TypeOK', NEW r \in Releases, RevisionsOrdered(r),
           helm'[r].revision >= helm[r].revision,
           helm[r].status # "none" => helm'[r].status # "none",
           Histories(r)' \subseteq Histories(r),
           \A d \in Calls : \A phase \in AtWorkPhases :
               InstallAt(d, r, phase)' => InstallAt(d, r, phase),
           \A d \in Calls : WorksFor(d, r)' =>
               /\ WorksFor(d, r) /\ agg'[d] = agg[d]
               /\ operation'[d].revision = operation[d].revision
    PROVE  RevisionsOrdered(r)'
<1>1. /\ helm[r].revision \in Nat /\ helm'[r].revision \in Nat
      /\ \A d \in Calls : operation[d].revision \in Nat
    BY DEF TypeOK, HelmTypeOK, ReleaseRecord, Operation
<1>2. Established(r)' => Established(r)
    BY DEF Established, AtWorkPhases
<1>3. ASSUME NEW history \in Histories(r)'
      PROVE  Increases(history) /\ UpTo(history, helm'[r].revision)
    <2>1. Increases(history) /\ UpTo(history, helm[r].revision)
        BY <1>3 DEF RevisionsOrdered
    <2>2. history \in Seq(HistoryEntry)
        BY <1>3, HistoriesType
    <2> QED
        BY <1>1, <2>1, <2>2, HistoryVersions DEF UpTo
<1>4. InstallsOnce(r)'
    <2>1. ASSUME NEW d \in Calls, InstallAt(d, r, "running")'
          PROVE  /\ helm[r].status # "none" /\ ~Established(r)
                 /\ \A e \in Calls : InstallAt(e, r, "running") => d = e
        BY <2>1 DEF AtWorkPhases, RevisionsOrdered, InstallsOnce
    <2> QED
        BY <1>2, <2>1 DEF AtWorkPhases, InstallsOnce
<1>5. ASSUME NEW d \in Calls, WorksFor(d, r)'
      PROVE  /\ operation'[d].revision <= helm'[r].revision
             /\ UpTo(agg'[d].history, operation'[d].revision - 1)
    BY <1>1, <1>5 DEF RevisionsOrdered
<1>6. Established(r)' => helm'[r].status # "none"
    BY <1>2 DEF RevisionsOrdered
<1> QED
    BY <1>3, <1>4, <1>5, <1>6 DEF RevisionsOrdered

\* While a handler is at Helm, so are the others as they were, and the
\* histories are what they were.
LEMMA HelmLeaves ==
    ASSUME TypeOK, NEW c \in Calls, RunHelm(c), NEW r
    PROVE  /\ pc[c] = "helm" /\ c \in DOMAIN request
           /\ request[c] \in Requests
           /\ HelmStep(c, request[c], cancelled)
           /\ UNCHANGED <<pc, request, agg>>
           /\ Histories(r)' = Histories(r)
           /\ \A d \in Calls \ {c} : operation'[d] = operation[d]
           /\ \A s \in Releases \ {request[c].release} : helm'[s] = helm[s]
<1>1. /\ pc[c] = "helm" /\ HelmStep(c, request[c], cancelled)
      /\ UNCHANGED <<table, pc, request, agg>>
    BY DEF RunHelm, storeVars, serviceVars
<1>2. c \in DOMAIN request /\ request[c] \in Requests
    BY <1>1, AtWork
<1> QED
    BY <1>1, <1>2, HelmFrame DEF TypeOK, Histories

\* A step of a Helm operation leaves the revisions of every release in order.
LEMMA HelmOrdered ==
    ASSUME TypeOK, TypeOK', IntentMatchesStep, OriginInv, NEW c \in Calls,
           RunHelm(c), NEW r \in Releases, NothingPurged(r),
           RevisionsOrdered(r)
    PROVE  RevisionsOrdered(r)'
<1> DEFINE q == request[c]
<1>1. /\ pc[c] = "helm" /\ c \in DOMAIN request /\ q \in Requests
      /\ HelmStep(c, q, cancelled)
      /\ UNCHANGED <<pc, request, agg>>
      /\ Histories(r)' = Histories(r)
      /\ \A d \in Calls \ {c} : operation'[d] = operation[d]
      /\ \A s \in Releases \ {q.release} : helm'[s] = helm[s]
    BY HelmLeaves
<1>2. /\ helm[r].revision \in Nat /\ helm'[r].revision \in Nat
      /\ \A d \in Calls : operation[d].revision \in Nat
    BY DEF TypeOK, HelmTypeOK, ReleaseRecord, Operation
<1>3. ASSUME NEW d \in Calls \ {c}
      PROVE  /\ WorksFor(d, r)' <=> WorksFor(d, r)
             /\ \A phase : InstallAt(d, r, phase)' <=> InstallAt(d, r, phase)
    BY <1>1 DEF WorksFor, InstallAt
<1>4. ASSUME helm'[r].revision >= helm[r].revision,
             helm[r].status # "none" => helm'[r].status # "none",
             \A phase \in AtWorkPhases :
                 InstallAt(c, r, phase)' => InstallAt(c, r, phase),
             WorksFor(c, r)' =>
                 /\ WorksFor(c, r)
                 /\ operation'[c].revision = operation[c].revision
      PROVE  RevisionsOrdered(r)'
    BY <1>1, <1>3, <1>4, StillOrdered
<1>5. CASE q.release # r
    <2>1. helm'[r] = helm[r]
        BY <1>1, <1>5
    <2>2. ~WorksFor(c, r)' /\ \A phase : ~InstallAt(c, r, phase)'
        BY <1>1, <1>5 DEF WorksFor, InstallAt
    <2> QED
        BY <1>2, <1>4, <2>1, <2>2
<1>6. CASE q.release = r
    <2>1. ~q.dryRun /\ q.kind # "uninstall"
        BY <1>1, <1>6 DEF NothingPurged
    <2>2. CASE Rests(c)
        <3>1. ~WorksFor(c, r)'
              /\ \A phase \in AtWorkPhases : ~InstallAt(c, r, phase)'
            BY <2>2 DEF Rests, WorksFor, InstallAt
        <3> QED
            BY <1>2, <1>4, <2>2, <3>1 DEF Rests
    <2>3. CASE Begins(c, q)
        <3>1. /\ operation'[c].phase = "running"
              /\ operation'[c].revision = helm[r].revision + 1
              /\ helm'[r].revision = helm[r].revision + 1
              /\ helm'[r].status = "pending"
              /\ q.kind = "install" => helm[r].status = "none"
            BY <1>6, <2>3 DEF Begins
        <3>2. Established(r)' => Established(r)
            BY <1>1, <1>3, <3>1 DEF Established, InstallAt
        <3>3. InstallsOnce(r)'
            <4>1. CASE q.kind = "install"
                <5>1. \A d \in Calls : ~InstallAt(d, r, "running")
                    BY <3>1, <4>1 DEF RevisionsOrdered, InstallsOnce
                <5>2. \A d \in Calls : InstallAt(d, r, "running")' => d = c
                    BY <1>3, <5>1
                <5>3. ~Established(r)'
                    BY <3>1, <3>2, <4>1 DEF RevisionsOrdered
                <5> QED
                    BY <3>1, <5>2, <5>3 DEF InstallsOnce
            <4>2. CASE q.kind # "install"
                <5>1. \A d \in Calls :
                          InstallAt(d, r, "running")' =>
                              d # c /\ InstallAt(d, r, "running")
                    BY <1>1, <1>3, <4>2 DEF InstallAt
                <5>2. ASSUME NEW d \in Calls, InstallAt(d, r, "running")
                      PROVE  /\ ~Established(r)
                             /\ \A e \in Calls :
                                    InstallAt(e, r, "running") => d = e
                    BY <5>2 DEF RevisionsOrdered, InstallsOnce
                <5> QED
                    BY <3>1, <3>2, <5>1, <5>2 DEF InstallsOnce
            <4> QED
                BY <4>1, <4>2
        <3>4. ASSUME NEW history \in Histories(r)'
              PROVE  /\ Increases(history) /\ UpTo(history, helm[r].revision)
                     /\ UpTo(history, helm'[r].revision)
            <4>1. /\ Increases(history) /\ UpTo(history, helm[r].revision)
                  /\ history \in Seq(HistoryEntry)
                BY <1>1, <3>4, HistoriesType DEF RevisionsOrdered
            <4> QED
                BY <1>2, <3>1, <4>1, HistoryVersions DEF UpTo
        <3>5. ASSUME NEW d \in Calls, WorksFor(d, r)'
              PROVE  /\ operation'[d].revision <= helm'[r].revision
                     /\ UpTo(agg'[d].history, operation'[d].revision - 1)
            <4>1. CASE d # c
                <5>1. /\ operation[d].revision <= helm[r].revision
                      /\ UpTo(agg[d].history, operation[d].revision - 1)
                    BY <1>3, <3>5, <4>1 DEF RevisionsOrdered
                <5> QED
                    BY <1>1, <1>2, <3>1, <4>1, <5>1
            <4>2. CASE d = c
                <5>1. c \in DOMAIN agg /\ agg[c].release = r
                    BY <1>1, <1>6, <3>5, <4>2
                    DEF WorksFor, OriginInv, HolderOriginates
                <5>2. UpTo(agg[c].history, helm[r].revision)
                    BY <5>1 DEF Histories, RevisionsOrdered
                <5>3. operation'[c].revision - 1 = helm[r].revision
                    BY <1>2, <3>1
                <5> QED
                    BY <1>1, <1>2, <3>1, <4>2, <5>2, <5>3
            <4> QED
                BY <4>1, <4>2
        <3> QED
            BY <3>1, <3>3, <3>4, <3>5 DEF RevisionsOrdered
    <2>4. CASE Completes(c, q) /\ q.kind # "install"
        <3>1. /\ helm'[r].revision = helm[r].revision
              /\ helm[r].status # "none" => helm'[r].status # "none"
            BY <1>6, <2>4 DEF Completes
        <3>2. \A phase : ~InstallAt(c, r, phase)'
            BY <1>1, <2>4 DEF InstallAt
        <3>3. WorksFor(c, r)' =>
                  /\ WorksFor(c, r)
                  /\ operation'[c].revision = operation[c].revision
            BY <1>1, <2>4 DEF WorksFor, Completes, AtWorkPhases
        <3> QED
            BY <1>2, <1>4, <3>1, <3>2, <3>3
    <2>5. CASE Completes(c, q) /\ q.kind = "install"
        <3>1. /\ helm'[r].revision = helm[r].revision
              /\ helm[r].status # "none" => helm'[r].status # "none"
              /\ operation'[c].phase = "succeeded"
            BY <1>6, <2>5 DEF Completes
        <3>2. InstallAt(c, r, "running")
            BY <1>1, <1>6, <2>5 DEF InstallAt, Completes
        <3>3. /\ helm[r].status # "none"
              /\ \A d \in Calls : InstallAt(d, r, "running") => c = d
            BY <3>2 DEF RevisionsOrdered, InstallsOnce
        <3>4. \A d \in Calls : ~InstallAt(d, r, "running")'
            <4>1. ~InstallAt(c, r, "running")'
                BY <3>1 DEF InstallAt
            <4> QED
                BY <1>3, <3>3, <4>1
        <3>5. \A history \in Histories(r)' :
                  Increases(history) /\ UpTo(history, helm'[r].revision)
            BY <1>1, <3>1 DEF RevisionsOrdered
        <3>6. ASSUME NEW d \in Calls, WorksFor(d, r)'
              PROVE  /\ operation'[d].revision <= helm'[r].revision
                     /\ UpTo(agg'[d].history, operation'[d].revision - 1)
            <4>1. /\ WorksFor(d, r)
                  /\ operation'[d].revision = operation[d].revision
                BY <1>1, <1>3, <2>5, <3>6
                DEF WorksFor, Completes, AtWorkPhases
            <4> QED
                BY <1>1, <3>1, <4>1 DEF RevisionsOrdered
        <3> QED
            BY <3>1, <3>3, <3>4, <3>5, <3>6 DEF RevisionsOrdered, InstallsOnce
    <2>6. CASE Breaks(c, q) /\ q.kind = "install" /\ helm'[r] = NoRelease
        <3>1. InstallAt(c, r, "running")
            BY <1>1, <1>6, <2>6 DEF InstallAt, Breaks
        <3>2. /\ ~Established(r)
              /\ \A d \in Calls : InstallAt(d, r, "running") => c = d
            BY <3>1 DEF RevisionsOrdered, InstallsOnce
        <3>3. \A phase \in AtWorkPhases : ~InstallAt(c, r, phase)'
            BY <2>6 DEF Breaks, InstallAt
        <3>4. \A d \in Calls : \A phase \in AtWorkPhases :
                  ~InstallAt(d, r, phase)'
            BY <1>3, <3>2, <3>3 DEF Established, AtWorkPhases
        <3>5. \A history \in Histories(r)' : history = <<>>
            BY <1>1, <3>2 DEF Established
        <3>6. ~Established(r)'
            BY <3>4, <3>5 DEF Established, AtWorkPhases
        <3>7. ASSUME NEW d \in Calls, WorksFor(d, r)' PROVE FALSE
            <4>1. /\ pc[d] = "helm" /\ d \in DOMAIN agg
                  /\ request[d].release = r
                  /\ request[d].kind \in {"install", "upgrade"}
                  /\ operation'[d].phase \in AtWorkPhases
                BY <1>1, <3>7 DEF WorksFor
            <4>2. request[d].kind = "upgrade"
                BY <1>1, <3>4, <4>1 DEF InstallAt
            <4>3. agg[d].status = "UPGRADING"
                BY <4>1, <4>2 DEF IntentMatchesStep, MatchesStep, IntentOf
            <4>4. agg[d].history # <<>> /\ agg[d].release = r
                BY <4>1, <4>3
                DEF OriginInv, SuccessRecorded, HolderOriginates
            <4> QED
                BY <3>2, <4>1, <4>4 DEF Established, Histories
        <3>8. \A history \in Histories(r)' :
                  Increases(history) /\ UpTo(history, helm'[r].revision)
            BY <3>5 DEF Increases, UpTo
        <3>9. InstallsOnce(r)'
            BY <3>4 DEF InstallsOnce, AtWorkPhases
        <3> QED
            BY <3>6, <3>7, <3>8, <3>9 DEF RevisionsOrdered
    <2>7. CASE Breaks(c, q) /\ ~(q.kind = "install" /\ helm'[r] = NoRelease)
        <3>1. /\ helm'[r].revision >= helm[r].revision
              /\ helm[r].status # "none" => helm'[r].status # "none"
            BY <1>6, <2>7 DEF Breaks
        <3>2. ~WorksFor(c, r)'
              /\ \A phase \in AtWorkPhases : ~InstallAt(c, r, phase)'
            BY <2>7 DEF Breaks, WorksFor, InstallAt
        <3> QED
            BY <1>4, <3>1, <3>2
    <2> QED
        BY <1>1, <2>1, <2>2, <2>3, <2>4, <2>5, <2>6, <2>7, HelmEffects
        DEF TypeOK
<1> QED
    BY <1>5, <1>6

\* The inductive step of IncreaseInv.
LEMMA IncreaseStep ==
    ASSUME TypeOK, IntentMatchesStep, OriginInv, IncreaseInv, [Next]_vars
    PROVE  IncreaseInv'
<1>1. TypeOK'
    BY StepType
<1> SUFFICES ASSUME NEW r \in Releases, NothingPurged(r)'
             PROVE  RevisionsOrdered(r)'
    BY DEF IncreaseInv
<1>2. CASE NothingPurged(r)
    <2>1. RevisionsOrdered(r)
        BY <1>2 DEF IncreaseInv
    <2>2. ASSUME NEW c \in Calls, RunHelm(c)
          PROVE  RevisionsOrdered(r)'
        BY <1>1, <1>2, <2>1, <2>2, HelmOrdered
    <2>3. ASSUME NEW c \in Calls, Receive(c) \/ (Handle(c) /\ ~RunHelm(c))
          PROVE  RevisionsOrdered(r)'
        BY <2>1, <2>3, AwayOrdered
    <2>4. helm[r].revision \in Nat
        BY DEF TypeOK, HelmTypeOK, ReleaseRecord
    <2>5. CASE Restart
        <3>1. /\ UNCHANGED <<table, helm, request>> /\ DOMAIN agg' = {}
              /\ \A d \in Calls : pc'[d] # "helm"
            BY <1>1, <2>5 DEF Restart, storeVars, InFlight, TypeOK
        <3>2. Histories(r)' \subseteq Histories(r)
            BY <3>1 DEF Histories
        <3>3. \A d \in Calls : /\ ~WorksFor(d, r)'
                               /\ \A phase : ~InstallAt(d, r, phase)'
            BY <3>1 DEF WorksFor, InstallAt
        <3> QED
            BY <1>1, <2>1, <2>4, <3>1, <3>2, <3>3, StillOrdered
    <2>6. CASE UNCHANGED <<table, helm, operation, pc, request, agg>>
        <3>1. Histories(r)' = Histories(r)
            BY <2>6 DEF Histories
        <3>2. \A d \in Calls : \A phase \in AtWorkPhases :
                  InstallAt(d, r, phase)' => InstallAt(d, r, phase)
            BY <2>6 DEF InstallAt
        <3>3. \A d \in Calls : WorksFor(d, r)' => WorksFor(d, r)
            BY <2>6 DEF WorksFor
        <3> QED
            BY <1>1, <2>1, <2>4, <2>6, <3>1, <3>2, <3>3, StillOrdered
    <2> QED
        BY <2>2, <2>3, <2>5, <2>6
        DEF Next, Signal, Waiting, vars, storeVars, helmVars, serviceVars
<1>3. NothingPurged(r)
    <2>1. ASSUME NEW c \in Calls, Receive(c) \/ Handle(c)
          PROVE  NothingPurged(r)
        BY <2>1, CallsAlone, GrownKeeps
    <2>2. CASE UNCHANGED request
        BY <2>2 DEF NothingPurged
    <2> QED
        BY <2>1, <2>2 DEF Next, Signal, Restart, Waiting, vars, serviceVars
<1> QED
    BY <1>2, <1>3

\* Whatever calls overlap, the revisions of every release stay in order.
LEMMA IncreaseKept == Spec => []IncreaseInv
<1>1. Init => IncreaseInv
    <2> SUFFICES ASSUME Init, NEW r \in Releases PROVE RevisionsOrdered(r)
        BY DEF IncreaseInv
    <2>1. Histories(r) = {}
        BY DEF Init, StoreInit, Histories
    <2>2. \A c \in Calls : pc[c] # "helm"
        BY DEF Init
    <2> QED
        BY <2>1, <2>2
        DEF RevisionsOrdered, Established, InstallAt, InstallsOnce, WorksFor
<1>2. TypeOK /\ IntentMatchesStep /\ OriginInv /\ IncreaseInv /\ [Next]_vars
          => IncreaseInv'
    BY IncreaseStep
<1> QED
    BY <1>1, <1>2, TypeCorrect, IntentsMatch, OriginKept, PTL DEF Spec

\* Whatever calls overlap, tracked or straight to Helm, whichever of their
\* saves is lost, however often Helm is retried and the process dies, the
\* Helm revisions in a row's history increase while no request for its
\* release is a dry run or an uninstall.
THEOREM RevisionsIncrease == Spec => []HelmRevisionsIncrease
<1>1. TypeOK /\ IncreaseInv => HelmRevisionsIncrease
    <2> SUFFICES ASSUME TypeOK, IncreaseInv, NEW id \in DOMAIN table,
                        NothingPurged(table[id].release)
                 PROVE  Increases(table[id].history)
        BY DEF HelmRevisionsIncrease, Increases
    <2>1. table[id].release \in Releases
        BY DEF TypeOK, StoreTypeOK, Row
    <2>2. table[id].history \in Histories(table[id].release)
        BY DEF Histories
    <2> QED
        BY <2>1, <2>2 DEF IncreaseInv, RevisionsOrdered
<1> QED
    BY <1>1, TypeCorrect, IncreaseKept, PTL

-----------------------------------------------------------------------------
(* At most one row of a release ever records a success                     *)

\* Helm has done what the handler holds, now or in an earlier call.
HasSucceeded(c, r) ==
    /\ agg[c].release = r
    /\ agg[c].history # <<>> \/ InstallAt(c, r, "succeeded")

SucceededRows(r) ==
    {id \in DOMAIN table : table[id].release = r /\ table[id].history # <<>>}

\* The ids of a release under which a success is recorded or about to be.
Successes(r) ==
    SucceededRows(r)
    \cup {agg[c].id : c \in {d \in DOMAIN agg : HasSucceeded(d, r)}}

OneSuccess(r) == \A i, j \in Successes(r) : i = j

OneSuccessInv == \A r \in Releases : NothingPurged(r) => OneSuccess(r)

\* A release with a success is one that Helm has installed.
LEMMA SuccessesEstablish ==
    ASSUME TypeOK, NEW r, NEW id \in Successes(r)
    PROVE  Established(r)
<1>1. CASE id \in SucceededRows(r)
    BY <1>1 DEF SucceededRows, Histories, Established
<1>2. CASE \E c \in DOMAIN agg : HasSucceeded(c, r)
    <2>1. PICK c \in DOMAIN agg : HasSucceeded(c, r)
        BY <1>2
    <2>2. CASE agg[c].history # <<>>
        <3>1. agg[c].history \in Histories(r)
            BY <2>1 DEF HasSucceeded, Histories
        <3> QED
            BY <2>2, <3>1 DEF Established
    <2>3. CASE InstallAt(c, r, "succeeded")
        BY <2>1, <2>3 DEF Established, TypeOK, AggregatesOK, InFlight
    <2> QED
        BY <2>1, <2>2, <2>3 DEF HasSucceeded
<1> QED
    BY <1>1, <1>2 DEF Successes

\* A release does not get a second one while its successes only get fewer.
LEMMA FewerSuccesses ==
    ASSUME NEW r, OneSuccess(r), Successes(r)' \subseteq Successes(r)
    PROVE  OneSuccess(r)'
BY DEF OneSuccess

\* Away from Helm what a handler saves, loads or records keeps its id, and no
\* id comes to have a success that it had not.
LEMMA AwaySuccesses ==
    ASSUME TypeOK, IntentMatchesStep, OriginInv, NEW c \in Calls,
           Receive(c) \/ (Handle(c) /\ ~RunHelm(c)), NEW r
    PROVE  Successes(r)' \subseteq Successes(r)
<1>1. /\ Grown(c) /\ OnlyChanges(c)
      /\ \A d \in Calls \ {c} : pc'[d] = pc[d]
    BY CallsAlone
<1>2. /\ operation'[c].phase = "ready"
      /\ \A d \in Calls \ {c} : operation'[d] = operation[d]
    BY HelmAlone
<1>3. ASSUME NEW d \in DOMAIN agg, HasSucceeded(d, r)
      PROVE  agg[d].id \in Successes(r)
    BY <1>3 DEF Successes
<1>4. ASSUME NEW id \in SucceededRows(r)'
      PROVE  id \in Successes(r)
    <2>1. /\ id \in DOMAIN table' /\ table'[id].release = r
          /\ table'[id].history # <<>>
        BY <1>4 DEF SucceededRows
    <2>2. CASE id \in DOMAIN table /\ table'[id] = table[id]
        BY <2>1, <2>2 DEF SucceededRows, Successes
    <2>3. CASE Writes(c, id)
        <3>1. agg[c].release = r
            BY <2>1, <2>3, WrittenRelease
        <3> QED
            BY <1>3, <2>1, <2>3, <3>1 DEF Writes, HasSucceeded
    <2> QED
        BY <2>1, <2>2, <2>3, RowSources
<1>5. ASSUME NEW d \in DOMAIN agg', HasSucceeded(d, r)'
      PROVE  agg'[d].id \in Successes(r)
    <2>1. d \in Calls
        BY StepType DEF Next, TypeOK, AggregatesOK, InFlight
    <2>2. CASE d # c
        <3>1. d \in DOMAIN agg /\ agg'[d] = agg[d] /\ d \in DOMAIN request
            BY <1>1, <2>1, <2>2
            DEF OnlyChanges, TypeOK, AggregatesOK, RequestsOK
        <3>2. request'[d] = request[d]
            BY <1>1, <3>1, GrownKeeps
        <3>3. HasSucceeded(d, r)
            BY <1>1, <1>2, <1>5, <2>1, <2>2, <3>1, <3>2
            DEF HasSucceeded, InstallAt
        <3> QED
            BY <1>3, <3>1, <3>3
    <2>3. CASE d = c
        <3>1. agg'[c].release = r /\ agg'[c].history # <<>>
            BY <1>2, <1>5, <2>3 DEF HasSucceeded, InstallAt
        <3>2. Handle(c)
            BY <2>3, <3>1, ArrivalSources DEF Starts
        <3>3. CASE Continues(c)
            BY <1>3, <2>3, <3>1, <3>3 DEF Continues, HasSucceeded
        <3>4. CASE Succeeds(c)
            <4>1. /\ pc[c] = "helm" /\ operation[c].phase = "succeeded"
                  /\ c \in DOMAIN agg /\ agg[c].release = r
                  /\ request[c].kind \in {"install", "upgrade"}
                BY <3>1, <3>4 DEF Succeeds, RecordSuccess, HelmAnswers
            <4>2. agg[c].release = request[c].release
                BY <4>1 DEF OriginInv, HolderOriginates
            <4>3. request[c].kind = "upgrade" => agg[c].history # <<>>
                BY <4>1 DEF IntentMatchesStep, MatchesStep, IntentOf,
                            OriginInv, SuccessRecorded
            <4>4. HasSucceeded(c, r)
                BY <4>1, <4>2, <4>3 DEF HasSucceeded, InstallAt
            <4> QED
                BY <1>3, <2>3, <3>4, <4>1, <4>4 DEF Succeeds
        <3>5. CASE Loads(c)
            BY <2>3, <3>1, <3>5 DEF Loads, RowsFor, SucceededRows, Successes
        <3> QED
            BY <2>3, <3>2, <3>3, <3>4, <3>5, HoldingSources
    <2> QED
        BY <2>2, <2>3
<1> QED
    BY <1>4, <1>5 DEF Successes

\* At Helm an installation succeeds only for a release without a success.
LEMMA HelmSuccesses ==
    ASSUME TypeOK, NEW c \in Calls, RunHelm(c), NEW r \in Releases,
           NothingPurged(r), RevisionsOrdered(r), OneSuccess(r)
    PROVE  OneSuccess(r)'
<1> DEFINE q == request[c]
<1>1. /\ pc[c] = "helm" /\ c \in DOMAIN request /\ q \in Requests
      /\ HelmStep(c, q, cancelled)
      /\ UNCHANGED <<pc, request, agg>>
      /\ \A d \in Calls \ {c} : operation'[d] = operation[d]
    BY HelmLeaves
<1>2. UNCHANGED table /\ SucceededRows(r)' = SucceededRows(r)
    BY DEF RunHelm, storeVars, SucceededRows
<1>3. ASSUME NEW d \in DOMAIN agg, d # c
      PROVE  HasSucceeded(d, r)' <=> HasSucceeded(d, r)
    <2>1. d \in Calls
        BY DEF TypeOK, AggregatesOK, InFlight
    <2> QED
        BY <1>1, <1>3, <2>1 DEF HasSucceeded, InstallAt
<1>4. CASE InstallAt(c, r, "succeeded")' => InstallAt(c, r, "succeeded")
    <2>1. \A d \in DOMAIN agg : HasSucceeded(d, r)' => HasSucceeded(d, r)
        BY <1>1, <1>3, <1>4 DEF HasSucceeded
    <2>2. Successes(r)' \subseteq Successes(r)
        BY <1>1, <1>2, <2>1 DEF Successes
    <2> QED
        BY <2>2, FewerSuccesses
<1>5. CASE InstallAt(c, r, "succeeded")' /\ ~InstallAt(c, r, "succeeded")
    <2>1. /\ q.kind = "install" /\ q.release = r
          /\ operation'[c].phase = "succeeded"
        BY <1>1, <1>5 DEF InstallAt
    <2>2. ~q.dryRun
        BY <1>1, <2>1 DEF NothingPurged
    <2>3. operation[c].phase = "running"
        BY <1>1, <2>1, <2>2, HelmEffects
        DEF TypeOK, Rests, Begins, Completes, Breaks, AtWorkPhases
    <2>4. ~Established(r)
        BY <1>1, <2>1, <2>3 DEF InstallAt, RevisionsOrdered, InstallsOnce
    <2>5. Successes(r) = {}
        BY <2>4, SuccessesEstablish
    <2>6. \A d \in DOMAIN agg : HasSucceeded(d, r)' => d = c
        BY <1>3, <2>5 DEF Successes
    <2>7. Successes(r)' \subseteq {agg[c].id}
        BY <1>1, <1>2, <2>5, <2>6 DEF Successes
    <2> QED
        BY <2>7 DEF OneSuccess
<1> QED
    BY <1>4, <1>5

\* The inductive step of OneSuccessInv.
LEMMA OneSuccessStep ==
    ASSUME TypeOK, IntentMatchesStep, OriginInv, IncreaseInv, OneSuccessInv,
           [Next]_vars
    PROVE  OneSuccessInv'
<1> SUFFICES ASSUME NEW r \in Releases, NothingPurged(r)'
             PROVE  OneSuccess(r)'
    BY DEF OneSuccessInv
<1>1. ASSUME NEW c \in Calls, Receive(c) \/ Handle(c)
      PROVE  OneSuccess(r)'
    <2>1. NothingPurged(r)
        BY <1>1, CallsAlone, GrownKeeps
    <2>2. OneSuccess(r) /\ RevisionsOrdered(r)
        BY <2>1 DEF OneSuccessInv, IncreaseInv
    <2>3. CASE RunHelm(c)
        BY <2>1, <2>2, <2>3, HelmSuccesses
    <2>4. CASE ~RunHelm(c)
        BY <1>1, <2>2, <2>4, AwaySuccesses, FewerSuccesses
    <2> QED
        BY <2>3, <2>4
<1>2. CASE Restart \/ UNCHANGED <<table, operation, pc, request, agg>>
    <2>1. UNCHANGED <<table, request>>
        BY <1>2 DEF Restart, storeVars
    <2>2. \/ DOMAIN agg' = {}
          \/ UNCHANGED agg /\ \A d \in DOMAIN agg :
                                  HasSucceeded(d, r)' <=> HasSucceeded(d, r)
        BY <1>2 DEF Restart, HasSucceeded, InstallAt
    <2>3. Successes(r)' \subseteq Successes(r)
        BY <2>1, <2>2 DEF Successes, SucceededRows
    <2>4. OneSuccess(r)
        BY <2>1 DEF OneSuccessInv, NothingPurged
    <2> QED
        BY <2>3, <2>4, FewerSuccesses
<1> QED
    BY <1>1, <1>2
    DEF Next, Signal, Waiting, vars, storeVars, helmVars, serviceVars

\* However calls overlap, tracked or straight to Helm, fail, are retried and
\* die with the process, at most one of the rows that installations have made
\* for a release records a success, while no request for the release is a dry
\* run or an uninstall.
THEOREM OneRowSucceeds == Spec => []OneRowSucceeded
<1>1. Init => OneSuccessInv
    BY DEF Init, StoreInit, OneSuccessInv, OneSuccess, Successes,
           SucceededRows
<1>2. TypeOK /\ IntentMatchesStep /\ OriginInv /\ IncreaseInv /\ OneSuccessInv
          /\ [Next]_vars => OneSuccessInv'
    BY OneSuccessStep
<1>3. TypeOK /\ OneSuccessInv => OneRowSucceeded
    <2> SUFFICES ASSUME TypeOK, OneSuccessInv,
                        NEW i \in DOMAIN table, NEW j \in DOMAIN table,
                        table[i].history # <<>>, table[j].history # <<>>,
                        table[i].release = table[j].release,
                        NothingPurged(table[i].release)
                 PROVE  i = j
        BY DEF OneRowSucceeded
    <2>1. table[i].release \in Releases
        BY DEF TypeOK, StoreTypeOK, Row
    <2>2. /\ i \in Successes(table[i].release)
          /\ j \in Successes(table[i].release)
        BY DEF Successes, SucceededRows
    <2> QED
        BY <2>1, <2>2 DEF OneSuccessInv, OneSuccess
<1> QED
    BY <1>1, <1>2, <1>3, TypeCorrect, IntentsMatch, OriginKept, IncreaseKept,
       PTL DEF Spec

-----------------------------------------------------------------------------
(* A row that says SUCCEEDED names the revision that is deployed           *)

\* Clients use the tools that keep the store, and none of them for a dry run.
TrackedAndReal == \A q \in Requests : q.tracked /\ ~q.dryRun

Shows(release, history) ==
    helm[release] = [status |-> "deployed",
                     revision |-> history[Len(history)].helmVersion]

\* What StoredRevisionIsCurrent supposes of a release.
Simple(release) ==
    /\ InstalledOnce(release)
    /\ \A c \in Calls : ~Requested(c, "uninstall", release)

RowsShow ==
    \A id \in DOMAIN table :
        LET row == table[id] IN
        row.status = "SUCCEEDED" /\ Simple(row.release)
            => Shows(row.release, row.history)

\* The revision a Helm operation works on is the release's newest one, and
\* deployed when the operation has succeeded.
HelmShows(c) ==
    LET r == request[c].release IN
    pc[c] = "helm" /\ Simple(r) =>
        /\ operation[c].phase = "running" =>
               helm[r].revision = operation[c].revision
        /\ operation[c].phase = "succeeded" =>
               helm[r] = [status |-> "deployed",
                          revision |-> operation[c].revision]

\* A success that is not saved yet names the revision that is deployed.
HolderShows(c) ==
    /\ pc[c] = "saveOutcome" /\ agg[c].status = "SUCCEEDED"
    /\ Simple(agg[c].release)
    => Shows(agg[c].release, agg[c].history)

CurrentRevisionInv ==
    /\ RowsShow
    /\ \A c \in Calls : HelmShows(c)
    /\ \A c \in DOMAIN agg : HolderShows(c)

\* A release does not become simple.
LEMMA SimpleBefore ==
    ASSUME NEW c \in Calls, Grown(c), NEW r, Simple(r)'
    PROVE  Simple(r)
BY GrownKeeps DEF Simple, InstalledOnce

\* Away from Helm the rows, and the success a handler is about to save, go on
\* to name what is deployed.
LEMMA AwayShows ==
    ASSUME TypeOK, IntentMatchesStep, OriginInv, CurrentRevisionInv,
           NEW c \in Calls, Receive(c) \/ (Handle(c) /\ ~RunHelm(c)),
           OnlyMoves(c)
    PROVE  CurrentRevisionInv'
<1>1. /\ UNCHANGED helm /\ operation'[c].phase = "ready"
    BY HelmAlone
<1>2. Grown(c) /\ \A r : Simple(r)' => Simple(r)
    BY CallsAlone, SimpleBefore
<1>3. ASSUME NEW d \in Calls PROVE HelmShows(d)'
    BY <1>1 DEF OnlyMoves, InFlight, HelmShows
<1>4. ASSUME NEW id \in DOMAIN table', table'[id].status = "SUCCEEDED",
             Simple(table[id].release)'
      PROVE  helm[table'[id].release] =
                 [status |-> "deployed",
                  revision |-> table'[id].history[
                                   Len(table'[id].history)].helmVersion]
    <2>1. CASE id \in DOMAIN table /\ table'[id] = table[id]
        BY <1>2, <1>4, <2>1 DEF CurrentRevisionInv, RowsShow, Shows
    <2>2. CASE Writes(c, id)
        <3>1. agg[c].status = "SUCCEEDED" /\ c \in DOMAIN agg
              /\ table'[id].release = agg[c].release
              /\ table'[id].history = agg[c].history
            BY <1>4, <2>2, WrittenRelease DEF Writes
        <3>2. pc[c] = "saveOutcome"
            BY <2>2, <3>1 DEF Writes, IntentMatchesStep, MatchesStep, IntentOf
        <3>3. Simple(agg[c].release)
            BY <1>2, <1>4, <3>1
        <3> QED
            BY <3>1, <3>2, <3>3 DEF CurrentRevisionInv, HolderShows, Shows
    <2> QED
        BY <2>1, <2>2, RowSources
<1>5. ASSUME NEW d \in DOMAIN agg' PROVE HolderShows(d)'
    <2>1. d = c
        BY <1>5 DEF OnlyMoves
    <2> SUFFICES ASSUME pc'[c] = "saveOutcome",
                        agg'[c].status = "SUCCEEDED",
                        Simple(agg[c].release)'
                 PROVE  Shows(agg[c].release, agg[c].history)'
        BY <2>1 DEF HolderShows
    <2>2. Handle(c) /\ pc[c] = "helm"
        BY <1>5, <2>1, ArrivalSources
        DEF Starts, Handle, EnsureNamespace, SavePending, LoadFails,
            LoadForUpgrade, LoadForRollback, SaveIntent, RecordSuccess,
            RecordRollback, RecordFailure, HelmAnswers, SaveOutcome,
            PublishEvents, FinishDirect, FinishUninstall, FindForUninstall,
            DeleteRow, Return, Goto, TypeOK
    <2>3. Succeeds(c)
        <3>1. ~Loads(c)
            BY <2>2 DEF Loads
        <3>2. ~Continues(c)
            BY <2>2 DEF Continues, IntentMatchesStep, MatchesStep, IntentOf
        <3> QED
            BY <1>5, <2>1, <2>2, <3>1, <3>2, HoldingSources
    <2>4. /\ c \in DOMAIN agg /\ operation[c].phase = "succeeded"
          /\ agg'[c].release = agg[c].release
          /\ agg[c].release = request[c].release
        BY <2>3 DEF Succeeds, RecordSuccess, HelmAnswers, OriginInv,
                    HolderOriginates
    <2>5. helm[agg[c].release] = [status |-> "deployed",
                                  revision |-> operation[c].revision]
        BY <1>2, <2>2, <2>4 DEF CurrentRevisionInv, HelmShows
    <2>6. agg'[c].history[Len(agg'[c].history)].helmVersion
              = operation[c].revision
        <3>1. PICK entry \in HistoryEntry :
                  /\ agg'[c].history = Append(agg[c].history, entry)
                  /\ entry.helmVersion = operation[c].revision
            BY <2>3 DEF Succeeds
        <3>2. agg[c].history \in Seq(HistoryEntry)
            BY <2>4 DEF TypeOK, AggregatesOK, Aggregate
        <3> QED
            BY <3>1, <3>2
    <2> QED
        BY <1>1, <2>4, <2>5, <2>6 DEF Shows
<1> QED
    BY <1>1, <1>3, <1>4, <1>5 DEF CurrentRevisionInv, RowsShow, Shows

\* While a handler is at Helm the row of its release is not SUCCEEDED.
LEMMA HelmStepShows ==
    ASSUME TrackedAndReal, TypeOK, IntentMatchesStep, OriginInv,
           SequentialInv, CurrentRevisionInv, NEW c \in Calls, RunHelm(c),
           OnlyMoves(c)
    PROVE  CurrentRevisionInv'
<1> DEFINE q == request[c]
           r == q.release
<1>1. /\ pc[c] = "helm" /\ c \in DOMAIN request /\ q \in Requests
      /\ HelmStep(c, q, cancelled)
      /\ UNCHANGED <<pc, request, agg>>
      /\ \A s \in Releases \ {r} : helm'[s] = helm[s]
    BY HelmLeaves
<1>2. UNCHANGED table /\ \A s : Simple(s)' <=> Simple(s)
    BY <1>1 DEF RunHelm, storeVars, Simple, InstalledOnce, Requested
<1>3. Simple(r) => q.kind # "uninstall"
    BY <1>1 DEF Simple, Requested
<1>4. q.tracked /\ ~q.dryRun
    BY <1>1 DEF TrackedAndReal
<1>5. ASSUME NEW id \in DOMAIN table, table[id].status = "SUCCEEDED",
             Simple(table[id].release)
      PROVE  Shows(table[id].release, table[id].history)'
    <2>1. Shows(table[id].release, table[id].history)
        BY <1>5 DEF CurrentRevisionInv, RowsShow
    <2>2. table[id].release \in Releases
        BY <1>5 DEF TypeOK, StoreTypeOK, Row
    <2>3. table[id].release # r
        <3> SUFFICES ASSUME table[id].release = r PROVE FALSE
            OBVIOUS
        <3>1. c \in DOMAIN agg
            BY <1>1, <1>3, <1>4, <1>5 DEF OriginInv, HelmReached
        <3>2. /\ Requested(agg[c].id, "install", r)
              /\ Requested(id, "install", r)
            BY <1>5, <3>1 DEF OriginInv, HolderOriginates, RowsOriginate
        <3>3. agg[c].id \in Calls /\ id \in Calls
            BY <3>2 DEF Requested, TypeOK, RequestsOK
        <3>4. agg[c].id = id
            BY <1>5, <3>2, <3>3 DEF Simple, InstalledOnce
        <3>5. agg[c].status # "SUCCEEDED"
            BY <1>1, <3>1 DEF IntentMatchesStep, MatchesStep, IntentOf
        <3> QED
            BY <1>1, <1>5, <3>1, <3>4, <3>5 DEF SequentialInv, MatchesRow
    <2> QED
        BY <1>1, <1>2, <2>1, <2>2, <2>3 DEF Shows
<1>6. HelmShows(c)'
    <2> SUFFICES ASSUME Simple(r)
                 PROVE  /\ operation'[c].phase = "running" =>
                               helm'[r].revision = operation'[c].revision
                        /\ operation'[c].phase = "succeeded" =>
                               helm'[r] = [status |-> "deployed",
                                           revision |-> operation'[c].revision]
        BY <1>1, <1>2 DEF HelmShows
    <2>1. \/ Rests(c) \/ Begins(c, q) \/ Completes(c, q) \/ Breaks(c, q)
        BY <1>1, <1>3, <1>4, HelmEffects DEF TypeOK
    <2>2. operation[c].phase = "running" =>
              helm[r].revision = operation[c].revision
        BY <1>1 DEF CurrentRevisionInv, HelmShows
    <2>3. CASE Rests(c) \/ Breaks(c, q)
        BY <2>3 DEF Rests, Breaks, AtWorkPhases
    <2>4. CASE Begins(c, q)
        BY <2>4 DEF Begins
    <2>5. CASE Completes(c, q)
        BY <2>2, <2>5 DEF Completes
    <2> QED
        BY <2>1, <2>3, <2>4, <2>5
<1>7. ASSUME NEW d \in Calls, d # c PROVE HelmShows(d)'
    BY <1>7 DEF OnlyMoves, InFlight, HelmShows
<1>8. \A d \in DOMAIN agg' : HolderShows(d)'
    BY <1>1 DEF OnlyMoves, HolderShows
<1>9. RowsShow'
    BY <1>2, <1>5 DEF RowsShow, Shows
<1> QED
    BY <1>6, <1>7, <1>8, <1>9 DEF CurrentRevisionInv

\* The inductive step of CurrentRevisionInv.
LEMMA CurrentRevisionStep ==
    ASSUME MaxInFlight = 1, TrackedAndReal, TypeOK, IntentMatchesStep,
           OriginInv, SequentialInv, CurrentRevisionInv, [Next]_vars
    PROVE  CurrentRevisionInv'
<1>1. ASSUME NEW c \in Calls, Receive(c) \/ Handle(c)
      PROVE  CurrentRevisionInv'
    <2>1. OnlyMoves(c)
        BY <1>1, OneMoves DEF SequentialInv
    <2> QED
        BY <1>1, <2>1, AwayShows, HelmStepShows
<1>2. CASE Restart
    <2>1. /\ UNCHANGED <<table, helm, request>> /\ DOMAIN agg' = {}
          /\ \A d \in Calls : pc'[d] # "helm"
        BY <1>2 DEF Restart, storeVars, InFlight, TypeOK
    <2> QED
        BY <2>1 DEF CurrentRevisionInv, RowsShow, Shows, HelmShows, Simple,
                    InstalledOnce, Requested
<1>3. CASE UNCHANGED <<table, helm, operation, pc, request, agg>>
    BY <1>3 DEF CurrentRevisionInv, RowsShow, Shows, HelmShows, HolderShows,
                Simple, InstalledOnce, Requested
<1> QED
    BY <1>1, <1>2, <1>3
    DEF Next, Signal, Waiting, vars, storeVars, helmVars, serviceVars

\* While clients make one call after the other, with the tools that keep the
\* store and none for a dry run, a SUCCEEDED row of a release that one call
\* has installed and none was asked to uninstall names the revision that Helm
\* has deployed, whatever fails and wherever the process dies.
THEOREM StoredRevisionCurrent ==
    ASSUME MaxInFlight = 1, TrackedAndReal
    PROVE  Spec => []StoredRevisionIsCurrent
<1>1. Init => CurrentRevisionInv
    BY DEF Init, StoreInit, CurrentRevisionInv, RowsShow, HelmShows
<1>2. TypeOK /\ IntentMatchesStep /\ SequentialInv /\ [Next]_vars
          => SequentialInv'
    BY SequentialStep
<1>3. TypeOK /\ IntentMatchesStep /\ OriginInv /\ SequentialInv
          /\ CurrentRevisionInv /\ [Next]_vars => CurrentRevisionInv'
    BY CurrentRevisionStep
<1>4. CurrentRevisionInv => StoredRevisionIsCurrent
    BY DEF CurrentRevisionInv, RowsShow, Shows, Simple,
           StoredRevisionIsCurrent
<1> QED
    BY <1>1, <1>2, <1>3, <1>4, SequentialInit, TypeCorrect, IntentsMatch,
       OriginKept, PTL DEF Spec
=============================================================================
