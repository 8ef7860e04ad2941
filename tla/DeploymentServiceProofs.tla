----------------------- MODULE DeploymentServiceProofs -----------------------
(***************************************************************************)
(* Theorems about DeploymentService, for any calls, requests and faults:   *)
(* the type invariant and, from it, that the version of every row and of   *)
(* every aggregate in a handler's hands counts its history.                *)
(***************************************************************************)
EXTENDS DeploymentService, WellFoundedInduction, TLAPS

-----------------------------------------------------------------------------
(* Requests                                                                *)

\* What every request has, whichever tool makes it (McpTools).
LEMMA RequestFields ==
    ASSUME NEW q \in Requests
    PROVE  /\ q.release \in Releases
           /\ q.chart \in Charts
           /\ q.kind \in {"install", "upgrade", "rollback", "uninstall"}
<1>1. q \in Request
    BY RequestsAssumption
<1>2. CASE q \in InstallChart \cup HelmInstall
    BY <1>2 DEF InstallChart, HelmInstall, Installs
<1>3. CASE q \in UpgradeChart \cup HelmUpgrade
    BY <1>3 DEF UpgradeChart, HelmUpgrade, Upgrades
<1>4. CASE q \in RollbackChart(Nat) \cup HelmRollback(Nat)
    BY <1>4 DEF RollbackChart, HelmRollback, Rollbacks
<1>5. CASE q \in UninstallChart \cup HelmUninstall
    BY <1>5 DEF UninstallChart, HelmUninstall, Uninstalls
<1> QED
    BY <1>1, <1>2, <1>3, <1>4, <1>5 DEF Request

-----------------------------------------------------------------------------
(* The commands of the aggregate keep its type                             *)

\* New makes an aggregate (entity.go, New).
LEMMA NewDeploymentType ==
    ASSUME NEW id \in Ids, NEW release \in Releases, NEW chart \in Charts
    PROVE  NewDeployment(id, release, chart) \in Aggregate
<1>1. <<>> \in Seq(HistoryEntry) /\ <<"created">> \in Seq(EventType)
    BY DEF EventType
<1> QED
    BY <1>1 DEF NewDeployment, Aggregate, Status

\* Every command maps an aggregate to an aggregate (entity.go, Commands).
LEMMA CommandTypes ==
    ASSUME NEW d \in Aggregate
    PROVE  /\ StartDeployment(d) \in Aggregate
           /\ MarkFailed(d) \in Aggregate
           /\ \A chart \in Charts : StartUpgrade(d, chart) \in Aggregate
           /\ StartRollback(d) \in Aggregate
           /\ MarkRolledBack(d) \in Aggregate
           /\ \A revision \in Nat : MarkSucceeded(d, revision) \in Aggregate
<1>1. \A e \in EventType : Append(d.events, e) \in Seq(EventType)
    BY DEF Aggregate
<1>2. /\ StartDeployment(d) \in Aggregate
      /\ MarkFailed(d) \in Aggregate
      /\ \A chart \in Charts : StartUpgrade(d, chart) \in Aggregate
      /\ StartRollback(d) \in Aggregate
      /\ MarkRolledBack(d) \in Aggregate
    BY <1>1 DEF StartDeployment, MarkFailed, StartUpgrade, StartRollback,
                MarkRolledBack, Aggregate, Status, EventType
<1>3. ASSUME NEW revision \in Nat
      PROVE  MarkSucceeded(d, revision) \in Aggregate
    <2> DEFINE entry == [version |-> d.version, status |-> d.status,
                         chart |-> d.chart, helmVersion |-> revision]
    <2>1. entry \in HistoryEntry
        BY DEF HistoryEntry, Aggregate
    <2>2. Append(d.history, entry) \in Seq(HistoryEntry)
        BY <2>1 DEF Aggregate
    <2>3. Append(d.events, "succeeded") \in Seq(EventType)
        BY <1>1 DEF EventType
    <2>4. d.version + 1 \in Nat
        BY DEF Aggregate
    <2>5. ASSUME NEW history \in Seq(HistoryEntry), NEW version \in Nat,
                 NEW events \in Seq(EventType)
          PROVE  [d EXCEPT !.history = history, !.status = "SUCCEEDED",
                           !.version = version, !.events = events]
                     \in Aggregate
        BY DEF Aggregate, Status
    <2> HIDE DEF entry
    <2>6. MarkSucceeded(d, revision) =
            [d EXCEPT !.history = Append(d.history, entry),
                      !.status = "SUCCEEDED", !.version = d.version + 1,
                      !.events = Append(d.events, "succeeded")]
        BY DEF MarkSucceeded, entry
    <2>7. [d EXCEPT !.history = Append(d.history, entry),
                    !.status = "SUCCEEDED", !.version = d.version + 1,
                    !.events = Append(d.events, "succeeded")] \in Aggregate
        BY <2>2, <2>3, <2>4, <2>5, Zenon
    <2> QED
        BY <2>6, <2>7, Zenon
<1> QED
    BY <1>2, <1>3

-----------------------------------------------------------------------------
(* The store                                                               *)

\* Saving an aggregate keeps the store's type (sqlite, Repository.Save).
LEMMA SaveType ==
    ASSUME StoreTypeOK, NEW d \in Aggregate, Save(d)
    PROVE  StoreTypeOK'
<1>1. CASE d.id \in DOMAIN table
    <2>1. UpdatedRow(table[d.id], d) \in Row
        BY <1>1 DEF StoreTypeOK, UpdatedRow, Row, Aggregate, Charts
    <2> QED
        BY <1>1, <2>1 DEF StoreTypeOK, Save, Put
<1>2. CASE d.id \notin DOMAIN table
    <2>1. RowOf(d, nextRowid) \in Row
        BY DEF StoreTypeOK, RowOf, Row, Aggregate
    <2>2. d.id \in Ids
        BY DEF Aggregate
    <2> QED
        BY <1>2, <2>1, <2>2 DEF StoreTypeOK, Save, Put
<1> QED
    BY <1>1, <1>2

\* Deleting a row keeps the store's type (sqlite, Repository.Delete).
LEMMA DeleteType ==
    ASSUME StoreTypeOK, NEW id, Delete(id)
    PROVE  StoreTypeOK'
BY DEF StoreTypeOK, Delete, Drop

\* The order of the naturals, as a relation of the library's theorem WFMin.
Below == {p \in Nat \X Nat : p[1] < p[2]}

\* No set of naturals descends for ever.
LEMMA BelowWellFounded == IsWellFoundedOn(Below, Nat)
BY NatLessThanWellFounded, Zenon DEF OpToRel, Below

\* Every set of naturals that has a member has a least one.
LEMMA LeastNatural ==
    ASSUME NEW S \in SUBSET Nat, S # {}
    PROVE  \E m \in S : \A n \in S : m <= n
<1>1. \E m \in S : \A n \in S : <<n, m>> \notin Below
    BY BelowWellFounded, WFMin, Zenon
<1>2. \A m, n \in Nat : <<n, m>> \notin Below => m <= n
    BY SMT DEF Below
<1> QED
    BY <1>1, <1>2

\* The lookup by release answers with one of the release's rows if there is
\* any (sqlite, Repository.FindByReleaseName).
LEMMA FirstRowIsARow ==
    ASSUME StoreTypeOK, NEW release, RowsFor(release) # {}
    PROVE  FirstRowFor(release) \in RowsFor(release)
<1> DEFINE rowids == {table[id].rowid : id \in RowsFor(release)}
<1>1. rowids \in SUBSET Nat /\ rowids # {}
    BY DEF RowsFor, StoreTypeOK, Row
<1>2. PICK m \in rowids : \A n \in rowids : m <= n
    BY <1>1, LeastNatural
<1>3. PICK id \in RowsFor(release) : m = table[id].rowid
    BY <1>2
<1>4. \A other \in RowsFor(release) : table[id].rowid <= table[other].rowid
    BY <1>2, <1>3
<1> QED
    BY <1>3, <1>4, Zenon DEF FirstRowFor

\* What it answers with is an aggregate (sqlite, scanDeployment).
LEMMA ReconstituteType ==
    ASSUME StoreTypeOK, NEW id \in DOMAIN table
    PROVE  Reconstitute(id) \in Aggregate
<1>1. <<>> \in Seq(EventType)
    OBVIOUS
<1> QED
    BY <1>1 DEF StoreTypeOK, Reconstitute, Row, Aggregate

-----------------------------------------------------------------------------
(* Helm                                                                    *)

\* A failed attempt leaves the operations well typed (retry.Do).
LEMMA AttemptFailedType ==
    ASSUME HelmTypeOK, NEW c \in Calls, NEW q, NEW done,
           AttemptFailed(c, q, done)
    PROVE  operation' \in [Calls -> Operation]
BY DEF AttemptFailed, Moved, HelmTypeOK, Operation, Phase

\* Writing a status leaves Helm's records well typed.
LEMMA WriteStatusType ==
    ASSUME HelmTypeOK, NEW c \in Calls, NEW q \in Requests,
           NEW status \in ReleaseStatus, WriteStatus(c, q, status)
    PROVE  helm' \in [Releases -> ReleaseRecord]
BY RequestFields DEF WriteStatus, HelmTypeOK, ReleaseRecord

\* Purging a release leaves Helm's records well typed.
LEMMA PurgeType ==
    ASSUME HelmTypeOK, NEW q \in Requests, Purge(q)
    PROVE  helm' \in [Releases -> ReleaseRecord]
BY RequestFields DEF Purge, NoRelease, HelmTypeOK, ReleaseRecord, ReleaseStatus

\* So does recording a new revision.
LEMMA NewRevisionType ==
    ASSUME HelmTypeOK, NEW c \in Calls, NEW q \in Requests, NewRevision(c, q)
    PROVE  /\ helm' \in [Releases -> ReleaseRecord]
           /\ operation' \in [Calls -> Operation]
<1>1. helm[q.release].revision + 1 \in Nat
    BY RequestFields DEF HelmTypeOK, ReleaseRecord
<1> DEFINE revision == helm[q.release].revision + 1
<1>2. [status |-> "pending", revision |-> revision] \in ReleaseRecord
    BY <1>1 DEF ReleaseRecord, ReleaseStatus
<1>3. [operation[c] EXCEPT !.phase = "running", !.revision = revision]
        \in Operation
    BY <1>1 DEF HelmTypeOK, Operation, Phase
<1> HIDE DEF revision
<1>4. /\ helm' = [helm EXCEPT ![q.release] =
                     [status |-> "pending", revision |-> revision]]
      /\ operation' = [operation EXCEPT ![c] =
            [operation[c] EXCEPT !.phase = "running", !.revision = revision]]
    BY DEF NewRevision, revision, HelmTypeOK
<1> QED
    BY <1>2, <1>3, <1>4, RequestFields DEF HelmTypeOK

\* Every step of a Helm operation keeps the types of the adapter's state.
LEMMA HelmStepType ==
    ASSUME HelmTypeOK, NEW c \in Calls, NEW q \in Requests, NEW done,
           HelmStep(c, q, done)
    PROVE  HelmTypeOK'
<1>1. CASE SetupFails(c)
    BY <1>1 DEF SetupFails, Moved, HelmTypeOK, Operation, Phase
<1>2. CASE AttemptRefused(c, q, done)
    BY <1>2, AttemptFailedType DEF AttemptRefused, HelmTypeOK
<1>3. CASE DryRun(c, q)
    <2>1. (IF q.kind = "install" THEN 1 ELSE helm[q.release].revision + 1) \in Nat
        BY RequestFields DEF HelmTypeOK, ReleaseRecord
    <2> QED
        BY <1>3, <2>1 DEF DryRun, HelmTypeOK, Operation, Phase
<1>4. CASE BeginInstall(c, q, done)
    <2>1. NamespaceOf[q.release] \in Namespaces
        BY RequestFields, NamespaceOfAssumption
    <2> QED
        BY <1>4, <2>1, NewRevisionType DEF BeginInstall, HelmTypeOK
<1>5. CASE BeginUpgrade(c, q, done)
    BY <1>5, NewRevisionType DEF BeginUpgrade, HelmTypeOK
<1>6. CASE BeginRollback(c, q)
    BY <1>6, NewRevisionType DEF BeginRollback, HelmTypeOK
<1>7. CASE BeginUninstall(c, q)
    <2>1. helm[q.release].revision \in Nat
        BY RequestFields DEF HelmTypeOK, ReleaseRecord
    <2>2. operation' \in [Calls -> Operation]
        BY <1>7, <2>1 DEF BeginUninstall, HelmTypeOK, Operation, Phase
    <2>3. helm' \in [Releases -> ReleaseRecord]
        BY <1>7, RequestFields
        DEF BeginUninstall, HelmTypeOK, ReleaseRecord, ReleaseStatus
    <2> QED
        BY <1>7, <2>2, <2>3 DEF BeginUninstall, HelmTypeOK
<1>8. CASE Complete(c, q)
    <2>1. operation' \in [Calls -> Operation]
        BY <1>8 DEF Complete, Moved, HelmTypeOK, Operation, Phase
    <2>2. helm' \in [Releases -> ReleaseRecord]
        BY <1>8, WriteStatusType, PurgeType DEF Complete, ReleaseStatus
    <2> QED
        BY <1>8, <2>1, <2>2 DEF Complete, HelmTypeOK
<1>9. CASE Break(c, q, done)
    <2>1. operation' \in [Calls -> Operation]
        BY <1>9, AttemptFailedType DEF Break
    <2>2. helm[q.release].revision + 1 \in Nat
        BY RequestFields DEF HelmTypeOK, ReleaseRecord
    <2>3. [status |-> "deployed", revision |-> helm[q.release].revision + 1]
            \in ReleaseRecord
        BY <2>2 DEF ReleaseRecord, ReleaseStatus
    <2>4. helm' \in [Releases -> ReleaseRecord]
        BY <1>9, <2>3, WriteStatusType, PurgeType, RequestFields
        DEF Break, ReleaseStatus, HelmTypeOK
    <2> QED
        BY <1>9, <2>1, <2>4 DEF Break, HelmTypeOK
<1>10. CASE Retry(c, done)
    BY <1>10 DEF Retry, HelmTypeOK, Operation, Phase
<1>11. CASE GiveUp(c, done)
    BY <1>11 DEF GiveUp, Moved, HelmTypeOK, Operation, Phase
<1> QED
    BY <1>1, <1>2, <1>3, <1>4, <1>5, <1>6, <1>7, <1>8, <1>9, <1>10, <1>11
    DEF HelmStep

\* The adapter's return resets the call's operation.
LEMMA HelmReturnsType ==
    ASSUME HelmTypeOK, NEW c \in Calls, HelmReturns(c)
    PROVE  HelmTypeOK'
BY DEF HelmReturns, FreshOperation, HelmTypeOK, Operation, Phase

-----------------------------------------------------------------------------
(* The handlers                                                            *)

HandlersOK == pc \in [Calls -> Step] /\ RequestsOK /\ AggregatesOK

\* The aggregate of c, and no other, may have changed.
OnlyChanges(c) ==
    \A d \in Calls \ {c} :
        /\ d \in DOMAIN agg' <=> d \in DOMAIN agg
        /\ d \in DOMAIN agg => agg'[d] = agg[d]

\* The ways a handler changes its aggregate change no other handler's.
LEMMA OwnAggregate ==
    ASSUME HandlersOK, NEW c \in Calls,
           \/ UNCHANGED agg
           \/ agg' = Drop(agg, c)
           \/ \E d \in Aggregate : agg' = Put(agg, c, d)
           \/ c \in DOMAIN agg /\ \E d \in Aggregate : agg' = [agg EXCEPT ![c] = d]
    PROVE  /\ OnlyChanges(c)
           /\ DOMAIN agg' \subseteq Calls
           /\ c \in DOMAIN agg' => agg'[c] \in Aggregate
BY DEF OnlyChanges, HandlersOK, AggregatesOK, InFlight, Put, Drop

\* A handler's move keeps the handlers well typed: it stays in flight or
\* drops its aggregate, and holds one where its next step needs one.
LEMMA HandlerMoves ==
    ASSUME HandlersOK, NEW c \in Calls, NEW step \in Step \ {"idle"},
           Goto(c, step),
           \/ c \in InFlight /\ UNCHANGED request
           \/ \E q \in Requests : request' = Put(request, c, q),
           OnlyChanges(c), DOMAIN agg' \subseteq Calls,
           c \in DOMAIN agg' => agg'[c] \in Aggregate
                                /\ step \notin {"done", "lost"},
           step \in HoldingSteps => c \in DOMAIN agg'
    PROVE  HandlersOK'
<1>1. pc' \in [Calls -> Step]
    BY DEF HandlersOK, Goto
<1>2. pc'[c] = step /\ \A d \in Calls \ {c} : pc'[d] = pc[d]
    BY DEF HandlersOK, Goto
<1>3. c \in DOMAIN request' /\ \A d \in DOMAIN request : d \in DOMAIN request'
    BY DEF HandlersOK, RequestsOK, Put
<1>4. RequestsOK'
    <2>1. DOMAIN request' \subseteq Calls
          /\ \A d \in DOMAIN request' : request'[d] \in Requests
        BY DEF HandlersOK, RequestsOK, Put
    <2>2. InFlight' \subseteq DOMAIN request'
        BY <1>2, <1>3 DEF InFlight, HandlersOK, RequestsOK
    <2> QED
        BY <2>1, <2>2 DEF RequestsOK
<1>5. AggregatesOK'
    <2>1. DOMAIN agg' \subseteq InFlight'
        BY <1>2 DEF OnlyChanges, HandlersOK, AggregatesOK, InFlight
    <2>2. \A d \in DOMAIN agg' : agg'[d] \in Aggregate
        BY DEF OnlyChanges, HandlersOK, AggregatesOK
    <2>3. \A d \in Calls : pc'[d] \in HoldingSteps => d \in DOMAIN agg'
        BY <1>2 DEF OnlyChanges, HandlersOK, AggregatesOK
    <2> QED
        BY <2>1, <2>2, <2>3 DEF AggregatesOK
<1> QED
    BY <1>1, <1>4, <1>5 DEF HandlersOK

\* A handler that returns holds nothing.
LEMMA HandlerReturns ==
    ASSUME HandlersOK, NEW c \in Calls, Return(c),
           \/ c \in InFlight /\ UNCHANGED request
           \/ \E q \in Requests : request' = Put(request, c, q)
    PROVE  HandlersOK'
<1>1. c \notin DOMAIN agg'
    BY DEF Return, Drop
<1>2. OnlyChanges(c) /\ DOMAIN agg' \subseteq Calls
    BY OwnAggregate DEF Return
<1>3. Goto(c, "done") /\ "done" \in Step \ {"idle"} /\ "done" \notin HoldingSteps
    BY DEF Return, Step, HoldingSteps
<1> QED
    BY <1>1, <1>2, <1>3, HandlerMoves

\* A handler that goes on with the aggregate it holds or takes up one.
LEMMA HandlerGoesOn ==
    ASSUME HandlersOK, NEW c \in Calls,
           NEW step \in Step \ {"idle", "done", "lost"}, Goto(c, step),
           \/ c \in InFlight /\ UNCHANGED request
           \/ \E q \in Requests : request' = Put(request, c, q),
           \/ UNCHANGED agg /\ (step \in HoldingSteps => c \in DOMAIN agg)
           \/ \E d \in Aggregate : agg' = Put(agg, c, d)
           \/ c \in DOMAIN agg /\ \E d \in Aggregate : agg' = [agg EXCEPT ![c] = d]
    PROVE  HandlersOK'
<1>1. /\ OnlyChanges(c) /\ DOMAIN agg' \subseteq Calls
      /\ c \in DOMAIN agg' => agg'[c] \in Aggregate
    BY OwnAggregate
<1>2. step \in HoldingSteps => c \in DOMAIN agg'
    BY DEF Put
<1> QED
    BY <1>1, <1>2, HandlerMoves

-----------------------------------------------------------------------------
(* Type correctness                                                        *)

EnvironmentOK ==
    /\ published \in [Calls -> Seq(EventType)]
    /\ cancelled \in BOOLEAN
    /\ restarts \in 0 .. MaxRestarts
    /\ abandoned \subseteq Ids

\* TypeOK by component.
LEMMA TypeParts ==
    TypeOK <=> StoreTypeOK /\ HelmTypeOK /\ HandlersOK /\ EnvironmentOK
BY DEF TypeOK, HandlersOK, EnvironmentOK

\* The same after a step.
LEMMA TypePartsNext ==
    StoreTypeOK' /\ HelmTypeOK' /\ HandlersOK' /\ EnvironmentOK' => TypeOK'
BY DEF TypeOK, HandlersOK, EnvironmentOK

\* A component whose variables do not change stays well typed.
LEMMA UnchangedKeeps ==
    /\ StoreTypeOK /\ UNCHANGED storeVars => StoreTypeOK'
    /\ HelmTypeOK /\ UNCHANGED helmVars => HelmTypeOK'
    /\ EnvironmentOK /\ UNCHANGED <<published, cancelled, restarts, abandoned>>
           => EnvironmentOK'
BY DEF StoreTypeOK, HelmTypeOK, EnvironmentOK, storeVars, helmVars

\* A Save, successful or not, by a handler that holds an aggregate.
LEMMA SaveAttemptType ==
    ASSUME TypeOK, NEW c \in DOMAIN agg, SaveSucceeds(c) \/ SaveFails(c),
           UNCHANGED <<published, cancelled, restarts>>
    PROVE  StoreTypeOK' /\ EnvironmentOK'
<1>1. agg[c] \in Aggregate /\ agg[c].id \in Ids
    BY DEF TypeOK, AggregatesOK, Aggregate
<1>2. StoreTypeOK'
    BY <1>1, SaveType, UnchangedKeeps DEF SaveSucceeds, SaveFails, TypeOK
<1>3. EnvironmentOK'
    BY <1>1, TypeParts DEF EnvironmentOK, SaveSucceeds, SaveFails
<1> QED
    BY <1>2, <1>3

\* The initial state is well typed.
LEMMA InitType == Init => TypeOK
<1> SUFFICES ASSUME Init PROVE TypeOK
    OBVIOUS
<1>1. StoreTypeOK
    BY DEF Init, StoreInit, StoreTypeOK
<1>2. HelmTypeOK
    BY DEF Init, HelmInit, HelmTypeOK, NoRelease, FreshOperation,
           ReleaseRecord, ReleaseStatus, Operation, Phase
<1>3. pc \in [Calls -> Step] /\ InFlight = {}
    BY DEF Init, Step, InFlight
<1>4. RequestsOK /\ AggregatesOK
    BY <1>3 DEF Init, RequestsOK, AggregatesOK, HoldingSteps
<1>5. EnvironmentOK
    <2>1. <<>> \in Seq(EventType)
        OBVIOUS
    <2>2. 0 \in 0 .. MaxRestarts
        BY BoundsAssumption
    <2> QED
        BY <2>1, <2>2 DEF Init, EnvironmentOK
<1> QED
    BY <1>1, <1>2, <1>3, <1>4, <1>5 DEF TypeOK, EnvironmentOK

\* A call's arrival keeps the type.
LEMMA ReceiveType ==
    ASSUME TypeOK, NEW c \in Calls, Receive(c)
    PROVE  TypeOK'
<1>1. PICK q \in Requests :
          StartInstall(c, q) \/ StartFromStore(c, q) \/ StartAtHelm(c, q)
    BY DEF Receive
<1>2. Accept(c, q)
    BY <1>1 DEF StartInstall, StartFromStore, StartAtHelm
<1>3. StoreTypeOK' /\ HelmTypeOK' /\ EnvironmentOK'
    BY <1>2, UnchangedKeeps, TypeParts DEF Accept
<1>4. HandlersOK
    BY TypeParts
<1>5. request' = Put(request, c, q)
    BY <1>2 DEF Accept
<1>6. CASE StartInstall(c, q)
    <2>1. NewDeployment(c, q.release, q.chart) \in Aggregate
        BY RequestFields, CallsAssumption, NewDeploymentType
    <2>2. CASE CanCreate(q.chart)
        <3>1. PICK step \in {"namespace", "savePending"} : Goto(c, step)
            BY <1>6, <2>2 DEF StartInstall
        <3>2. \E d \in Aggregate : agg' = Put(agg, c, d)
            BY <1>6, <2>1, <2>2 DEF StartInstall
        <3>3. step \in Step \ {"idle", "done", "lost"}
            BY DEF Step
        <3> QED
            BY <1>3, <1>4, <1>5, <3>1, <3>2, <3>3, HandlerGoesOn, TypePartsNext
    <2>3. CASE ~CanCreate(q.chart)
        BY <1>3, <1>4, <1>5, <1>6, <2>3, HandlerReturns, TypePartsNext
        DEF StartInstall
    <2> QED
        BY <2>2, <2>3
<1>7. CASE StartFromStore(c, q)
    BY <1>3, <1>4, <1>5, <1>7, HandlerGoesOn, TypePartsNext
    DEF StartFromStore, Step, HoldingSteps
<1>8. CASE StartAtHelm(c, q)
    BY <1>3, <1>4, <1>5, <1>8, HandlerGoesOn, TypePartsNext
    DEF StartAtHelm, Step, HoldingSteps
<1> QED
    BY <1>1, <1>6, <1>7, <1>8

\* A handler in one of these steps is in flight and has its request; it
\* holds an aggregate where the step needs one.
LEMMA AtWork ==
    ASSUME TypeOK, NEW c \in Calls, pc[c] \notin {"idle", "done", "lost"}
    PROVE  /\ c \in InFlight
           /\ c \in DOMAIN request /\ request[c] \in Requests
           /\ pc[c] \in HoldingSteps => c \in DOMAIN agg
           /\ c \in DOMAIN agg => agg[c] \in Aggregate
BY DEF TypeOK, RequestsOK, AggregatesOK, InFlight

\* What the lookup by release answers with is an aggregate.
LEMMA LoadedType ==
    ASSUME StoreTypeOK, NEW release, RowsFor(release) # {}
    PROVE  Reconstitute(FirstRowFor(release)) \in Aggregate
BY FirstRowIsARow, ReconstituteType DEF RowsFor

\* InstallChart up to its first Save keeps the type.
LEMMA InstallStepType ==
    ASSUME TypeOK, NEW c \in Calls, EnsureNamespace(c) \/ SavePending(c)
    PROVE  TypeOK'
<1>1. CASE EnsureNamespace(c)
    <2>1. c \in InFlight /\ c \in DOMAIN agg /\ request[c] \in Requests
        BY <1>1, AtWork DEF EnsureNamespace, HoldingSteps
    <2>2. StoreTypeOK' /\ EnvironmentOK'
        BY <1>1, UnchangedKeeps, TypeParts DEF EnsureNamespace
    <2>3. NamespaceOf[request[c].release] \in Namespaces
        BY <2>1, RequestFields, NamespaceOfAssumption
    <2>4. HelmTypeOK'
        BY <1>1, <2>3 DEF EnsureNamespace, NamespaceEnsured, TypeOK, HelmTypeOK
    <2>5. HandlersOK'
        BY <1>1, <2>1, TypeParts, HandlerGoesOn, HandlerReturns
        DEF EnsureNamespace, Step
    <2> QED
        BY <2>2, <2>4, <2>5, TypePartsNext
<1>2. CASE SavePending(c)
    <2>1. c \in InFlight /\ c \in DOMAIN agg /\ agg[c] \in Aggregate
        BY <1>2, AtWork DEF SavePending, HoldingSteps
    <2>2. StoreTypeOK' /\ EnvironmentOK'
        BY <1>2, <2>1, SaveAttemptType DEF SavePending
    <2>3. HelmTypeOK'
        BY <1>2, UnchangedKeeps, TypeParts DEF SavePending
    <2>4. StartDeployment(agg[c]) \in Aggregate
        BY <2>1, CommandTypes
    <2>5. HandlersOK'
        BY <1>2, <2>1, <2>4, TypeParts, HandlerGoesOn, HandlerReturns
        DEF SavePending, Step
    <2> QED
        BY <2>2, <2>3, <2>5, TypePartsNext
<1> QED
    BY <1>1, <1>2

\* Loading by release, for an upgrade, a rollback or an uninstall, keeps
\* the type.
LEMMA LoadStepType ==
    ASSUME TypeOK, NEW c \in Calls,
           \/ LoadFails(c) \/ LoadForUpgrade(c) \/ LoadForRollback(c)
           \/ FindForUninstall(c)
    PROVE  TypeOK'
<1> DEFINE loaded == Reconstitute(FirstRowFor(request[c].release))
<1>1. c \in InFlight /\ request[c] \in Requests
    BY AtWork DEF LoadFails, LoadForUpgrade, LoadForRollback, FindForUninstall
<1>2. StoreTypeOK' /\ HelmTypeOK' /\ EnvironmentOK' /\ UNCHANGED request
    BY UnchangedKeeps, TypeParts
    DEF LoadFails, LoadForUpgrade, LoadForRollback, FindForUninstall,
        LoadUnchangedVars
<1>3. RowsFor(request[c].release) # {} => loaded \in Aggregate
    BY LoadedType DEF TypeOK
<1>4. HandlersOK
    BY TypeParts
<1>5. CASE LoadFails(c)
    BY <1>1, <1>2, <1>4, <1>5, HandlerReturns, TypePartsNext DEF LoadFails
<1>6. CASE LoadForUpgrade(c)
    <2>1. StartUpgrade(loaded, request[c].chart) \in Aggregate
        BY <1>1, <1>3, <1>6, RequestFields, CommandTypes DEF LoadForUpgrade
    <2>2. \/ Return(c)
          \/ /\ \E d \in Aggregate : agg' = Put(agg, c, d)
             /\ Goto(c, "saveIntent")
        BY <1>6, <2>1 DEF LoadForUpgrade
    <2> QED
        BY <1>1, <1>2, <1>4, <2>2, HandlerReturns, HandlerGoesOn, TypePartsNext
        DEF Step
<1>7. CASE LoadForRollback(c)
    <2>1. StartRollback(loaded) \in Aggregate
        BY <1>3, <1>7, CommandTypes DEF LoadForRollback
    <2>2. \/ Return(c)
          \/ /\ \E d \in Aggregate : agg' = Put(agg, c, d)
             /\ Goto(c, "saveIntent")
        BY <1>7, <2>1 DEF LoadForRollback
    <2> QED
        BY <1>1, <1>2, <1>4, <2>2, HandlerReturns, HandlerGoesOn, TypePartsNext
        DEF Step
<1>8. CASE FindForUninstall(c)
    <2>1. \/ Return(c)
          \/ /\ \E d \in Aggregate : agg' = Put(agg, c, d)
             /\ Goto(c, "delete")
        BY <1>3, <1>8 DEF FindForUninstall
    <2> QED
        BY <1>1, <1>2, <1>4, <2>1, HandlerReturns, HandlerGoesOn, TypePartsNext
        DEF Step
<1> QED
    BY <1>5, <1>6, <1>7, <1>8

\* The later saves, the publication and the deletion keep the type.
LEMMA StoreStepType ==
    ASSUME TypeOK, NEW c \in Calls,
           SaveIntent(c) \/ SaveOutcome(c) \/ PublishEvents(c) \/ DeleteRow(c)
    PROVE  TypeOK'
<1>1. c \in InFlight /\ c \in DOMAIN agg /\ agg[c] \in Aggregate
    BY AtWork DEF SaveIntent, SaveOutcome, PublishEvents, DeleteRow, HoldingSteps
<1>2. HelmTypeOK' /\ UNCHANGED request
    BY UnchangedKeeps, TypeParts
    DEF SaveIntent, SaveOutcome, PublishEvents, DeleteRow
<1>3. HandlersOK
    BY TypeParts
<1>4. CASE SaveIntent(c)
    <2>1. StoreTypeOK' /\ EnvironmentOK'
        BY <1>1, <1>4, SaveAttemptType DEF SaveIntent
    <2>2. HandlersOK'
        BY <1>1, <1>2, <1>3, <1>4, HandlerReturns, HandlerGoesOn
        DEF SaveIntent, Step
    <2> QED
        BY <1>2, <2>1, <2>2, TypePartsNext
<1>5. CASE SaveOutcome(c)
    <2>1. StoreTypeOK' /\ EnvironmentOK'
        BY <1>1, <1>5, SaveAttemptType DEF SaveOutcome
    <2>2. HandlersOK'
        BY <1>1, <1>2, <1>3, <1>5, HandlerReturns, HandlerGoesOn
        DEF SaveOutcome, Step
    <2> QED
        BY <1>2, <2>1, <2>2, TypePartsNext
<1>6. CASE PublishEvents(c)
    <2>1. StoreTypeOK'
        BY <1>6, UnchangedKeeps, TypeParts DEF PublishEvents
    <2>2. agg[c].events \in Seq(EventType)
        BY <1>1 DEF Aggregate
    <2>3. EnvironmentOK'
        BY <1>6, <2>2, TypeParts DEF PublishEvents, EnvironmentOK
    <2>4. HandlersOK'
        BY <1>1, <1>2, <1>3, <1>6, HandlerReturns DEF PublishEvents
    <2> QED
        BY <1>2, <2>1, <2>3, <2>4, TypePartsNext
<1>7. CASE DeleteRow(c)
    <2>1. StoreTypeOK'
        BY <1>7, UnchangedKeeps, DeleteType, TypeParts DEF DeleteRow
    <2>2. EnvironmentOK'
        BY <1>7, UnchangedKeeps, TypeParts DEF DeleteRow
    <2>3. HandlersOK'
        BY <1>1, <1>2, <1>3, <1>7, HandlerReturns DEF DeleteRow
    <2> QED
        BY <1>2, <2>1, <2>2, <2>3, TypePartsNext
<1> QED
    BY <1>4, <1>5, <1>6, <1>7

\* A Helm operation, and recording how it ended, keep the type.
LEMMA HelmPhaseType ==
    ASSUME TypeOK, NEW c \in Calls,
           \/ RunHelm(c) \/ RecordSuccess(c) \/ RecordRollback(c)
           \/ RecordFailure(c) \/ FinishDirect(c) \/ FinishUninstall(c)
    PROVE  TypeOK'
<1>1. /\ c \in InFlight /\ request[c] \in Requests
      /\ c \in DOMAIN agg => agg[c] \in Aggregate
    BY AtWork DEF RunHelm, RecordSuccess, RecordRollback, RecordFailure,
                  FinishDirect, FinishUninstall, HelmAnswers
<1>2. HandlersOK
    BY TypeParts
<1>3. CASE RunHelm(c)
    <2>1. HelmTypeOK'
        BY <1>1, <1>3, HelmStepType, TypeParts DEF RunHelm
    <2>2. StoreTypeOK' /\ EnvironmentOK'
        BY <1>3, UnchangedKeeps, TypeParts DEF RunHelm, serviceVars
    <2>3. HandlersOK'
        BY <1>2, <1>3 DEF RunHelm, serviceVars, HandlersOK, RequestsOK,
                          AggregatesOK, InFlight
    <2> QED
        BY <2>1, <2>2, <2>3, TypePartsNext
<1>4. CASE ~RunHelm(c)
    <2>1. HelmReturns(c)
        BY <1>4 DEF RecordSuccess, RecordRollback, RecordFailure,
                    FinishDirect, FinishUninstall, HelmAnswers
    <2>2. HelmTypeOK'
        BY <2>1, HelmReturnsType, TypeParts
    <2>3. StoreTypeOK' /\ EnvironmentOK' /\ UNCHANGED request
        BY <1>4, UnchangedKeeps, TypeParts
        DEF RecordSuccess, RecordRollback, RecordFailure, FinishDirect,
            FinishUninstall, OutcomeUnchangedVars
    <2>4. operation[c].revision \in Nat
        BY DEF TypeOK, HelmTypeOK, Operation
    <2>5. c \in DOMAIN agg =>
              /\ MarkSucceeded(agg[c], operation[c].revision) \in Aggregate
              /\ MarkRolledBack(agg[c]) \in Aggregate
              /\ MarkFailed(agg[c]) \in Aggregate
        BY <1>1, <2>4, CommandTypes
    <2>6. \/ Return(c)
          \/ /\ c \in DOMAIN agg
             /\ \E d \in Aggregate : agg' = [agg EXCEPT ![c] = d]
             /\ Goto(c, "saveOutcome")
          \/ Goto(c, "find") /\ UNCHANGED agg
        BY <1>4, <2>5 DEF RecordSuccess, RecordRollback, RecordFailure,
                          FinishDirect, FinishUninstall
    <2>7. HandlersOK'
        BY <1>1, <1>2, <2>3, <2>6, HandlerReturns, HandlerGoesOn
        DEF Step, HoldingSteps
    <2> QED
        BY <2>2, <2>3, <2>7, TypePartsNext
<1> QED
    BY <1>3, <1>4

\* SIGTERM, the death of the process and idling keep the type.
LEMMA ProcessStepType ==
    ASSUME TypeOK, Signal \/ Restart \/ UNCHANGED vars
    PROVE  TypeOK'
<1>1. CASE Signal
    <2>1. StoreTypeOK' /\ HelmTypeOK'
        BY <1>1, UnchangedKeeps, TypeParts DEF Signal
    <2>2. EnvironmentOK'
        BY <1>1, TypeParts DEF Signal, EnvironmentOK
    <2>3. HandlersOK'
        BY <1>1, TypeParts DEF Signal, HandlersOK, RequestsOK, AggregatesOK, InFlight
    <2> QED
        BY <2>1, <2>2, <2>3, TypePartsNext
<1>2. CASE Restart
    <2>1. StoreTypeOK'
        BY <1>2, UnchangedKeeps, TypeParts DEF Restart
    <2>2. HelmTypeOK'
        <3>1. FreshOperation \in Operation
            BY DEF FreshOperation, Operation, Phase
        <3>2. operation \in [Calls -> Operation]
            BY DEF TypeOK, HelmTypeOK
        <3>3. operation' \in [Calls -> Operation]
            BY <1>2, <3>1, <3>2, Zenon DEF Restart
        <3>4. UNCHANGED <<helm, namespaces>>
            BY <1>2 DEF Restart
        <3> QED
            BY <3>3, <3>4 DEF TypeOK, HelmTypeOK
    <2>3. {agg[c].id : c \in DOMAIN agg} \subseteq Ids
        BY DEF TypeOK, AggregatesOK, Aggregate
    <2>4. EnvironmentOK'
        <3>1. restarts' \in 0 .. MaxRestarts
            BY <1>2, BoundsAssumption DEF Restart, TypeOK
        <3>2. abandoned' \subseteq Ids
            BY <1>2, <2>3, Zenon DEF Restart, TypeOK
        <3>3. UNCHANGED published /\ cancelled' = FALSE
            BY <1>2 DEF Restart
        <3> QED
            BY <3>1, <3>2, <3>3 DEF TypeOK, EnvironmentOK
    <2>5. HandlersOK'
        <3>1. pc' \in [Calls -> Step] /\ InFlight' = {}
            BY <1>2 DEF Restart, TypeOK, InFlight, Step
        <3>2. RequestsOK'
            BY <1>2, <3>1 DEF Restart, TypeOK, RequestsOK
        <3>3. \A c \in Calls : pc'[c] \notin HoldingSteps
            BY <3>1 DEF InFlight, HoldingSteps
        <3>4. AggregatesOK'
            BY <1>2, <3>1, <3>3 DEF Restart, AggregatesOK
        <3> QED
            BY <3>1, <3>2, <3>4 DEF HandlersOK
    <2> QED
        BY <2>1, <2>2, <2>4, <2>5, TypePartsNext
<1>3. CASE UNCHANGED vars
    <2>1. StoreTypeOK' /\ HelmTypeOK' /\ EnvironmentOK'
        BY <1>3, UnchangedKeeps, TypeParts DEF vars, serviceVars
    <2>2. HandlersOK'
        BY <1>3, TypeParts DEF vars, serviceVars, HandlersOK, RequestsOK,
                               AggregatesOK, InFlight
    <2> QED
        BY <2>1, <2>2, TypePartsNext
<1> QED
    BY <1>1, <1>2, <1>3

\* Every step keeps the type.
LEMMA StepType == TypeOK /\ [Next]_vars => TypeOK'
<1> SUFFICES ASSUME TypeOK, [Next]_vars PROVE TypeOK'
    OBVIOUS
<1>1. ASSUME NEW c \in Calls, Receive(c) PROVE TypeOK'
    BY <1>1, ReceiveType
<1>2. ASSUME NEW c \in Calls, Handle(c) PROVE TypeOK'
    BY <1>2, InstallStepType, LoadStepType, StoreStepType, HelmPhaseType
    DEF Handle
<1>3. CASE Signal \/ Restart \/ Waiting \/ UNCHANGED vars
    BY <1>3, ProcessStepType DEF Waiting
<1> QED
    BY <1>1, <1>2, <1>3 DEF Next

\* In every state the service reaches, whatever calls arrive and whatever
\* fails, the store holds rows, the handlers in flight hold well-typed
\* aggregates exactly where their next step needs one, and Helm's records
\* and operations are well typed.
THEOREM TypeCorrect == Spec => []TypeOK
<1>1. Init => TypeOK
    BY InitType
<1>2. TypeOK /\ [Next]_vars => TypeOK'
    BY StepType
<1> QED
    BY <1>1, <1>2, PTL DEF Spec

-----------------------------------------------------------------------------
(* The version of a deployment counts its history                          *)

\* The commands keep the count; only MarkSucceeded changes it (entity.go).
LEMMA CommandsCount ==
    ASSUME NEW d \in Aggregate, HistoryCounts(d)
    PROVE  /\ HistoryCounts(StartDeployment(d))
           /\ HistoryCounts(MarkFailed(d))
           /\ \A chart \in Charts : HistoryCounts(StartUpgrade(d, chart))
           /\ HistoryCounts(StartRollback(d))
           /\ HistoryCounts(MarkRolledBack(d))
           /\ \A revision \in Nat : HistoryCounts(MarkSucceeded(d, revision))
<1>1. /\ HistoryCounts(StartDeployment(d))
      /\ HistoryCounts(MarkFailed(d))
      /\ \A chart \in Charts : HistoryCounts(StartUpgrade(d, chart))
      /\ HistoryCounts(StartRollback(d))
      /\ HistoryCounts(MarkRolledBack(d))
    BY DEF HistoryCounts, Aggregate, StartDeployment, MarkFailed,
           StartUpgrade, StartRollback, MarkRolledBack
<1>2. ASSUME NEW revision \in Nat
      PROVE  HistoryCounts(MarkSucceeded(d, revision))
    <2> DEFINE entry == [version |-> d.version, status |-> d.status,
                         chart |-> d.chart, helmVersion |-> revision]
               e == MarkSucceeded(d, revision)
    <2>1. entry \in HistoryEntry /\ entry.version = d.version
        BY DEF HistoryEntry, Aggregate
    <2>2. d.history \in Seq(HistoryEntry) /\ d.version \in Nat
        BY DEF Aggregate
    <2>3. e.history = Append(d.history, entry) /\ e.version = d.version + 1
        BY DEF MarkSucceeded, Aggregate
    <2> HIDE DEF entry, e
    <2>4. Len(e.history) = Len(d.history) + 1
        BY <2>1, <2>2, <2>3
    <2>5. ASSUME NEW i \in 1 .. Len(e.history)
          PROVE  e.history[i].version = i
        <3>1. CASE i \in 1 .. Len(d.history)
            BY <2>1, <2>2, <2>3, <3>1 DEF HistoryCounts
        <3>2. CASE i = Len(d.history) + 1
            BY <2>1, <2>2, <2>3, <3>2 DEF HistoryCounts
        <3> QED
            BY <2>2, <2>4, <3>1, <3>2
    <2>6. e.version = Len(e.history) + 1
        BY <2>2, <2>3, <2>4 DEF HistoryCounts
    <2> QED
        BY <2>5, <2>6 DEF HistoryCounts, e
<1> QED
    BY <1>1, <1>2

\* A new deployment has version 1 and no history (entity.go, New).
LEMMA NewDeploymentCounts ==
    ASSUME NEW id, NEW release, NEW chart
    PROVE  HistoryCounts(NewDeployment(id, release, chart))
BY DEF HistoryCounts, NewDeployment

\* A Save writes the version and the history together, so the rows keep
\* counting (sqlite, Repository.Save).
LEMMA RowsCount ==
    ASSUME StoreTypeOK, \A id \in DOMAIN table : HistoryCounts(table[id]),
           \/ UNCHANGED storeVars
           \/ \E d \in Aggregate : HistoryCounts(d) /\ Save(d)
           \/ \E id : Delete(id)
    PROVE  \A id \in DOMAIN table' : HistoryCounts(table'[id])
<1>1. CASE UNCHANGED storeVars
    BY <1>1 DEF storeVars
<1>2. ASSUME NEW d \in Aggregate, HistoryCounts(d), Save(d)
      PROVE  \A id \in DOMAIN table' : HistoryCounts(table'[id])
    <2>1. HistoryCounts(RowOf(d, nextRowid))
        BY <1>2 DEF HistoryCounts, RowOf
    <2>2. d.id \in DOMAIN table => HistoryCounts(UpdatedRow(table[d.id], d))
        BY <1>2 DEF HistoryCounts, UpdatedRow, StoreTypeOK, Row
    <2>3. \E row : HistoryCounts(row) /\ table' = Put(table, d.id, row)
        BY <1>2, <2>1, <2>2, Zenon DEF Save
    <2> QED
        BY <2>3 DEF Put
<1>3. ASSUME NEW id, Delete(id)
      PROVE  \A x \in DOMAIN table' : HistoryCounts(table'[x])
    BY <1>3 DEF Delete, Drop
<1> QED
    BY <1>1, <1>2, <1>3

\* The aggregates the handlers hold keep counting, if the one that changes
\* does.
LEMMA AggregatesCount ==
    ASSUME \A b \in DOMAIN agg : HistoryCounts(agg[b]), NEW c \in Calls,
           \/ UNCHANGED agg
           \/ agg' = Drop(agg, c)
           \/ \E d : HistoryCounts(d) /\ agg' = Put(agg, c, d)
           \/ \E d : HistoryCounts(d) /\ agg' = [agg EXCEPT ![c] = d]
    PROVE  \A b \in DOMAIN agg' : HistoryCounts(agg'[b])
BY DEF Put, Drop

\* A handler's step keeps the count.
LEMMA HandleCounts ==
    ASSUME TypeOK, VersionCountsHistory, NEW c \in Calls, Handle(c)
    PROVE  VersionCountsHistory'
<1> DEFINE loaded == Reconstitute(FirstRowFor(request[c].release))
<1> DEFINE TableMoves ==
               \/ UNCHANGED storeVars
               \/ \E d \in Aggregate : HistoryCounts(d) /\ Save(d)
               \/ \E id : Delete(id)
           AggMoves ==
               \/ UNCHANGED agg
               \/ agg' = Drop(agg, c)
               \/ \E d : HistoryCounts(d) /\ agg' = Put(agg, c, d)
               \/ \E d : HistoryCounts(d) /\ agg' = [agg EXCEPT ![c] = d]
<1>1. /\ c \in InFlight
      /\ request[c] \in Requests
      /\ pc[c] \in HoldingSteps => c \in DOMAIN agg
      /\ c \in DOMAIN agg => agg[c] \in Aggregate /\ HistoryCounts(agg[c])
    <2>1. pc[c] \notin {"idle", "done", "lost"}
        BY DEF Handle, EnsureNamespace, SavePending, LoadFails,
               LoadForUpgrade, LoadForRollback, SaveIntent, RunHelm,
               RecordSuccess, RecordRollback, RecordFailure, SaveOutcome,
               PublishEvents, FinishDirect, FinishUninstall,
               FindForUninstall, DeleteRow, HelmAnswers
    <2> QED
        BY <2>1, AtWork DEF VersionCountsHistory
<1>2. RowsFor(request[c].release) # {} =>
          loaded \in Aggregate /\ HistoryCounts(loaded)
    <2>1. \A id \in DOMAIN table : HistoryCounts(Reconstitute(id))
        BY DEF VersionCountsHistory, HistoryCounts, Reconstitute
    <2> QED
        BY <2>1, LoadedType, FirstRowIsARow DEF TypeOK, RowsFor
<1>3. \/ EnsureNamespace(c) \/ LoadFails(c) \/ LoadForUpgrade(c)
      \/ LoadForRollback(c) \/ RunHelm(c) \/ RecordSuccess(c)
      \/ RecordRollback(c) \/ RecordFailure(c) \/ PublishEvents(c)
      \/ FinishDirect(c) \/ FinishUninstall(c) \/ FindForUninstall(c)
      => UNCHANGED storeVars
    BY DEF EnsureNamespace, LoadFails, LoadForUpgrade, LoadForRollback,
           RunHelm, RecordSuccess, RecordRollback, RecordFailure,
           PublishEvents, FinishDirect, FinishUninstall, FindForUninstall,
           LoadUnchangedVars, OutcomeUnchangedVars, storeVars
<1>4. TableMoves
    <2>1. SavePending(c) \/ SaveIntent(c) \/ SaveOutcome(c) =>
              c \in DOMAIN agg /\ (SaveSucceeds(c) \/ SaveFails(c))
        BY <1>1 DEF SavePending, SaveIntent, SaveOutcome, HoldingSteps
    <2>2. SavePending(c) \/ SaveIntent(c) \/ SaveOutcome(c) => TableMoves
        BY <1>1, <2>1 DEF SaveSucceeds, SaveFails
    <2>3. DeleteRow(c) => TableMoves
        BY DEF DeleteRow
    <2> QED
        BY <1>3, <2>2, <2>3 DEF Handle
<1>5. AggMoves
    <2>1. CASE \/ EnsureNamespace(c) \/ LoadFails(c) \/ SaveIntent(c)
               \/ RunHelm(c) \/ SaveOutcome(c) \/ PublishEvents(c)
               \/ FinishDirect(c) \/ FinishUninstall(c) \/ DeleteRow(c)
        BY <2>1 DEF EnsureNamespace, LoadFails, SaveIntent, RunHelm,
                    SaveOutcome, PublishEvents, FinishDirect,
                    FinishUninstall, DeleteRow, Return, serviceVars
    <2>2. CASE SavePending(c)
        BY <1>1, <2>2, CommandsCount DEF SavePending, Return, HoldingSteps
    <2>3. CASE LoadForUpgrade(c)
        <3>1. HistoryCounts(StartUpgrade(loaded, request[c].chart))
            BY <1>1, <1>2, <2>3, RequestFields, CommandsCount
            DEF LoadForUpgrade
        <3> QED
            BY <2>3, <3>1 DEF LoadForUpgrade, Return
    <2>4. CASE LoadForRollback(c)
        <3>1. HistoryCounts(StartRollback(loaded))
            BY <1>2, <2>4, CommandsCount DEF LoadForRollback
        <3> QED
            BY <2>4, <3>1 DEF LoadForRollback, Return
    <2>5. CASE RecordSuccess(c) \/ RecordRollback(c) \/ RecordFailure(c)
        <3>1. c \in DOMAIN agg /\ operation[c].revision \in Nat
            BY <2>5 DEF RecordSuccess, RecordRollback, RecordFailure,
                        TypeOK, HelmTypeOK, Operation
        <3>2. /\ HistoryCounts(MarkSucceeded(agg[c], operation[c].revision))
              /\ HistoryCounts(MarkRolledBack(agg[c]))
              /\ HistoryCounts(MarkFailed(agg[c]))
            BY <1>1, <3>1, CommandsCount
        <3> QED
            BY <2>5, <3>2
            DEF RecordSuccess, RecordRollback, RecordFailure, Return
    <2>6. CASE FindForUninstall(c)
        BY <1>2, <2>6 DEF FindForUninstall, Return
    <2> QED
        BY <2>1, <2>2, <2>3, <2>4, <2>5, <2>6 DEF Handle
<1>6. \A id \in DOMAIN table' : HistoryCounts(table'[id])
    BY <1>4, RowsCount DEF TypeOK, VersionCountsHistory
<1>7. \A b \in DOMAIN agg' : HistoryCounts(agg'[b])
    BY <1>5, AggregatesCount DEF VersionCountsHistory
<1> QED
    BY <1>6, <1>7 DEF VersionCountsHistory

\* The version of every row, and of every aggregate in a handler's hands,
\* is one more than the successes in its history, which are numbered from 1,
\* for any number of overlapping calls and any faults.
THEOREM VersionsCorrect == Spec => []VersionCountsHistory
<1>1. Init => VersionCountsHistory
    BY DEF Init, StoreInit, VersionCountsHistory
<1>2. ASSUME TypeOK, VersionCountsHistory, [Next]_vars
      PROVE  VersionCountsHistory'
    <2>1. ASSUME NEW c \in Calls, Receive(c)
          PROVE  VersionCountsHistory'
        <3>1. UNCHANGED storeVars
            BY <2>1 DEF Receive, StartInstall, StartFromStore, StartAtHelm,
                        Accept
        <3>2. \/ UNCHANGED agg \/ agg' = Drop(agg, c)
              \/ \E d : HistoryCounts(d) /\ agg' = Put(agg, c, d)
            BY <2>1, NewDeploymentCounts
            DEF Receive, StartInstall, StartFromStore, StartAtHelm, Return
        <3> QED
            BY <1>2, <3>1, <3>2, AggregatesCount
            DEF VersionCountsHistory, storeVars
    <2>2. ASSUME NEW c \in Calls, Handle(c)
          PROVE  VersionCountsHistory'
        BY <1>2, <2>2, HandleCounts
    <2>3. CASE Signal \/ Restart \/ Waiting \/ UNCHANGED vars
        BY <1>2, <2>3 DEF Signal, Restart, Waiting, vars, storeVars,
                          serviceVars, VersionCountsHistory
    <2> QED
        BY <1>2, <2>1, <2>2, <2>3 DEF Next
<1> QED
    BY <1>1, <1>2, TypeCorrect, PTL DEF Spec
=============================================================================
