---------------------------- MODULE LifecycleProofs ----------------------------
(***************************************************************************)
(* Proofs of what the service promises to a client that makes one call     *)
(* after the other, whatever the calls ask for and whatever fails: the     *)
(* rows follow the lifecycle of the aggregate, and a success that is       *)
(* announced is stored.  Neither holds once calls overlap: between a       *)
(* handler's load and its save another one may delete or change the row.   *)
(***************************************************************************)
EXTENDS NoStuckRowProofs, FiniteSetTheorems

-----------------------------------------------------------------------------
(* One call at a time                                                      *)

SoleCall == \A c, d \in InFlight : c = d

\* A step is taken by one call, while no other one is in flight.
OnlyMoves(c) ==
    /\ Receive(c) \/ Handle(c)
    /\ \A d \in Calls \ {c} : d \notin InFlight /\ pc'[d] = pc[d]
    /\ pc'[c] # "idle"
    /\ DOMAIN agg \subseteq {c} /\ DOMAIN agg' \subseteq {c}

\* With one call in flight at most, the calls take turns: Receive waits until
\* the one before has returned or is lost.
LEMMA OneMoves ==
    ASSUME MaxInFlight = 1, TypeOK, SoleCall, NEW c \in Calls,
           Receive(c) \/ Handle(c)
    PROVE  OnlyMoves(c)
<1>1. \A d \in Calls \ {c} : d \notin InFlight
    <2>1. CASE Receive(c)
        <3>1. InFlight = {}
            <4>1. SUFFICES ASSUME NEW d \in InFlight PROVE FALSE
                OBVIOUS
            <4>2. InFlight = {d}
                BY <4>1 DEF SoleCall
            <4>3. Cardinality(InFlight) = 1
                BY <4>2, FS_Singleton
            <4> QED
                BY <2>1, <4>3 DEF Receive, StartInstall, StartFromStore,
                                  StartAtHelm, Accept
        <3> QED
            BY <3>1
    <2>2. CASE Handle(c)
        <3>1. c \in InFlight
            BY <2>2, HandleMoves DEF InFlight, RunHelm
        <3> QED
            BY <3>1 DEF SoleCall
    <2> QED
        BY <2>1, <2>2
<1>2. \A d \in Calls \ {c} : pc'[d] = pc[d]
    <2>1. CASE Receive(c)
        BY <2>1 DEF Receive, StartInstall, StartFromStore, StartAtHelm, Goto,
                    Return, TypeOK
    <2>2. CASE Handle(c)
        BY <2>2, HandleMoves DEF RunHelm, serviceVars
    <2> QED
        BY <2>1, <2>2
<1>3. pc'[c] # "idle"
    <2>1. CASE Receive(c)
        BY <2>1 DEF Receive, StartInstall, StartFromStore, StartAtHelm, Goto,
                    Return, TypeOK
    <2>2. CASE RunHelm(c)
        BY <2>2 DEF RunHelm, serviceVars
    <2>3. CASE Handle(c) /\ ~RunHelm(c)
        BY <2>3 DEF Handle, EnsureNamespace, SavePending, LoadFails,
               LoadForUpgrade, LoadForRollback, SaveIntent,
               RecordSuccess, RecordRollback, RecordFailure, SaveOutcome,
               PublishEvents, FinishDirect, FinishUninstall,
               FindForUninstall, DeleteRow, Return, Goto, TypeOK
    <2> QED
        BY <2>1, <2>2, <2>3
<1>4. DOMAIN agg \subseteq {c}
    BY <1>1 DEF TypeOK, AggregatesOK, InFlight
<1>5. DOMAIN agg' \subseteq {c}
    <2>1. TypeOK'
        BY StepType DEF Next
    <2>2. \A d \in Calls \ {c} : d \notin InFlight'
        BY <1>1, <1>2 DEF InFlight
    <2> QED
        BY <2>1, <2>2 DEF TypeOK, AggregatesOK, InFlight
<1> QED
    BY <1>1, <1>2, <1>3, <1>4, <1>5 DEF OnlyMoves

-----------------------------------------------------------------------------
(* What the handler in flight knows of its row                             *)

\* The handler's aggregate is ahead of its row by what it has not saved yet.
MatchesRow(c) ==
    LET d == agg[c]
        row == table[d.id] IN
    /\ pc[c] \in {"namespace", "savePending"} =>
           /\ d.id = c /\ c \notin DOMAIN table
           /\ d.version = 1
    /\ pc[c] \in {"saveIntent", "helm", "saveOutcome"} =>
           d.id \in DOMAIN table
    /\ pc[c] = "saveIntent" =>
           /\ d.version = row.version
           /\ \/ d.status = "DEPLOYING" /\ row.status = "PENDING"
              \/ d.status = "UPGRADING" /\ row.status = "SUCCEEDED"
              \/ /\ d.status = "ROLLING_BACK"
                 /\ row.status \in {"SUCCEEDED", "FAILED"}
    /\ pc[c] = "helm" =>
           d.version = row.version /\ d.status = row.status
    /\ pc[c] = "saveOutcome" =>
           \/ /\ d.status = "SUCCEEDED" /\ d.version = row.version + 1
              /\ row.status \in {"DEPLOYING", "UPGRADING"}
           \/ /\ d.status = "FAILED" /\ d.version = row.version
              /\ row.status \in {"DEPLOYING", "UPGRADING", "ROLLING_BACK"}
           \/ /\ d.status = "ROLLED_BACK" /\ d.version = row.version
              /\ row.status = "ROLLING_BACK"
    /\ pc[c] = "publish" /\ d.status # "FAILED" =>
           /\ d.id \in DOMAIN table
           /\ row.status = d.status /\ row.version = d.version

\* A row is that of a call that has arrived.
RowsArrived == \A id \in DOMAIN table : id \in Calls /\ pc[id] # "idle"

SequentialInv ==
    /\ SoleCall
    /\ RowsArrived
    /\ \A c \in DOMAIN agg : MatchesRow(c)

\* What a Save makes of the table: the status and the version are the
\* aggregate's, and the other rows are left alone.
LEMMA SavedRow ==
    ASSUME StoreTypeOK, NEW d \in Aggregate, Save(d)
    PROVE  /\ DOMAIN table' = DOMAIN table \cup {d.id}
           /\ table'[d.id].status = d.status
           /\ table'[d.id].version = d.version
           /\ \A id \in DOMAIN table \ {d.id} : table'[id] = table[id]
<1> DEFINE Written(row) == row.status = d.status /\ row.version = d.version
<1>1. d.id \in DOMAIN table => Written(UpdatedRow(table[d.id], d))
    BY DEF UpdatedRow, StoreTypeOK, Row
<1>2. d.id \notin DOMAIN table => Written(RowOf(d, nextRowid))
    BY DEF RowOf
<1>3. \E row : Written(row) /\ table' = Put(table, d.id, row)
    BY <1>1, <1>2, Zenon DEF Save
<1> QED
    BY <1>3 DEF Put

\* It is enough that the call that moves leaves rows of arrived calls only and
\* matches its own.
LEMMA MoverMatches ==
    ASSUME NEW c \in Calls, OnlyMoves(c), RowsArrived',
           c \in DOMAIN agg' => MatchesRow(c)'
    PROVE  SequentialInv'
<1>1. SoleCall'
    BY DEF OnlyMoves, SoleCall, InFlight
<1>2. \A d \in DOMAIN agg' : MatchesRow(d)'
    BY DEF OnlyMoves
<1> QED
    BY <1>1, <1>2 DEF SequentialInv

\* A table that loses rows at most is in order.
LEMMA FewerRows ==
    ASSUME SequentialInv, NEW c \in Calls, OnlyMoves(c),
           \A id \in DOMAIN table' : id \in DOMAIN table /\ table'[id] = table[id]
    PROVE  RowsArrived'
<1>1. \A id \in Calls : pc[id] # "idle" => pc'[id] # "idle"
    BY DEF OnlyMoves
<1> QED
    BY <1>1 DEF SequentialInv, RowsArrived

\* So is one in which the handler's aggregate is saved.
LEMMA SavedRows ==
    ASSUME TypeOK, SequentialInv, NEW c \in DOMAIN agg, c \in Calls,
           OnlyMoves(c), Save(agg[c]),
           agg[c].id \in DOMAIN table \/ agg[c].id = c
    PROVE  RowsArrived'
<1>1. agg[c] \in Aggregate
    BY DEF TypeOK, AggregatesOK
<1>2. /\ DOMAIN table' = DOMAIN table \cup {agg[c].id}
      /\ \A id \in DOMAIN table \ {agg[c].id} : table'[id] = table[id]
    BY <1>1, SavedRow DEF TypeOK
<1>3. \A id \in Calls : pc[id] # "idle" \/ id = c => pc'[id] # "idle"
    BY DEF OnlyMoves
<1> QED
    BY <1>2, <1>3 DEF SequentialInv, RowsArrived

-----------------------------------------------------------------------------
(* The inductive step                                                      *)

\* A new deployment is not stored yet: its call has only now arrived.
LEMMA ArrivalMatches ==
    ASSUME TypeOK, SequentialInv, NEW c \in Calls, Receive(c), OnlyMoves(c)
    PROVE  SequentialInv'
<1>1. PICK q \in Requests :
          StartInstall(c, q) \/ StartFromStore(c, q) \/ StartAtHelm(c, q)
    BY DEF Receive
<1>2. pc[c] = "idle" /\ UNCHANGED table /\ c \notin DOMAIN agg
    BY <1>1 DEF StartInstall, StartFromStore, StartAtHelm, Accept, storeVars,
                TypeOK, AggregatesOK, InFlight
<1>3. RowsArrived'
    BY <1>2, FewerRows
<1>4. ASSUME c \in DOMAIN agg'
      PROVE  MatchesRow(c)'
    <2>1. StartInstall(c, q) /\ CanCreate(q.chart)
        BY <1>1, <1>2, <1>4 DEF StartInstall, StartFromStore, StartAtHelm,
                                Return, Drop
    <2>2. /\ pc'[c] \in {"namespace", "savePending"}
          /\ agg'[c] = NewDeployment(c, q.release, q.chart)
        BY <2>1 DEF StartInstall, Put, Goto, TypeOK
    <2>3. agg'[c].id = c /\ agg'[c].version = 1
        BY <2>2 DEF NewDeployment
    <2>4. c \notin DOMAIN table'
        BY <1>2 DEF SequentialInv, RowsArrived
    <2> QED
        BY <2>2, <2>3, <2>4 DEF MatchesRow
<1> QED
    BY <1>3, <1>4, MoverMatches

\* The first Save makes the row, and the aggregate starts its deployment.
LEMMA SavePendingMatches ==
    ASSUME TypeOK, IntentMatchesStep, SequentialInv, NEW c \in Calls,
           SavePending(c), OnlyMoves(c)
    PROVE  SequentialInv'
<1>1. /\ pc[c] = "savePending" /\ c \in DOMAIN agg /\ agg[c] \in Aggregate
      /\ MatchesRow(c)
    BY AtWork DEF SavePending, HoldingSteps, SequentialInv
<1>2. /\ agg[c].id = c /\ c \notin DOMAIN table /\ agg[c].version = 1
      /\ agg[c].status = "PENDING"
    BY <1>1 DEF MatchesRow, IntentMatchesStep, MatchesStep
<1>3. CASE SaveSucceeds(c) /\ ~Return(c)
    <2>1. /\ Save(agg[c]) /\ pc'[c] = "saveIntent"
          /\ agg'[c] = StartDeployment(agg[c])
        BY <1>1, <1>2, <1>3
        DEF SavePending, SaveSucceeds, CanStartDeployment, Goto, TypeOK
    <2>2. RowsArrived'
        BY <1>1, <1>2, <2>1, SavedRows
    <2>3. /\ agg'[c].id = c /\ agg'[c].version = 1
          /\ agg'[c].status = "DEPLOYING"
        BY <1>1, <1>2, <2>1 DEF StartDeployment, Aggregate
    <2>4. /\ c \in DOMAIN table' /\ table'[c].status = "PENDING"
          /\ table'[c].version = 1
        BY <1>1, <1>2, <2>1, SavedRow DEF TypeOK
    <2> QED
        BY <2>1, <2>2, <2>3, <2>4, MoverMatches DEF MatchesRow
<1>4. CASE SaveFails(c) /\ Return(c)
    <2>1. RowsArrived'
        BY <1>4, FewerRows DEF SaveFails, storeVars
    <2> QED
        BY <1>4, <2>1, MoverMatches DEF Return, Drop
<1> QED
    BY <1>1, <1>2, <1>3, <1>4 DEF SavePending, CanStartDeployment, Return,
                                  Goto, TypeOK

\* An upgrade or a rollback starts from the row as it is stored.
LEMMA LoadMatches ==
    ASSUME TypeOK, SequentialInv, NEW c \in Calls,
           LoadForUpgrade(c) \/ LoadForRollback(c), OnlyMoves(c)
    PROVE  SequentialInv'
<1> DEFINE id == FirstRowFor(request[c].release)
           loaded == Reconstitute(id)
<1>1. UNCHANGED table
    BY DEF LoadForUpgrade, LoadForRollback, LoadUnchangedVars, storeVars
<1>2. RowsArrived'
    BY <1>1, FewerRows
<1>3. id \in DOMAIN table /\ loaded \in Aggregate
    BY FirstRowIsARow, LoadedType
    DEF LoadForUpgrade, LoadForRollback, TypeOK, RowsFor
<1>4. /\ loaded.id = id /\ loaded.version = table[id].version
      /\ loaded.status = table[id].status
    BY DEF Reconstitute
<1>5. ASSUME c \in DOMAIN agg'
      PROVE  MatchesRow(c)'
    <2>1. /\ pc'[c] = "saveIntent"
          /\ \/ /\ CanStartUpgrade(loaded)
                /\ agg'[c] = StartUpgrade(loaded, request[c].chart)
             \/ /\ CanStartRollback(loaded)
                /\ agg'[c] = StartRollback(loaded)
        BY <1>5 DEF LoadForUpgrade, LoadForRollback, Return, Drop, Put, Goto,
                    TypeOK
    <2> HIDE DEF id, loaded
    <2>2. /\ agg'[c].id = loaded.id /\ agg'[c].version = loaded.version
          /\ \/ loaded.status = "SUCCEEDED" /\ agg'[c].status = "UPGRADING"
             \/ /\ loaded.status \in {"SUCCEEDED", "FAILED"}
                /\ agg'[c].status = "ROLLING_BACK"
        BY <1>3, <2>1 DEF CanStartUpgrade, CanStartRollback, StartUpgrade,
                          StartRollback, Aggregate
    <2> QED
        BY <1>1, <1>3, <1>4, <2>1, <2>2 DEF MatchesRow
<1> QED
    BY <1>2, <1>5, MoverMatches

\* Before Helm runs, the row says what is about to happen to it.
LEMMA SaveIntentMatches ==
    ASSUME TypeOK, SequentialInv, NEW c \in Calls, SaveIntent(c), OnlyMoves(c)
    PROVE  SequentialInv'
<1>1. /\ pc[c] = "saveIntent" /\ c \in DOMAIN agg /\ agg[c] \in Aggregate
      /\ MatchesRow(c) /\ agg[c].id \in DOMAIN table
    BY AtWork DEF SaveIntent, HoldingSteps, SequentialInv, MatchesRow
<1>2. CASE SaveSucceeds(c) /\ Goto(c, "helm") /\ UNCHANGED agg
    <2>1. Save(agg[c]) /\ pc'[c] = "helm"
        BY <1>2 DEF SaveSucceeds, Goto, TypeOK
    <2>2. RowsArrived'
        BY <1>1, <2>1, SavedRows
    <2>3. /\ agg[c].id \in DOMAIN table'
          /\ table'[agg[c].id].status = agg[c].status
          /\ table'[agg[c].id].version = agg[c].version
        BY <1>1, <2>1, SavedRow DEF TypeOK
    <2> QED
        BY <1>2, <2>1, <2>2, <2>3, MoverMatches DEF MatchesRow
<1>3. CASE SaveFails(c) /\ Return(c)
    <2>1. RowsArrived'
        BY <1>3, FewerRows DEF SaveFails, storeVars
    <2> QED
        BY <1>3, <2>1, MoverMatches DEF Return, Drop
<1> QED
    BY <1>2, <1>3 DEF SaveIntent

\* What Helm answers is recorded in the aggregate, not yet in the row.
LEMMA RecordMatches ==
    ASSUME TypeOK, IntentMatchesStep, SequentialInv, NEW c \in Calls,
           RecordSuccess(c) \/ RecordRollback(c) \/ RecordFailure(c),
           OnlyMoves(c)
    PROVE  SequentialInv'
<1> DEFINE d == agg[c]
<1>1. /\ pc[c] = "helm" /\ c \in DOMAIN agg /\ d \in Aggregate
      /\ MatchesRow(c) /\ MatchesStep(c) /\ UNCHANGED table
    BY AtWork DEF RecordSuccess, RecordRollback, RecordFailure, HelmAnswers,
                  SequentialInv, IntentMatchesStep, OutcomeUnchangedVars,
                  storeVars
<1>2. RowsArrived'
    BY <1>1, FewerRows
<1>3. /\ request[c].kind \in {"install", "upgrade", "rollback"}
      /\ request[c].kind = "install" => d.status = "DEPLOYING"
      /\ request[c].kind = "upgrade" => d.status = "UPGRADING"
      /\ request[c].kind = "rollback" => d.status = "ROLLING_BACK"
    BY <1>1 DEF MatchesStep, IntentOf
<1>4. /\ pc'[c] = "saveOutcome"
      /\ \/ /\ RecordSuccess(c)
            /\ agg'[c] = MarkSucceeded(d, operation[c].revision)
         \/ RecordRollback(c) /\ agg'[c] = MarkRolledBack(d)
         \/ RecordFailure(c) /\ agg'[c] = MarkFailed(d)
    BY <1>1, <1>3 DEF RecordSuccess, RecordRollback, RecordFailure, Goto,
                      CanMarkSucceeded, TypeOK
<1>5. /\ d.id \in DOMAIN table
      /\ table[d.id].version = d.version /\ table[d.id].status = d.status
    BY <1>1 DEF MatchesRow
<1> HIDE DEF d
<1>6. /\ agg'[c].id = d.id
      /\ \/ /\ RecordSuccess(c) /\ agg'[c].status = "SUCCEEDED"
            /\ agg'[c].version = d.version + 1
         \/ /\ RecordRollback(c) /\ agg'[c].status = "ROLLED_BACK"
            /\ agg'[c].version = d.version
         \/ /\ RecordFailure(c) /\ agg'[c].status = "FAILED"
            /\ agg'[c].version = d.version
    BY <1>1, <1>4 DEF MarkSucceeded, MarkRolledBack, MarkFailed, Aggregate
<1>7. /\ RecordSuccess(c) => d.status \in {"DEPLOYING", "UPGRADING"}
      /\ RecordRollback(c) => d.status = "ROLLING_BACK"
      /\ d.status \in {"DEPLOYING", "UPGRADING", "ROLLING_BACK"}
    BY <1>3 DEF RecordSuccess, RecordRollback
<1>8. MatchesRow(c)'
    BY <1>1, <1>4, <1>5, <1>6, <1>7 DEF MatchesRow
<1> QED
    BY <1>2, <1>8, MoverMatches

\* What is published is what was saved, or a failure.
LEMMA SaveOutcomeMatches ==
    ASSUME TypeOK, SequentialInv, NEW c \in Calls, SaveOutcome(c), OnlyMoves(c)
    PROVE  SequentialInv'
<1>1. /\ pc[c] = "saveOutcome" /\ c \in DOMAIN agg /\ agg[c] \in Aggregate
      /\ MatchesRow(c) /\ agg[c].id \in DOMAIN table
    BY AtWork DEF SaveOutcome, HoldingSteps, SequentialInv, MatchesRow
<1>2. CASE SaveSucceeds(c) /\ Goto(c, "publish") /\ UNCHANGED agg
    <2>1. Save(agg[c]) /\ pc'[c] = "publish"
        BY <1>2 DEF SaveSucceeds, Goto, TypeOK
    <2>2. RowsArrived'
        BY <1>1, <2>1, SavedRows
    <2>3. /\ agg[c].id \in DOMAIN table'
          /\ table'[agg[c].id].status = agg[c].status
          /\ table'[agg[c].id].version = agg[c].version
        BY <1>1, <2>1, SavedRow DEF TypeOK
    <2> QED
        BY <1>2, <2>1, <2>2, <2>3, MoverMatches DEF MatchesRow
<1>3. CASE /\ SaveFails(c)
           /\ \/ Return(c)
              \/ /\ agg[c].status = "FAILED"
                 /\ Goto(c, "publish") /\ UNCHANGED agg
    <2>1. RowsArrived'
        BY <1>3, FewerRows DEF SaveFails, storeVars
    <2>2. CASE Return(c)
        BY <2>1, <2>2, MoverMatches DEF Return, Drop
    <2>3. CASE /\ agg[c].status = "FAILED"
               /\ Goto(c, "publish") /\ UNCHANGED agg
        <3>1. pc'[c] = "publish" /\ agg'[c].status = "FAILED"
            BY <2>3 DEF Goto, TypeOK
        <3> QED
            BY <2>1, <3>1, MoverMatches DEF MatchesRow
    <2> QED
        BY <1>3, <2>2, <2>3
<1> QED
    BY <1>2, <1>3 DEF SaveOutcome

\* The other steps of a handler write no row.
LEMMA OtherStepsMatch ==
    ASSUME TypeOK, IntentMatchesStep, SequentialInv, NEW c \in Calls,
           \/ EnsureNamespace(c) \/ LoadFails(c) \/ RunHelm(c)
           \/ PublishEvents(c) \/ FinishDirect(c) \/ FinishUninstall(c)
           \/ FindForUninstall(c) \/ DeleteRow(c),
           OnlyMoves(c)
    PROVE  SequentialInv'
<1>1. \A id \in DOMAIN table' : id \in DOMAIN table /\ table'[id] = table[id]
    BY DEF EnsureNamespace, LoadFails, RunHelm, PublishEvents, FinishDirect,
           FinishUninstall, FindForUninstall, DeleteRow, Delete, Drop,
           LoadUnchangedVars, OutcomeUnchangedVars, storeVars
<1>2. RowsArrived'
    BY <1>1, FewerRows
<1>3. ASSUME c \in DOMAIN agg'
      PROVE  MatchesRow(c)'
    <2>1. ~Return(c)
        BY <1>3 DEF Return, Drop
    <2>2. CASE EnsureNamespace(c)
        <3>1. /\ pc[c] = "namespace" /\ pc'[c] = "savePending"
              /\ UNCHANGED <<agg, table>> /\ MatchesRow(c)
            BY <1>3, <2>1, <2>2 DEF EnsureNamespace, Goto, TypeOK, storeVars,
                                    SequentialInv
        <3> QED
            BY <3>1 DEF MatchesRow
    <2>3. CASE RunHelm(c)
        BY <1>3, <2>3 DEF RunHelm, storeVars, serviceVars, SequentialInv,
                          MatchesRow
    <2>4. CASE FinishUninstall(c) \/ FindForUninstall(c)
        <3>1. pc'[c] \in {"find", "delete"}
            BY <2>1, <2>4 DEF FinishUninstall, FindForUninstall, Goto, TypeOK
        <3> QED
            BY <3>1 DEF MatchesRow
    <2> QED
        BY <2>1, <2>2, <2>3, <2>4
        DEF LoadFails, PublishEvents, FinishDirect, DeleteRow
<1> QED
    BY <1>2, <1>3, MoverMatches

\* The inductive step of SequentialInv.
LEMMA SequentialStep ==
    ASSUME MaxInFlight = 1, TypeOK, IntentMatchesStep, SequentialInv,
           [Next]_vars
    PROVE  SequentialInv'
<1>1. ASSUME NEW c \in Calls, Receive(c) \/ Handle(c)
      PROVE  SequentialInv'
    <2>1. OnlyMoves(c)
        BY <1>1, OneMoves DEF SequentialInv
    <2> QED
        BY <1>1, <2>1, ArrivalMatches, SavePendingMatches, LoadMatches,
           SaveIntentMatches, RecordMatches, SaveOutcomeMatches,
           OtherStepsMatch
        DEF Handle
<1>2. CASE Restart
    <2>1. UNCHANGED table /\ DOMAIN agg' = {}
        BY <1>2 DEF Restart, storeVars
    <2>2. \A d \in Calls : pc[d] # "idle" => pc'[d] # "idle"
        BY <1>2 DEF Restart
    <2>3. InFlight' = {}
        BY <1>2 DEF Restart, InFlight
    <2> QED
        BY <2>1, <2>2, <2>3 DEF SequentialInv, SoleCall, RowsArrived
<1>3. CASE UNCHANGED <<table, agg, pc>>
    BY <1>3 DEF SequentialInv, SoleCall, InFlight, RowsArrived,
                MatchesRow
<1> QED
    BY <1>1, <1>2, <1>3 DEF Next, Signal, Waiting, vars, storeVars, serviceVars

\* There are no rows and no calls at first.
LEMMA SequentialInit == Init => SequentialInv
BY DEF Init, StoreInit, SequentialInv, SoleCall, InFlight, RowsArrived

-----------------------------------------------------------------------------
(* A success that is announced is stored                                   *)

\* Only PublishEvents publishes, and what it announces matches its row.
LEMMA AnnouncedIsStored ==
    ASSUME TypeOK, SequentialInv, [Next]_vars,
           NEW c \in Calls, published'[c] # published[c],
           agg[c].status # "FAILED"
    PROVE  /\ agg[c].id \in DOMAIN table
           /\ table[agg[c].id].status = agg[c].status
           /\ table[agg[c].id].version = agg[c].version
<1>1. PICK b \in Calls : PublishEvents(b)
    <2>1. published' # published
        OBVIOUS
    <2> QED
        BY <2>1 DEF Next, vars, serviceVars, Signal, Restart, Waiting,
               Receive, StartInstall, StartFromStore, StartAtHelm, Accept,
               Handle, EnsureNamespace, SavePending, LoadFails,
               LoadForUpgrade, LoadForRollback, SaveIntent, RunHelm,
               RecordSuccess, RecordRollback, RecordFailure, SaveOutcome,
               FinishDirect, FinishUninstall, FindForUninstall, DeleteRow,
               LoadUnchangedVars, OutcomeUnchangedVars
<1>2. b = c
    BY <1>1 DEF PublishEvents, TypeOK
<1>3. pc[c] = "publish" /\ MatchesRow(c)
    BY <1>1, <1>2, AtWork DEF PublishEvents, HoldingSteps, SequentialInv
<1> QED
    BY <1>3 DEF MatchesRow

\* While calls do not overlap, a handler that publishes a success or a
\* rollback has stored it: the row in the table is the one it announces,
\* whichever earlier Save failed and however often the process died.
THEOREM SuccessIsStored ==
    ASSUME MaxInFlight = 1
    PROVE  Spec => PublishedSuccessIsStored
<1> DEFINE Announced ==
        \A c \in Calls :
            published'[c] # published[c] /\ agg[c].status # "FAILED"
                => /\ agg[c].id \in DOMAIN table
                   /\ table[agg[c].id].status = agg[c].status
                   /\ table[agg[c].id].version = agg[c].version
<1>1. TypeOK /\ IntentMatchesStep /\ SequentialInv /\ [Next]_vars
          => SequentialInv'
    BY SequentialStep
<1>2. TypeOK /\ SequentialInv /\ [Next]_vars => [Announced]_vars
    BY AnnouncedIsStored
<1> QED
    BY <1>1, <1>2, SequentialInit, TypeCorrect, IntentsMatch, PTL
    DEF Spec, PublishedSuccessIsStored

-----------------------------------------------------------------------------
(* The rows follow the lifecycle                                           *)

\* The refinement mapping of DeploymentService: what a row shows of itself.
TheRecord ==
    [id \in Ids |->
        IF id \in DOMAIN table
        THEN [status |-> table[id].status, version |-> table[id].version]
        ELSE [status |-> "ABSENT", version |-> 0]]

\* A Save shows as a change of the one record.
LEMMA SavedRecord ==
    ASSUME StoreTypeOK, NEW d \in Aggregate, Save(d)
    PROVE  /\ d.id \in Ids
           /\ TheRecord' = [TheRecord EXCEPT ![d.id] =
                               [status |-> d.status, version |-> d.version]]
<1>1. d.id \in Ids
    BY DEF Aggregate
<1>2. /\ DOMAIN table' = DOMAIN table \cup {d.id}
      /\ table'[d.id].status = d.status
      /\ table'[d.id].version = d.version
      /\ \A id \in DOMAIN table \ {d.id} : table'[id] = table[id]
    BY SavedRow
<1> QED
    BY <1>1, <1>2 DEF TheRecord

\* A Delete shows as the removal of a record.
LEMMA DeletedRecord ==
    ASSUME NEW id \in Ids, Delete(id)
    PROVE  TheRecord' = [TheRecord EXCEPT ![id] =
                            [status |-> "ABSENT", version |-> 0]]
BY DEF TheRecord, Delete, Drop

\* The creation, the success and the removal of a record are steps of the
\* lifecycle, as changes of what is mapped to it.
LEMMA OwnSteps ==
    ASSUME NEW id \in Ids, NEW version,
           \/ /\ TheRecord[id] = [status |-> "ABSENT", version |-> 0]
              /\ TheRecord' = [TheRecord EXCEPT ![id] =
                                  [status |-> "PENDING", version |-> 1]]
           \/ TheRecord' = [TheRecord EXCEPT ![id] =
                               [status |-> "ABSENT", version |-> 0]]
           \/ /\ TheRecord[id].status \in {"DEPLOYING", "UPGRADING"}
              /\ version = TheRecord[id].version + 1
              /\ TheRecord' = [TheRecord EXCEPT ![id].status = "SUCCEEDED",
                                                ![id].version = version]
    PROVE  Lifecycle!Next
BY DEF Lifecycle!Next, Lifecycle!Create, Lifecycle!Succeed,
       Lifecycle!Remove, Lifecycle!Absent, TheRecord

\* So are the moves, which leave the version as it was.
LEMMA Moves ==
    ASSUME NEW id \in Ids, NEW from, NEW to, TheRecord[id].status = from,
           TheRecord' = [TheRecord EXCEPT ![id].status = to],
           \/ to = "DEPLOYING" /\ from = "PENDING"
           \/ to = "UPGRADING" /\ from = "SUCCEEDED"
           \/ to = "ROLLING_BACK" /\ from \in {"SUCCEEDED", "FAILED"}
           \/ /\ to = "FAILED"
              /\ from \in {"DEPLOYING", "UPGRADING", "ROLLING_BACK"}
           \/ to = "ROLLED_BACK" /\ from = "ROLLING_BACK"
    PROVE  Lifecycle!Next
BY DEF Lifecycle!Next, Lifecycle!Deploy, Lifecycle!Upgrade,
       Lifecycle!RollBack, Lifecycle!Fail, Lifecycle!RolledBack,
       Lifecycle!Move, TheRecord

\* A record of two fields, both of which are changed, keeps nothing.
LEMMA BothChanged ==
    ASSUME NEW a, NEW b, NEW s, NEW v
    PROVE  [[status |-> a, version |-> b] EXCEPT !.status = s,
                                                 !.version = v]
               = [status |-> s, version |-> v]
<1> DEFINE Fields == {"status", "version"}
           old == [status |-> a, version |-> b]
           new == [old EXCEPT !.status = s, !.version = v]
<1>1. DOMAIN old = Fields
    OBVIOUS
<1>2. DOMAIN new = Fields /\ new = [x \in DOMAIN new |-> new[x]]
    BY <1>1
<1>3. new["status"] = s /\ new["version"] = v
    BY <1>1
<1>4. [status |-> s, version |-> v]
          = [x \in Fields |-> IF x = "status" THEN s ELSE v]
    OBVIOUS
<1> HIDE DEF new
<1>5. [x \in Fields |-> new[x]]
          = [x \in Fields |-> IF x = "status" THEN s ELSE v]
    BY <1>3
<1> QED
    BY <1>2, <1>4, <1>5 DEF new

\* A step of a handler is a step of the lifecycle, or does not show.
LEMMA HandleFollows ==
    ASSUME TypeOK, IntentMatchesStep, SequentialInv,
           NEW c \in Calls, Handle(c), TheRecord' # TheRecord
    PROVE  Lifecycle!Next
<1> DEFINE d == agg[c]
           shown == [status |-> d.status, version |-> d.version]
           row == table[d.id]
           stored == [status |-> row.status, version |-> row.version]
<1>1. /\ pc[c] \in HoldingSteps => c \in DOMAIN agg
      /\ c \in DOMAIN agg => d \in Aggregate /\ MatchesRow(c)
    <2>1. pc[c] \notin {"idle", "done", "lost"}
        BY HandleMoves DEF RunHelm
    <2> QED
        BY <2>1, AtWork DEF SequentialInv
<1>2. CASE UNCHANGED table
    BY <1>2 DEF TheRecord
<1>3. CASE DeleteRow(c)
    <2>1. c \in DOMAIN agg /\ d.id \in Ids
        BY <1>1, <1>3 DEF DeleteRow, HoldingSteps, Aggregate
    <2>2. Delete(d.id) \/ UNCHANGED table
        BY <1>3 DEF DeleteRow, storeVars
    <2>3. CASE Delete(d.id)
        BY <2>1, <2>3, DeletedRecord, OwnSteps
    <2> QED
        BY <1>2, <2>2, <2>3
<1>4. CASE SavePending(c) \/ SaveIntent(c) \/ SaveOutcome(c)
    <2>1. c \in DOMAIN agg /\ d \in Aggregate /\ MatchesRow(c)
          /\ MatchesStep(c)
        BY <1>1, <1>4 DEF SavePending, SaveIntent, SaveOutcome, HoldingSteps,
                          IntentMatchesStep
    <2>2. Save(d) \/ UNCHANGED table
        BY <1>4 DEF SavePending, SaveIntent, SaveOutcome, SaveSucceeds,
                    SaveFails, storeVars
    <2>3. CASE Save(d)
        <3>1. /\ d.id \in Ids
              /\ TheRecord' = [TheRecord EXCEPT ![d.id] = shown]
            BY <2>1, <2>3, SavedRecord DEF TypeOK
        <3>2. TheRecord[d.id] = IF d.id \in DOMAIN table THEN stored
                                ELSE [status |-> "ABSENT", version |-> 0]
            BY <3>1 DEF TheRecord
        <3>3. CASE SavePending(c)
            <4>1. d.id \notin DOMAIN table /\ d.version = 1
                  /\ d.status = "PENDING"
                BY <2>1, <3>3 DEF SavePending, MatchesRow, MatchesStep
            <4> QED
                BY <3>1, <3>2, <4>1, OwnSteps
        <3>4. CASE SaveIntent(c)
            <4>1. /\ d.id \in DOMAIN table /\ d.version = row.version
                  /\ \/ d.status = "DEPLOYING" /\ row.status = "PENDING"
                     \/ d.status = "UPGRADING" /\ row.status = "SUCCEEDED"
                     \/ /\ d.status = "ROLLING_BACK"
                        /\ row.status \in {"SUCCEEDED", "FAILED"}
                BY <2>1, <3>4 DEF SaveIntent, MatchesRow
            <4> HIDE DEF d, row
            <4>2. shown = [stored EXCEPT !.status = d.status]
                BY <4>1
            <4>3. TheRecord' = [TheRecord EXCEPT ![d.id].status = d.status]
                BY <3>1, <3>2, <4>1, <4>2
            <4>4. TheRecord[d.id].status = row.status
                BY <3>2, <4>1
            <4> QED
                BY <3>1, <4>1, <4>3, <4>4, Moves
        <3>5. CASE SaveOutcome(c)
            <4>1. /\ d.id \in DOMAIN table
                  /\ \/ /\ d.status = "SUCCEEDED"
                        /\ d.version = row.version + 1
                        /\ row.status \in {"DEPLOYING", "UPGRADING"}
                     \/ /\ d.status = "FAILED" /\ d.version = row.version
                        /\ row.status \in
                               {"DEPLOYING", "UPGRADING", "ROLLING_BACK"}
                     \/ /\ d.status = "ROLLED_BACK"
                        /\ d.version = row.version
                        /\ row.status = "ROLLING_BACK"
                BY <2>1, <3>5 DEF SaveOutcome, MatchesRow
            <4> HIDE DEF d, row
            <4>2. TheRecord[d.id].status = row.status
                BY <3>2, <4>1
            <4>3. CASE d.status = "SUCCEEDED"
                <5>1. [stored EXCEPT !.status = d.status,
                                     !.version = d.version] = shown
                    BY BothChanged
                <5>2. TheRecord' = [TheRecord EXCEPT
                                       ![d.id].status = "SUCCEEDED",
                                       ![d.id].version = d.version]
                    BY <3>1, <3>2, <4>1, <4>3, <5>1
                <5>3. TheRecord[d.id].version = row.version
                    BY <3>2, <4>1
                <5>4. d.version = row.version + 1
                    BY <4>1, <4>3
                <5>5. d.version = TheRecord[d.id].version + 1
                    BY <5>3, <5>4
                <5> QED
                    BY <3>1, <4>1, <4>2, <4>3, <5>2, <5>5, OwnSteps
            <4>4. CASE d.status # "SUCCEEDED"
                <5>1. shown = [stored EXCEPT !.status = d.status]
                    BY <4>1, <4>4
                <5>2. TheRecord' = [TheRecord EXCEPT ![d.id].status = d.status]
                    BY <3>1, <3>2, <4>1, <5>1
                <5> QED
                    BY <3>1, <4>1, <4>2, <4>4, <5>2, Moves
            <4> QED
                BY <4>3, <4>4
        <3> QED
            BY <1>4, <3>3, <3>4, <3>5
    <2> QED
        BY <1>2, <2>2, <2>3
<1>5. CASE Handle(c) /\ ~DeleteRow(c) /\ ~SavePending(c)
           /\ ~SaveIntent(c) /\ ~SaveOutcome(c)
    <2>1. UNCHANGED table
        BY <1>5 DEF Handle, EnsureNamespace, LoadFails, LoadForUpgrade,
               LoadForRollback, RunHelm, RecordSuccess, RecordRollback,
               RecordFailure, PublishEvents, FinishDirect, FinishUninstall,
               FindForUninstall, LoadUnchangedVars, OutcomeUnchangedVars,
               storeVars
    <2> QED
        BY <1>2, <2>1
<1> QED
    BY <1>3, <1>4, <1>5

\* While calls do not overlap, the stored rows go through the lifecycle of
\* the aggregate, each step of which is one Save or Delete: no status is
\* skipped, the version counts the successes and nothing else, and only a
\* new record appears, whatever the calls ask for and whatever fails.
THEOREM LifecycleIsFollowed ==
    ASSUME MaxInFlight = 1
    PROVE  Spec => FollowsLifecycle
<1>1. Init => Lifecycle!Init
    BY DEF Init, StoreInit, Lifecycle!Init, Lifecycle!Absent
<1>2. TypeOK /\ IntentMatchesStep /\ SequentialInv /\ [Next]_vars
          => [Lifecycle!Next]_TheRecord
    <2> SUFFICES ASSUME TypeOK, IntentMatchesStep, SequentialInv,
                        [Next]_vars, TheRecord' # TheRecord
                 PROVE  Lifecycle!Next
        OBVIOUS
    <2>1. \E c \in Calls : Handle(c)
        <3>1. table' # table
            BY DEF TheRecord
        <3> QED
            BY <3>1 DEF Next, vars, storeVars, Signal, Restart, Waiting,
                   Receive, StartInstall, StartFromStore, StartAtHelm, Accept
    <2> QED
        BY <2>1, HandleFollows
<1>3. TypeOK /\ IntentMatchesStep /\ SequentialInv /\ [Next]_vars
          => SequentialInv'
    BY SequentialStep
<1> QED
    BY <1>1, <1>2, <1>3, SequentialInit, TypeCorrect, IntentsMatch, PTL
    DEF Spec, FollowsLifecycle, Lifecycle!Spec, TheRecord
=============================================================================
