--------------------------- MODULE NoStuckRowProofs ---------------------------
(***************************************************************************)
(* A row says that work is in progress only while a handler is at work on  *)
(* it, or after a fault.  The proof needs what each handler knows of its   *)
(* own aggregate (IntentMatchesStep): that its commands are not refused.   *)
(***************************************************************************)
EXTENDS DeploymentServiceProofs

-----------------------------------------------------------------------------
(* What the steps of a handler have in common                              *)

\* The inductive form: a handler about to load serves a tracked request.
IntentInv ==
    /\ IntentMatchesStep
    /\ \A c \in Calls : pc[c] = "load" => request[c].tracked

\* Each action of a handler moves it and changes no other's aggregate.
LEMMA HandleMoves ==
    ASSUME TypeOK, NEW c \in Calls, Handle(c), ~RunHelm(c)
    PROVE  /\ OnlyChanges(c) /\ UNCHANGED request
           /\ \A b \in Calls \ {c} : pc'[b] = pc[b]
           /\ pc[c] \notin {"idle", "done", "lost"}
<1>1. pc[c] \notin {"idle", "done", "lost"} /\ UNCHANGED request
    BY DEF Handle, EnsureNamespace, SavePending, LoadFails,
           LoadForUpgrade, LoadForRollback, SaveIntent, RunHelm,
           RecordSuccess, RecordRollback, RecordFailure, SaveOutcome,
           PublishEvents, FinishDirect, FinishUninstall,
           FindForUninstall, DeleteRow, HelmAnswers, LoadUnchangedVars,
           OutcomeUnchangedVars
<1>2. \/ UNCHANGED agg \/ agg' = Drop(agg, c)
      \/ \E d : agg' = Put(agg, c, d)
      \/ \E d : agg' = [agg EXCEPT ![c] = d]
    BY DEF Handle, EnsureNamespace, SavePending, LoadFails,
           LoadForUpgrade, LoadForRollback, SaveIntent, RunHelm,
           RecordSuccess, RecordRollback, RecordFailure, SaveOutcome,
           PublishEvents, FinishDirect, FinishUninstall,
           FindForUninstall, DeleteRow, Return
<1>3. OnlyChanges(c)
    BY <1>2 DEF OnlyChanges, Put, Drop
<1>4. \E step : Goto(c, step)
    BY DEF Handle, EnsureNamespace, SavePending, LoadFails,
           LoadForUpgrade, LoadForRollback, SaveIntent, RunHelm,
           RecordSuccess, RecordRollback, RecordFailure, SaveOutcome,
           PublishEvents, FinishDirect, FinishUninstall,
           FindForUninstall, DeleteRow, Return
<1>5. \A b \in Calls \ {c} : pc'[b] = pc[b]
    BY <1>4 DEF Goto, TypeOK
<1> QED
    BY <1>1, <1>3, <1>5

\* If the handler that moves matches its step, all do.
LEMMA OthersMatch ==
    ASSUME TypeOK, IntentMatchesStep, NEW c \in Calls, OnlyChanges(c),
           \A b \in Calls \ {c} : pc'[b] = pc[b],
           \/ UNCHANGED request
           \/ \E q \in Requests : request' = Put(request, c, q),
           DOMAIN agg' \subseteq Calls,
           c \in DOMAIN agg' => MatchesStep(c)'
    PROVE  IntentMatchesStep'
<1>1. ASSUME NEW b \in DOMAIN agg', b # c
      PROVE  MatchesStep(b)'
    <2>1. b \in Calls /\ b \in DOMAIN agg /\ agg'[b] = agg[b] /\ pc'[b] = pc[b]
        BY <1>1 DEF OnlyChanges
    <2>2. request'[b] = request[b]
        BY <1>1, <2>1 DEF Put, TypeOK, AggregatesOK, RequestsOK
    <2>3. MatchesStep(b)
        BY <2>1 DEF IntentMatchesStep
    <2> QED
        BY <2>1, <2>2, <2>3 DEF MatchesStep
<1> QED
    BY <1>1 DEF IntentMatchesStep

\* What the commands make of the status, with the identity kept.
LEMMA CommandStatuses ==
    ASSUME NEW d \in Aggregate
    PROVE  /\ StartDeployment(d).status = "DEPLOYING"
           /\ StartDeployment(d).id = d.id
           /\ MarkFailed(d).status = "FAILED" /\ MarkFailed(d).id = d.id
           /\ \A chart : StartUpgrade(d, chart).status = "UPGRADING"
           /\ StartRollback(d).status = "ROLLING_BACK"
           /\ MarkRolledBack(d).status = "ROLLED_BACK"
           /\ MarkRolledBack(d).id = d.id
           /\ \A revision : /\ MarkSucceeded(d, revision).status = "SUCCEEDED"
                            /\ MarkSucceeded(d, revision).id = d.id
BY DEF StartDeployment, MarkFailed, StartUpgrade, StartRollback,
       MarkRolledBack, MarkSucceeded, Aggregate

-----------------------------------------------------------------------------
(* A handler's aggregate is where its step supposes it                     *)

\* Where a handler's step leaves it with an aggregate, the two match.
LEMMA HandleMatches ==
    ASSUME TypeOK, IntentInv, NEW c \in Calls, Handle(c), ~RunHelm(c),
           c \in DOMAIN agg'
    PROVE  MatchesStep(c)'
<1> DEFINE loaded == Reconstitute(FirstRowFor(request[c].release))
<1>1. /\ pc \in [Calls -> Step]
      /\ request' = request
      /\ request[c] \in Requests
      /\ pc[c] \in HoldingSteps => c \in DOMAIN agg
      /\ c \in DOMAIN agg => agg[c] \in Aggregate /\ MatchesStep(c)
    BY HandleMoves, AtWork DEF IntentInv, IntentMatchesStep, TypeOK
<1>2. ~Return(c)
    BY DEF Return, Drop
<1>3. CASE EnsureNamespace(c)
    BY <1>1, <1>2, <1>3 DEF EnsureNamespace, Goto, MatchesStep, HoldingSteps
<1>4. CASE SavePending(c)
    <2>1. c \in DOMAIN agg /\ pc[c] = "savePending" /\ pc'[c] = "saveIntent"
          /\ agg'[c] = StartDeployment(agg[c])
        BY <1>1, <1>2, <1>4 DEF SavePending, Goto, HoldingSteps
    <2>2. agg'[c].status = "DEPLOYING" /\ request'[c].kind = "install"
        BY <1>1, <2>1, CommandStatuses DEF MatchesStep
    <2> QED
        BY <1>1, <2>1, <2>2 DEF MatchesStep, IntentOf
<1>5. CASE LoadFails(c) \/ DeleteRow(c) \/ PublishEvents(c) \/ FinishDirect(c)
    BY <1>2, <1>5 DEF LoadFails, DeleteRow, PublishEvents, FinishDirect
<1>6. CASE LoadForUpgrade(c)
    <2>1. /\ pc[c] = "load" /\ pc'[c] = "saveIntent"
          /\ request[c].kind = "upgrade"
          /\ agg'[c] = StartUpgrade(loaded, request[c].chart)
          /\ RowsFor(request[c].release) # {}
        BY <1>1, <1>2, <1>6 DEF LoadForUpgrade, Goto, Put
    <2>2. agg'[c].status = "UPGRADING"
        BY <2>1, LoadedType, CommandStatuses DEF TypeOK
    <2> QED
        BY <1>1, <2>1, <2>2 DEF MatchesStep, IntentOf, IntentInv
<1>7. CASE LoadForRollback(c)
    <2>1. /\ pc[c] = "load" /\ pc'[c] = "saveIntent"
          /\ request[c].kind = "rollback"
          /\ agg'[c] = StartRollback(loaded)
          /\ RowsFor(request[c].release) # {}
        BY <1>1, <1>2, <1>7 DEF LoadForRollback, Goto, Put
    <2>2. agg'[c].status = "ROLLING_BACK"
        BY <2>1, LoadedType, CommandStatuses DEF TypeOK
    <2> QED
        BY <1>1, <2>1, <2>2 DEF MatchesStep, IntentOf, IntentInv
<1>8. CASE SaveIntent(c)
    BY <1>1, <1>2, <1>8 DEF SaveIntent, Goto, MatchesStep, HoldingSteps
<1>9. CASE RecordSuccess(c) \/ RecordRollback(c) \/ RecordFailure(c)
    <2>1. c \in DOMAIN agg /\ pc'[c] = "saveOutcome"
          /\ \/ agg'[c] = MarkSucceeded(agg[c], operation[c].revision)
             \/ agg'[c] = MarkRolledBack(agg[c])
             \/ agg'[c] = MarkFailed(agg[c])
        BY <1>1, <1>2, <1>9
        DEF RecordSuccess, RecordRollback, RecordFailure, Goto
    <2>2. agg'[c].status \in Outcomes
        BY <1>1, <2>1, CommandStatuses DEF Outcomes
    <2> QED
        BY <2>1, <2>2 DEF MatchesStep
<1>10. CASE SaveOutcome(c)
    BY <1>1, <1>2, <1>10 DEF SaveOutcome, Goto, MatchesStep
<1>11. CASE FinishUninstall(c)
    BY <1>1, <1>2, <1>11 DEF FinishUninstall, Goto, MatchesStep
<1>12. CASE FindForUninstall(c)
    BY <1>1, <1>2, <1>12 DEF FindForUninstall, Goto, MatchesStep
<1> QED
    BY <1>3, <1>4, <1>5, <1>6, <1>7, <1>8, <1>9, <1>10, <1>11, <1>12 DEF Handle

\* The inductive step of IntentInv.
LEMMA IntentStep == TypeOK /\ IntentInv /\ [Next]_vars => IntentInv'
<1> SUFFICES ASSUME TypeOK, IntentInv, [Next]_vars PROVE IntentInv'
    OBVIOUS
<1> USE DEF IntentInv
<1>1. TypeOK'
    BY StepType
<1>2. DOMAIN agg' \subseteq Calls
    BY <1>1 DEF TypeOK, AggregatesOK, InFlight
<1>3. ASSUME NEW c \in Calls, Receive(c)
      PROVE  IntentInv'
    <2>1. PICK q \in Requests :
              StartInstall(c, q) \/ StartFromStore(c, q) \/ StartAtHelm(c, q)
        BY <1>3 DEF Receive
    <2>2. /\ request' = Put(request, c, q) /\ pc[c] = "idle"
          /\ c \notin DOMAIN agg
        BY <2>1 DEF StartInstall, StartFromStore, StartAtHelm, Accept,
                    TypeOK, AggregatesOK, InFlight
    <2>3. /\ \A b \in Calls \ {c} : pc'[b] = pc[b]
          /\ pc'[c] = "load" => q.tracked
        BY <2>1 DEF StartInstall, StartFromStore, StartAtHelm, Goto, Return,
                    TypeOK
    <2>4. OnlyChanges(c)
        BY <2>1 DEF OnlyChanges, StartInstall, StartFromStore, StartAtHelm,
                    Return, Put, Drop
    <2>5. c \in DOMAIN agg' => MatchesStep(c)'
        <3> SUFFICES ASSUME c \in DOMAIN agg' PROVE MatchesStep(c)'
            OBVIOUS
        <3>1. StartInstall(c, q) /\ CanCreate(q.chart)
            BY <2>1, <2>2 DEF StartInstall, StartFromStore, StartAtHelm,
                              Return, Drop
        <3>2. /\ agg'[c].status = "PENDING"
              /\ pc'[c] \in {"namespace", "savePending"}
              /\ request'[c].tracked /\ request'[c].kind = "install"
            BY <2>2, <3>1 DEF StartInstall, NewDeployment, Put, Goto, TypeOK
        <3> QED
            BY <3>2 DEF MatchesStep
    <2>6. IntentMatchesStep'
        BY <1>2, <2>2, <2>3, <2>4, <2>5, OthersMatch
    <2>7. ASSUME NEW b \in Calls, pc'[b] = "load"
          PROVE  request'[b].tracked
        <3>1. CASE b = c
            BY <2>2, <2>3, <2>7, <3>1 DEF Put
        <3>2. CASE b # c
            <4>1. pc[b] = "load" /\ b \in DOMAIN request
                BY <2>3, <2>7, <3>2 DEF TypeOK, RequestsOK, InFlight
            <4> QED
                BY <2>2, <3>2, <4>1 DEF Put
        <3> QED
            BY <3>1, <3>2
    <2> QED
        BY <2>6, <2>7
<1>4. ASSUME NEW c \in Calls, Handle(c), ~RunHelm(c)
      PROVE  IntentInv'
    <2>1. IntentMatchesStep'
        BY <1>2, <1>4, HandleMoves, HandleMatches, OthersMatch
    <2>2. pc'[c] # "load"
        BY <1>4 DEF Handle, EnsureNamespace, SavePending, LoadFails,
               LoadForUpgrade, LoadForRollback, SaveIntent, RunHelm,
               RecordSuccess, RecordRollback, RecordFailure, SaveOutcome,
               PublishEvents, FinishDirect, FinishUninstall,
               FindForUninstall, DeleteRow, Return, Goto, TypeOK
    <2> QED
        BY <1>4, <2>1, <2>2, HandleMoves
<1>5. CASE Restart
    <2>1. \A c \in Calls : pc'[c] # "load"
        BY <1>5 DEF Restart, InFlight
    <2> QED
        BY <1>5, <2>1 DEF Restart, IntentMatchesStep
<1>6. CASE \/ UNCHANGED vars \/ Waiting \/ Signal
           \/ \E c \in Calls : RunHelm(c)
    BY <1>6 DEF Waiting, vars, serviceVars, Signal, RunHelm,
                IntentMatchesStep, MatchesStep
<1> QED
    BY <1>3, <1>4, <1>5, <1>6 DEF Next

\* In every reachable state the aggregate a handler holds is in the status
\* its step supposes, however many calls overlap and whatever fails: after
\* the intent is saved no command of the handler is refused.
THEOREM IntentsMatch == Spec => []IntentMatchesStep
<1>1. Init => IntentInv
    BY DEF Init, IntentInv, IntentMatchesStep
<1>2. TypeOK /\ IntentInv /\ [Next]_vars => IntentInv'
    BY IntentStep
<1>3. IntentInv => IntentMatchesStep
    BY DEF IntentInv
<1> QED
    BY <1>1, <1>2, <1>3, TypeCorrect, PTL DEF Spec

-----------------------------------------------------------------------------
(* A row is stuck only by a fault                                          *)

\* A Save writes the status of the aggregate into its row, and no other.
LEMMA SavedStatus ==
    ASSUME StoreTypeOK, NEW d \in Aggregate, Save(d)
    PROVE  /\ table'[d.id].status = d.status
           /\ \A id \in DOMAIN table' \ {d.id} :
                  id \in DOMAIN table /\ table'[id] = table[id]
<1>1. d.id \in DOMAIN table => UpdatedRow(table[d.id], d).status = d.status
    BY DEF UpdatedRow, StoreTypeOK, Row
<1>2. RowOf(d, nextRowid).status = d.status
    BY DEF RowOf
<1>3. \E row : row.status = d.status /\ table' = Put(table, d.id, row)
    BY <1>1, <1>2, Zenon DEF Save
<1> QED
    BY <1>3 DEF Put

\* The row is excused: a handler works on it, or a fault left it behind.
Excused(id) == (\E c \in Calls : WorksOn(c, id)) \/ id \in abandoned

\* If a handler's step excuses each row in progress that it wrote or worked
\* on, every row in progress stays excused.
LEMMA StuckStep ==
    ASSUME TypeOK, StuckOnlyByFault, NEW c \in Calls, OnlyChanges(c),
           \A b \in Calls \ {c} : pc'[b] = pc[b],
           abandoned \subseteq abandoned',
           \A id \in DOMAIN table' :
               table'[id].status \in InProgress =>
                   \/ WorksOn(c, id)'
                   \/ id \in abandoned'
                   \/ /\ id \in DOMAIN table /\ table'[id] = table[id]
                      /\ ~WorksOn(c, id)
    PROVE  StuckOnlyByFault'
<1> SUFFICES ASSUME NEW id \in DOMAIN table',
                    table'[id].status \in InProgress
             PROVE  Excused(id)'
    BY DEF StuckOnlyByFault, Excused
<1>1. CASE WorksOn(c, id)' \/ id \in abandoned'
    BY <1>1 DEF Excused
<1>2. CASE id \in DOMAIN table /\ table'[id] = table[id] /\ ~WorksOn(c, id)
    <2>1. Excused(id)
        BY <1>2 DEF StuckOnlyByFault, Excused
    <2>2. CASE id \in abandoned
        BY <2>2 DEF Excused
    <2>3. ASSUME NEW b \in Calls, WorksOn(b, id)
          PROVE  WorksOn(b, id)'
        <3>1. b # c
            BY <1>2, <2>3
        <3> QED
            BY <2>3, <3>1 DEF WorksOn, OnlyChanges
    <2> QED
        BY <2>1, <2>2, <2>3 DEF Excused
<1> QED
    BY <1>1, <1>2

\* The handler goes on working on the row it worked on.
GoesOnWorking(c) ==
    /\ c \in DOMAIN agg' /\ agg'[c].id = agg[c].id
    /\ pc'[c] \in {"savePending", "saveIntent", "helm", "saveOutcome"}

\* A Save after which the handler still works on the row, or whose row is
\* settled, or that fails.
LEMMA SaveExcuses ==
    ASSUME TypeOK, NEW c \in DOMAIN agg, agg[c] \in Aggregate,
           \/ /\ SaveSucceeds(c)
              /\ \/ GoesOnWorking(c)
                 \/ agg[c].status \in Outcomes
           \/ SaveFails(c)
    PROVE  /\ abandoned \subseteq abandoned'
           /\ \A id \in DOMAIN table' :
                  table'[id].status \in InProgress =>
                      \/ WorksOn(c, id)'
                      \/ id \in abandoned'
                      \/ /\ id \in DOMAIN table /\ table'[id] = table[id]
                         /\ ~WorksOn(c, id)
<1>1. CASE SaveSucceeds(c)
    <2>1. UNCHANGED abandoned /\ Save(agg[c])
        BY <1>1 DEF SaveSucceeds
    <2>2. \A id \in DOMAIN table' \ {agg[c].id} :
              /\ id \in DOMAIN table /\ table'[id] = table[id]
              /\ ~WorksOn(c, id)
        BY <2>1, SavedStatus DEF WorksOn, TypeOK
    <2>3. table'[agg[c].id].status = agg[c].status
        BY <2>1, SavedStatus DEF TypeOK
    <2>4. CASE GoesOnWorking(c)
        BY <2>1, <2>2, <2>4 DEF GoesOnWorking, WorksOn
    <2>5. CASE agg[c].status \in Outcomes
        <3>1. table'[agg[c].id].status \notin InProgress
            BY <2>3, <2>5 DEF Outcomes, InProgress
        <3> QED
            BY <2>1, <2>2, <3>1
    <2>6. CASE SaveFails(c)
        BY <2>2, <2>6 DEF SaveFails
    <2> QED
        BY <2>4, <2>5, <2>6
<1>2. CASE SaveFails(c)
    BY <1>2 DEF SaveFails, WorksOn, storeVars
<1> QED
    BY <1>1, <1>2

\* A handler's step leaves every row in progress excused.
LEMMA HandleExcuses ==
    ASSUME TypeOK, IntentMatchesStep, StuckOnlyByFault,
           NEW c \in Calls, Handle(c), ~RunHelm(c)
    PROVE  StuckOnlyByFault'
<1>1. /\ pc \in [Calls -> Step]
      /\ pc[c] \in HoldingSteps => c \in DOMAIN agg
      /\ c \in DOMAIN agg => agg[c] \in Aggregate /\ MatchesStep(c)
    BY HandleMoves, AtWork DEF IntentMatchesStep, TypeOK
<1>2. OnlyChanges(c) /\ \A b \in Calls \ {c} : pc'[b] = pc[b]
    BY HandleMoves
<1>3. CASE SavePending(c)
    <2>1. c \in DOMAIN agg /\ pc[c] = "savePending"
          /\ agg[c].status = "PENDING"
        BY <1>1, <1>3 DEF SavePending, HoldingSteps, MatchesStep
    <2>2. SaveSucceeds(c) \/ SaveFails(c)
        BY <1>3 DEF SavePending
    <2>3. CASE SaveFails(c)
        BY <1>1, <1>2, <2>1, <2>3, SaveExcuses, StuckStep
    <2>4. CASE ~SaveFails(c)
        <3>1. agg' = [agg EXCEPT ![c] = StartDeployment(agg[c])]
              /\ pc'[c] = "saveIntent"
            BY <1>1, <1>3, <2>1, <2>4 DEF SavePending, CanStartDeployment, Goto
        <3>2. GoesOnWorking(c)
            BY <1>1, <2>1, <3>1, CommandStatuses DEF GoesOnWorking
        <3> QED
            BY <1>1, <1>2, <2>1, <2>2, <2>4, <3>2, SaveExcuses, StuckStep
    <2> QED
        BY <2>3, <2>4
<1>4. CASE SaveIntent(c)
    <2>1. c \in DOMAIN agg /\ pc[c] = "saveIntent"
        BY <1>1, <1>4 DEF SaveIntent, HoldingSteps
    <2>2. CASE SaveFails(c)
        BY <1>1, <1>2, <2>1, <2>2, SaveExcuses, StuckStep
    <2>3. CASE ~SaveFails(c)
        <3>1. SaveSucceeds(c) /\ agg' = agg /\ pc'[c] = "helm"
            BY <1>1, <1>4, <2>3 DEF SaveIntent, Goto
        <3>2. GoesOnWorking(c)
            BY <2>1, <3>1 DEF GoesOnWorking
        <3> QED
            BY <1>1, <1>2, <2>1, <3>1, <3>2, SaveExcuses, StuckStep
    <2> QED
        BY <2>2, <2>3
<1>5. CASE SaveOutcome(c)
    <2>1. c \in DOMAIN agg /\ agg[c].status \in Outcomes
          /\ (SaveSucceeds(c) \/ SaveFails(c))
        BY <1>1, <1>5 DEF SaveOutcome, HoldingSteps, MatchesStep
    <2> QED
        BY <1>1, <1>2, <2>1, SaveExcuses, StuckStep
<1>6. CASE RecordSuccess(c) \/ RecordRollback(c) \/ RecordFailure(c)
    <2>1. /\ c \in DOMAIN agg /\ pc[c] = "helm" /\ UNCHANGED table
          /\ UNCHANGED abandoned
        BY <1>6 DEF RecordSuccess, RecordRollback, RecordFailure,
                    HelmAnswers, OutcomeUnchangedVars, storeVars
    <2>2. RecordSuccess(c) => CanMarkSucceeded(agg[c])
        BY <1>1, <2>1 DEF RecordSuccess, MatchesStep, IntentOf,
                          CanMarkSucceeded
    <2>3. /\ pc'[c] = "saveOutcome"
          /\ \E d : d.id = agg[c].id /\ agg' = [agg EXCEPT ![c] = d]
        <3>1. /\ MarkSucceeded(agg[c], operation[c].revision).id = agg[c].id
              /\ MarkRolledBack(agg[c]).id = agg[c].id
              /\ MarkFailed(agg[c]).id = agg[c].id
            BY <1>1, <2>1, CommandStatuses
        <3> QED
            BY <1>1, <1>6, <2>2, <3>1
            DEF RecordSuccess, RecordRollback, RecordFailure, Goto
    <2>4. \A id : WorksOn(c, id) => WorksOn(c, id)'
        BY <2>1, <2>3 DEF WorksOn
    <2> QED
        BY <1>2, <2>1, <2>4, StuckStep
<1>7. CASE FinishDirect(c) \/ FinishUninstall(c)
    <2>1. c \notin DOMAIN agg
        <3>1. pc[c] = "helm"
              /\ (~request[c].tracked \/ request[c].kind = "uninstall")
            BY <1>7 DEF FinishDirect, FinishUninstall, HelmAnswers
        <3> QED
            BY <1>1, <3>1 DEF MatchesStep, IntentOf
    <2>2. UNCHANGED <<table, abandoned>>
        BY <1>7 DEF FinishDirect, FinishUninstall, OutcomeUnchangedVars,
                    storeVars
    <2> QED
        BY <1>2, <2>1, <2>2, StuckStep DEF WorksOn
<1>8. CASE \/ EnsureNamespace(c) \/ LoadFails(c) \/ LoadForUpgrade(c)
           \/ LoadForRollback(c) \/ PublishEvents(c) \/ FindForUninstall(c)
           \/ DeleteRow(c)
    <2>1. pc[c] \in {"namespace", "load", "publish", "find", "delete"}
        BY <1>8 DEF EnsureNamespace, LoadFails, LoadForUpgrade,
                    LoadForRollback, PublishEvents, FindForUninstall,
                    DeleteRow
    <2>2. UNCHANGED abandoned /\ (UNCHANGED table \/ \E id : Delete(id))
        BY <1>8 DEF EnsureNamespace, LoadFails, LoadForUpgrade,
                    LoadForRollback, PublishEvents, FindForUninstall,
                    DeleteRow, LoadUnchangedVars, storeVars
    <2>3. \A id \in DOMAIN table' : id \in DOMAIN table /\ table'[id] = table[id]
        BY <2>2 DEF Delete, Drop
    <2> QED
        BY <1>2, <2>1, <2>2, <2>3, StuckStep DEF WorksOn
<1> QED
    BY <1>3, <1>4, <1>5, <1>6, <1>7, <1>8 DEF Handle

\* A row in PENDING, DEPLOYING, UPGRADING or ROLLING_BACK has a handler at
\* work on it, unless a Save on it failed or the process died while a
\* handler held it: for any calls, any overlap and any faults, no path
\* through the service leaves a row stuck otherwise.
THEOREM NoStuckRow == Spec => []StuckOnlyByFault
<1>1. Init => StuckOnlyByFault
    BY DEF Init, StoreInit, StuckOnlyByFault
<1>2. ASSUME TypeOK, IntentMatchesStep, StuckOnlyByFault, [Next]_vars
      PROVE  StuckOnlyByFault'
    <2>1. ASSUME NEW c \in Calls, Receive(c)
          PROVE  StuckOnlyByFault'
        <3>1. /\ c \notin DOMAIN agg /\ UNCHANGED <<table, abandoned>>
              /\ \A b \in Calls \ {c} : pc'[b] = pc[b]
            BY <1>2, <2>1
            DEF Receive, StartInstall, StartFromStore, StartAtHelm, Accept,
                TypeOK, AggregatesOK, InFlight, Goto, Return, storeVars
        <3>2. OnlyChanges(c)
            BY <2>1 DEF OnlyChanges, Receive, StartInstall, StartFromStore,
                        StartAtHelm, Return, Put, Drop
        <3> QED
            BY <1>2, <3>1, <3>2, StuckStep DEF WorksOn
    <2>2. ASSUME NEW c \in Calls, Handle(c), ~RunHelm(c)
          PROVE  StuckOnlyByFault'
        BY <1>2, <2>2, HandleExcuses
    <2>3. CASE Restart
        <3>1. \A c \in DOMAIN agg : agg[c].id \in abandoned'
            BY <2>3 DEF Restart
        <3>2. UNCHANGED table /\ abandoned \subseteq abandoned'
            BY <2>3 DEF Restart, storeVars
        <3> QED
            BY <1>2, <3>1, <3>2 DEF StuckOnlyByFault, WorksOn
    <2>4. CASE \/ UNCHANGED vars \/ Waiting \/ Signal
               \/ \E c \in Calls : RunHelm(c)
        BY <1>2, <2>4 DEF Waiting, vars, serviceVars, storeVars, Signal,
                          RunHelm, StuckOnlyByFault, WorksOn
    <2> QED
        BY <1>2, <2>1, <2>2, <2>3, <2>4 DEF Next
<1> QED
    BY <1>1, <1>2, TypeCorrect, IntentsMatch, PTL DEF Spec
=============================================================================
