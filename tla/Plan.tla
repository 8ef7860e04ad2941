-------------------------------- MODULE Plan --------------------------------
(***************************************************************************)
(* A plan: made by the planner's service (internal/application/planner),   *)
(* kept by the aggregate of internal/domain/plan, and worked off by whoever*)
(* has it.  Nothing in the program executes plans: plan_deployment hands   *)
(* the steps to the client, who takes up steps whose dependencies are met, *)
(* several at once.  That client is external.  It may call the commands of *)
(* the aggregate, which are not all guarded, at any time.                  *)
(***************************************************************************)
EXTENDS Planner, FiniteSets

CONSTANTS
    Intents,      \* the intents clients may send
    MaxRunning    \* how many steps a client works on at once

ASSUME IntentsAssumption == Intents \subseteq SUBSET Words
ASSUME MaxRunningAssumption == MaxRunning \in Nat \ {0}

VARIABLES
    intent,
    status,       \* the plan's status; NONE before, REFUSED without a plan
    steps,
    rollback,     \* the steps of the companion plan
    deployed      \* whether Start has tied the plan to a deployment

vars == <<intent, status, steps, rollback, deployed>>

PlanStatus == {"DRAFT", "APPROVED", "EXECUTING", "COMPLETED", "FAILED",
               "ABORTED"}

Id(step) == <<step.type, step.app>>
Settled == {"SUCCEEDED", "SKIPPED"}

TypeOK ==
    LET names == {NoApp} \cup {Catalogue[i].name : i \in DOMAIN Catalogue}
        PlanSteps == Seq([type : StepType, app : names, status : StepStatus,
                          dependsOn : SUBSET (StepType \X names)]) IN
    /\ intent \in Intents
    /\ status \in PlanStatus \cup {"NONE", "REFUSED"}
    /\ steps \in PlanSteps /\ rollback \in PlanSteps
    /\ deployed \in BOOLEAN

Init ==
    /\ intent \in Intents
    /\ status = "NONE"
    /\ steps = <<>> /\ rollback = <<>>
    /\ deployed = FALSE

\* Service.Plan.  The cluster is validated before anything is built.
MakePlan(valid) ==
    /\ status = "NONE"
    /\ IF DetectApps(intent) # <<>> /\ valid
       THEN /\ status' = "DRAFT"
            /\ steps' = BuildSteps(intent)
            /\ rollback' = BuildRollbackPlan(intent)
       ELSE status' = "REFUSED" /\ UNCHANGED <<steps, rollback>>
    /\ UNCHANGED <<intent, deployed>>

-----------------------------------------------------------------------------
(* The commands of the aggregate                                           *)

Approve ==
    /\ status = "DRAFT"
    /\ status' = "APPROVED"
    /\ UNCHANGED <<intent, steps, rollback, deployed>>

Start ==
    /\ status = "APPROVED"
    /\ status' = "EXECUTING" /\ deployed' = TRUE
    /\ UNCHANGED <<intent, steps, rollback>>

\* Complete, Fail and Abort look at nothing.
Complete ==
    /\ status \in PlanStatus
    /\ status' = "COMPLETED"
    /\ UNCHANGED <<intent, steps, rollback, deployed>>

Fail ==
    /\ status \in PlanStatus
    /\ status' = "FAILED"
    /\ UNCHANGED <<intent, steps, rollback, deployed>>

Abort ==
    /\ status \in PlanStatus
    /\ status' = "ABORTED"
    /\ UNCHANGED <<intent, steps, rollback, deployed>>

UpdateStepStatus(i, st) ==
    /\ steps' = [steps EXCEPT ![i].status = st]
    /\ UNCHANGED <<intent, status, rollback, deployed>>

\* Mutant of ReadySteps: nothing is ready once a step has failed.
ReadyStepsUnlessFailed ==
    LET completed == {Id(steps[i]) : i \in
            {j \in DOMAIN steps : steps[j].status \in Settled}} IN
    {i \in DOMAIN steps : /\ steps[i].status = "PENDING"
                          /\ steps[i].dependsOn \subseteq completed
                          /\ \A j \in DOMAIN steps : steps[j].status # "FAILED"}

ReadySteps ==
    LET completed == {Id(steps[i]) : i \in
            {j \in DOMAIN steps : steps[j].status \in Settled}} IN
    {i \in DOMAIN steps : /\ steps[i].status = "PENDING"
                          /\ steps[i].dependsOn \subseteq completed}

-----------------------------------------------------------------------------
(* The client who works the plan off                                       *)

Running == {i \in DOMAIN steps : steps[i].status = "RUNNING"}

BeginStep ==
    /\ status = "EXECUTING" /\ Cardinality(Running) < MaxRunning
    /\ \E i \in ReadySteps : UpdateStepStatus(i, "RUNNING")

SkipStep ==
    /\ status = "EXECUTING"
    /\ \E i \in ReadySteps : UpdateStepStatus(i, "SKIPPED")

\* The answer may come after the plan was aborted.
EndStep ==
    \E i \in Running, st \in {"SUCCEEDED", "FAILED"} : UpdateStepStatus(i, st)

Refused == status = "REFUSED" /\ UNCHANGED vars

Next ==
    \/ \E valid \in BOOLEAN : MakePlan(valid)
    \/ Approve
    \/ Start
    \/ Complete
    \/ Fail
    \/ Abort
    \/ BeginStep
    \/ SkipStep
    \/ EndStep
    \/ Refused

Spec == Init /\ [][Next]_vars
-----------------------------------------------------------------------------
(* Properties                                                              *)

\* What has to be there before what, for one application: the namespace, the
\* validated chart, the storage, the release; then its ingress and readiness.
Stage(type) ==
    CASE type = "CREATE_NAMESPACE" -> 0
      [] type = "INSTALL_CRDS" -> 1
      [] type = "CONFIGURE_STORAGE" -> 2
      [] type \in {"INSTALL_CHART", "UPGRADE_CHART"} -> 3
      [] OTHER -> 4

Before(i, j) ==
    /\ steps[i].app \in {NoApp, steps[j].app}
    /\ Stage(steps[i].type) < Stage(steps[j].type)

\* Whichever ready steps a client works on at once, and in whatever order
\* they end, a step that has begun finds in place all that it builds on.
NothingTooEarly ==
    \A j \in DOMAIN steps :
        steps[j].status \in {"RUNNING", "SUCCEEDED", "FAILED"} =>
            \A i \in DOMAIN steps : Before(i, j) => steps[i].status \in Settled

\* A step waits for nothing but what its own application builds on, the
\* namespace included: a failure of the namespace holds up everything, any
\* other one its own application only.
NothingTooLate ==
    \A j \in DOMAIN steps :
        steps[j].status = "PENDING" =>
            \/ j \in ReadySteps
            \/ \E i \in DOMAIN steps :
                   Before(i, j) /\ steps[i].status \notin Settled
=============================================================================
