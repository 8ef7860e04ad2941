----------------------------- MODULE Deployment -----------------------------
(***************************************************************************)
(* The Deployment aggregate (internal/domain/deployment/entity.go) as pure *)
(* operators on a record: one operator per command of the aggregate, and   *)
(* next to it the condition under which the command does not return        *)
(* ErrInvalidTransition.  Values, labels, annotations and timestamps are   *)
(* left out: nothing the code decides depends on them.                     *)
(***************************************************************************)
EXTENDS Integers, Sequences, ValueObjects

Status == {"PENDING", "PLANNING", "VALIDATING", "DEPLOYING", "SUCCEEDED",
           "FAILED", "ROLLING_BACK", "ROLLED_BACK", "UPGRADING",
           "UNINSTALLED"}

EventType == {"created", "started", "succeeded", "failed",
              "upgrade_started", "rollback_started", "rolled_back"}

HistoryEntry ==
    [version : Nat, status : Status, chart : Charts, helmVersion : Nat]

Aggregate ==
    [id : Ids, release : Releases, chart : Charts, status : Status,
     version : Nat, history : Seq(HistoryEntry), events : Seq(EventType)]

-----------------------------------------------------------------------------
(* Construction and commands                                               *)

\* New refuses a chart reference that does not validate; names are valid here.
CanCreate(chart) == chart \in ValidCharts

NewDeployment(id, release, chart) ==
    [id |-> id, release |-> release, chart |-> chart, status |-> "PENDING",
     version |-> 1, history |-> <<>>, events |-> <<"created">>]

CanStartDeployment(d) == d.status \in {"PENDING", "PLANNING"}

StartDeployment(d) ==
    [d EXCEPT !.status = "DEPLOYING", !.events = Append(@, "started")]

CanMarkSucceeded(d) == d.status \in {"DEPLOYING", "UPGRADING"}

\* Mutants of MarkSucceeded: the version is not advanced; the newest entry
\* of the history comes first.
MarkSucceededKeepsVersion(d, helmRevision) ==
    [d EXCEPT
        !.history = Append(@, [version |-> d.version, status |-> d.status,
                               chart |-> d.chart,
                               helmVersion |-> helmRevision]),
        !.status  = "SUCCEEDED",
        !.events  = Append(@, "succeeded")]

MarkSucceededPrepends(d, helmRevision) ==
    [d EXCEPT
        !.history = <<[version |-> d.version, status |-> d.status,
                       chart |-> d.chart, helmVersion |-> helmRevision]>> \o @,
        !.status  = "SUCCEEDED",
        !.version = @ + 1,
        !.events  = Append(@, "succeeded")]

\* The entry records the status being left and the version being completed.
MarkSucceeded(d, helmRevision) ==
    [d EXCEPT
        !.history = Append(@, [version |-> d.version, status |-> d.status,
                               chart |-> d.chart,
                               helmVersion |-> helmRevision]),
        !.status  = "SUCCEEDED",
        !.version = @ + 1,
        !.events  = Append(@, "succeeded")]

\* MarkFailed and MarkRolledBack have no guard in the code.
MarkFailed(d) ==
    [d EXCEPT !.status = "FAILED", !.events = Append(@, "failed")]

\* Mutant of CanStartUpgrade: any outcome may be upgraded.
CanStartUpgradeAnyOutcome(d) == d.status \in {"SUCCEEDED", "FAILED", "ROLLED_BACK"}

CanStartUpgrade(d) == d.status = "SUCCEEDED"

\* Unlike New, StartUpgrade does not validate the chart it is given.
StartUpgrade(d, newChart) ==
    [d EXCEPT !.chart = newChart, !.status = "UPGRADING",
              !.events = Append(@, "upgrade_started")]

CanStartRollback(d) == d.status \in {"FAILED", "SUCCEEDED"}

StartRollback(d) ==
    [d EXCEPT !.status = "ROLLING_BACK",
              !.events = Append(@, "rollback_started")]

\* Mutant of MarkRolledBack: the status is left as it was.
MarkRolledBackKeepsStatus(d) == [d EXCEPT !.events = Append(@, "rolled_back")]

MarkRolledBack(d) ==
    [d EXCEPT !.status = "ROLLED_BACK", !.events = Append(@, "rolled_back")]

\* The statuses in which a call is still at work on the deployment.
InProgress == {"PENDING", "DEPLOYING", "UPGRADING", "ROLLING_BACK"}
=============================================================================
