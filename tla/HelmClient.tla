----------------------------- MODULE HelmClient -----------------------------
(***************************************************************************)
(* The Helm adapter (internal/adapters/helm/client.go) and what it drives: *)
(* the release records Helm keeps in the cluster and the namespaces.       *)
(*                                                                         *)
(* The adapter is the retry loop around the SDK's actions and the choice   *)
(* of SDK options; the SDK itself is external and modelled by what the     *)
(* code relies on: an install refuses a name that is in use, an upgrade    *)
(* refuses a missing or pending release, every attempt that gets as far as *)
(* the cluster creates a revision, an atomic operation undoes its failure, *)
(* a dry run writes nothing.  An SDK operation takes two steps, so that    *)
(* other calls and crashes fall between its start and its end.             *)
(***************************************************************************)
EXTENDS Integers, ValueObjects

CONSTANTS
    Calls,        \* the tool calls
    Namespaces,
    NamespaceOf,  \* the namespace of each release
    Attempts      \* retry.DefaultHelmPolicy().Attempts

ASSUME AttemptsAssumption == Attempts \in Nat \ {0}
ASSUME NamespaceOfAssumption == NamespaceOf \in [Releases -> Namespaces]

VARIABLES
    helm,         \* per release, its newest revision and that one's status
    operation,    \* per call, where its Helm operation is
    namespaces    \* the namespaces that exist in the cluster

helmVars == <<helm, operation, namespaces>>

ReleaseStatus ==
    {"none", "pending", "deployed", "failed", "uninstalling", "uninstalled"}
ReleaseRecord == [status : ReleaseStatus, revision : Nat]
Phase == {"ready", "running", "backoff", "succeeded", "failed"}
Operation == [phase : Phase, attempt : Nat, revision : Nat]

HelmTypeOK ==
    /\ helm \in [Releases -> ReleaseRecord]
    /\ operation \in [Calls -> Operation]
    /\ namespaces \subseteq Namespaces

NoRelease == [status |-> "none", revision |-> 0]
FreshOperation == [phase |-> "ready", attempt |-> 1, revision |-> 0]

HelmInit ==
    /\ helm = [r \in Releases |-> NoRelease]
    /\ operation = [c \in Calls |-> FreshOperation]
    /\ namespaces = {}

-----------------------------------------------------------------------------

\* Install and Upgrade run under retry.Do and with the call's context;
\* Rollback and Uninstall are run once and without it.
Retried(q) == q.kind \in {"install", "upgrade"}

\* What the next revision is rolled back to: 0 asks for the previous one.
RollbackTarget(q) == IF q.to = 0 THEN helm[q.release].revision - 1 ELSE q.to

Accepts(q) ==
    LET rel == helm[q.release] IN
    CASE q.kind = "install" ->
            \/ q.dryRun
            \/ /\ rel.status = "none"
               /\ q.createNS \/ NamespaceOf[q.release] \in namespaces
      [] q.kind = "upgrade"  -> rel.status \in {"deployed", "failed"}
      [] q.kind = "rollback" -> /\ rel.revision > 0
                                /\ RollbackTarget(q) \in 1 .. rel.revision
      [] q.kind = "uninstall" ->
            /\ rel.revision > 0
            /\ rel.status # "uninstalled" \/ ~q.keepHistory

Moved(c, phase) == operation' = [operation EXCEPT ![c].phase = phase]

\* What retry.Do does with a failed attempt: wait for another, or give up.
AttemptFailed(c, q, cancelled) ==
    IF Retried(q) /\ operation[c].attempt < Attempts /\ ~cancelled
    THEN Moved(c, "backoff")
    ELSE Moved(c, "failed")

-----------------------------------------------------------------------------

\* The action configuration, or locating and loading the chart, fails: this
\* is before the retry loop.  So does retry.Do when the context is done.
SetupFails(c) ==
    /\ operation[c].phase = "ready" /\ operation[c].attempt = 1
    /\ Moved(c, "failed")
    /\ UNCHANGED <<helm, namespaces>>

\* The SDK refuses the request, or fails before it writes anything.
AttemptRefused(c, q, cancelled) ==
    /\ operation[c].phase = "ready"
    /\ AttemptFailed(c, q, cancelled)
    /\ UNCHANGED <<helm, namespaces>>

\* A dry run reports the revision it would have made.
DryRun(c, q) ==
    /\ operation[c].phase = "ready" /\ q.dryRun /\ Accepts(q)
    /\ operation' = [operation EXCEPT
            ![c].phase = "succeeded",
            ![c].revision = IF q.kind = "install" THEN 1
                            ELSE helm[q.release].revision + 1]
    /\ UNCHANGED <<helm, namespaces>>

\* The SDK starts a real run: it records the revision it is about to apply.
Begin(c, q) ==
    /\ operation[c].phase = "ready" /\ ~q.dryRun /\ Accepts(q)

NewRevision(c, q) ==
    LET revision == helm[q.release].revision + 1 IN
    /\ operation' = [operation EXCEPT ![c].phase = "running",
                                      ![c].revision = revision]
    /\ helm' = [helm EXCEPT ![q.release] =
                   [status |-> "pending", revision |-> revision]]

BeginInstall(c, q, cancelled) ==
    /\ q.kind = "install" /\ ~cancelled
    /\ Begin(c, q)
    /\ NewRevision(c, q)
    /\ namespaces' = IF q.createNS
                     THEN namespaces \cup {NamespaceOf[q.release]}
                     ELSE namespaces

BeginUpgrade(c, q, cancelled) ==
    /\ q.kind = "upgrade" /\ ~cancelled
    /\ Begin(c, q)
    /\ NewRevision(c, q)
    /\ UNCHANGED namespaces

BeginRollback(c, q) ==
    /\ q.kind = "rollback"
    /\ Begin(c, q)
    /\ NewRevision(c, q)
    /\ UNCHANGED namespaces

BeginUninstall(c, q) ==
    /\ q.kind = "uninstall"
    /\ Begin(c, q)
    /\ operation' = [operation EXCEPT
            ![c].phase = "running",
            ![c].revision = helm[q.release].revision]
    /\ helm' = [helm EXCEPT ![q.release].status = "uninstalling"]
    /\ UNCHANGED namespaces

\* Only the newest revision is kept: writing the status of an older one, or
\* of one that has been purged meanwhile, changes nothing here.
WriteStatus(c, q, status) ==
    helm' = IF helm[q.release].revision = operation[c].revision
            THEN [helm EXCEPT ![q.release].status = status]
            ELSE helm

Purge(q) == helm' = [helm EXCEPT ![q.release] = NoRelease]

Complete(c, q) ==
    /\ operation[c].phase = "running"
    /\ Moved(c, "succeeded")
    /\ IF q.kind # "uninstall" THEN WriteStatus(c, q, "deployed")
       ELSE IF q.keepHistory THEN WriteStatus(c, q, "uninstalled")
       ELSE Purge(q)
    /\ UNCHANGED namespaces

\* An attempt fails after it wrote its revision.
Break(c, q, cancelled) ==
    /\ operation[c].phase = "running"
    /\ AttemptFailed(c, q, cancelled)
    /\ \/ /\ q.kind # "uninstall"
          /\ WriteStatus(c, q, "failed")
       \/ q.kind = "uninstall" /\ UNCHANGED helm
       \/ /\ q.atomic /\ q.kind = "install"
          /\ Purge(q)
       \/ /\ q.atomic /\ q.kind = "upgrade"
          /\ helm' = [helm EXCEPT ![q.release] =
                         [status |-> "deployed", revision |-> @.revision + 1]]
    /\ UNCHANGED namespaces

\* Mutant of Retry: the attempts are not counted.
RetryUncounted(c, cancelled) ==
    /\ operation[c].phase = "backoff" /\ ~cancelled
    /\ operation' = [operation EXCEPT ![c].phase = "ready"]
    /\ UNCHANGED <<helm, namespaces>>

\* The back-off delay passes, or the context is done first.
Retry(c, cancelled) ==
    /\ operation[c].phase = "backoff" /\ ~cancelled
    /\ operation' = [operation EXCEPT ![c].phase = "ready",
                                      ![c].attempt = @ + 1]
    /\ UNCHANGED <<helm, namespaces>>

GiveUp(c, cancelled) ==
    /\ operation[c].phase = "backoff" /\ cancelled
    /\ Moved(c, "failed")
    /\ UNCHANGED <<helm, namespaces>>

\* The adapter's method returns to its caller.
HelmReturns(c) ==
    /\ operation' = [operation EXCEPT ![c] = FreshOperation]
    /\ UNCHANGED <<helm, namespaces>>

HelmStep(c, q, cancelled) ==
    \/ SetupFails(c)
    \/ AttemptRefused(c, q, cancelled)
    \/ DryRun(c, q)
    \/ BeginInstall(c, q, cancelled)
    \/ BeginUpgrade(c, q, cancelled)
    \/ BeginRollback(c, q)
    \/ BeginUninstall(c, q)
    \/ Complete(c, q)
    \/ Break(c, q, cancelled)
    \/ Retry(c, cancelled)
    \/ GiveUp(c, cancelled)
=============================================================================
