------------------------- MODULE MCDeploymentService -------------------------
(***************************************************************************)
(* Instances of DeploymentService for TLC: one release in one namespace,   *)
(* and for each run the requests it is about.  The default arguments of    *)
(* the tools (no dry run, create the namespace, atomic) apply unless a     *)
(* definition says otherwise.                                              *)
(***************************************************************************)
EXTENDS DeploymentService, TLC

AllCharts == Charts

\* An OCI chart has no repository, and New takes every chart for one that
\* needs it.
ChartsWithRepository == {chart \in Charts : chart.name # "oci"}
OneNamespace == [r \in Releases |-> CHOOSE n \in Namespaces : TRUE]

Real(requests) == {q \in requests : ~q.dryRun}

\* The namespace is created with the release, and an uninstall purges it.
Plain(requests) ==
    {q \in requests : ~q.keepHistory /\ (q.kind = "install" => q.createNS)}

\* Real requests of the tracked tools; rollbacks go to the previous revision.
Tracked ==
    Real(Plain(InstallChart \cup UpgradeChart \cup RollbackChart({0})
               \cup UninstallChart))
TrackedAtomic ==
    {q \in Tracked : q.kind \in {"install", "upgrade"} => q.atomic}

\* Installs and upgrades also name charts that New refuses; their options
\* are then at the default.
TrackedAnyChart ==
    {q \in Tracked :
        \/ q.chart \in ValidCharts
        \/ q.kind \in {"install", "upgrade"} /\ q.atomic}

\* Every option of every tool, and rollbacks to a given revision.
AnyOption ==
    InstallChart \cup UpgradeChart \cup RollbackChart({0, 1})
    \cup UninstallChart \cup HelmInstall \cup HelmUpgrade
    \cup HelmRollback({0, 1}) \cup HelmUninstall

\* At most one option differs from the tool's default.
OneOption ==
    {q \in AnyOption :
        LET differs == <<q.dryRun, q.kind = "install" /\ ~q.createNS,
                         q.kind \in {"install", "upgrade"} /\ ~q.atomic,
                         q.keepHistory, q.to = 1>> IN
        \A i, j \in 1..5 : differs[i] /\ differs[j] => i = j}

CallSymmetry == Permutations(Calls)
=============================================================================
