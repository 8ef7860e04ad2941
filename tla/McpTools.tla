------------------------------ MODULE McpTools ------------------------------
(***************************************************************************)
(* The requests the chart tools of internal/adapters/mcp/handler.go make,  *)
(* by the arguments that matter: which operation, on which release, with   *)
(* which chart, through the deployment service (tracked) or straight to    *)
(* Helm, and the options that change what is written.  The options a tool  *)
(* does not pass on have their zero value.  replace and generate_name of   *)
(* helm_install stay at their default, false.                              *)
(***************************************************************************)
EXTENDS Naturals, ValueObjects

Installs(tracked) ==
    [kind : {"install"}, tracked : {tracked}, release : Releases,
     chart : Charts, dryRun : BOOLEAN, createNS : BOOLEAN, atomic : BOOLEAN,
     keepHistory : {FALSE}, to : {0}]

Upgrades(tracked) ==
    [kind : {"upgrade"}, tracked : {tracked}, release : Releases,
     chart : Charts, dryRun : BOOLEAN, createNS : {FALSE}, atomic : BOOLEAN,
     keepHistory : {FALSE}, to : {0}]

Rollbacks(tracked, versions) ==
    [kind : {"rollback"}, tracked : {tracked}, release : Releases,
     chart : Charts, dryRun : BOOLEAN, createNS : {FALSE}, atomic : {FALSE},
     keepHistory : {FALSE}, to : versions]

Uninstalls(tracked) ==
    [kind : {"uninstall"}, tracked : {tracked}, release : Releases,
     chart : Charts, dryRun : BOOLEAN, createNS : {FALSE}, atomic : {FALSE},
     keepHistory : BOOLEAN, to : {0}]

InstallChart   == Installs(TRUE)
UpgradeChart   == Upgrades(TRUE)
RollbackChart(versions) == Rollbacks(TRUE, versions)
UninstallChart == Uninstalls(TRUE)

HelmInstall   == Installs(FALSE)
HelmUpgrade   == Upgrades(FALSE)
HelmRollback(versions)  == Rollbacks(FALSE, versions)
HelmUninstall == Uninstalls(FALSE)

Request ==
    InstallChart \cup UpgradeChart \cup RollbackChart(Nat)
    \cup UninstallChart \cup HelmInstall \cup HelmUpgrade
    \cup HelmRollback(Nat) \cup HelmUninstall
=============================================================================
