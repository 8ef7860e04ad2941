------------------------------ MODULE Planner ------------------------------
(***************************************************************************)
(* How the planner turns an intent into steps                              *)
(* (internal/application/planner/service.go), as pure operators.           *)
(*                                                                         *)
(* An intent is the set of those words the planner looks for that its text *)
(* contains.  A step's UUID is its type and its application: an            *)
(* application is found once.  Descriptions, parameters and chart versions *)
(* are left out, and with them the warnings of ResolveVersion.             *)
(***************************************************************************)
EXTENDS Naturals, Sequences

App(name, keywords, persistence, ingress) ==
    [name |-> name, keywords |-> keywords,
     persistence |-> persistence, ingress |-> ingress]

Catalogue == <<
    App("prometheus", {"prometheus"}, TRUE, FALSE),
    App("grafana", {"grafana"}, TRUE, TRUE),
    App("redis", {"redis"}, TRUE, FALSE),
    App("cert-manager", {"cert-manager", "cert manager", "certmanager"},
        FALSE, FALSE),
    App("ingress-nginx", {"nginx", "ingress"}, FALSE, FALSE),
    App("istiod", {"istio"}, FALSE, FALSE),
    App("loki", {"loki"}, TRUE, FALSE),
    App("velero", {"velero"}, FALSE, FALSE),
    App("argocd", {"argocd", "argo cd"}, FALSE, TRUE)>>

\* The first of these that the text speaks of; an install otherwise.
ActionWords == <<
    [action |-> "upgrade", words |-> {"upgrade", "update"}],
    [action |-> "rollback", words |-> {"rollback", "revert"}],
    [action |-> "uninstall", words |-> {"uninstall", "remove", "delete"}]>>

Words == UNION {ActionWords[i].words : i \in DOMAIN ActionWords}
         \cup UNION {Catalogue[i].keywords : i \in DOMAIN Catalogue}

ActionOf(intent) ==
    LET named == SelectSeq(ActionWords, LAMBDA a : a.words \cap intent # {}) IN
    IF named = <<>> THEN "install" ELSE named[1].action

\* The applications found among the first n of the catalogue.
Found(intent) ==
    LET found[n \in 0 .. Len(Catalogue)] ==
            IF n = 0 THEN <<>>
            ELSE IF Catalogue[n].keywords \cap intent = {} THEN found[n-1]
            ELSE Append(found[n-1], Catalogue[n]) IN
    found

DetectApps(intent) == Found(intent)[Len(Catalogue)]

-----------------------------------------------------------------------------

StepType == {"CREATE_NAMESPACE", "INSTALL_CRDS", "CONFIGURE_STORAGE",
             "INSTALL_CHART", "UPGRADE_CHART", "ROLLBACK_CHART",
             "UNINSTALL_CHART", "CONFIGURE_INGRESS", "VALIDATE_READINESS"}
StepStatus == {"PENDING", "RUNNING", "SUCCEEDED", "FAILED", "SKIPPED"}

NewStep(type, app, dependsOn) ==
    [type |-> type, app |-> app, status |-> "PENDING", dependsOn |-> dependsOn]

NoApp == "none"
Namespace == <<"CREATE_NAMESPACE", NoApp>>

Optional(wanted, step) == IF wanted THEN <<step>> ELSE <<>>

Validated(app) == <<"INSTALL_CRDS", app.name>>
Stored(app) == <<"CONFIGURE_STORAGE", app.name>>

\* The steps of one application, given what its chart depends on.
StepsNeeding(action, app, needed) ==
    LET type == IF action = "upgrade" THEN "UPGRADE_CHART" ELSE "INSTALL_CHART"
        released == <<type, app.name>> IN
    <<NewStep("INSTALL_CRDS", app.name, {Namespace})>>
    \o Optional(app.persistence,
                NewStep("CONFIGURE_STORAGE", app.name, {Validated(app)}))
    \o <<NewStep(type, app.name, needed)>>
    \o Optional(app.ingress,
                NewStep("CONFIGURE_INGRESS", app.name, {released}))
    \o <<NewStep("VALIDATE_READINESS", app.name, {released})>>

\* Mutant of AppSteps: the chart does not wait for its storage.
AppStepsStorageApart(action, app) ==
    StepsNeeding(action, app, {Validated(app)})

\* Mutant of AppSteps: the chart depends on a storage step that is not there.
AppStepsEmptyId(action, app) ==
    StepsNeeding(action, app,
        {Validated(app), IF app.persistence THEN Stored(app) ELSE <<>>})

AppSteps(action, app) ==
    StepsNeeding(action, app,
        {Validated(app)} \cup IF app.persistence THEN {Stored(app)} ELSE {})

\* The steps when the first n applications have theirs.
Built(action, apps) ==
    LET built[n \in 0 .. Len(apps)] ==
            IF n = 0 THEN <<NewStep("CREATE_NAMESPACE", NoApp, {})>>
            ELSE built[n-1] \o AppSteps(action, apps[n]) IN
    built

BuildSteps(intent) ==
    LET apps == DetectApps(intent) IN
    Built(ActionOf(intent), apps)[Len(apps)]

BuildRollbackPlan(intent) ==
    LET apps == DetectApps(intent) IN
    [i \in DOMAIN apps |-> NewStep("ROLLBACK_CHART", apps[i].name, {})]
=============================================================================
