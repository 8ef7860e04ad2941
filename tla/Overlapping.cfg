SPECIFICATION Spec
CONSTANTS
    c1 = c1
    c2 = c2
    c3 = c3
    r1 = r1
    ns1 = ns1
    Ids = {c1, c2, c3}
    Calls = {c1, c2, c3}
    Releases = {r1}
    ChartNames = {"web"}
    ChartVersions = {1}
    ValidCharts <- AllCharts
    Namespaces = {ns1}
    NamespaceOf <- OneNamespace
    Attempts = 2
    Requests <- Tracked
    MaxInFlight = 3
    Faults = {"store", "kubernetes", "signal", "crash"}
    MaxRestarts = 1
SYMMETRY CallSymmetry
INVARIANTS
    TypeOK
    VersionCountsHistory
    IntentMatchesStep
    StuckOnlyByFault
    HelmRevisionsIncrease
    OneRowSucceeded
