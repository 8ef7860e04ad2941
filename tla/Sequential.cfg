SPECIFICATION Spec
CONSTANTS
    c1 = c1
    c2 = c2
    c3 = c3
    c4 = c4
    r1 = r1
    ns1 = ns1
    Ids = {c1, c2, c3, c4}
    Calls = {c1, c2, c3, c4}
    Releases = {r1}
    ChartNames = {"web", "oci"}
    ChartVersions = {1}
    ValidCharts <- ChartsWithRepository
    Namespaces = {ns1}
    NamespaceOf <- OneNamespace
    Attempts = 1
    Requests <- TrackedAnyChart
    MaxInFlight = 1
    Faults = {"store", "crash"}
    MaxRestarts = 1
SYMMETRY CallSymmetry
INVARIANTS
    StoredRevisionIsCurrent
PROPERTIES
    FollowsLifecycle
    PublishedSuccessIsStored
