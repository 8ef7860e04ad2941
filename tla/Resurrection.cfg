SPECIFICATION FairSpec
CONSTANTS
    c1 = c1
    c2 = c2
    c3 = c3
    r1 = r1
    ns1 = ns1
    Ids = {c1, c2, c3}
    Calls = {c1, c2, c3}
    Releases = {r1}
    ChartNames = {"web"}
    ChartVersions = {1}
    ValidCharts <- AllCharts
    Namespaces = {ns1}
    NamespaceOf <- OneNamespace
    Attempts = 1
    Requests <- TrackedAtomic
    MaxInFlight = 2
    Faults = {}
    MaxRestarts = 0
PROPERTIES
    DeletedForGood
