SPECIFICATION FairSpec
CONSTANTS
    c1 = c1
    c2 = c2
    r1 = r1
    ns1 = ns1
    Ids = {c1, c2}
    Calls = {c1, c2}
    Releases = {r1}
    ChartNames = {"web"}
    ChartVersions = {1}
    ValidCharts <- AllCharts
    Namespaces = {ns1}
    NamespaceOf <- OneNamespace
    Attempts = 2
    Requests <- OneOption
    MaxInFlight = 2
    Faults = {"store", "kubernetes", "signal"}
    MaxRestarts = 0
PROPERTIES
    CallsReturn
    RowsSettle
