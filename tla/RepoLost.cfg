SPECIFICATION Spec
CONSTANTS
    c1 = c1
    c2 = c2
    Calls = {c1, c2}
    RepoNames = {1, 2}
    Urls = {"u1"}
    NoUrl = "no url"
    Requests <- RepoAdd
    MaxInFlight = 2
    Faults = {}
INVARIANTS
    AddedIsConfigured
