SPECIFICATION Spec
CONSTANTS
    c1 = c1
    c2 = c2
    c3 = c3
    Calls = {c1, c2, c3}
    RepoNames = {1, 2}
    Urls = {"u1", "u2"}
    NoUrl = "no url"
    Requests <- AnyRequest
    MaxInFlight = 3
    Faults = {"network", "disk", "crash"}
SYMMETRY CallSymmetry
INVARIANTS
    TypeOK
    ConfiguredHasIndex
    NothingInvented
