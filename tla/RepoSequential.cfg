SPECIFICATION Spec
CONSTANTS
    c1 = c1
    c2 = c2
    c3 = c3
    c4 = c4
    Calls = {c1, c2, c3, c4}
    RepoNames = {1, 2}
    Urls = {"u1", "u2"}
    NoUrl = "no url"
    Requests <- Changes
    MaxInFlight = 1
    Faults = {"network"}
SYMMETRY CallSymmetry
INVARIANTS
    IndexIsCurrent
PROPERTIES
    FollowsBook
