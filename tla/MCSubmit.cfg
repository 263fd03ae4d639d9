CONSTANTS
    Procs = {p1, p2}
    Reqs = {r1}
    Foreign = {}
    Keys = {nk}
    NotaryKey = nk
    Notaries = {nk}
    Commands = {"prepare", "add", "notarize", "submit", "status"}
    MayCrash = TRUE
    MaxAnswers = 3
SPECIFICATION Spec
CHECK_DEADLOCK FALSE
INVARIANT BroadcastIsAuthorized
INVARIANT RecordIsTrue
PROPERTY KeepsAuthority
SYMMETRY Symmetry
