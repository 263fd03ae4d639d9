CONSTANTS
    Procs = {p1, p2}
    Reqs = {r1}
    Foreign = {x}
    Keys = {k1, nk}
    NotaryKey = nk
    Notaries = {nk}
    Commands = {"prepare", "add", "notarize"}
    MayCrash = TRUE
    MaxAnswers = 0
SPECIFICATION Spec
CHECK_DEADLOCK FALSE
INVARIANT TypeOK
INVARIANT PreparedIsComplete
INVARIANT NotaryOnlySeesAnsweredIntents
INVARIANT StoredSignaturesAnswerRequests
PROPERTY PrepareStartsFresh
SYMMETRY Symmetry
