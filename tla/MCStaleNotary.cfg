CONSTANTS
    Procs = {p1}
    Reqs = {r1}
    Foreign = {}
    Keys = {k1, nk}
    NotaryKey = nk
    Notaries = {nk}
    Commands = {"prepare", "add", "notarize", "submit", "status"}
    MayCrash = FALSE
    MaxAnswers = 2
SPECIFICATION Spec
CHECK_DEADLOCK FALSE
INVARIANT BroadcastIsWhatNotarySigned
