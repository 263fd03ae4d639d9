CONSTANTS
    Procs = {p1, p2}
    Reqs = {r1}
    Foreign = {}
    Keys = {nk}
    NotaryKey = nk
    Notaries = {nk}
    Commands = {"prepare", "add", "notarize", "submit", "status"}
    MayCrash = FALSE
    MaxAnswers = 5
SPECIFICATION Spec
CHECK_DEADLOCK FALSE
PROPERTY RefusesAfterSuccess
