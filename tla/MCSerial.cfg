CONSTANTS
    Procs = {p1, p2}
    Reqs = {r1, r2}
    Foreign = {}
    Keys = {nk}
    NotaryKey = nk
    Notaries = {nk}
    Commands = {"prepare", "add", "notarize", "submit", "status"}
    MayCrash = TRUE
    MaxAnswers = 4
SPECIFICATION SerialSpec
CHECK_DEADLOCK FALSE
PROPERTY SignaturesKept
PROPERTY AttemptsKept
PROPERTY RefusesAfterSuccess
SYMMETRY Symmetry
