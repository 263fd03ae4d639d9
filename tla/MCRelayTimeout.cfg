CONSTANTS
    a = a
    b = b
    c = c
    d = d
    e = e
    Interactions = {a, b}
    Earlier = {c}
    DApps = {d, e}
    DAppOf <- MCDAppOf
    Error = Error
    Garbage = Garbage
SPECIFICATION FairSpec
PROPERTY TimeoutEndsRequest
