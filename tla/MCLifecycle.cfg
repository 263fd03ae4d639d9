CONSTANTS
    Calls = {c1, c2}
    Manifests = {m}
    Shared = {s}
    MaxEpoch = 2
    MaxRetries = 1
SPECIFICATION FairSpec
CHECK_DEADLOCK FALSE
INVARIANT TypeOK
INVARIANT VerdictsAreTrue
INVARIANT NothingSentUnannounced
INVARIANT NothingSentTooEarly
PROPERTY VerdictIsHeard
PROPERTY KeepsPromise
