CONSTANTS
    MaxVersion = 5
    Limits = {1, 2}
    MaxBatch = 2
    Start = 0
    MaxStops = 1
SPECIFICATION FairSpec
INVARIANT TypeOK
INVARIANT InOrderOnce
INVARIANT NothingSkipped
INVARIANT LossIsBounded
PROPERTY ImplementsFeed
