SPECIFICATION FairSpec
CONSTANTS
    Size = 2
    Producers = {v1}
    Consumers = {jobs}
    Clearers = {coord}
    Items = {j1, j2, j3}
    FreeFns = {free_v1, free_v2}
    None = None
INVARIANTS
    TypeOK
    ExclusiveOwnership
    FreedAsCaptured
PROPERTIES
    ImplementsFifo
    EnqueueReturns
