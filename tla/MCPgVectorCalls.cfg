\* Two callers of one store, any two calls with batches of up to two items.
CONSTANTS
    Callers = {c1, c2}
    ChunkIds = {k1, k2}
    FileIds = {f1, f2}
    s1 = s1
    s2 = s2
    Stores = {s1, s2}
    Dims = {3, 4}
    DimOf <- TwoDims
    StoreOf <- AllOnS1
    PoolSize = 2
    MaxBatch = 2
    MaxCalls = 1
    Overlap = FALSE

SPECIFICATION FairSpec
INVARIANT TypeOK
INVARIANT OneDimension
PROPERTY KeepsContract
PROPERTY CallsReturn
