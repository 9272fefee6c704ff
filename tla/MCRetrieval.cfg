SPECIFICATION Spec
CONSTANTS
    f1 = f1  f2 = f2
    c1 = c1  c2 = c2  p1 = p1
    FileIds = {f1, f2}
    ChunkIds = {c1, c2}
    Refreshers = {refresher}
    FileOf <- FileOfChunk
    ParentIds = {p1}
    ParentOf <- ParentOfChunk
    Deletable = {f1}
    Wanted <- AnyFileOrF1
    Limits = {1, 2}
    Oversample = 1
    MinCandidates = 1
CHECK_DEADLOCK FALSE
INVARIANT TypeOK
INVARIANT DeletedTextNotFound
INVARIANT FusionRespectsRanks
INVARIANT ResultsStayInScope
PROPERTY SubRetrieversEnd
