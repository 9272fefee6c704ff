\* Nothing fails; a file each, deleted after its request has ended, and twice at once.
CONSTANTS
    r1 = r1
    r2 = r2
    r3 = r3
    r4 = r4
    f1 = f1
    f2 = f2
    f3 = f3
    f4 = f4
    p1 = p1
    p2 = p2
    p3 = p3
    p4 = p4
    Requests = {r1, r2, r3, r4}
    Deletions = {x1, x2}
    Files = {f1, f2, f3, f4}
    Paths = {p1, p2, p3, p4}
    FileOf <- OwnFiles
    PathOf <- OwnPaths
    KindOf <- MixedKinds
    EnableRAG <- Always
    CustomChunker <- OnlyR2
    MaxPieces = 2
    Faults = {}
    AwaitIngestion = TRUE

SPECIFICATION Spec
INVARIANT IngestionIsComplete
INVARIANT DeletedFileLeavesNothing
