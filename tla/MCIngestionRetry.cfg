\* A text and an image under one FileID, and two deletions; upserts and row deletions may fail.
CONSTANTS
    r1 = r1
    r2 = r2
    r3 = r3
    r4 = r4
    f1 = f1
    f2 = f2
    f3 = f3
    f4 = f4
    p1 = p1
    p2 = p2
    p3 = p3
    p4 = p4
    Requests = {r1, r3}
    Deletions = {x1, x2}
    Files = {f1}
    Paths = {p1, p3}
    FileOf <- OneFile
    PathOf <- OwnPaths
    KindOf <- MixedKinds
    EnableRAG <- Always
    CustomChunker <- Never
    MaxPieces = 1
    Faults = {"upsert", "deleteRows"}
    AwaitIngestion = FALSE

SPECIFICATION FairSpec
INVARIANT StoresAgree
INVARIANT ListedFileIsOnDisk
PROPERTY CallsReturn
