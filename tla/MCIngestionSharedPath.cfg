\* A request, its retry, and a deletion between them.
CONSTANTS
    r1 = r1
    r2 = r2
    r3 = r3
    r4 = r4
    f1 = f1
    f2 = f2
    f3 = f3
    f4 = f4
    p1 = p1
    p2 = p2
    p3 = p3
    p4 = p4
    Requests = {r1, r2}
    Deletions = {x1}
    Files = {f1}
    Paths = {p1}
    FileOf <- OneFile
    PathOf <- OnePath
    KindOf <- AllTexts
    EnableRAG <- Never
    CustomChunker <- Never
    MaxPieces = 1
    Faults = {}
    AwaitIngestion = FALSE

SPECIFICATION Spec
INVARIANT UrlIsOnDisk
