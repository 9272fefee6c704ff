\* DeleteFile against its doc comment, while the file is being ingested.
CONSTANTS
    r1 = r1
    r2 = r2
    r3 = r3
    r4 = r4
    f1 = f1
    f2 = f2
    f3 = f3
    f4 = f4
    p1 = p1
    p2 = p2
    p3 = p3
    p4 = p4
    Requests = {r1}
    Deletions = {x1}
    Files = {f1}
    Paths = {p1}
    FileOf <- OneFile
    PathOf <- OnePath
    KindOf <- AllTexts
    EnableRAG <- Always
    CustomChunker <- Never
    MaxPieces = 1
    Faults = {}
    AwaitIngestion = FALSE

SPECIFICATION Spec
INVARIANT DeletedFileHasNoVectors
