\* Every operation may fail, and either file may be deleted meanwhile.
CONSTANTS
    r1 = r1
    r2 = r2
    r3 = r3
    r4 = r4
    f1 = f1
    f2 = f2
    f3 = f3
    f4 = f4
    p1 = p1
    p2 = p2
    p3 = p3
    p4 = p4
    Requests = {r1, r3}
    Deletions = {x1}
    Files = {f1, f3}
    Paths = {p1, p3}
    FileOf <- OwnFiles
    PathOf <- OwnPaths
    KindOf <- MixedKinds
    EnableRAG <- Always
    CustomChunker <- OnlyR1
    MaxPieces = 1
    Faults = {"load", "getInfo", "createFile", "createDocument", "describe", "append", "createChunk", "getDocument", "embed", "upsert", "stats", "getFile", "deleteVectors", "deleteRows", "deleteDisk"}
    AwaitIngestion = FALSE

SPECIFICATION Spec
INVARIANT TypeOK
INVARIANT SuccessIsOfSavedChunks
INVARIANT DeletedFileStaysGone
INVARIANT TextStaysWithItsFile
PROPERTY KeepsContract
