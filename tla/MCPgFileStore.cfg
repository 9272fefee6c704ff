\* The store on its own, every method in any order.
CONSTANTS
    FileIds = {f1, f2}
    DocumentIds = {d1, d2}
    ChunkIds = {c1, c2}
    Urls = {u1}
    Segments = {t1}
    Sessions = {x1, x2}
    MaxSegments = 1

SPECIFICATION Spec
SYMMETRY IdSymmetry
INVARIANT TypeOK
INVARIANT ReferentialIntegrity
INVARIANT ChunkHasOneParent
