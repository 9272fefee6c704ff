--------------------------- MODULE MCPgFileStore ---------------------------
(* PgFileStore for TLC: the ids are interchangeable, and so are sessions. *)
EXTENDS PgFileStore, TLC

IdSymmetry == Permutations(FileIds) \cup Permutations(DocumentIds)
                \cup Permutations(ChunkIds) \cup Permutations(Sessions)
=============================================================================
