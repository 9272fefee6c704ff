--------------------------- MODULE PgVectorStore ---------------------------
(***************************************************************************)
(* The vectors table of PgVectorStore (pgvector_store.go), one action per  *)
(* single-statement write.  The embedding itself is left out: a row is the *)
(* chunk id it indexes and the file id it was filed under.  The table has  *)
(* no foreign key to the tables of PgFileStore.                            *)
(***************************************************************************)
EXTENDS Functions

CONSTANTS FileIds, ChunkIds

VARIABLE vectors   \* id |-> file_id

Init == vectors = <<>>

\* INSERT ... ON CONFLICT (id) DO UPDATE.
Upsert(c, f) ==
    vectors' = [x \in DOMAIN vectors \cup {c} |->
                   IF x = c THEN f ELSE vectors[x]]

VectorsOf(f) == {c \in DOMAIN vectors : vectors[c] = f}

DeleteByFileID(f) ==
    vectors' = Restrict(vectors, DOMAIN vectors \ VectorsOf(f))

\* What Search may return: SearchParams.FileIDs is not in its query.
Searchable == DOMAIN vectors

TypeOK ==
    /\ DOMAIN vectors \subseteq ChunkIds
    /\ vectors \in [DOMAIN vectors -> FileIds]
=============================================================================
