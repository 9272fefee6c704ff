----------------------- MODULE PublicEmbeddingsStore -----------------------
(***************************************************************************)
(* PublicEmbeddingsStore (public_embeddings_store.go), the VectorStore over *)
(* public.embeddings.  A row is the chunk it embeds: the file is not stored *)
(* but found through file_chunks, {<<file_id, chunk_id>>}, in each query.  *)
(***************************************************************************)
CONSTANT ChunkIds

VARIABLE embeddings   \* {chunk_id}

Init == embeddings = {}

Upsert(c) == embeddings' = embeddings \cup {c}

ChunksOf(fileChunks, fileIds) == {p[2] : p \in {x \in fileChunks : x[1] \in fileIds}}

DeleteByFileID(fileChunks, f) ==
    embeddings' = embeddings \ ChunksOf(fileChunks, {f})

\* What Search may return: LEFT JOIN, so without file ids the chunks of no
\* file are there too.
Searchable(fileChunks, fileIds) ==
    IF fileIds = {} THEN embeddings
                    ELSE embeddings \cap ChunksOf(fileChunks, fileIds)

\* What KeywordSearch, which needs no embedding, may return: JOIN.
KeywordSearchable(fileChunks, fileIds) ==
    {p[2] : p \in {x \in fileChunks : fileIds = {} \/ x[1] \in fileIds}}

TypeOK == embeddings \subseteq ChunkIds
=============================================================================
