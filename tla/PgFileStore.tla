---------------------------- MODULE PgFileStore ----------------------------
(***************************************************************************)
(* PostgresFileStore and its ChunkStore adapter (pg_file_store.go): the    *)
(* five tables files, documents, chunks, file_chunks and document_chunks,  *)
(* and one action per method.  A method that runs one statement, or one    *)
(* transaction of inserts, is one step.  DeleteFile is two: under READ     *)
(* COMMITTED, what others commit between its DELETEs is there to the later *)
(* ones and not to the earlier.                                            *)
(*                                                                         *)
(* A table is a function from the ids of its rows, a junction table a set  *)
(* of pairs.  A text is the sequence of the pieces a chunker cuts it into; *)
(* the columns nothing depends on (names, sizes, dates, owners) are left   *)
(* out.  A foreign key is the guard of the statement that inserts; that of *)
(* documents is ON DELETE SET NULL, and file is {} in a row it has set.    *)
(***************************************************************************)
EXTENDS Naturals, Sequences, Functions

CONSTANTS FileIds,      \* ids of files rows
          DocumentIds,  \* ids of documents rows
          ChunkIds,     \* ids of chunks rows
          Urls,         \* files.url: where a file is on disk
          Segments,     \* pieces of text
          Sessions,     \* connections that run DeleteFile
          MaxSegments   \* bound: the longest document text of a run

ASSUME MaxSegmentsAssumption == MaxSegments \in Nat

VARIABLES files,        \* id |-> url and metadata.chunk_stats
          documents,    \* id |-> file_id and content
          chunks,       \* id |-> text
          fileChunks,   \* {<<file_id, chunk_id>>}
          docChunks,    \* {<<document_id, chunk_id>>}
          deleting      \* session |-> the transaction of its DeleteFile

storeVars == <<files, documents, chunks, fileChunks, docChunks, deleting>>

Statuses == {"none", "empty", "success", "custom-chunker-pending"}

ChunkStats == [count : Nat, chunking : Statuses, embedding : Statuses]

FileRows == [url : Urls, stats : ChunkStats]

\* CreateFile writes the request's metadata, which has no chunk_stats key.
NoStats == [count |-> 0, chunking |-> "none", embedding |-> "none"]

\* A value or NULL.
Optional(S) == {{}} \cup {{x} : x \in S}

DocumentRows == [file : Optional(FileIds), content : Seq(Segments)]

\* docs: the documents it has deleted, whose rows it keeps locked.
Transactions == [file : Optional(FileIds), docs : SUBSET DocumentIds]

NoTransaction == [file |-> {}, docs |-> {}]

Init ==
    /\ files = <<>>
    /\ documents = <<>>
    /\ chunks = <<>>
    /\ fileChunks = {}
    /\ docChunks = {}
    /\ deleting = [s \in Sessions |-> NoTransaction]

-----------------------------------------------------------------------------
(* Statements.                                                             *)

\* INSERT ... ON CONFLICT (id) DO UPDATE.
Put(table, id, row) ==
    [x \in DOMAIN table \cup {id} |-> IF x = id THEN row ELSE table[x]]

\* DELETE of the rows with these ids.
Drop(table, ids) == Restrict(table, DOMAIN table \ ids)

DocumentsOf(f) == {d \in DOMAIN documents : documents[d].file = {f}}

\* A statement that writes one of these rows, or inserts a reference to it,
\* waits for the transaction.
Locked == UNION {deleting[s].docs : s \in Sessions}

-----------------------------------------------------------------------------
(* FileStore.                                                              *)

CreateFile(f, url) ==
    /\ files' = Put(files, f, [url |-> url, stats |-> NoStats])
    /\ UNCHANGED <<documents, chunks, fileChunks, docChunks, deleting>>

\* Mutant: documents.file_id without REFERENCES.
CreateDocumentOfAnyFile(f) == TRUE

\* documents.file_id references files.
CanCreateDocument(f) == f \in DOMAIN files

CreateDocument(d, f, text) ==
    /\ CanCreateDocument(f)
    /\ d \notin Locked
    /\ documents' = Put(documents, d, [file |-> {f}, content |-> text])
    /\ UNCHANGED <<files, chunks, fileChunks, docChunks, deleting>>

\* Mutant: the UPDATE without its WHERE.
AppendToEveryDocument(f, text) ==
    /\ DocumentsOf(f) # {}
    /\ documents' = [d \in DOMAIN documents |->
                        [documents[d] EXCEPT !.content = @ \o text]]
    /\ UNCHANGED <<files, chunks, fileChunks, docChunks, deleting>>

\* Every document of the file is extended, not one of them.
AppendToDocument(f, text) ==
    /\ DocumentsOf(f) # {}
    /\ DocumentsOf(f) \cap Locked = {}
    /\ documents' = [d \in DOMAIN documents |->
                        IF d \in DocumentsOf(f)
                        THEN [documents[d] EXCEPT !.content = @ \o text]
                        ELSE documents[d]]
    /\ UNCHANGED <<files, chunks, fileChunks, docChunks, deleting>>

\* Mutant: an upsert in place of the UPDATE.
UpsertFileChunkStats(f, stats) ==
    /\ files' = Put(files, f, IF f \in DOMAIN files
                              THEN [files[f] EXCEPT !.stats = stats]
                              ELSE [stats |-> stats])
    /\ UNCHANGED <<documents, chunks, fileChunks, docChunks, deleting>>

\* An UPDATE of no row is no error.
UpdateFileChunkStats(f, stats) ==
    /\ files' = [x \in DOMAIN files |->
                    IF x = f THEN [files[x] EXCEPT !.stats = stats]
                             ELSE files[x]]
    /\ UNCHANGED <<documents, chunks, fileChunks, docChunks, deleting>>

\* Mutant: the chunk is inserted ON CONFLICT DO UPDATE.
CanReplaceChunk(c, fs, ds) ==
    /\ fs \subseteq DOMAIN files
    /\ ds \subseteq DOMAIN documents

\* fs and ds hold the record's FileID and DocumentID, or nothing.  The insert
\* into chunks has no ON CONFLICT; the junction rows need their parents.
CanCreateChunk(c, fs, ds) ==
    /\ c \notin DOMAIN chunks
    /\ fs \subseteq DOMAIN files
    /\ ds \subseteq DOMAIN documents

CreateChunk(c, text, fs, ds) ==
    /\ CanCreateChunk(c, fs, ds)
    /\ ds \cap Locked = {}
    /\ chunks' = Put(chunks, c, text)
    /\ fileChunks' = fileChunks \cup (fs \X {c})
    /\ docChunks' = docChunks \cup (ds \X {c})
    /\ UNCHANGED <<files, documents, deleting>>

\* The DELETEs of document_chunks, file_chunks and documents, up to where
\* the last of them has the locks it needs.
DeleteDocuments(s, f) ==
    /\ deleting[s] = NoTransaction
    /\ DocumentsOf(f) \cap Locked = {}
    /\ deleting' = [deleting EXCEPT ![s] = [file |-> {f},
                                            docs |-> DocumentsOf(f)]]
    /\ UNCHANGED <<files, documents, chunks, fileChunks, docChunks>>

\* The documents of the file that were committed since.
Late(s, f) == DocumentsOf(f) \ deleting[s].docs

\* The documents that the DELETE of the file leaves behind.
Detached(s, f) ==
    [d \in DOMAIN documents \ deleting[s].docs |->
        IF d \in Late(s, f) THEN [documents[d] EXCEPT !.file = {}]
                            ELSE documents[d]]

\* Mutant: the DELETE of document_chunks left out.
DeleteFileKeepsDocChunks(s, f) ==
    /\ deleting[s].file = {f}
    /\ documents' = Detached(s, f)
    /\ fileChunks' = {fc \in fileChunks : fc[1] # f}
    /\ files' = Drop(files, {f})
    /\ deleting' = [deleting EXCEPT ![s] = NoTransaction]
    /\ UNCHANGED <<chunks, docChunks>>

\* Mutant: the DELETE of file_chunks left out.
DeleteFileKeepsFileChunks(s, f) ==
    /\ deleting[s].file = {f}
    /\ documents' = Detached(s, f)
    /\ docChunks' = {dc \in docChunks : dc[1] \notin deleting[s].docs}
    /\ files' = Drop(files, {f})
    /\ deleting' = [deleting EXCEPT ![s] = NoTransaction]
    /\ UNCHANGED <<chunks, fileChunks>>

\* The DELETE of the file, and the COMMIT of all four.  None of them names
\* the chunks table.  Junction rows inserted since theirs was run go with
\* their parents, or their foreign keys make the transaction roll back.
DeleteFile(s, f) ==
    /\ deleting[s].file = {f}
    /\ Late(s, f) \cap Locked = {}
    /\ documents' = Detached(s, f)
    /\ docChunks' = {dc \in docChunks : dc[1] \notin deleting[s].docs}
    /\ fileChunks' = {fc \in fileChunks : fc[1] # f}
    /\ files' = Drop(files, {f})
    /\ deleting' = [deleting EXCEPT ![s] = NoTransaction]
    /\ UNCHANGED chunks

\* An error, a lost connection, or the victim of a deadlock.
RollbackDelete(s) ==
    /\ deleting[s] # NoTransaction
    /\ deleting' = [deleting EXCEPT ![s] = NoTransaction]
    /\ UNCHANGED <<files, documents, chunks, fileChunks, docChunks>>

-----------------------------------------------------------------------------
(* ChunkStore adapter: the file is the one of the chunk's document; with   *)
(* NULL there, the scan into a string fails.                               *)

CanAdapterCreateChunk(c, d) ==
    /\ d \in DOMAIN documents
    /\ documents[d].file # {}
    /\ CanCreateChunk(c, documents[d].file, {d})

AdapterCreateChunk(c, text, d) ==
    /\ d \in DOMAIN documents
    /\ documents[d].file # {}
    /\ CreateChunk(c, text, documents[d].file, {d})

-----------------------------------------------------------------------------
(* A host that calls the store directly, with any id the interface allows. *)

Texts == UNION {[1..n -> Segments] : n \in 0..MaxSegments}

Next ==
    \/ \E f \in FileIds, url \in Urls : CreateFile(f, url)
    \/ \E f \in FileIds, d \in DocumentIds, text \in Texts :
          CreateDocument(d, f, text)
    \/ \E f \in FileIds, s \in Segments :
          /\ \A d \in DocumentsOf(f) :
                Len(documents[d].content) < MaxSegments
          /\ AppendToDocument(f, <<s>>)
    \/ \E f \in FileIds, status \in Statuses :
          UpdateFileChunkStats(f, [count |-> 1, chunking |-> status,
                                   embedding |-> status])
    \/ \E c \in ChunkIds, s \in Segments, fs \in Optional(FileIds),
          ds \in Optional(DocumentIds) : CreateChunk(c, s, fs, ds)
    \/ \E c \in ChunkIds, s \in Segments, d \in DocumentIds :
          AdapterCreateChunk(c, s, d)
    \/ \E s \in Sessions, f \in FileIds : DeleteDocuments(s, f)
    \/ \E s \in Sessions, f \in FileIds : DeleteFile(s, f)
    \/ \E s \in Sessions : RollbackDelete(s)

Spec == Init /\ [][Next]_storeVars

-----------------------------------------------------------------------------
(* The tables hold rows of their types. *)
TypeOK ==
    /\ /\ DOMAIN files \subseteq FileIds
       /\ files \in [DOMAIN files -> FileRows]
    /\ /\ DOMAIN documents \subseteq DocumentIds
       /\ documents \in [DOMAIN documents -> DocumentRows]
    /\ /\ DOMAIN chunks \subseteq ChunkIds
       /\ chunks \in [DOMAIN chunks -> Segments]
    /\ fileChunks \subseteq FileIds \X ChunkIds
    /\ docChunks \subseteq DocumentIds \X ChunkIds
    /\ deleting \in [Sessions -> Transactions]

(* No statement of any method leaves a reference to a row that is not      *)
(* there, though others insert between the DELETEs of DeleteFile: it       *)
(* removes the junction rows of every document it removes, no more and no  *)
(* fewer (pg_file_store.go, DeleteFile and both CreateChunk).              *)
ReferentialIntegrity ==
    /\ \A d \in DOMAIN documents : documents[d].file \subseteq DOMAIN files
    /\ \A fc \in fileChunks : fc[1] \in DOMAIN files /\ fc[2] \in DOMAIN chunks
    /\ \A dc \in docChunks :
          dc[1] \in DOMAIN documents /\ dc[2] \in DOMAIN chunks

(* GetChunksByIDs joins chunks with file_chunks and keeps one row of the   *)
(* join per chunk: a chunk that two files share would report either.       *)
ChunkHasOneParent ==
    /\ \A p, q \in fileChunks : p[2] = q[2] => p = q
    /\ \A p, q \in docChunks : p[2] = q[2] => p = q
=============================================================================
