----------------------------- MODULE Ingestion -----------------------------
(***************************************************************************)
(* Processor.ProcessFile and Processor.DeleteFile (processor.go) with      *)
(* RAGProcessor.ProcessFile (rag_processor.go), over one PgFileStore and   *)
(* one PgVectorStore.  Every request and every deletion is a goroutine of  *)
(* its own; a step is one call on a store, on the disk or on an embedder,  *)
(* and the steps of all of them interleave.  No transaction spans two      *)
(* calls, and the one of DeleteFile is itself two steps (PgFileStore).     *)
(*                                                                         *)
(* The uuid a call draws is named by the call: a document by its request,  *)
(* a chunk by its request, the pass that makes it and its index.  A piece  *)
(* of text is named by the request whose file it was extracted from.  The  *)
(* path of that file is the host's choice, and two requests may name one.  *)
(***************************************************************************)
EXTENDS Naturals, Sequences, Functions, FiniteSets

CONSTANTS Requests,        \* calls of ProcessFile
          Deletions,       \* calls of DeleteFile
          Files,           \* Request.FileID values
          Paths,           \* Request.FilePath values
          FileOf,          \* the FileID of a request
          PathOf,          \* its FilePath
          KindOf,          \* the type its file is detected as
          EnableRAG,       \* Request.EnableRAG
          CustomChunker,   \* whether its Processor has Config.Chunker
          MaxPieces,       \* bound: pieces a text file is parsed into
          Faults,          \* the operations that may fail in this run
          AwaitIngestion   \* the host deletes a file only after its requests

Kinds == {"text", "image", "video"}

ASSUME RequestsAssumption ==
    /\ FileOf \in [Requests -> Files]
    /\ PathOf \in [Requests -> Paths]
    /\ KindOf \in [Requests -> Kinds]
    /\ EnableRAG \in [Requests -> BOOLEAN]
    /\ CustomChunker \in [Requests -> BOOLEAN]
    /\ MaxPieces \in Nat
    /\ AwaitIngestion \in BOOLEAN

VARIABLES files, documents, chunks, fileChunks, docChunks, deleting,  \* PgFileStore
          vectors,   \* PgVectorStore
          disk,      \* the paths with a file on disk
          ing,       \* the state of each request
          del        \* the state of each deletion

Passes == {"custom", "rag"}

ChunkIds == Requests \X Passes \X Nat

FS == INSTANCE PgFileStore WITH
         FileIds <- Files, DocumentIds <- Requests, ChunkIds <- ChunkIds,
         Urls <- Paths, Segments <- Requests, Sessions <- Deletions,
         MaxSegments <- MaxPieces

VS == INSTANCE PgVectorStore WITH FileIds <- Files, ChunkIds <- ChunkIds

storeVars == <<files, documents, chunks, fileChunks, docChunks, deleting>>

vars == <<files, documents, chunks, fileChunks, docChunks, deleting, vectors,
          disk, ing, del>>

-----------------------------------------------------------------------------
IngestPcs == {"load", "getInfo", "createFile", "saveDocument", "describe",
              "append", "customChunk", "customStats", "getDocument",
              "statsEmpty", "saveChunk", "embed", "upsert", "stats", "done",
              "failed"}

\* pieces: the text being chunked.  i: the index of the loop over them.
\* ids: the chunks the running pass has made.  response: Response.ChunkIDs.
IngestStates == [pc : IngestPcs, pieces : Seq(Requests), i : Nat,
                 ids : Seq(ChunkIds), response : Seq(ChunkIds)]

DeletePcs == {"getFile", "deleteVectors", "deleteRows", "commitRows",
              "deleteDisk", "done", "absent", "failed"}

\* url: the URL of the file as GetFile read it, none before that.
DeleteStates == [pc : DeletePcs, file : Files, url : SUBSET Paths]

Init ==
    /\ FS!Init
    /\ VS!Init
    /\ disk = Paths
    /\ ing = [r \in Requests |-> [pc |-> "load", pieces |-> <<>>, i |-> 1,
                                  ids |-> <<>>, response |-> <<>>]]
    /\ del \in [Deletions -> [pc : {"getFile"}, file : Files, url : {{}}]]

Fails(op) == op \in Faults

Ended(r) == ing[r].pc \in {"done", "failed"}

GoTo(r, pc) == ing' = [ing EXCEPT ![r].pc = pc]

-----------------------------------------------------------------------------
(* ProcessFile: load, save the metadata, save the document.                *)

\* A text file yields any number of pieces; the loader writes one line of
\* markdown for an image or a video.
ParsedTexts(r) ==
    {[k \in 1..n |-> r] : n \in IF KindOf[r] = "text" THEN 0..MaxPieces
                                                      ELSE {1}}

LoadFile(r) ==
    /\ ing[r].pc = "load"
    /\ \/ /\ PathOf[r] \in disk
          /\ \E text \in ParsedTexts(r) :
                ing' = [ing EXCEPT ![r].pc = "getInfo", ![r].pieces = text]
       \/ /\ PathOf[r] \notin disk \/ Fails("load")
          /\ GoTo(r, "failed")
    /\ UNCHANGED <<storeVars, vectors, disk, del>>

\* saveFileMetadata looks at the file, then stores its path as the URL.
GetFileInfo(r) ==
    /\ ing[r].pc = "getInfo"
    /\ \/ PathOf[r] \in disk /\ GoTo(r, "createFile")
       \/ (PathOf[r] \notin disk \/ Fails("getInfo")) /\ GoTo(r, "failed")
    /\ UNCHANGED <<storeVars, vectors, disk, del>>

CreateFile(r) ==
    /\ ing[r].pc = "createFile"
    /\ \/ FS!CreateFile(FileOf[r], PathOf[r]) /\ GoTo(r, "saveDocument")
       \/ Fails("createFile") /\ GoTo(r, "failed") /\ UNCHANGED storeVars
    /\ UNCHANGED <<vectors, disk, del>>

\* The switch of ProcessFile, and the choice runRAG makes at its start.
AfterDocument(r) ==
    CASE KindOf[r] = "image" -> "describe"
      [] KindOf[r] = "video" -> "done"
      [] KindOf[r] = "text" /\ ~EnableRAG[r] -> "done"
      [] KindOf[r] = "text" /\ EnableRAG[r] /\ ~CustomChunker[r] ->
            "getDocument"
      [] OTHER -> IF ing[r].pieces = <<>> THEN "statsEmpty" ELSE "customChunk"

SaveDocument(r) ==
    /\ ing[r].pc = "saveDocument"
    /\ \/ /\ FS!CreateDocument(r, FileOf[r], ing[r].pieces)
          /\ GoTo(r, AfterDocument(r))
       \/ /\ ~FS!CanCreateDocument(FileOf[r]) \/ Fails("createDocument")
          /\ GoTo(r, "failed")
          /\ UNCHANGED storeVars
    /\ UNCHANGED <<vectors, disk, del>>

-----------------------------------------------------------------------------
(* processImageDescriptionAsync.  ProcessFile has returned by now.         *)

\* OCR and the vision model read the file; with no text from either there is
\* nothing to add.
Describe(r) ==
    /\ ing[r].pc = "describe"
    /\ \/ /\ PathOf[r] \in disk
          /\ GoTo(r, "append")
       \/ /\ PathOf[r] \notin disk \/ Fails("describe")
          /\ GoTo(r, "done")
    /\ UNCHANGED <<storeVars, vectors, disk, del>>

AppendDescription(r) ==
    /\ ing[r].pc = "append"
    /\ \/ /\ FS!AppendToDocument(FileOf[r], <<r>>)
          /\ GoTo(r, IF EnableRAG[r] THEN "getDocument" ELSE "done")
       \/ /\ FS!DocumentsOf(FileOf[r]) = {} \/ Fails("append")
          /\ GoTo(r, "done")
          /\ UNCHANGED storeVars
    /\ UNCHANGED <<vectors, disk, del>>

-----------------------------------------------------------------------------
(* runRAG with a custom chunker: its chunks are saved, never embedded.     *)

\* Mutant: the last piece left out.
AllButLastPiece(s, again, after) ==
    [s EXCEPT !.i = @ + 1,
              !.pc = IF s.i + 1 < Len(s.pieces) THEN again ELSE after]

\* The loop goes on to the next piece, or leaves for the given step.
NextPiece(s, again, after) ==
    [s EXCEPT !.i = @ + 1,
              !.pc = IF s.i < Len(s.pieces) THEN again ELSE after]

WithId(s, c) == [s EXCEPT !.ids = Append(@, c)]

CustomChunk(r) ==
    LET s == ing[r]
        c == <<r, "custom", s.i>>
        Step(t) == ing' = [ing EXCEPT
                              ![r] = NextPiece(t, "customChunk", "customStats")]
    IN  /\ s.pc = "customChunk"
        /\ \/ /\ FS!CreateChunk(c, s.pieces[s.i], {FileOf[r]}, {r})
              /\ Step(WithId(s, c))
           \/ /\ \/ ~FS!CanCreateChunk(c, {FileOf[r]}, {r})
                 \/ Fails("createChunk")
              /\ Step(s)
              /\ UNCHANGED storeVars
        /\ UNCHANGED <<vectors, disk, del>>

\* The stats call of a pass; its error is logged or dropped.
ReportStats(r, stats) ==
    \/ FS!UpdateFileChunkStats(FileOf[r], stats)
    \/ Fails("stats") /\ UNCHANGED storeVars

CustomStats(r) ==
    /\ ing[r].pc = "customStats"
    /\ ReportStats(r, [count |-> Len(ing[r].ids), chunking |-> "success",
                       embedding |-> "custom-chunker-pending"])
    /\ ing' = [ing EXCEPT ![r].pc = "getDocument",
                          ![r].response = ing[r].ids]
    /\ UNCHANGED <<vectors, disk, del>>

-----------------------------------------------------------------------------
(* RAGProcessor.ProcessFile.                                               *)

\* The content is read once; what is appended to it later is not chunked.
GetDocument(r) ==
    /\ ing[r].pc = "getDocument"
    /\ \/ /\ r \in DOMAIN documents
          /\ LET text == documents[r].content
             IN  ing' = [ing EXCEPT
                            ![r].pc = IF text = <<>> THEN "statsEmpty"
                                                     ELSE "saveChunk",
                            ![r].pieces = text, ![r].i = 1, ![r].ids = <<>>]
       \/ /\ r \notin DOMAIN documents \/ Fails("getDocument")
          /\ GoTo(r, "done")
    /\ UNCHANGED <<storeVars, vectors, disk, del>>

StatsEmpty(r) ==
    /\ ing[r].pc = "statsEmpty"
    /\ ReportStats(r, [count |-> 0, chunking |-> "empty",
                       embedding |-> "empty"])
    /\ GoTo(r, "done")
    /\ UNCHANGED <<vectors, disk, del>>

ThisChunk(r) == <<r, "rag", ing[r].i>>

NextChunk(s) == NextPiece(s, "saveChunk", "stats")

\* Mutant: no continue after a CreateChunk error.
SaveChunkGoesOn(r) ==
    LET s == ing[r]
    IN  /\ s.pc = "saveChunk"
        /\ \/ FS!AdapterCreateChunk(ThisChunk(r), s.pieces[s.i], r)
           \/ ~FS!CanAdapterCreateChunk(ThisChunk(r), r) /\ UNCHANGED storeVars
        /\ GoTo(r, "embed")
        /\ UNCHANGED <<vectors, disk, del>>

SaveChunk(r) ==
    LET s == ing[r]
    IN  /\ s.pc = "saveChunk"
        /\ \/ /\ FS!AdapterCreateChunk(ThisChunk(r), s.pieces[s.i], r)
              /\ GoTo(r, "embed")
           \/ /\ \/ ~FS!CanAdapterCreateChunk(ThisChunk(r), r)
                 \/ Fails("createChunk")
              /\ ing' = [ing EXCEPT ![r] = NextChunk(s)]
              /\ UNCHANGED storeVars
        /\ UNCHANGED <<vectors, disk, del>>

Embed(r) ==
    /\ ing[r].pc = "embed"
    /\ \/ GoTo(r, "upsert")
       \/ Fails("embed") /\ ing' = [ing EXCEPT ![r] = NextChunk(ing[r])]
    /\ UNCHANGED <<storeVars, vectors, disk, del>>

\* A failed upsert is logged, and its chunk counted with the others.
UpsertVector(r) ==
    /\ ing[r].pc = "upsert"
    /\ \/ VS!Upsert(ThisChunk(r), FileOf[r])
       \/ Fails("upsert") /\ UNCHANGED vectors
    /\ ing' = [ing EXCEPT ![r] = NextChunk(WithId(ing[r], ThisChunk(r)))]
    /\ UNCHANGED <<storeVars, disk, del>>

Outcome(ids) == IF ids = <<>> THEN "empty" ELSE "success"

\* Mutant: the pieces counted, not the chunks that were made of them.
UpdateStatsOfPieces(r) ==
    LET ids == ing[r].ids
    IN  /\ ing[r].pc = "stats"
        /\ ReportStats(r, [count |-> Len(ing[r].pieces), chunking |-> Outcome(ids),
                           embedding |-> Outcome(ids)])
        /\ ing' = [ing EXCEPT
                      ![r].pc = "done",
                      ![r].response = IF KindOf[r] = "text" /\ ~CustomChunker[r]
                                      THEN ids ELSE @]
        /\ UNCHANGED <<vectors, disk, del>>

\* runRAG returns the ids to ProcessFile unless a custom chunker made its own;
\* an image's response was sent long ago.
UpdateStats(r) ==
    LET ids == ing[r].ids
    IN  /\ ing[r].pc = "stats"
        /\ ReportStats(r, [count |-> Len(ids), chunking |-> Outcome(ids),
                           embedding |-> Outcome(ids)])
        /\ ing' = [ing EXCEPT
                      ![r].pc = "done",
                      ![r].response = IF KindOf[r] = "text" /\ ~CustomChunker[r]
                                      THEN ids ELSE @]
        /\ UNCHANGED <<vectors, disk, del>>

-----------------------------------------------------------------------------
(* Processor.DeleteFile.                                                   *)

DelGoTo(x, pc) == del' = [del EXCEPT ![x].pc = pc]

\* A host that awaits ingestion calls when no request can touch the file.
MayDelete(f) ==
    AwaitIngestion => \A r \in Requests : FileOf[r] = f => Ended(r)

\* Mutant: the vectors are left to the store.
GetFileSkipsVectors(x) ==
    /\ del[x].pc = "getFile"
    /\ MayDelete(del[x].file)
    /\ \/ /\ del[x].file \in DOMAIN files
          /\ del' = [del EXCEPT ![x].pc = "deleteRows",
                                ![x].url = {files[del[x].file].url}]
       \/ del[x].file \notin DOMAIN files /\ DelGoTo(x, "absent")
    /\ UNCHANGED <<storeVars, vectors, disk, ing>>

GetFile(x) ==
    /\ del[x].pc = "getFile"
    /\ MayDelete(del[x].file)
    /\ \/ /\ del[x].file \in DOMAIN files
          /\ del' = [del EXCEPT ![x].pc = "deleteVectors",
                                ![x].url = {files[del[x].file].url}]
       \/ del[x].file \notin DOMAIN files /\ DelGoTo(x, "absent")
       \/ Fails("getFile") /\ DelGoTo(x, "failed")
    /\ UNCHANGED <<storeVars, vectors, disk, ing>>

\* A failure is a warning; the deletion goes on.
DeleteVectors(x) ==
    /\ del[x].pc = "deleteVectors"
    /\ \/ VS!DeleteByFileID(del[x].file)
       \/ Fails("deleteVectors") /\ UNCHANGED vectors
    /\ DelGoTo(x, "deleteRows")
    /\ UNCHANGED <<storeVars, disk, ing>>

DeleteRows(x) ==
    /\ del[x].pc = "deleteRows"
    /\ \/ FS!DeleteDocuments(x, del[x].file) /\ DelGoTo(x, "commitRows")
       \/ Fails("deleteRows") /\ DelGoTo(x, "failed") /\ UNCHANGED storeVars
    /\ UNCHANGED <<vectors, disk, ing>>

\* The DELETE of the file in one waits for a document that the other holds.
WaitsFor(x, y) == FS!Late(x, del[x].file) \cap deleting[y].docs # {}

\* Two deletions of one file may each wait for the other, the one for a late
\* document, the other for the file; either is rolled back.
MayRollBack(x) ==
    \/ Fails("deleteRows")
    \/ \E y \in Deletions : /\ del[y].pc = "commitRows" /\ del[y].file = del[x].file
                            /\ WaitsFor(x, y) \/ WaitsFor(y, x)

\* Mutant: this failure, too, is a warning.
CommitRowsWarns(x) ==
    /\ del[x].pc = "commitRows"
    /\ \/ FS!DeleteFile(x, del[x].file)
       \/ MayRollBack(x) /\ FS!RollbackDelete(x)
    /\ DelGoTo(x, "deleteDisk")
    /\ UNCHANGED <<vectors, disk, ing>>

\* Mutant: no Rollback deferred.
CommitRowsLeftOpen(x) ==
    /\ del[x].pc = "commitRows"
    /\ \/ FS!DeleteFile(x, del[x].file) /\ DelGoTo(x, "deleteDisk")
       \/ MayRollBack(x) /\ DelGoTo(x, "failed") /\ UNCHANGED storeVars
    /\ UNCHANGED <<vectors, disk, ing>>

CommitRows(x) ==
    /\ del[x].pc = "commitRows"
    /\ \/ FS!DeleteFile(x, del[x].file) /\ DelGoTo(x, "deleteDisk")
       \/ MayRollBack(x) /\ FS!RollbackDelete(x) /\ DelGoTo(x, "failed")
    /\ UNCHANGED <<vectors, disk, ing>>

DeleteDisk(x) ==
    /\ del[x].pc = "deleteDisk"
    /\ \/ disk' = disk \ del[x].url
       \/ Fails("deleteDisk") /\ UNCHANGED disk
    /\ DelGoTo(x, "done")
    /\ UNCHANGED <<storeVars, vectors, ing>>

-----------------------------------------------------------------------------
(* The steps a started request, or deletion, takes to its end. *)
Ingest(r) ==
    \/ GetFileInfo(r) \/ CreateFile(r) \/ SaveDocument(r)
    \/ Describe(r) \/ AppendDescription(r)
    \/ CustomChunk(r) \/ CustomStats(r)
    \/ GetDocument(r) \/ StatsEmpty(r)
    \/ SaveChunk(r) \/ Embed(r) \/ UpsertVector(r) \/ UpdateStats(r)

Delete(x) ==
    DeleteVectors(x) \/ DeleteRows(x) \/ CommitRows(x) \/ DeleteDisk(x)

\* Every call has returned.
Finished ==
    /\ \A r \in Requests : Ended(r)
    /\ \A x \in Deletions : del[x].pc \in {"done", "absent", "failed"}
    /\ UNCHANGED vars

Next ==
    \/ \E r \in Requests : LoadFile(r) \/ Ingest(r)
    \/ \E x \in Deletions : GetFile(x) \/ Delete(x)
    \/ Finished

Spec == Init /\ [][Next]_vars

\* ProcessFile returns before an image is described.
Returned(r) ==
    \/ Ended(r)
    \/ /\ KindOf[r] = "image"
       /\ ing[r].pc \notin {"load", "getInfo", "createFile", "saveDocument"}

\* A call that has started goes on until it returns: its context ends a step
\* that takes too long.  The description of an image has no such context
\* (context.Background(), processor.go:261), and may take no further step.
FairSpec ==
    /\ Spec
    /\ \A r \in Requests : WF_vars(~Returned(r) /\ Ingest(r))
    /\ \A x \in Deletions : WF_vars(Delete(x))

-----------------------------------------------------------------------------
(* What FileContract speaks of.                                            *)

\* A search goes from vectors to chunks, and to the file that a chunk is
\* joined with, if any.
Piece(c) == [file |-> {f \in Files : <<f, c>> \in fileChunks},
             chunk |-> c, text |-> chunks[c]]

Findable == {Piece(c) : c \in DOMAIN vectors}

\* A deletion that has found its file knows its URL.
Asked == {del[x].file : x \in {y \in Deletions : del[y].url # {}}}

Contract == INSTANCE FileContract WITH
               SourceOf <- FileOf,
               listed <- DOMAIN files, found <- Findable, asked <- Asked

-----------------------------------------------------------------------------
(* Every variable holds values of its type. *)
TypeOK ==
    /\ FS!TypeOK
    /\ VS!TypeOK
    /\ disk \subseteq Paths
    /\ ing \in [Requests -> IngestStates]
    /\ del \in [Deletions -> DeleteStates]

(* The two stores agree, whatever fails and whatever interleaves: no       *)
(* dangling reference; a vector names a chunk row; a chunk's junction      *)
(* rows, its document and its vector all name the same file, unless the    *)
(* document has none.  A search                                            *)
(* reads the vector's file id and then hydrates the chunk and its file     *)
(* (rag_searcher.go), so a disagreement would attribute text to another    *)
(* file.                                                                   *)
StoresAgree ==
    /\ FS!ReferentialIntegrity
    /\ DOMAIN vectors \subseteq DOMAIN chunks
    /\ \A fc \in fileChunks : fc[2] \in DOMAIN vectors => vectors[fc[2]] = fc[1]
    /\ \A fc \in fileChunks, dc \in docChunks :
          fc[2] = dc[2] => documents[dc[1]].file \subseteq {fc[1]}

(* Text stays with the file it was extracted from, in documents and in     *)
(* chunks, though AppendToDocument finds its documents by file id, in a    *)
(* goroutine that outlives the request (processor.go:323).                 *)
TextStaysWithItsFile ==
    /\ \A d \in DOMAIN documents :
          \A k \in DOMAIN documents[d].content :
             FileOf[documents[d].content[k]] = FileOf[d]
    /\ \A c \in DOMAIN chunks : FileOf[chunks[c]] = FileOf[c[1]]

(* When nothing fails, an ended request has indexed every piece of its     *)
(* document, an image's description included; its stats say so, and its    *)
(* response lists the chunks in order; until the deletion of its own file  *)
(* begins: other deletions take nothing away.                              *)
IngestionIsComplete ==
    \A r \in Requests :
       /\ ing[r].pc = "done" /\ EnableRAG[r] /\ KindOf[r] # "video"
       /\ \A x \in Deletions :
             del[x].file = FileOf[r] => del[x].pc \in {"getFile", "absent"}
       => LET text == documents[r].content
          IN  /\ KindOf[r] = "image" => text = <<r, r>>
              /\ \A k \in DOMAIN text :
                    /\ <<r, "rag", k>> \in DOMAIN vectors
                    /\ chunks[<<r, "rag", k>>] = text[k]
              /\ files[FileOf[r]].stats = [count |-> Len(text),
                                           chunking |-> Outcome(text),
                                           embedding |-> Outcome(text)]
              /\ KindOf[r] = "text" =>
                    ing[r].response =
                       [k \in DOMAIN text |->
                          <<r, IF CustomChunker[r] THEN "custom" ELSE "rag", k>>]

RagChunksOf(f) == {fc \in fileChunks : fc[1] = f /\ fc[2][2] = "rag"}

(* Whatever fails, a file marked "success" counts no chunk that was not    *)
(* saved under it, and leaves out none that a search can find; when each   *)
(* request has a FileID of its own (RAGProcessor.ProcessFile counts a      *)
(* chunk whose upsert failed, rag_processor.go:136, and DeleteFile takes   *)
(* the vectors before the rows).                                           *)
SuccessIsOfSavedChunks ==
    \A f \in DOMAIN files :
       files[f].stats.embedding = "success" =>
          /\ Cardinality(VS!VectorsOf(f)) <= files[f].stats.count
          /\ files[f].stats.count <= Cardinality(RagChunksOf(f))

(* Once DeleteFile has removed the rows of a file that no later request    *)
(* names, a request still at work on it can bring none of them back: a     *)
(* document that slipped past belongs to no file, and no chunk that a      *)
(* search would attribute to the file is made from it.                     *)
DeletedFileStaysGone ==
    \A x \in Deletions : del[x].pc \in {"deleteDisk", "done"} =>
       /\ del[x].file \notin DOMAIN files
       /\ \A d \in DOMAIN documents :
             FileOf[d] = del[x].file => documents[d].file = {}
       /\ \A fc \in fileChunks : FileOf[fc[2][1]] # del[x].file

(* A file the store lists is on disk when one request alone names its     *)
(* path: the copy goes last, and the copy that goes is never one that a    *)
(* retry under the same FileID has put elsewhere (DeleteFile read the URL  *)
(* before it deleted anything).                                            *)
ListedFileIsOnDisk ==
    \A f \in DOMAIN files :
       files[f].url \notin disk =>
          \E q, r \in Requests :
             q # r /\ PathOf[q] = files[f].url /\ PathOf[r] = files[f].url

(* "URL is the location of the file on disk" (types.go:22), whatever the   *)
(* paths that requests name.                                               *)
UrlIsOnDisk == \A f \in DOMAIN files : files[f].url \in disk

(* "DeleteFile removes a file and all associated data from the store and   *)
(* the vector index" (processor.go:154): when it returns nil after finding *)
(* the file, no vector of the file is left.                                *)
DeletedFileHasNoVectors ==
    \A x \in Deletions : del[x].pc = "done" => VS!VectorsOf(del[x].file) = {}

(* A host that awaits the ingestion of a file before it deletes it, twice  *)
(* or at once if it likes, leaves no document and no vector of the file.   *)
DeletedFileLeavesNothing ==
    \A x \in Deletions : del[x].pc = "done" =>
       /\ VS!VectorsOf(del[x].file) = {}
       /\ \A d \in DOMAIN documents : FileOf[d] # del[x].file

(* The two stores, written by calls that no transaction spans, keep one    *)
(* promise between them: see FileContract (Processor.ProcessFile and       *)
(* Processor.DeleteFile).                                                  *)
KeepsContract == Contract!Spec

(* Every call that gets under way returns, so that at some time none is    *)
(* left: ProcessFile, which a deletion of the same file makes wait for its *)
(* transaction, and of two deletions both, though each may wait for the    *)
(* other.                                                                  *)
CallsReturn ==
    <>[](/\ \A r \in Requests : ing[r].pc = "load" \/ Returned(r)
         /\ \A x \in Deletions :
               del[x].pc \in {"getFile", "absent", "done", "failed"})
=============================================================================
