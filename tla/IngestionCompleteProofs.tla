---------------------- MODULE IngestionCompleteProofs ----------------------
(***************************************************************************)
(* What ingestion leaves behind, for any number of requests, files and     *)
(* deletions, when every request has a FileID of its own.                  *)
(*                                                                         *)
(* A request then shares nothing with another but the tables, and a        *)
(* deletion of another file touches none of its rows: Kept(q) says so, and *)
(* the first two sections prove it of every step of anyone else.  What is  *)
(* left is the request alone.  CountInv follows the ids it collects: those *)
(* of the chunks it has saved, and among them those of every vector of its *)
(* file.  CompleteInv follows, while no deletion of the file has begun and *)
(* nothing fails, the rows, the pieces, the chunks and the vectors that    *)
(* each step of the request relies on.                                     *)
(***************************************************************************)
EXTENDS IngestionDeleteProofs, FunctionTheorems, FiniteSetTheorems

\* Deletions keep locked only documents of their own file.
LocksInv ==
    \A x \in Deletions : \A d \in deleting[x].docs :
       del[x].pc = "commitRows" /\ FileOf[d] = del[x].file

\* Hosts that never name a path twice.
OwnPaths == \A r, s \in Requests : PathOf[r] = PathOf[s] => r = s

\* No deletion of the file has begun.
Quiet(f) ==
    \A x \in Deletions : del[x].file = f => del[x].pc \in {"getFile", "absent"}

\* The first steps of a request, and those up to the pass of RAGProcessor.
EarlyPcs == FirstPcs \cup {"describe", "append"}

BeforeRagPcs == EarlyPcs \cup {"customChunk", "customStats", "getDocument"}

RagPcs == {"saveChunk", "embed", "upsert", "stats"}

-----------------------------------------------------------------------------
(* The invariant for SuccessIsOfSavedChunks.                               *)

\* The ids a request has collected are distinct, and of one pass.
IdsInv(r) ==
    LET s == ing[r]
    IN  /\ s.pc \in EarlyPcs => s.ids = <<>>
        /\ \A j, k \in DOMAIN s.ids : s.ids[j] = s.ids[k] => j = k
        /\ \A k \in DOMAIN s.ids :
              /\ s.ids[k][1] = r
              /\ s.pc \in LoopPcs => s.ids[k][3] < s.i
              /\ s.pc \in BeforeRagPcs => s.ids[k][2] = "custom"
              /\ s.pc \in RagPcs => s.ids[k][2] = "rag"

\* The chunks of the second pass among them.
Embedded(r) == {c \in Range(ing[r].ids) : c[2] = "rag"}

\* No vector of its file is of another chunk.
VectorsInv(r) == VS!VectorsOf(FileOf[r]) \subseteq Embedded(r)

\* They are saved under the file, as long as it is there.
SavedInv(r) ==
    FileOf[r] \in DOMAIN files =>
       /\ \A c \in Embedded(r) : <<FileOf[r], c>> \in fileChunks
       /\ ing[r].pc \in {"embed", "upsert"} =>
             <<FileOf[r], ThisChunk(r)>> \in fileChunks

SuccessOf(f, r) ==
    /\ FileOf[r] = f /\ ing[r].pc = "done"
    /\ files[f].stats.count = Len(ing[r].ids)
    /\ \A k \in DOMAIN ing[r].ids : ing[r].ids[k][2] = "rag"

CountInv ==
    /\ IsFiniteSet(fileChunks)
    /\ \A r \in Requests : IdsInv(r) /\ VectorsInv(r) /\ SavedInv(r)
    /\ \A f \in DOMAIN files :
          files[f].stats.embedding = "success" =>
             \E r \in Requests : SuccessOf(f, r)

-----------------------------------------------------------------------------
(* The invariant for IngestionIsComplete.                                  *)

\* A request has made no chunk that its loops have yet to make.
FreshInv(r) ==
    \A c \in DOMAIN chunks : c[1] = r =>
       /\ c[2] \in Passes
       /\ ing[r].pc \notin EarlyPcs
       /\ ing[r].pc = "customChunk" => c[2] = "custom" /\ c[3] < ing[r].i
       /\ c[2] = "rag" =>
             /\ ing[r].pc \notin BeforeRagPcs
             /\ ing[r].pc = "saveChunk" => c[3] < ing[r].i
             /\ ing[r].pc \in {"embed", "upsert"} => c[3] <= ing[r].i

Made(r, pass, n) == [k \in 1..n |-> <<r, pass, k>>]

Text(r) == documents[r].content

\* The pieces a pass is done with.
Behind(r) == IF ing[r].pc \in LoopPcs THEN ing[r].i - 1 ELSE Len(Text(r))

RowsInv(r) ==
    LET pc == ing[r].pc
    IN  /\ PathOf[r] \in disk
        /\ pc # "failed"
        /\ pc \notin {"load", "getInfo", "createFile"} => FileOf[r] \in DOMAIN files
        /\ pc \notin FirstPcs =>
              r \in DOMAIN documents /\ documents[r].file = {FileOf[r]}

TextInv(r) ==
    LET pc == ing[r].pc
    IN  /\ pc \in {"describe", "append"} => KindOf[r] = "image"
        /\ pc \in {"customChunk", "customStats"} =>
              KindOf[r] = "text" /\ CustomChunker[r]
        /\ KindOf[r] = "image" =>
              /\ pc \in FirstPcs \ {"load"} => ing[r].pieces = <<r>>
              /\ pc \in {"describe", "append"} => Text(r) = <<r>>
              /\ pc \notin EarlyPcs => Text(r) = <<r, r>>
        /\ pc \notin EarlyPcs \cup {"getDocument"} => ing[r].pieces = Text(r)
        /\ pc = "statsEmpty" => Text(r) = <<>>

\* What each pass has collected, and what ProcessFile will answer.
AnswerInv(r) ==
    LET s == ing[r]
        custom == KindOf[r] = "text" /\ CustomChunker[r]
    IN  /\ s.pc \in {"customChunk", "customStats"} =>
              s.ids = Made(r, "custom", Behind(r))
        /\ s.pc \in RagPcs => s.ids = Made(r, "rag", Behind(r))
        /\ custom /\ s.pc \notin EarlyPcs \cup {"customChunk", "customStats"} =>
              s.response = Made(r, "custom", Len(Text(r)))
        /\ s.pc \in FirstPcs => s.response = <<>> /\ s.ids = <<>>
        /\ ~custom /\ s.pc # "done" => s.response = <<>>
        /\ ~custom /\ KindOf[r] = "text" /\ s.pc = "done" =>
              s.response = Made(r, "rag", Len(Text(r)))

IndexInv(r) ==
    LET s == ing[r]
    IN  /\ s.pc \in RagPcs \cup {"done"} =>
              \A k \in 1..Behind(r) :
                 /\ <<r, "rag", k>> \in VS!VectorsOf(FileOf[r])
                 /\ chunks[<<r, "rag", k>>] = Text(r)[k]
        /\ s.pc \in {"embed", "upsert"} => chunks[ThisChunk(r)] = Text(r)[s.i]
        /\ s.pc = "done" =>
              files[FileOf[r]].stats = [count |-> Len(Text(r)),
                                        chunking |-> Outcome(Text(r)),
                                        embedding |-> Outcome(Text(r))]

Progress(r) == RowsInv(r) /\ TextInv(r) /\ AnswerInv(r) /\ IndexInv(r)

CompleteInv ==
    /\ LocksInv
    /\ \A r \in Requests : FreshInv(r)
    /\ \A r \in Requests :
          Quiet(FileOf[r]) /\ EnableRAG[r] /\ KindOf[r] # "video" => Progress(r)

USE RequestsAssumption

-----------------------------------------------------------------------------
(* The steps of a request, seen from its own state.                        *)

LEMMA Moved ==
    ASSUME IndInv, NEW r \in Requests, NEW pc, GoTo(r, pc)
    PROVE  ing'[r] = [ing[r] EXCEPT !.pc = pc] /\ ing'[r].pc = pc
           /\ ing'[r].pieces = ing[r].pieces /\ ing'[r].i = ing[r].i
           /\ ing'[r].ids = ing[r].ids /\ ing'[r].response = ing[r].response
<1>1. ing[r] \in IngestStates /\ ing \in [Requests -> IngestStates]
  BY DEF IndInv
<1> QED
  BY <1>1 DEF GoTo, IngestStates

LEMMA NextPieceMoved ==
    ASSUME IndInv, NEW r \in Requests, NEW t \in IngestStates,
           NEW again, NEW after,
           ing' = [ing EXCEPT ![r] = NextPiece(t, again, after)]
    PROVE  /\ ing'[r].pc \in {again, after}
           /\ ing'[r].pieces = t.pieces /\ ing'[r].i = t.i + 1
           /\ ing'[r].ids = t.ids /\ ing'[r].response = t.response
<1> DEFINE pc == IF t.i < Len(t.pieces) THEN again ELSE after
<1>1. NextPiece(t, again, after) = [t EXCEPT !.i = t.i + 1, !.pc = pc]
  BY DEF NextPiece
<1>2. ing'[r] = NextPiece(t, again, after)
  BY DEF IndInv
<1>0. pc \in {again, after}
  OBVIOUS
<1> HIDE DEF pc
<1>3. /\ ing'[r].pc = pc /\ ing'[r].pieces = t.pieces /\ ing'[r].i = t.i + 1
      /\ ing'[r].ids = t.ids /\ ing'[r].response = t.response
  BY <1>1, <1>2 DEF IngestStates
<1> QED
  BY <1>0, <1>3 DEF pc

LEMMA NextPieceTo ==
    ASSUME IndInv, NEW r \in Requests, NEW t \in IngestStates,
           NEW again, NEW after,
           ing' = [ing EXCEPT ![r] = NextPiece(t, again, after)]
    PROVE  ing'[r].pc = IF t.i < Len(t.pieces) THEN again ELSE after
<1> DEFINE pc == IF t.i < Len(t.pieces) THEN again ELSE after
<1>1. NextPiece(t, again, after) = [t EXCEPT !.i = t.i + 1, !.pc = pc]
  BY DEF NextPiece
<1>2. ing'[r] = NextPiece(t, again, after)
  BY DEF IndInv
<1> HIDE DEF pc
<1>3. ing'[r].pc = pc
  BY <1>1, <1>2 DEF IngestStates
<1> QED
  BY <1>3 DEF pc

LEMMA WithIdFacts ==
    ASSUME NEW s \in IngestStates, NEW c \in ChunkIds
    PROVE  /\ WithId(s, c) \in IngestStates
           /\ WithId(s, c).pieces = s.pieces /\ WithId(s, c).i = s.i
           /\ WithId(s, c).ids = Append(s.ids, c)
           /\ WithId(s, c).response = s.response
<1>1. Append(s.ids, c) \in Seq(ChunkIds)
  BY DEF IngestStates
<1> QED
  BY <1>1 DEF WithId, IngestStates

-----------------------------------------------------------------------------
(* What the steps of others leave alone.                                   *)

\* What a request relies on is as it was.
Kept(q) ==
    /\ ing'[q] = ing[q]
    /\ PathOf[q] \in disk => PathOf[q] \in disk'
    /\ FileOf[q] \in DOMAIN files =>
          FileOf[q] \in DOMAIN files' /\ files'[FileOf[q]] = files[FileOf[q]]
    /\ q \in DOMAIN documents =>
          q \in DOMAIN documents' /\ documents'[q] = documents[q]
    /\ \A c \in DOMAIN chunks : c \in DOMAIN chunks' /\ chunks'[c] = chunks[c]
    /\ \A c \in DOMAIN chunks' : c[1] = q => c \in DOMAIN chunks
    /\ VS!VectorsOf(FileOf[q])' = VS!VectorsOf(FileOf[q])

\* A step of a request changes no row of a file but its own.
OtherFilesKept(r) ==
    \A f \in Files \ {FileOf[r]} :
       /\ f \in DOMAIN files <=> f \in DOMAIN files'
       /\ f \in DOMAIN files => files'[f] = files[f]

\* What a step of a request may do to the stores.
Writes(r) ==
    /\ \/ files' = files
       \/ FS!CreateFile(FileOf[r], PathOf[r])
       \/ \E stats : FS!UpdateFileChunkStats(FileOf[r], stats)
    /\ \/ documents' = documents
       \/ FS!CreateDocument(r, FileOf[r], ing[r].pieces)
       \/ FS!AppendToDocument(FileOf[r], <<r>>)
    /\ \/ chunks' = chunks
       \/ \E p \in Passes : \E text :
             /\ <<r, p, ing[r].i>> \notin DOMAIN chunks
             /\ chunks' = FS!Put(chunks, <<r, p, ing[r].i>>, text)
    /\ \/ fileChunks' = fileChunks
       \/ \E c : fileChunks' = fileChunks \cup {<<FileOf[r], c>>}

LEMMA RequestWrites ==
    ASSUME IndInv, NEW r \in Requests, LoadFile(r) \/ Ingest(r)
    PROVE  Writes(r)
<1> USE DEF Writes
<1>1. ASSUME NEW stats, ReportStats(r, stats) PROVE Writes(r)
  BY <1>1 DEF ReportStats, FS!UpdateFileChunkStats, storeVars
<1>2. CASE LoadFile(r) \/ GetFileInfo(r) \/ Describe(r) \/ GetDocument(r)
           \/ Embed(r) \/ UpsertVector(r)
  BY <1>2 DEF LoadFile, GetFileInfo, Describe, GetDocument, Embed, UpsertVector, storeVars
<1>3. CASE CreateFile(r)
  BY <1>3 DEF CreateFile, FS!CreateFile, storeVars
<1>4. CASE SaveDocument(r)
  BY <1>4 DEF SaveDocument, FS!CreateDocument, storeVars
<1>5. CASE AppendDescription(r)
  BY <1>5 DEF AppendDescription, FS!AppendToDocument, storeVars
<1>6. CASE CustomStats(r) \/ StatsEmpty(r) \/ UpdateStats(r)
  BY <1>1, <1>6 DEF CustomStats, StatsEmpty, UpdateStats
<1>7. CASE CustomChunk(r)
  <2>1. CASE FS!CreateChunk(<<r, "custom", ing[r].i>>, ing[r].pieces[ing[r].i],
                            {FileOf[r]}, {r})
    <3>1. {FileOf[r]} \X {<<r, "custom", ing[r].i>>}
             = {<<FileOf[r], <<r, "custom", ing[r].i>>>>}
      OBVIOUS
    <3> QED
      BY <2>1, <3>1 DEF FS!CreateChunk, FS!CanCreateChunk, Passes
  <2> QED
    BY <1>7, <2>1 DEF CustomChunk, storeVars
<1>8. CASE SaveChunk(r)
  <2>1. CASE FS!AdapterCreateChunk(ThisChunk(r), ing[r].pieces[ing[r].i], r)
    <3>1. documents[r].file = {FileOf[r]}
      BY <2>1 DEF FS!AdapterCreateChunk, IndInv, StoreInv, Links
    <3>2. {FileOf[r]} \X {ThisChunk(r)} = {<<FileOf[r], ThisChunk(r)>>}
      OBVIOUS
    <3> QED
      BY <2>1, <3>1, <3>2 DEF FS!AdapterCreateChunk, FS!CreateChunk,
         FS!CanCreateChunk, Passes, ThisChunk
  <2> QED
    BY <1>8, <2>1 DEF SaveChunk, storeVars
<1> QED
  BY <1>2, <1>3, <1>4, <1>5, <1>6, <1>7, <1>8 DEF Ingest

LEMMA RequestKeepsOthers ==
    ASSUME IndInv, OwnFileIds, NEW r \in Requests, LoadFile(r) \/ Ingest(r)
    PROVE  /\ OtherFilesKept(r)
           /\ \A q \in Requests \ {r} : Kept(q)
<1>1. Effects(r) /\ Writes(r)
  BY StepEffects, RequestWrites
<1>2. OtherFilesKept(r)
  BY <1>1 DEF Writes, FS!CreateFile, FS!Put, FS!UpdateFileChunkStats,
              OtherFilesKept
<1>3. ASSUME NEW q \in Requests \ {r} PROVE Kept(q)
  <2>1. FileOf[q] # FileOf[r] /\ FileOf[q] \in Files
    BY DEF OwnFileIds
  <2>2. ing'[q] = ing[q] /\ disk' = disk
    BY <1>1 DEF Effects
  <2>3. q \in DOMAIN documents =>
           q \in DOMAIN documents' /\ documents'[q] = documents[q]
    <3>1. q \in DOMAIN documents => q \notin FS!DocumentsOf(FileOf[r])
      BY <2>1 DEF FS!DocumentsOf, IndInv, StoreInv, Links
    <3> QED
      BY <1>1, <3>1
      DEF Writes, FS!CreateDocument, FS!Put, FS!AppendToDocument
  <2>4. /\ \A c \in DOMAIN chunks : c \in DOMAIN chunks' /\ chunks'[c] = chunks[c]
        /\ \A c \in DOMAIN chunks' : c[1] = q => c \in DOMAIN chunks
    <3>1. CASE chunks' = chunks
      BY <3>1
    <3>2. ASSUME NEW p \in Passes, NEW text,
                 <<r, p, ing[r].i>> \notin DOMAIN chunks,
                 chunks' = FS!Put(chunks, <<r, p, ing[r].i>>, text)
          PROVE  /\ \A c \in DOMAIN chunks :
                       c \in DOMAIN chunks' /\ chunks'[c] = chunks[c]
                 /\ \A c \in DOMAIN chunks' : c[1] = q => c \in DOMAIN chunks
      <4> DEFINE new == <<r, p, ing[r].i>>
      <4>1. new[1] # q
        OBVIOUS
      <4> HIDE DEF new
      <4>2. chunks' = [c \in DOMAIN chunks \cup {new} |->
                          IF c = new THEN text ELSE chunks[c]]
        BY <3>2 DEF FS!Put, new
      <4> QED
        BY <3>2, <4>1, <4>2 DEF new
    <3> QED
      BY <1>1, <3>1, <3>2 DEF Writes
  <2>5. VS!VectorsOf(FileOf[q])' = VS!VectorsOf(FileOf[q])
    <3>1. ThisChunk(r) \in DOMAIN vectors =>
             vectors[ThisChunk(r)] = FileOf[r]
      BY DEF IndInv, StoreInv, Links, ThisChunk
    <3> QED
      BY <1>1, <2>1, <3>1 DEF Effects, VS!Upsert, VS!VectorsOf
  <2> QED
    BY <1>2, <2>1, <2>2, <2>3, <2>4, <2>5 DEF Kept, OtherFilesKept
<1> QED
  BY <1>2, <1>3

LEMMA DeletionKeepsOthers ==
    ASSUME OwnPaths, IndInv, DiskInv, LocksInv, NEW x \in Deletions,
           GetFile(x) \/ Delete(x), NEW q \in Requests,
           del[x].pc = "getFile" \/ FileOf[q] # del[x].file
    PROVE  Kept(q)
<1>1. CASE GetFile(x)
  BY <1>1 DEF GetFile, storeVars, Kept, VS!VectorsOf
<1>2. CASE Delete(x)
  <2>1. FileOf[q] # del[x].file
    BY <1>2, DeleteMoves
  <2>2. ing' = ing
    BY <1>2, DeleteMoves
  <2>3. CASE FS!DeleteFile(x, del[x].file) /\ UNCHANGED <<vectors, disk>>
    <3>1. /\ DOMAIN files' = DOMAIN files \ {del[x].file}
          /\ \A f \in DOMAIN files' : files'[f] = files[f]
      BY <2>3 DEF FS!DeleteFile, FS!Drop, FS!Restrict
    <3>2. ASSUME q \in DOMAIN documents
          PROVE  q \in DOMAIN documents' /\ documents'[q] = documents[q]
      <4>1. q \notin deleting[x].docs
        BY <2>1 DEF LocksInv
      <4>2. documents[q].file # {del[x].file}
        BY <2>1, <3>2 DEF IndInv, StoreInv, Links
      <4>3. q \notin FS!Late(x, del[x].file)
        BY <4>2 DEF FS!Late, FS!DocumentsOf
      <4> QED
        BY <2>3, <3>2, <4>1, <4>3 DEF FS!DeleteFile, FS!Detached
    <3>3. chunks' = chunks
      BY <2>3 DEF FS!DeleteFile
    <3> QED
      BY <2>1, <2>2, <2>3, <3>1, <3>2, <3>3 DEF Kept, VS!VectorsOf
  <2>4. CASE VS!DeleteByFileID(del[x].file) /\ UNCHANGED <<storeVars, disk>>
    <3>1. VS!VectorsOf(FileOf[q])' = VS!VectorsOf(FileOf[q])
      BY <2>1, <2>4 DEF VS!DeleteByFileID, VS!VectorsOf, VS!Restrict
    <3> QED
      BY <2>2, <2>4, <3>1 DEF Kept, storeVars
  <2>5. CASE disk' = disk \ del[x].url /\ UNCHANGED <<storeVars, vectors>>
    <3>1. PathOf[q] \notin del[x].url
      BY <2>1 DEF DiskInv, Stored, OwnPaths
    <3> QED
      BY <2>2, <2>5, <3>1 DEF Kept, storeVars, VS!VectorsOf
  <2>6. CASE UNCHANGED <<files, documents, chunks, vectors, disk>>
    BY <2>2, <2>6 DEF Kept, VS!VectorsOf
  <2>7. chunks' = chunks
    BY <1>2 DEF Delete, DeleteVectors, DeleteRows, CommitRows, DeleteDisk,
       storeVars, FS!DeleteDocuments, FS!DeleteFile, FS!RollbackDelete
  <2> QED
    BY <1>2, <2>3, <2>4, <2>5, <2>6, <2>7, DeleteMoves
    DEF storeVars, FS!DeleteDocuments
<1> QED
  BY <1>1, <1>2

-----------------------------------------------------------------------------
(* The documents a deletion has locked.                                    *)

LEMMA LocksInit == Init => LocksInv
<1> SUFFICES ASSUME Init PROVE LocksInv
  OBVIOUS
<1>1. \A x \in Deletions : deleting[x].docs = {}
  BY DEF Init, FS!Init, FS!NoTransaction
<1> QED
  BY <1>1 DEF LocksInv

LEMMA LocksNext == IndInv /\ LocksInv /\ [Next]_vars => LocksInv'
<1> SUFFICES ASSUME IndInv, LocksInv, [Next]_vars PROVE LocksInv'
  OBVIOUS
<1> USE DEF LocksInv
<1>1. ASSUME NEW r \in Requests, LoadFile(r) \/ Ingest(r) PROVE LocksInv'
  BY <1>1, StepEffects DEF Effects
<1>2. ASSUME NEW x \in Deletions, GetFile(x) PROVE LocksInv'
  <2>1. del[x].pc = "getFile"
    BY <1>2 DEF GetFile
  <2>2. UNCHANGED deleting /\ \A y \in Deletions \ {x} : del'[y] = del[y]
    BY <1>2, GetFileMoves DEF storeVars
  <2> QED
    BY <2>1, <2>2
<1>3. ASSUME NEW x \in Deletions, Delete(x) PROVE LocksInv'
  <2>0. deleting \in [Deletions -> FS!Transactions]
    BY DEF IndInv, StoreInv, FS!TypeOK
  <2>1. /\ del'[x].file = del[x].file
        /\ \A y \in Deletions \ {x} : del'[y] = del[y]
    BY <1>3, DeleteMoves
  <2>2. \A y \in Deletions \ {x} : deleting'[y] = deleting[y]
    BY <1>3, <2>0, DeleteMoves
    DEF storeVars, FS!DeleteDocuments, FS!DeleteFile
  <2>3. ASSUME NEW d \in deleting'[x].docs
        PROVE  del'[x].pc = "commitRows" /\ FileOf[d] = del'[x].file
    <3>1. CASE DeleteVectors(x) \/ DeleteDisk(x)
      BY <3>1 DEF DeleteVectors, DeleteDisk, storeVars
    <3>2. CASE DeleteRows(x)
      <4>1. CASE UNCHANGED storeVars
        BY <3>2, <4>1 DEF DeleteRows, storeVars
      <4>2. CASE /\ FS!DeleteDocuments(x, del[x].file)
                 /\ DelGoTo(x, "commitRows")
        <5>1. deleting'[x].docs = FS!DocumentsOf(del[x].file)
          BY <2>0, <4>2 DEF FS!DeleteDocuments
        <5>2. FileOf[d] = del[x].file
          BY <5>1 DEF FS!DocumentsOf, IndInv, StoreInv, Links
        <5> QED
          BY <2>1, <4>2, <5>2, DelMoved
      <4> QED
        BY <3>2, <4>1, <4>2 DEF DeleteRows
    <3>3. CASE CommitRows(x)
      BY <2>0, <3>3
      DEF CommitRows, FS!DeleteFile, FS!RollbackDelete, FS!NoTransaction
    <3> QED
      BY <1>3, <3>1, <3>2, <3>3 DEF Delete
  <2> QED
    BY <2>1, <2>2, <2>3
<1>4. CASE UNCHANGED vars
  BY <1>4 DEF vars
<1> QED
  BY <1>1, <1>2, <1>3, <1>4 DEF Next, Finished

-----------------------------------------------------------------------------
(* The ids a request collects, and the vectors of its file.                *)

LEMMA IdsStay ==
    ASSUME IndInv, NEW r \in Requests, IdsInv(r),
           ing'[r].ids = ing[r].ids, ing'[r].i >= ing[r].i,
           ing'[r].i \in Nat,
           ing[r].pc \in EarlyPcs \/ ing'[r].pc \notin EarlyPcs,
           ing'[r].pc \in LoopPcs => ing[r].pc \in LoopPcs \cup EarlyPcs,
           ing'[r].pc \in BeforeRagPcs => ing[r].pc \in BeforeRagPcs,
           ing'[r].pc \in RagPcs => ing[r].pc \in RagPcs
    PROVE  IdsInv(r)'
<1>1. ing[r].i \in Nat /\ ing[r].ids \in Seq(ChunkIds)
  BY DEF IndInv, IngestStates
<1>2. CASE ing[r].pc \in EarlyPcs
  <2>1. ing'[r].ids = <<>>
    BY <1>2 DEF IdsInv
  <2> QED
    BY <2>1 DEF IdsInv
<1>3. CASE ing[r].pc \notin EarlyPcs
  <2>1. \A k \in DOMAIN ing[r].ids : ing[r].ids[k][3] \in Nat
    BY <1>1 DEF ChunkIds
  <2> QED
    BY <1>1, <1>3, <2>1 DEF IdsInv
<1> QED
  BY <1>2, <1>3

LEMMA IdsGrow ==
    ASSUME IndInv, NEW r \in Requests, IdsInv(r), NEW p \in Passes,
           ing[r].pc \in LoopPcs,
           ing'[r].ids = Append(ing[r].ids, <<r, p, ing[r].i>>),
           ing'[r].i = ing[r].i + 1, ing'[r].pc \notin EarlyPcs,
           ing'[r].pc \in BeforeRagPcs =>
              p = "custom" /\ ing[r].pc \in BeforeRagPcs,
           ing'[r].pc \in RagPcs => p = "rag" /\ ing[r].pc \in RagPcs
    PROVE  /\ IdsInv(r)'
           /\ Range(ing'[r].ids) = Range(ing[r].ids) \cup {<<r, p, ing[r].i>>}
<1> DEFINE ids == ing[r].ids
           c == <<r, p, ing[r].i>>
           new == ing'[r].ids
<1>1. ing[r].i \in Nat /\ ids \in Seq(ChunkIds)
  BY DEF IndInv, IngestStates
<1>2. c \in ChunkIds /\ c[1] = r /\ c[2] = p /\ c[3] = ing[r].i
  BY <1>1 DEF ChunkIds
<1>3. \A k \in DOMAIN ids : ids[k] \in ChunkIds /\ ids[k][3] \in Nat
  BY <1>1 DEF ChunkIds
<1>4. \A k \in DOMAIN ids : ids[k][3] < ing[r].i
  BY DEF IdsInv
<1>5. new = Append(ids, c)
  OBVIOUS
<1> HIDE DEF c, new
<1>6. /\ DOMAIN ids = 1..Len(ids) /\ Len(ids) \in Nat
      /\ DOMAIN new = 1..(Len(ids) + 1)
      /\ \A k \in DOMAIN ids : new[k] = ids[k]
      /\ new[Len(ids) + 1] = c
  BY <1>1, <1>2, <1>5
<1>7. \A k \in DOMAIN ids : ids[k] # c
  BY <1>1, <1>2, <1>3, <1>4
<1> DEFINE n == Len(ids) + 1
<1>8. DOMAIN new = DOMAIN ids \cup {n} /\ n \notin DOMAIN ids
  BY <1>6
<1> HIDE DEF n
<1>9. new[n] = c
  BY <1>6 DEF n
<1>10. Range(new) = Range(ids) \cup {c}
  BY <1>6, <1>8, <1>9, SMTT(20) DEF Range
<1>11. \A j, k \in DOMAIN new : new[j] = new[k] => j = k
  <2>1. \A j, k \in DOMAIN ids : ids[j] = ids[k] => j = k
    BY DEF IdsInv
  <2> QED
    BY <1>6, <1>7, <1>8, <1>9, <2>1
<1>12. ASSUME NEW k \in DOMAIN new
       PROVE  /\ new[k][1] = r
              /\ ing'[r].pc \in LoopPcs => new[k][3] < ing'[r].i
              /\ ing'[r].pc \in BeforeRagPcs => new[k][2] = "custom"
              /\ ing'[r].pc \in RagPcs => new[k][2] = "rag"
  <2>1. CASE k = n
    BY <1>1, <1>2, <1>9, <2>1
  <2>2. CASE k \in DOMAIN ids
    <3>1. new[k] = ids[k] /\ ids[k][3] < ing[r].i /\ ids[k][3] \in Nat
      BY <1>3, <1>4, <1>6, <2>2
    <3> QED
      BY <1>1, <2>2, <3>1 DEF IdsInv
  <2> QED
    BY <1>8, <2>1, <2>2
<1> QED
  BY <1>10, <1>11, <1>12 DEF IdsInv, new, c

LEMMA VectorsStay ==
    ASSUME NEW r \in Requests, VectorsInv(r), Embedded(r)' = Embedded(r),
           UNCHANGED vectors
    PROVE  VectorsInv(r)'
BY DEF VectorsInv, VS!VectorsOf

LEMMA SavedStay ==
    ASSUME NEW r \in Requests, SavedInv(r), Embedded(r)' = Embedded(r),
           fileChunks \subseteq fileChunks', DOMAIN files' = DOMAIN files,
           ing'[r].pc \in {"embed", "upsert"} =>
              /\ ing[r].pc \in {"embed", "upsert"}
              /\ ThisChunk(r)' = ThisChunk(r)
    PROVE  SavedInv(r)'
BY DEF SavedInv

LEMMA UpsertCounts ==
    ASSUME IndInv, NEW r \in Requests, VectorsInv(r),
           VS!Upsert(ThisChunk(r), FileOf[r]) \/ UNCHANGED vectors,
           Range(ing'[r].ids) = Range(ing[r].ids) \cup {ThisChunk(r)}
    PROVE  /\ VectorsInv(r)'
           /\ Embedded(r)' = Embedded(r) \cup {ThisChunk(r)}
<1> DEFINE c == ThisChunk(r)
<1>1. c[2] = "rag"
  BY DEF ThisChunk
<1> HIDE DEF c
<1>2. VS!VectorsOf(FileOf[r])' \subseteq VS!VectorsOf(FileOf[r]) \cup {c}
  BY DEF VS!Upsert, VS!VectorsOf, c
<1>3. Embedded(r)' = Embedded(r) \cup {c}
  BY <1>1 DEF Embedded, c
<1> QED
  BY <1>2, <1>3 DEF VectorsInv, c

\* A step that keeps the ids, or drops those of the first pass.
LEMMA SameEmbedded ==
    ASSUME NEW r \in Requests,
           \/ ing'[r].ids = ing[r].ids
           \/ /\ ing'[r].ids = <<>>
              /\ \A k \in DOMAIN ing[r].ids : ing[r].ids[k][2] # "rag"
    PROVE  Embedded(r)' = Embedded(r)
BY DEF Embedded, Range

LEMMA OwnIds ==
    ASSUME IndInv, NEW r \in Requests, IdsInv(r), VectorsInv(r), SavedInv(r),
           LoadFile(r) \/ Ingest(r)
    PROVE  IdsInv(r)' /\ VectorsInv(r)' /\ SavedInv(r)'
<1>0. ing[r] \in IngestStates /\ ing[r].i \in Nat
  BY DEF IndInv, IngestStates
<1>01. fileChunks \subseteq fileChunks'
  BY RequestWrites DEF Writes
<1>02. ing[r].pc \notin EarlyPcs => DOMAIN files' = DOMAIN files
  BY StepEffects DEF Effects, SameUrls, Started, EarlyPcs, FirstPcs
<1> USE DEF EarlyPcs, FirstPcs, LoopPcs, BeforeRagPcs, RagPcs
<1>1. ASSUME ing[r].pc \in EarlyPcs, ing'[r].ids = ing[r].ids,
             ing'[r].pc \notin {"embed", "upsert"}, UNCHANGED vectors
      PROVE  IdsInv(r)' /\ VectorsInv(r)' /\ SavedInv(r)'
  <2>1. ing'[r].ids = <<>>
    BY <1>1 DEF IdsInv
  <2>2. IdsInv(r)' /\ Embedded(r)' = {}
    BY <2>1 DEF IdsInv, Embedded, Range
  <2>3. SavedInv(r)'
    BY <1>1, <2>2 DEF SavedInv
  <2> QED
    BY <1>1, <2>2, <2>3, SameEmbedded, VectorsStay
<1>11. ASSUME ing[r].pc \notin EarlyPcs, UNCHANGED vectors, IdsInv(r)',
              Embedded(r)' = Embedded(r),
              ing'[r].pc \notin {"embed", "upsert"}
       PROVE  IdsInv(r)' /\ VectorsInv(r)' /\ SavedInv(r)'
  BY <1>01, <1>02, <1>11, VectorsStay, SavedStay
<1>12. ASSUME ing[r].pc \notin EarlyPcs, GoTo(r, "done"), UNCHANGED vectors
       PROVE  IdsInv(r)' /\ VectorsInv(r)' /\ SavedInv(r)'
  <2>1. /\ ing'[r].pc = "done" /\ ing'[r].ids = ing[r].ids
        /\ ing'[r].i = ing[r].i
    BY <1>12, Moved
  <2>2. IdsInv(r)'
    BY <1>0, <1>12, <2>1, IdsStay
  <2> QED
    BY <1>11, <1>12, <2>1, <2>2, SameEmbedded
<1>2. CASE LoadFile(r)
  <2>1. ing'[r].ids = ing[r].ids /\ ing'[r].pc \in {"getInfo", "failed"}
    <3>1. CASE GoTo(r, "failed")
      BY <3>1, Moved
    <3>2. ASSUME NEW text,
                 ing' = [ing EXCEPT ![r].pc = "getInfo", ![r].pieces = text]
          PROVE  ing'[r].ids = ing[r].ids /\ ing'[r].pc = "getInfo"
      BY <3>2 DEF IndInv, IngestStates
    <3> QED
      BY <1>2, <3>1, <3>2 DEF LoadFile
  <2> QED
    BY <1>1, <1>2, <2>1 DEF LoadFile
<1>3. CASE GetFileInfo(r) \/ CreateFile(r) \/ SaveDocument(r) \/ Describe(r)
           \/ AppendDescription(r)
  <2>1. UNCHANGED vectors /\ ing[r].pc \in EarlyPcs
    BY <1>3 DEF GetFileInfo, CreateFile, SaveDocument, Describe,
       AppendDescription
  <2>2. AfterDocument(r) \notin {"embed", "upsert"}
    BY DEF AfterDocument
  <2>3. \E pc : GoTo(r, pc) /\ pc \notin {"embed", "upsert"}
    BY <1>3, <2>2 DEF GetFileInfo, CreateFile, SaveDocument, Describe,
       AppendDescription
  <2>4. ing'[r].ids = ing[r].ids /\ ing'[r].pc \notin {"embed", "upsert"}
    BY <2>3, Moved
  <2> QED
    BY <1>1, <2>1, <2>4
<1>4. CASE CustomChunk(r)
  <2> DEFINE c == <<r, "custom", ing[r].i>>
             t == WithId(ing[r], c)
  <2>1. c \in ChunkIds
    BY <1>0 DEF ChunkIds, Passes
  <2>2. /\ t \in IngestStates /\ t.i = ing[r].i /\ t.pieces = ing[r].pieces
        /\ t.ids = Append(ing[r].ids, c)
    BY <1>0, <2>1, WithIdFacts
  <2>3. c[2] # "rag"
    OBVIOUS
  <2> HIDE DEF c, t
  <2>4. UNCHANGED vectors /\ ing[r].pc = "customChunk"
    BY <1>4 DEF CustomChunk
  <2>5. CASE ing' = [ing EXCEPT
                        ![r] = NextPiece(t, "customChunk", "customStats")]
    <3>1. /\ ing'[r].pc \in {"customChunk", "customStats"}
          /\ ing'[r].i = t.i + 1 /\ ing'[r].ids = t.ids
      BY <2>2, <2>5, NextPieceMoved
    <3>2. "custom" \in Passes
      BY DEF Passes
    <3>3. /\ IdsInv(r)'
          /\ Range(ing'[r].ids) = Range(ing[r].ids) \cup {c}
      BY <2>2, <2>4, <3>1, <3>2, IdsGrow DEF c
    <3>4. Embedded(r)' = Embedded(r)
      BY <2>3, <3>3 DEF Embedded
    <3> QED
      BY <1>11, <2>4, <3>1, <3>3, <3>4
  <2>6. CASE ing' = [ing EXCEPT
                        ![r] = NextPiece(ing[r], "customChunk", "customStats")]
    <3>1. /\ ing'[r].pc \in {"customChunk", "customStats"}
          /\ ing'[r].i = ing[r].i + 1 /\ ing'[r].ids = ing[r].ids
      BY <1>0, <2>6, NextPieceMoved
    <3>2. IdsInv(r)'
      BY <1>0, <2>4, <3>1, IdsStay
    <3> QED
      BY <1>11, <2>4, <3>1, <3>2, SameEmbedded
  <2> QED
    BY <1>4, <2>5, <2>6 DEF CustomChunk, c, t
<1>5. CASE CustomStats(r)
  <2>1. /\ ing'[r].pc = "getDocument" /\ ing'[r].ids = ing[r].ids
        /\ ing'[r].i = ing[r].i
    BY <1>0, <1>5 DEF CustomStats, IndInv, IngestStates
  <2>2. ing[r].pc = "customStats" /\ UNCHANGED vectors
    BY <1>5 DEF CustomStats
  <2>3. IdsInv(r)'
    BY <1>0, <2>1, <2>2, IdsStay
  <2> QED
    BY <1>11, <2>1, <2>2, <2>3, SameEmbedded
<1>6. CASE GetDocument(r)
  <2>1. ing[r].pc = "getDocument" /\ UNCHANGED vectors
    BY <1>6 DEF GetDocument
  <2>2. CASE GoTo(r, "done")
    BY <1>12, <2>1, <2>2
  <2> DEFINE text == documents[r].content
             pc == IF text = <<>> THEN "statsEmpty" ELSE "saveChunk"
  <2>3. CASE ing' = [ing EXCEPT ![r].pc = pc, ![r].pieces = text,
                                ![r].i = 1, ![r].ids = <<>>]
    <3>0. pc \notin {"embed", "upsert"}
      OBVIOUS
    <3> HIDE DEF pc, text
    <3>1. ing'[r].ids = <<>> /\ ing'[r].pc = pc
      BY <2>3 DEF IndInv, IngestStates
    <3>2. IdsInv(r)'
      BY <3>1 DEF IdsInv
    <3>3. \A k \in DOMAIN ing[r].ids : ing[r].ids[k][2] # "rag"
      BY <2>1 DEF IdsInv
    <3> QED
      BY <1>11, <2>1, <3>0, <3>1, <3>2, <3>3, SameEmbedded
  <2> QED
    BY <1>6, <2>2, <2>3 DEF GetDocument
<1>7. CASE StatsEmpty(r)
  <2>1. ing[r].pc \notin EarlyPcs /\ UNCHANGED vectors /\ GoTo(r, "done")
    BY <1>7 DEF StatsEmpty
  <2> QED
    BY <1>12, <2>1
<1>8. CASE SaveChunk(r) \/ Embed(r)
  <2>1. ing[r].pc \in {"saveChunk", "embed"} /\ UNCHANGED vectors
    BY <1>8 DEF SaveChunk, Embed
  <2>2. CASE ing' = [ing EXCEPT ![r] = NextChunk(ing[r])]
    <3>1. ing' = [ing EXCEPT ![r] = NextPiece(ing[r], "saveChunk", "stats")]
      BY <2>2 DEF NextChunk
    <3>2. /\ ing'[r].pc \in {"saveChunk", "stats"}
          /\ ing'[r].i = ing[r].i + 1 /\ ing'[r].ids = ing[r].ids
      BY <1>0, <3>1, NextPieceMoved
    <3>3. IdsInv(r)'
      BY <1>0, <2>1, <3>2, IdsStay
    <3> QED
      BY <1>11, <2>1, <3>2, <3>3, SameEmbedded
  <2>3. CASE \E pc \in {"embed", "upsert"} : GoTo(r, pc)
    <3>1. /\ ing'[r].pc \in {"embed", "upsert"} /\ ing'[r].ids = ing[r].ids
          /\ ing'[r].i = ing[r].i
      BY <2>3, Moved
    <3>2. IdsInv(r)'
      BY <1>0, <2>1, <3>1, IdsStay
    <3>3. VectorsInv(r)' /\ Embedded(r)' = Embedded(r)
      BY <2>1, <3>1, SameEmbedded, VectorsStay
    <3>4. ThisChunk(r)' = ThisChunk(r) /\ DOMAIN files' = DOMAIN files
      BY <1>02, <2>1, <3>1 DEF ThisChunk
    <3>5. SavedInv(r)'
      <4>1. CASE Embed(r)
        <5>1. ing[r].pc = "embed"
          BY <4>1 DEF Embed
        <5> QED
          BY <1>01, <3>1, <3>3, <3>4, <5>1, SavedStay
      <4>2. CASE SaveChunk(r)
        <5>1. FS!AdapterCreateChunk(ThisChunk(r), ing[r].pieces[ing[r].i], r)
          <6>1. ing[r].pc = "saveChunk"
            BY <4>2 DEF SaveChunk
          <6>2. ASSUME ing' = [ing EXCEPT ![r] = NextChunk(ing[r])] PROVE FALSE
            <7>1. ing' = [ing EXCEPT
                             ![r] = NextPiece(ing[r], "saveChunk", "stats")]
              BY <6>2 DEF NextChunk
            <7>2. ing'[r].pc \in {"saveChunk", "stats"}
              BY <1>0, <7>1, NextPieceMoved
            <7> QED
              BY <3>1, <7>2
          <6> QED
            BY <4>2, <6>2 DEF SaveChunk
        <5>2. documents[r].file = {FileOf[r]}
          BY <5>1 DEF FS!AdapterCreateChunk, IndInv, StoreInv, Links
        <5>3. <<FileOf[r], ThisChunk(r)>> \in fileChunks'
          BY <5>1, <5>2 DEF FS!AdapterCreateChunk, FS!CreateChunk
        <5> QED
          BY <1>01, <3>3, <3>4, <5>3 DEF SavedInv
      <4> QED
        BY <1>8, <4>1, <4>2
    <3> QED
      BY <3>2, <3>3, <3>5
  <2> QED
    BY <1>8, <2>2, <2>3 DEF SaveChunk, Embed
<1>9. CASE UpsertVector(r)
  <2> DEFINE t == WithId(ing[r], ThisChunk(r))
  <2>1. ThisChunk(r) \in ChunkIds
    BY <1>0 DEF ThisChunk, ChunkIds, Passes
  <2>2. /\ t \in IngestStates /\ t.i = ing[r].i /\ t.pieces = ing[r].pieces
        /\ t.ids = Append(ing[r].ids, ThisChunk(r))
    BY <1>0, <2>1, WithIdFacts
  <2> HIDE DEF t
  <2>3. /\ ing[r].pc = "upsert"
        /\ VS!Upsert(ThisChunk(r), FileOf[r]) \/ UNCHANGED vectors
    BY <1>9 DEF UpsertVector
  <2>4. ing' = [ing EXCEPT ![r] = NextPiece(t, "saveChunk", "stats")]
    BY <1>9 DEF UpsertVector, NextChunk, t
  <2>5. /\ ing'[r].pc \in {"saveChunk", "stats"}
        /\ ing'[r].i = t.i + 1 /\ ing'[r].ids = t.ids
    BY <2>2, <2>4, NextPieceMoved
  <2>6. "rag" \in Passes
    BY DEF Passes
  <2>7. /\ IdsInv(r)'
        /\ Range(ing'[r].ids) = Range(ing[r].ids) \cup {ThisChunk(r)}
    BY <2>2, <2>3, <2>5, <2>6, IdsGrow DEF ThisChunk
  <2>8. /\ VectorsInv(r)'
        /\ Embedded(r)' = Embedded(r) \cup {ThisChunk(r)}
    BY <2>3, <2>7, UpsertCounts
  <2>9. SavedInv(r)'
    BY <1>01, <1>02, <2>3, <2>5, <2>8 DEF SavedInv
  <2> QED
    BY <2>7, <2>8, <2>9
<1>10. CASE UpdateStats(r)
  <2>1. ing'[r].pc = "done" /\ ing'[r].ids = ing[r].ids
        /\ ing'[r].i = ing[r].i
    BY <1>0, <1>10 DEF UpdateStats, IndInv, IngestStates
  <2>2. ing[r].pc = "stats" /\ UNCHANGED vectors
    BY <1>10 DEF UpdateStats
  <2>3. IdsInv(r)'
    BY <1>0, <2>1, <2>2, IdsStay
  <2> QED
    BY <1>11, <2>1, <2>2, <2>3, SameEmbedded
<1> QED
  BY <1>2, <1>3, <1>4, <1>5, <1>6, <1>7, <1>8, <1>9, <1>10 DEF Ingest

-----------------------------------------------------------------------------
(* CountInv, for hosts that never reuse a FileID.                          *)

LEMMA CountInit == Init => CountInv
<1> SUFFICES ASSUME Init PROVE CountInv
  OBVIOUS
<1>1. /\ files = <<>> /\ vectors = <<>> /\ fileChunks = {}
      /\ \A r \in Requests : ing[r].ids = <<>>
  BY DEF Init, FS!Init, VS!Init
<1>2. \A r \in Requests : VS!VectorsOf(FileOf[r]) = {}
  BY <1>1 DEF VS!VectorsOf
<1>3. IsFiniteSet(fileChunks)
  BY <1>1, FS_EmptySet
<1> QED
  BY <1>1, <1>2, <1>3 DEF CountInv, IdsInv, VectorsInv, SavedInv

\* Only the stats of the second pass say "success".
LEMMA SuccessAfterRequest ==
    ASSUME OwnFileIds, IndInv, CountInv, NEW r \in Requests,
           LoadFile(r) \/ Ingest(r), FileOf[r] \in DOMAIN files',
           files'[FileOf[r]].stats.embedding = "success"
    PROVE  SuccessOf(FileOf[r], r)'
<1> DEFINE f == FileOf[r]
<1>0. /\ ing[r] \in IngestStates
      /\ f \in DOMAIN files => files[f] \in FS!FileRows
  BY DEF IndInv, StoreInv, FS!TypeOK
<1>1. files' # files
  <2> SUFFICES ASSUME files' = files PROVE FALSE
    OBVIOUS
  <2>1. PICK q \in Requests : SuccessOf(f, q)
    BY DEF CountInv
  <2>2. q = r /\ ing[r].pc = "done"
    BY <2>1 DEF OwnFileIds, SuccessOf
  <2> QED
    BY <2>2, StepEffects DEF Effects, Ended
<1>2. ASSUME NEW stats, ReportStats(r, stats)
      PROVE  files'[f].stats = stats
  <2>1. FS!UpdateFileChunkStats(f, stats)
    BY <1>1, <1>2 DEF ReportStats, storeVars
  <2>2. f \in DOMAIN files
    BY <2>1 DEF FS!UpdateFileChunkStats
  <2>3. files'[f] = [files[f] EXCEPT !.stats = stats]
    BY <2>1, <2>2 DEF FS!UpdateFileChunkStats
  <2> QED
    BY <1>0, <2>2, <2>3 DEF FS!FileRows
<1>3. ASSUME CreateFile(r) PROVE FALSE
  <2>1. FS!CreateFile(f, PathOf[r])
    BY <1>1, <1>3 DEF CreateFile, storeVars
  <2>2. files'[f].stats = FS!NoStats
    BY <2>1 DEF FS!CreateFile, FS!Put
  <2> QED
    BY <2>2 DEF FS!NoStats
<1>4. ASSUME CustomStats(r) \/ StatsEmpty(r) PROVE FALSE
  <2>1. \/ files'[f].stats = [count |-> Len(ing[r].ids), chunking |-> "success",
                              embedding |-> "custom-chunker-pending"]
        \/ files'[f].stats = [count |-> 0, chunking |-> "empty",
                              embedding |-> "empty"]
    BY <1>2, <1>4 DEF CustomStats, StatsEmpty
  <2> QED
    BY <2>1
<1>5. ~(LoadFile(r) \/ GetFileInfo(r) \/ SaveDocument(r) \/ Describe(r)
        \/ AppendDescription(r) \/ CustomChunk(r) \/ GetDocument(r) \/ SaveChunk(r) \/ Embed(r)
        \/ UpsertVector(r))
  BY <1>1 DEF LoadFile, GetFileInfo, SaveDocument, Describe,
     AppendDescription, CustomChunk, GetDocument, SaveChunk, Embed, UpsertVector, storeVars,
     FS!CreateDocument, FS!AppendToDocument, FS!CreateChunk,
     FS!AdapterCreateChunk
<1>6. UpdateStats(r)
  BY <1>3, <1>4, <1>5 DEF Ingest
<1>7. files'[f].stats.count = Len(ing[r].ids)
  BY <1>2, <1>6 DEF UpdateStats
<1>8. ing'[r].pc = "done" /\ ing'[r].ids = ing[r].ids
  BY <1>0, <1>6 DEF UpdateStats, IndInv, IngestStates
<1>9. \A k \in DOMAIN ing[r].ids : ing[r].ids[k][2] = "rag"
  BY <1>6 DEF UpdateStats, CountInv, IdsInv, RagPcs
<1> QED
  BY <1>7, <1>8, <1>9 DEF SuccessOf

LEMMA CountAfterRequest ==
    ASSUME OwnFileIds, IndInv, CountInv, NEW r \in Requests,
           LoadFile(r) \/ Ingest(r)
    PROVE  CountInv'
<1>1. /\ OtherFilesKept(r) /\ Writes(r)
      /\ \A q \in Requests \ {r} : Kept(q)
  BY RequestKeepsOthers, RequestWrites
<1>0. IsFiniteSet(fileChunks')
  <2>1. IsFiniteSet(fileChunks)
    BY DEF CountInv
  <2>2. CASE fileChunks' = fileChunks
    BY <2>1, <2>2
  <2>3. ASSUME NEW c, fileChunks' = fileChunks \cup {<<FileOf[r], c>>}
        PROVE  IsFiniteSet(fileChunks')
    BY <2>1, <2>3, FS_AddElement
  <2> QED
    BY <1>1, <2>2, <2>3 DEF Writes
<1>2. ASSUME NEW q \in Requests
      PROVE  IdsInv(q)' /\ VectorsInv(q)' /\ SavedInv(q)'
  <2>1. CASE q = r
    BY <2>1, OwnIds DEF CountInv
  <2>2. CASE q # r
    <3>1. /\ ing'[q] = ing[q]
          /\ VS!VectorsOf(FileOf[q])' = VS!VectorsOf(FileOf[q])
      BY <1>1, <2>2 DEF Kept
    <3>2. IdsInv(q)' /\ VectorsInv(q)' /\ Embedded(q)' = Embedded(q)
      BY <3>1 DEF CountInv, IdsInv, VectorsInv, Embedded
    <3>3. FileOf[q] \in DOMAIN files' => FileOf[q] \in DOMAIN files
      BY <1>1, <2>2 DEF OtherFilesKept, OwnFileIds
    <3>4. fileChunks \subseteq fileChunks'
      BY <1>1 DEF Writes
    <3>5. SavedInv(q)'
      BY <3>1, <3>2, <3>3, <3>4 DEF CountInv, SavedInv, ThisChunk
    <3> QED
      BY <3>2, <3>5
  <2> QED
    BY <2>1, <2>2
<1>3. ASSUME NEW f \in DOMAIN files', files'[f].stats.embedding = "success"
      PROVE  \E q \in Requests : SuccessOf(f, q)'
  <2>1. CASE f = FileOf[r]
    BY <1>3, <2>1, SuccessAfterRequest
  <2>2. CASE f # FileOf[r]
    <3>1. f \in Files
      BY NextInv, <1>3 DEF Next, IndInv, StoreInv, FS!TypeOK
    <3>2. f \in DOMAIN files /\ files'[f] = files[f]
      BY <1>1, <2>2, <3>1 DEF OtherFilesKept
    <3>3. PICK q \in Requests : SuccessOf(f, q)
      BY <1>3, <3>2 DEF CountInv
    <3>4. ing'[q] = ing[q]
      BY <1>1, <2>2, <3>3 DEF SuccessOf, Kept
    <3>5. SuccessOf(f, q)'
      BY <3>2, <3>3, <3>4 DEF SuccessOf
    <3> QED
      BY <3>5
  <2> QED
    BY <2>1, <2>2
<1> QED
  BY <1>0, <1>2, <1>3 DEF CountInv

\* A deletion adds no vector, and takes no junction row of a file but with it.
LEMMA DeletionRemoves ==
    ASSUME IndInv, NEW x \in Deletions, GetFile(x) \/ Delete(x)
    PROVE  /\ UNCHANGED ing
           /\ \A f : VS!VectorsOf(f)' \subseteq VS!VectorsOf(f)
           /\ \A f \in DOMAIN files' : f \in DOMAIN files /\ files'[f] = files[f]
           /\ fileChunks' \subseteq fileChunks
           /\ \A fc \in fileChunks : fc[1] \in DOMAIN files' => fc \in fileChunks'
<1>1. UNCHANGED ing
  BY GetFileMoves, DeleteMoves
<1>2. \A f : VS!VectorsOf(f)' \subseteq VS!VectorsOf(f)
  <2>1. CASE VS!DeleteByFileID(del[x].file)
    BY <2>1 DEF VS!DeleteByFileID, VS!VectorsOf, VS!Restrict
  <2>2. CASE UNCHANGED vectors
    BY <2>2 DEF VS!VectorsOf
  <2> QED
    BY <2>1, <2>2, GetFileMoves, DeleteMoves
<1>3. /\ \A f \in DOMAIN files' : f \in DOMAIN files /\ files'[f] = files[f]
      /\ fileChunks' \subseteq fileChunks
      /\ \A fc \in fileChunks : fc[1] \in DOMAIN files' => fc \in fileChunks'
  <2>1. CASE FS!DeleteFile(x, del[x].file)
    BY <2>1 DEF FS!DeleteFile, FS!Drop, FS!Restrict
  <2>2. CASE UNCHANGED <<files, fileChunks>>
    BY <2>2
  <2>3. FS!DeleteFile(x, del[x].file) \/ UNCHANGED <<files, fileChunks>>
    BY DEF GetFile, Delete, DeleteVectors, DeleteRows, CommitRows, DeleteDisk,
       FS!DeleteDocuments, FS!RollbackDelete, storeVars
  <2> QED
    BY <2>1, <2>2, <2>3
<1> QED
  BY <1>1, <1>2, <1>3

LEMMA CountAfterDeletion ==
    ASSUME IndInv, CountInv, NEW x \in Deletions, GetFile(x) \/ Delete(x)
    PROVE  CountInv'
<1>1. /\ UNCHANGED ing
      /\ \A f : VS!VectorsOf(f)' \subseteq VS!VectorsOf(f)
      /\ \A f \in DOMAIN files' : f \in DOMAIN files /\ files'[f] = files[f]
      /\ fileChunks' \subseteq fileChunks
      /\ \A fc \in fileChunks : fc[1] \in DOMAIN files' => fc \in fileChunks'
  BY DeletionRemoves
<1>2. ASSUME NEW q \in Requests
      PROVE  IdsInv(q)' /\ VectorsInv(q)' /\ SavedInv(q)'
  <2>1. IdsInv(q)' /\ Embedded(q)' = Embedded(q) /\ ThisChunk(q)' = ThisChunk(q)
    BY <1>1 DEF CountInv, IdsInv, Embedded, ThisChunk
  <2>2. VectorsInv(q)'
    BY <1>1, <2>1 DEF CountInv, VectorsInv
  <2>3. SavedInv(q)'
    BY <1>1, <2>1 DEF CountInv, SavedInv
  <2> QED
    BY <2>1, <2>2, <2>3
<1>3. IsFiniteSet(fileChunks')
  BY <1>1, FS_Subset DEF CountInv
<1>4. ASSUME NEW f \in DOMAIN files', files'[f].stats.embedding = "success"
      PROVE  \E q \in Requests : SuccessOf(f, q)'
  <2>1. f \in DOMAIN files /\ files'[f] = files[f]
    BY <1>1
  <2>2. PICK q \in Requests : SuccessOf(f, q)
    BY <1>4, <2>1 DEF CountInv
  <2>3. SuccessOf(f, q)'
    BY <1>1, <2>1, <2>2 DEF SuccessOf
  <2> QED
    BY <2>3
<1> QED
  BY <1>2, <1>3, <1>4 DEF CountInv

LEMMA CountNext ==
    ASSUME OwnFileIds
    PROVE  IndInv /\ CountInv /\ [Next]_vars => CountInv'
<1> SUFFICES ASSUME IndInv, CountInv, [Next]_vars PROVE CountInv'
  OBVIOUS
<1>1. CASE UNCHANGED vars
  <2>1. \A q \in Requests : Embedded(q)' = Embedded(q)
    BY <1>1 DEF vars, Embedded
  <2>2. \A q \in Requests : IdsInv(q)' /\ VectorsInv(q)' /\ SavedInv(q)'
    BY <1>1, <2>1 DEF vars, CountInv, IdsInv, VectorsInv, SavedInv,
       VS!VectorsOf, ThisChunk
  <2> QED
    BY <1>1, <2>2 DEF vars, CountInv, SuccessOf
<1> QED
  BY <1>1, CountAfterRequest, CountAfterDeletion DEF Next, Finished

LEMMA DistinctCounted ==
    ASSUME NEW S, NEW ids \in Seq(S),
           \A j, k \in DOMAIN ids : ids[j] = ids[k] => j = k
    PROVE  IsFiniteSet(Range(ids)) /\ Cardinality(Range(ids)) = Len(ids)
<1> DEFINE n == Len(ids)
<1>1. n \in Nat /\ DOMAIN ids = 1..n
  OBVIOUS
<1>2. ids \in [1..n -> Range(ids)]
  BY <1>1 DEF Range
<1>3. ids \in Bijection(1..n, Range(ids))
  BY <1>1, <1>2, Fun_IsBij, SMTT(20) DEF Range
<1>4. IsFiniteSet(1..n) /\ Cardinality(1..n) = n
  <2>1. 1 \in Int /\ n \in Int /\ n - 1 + 1 = n
    BY <1>1
  <2> HIDE DEF n
  <2>2. IsFiniteSet(1..n) /\ Cardinality(1..n) = IF 1 > n THEN 0 ELSE n - 1 + 1
    BY <2>1, FS_Interval
  <2> QED
    BY <1>1, <2>1, <2>2
<1> QED
  BY <1>3, <1>4, FS_Bijection DEF ExistsBijection

(* A file marked "success" counts no chunk that was not saved under it and *)
(* leaves out none that a search can find, for any number of requests,     *)
(* deletions and files and any faults, upserts and the DELETEs of the rows *)
(* among them (rag_processor.go:136, processor.go:172), when no two        *)
(* requests have one FileID.                                               *)
THEOREM SuccessIsOfSaved ==
    ASSUME OwnFileIds
    PROVE  Spec => []SuccessIsOfSavedChunks
<1>1. IndInv /\ CountInv => SuccessIsOfSavedChunks
  <2> SUFFICES ASSUME IndInv, CountInv, NEW f \in DOMAIN files,
                      files[f].stats.embedding = "success"
               PROVE  /\ Cardinality(VS!VectorsOf(f)) <= files[f].stats.count
                      /\ files[f].stats.count <= Cardinality(RagChunksOf(f))
    BY DEF SuccessIsOfSavedChunks
  <2>1. PICK r \in Requests : SuccessOf(f, r)
    BY DEF CountInv
  <2> DEFINE ids == ing[r].ids
             S == Range(ids)
             Row(c) == <<f, c>>
             Rows == {Row(c) : c \in S}
  <2>2. /\ ids \in Seq(ChunkIds)
        /\ \A j, k \in DOMAIN ids : ids[j] = ids[k] => j = k
    BY DEF IndInv, IngestStates, CountInv, IdsInv
  <2>3. S = Embedded(r) /\ FileOf[r] = f /\ files[f].stats.count = Len(ids)
    BY <2>1 DEF SuccessOf, Embedded, Range
  <2>4. IsFiniteSet(S) /\ Cardinality(S) = files[f].stats.count
    BY <2>2, <2>3, DistinctCounted
  <2>5. VS!VectorsOf(f) \subseteq S
    BY <2>3 DEF CountInv, VectorsInv
  <2>6. Rows \subseteq RagChunksOf(f)
    <3>1. \A c \in Embedded(r) : <<f, c>> \in fileChunks /\ c[2] = "rag"
      BY <2>3 DEF CountInv, SavedInv, Embedded
    <3>2. \A c \in S : Row(c) \in fileChunks /\ c[2] = "rag"
      BY <2>3, <3>1
    <3> QED
      BY <3>2 DEF RagChunksOf
  <2>7. IsFiniteSet(RagChunksOf(f))
    BY FS_Subset DEF CountInv, RagChunksOf
  <2> HIDE DEF S
  <2>8. IsFiniteSet(Rows) /\ Cardinality(Rows) = Cardinality(S)
    <3> DEFINE g == [c \in S |-> Row(c)]
    <3>1. g \in Bijection(S, Rows)
      BY Fun_IsBij
    <3> QED
      BY <2>4, <3>1, FS_Bijection DEF ExistsBijection
  <2>9. Cardinality(VS!VectorsOf(f)) <= Cardinality(S)
    BY <2>4, <2>5, FS_Subset
  <2>10. Cardinality(Rows) <= Cardinality(RagChunksOf(f))
    BY <2>6, <2>7, FS_Subset
  <2> QED
    BY <2>4, <2>8, <2>9, <2>10
<1>2. IndInv /\ CountInv /\ [Next]_vars => CountInv'
  BY CountNext
<1> QED
  BY <1>1, <1>2, Invariance, CountInit, PTL DEF Spec

-----------------------------------------------------------------------------
(* FreshInv: a request makes every chunk once.                             *)

LEMMA FreshStay ==
    ASSUME IndInv, NEW r \in Requests, FreshInv(r), chunks' = chunks,
           ing[r].pc \in EarlyPcs \/ ing'[r].pc \notin EarlyPcs,
           ing'[r].pc = "customChunk" =>
              \/ ing[r].pc \in EarlyPcs
              \/ ing[r].pc = "customChunk" /\ ing'[r].i = ing[r].i + 1,
           ing'[r].pc \in BeforeRagPcs => ing[r].pc \in BeforeRagPcs,
           ing'[r].pc = "saveChunk" =>
              \/ ing[r].pc \in BeforeRagPcs
              \/ /\ ing[r].pc \in {"saveChunk", "embed", "upsert"}
                 /\ ing'[r].i = ing[r].i + 1,
           ing'[r].pc \in {"embed", "upsert"} =>
              ing[r].pc \in {"embed", "upsert"} /\ ing'[r].i = ing[r].i
    PROVE  FreshInv(r)'
<1>1. ing[r].i \in Nat
  BY DEF IndInv, IngestStates
<1>2. \A c \in DOMAIN chunks : c[3] \in Nat
  BY DEF IndInv, StoreInv, FS!TypeOK, ChunkIds
<1>3. CASE ing[r].pc \in EarlyPcs
  <2>1. \A c \in DOMAIN chunks : c[1] # r
    BY <1>3 DEF FreshInv
  <2> QED
    BY <2>1 DEF FreshInv
<1>4. CASE ing[r].pc \notin EarlyPcs
  <2> SUFFICES ASSUME NEW c \in DOMAIN chunks, c[1] = r
               PROVE  /\ c[2] \in Passes
                      /\ ing'[r].pc \notin EarlyPcs
                      /\ ing'[r].pc = "customChunk" =>
                            c[2] = "custom" /\ c[3] < ing'[r].i
                      /\ c[2] = "rag" =>
                            /\ ing'[r].pc \notin BeforeRagPcs
                            /\ ing'[r].pc = "saveChunk" => c[3] < ing'[r].i
                            /\ ing'[r].pc \in {"embed", "upsert"} =>
                                  c[3] <= ing'[r].i
    BY DEF FreshInv
  <2> QED
    BY <1>1, <1>2, <1>4 DEF FreshInv
<1> QED
  BY <1>3, <1>4

LEMMA FreshGrow ==
    ASSUME IndInv, NEW r \in Requests, FreshInv(r), NEW p \in Passes, NEW text,
           chunks' = FS!Put(chunks, <<r, p, ing[r].i>>, text),
           \/ /\ p = "custom" /\ ing[r].pc = "customChunk"
              /\ ing'[r].pc \in {"customChunk", "customStats"}
              /\ ing'[r].i = ing[r].i + 1
           \/ /\ p = "rag" /\ ing[r].pc = "saveChunk"
              /\ ing'[r].pc = "embed" /\ ing'[r].i = ing[r].i
    PROVE  FreshInv(r)'
<1> DEFINE new == <<r, p, ing[r].i>>
<1>0. ing[r].i \in Nat
  BY DEF IndInv, IngestStates
<1>1. \A c \in DOMAIN chunks : c[3] \in Nat
  BY DEF IndInv, StoreInv, FS!TypeOK, ChunkIds
<1>2. new[2] = p /\ new[3] = ing[r].i
  OBVIOUS
<1> HIDE DEF new
<1>3. DOMAIN chunks' = DOMAIN chunks \cup {new}
  BY DEF FS!Put, new
<1> SUFFICES ASSUME NEW c \in DOMAIN chunks', c[1] = r
             PROVE  /\ c[2] \in Passes
                    /\ ing'[r].pc \notin EarlyPcs
                    /\ ing'[r].pc = "customChunk" =>
                          c[2] = "custom" /\ c[3] < ing'[r].i
                    /\ c[2] = "rag" =>
                          /\ ing'[r].pc \notin BeforeRagPcs
                          /\ ing'[r].pc = "saveChunk" => c[3] < ing'[r].i
                          /\ ing'[r].pc \in {"embed", "upsert"} =>
                                c[3] <= ing'[r].i
  BY DEF FreshInv
<1> USE DEF EarlyPcs, FirstPcs, BeforeRagPcs
<1>4. CASE c = new
  BY <1>0, <1>2, <1>4 DEF Passes
<1>5. CASE c \in DOMAIN chunks
  BY <1>0, <1>1, <1>5 DEF FreshInv
<1> QED
  BY <1>3, <1>4, <1>5

LEMMA OwnFresh ==
    ASSUME IndInv, NEW r \in Requests, FreshInv(r),
           LoadFile(r) \/ Ingest(r)
    PROVE  FreshInv(r)'
<1>0. ing[r] \in IngestStates /\ ing[r].i \in Nat
  BY DEF IndInv, IngestStates
<1> USE DEF EarlyPcs, FirstPcs, BeforeRagPcs
<1>1. ASSUME chunks' = chunks, ing[r].pc \in EarlyPcs
      PROVE  FreshInv(r)'
  BY <1>1 DEF FreshInv
<1>2. ASSUME chunks' = chunks, ing[r].pc \notin EarlyPcs,
             ing'[r].pc = "done"
      PROVE  FreshInv(r)'
  BY <1>2 DEF FreshInv
<1>3. CASE LoadFile(r) \/ GetFileInfo(r) \/ CreateFile(r) \/ SaveDocument(r)
           \/ Describe(r) \/ AppendDescription(r)
  <2>1. chunks' = chunks /\ ing[r].pc \in EarlyPcs
    BY <1>3 DEF LoadFile, GetFileInfo, CreateFile, SaveDocument, Describe,
       AppendDescription, FS!CreateFile, FS!CreateDocument,
       FS!AppendToDocument, storeVars
  <2> QED
    BY <1>1, <2>1
<1>4. ASSUME NEW stats, ReportStats(r, stats) PROVE chunks' = chunks
  BY <1>4 DEF ReportStats, FS!UpdateFileChunkStats, storeVars
<1>5. CASE StatsEmpty(r) \/ UpdateStats(r)
  <2>1. chunks' = chunks /\ ing[r].pc \notin EarlyPcs
    BY <1>4, <1>5 DEF StatsEmpty, UpdateStats
  <2>2. ing'[r].pc = "done"
    BY <1>0, <1>5, Moved DEF StatsEmpty, UpdateStats, IndInv, IngestStates
  <2> QED
    BY <1>2, <2>1, <2>2
<1>6. CASE CustomStats(r)
  <2>1. chunks' = chunks /\ ing[r].pc = "customStats"
    BY <1>4, <1>6 DEF CustomStats
  <2>2. ing'[r].pc = "getDocument"
    BY <1>0, <1>6 DEF CustomStats, IndInv, IngestStates
  <2> QED
    BY <2>1, <2>2 DEF FreshInv
<1>7. CASE GetDocument(r)
  <2>1. chunks' = chunks /\ ing[r].pc = "getDocument"
    BY <1>7 DEF GetDocument, storeVars
  <2> DEFINE text == documents[r].content
             pc == IF text = <<>> THEN "statsEmpty" ELSE "saveChunk"
  <2>2. ing'[r].pc \in {"statsEmpty", "saveChunk", "done"}
    <3>1. pc \in {"statsEmpty", "saveChunk"}
      OBVIOUS
    <3>2. CASE ing' = [ing EXCEPT ![r].pc = pc, ![r].pieces = text,
                                  ![r].i = 1, ![r].ids = <<>>]
      <4> HIDE DEF pc, text
      <4>1. ing'[r].pc = pc
        BY <1>0, <3>2 DEF IndInv, IngestStates
      <4> QED
        BY <3>1, <4>1
    <3>3. CASE GoTo(r, "done")
      BY <3>3, Moved
    <3> QED
      BY <1>7, <3>2, <3>3 DEF GetDocument
  <2> QED
    BY <2>1, <2>2, FreshStay
<1>8. CASE CustomChunk(r)
  <2> DEFINE c == <<r, "custom", ing[r].i>>
  <2>1. c \in ChunkIds /\ "custom" \in Passes
    BY <1>0 DEF ChunkIds, Passes
  <2>2. PICK t \in {ing[r], WithId(ing[r], c)} :
           ing' = [ing EXCEPT ![r] = NextPiece(t, "customChunk", "customStats")]
    BY <1>8 DEF CustomChunk
  <2>3. t \in IngestStates /\ t.i = ing[r].i
    BY <1>0, <2>1, WithIdFacts
  <2>4. /\ ing'[r].pc \in {"customChunk", "customStats"}
        /\ ing'[r].i = t.i + 1
    BY <2>2, <2>3, NextPieceMoved
  <2>5. ing[r].pc = "customChunk"
    BY <1>8 DEF CustomChunk
  <2>6. CASE chunks' = FS!Put(chunks, c, ing[r].pieces[ing[r].i])
    BY <2>1, <2>3, <2>4, <2>5, <2>6, FreshGrow
  <2>7. CASE chunks' = chunks
    BY <2>3, <2>4, <2>5, <2>7, FreshStay
  <2> QED
    BY <1>8, <2>6, <2>7 DEF CustomChunk, FS!CreateChunk, storeVars
<1>9. ASSUME ing' = [ing EXCEPT ![r] = NextChunk(ing[r])], chunks' = chunks,
             ing[r].pc \in {"saveChunk", "embed"}
      PROVE  FreshInv(r)'
  <2>1. ing' = [ing EXCEPT ![r] = NextPiece(ing[r], "saveChunk", "stats")]
    BY <1>9 DEF NextChunk
  <2>2. /\ ing'[r].pc \in {"saveChunk", "stats"}
        /\ ing'[r].i = ing[r].i + 1
    BY <1>0, <2>1, NextPieceMoved
  <2> QED
    BY <1>9, <2>2, FreshStay
<1>10. CASE SaveChunk(r)
  <2>1. ing[r].pc = "saveChunk"
    BY <1>10 DEF SaveChunk
  <2>2. CASE /\ FS!AdapterCreateChunk(ThisChunk(r), ing[r].pieces[ing[r].i], r)
             /\ GoTo(r, "embed")
    <3>1. chunks' = FS!Put(chunks, <<r, "rag", ing[r].i>>,
                           ing[r].pieces[ing[r].i])
      BY <2>2 DEF FS!AdapterCreateChunk, FS!CreateChunk, ThisChunk
    <3>2. ing'[r].pc = "embed" /\ ing'[r].i = ing[r].i
      BY <2>2, Moved
    <3>3. "rag" \in Passes
      BY DEF Passes
    <3> QED
      BY <2>1, <3>1, <3>2, <3>3, FreshGrow
  <2> QED
    BY <1>9, <1>10, <2>1, <2>2 DEF SaveChunk, storeVars
<1>11. CASE Embed(r)
  <2>1. ing[r].pc = "embed" /\ chunks' = chunks
    BY <1>11 DEF Embed, storeVars
  <2>2. CASE GoTo(r, "upsert")
    <3>1. ing'[r].pc = "upsert" /\ ing'[r].i = ing[r].i
      BY <2>2, Moved
    <3> QED
      BY <2>1, <3>1, FreshStay
  <2> QED
    BY <1>9, <1>11, <2>1, <2>2 DEF Embed
<1>12. CASE UpsertVector(r)
  <2> DEFINE t == WithId(ing[r], ThisChunk(r))
  <2>1. ThisChunk(r) \in ChunkIds
    BY <1>0 DEF ThisChunk, ChunkIds, Passes
  <2>2. t \in IngestStates /\ t.i = ing[r].i
    BY <1>0, <2>1, WithIdFacts
  <2> HIDE DEF t
  <2>3. ing' = [ing EXCEPT ![r] = NextPiece(t, "saveChunk", "stats")]
    BY <1>12 DEF UpsertVector, NextChunk, t
  <2>4. /\ ing'[r].pc \in {"saveChunk", "stats"} /\ ing'[r].i = t.i + 1
    BY <2>2, <2>3, NextPieceMoved
  <2>5. ing[r].pc = "upsert" /\ chunks' = chunks
    BY <1>12 DEF UpsertVector, storeVars
  <2> QED
    BY <2>2, <2>4, <2>5, FreshStay
<1> QED
  BY <1>3, <1>5, <1>6, <1>7, <1>8, <1>10, <1>11, <1>12 DEF Ingest

-----------------------------------------------------------------------------
(* Progress, when nothing fails.                                           *)

NothingFails == Faults = {}

\* What a step of a request starts from.
Ready(r) ==
    /\ IndInv /\ NothingFails
    /\ FreshInv(r) /\ Progress(r)
    /\ EnableRAG[r] /\ KindOf[r] # "video"

LEMMA ProgressKept ==
    ASSUME IndInv, NEW q \in Requests, Progress(q), Kept(q)
    PROVE  Progress(q)'
<1>1. ing'[q] = ing[q]
  BY DEF Kept
<1>2. RowsInv(q)'
  <2>1. RowsInv(q)
    BY DEF Progress
  <2> QED
    BY <2>1 DEF RowsInv, Kept
<1>3. ing[q].pc \notin FirstPcs => Text(q)' = Text(q)
  BY DEF Progress, RowsInv, Kept, Text
<1>4. ing[q].pc \notin FirstPcs => Behind(q)' = Behind(q)
  BY <1>1, <1>3 DEF Behind
<1>5. TextInv(q)'
  BY <1>1, <1>3 DEF Progress, TextInv, EarlyPcs, FirstPcs
<1>6. AnswerInv(q)'
  <2>1. AnswerInv(q)
    BY DEF Progress
  <2> QED
    BY <1>1, <1>3, <1>4, <2>1 DEF AnswerInv, RagPcs, EarlyPcs, FirstPcs
<1>7. IndexInv(q)'
  <2>1. IndexInv(q) /\ RowsInv(q)
    BY DEF Progress
  <2>2. CASE ing[q].pc \in RagPcs \cup {"done"}
    <3>1. ing[q].pc \notin FirstPcs /\ FileOf[q] \in DOMAIN files
      BY <2>1, <2>2 DEF RowsInv, RagPcs, FirstPcs
    <3>2. \A c \in DOMAIN chunks : chunks'[c] = chunks[c]
      BY DEF Kept
    <3>3. VS!VectorsOf(FileOf[q]) \subseteq DOMAIN chunks
      BY DEF VS!VectorsOf, IndInv, StoreInv
    <3>4. ASSUME NEW k \in 1..Behind(q)
          PROVE  /\ <<q, "rag", k>> \in VS!VectorsOf(FileOf[q])'
                 /\ chunks'[<<q, "rag", k>>] = Text(q)'[k]
      <4>1. /\ <<q, "rag", k>> \in VS!VectorsOf(FileOf[q])
            /\ chunks[<<q, "rag", k>>] = Text(q)[k]
        BY <2>1, <2>2 DEF IndexInv
      <4> QED
        BY <1>3, <3>1, <3>2, <3>3, <4>1 DEF Kept
    <3>5. ing[q].pc \in {"embed", "upsert"} =>
             chunks'[ThisChunk(q)] = Text(q)'[ing[q].i]
      BY <1>3, <2>1, <3>1, <3>2 DEF IndexInv, IndInv, WorkerInv
    <3>6. ThisChunk(q)' = ThisChunk(q)
      BY <1>1 DEF ThisChunk
    <3>7. files'[FileOf[q]] = files[FileOf[q]]
      BY <3>1 DEF Kept
    <3> QED
      BY <1>1, <1>3, <1>4, <2>1, <3>1, <3>4, <3>5, <3>6, <3>7 DEF IndexInv
  <2>3. CASE ing[q].pc \notin RagPcs \cup {"done"}
    BY <1>1, <2>3 DEF IndexInv, RagPcs
  <2> QED
    BY <2>2, <2>3
<1> QED
  BY <1>2, <1>5, <1>6, <1>7 DEF Progress

LEMMA MadeNone ==
    ASSUME NEW r, NEW p
    PROVE  Made(r, p, 0) = <<>>
BY DEF Made

LEMMA MadeMore ==
    ASSUME NEW r, NEW p, NEW n \in Nat
    PROVE  Append(Made(r, p, n), <<r, p, n + 1>>) = Made(r, p, n + 1)
<1> DEFINE Id(k) == <<r, p, k>>
           S == {Id(k) : k \in Nat}
           m == [k \in 1..n |-> Id(k)]
<1>1. \A k \in Nat : Id(k) \in S
  OBVIOUS
<1> HIDE DEF Id, S
<1>2. m \in Seq(S) /\ Len(m) = n /\ \A k \in 1..n : m[k] = Id(k)
  BY <1>1
<1> HIDE DEF m
<1>3. Append(m, Id(n + 1)) = [k \in 1..(n + 1) |-> Id(k)]
  BY <1>1, <1>2
<1> QED
  BY <1>3 DEF Made, Id, m

LEMMA ReadyFacts ==
    ASSUME NEW r \in Requests, Ready(r)
    PROVE  /\ IndInv /\ FreshInv(r)
           /\ RowsInv(r) /\ TextInv(r) /\ AnswerInv(r) /\ IndexInv(r)
           /\ ing \in [Requests -> IngestStates] /\ ing[r] \in IngestStates
           /\ ing[r].i \in Nat /\ ing[r].pieces \in Seq(Requests)
           /\ WorkerInv(r)
           /\ \A op : ~Fails(op)
           /\ EnableRAG[r] /\ KindOf[r] \in {"text", "image"}
           /\ ing[r].pc \notin FirstPcs =>
                 /\ documents[r] \in FS!DocumentRows
                 /\ Text(r) \in Seq(Requests)
BY DEF Ready, Progress, NothingFails, Fails, IndInv, StoreInv, FS!TypeOK,
   IngestStates, Kinds, RowsInv, FS!DocumentRows, Text

LEMMA OwnLoad ==
    ASSUME NEW r \in Requests, Ready(r), LoadFile(r)
    PROVE  Progress(r)'
<1> USE DEF FirstPcs, EarlyPcs, RagPcs
<1>1. /\ RowsInv(r) /\ AnswerInv(r) /\ ing[r].pc = "load"
      /\ ing[r] \in IngestStates /\ ing \in [Requests -> IngestStates]
  BY ReadyFacts DEF LoadFile
<1>2. PICK text \in ParsedTexts(r) :
         ing' = [ing EXCEPT ![r].pc = "getInfo", ![r].pieces = text]
  BY <1>1, ReadyFacts DEF LoadFile, RowsInv
<1>3. /\ ing'[r].pc = "getInfo" /\ ing'[r].pieces = text
      /\ ing'[r].ids = ing[r].ids /\ ing'[r].response = ing[r].response
  BY <1>1, <1>2 DEF IngestStates
<1>4. KindOf[r] = "image" => text = <<r>>
  BY DEF ParsedTexts
<1>5. UNCHANGED disk
  BY DEF LoadFile
<1> QED
  BY <1>1, <1>3, <1>4, <1>5
  DEF Progress, RowsInv, TextInv, AnswerInv, IndexInv

LEMMA OwnGetInfo ==
    ASSUME NEW r \in Requests, Ready(r), GetFileInfo(r)
    PROVE  Progress(r)'
<1> USE DEF FirstPcs, EarlyPcs, RagPcs
<1>1. /\ RowsInv(r) /\ TextInv(r) /\ AnswerInv(r) /\ ing[r].pc = "getInfo"
      /\ IndInv
  BY ReadyFacts DEF GetFileInfo
<1>2. GoTo(r, "createFile")
  BY <1>1, ReadyFacts DEF GetFileInfo, RowsInv
<1>3. /\ ing'[r].pc = "createFile" /\ ing'[r].pieces = ing[r].pieces
      /\ ing'[r].ids = ing[r].ids /\ ing'[r].response = ing[r].response
  BY <1>1, <1>2, Moved
<1>4. UNCHANGED disk
  BY DEF GetFileInfo
<1> QED
  BY <1>1, <1>3, <1>4 DEF Progress, RowsInv, TextInv, AnswerInv, IndexInv

LEMMA OwnCreateFile ==
    ASSUME NEW r \in Requests, Ready(r), CreateFile(r)
    PROVE  Progress(r)'
<1> USE DEF FirstPcs, EarlyPcs, RagPcs
<1>1. /\ RowsInv(r) /\ TextInv(r) /\ AnswerInv(r) /\ ing[r].pc = "createFile"
      /\ IndInv
  BY ReadyFacts DEF CreateFile
<1>2. FS!CreateFile(FileOf[r], PathOf[r]) /\ GoTo(r, "saveDocument")
  BY ReadyFacts DEF CreateFile
<1>3. /\ ing'[r].pc = "saveDocument" /\ ing'[r].pieces = ing[r].pieces
      /\ ing'[r].ids = ing[r].ids /\ ing'[r].response = ing[r].response
  BY <1>1, <1>2, Moved
<1>4. UNCHANGED disk /\ FileOf[r] \in DOMAIN files'
  BY <1>2 DEF CreateFile, FS!CreateFile, FS!Put
<1> QED
  BY <1>1, <1>3, <1>4 DEF Progress, RowsInv, TextInv, AnswerInv, IndexInv

LEMMA OwnSaveDocument ==
    ASSUME NEW r \in Requests, Ready(r), SaveDocument(r)
    PROVE  Progress(r)'
<1> USE DEF FirstPcs, EarlyPcs, RagPcs
<1> DEFINE pc == AfterDocument(r)
<1>1. /\ RowsInv(r) /\ TextInv(r) /\ AnswerInv(r) /\ ing[r].pc = "saveDocument"
      /\ IndInv /\ WorkerInv(r) /\ EnableRAG[r]
      /\ KindOf[r] \in {"text", "image"}
  BY ReadyFacts DEF SaveDocument
<1>2. FS!CreateDocument(r, FileOf[r], ing[r].pieces) /\ GoTo(r, pc)
  BY <1>1, ReadyFacts DEF SaveDocument, RowsInv, FS!CanCreateDocument
<1>3. \/ KindOf[r] = "image" /\ pc = "describe"
      \/ KindOf[r] = "text" /\ ~CustomChunker[r] /\ pc = "getDocument"
      \/ /\ KindOf[r] = "text" /\ CustomChunker[r]
         /\ \/ ing[r].pieces = <<>> /\ pc = "statsEmpty"
            \/ ing[r].pieces # <<>> /\ pc = "customChunk"
  <2>1. CustomChunker[r] \in BOOLEAN
    OBVIOUS
  <2> QED
    BY <1>1, <2>1 DEF AfterDocument
<1> HIDE DEF pc
<1>4. /\ ing'[r].pc = pc /\ ing'[r].pieces = ing[r].pieces
      /\ ing'[r].i = 1 /\ ing'[r].ids = <<>> /\ ing'[r].response = <<>>
  <2>1. ing[r].i = 1 /\ ing[r].ids = <<>> /\ ing[r].response = <<>>
    BY <1>1 DEF WorkerInv, AnswerInv
  <2> QED
    BY <1>1, <1>2, <2>1, Moved
<1>5. /\ UNCHANGED <<disk, files>> /\ r \in DOMAIN documents'
      /\ documents'[r] = [file |-> {FileOf[r]}, content |-> ing[r].pieces]
  BY <1>2 DEF SaveDocument, FS!CreateDocument, FS!Put
<1>6. Text(r)' = ing[r].pieces /\ documents'[r].file = {FileOf[r]}
  BY <1>5 DEF Text
<1>7. RowsInv(r)'
  BY <1>1, <1>3, <1>4, <1>5, <1>6 DEF RowsInv
<1>8. TextInv(r)'
  BY <1>1, <1>3, <1>4, <1>6 DEF TextInv
<1>9. AnswerInv(r)'
  <2>1. pc = "customChunk" => Behind(r)' = 0
    BY <1>4 DEF Behind, LoopPcs
  <2>2. pc = "statsEmpty" => Len(Text(r)') = 0
    BY <1>3, <1>6
  <2> QED
    BY <1>1, <1>3, <1>4, <2>1, <2>2, MadeNone DEF AnswerInv
<1>10. IndexInv(r)'
  BY <1>3, <1>4 DEF IndexInv
<1> QED
  BY <1>7, <1>8, <1>9, <1>10 DEF Progress

LEMMA OwnDescribe ==
    ASSUME NEW r \in Requests, Ready(r), Describe(r)
    PROVE  Progress(r)'
<1> USE DEF FirstPcs, EarlyPcs, RagPcs
<1>1. /\ RowsInv(r) /\ TextInv(r) /\ AnswerInv(r) /\ ing[r].pc = "describe"
      /\ IndInv
  BY ReadyFacts DEF Describe
<1>2. GoTo(r, "append")
  BY <1>1, ReadyFacts DEF Describe, RowsInv
<1>3. /\ ing'[r].pc = "append" /\ ing'[r].pieces = ing[r].pieces
      /\ ing'[r].response = ing[r].response
  BY <1>1, <1>2, Moved
<1>4. UNCHANGED <<disk, files, documents>> /\ Text(r)' = Text(r)
  BY DEF Describe, storeVars, Text
<1> QED
  BY <1>1, <1>3, <1>4 DEF Progress, RowsInv, TextInv, AnswerInv, IndexInv

LEMMA OwnAppend ==
    ASSUME NEW r \in Requests, Ready(r), AppendDescription(r)
    PROVE  Progress(r)'
<1> USE DEF FirstPcs, EarlyPcs, RagPcs
<1>1. /\ RowsInv(r) /\ TextInv(r) /\ AnswerInv(r) /\ ing[r].pc = "append"
      /\ IndInv /\ EnableRAG[r] /\ documents[r] \in FS!DocumentRows
  BY ReadyFacts DEF AppendDescription
<1>2. r \in FS!DocumentsOf(FileOf[r])
  BY <1>1 DEF RowsInv, FS!DocumentsOf
<1>3. FS!AppendToDocument(FileOf[r], <<r>>) /\ GoTo(r, "getDocument")
  BY <1>1, <1>2, ReadyFacts DEF AppendDescription
<1>4. /\ ing'[r].pc = "getDocument" /\ ing'[r].pieces = ing[r].pieces
      /\ ing'[r].response = ing[r].response
  BY <1>1, <1>3, Moved
<1>5. /\ r \in DOMAIN documents'
      /\ documents'[r] = [documents[r] EXCEPT !.content = @ \o <<r>>]
  BY <1>1, <1>2, <1>3 DEF FS!AppendToDocument, RowsInv
<1>6. Text(r)' = <<r, r>> /\ documents'[r].file = documents[r].file
  <2>1. documents[r].content = <<r>>
    BY <1>1 DEF TextInv, Text
  <2>2. documents'[r].content = documents[r].content \o <<r>>
    BY <1>1, <1>5 DEF FS!DocumentRows
  <2>3. <<r>> \o <<r>> = <<r, r>>
    <3>1. /\ <<r>> \in Seq(Requests) /\ <<r, r>> \in Seq(Requests)
          /\ Len(<<r>>) = 1 /\ Len(<<r, r>>) = 2
          /\ <<r>>[1] = r /\ <<r, r>>[1] = r /\ <<r, r>>[2] = r
      OBVIOUS
    <3> DEFINE two == <<r>> \o <<r>>
    <3>2. two \in Seq(Requests) /\ Len(two) = 2 /\ two[1] = r /\ two[2] = r
      BY <3>1, ConcatProperties
    <3> HIDE DEF two
    <3>3. \A k \in 1..Len(two) : two[k] = <<r, r>>[k]
      BY <3>1, <3>2
    <3>4. two = <<r, r>>
      BY <3>1, <3>2, <3>3, SeqEqual
    <3> QED
      BY <3>4 DEF two
  <2>4. documents'[r].content = <<r, r>>
    BY <2>1, <2>2, <2>3
  <2> QED
    BY <1>1, <1>5, <2>4 DEF Text, FS!DocumentRows
<1>7. UNCHANGED <<disk, files>>
  BY <1>3 DEF AppendDescription, FS!AppendToDocument
<1> QED
  BY <1>1, <1>4, <1>5, <1>6, <1>7
  DEF Progress, RowsInv, TextInv, AnswerInv, IndexInv

LEMMA OwnCustomChunk ==
    ASSUME NEW r \in Requests, Ready(r), CustomChunk(r)
    PROVE  Progress(r)'
<1> USE DEF FirstPcs, EarlyPcs, RagPcs
<1> DEFINE s == ing[r]
           c == <<r, "custom", s.i>>
           t == WithId(s, c)
           pc == IF s.i < Len(s.pieces) THEN "customChunk" ELSE "customStats"
<1>1. /\ RowsInv(r) /\ TextInv(r) /\ AnswerInv(r) /\ s.pc = "customChunk"
      /\ IndInv /\ FreshInv(r) /\ WorkerInv(r) /\ s.i \in Nat
      /\ s \in IngestStates
  BY ReadyFacts DEF CustomChunk
<1>2. /\ s.pieces = Text(r) /\ Text(r) \in Seq(Requests)
      /\ KindOf[r] = "text" /\ CustomChunker[r]
      /\ s.i \in 1..Len(Text(r))
  BY <1>1, ReadyFacts DEF TextInv, WorkerInv, LoopPcs
<1>3. FS!CanCreateChunk(c, {FileOf[r]}, {r})
  <2>1. c[1] = r /\ c[3] = s.i
    OBVIOUS
  <2>2. c \notin DOMAIN chunks
    BY <1>1, <2>1 DEF FreshInv
  <2> QED
    BY <1>1, <2>2 DEF RowsInv, FS!CanCreateChunk
<1>4. /\ ing' = [ing EXCEPT
                    ![r] = NextPiece(t, "customChunk", "customStats")]
      /\ UNCHANGED <<files, documents, vectors, disk>>
  BY <1>3, ReadyFacts DEF CustomChunk, FS!CreateChunk
<1>5. /\ t \in IngestStates /\ t.i = s.i /\ t.pieces = s.pieces
      /\ t.ids = Append(s.ids, c) /\ t.response = s.response
  <2>1. c \in ChunkIds
    BY <1>1 DEF ChunkIds, Passes
  <2> QED
    BY <1>1, <2>1, WithIdFacts
<1> HIDE DEF t
<1>6. /\ ing'[r].pc = pc /\ ing'[r].pieces = s.pieces
      /\ ing'[r].i = s.i + 1 /\ ing'[r].ids = Append(s.ids, c)
      /\ ing'[r].response = s.response
  <2>0. /\ IndInv /\ t \in IngestStates
        /\ ing' = [ing EXCEPT
                      ![r] = NextPiece(t, "customChunk", "customStats")]
    BY <1>1, <1>4, <1>5
  <2>1. ing'[r].pc = IF t.i < Len(t.pieces) THEN "customChunk"
                                            ELSE "customStats"
    BY <2>0, NextPieceTo
  <2>2. ing'[r].pc = pc
    BY <1>5, <2>1
  <2>3. /\ ing'[r].pieces = t.pieces /\ ing'[r].i = t.i + 1
        /\ ing'[r].ids = t.ids /\ ing'[r].response = t.response
    BY <1>1, <1>4, <1>5, NextPieceMoved
  <2> QED
    BY <1>5, <2>2, <2>3
<1>7. Text(r)' = Text(r)
  BY <1>4 DEF Text
<1>8. pc \in {"customChunk", "customStats"} /\ Behind(r)' = s.i
  BY <1>2, <1>6, <1>7 DEF Behind, LoopPcs
<1>9. ing'[r].ids = Made(r, "custom", Behind(r)')
  <2>1. /\ s.ids = Made(r, "custom", Behind(r)) /\ Behind(r) = s.i - 1
    BY <1>1 DEF AnswerInv, Behind, LoopPcs
  <2>2. s.i - 1 \in Nat /\ (s.i - 1) + 1 = s.i
    BY <1>2
  <2>3. Append(Made(r, "custom", s.i - 1), <<r, "custom", (s.i - 1) + 1>>)
           = Made(r, "custom", (s.i - 1) + 1)
    BY <2>2, MadeMore
  <2> QED
    BY <1>6, <1>8, <2>1, <2>2, <2>3
<1> HIDE DEF pc, c
<1>10. RowsInv(r)'
  BY <1>1, <1>4, <1>6, <1>8 DEF RowsInv
<1>11. TextInv(r)'
  BY <1>1, <1>2, <1>6, <1>7, <1>8 DEF TextInv
<1>12. AnswerInv(r)'
  BY <1>1, <1>2, <1>6, <1>8, <1>9 DEF AnswerInv
<1>13. IndexInv(r)'
  BY <1>6, <1>8 DEF IndexInv
<1> QED
  BY <1>10, <1>11, <1>12, <1>13 DEF Progress

LEMMA ReportKeeps ==
    ASSUME NEW r \in Requests, Ready(r), NEW stats, ReportStats(r, stats),
           UNCHANGED <<vectors, disk>>, ing[r].pc \notin FirstPcs,
           ing'[r].pc # "failed"
    PROVE  /\ RowsInv(r)' /\ Text(r)' = Text(r)
           /\ UNCHANGED <<documents, chunks, vectors>>
           /\ files'[FileOf[r]].stats = stats
<1>1. RowsInv(r) /\ IndInv
  BY ReadyFacts
<1>2. FS!UpdateFileChunkStats(FileOf[r], stats)
  BY ReadyFacts DEF ReportStats
<1>3. /\ DOMAIN files' = DOMAIN files
      /\ UNCHANGED <<documents, chunks, disk>>
  BY <1>2 DEF FS!UpdateFileChunkStats
<1>4. FileOf[r] \in DOMAIN files /\ files[FileOf[r]] \in FS!FileRows
  BY <1>1 DEF RowsInv, FirstPcs, IndInv, StoreInv, FS!TypeOK
<1>5. files'[FileOf[r]] = [files[FileOf[r]] EXCEPT !.stats = stats]
  BY <1>2, <1>4 DEF FS!UpdateFileChunkStats
<1>6. files'[FileOf[r]].stats = stats
  BY <1>4, <1>5 DEF FS!FileRows
<1>7. RowsInv(r)'
  BY <1>1, <1>3, <1>4 DEF RowsInv, FirstPcs
<1> QED
  BY <1>3, <1>6, <1>7 DEF Text

LEMMA OwnCustomStats ==
    ASSUME NEW r \in Requests, Ready(r), CustomStats(r)
    PROVE  Progress(r)'
<1> USE DEF FirstPcs, EarlyPcs, RagPcs
<1>1. /\ TextInv(r) /\ AnswerInv(r) /\ ing[r].pc = "customStats"
      /\ ing[r] \in IngestStates /\ ing \in [Requests -> IngestStates]
  BY ReadyFacts DEF CustomStats
<1>2. /\ ing'[r].pc = "getDocument" /\ ing'[r].pieces = ing[r].pieces
      /\ ing'[r].response = ing[r].ids
  BY <1>1 DEF CustomStats, IngestStates
<1>3. /\ RowsInv(r)' /\ Text(r)' = Text(r)
  BY <1>1, <1>2, ReportKeeps DEF CustomStats
<1>4. ing[r].ids = Made(r, "custom", Len(Text(r)))
  BY <1>1 DEF AnswerInv, Behind, LoopPcs
<1>5. TextInv(r)' /\ AnswerInv(r)' /\ IndexInv(r)'
  BY <1>1, <1>2, <1>3, <1>4 DEF TextInv, AnswerInv, IndexInv
<1> QED
  BY <1>3, <1>5 DEF Progress

LEMMA OwnGetDocument ==
    ASSUME NEW r \in Requests, Ready(r), GetDocument(r)
    PROVE  Progress(r)'
<1> USE DEF FirstPcs, EarlyPcs, RagPcs
<1> DEFINE text == documents[r].content
           pc == IF text = <<>> THEN "statsEmpty" ELSE "saveChunk"
<1>1. /\ RowsInv(r) /\ TextInv(r) /\ AnswerInv(r) /\ ing[r].pc = "getDocument"
      /\ ing[r] \in IngestStates /\ ing \in [Requests -> IngestStates]
  BY ReadyFacts DEF GetDocument
<1>2. ing' = [ing EXCEPT ![r].pc = pc, ![r].pieces = text,
                         ![r].i = 1, ![r].ids = <<>>]
  BY <1>1, ReadyFacts DEF GetDocument, RowsInv
<1>3. \/ pc = "statsEmpty" /\ text = <<>>
      \/ pc = "saveChunk"
  OBVIOUS
<1> HIDE DEF pc, text
<1>4. /\ ing'[r].pc = pc /\ ing'[r].pieces = text
      /\ ing'[r].i = 1 /\ ing'[r].ids = <<>>
      /\ ing'[r].response = ing[r].response
  BY <1>1, <1>2 DEF IngestStates
<1>5. /\ UNCHANGED <<files, documents, chunks, vectors, disk>>
      /\ Text(r)' = text /\ Text(r) = text
  BY DEF GetDocument, storeVars, Text, text
<1>6. RowsInv(r)'
  BY <1>1, <1>3, <1>4, <1>5 DEF RowsInv
<1>7. TextInv(r)'
  BY <1>1, <1>3, <1>4, <1>5 DEF TextInv
<1>8. pc = "saveChunk" => Behind(r)' = 0
  BY <1>4 DEF Behind, LoopPcs
<1>9. AnswerInv(r)'
  BY <1>1, <1>3, <1>4, <1>5, <1>8, MadeNone DEF AnswerInv
<1>10. IndexInv(r)'
  BY <1>3, <1>4, <1>8 DEF IndexInv
<1> QED
  BY <1>6, <1>7, <1>9, <1>10 DEF Progress

LEMMA OwnStatsEmpty ==
    ASSUME NEW r \in Requests, Ready(r), StatsEmpty(r)
    PROVE  Progress(r)'
<1> USE DEF FirstPcs, EarlyPcs, RagPcs
<1>1. /\ TextInv(r) /\ AnswerInv(r) /\ ing[r].pc = "statsEmpty" /\ IndInv
  BY ReadyFacts DEF StatsEmpty
<1>2. /\ ing'[r].pc = "done" /\ ing'[r].pieces = ing[r].pieces
      /\ ing'[r].response = ing[r].response
  BY <1>1, Moved DEF StatsEmpty
<1>3. /\ RowsInv(r)' /\ Text(r)' = Text(r)
      /\ files'[FileOf[r]].stats = [count |-> 0, chunking |-> "empty",
                                    embedding |-> "empty"]
  BY <1>1, <1>2, ReportKeeps DEF StatsEmpty
<1>4. Text(r) = <<>> /\ ing[r].pieces = Text(r) /\ KindOf[r] # "image"
  BY <1>1 DEF TextInv
<1>5. /\ Len(Text(r)') = 0 /\ Outcome(Text(r)') = "empty"
      /\ Behind(r)' = 0
  BY <1>2, <1>3, <1>4 DEF Outcome, Behind, LoopPcs
<1>6. TextInv(r)'
  BY <1>1, <1>2, <1>3, <1>4 DEF TextInv
<1>7. AnswerInv(r)'
  BY <1>1, <1>2, <1>3, <1>4, <1>5, MadeNone DEF AnswerInv
<1>8. IndexInv(r)'
  BY <1>2, <1>3, <1>5 DEF IndexInv
<1> QED
  BY <1>3, <1>6, <1>7, <1>8 DEF Progress

LEMMA OwnSaveChunk ==
    ASSUME NEW r \in Requests, Ready(r), SaveChunk(r)
    PROVE  Progress(r)'
<1> USE DEF FirstPcs, EarlyPcs, RagPcs
<1> DEFINE s == ing[r]
           c == ThisChunk(r)
<1>1. /\ RowsInv(r) /\ TextInv(r) /\ AnswerInv(r) /\ IndexInv(r)
      /\ s.pc = "saveChunk" /\ IndInv /\ FreshInv(r) /\ s.i \in Nat
  BY ReadyFacts DEF SaveChunk
<1>2. /\ FS!AdapterCreateChunk(c, s.pieces[s.i], r) /\ GoTo(r, "embed")
      /\ UNCHANGED <<vectors, disk>>
  <2>1. c[1] = r /\ c[2] = "rag" /\ c[3] = s.i
    BY DEF ThisChunk
  <2>2. c \notin DOMAIN chunks
    BY <1>1, <2>1 DEF FreshInv
  <2>3. FS!CanAdapterCreateChunk(c, r)
    BY <1>1, <2>2 DEF RowsInv, FS!CanAdapterCreateChunk, FS!CanCreateChunk
  <2> QED
    BY <2>3, ReadyFacts DEF SaveChunk
<1>3. /\ ing'[r].pc = "embed" /\ ing'[r].pieces = s.pieces
      /\ ing'[r].i = s.i /\ ing'[r].ids = s.ids
      /\ ing'[r].response = s.response
  BY <1>1, <1>2, Moved
<1>4. /\ UNCHANGED <<files, documents, vectors, disk>>
      /\ chunks' = FS!Put(chunks, c, s.pieces[s.i])
  BY <1>2 DEF FS!AdapterCreateChunk, FS!CreateChunk
<1>5. Text(r)' = Text(r) /\ Behind(r)' = Behind(r) /\ Behind(r) = s.i - 1
  BY <1>1, <1>3, <1>4 DEF Text, Behind, LoopPcs
<1>6. RowsInv(r)'
  BY <1>1, <1>3, <1>4 DEF RowsInv
<1>7. TextInv(r)'
  BY <1>1, <1>3, <1>5 DEF TextInv
<1>8. AnswerInv(r)'
  BY <1>1, <1>3, <1>5 DEF AnswerInv
<1>9. IndexInv(r)'
  <2>1. chunks'[c] = s.pieces[s.i]
    BY <1>4 DEF FS!Put
  <2>2. ThisChunk(r)' = c
    BY <1>3 DEF ThisChunk
  <2>3. s.pieces = Text(r)
    BY <1>1 DEF TextInv
  <2>4. ASSUME NEW k \in 1..Behind(r)
        PROVE  /\ <<r, "rag", k>> \in VS!VectorsOf(FileOf[r])'
               /\ chunks'[<<r, "rag", k>>] = Text(r)[k]
    <3>1. /\ <<r, "rag", k>> \in VS!VectorsOf(FileOf[r])
          /\ chunks[<<r, "rag", k>>] = Text(r)[k]
      BY <1>1 DEF IndexInv
    <3>2. <<r, "rag", k>> # c
      BY <1>1, <1>5 DEF ThisChunk
    <3>3. <<r, "rag", k>> \in DOMAIN chunks
      BY <1>1, <3>1 DEF VS!VectorsOf, IndInv, StoreInv
    <3>4. chunks'[<<r, "rag", k>>] = chunks[<<r, "rag", k>>]
      BY <1>4, <3>2, <3>3 DEF FS!Put
    <3> QED
      BY <1>4, <3>1, <3>4 DEF VS!VectorsOf
  <2> QED
    BY <1>3, <1>5, <2>1, <2>2, <2>3, <2>4 DEF IndexInv
<1> QED
  BY <1>6, <1>7, <1>8, <1>9 DEF Progress

LEMMA OwnEmbed ==
    ASSUME NEW r \in Requests, Ready(r), Embed(r)
    PROVE  Progress(r)'
<1> USE DEF FirstPcs, EarlyPcs, RagPcs
<1>1. /\ RowsInv(r) /\ TextInv(r) /\ AnswerInv(r) /\ IndexInv(r)
      /\ ing[r].pc = "embed" /\ IndInv
  BY ReadyFacts DEF Embed
<1>2. /\ ing'[r].pc = "upsert" /\ ing'[r].pieces = ing[r].pieces
      /\ ing'[r].i = ing[r].i /\ ing'[r].ids = ing[r].ids
      /\ ing'[r].response = ing[r].response
  <2>1. GoTo(r, "upsert")
    BY ReadyFacts DEF Embed
  <2> QED
    BY <1>1, <2>1, Moved
<1>3. UNCHANGED <<files, documents, chunks, vectors, disk>>
  BY DEF Embed, storeVars
<1>4. Text(r)' = Text(r) /\ Behind(r)' = Behind(r)
      /\ VS!VectorsOf(FileOf[r])' = VS!VectorsOf(FileOf[r])
      /\ ThisChunk(r)' = ThisChunk(r)
  BY <1>1, <1>2, <1>3 DEF Text, Behind, LoopPcs, VS!VectorsOf, ThisChunk
<1>5. RowsInv(r)'
  BY <1>1, <1>2, <1>3 DEF RowsInv
<1>6. TextInv(r)'
  BY <1>1, <1>2, <1>4 DEF TextInv
<1>7. AnswerInv(r)'
  BY <1>1, <1>2, <1>4 DEF AnswerInv
<1>8. IndexInv(r)'
  BY <1>1, <1>2, <1>3, <1>4 DEF IndexInv
<1> QED
  BY <1>5, <1>6, <1>7, <1>8 DEF Progress

LEMMA OwnUpsert ==
    ASSUME NEW r \in Requests, Ready(r), UpsertVector(r)
    PROVE  Progress(r)'
<1> USE DEF FirstPcs, EarlyPcs, RagPcs
<1> DEFINE s == ing[r]
           c == ThisChunk(r)
           t == WithId(s, c)
<1>1. /\ RowsInv(r) /\ TextInv(r) /\ AnswerInv(r) /\ IndexInv(r)
      /\ s.pc = "upsert" /\ IndInv /\ WorkerInv(r) /\ s.i \in Nat
      /\ s \in IngestStates
  BY ReadyFacts DEF UpsertVector
<1>2. /\ s.pieces = Text(r) /\ Text(r) \in Seq(Requests)
      /\ s.i \in 1..Len(Text(r))
  BY <1>1, ReadyFacts DEF TextInv, WorkerInv, LoopPcs
<1>3. /\ VS!Upsert(c, FileOf[r])
      /\ UNCHANGED <<files, documents, chunks, disk>>
  BY ReadyFacts DEF UpsertVector, storeVars
<1>4. ing' = [ing EXCEPT ![r] = NextPiece(t, "saveChunk", "stats")]
  BY DEF UpsertVector, NextChunk
<1>5. /\ t \in IngestStates /\ t.i = s.i /\ t.pieces = s.pieces
      /\ t.ids = Append(s.ids, c) /\ t.response = s.response
  <2>1. c \in ChunkIds
    BY <1>1 DEF ThisChunk, ChunkIds, Passes
  <2> QED
    BY <1>1, <2>1, WithIdFacts
<1> HIDE DEF t
<1>6. /\ s.i < Len(Text(r)) => ing'[r].pc = "saveChunk"
      /\ ~(s.i < Len(Text(r))) => ing'[r].pc = "stats"
  <2>1. IndInv /\ t \in IngestStates
    BY <1>1, <1>5
  <2>2. ing'[r].pc = IF t.i < Len(t.pieces) THEN "saveChunk" ELSE "stats"
    BY <1>4, <2>1, NextPieceTo
  <2> QED
    BY <1>2, <1>5, <2>2
<1>7. /\ ing'[r].pieces = s.pieces /\ ing'[r].i = s.i + 1
      /\ ing'[r].ids = Append(s.ids, c) /\ ing'[r].response = s.response
  <2>1. /\ ing'[r].pieces = t.pieces /\ ing'[r].i = t.i + 1
        /\ ing'[r].ids = t.ids /\ ing'[r].response = t.response
    BY <1>1, <1>4, <1>5, NextPieceMoved
  <2> QED
    BY <1>5, <2>1
<1>8. Text(r)' = Text(r)
  BY <1>3 DEF Text
<1>9. ing'[r].pc \in {"saveChunk", "stats"} /\ Behind(r)' = s.i
  BY <1>2, <1>6, <1>7, <1>8 DEF Behind, LoopPcs
<1>10. Behind(r) = s.i - 1
  BY <1>1 DEF Behind, LoopPcs
<1>11. ing'[r].ids = Made(r, "rag", Behind(r)')
  <2>1. s.ids = Made(r, "rag", Behind(r))
    BY <1>1 DEF AnswerInv
  <2>2. s.i - 1 \in Nat /\ (s.i - 1) + 1 = s.i
    BY <1>2
  <2>3. Append(Made(r, "rag", s.i - 1), <<r, "rag", (s.i - 1) + 1>>)
           = Made(r, "rag", (s.i - 1) + 1)
    BY <2>2, MadeMore
  <2> QED
    BY <1>7, <1>9, <1>10, <2>1, <2>2, <2>3 DEF ThisChunk
<1>12. RowsInv(r)'
  BY <1>1, <1>3, <1>9 DEF RowsInv
<1>13. TextInv(r)'
  BY <1>1, <1>7, <1>8, <1>9 DEF TextInv
<1>14. AnswerInv(r)'
  BY <1>1, <1>7, <1>9, <1>8, <1>11 DEF AnswerInv
<1>15. IndexInv(r)'
  <2>1. ASSUME NEW k \in 1..s.i
        PROVE  /\ <<r, "rag", k>> \in VS!VectorsOf(FileOf[r])'
               /\ chunks'[<<r, "rag", k>>] = Text(r)[k]
    <3>1. CASE k = s.i
      BY <1>1, <1>3, <3>1
      DEF IndexInv, ThisChunk, VS!Upsert, VS!VectorsOf
    <3>2. CASE k \in 1..(s.i - 1)
      <4>1. /\ <<r, "rag", k>> \in VS!VectorsOf(FileOf[r])
            /\ chunks[<<r, "rag", k>>] = Text(r)[k]
        BY <1>1, <1>10, <3>2 DEF IndexInv
      <4> QED
        BY <1>3, <4>1 DEF VS!Upsert, VS!VectorsOf
    <3> QED
      BY <1>1, <3>1, <3>2
  <2> QED
    BY <1>8, <1>9, <2>1 DEF IndexInv
<1> QED
  BY <1>12, <1>13, <1>14, <1>15 DEF Progress

LEMMA OwnUpdateStats ==
    ASSUME NEW r \in Requests, Ready(r), UpdateStats(r)
    PROVE  Progress(r)'
<1> USE DEF FirstPcs, EarlyPcs, RagPcs
<1> DEFINE ids == ing[r].ids
           n == Len(Text(r))
<1>1. /\ TextInv(r) /\ AnswerInv(r) /\ IndexInv(r) /\ ing[r].pc = "stats"
      /\ ing[r] \in IngestStates /\ ing \in [Requests -> IngestStates]
      /\ KindOf[r] \in {"text", "image"} /\ Text(r) \in Seq(Requests)
  BY ReadyFacts DEF UpdateStats
<1>2. /\ ing'[r].pc = "done" /\ ing'[r].pieces = ing[r].pieces
      /\ KindOf[r] = "text" /\ ~CustomChunker[r] => ing'[r].response = ids
      /\ ~(KindOf[r] = "text" /\ ~CustomChunker[r]) =>
            ing'[r].response = ing[r].response
  BY <1>1 DEF UpdateStats, IngestStates
<1>3. Behind(r) = n /\ n \in Nat
  BY <1>1 DEF Behind, LoopPcs
<1>4. ids = Made(r, "rag", n)
  BY <1>1, <1>3 DEF AnswerInv
<1>5. Len(ids) = n /\ Outcome(ids) = Outcome(Text(r))
  <2>1. Len(ids) = n
    BY <1>3, <1>4 DEF Made
  <2>2. ids \in Seq(ChunkIds)
    BY <1>1 DEF IngestStates
  <2>3. ids = <<>> <=> Text(r) = <<>>
    BY <1>1, <2>1, <2>2, EmptySeq
  <2> QED
    BY <2>1, <2>3 DEF Outcome
<1>6. /\ RowsInv(r)' /\ Text(r)' = Text(r)
      /\ UNCHANGED <<documents, chunks, vectors>>
      /\ files'[FileOf[r]].stats = [count |-> Len(ids), chunking |-> Outcome(ids),
                                    embedding |-> Outcome(ids)]
  BY <1>1, <1>2, ReportKeeps DEF UpdateStats
<1>7. TextInv(r)'
  BY <1>1, <1>2, <1>6 DEF TextInv
<1>8. AnswerInv(r)'
  BY <1>1, <1>2, <1>4, <1>6 DEF AnswerInv
<1>9. IndexInv(r)'
  <2>1. Behind(r)' = n /\ VS!VectorsOf(FileOf[r])' = VS!VectorsOf(FileOf[r])
    BY <1>2, <1>6 DEF Behind, LoopPcs, VS!VectorsOf
  <2> QED
    BY <1>1, <1>2, <1>3, <1>5, <1>6, <2>1 DEF IndexInv
<1> QED
  BY <1>6, <1>7, <1>8, <1>9 DEF Progress

LEMMA OwnProgress ==
    ASSUME NEW r \in Requests, Ready(r), LoadFile(r) \/ Ingest(r)
    PROVE  Progress(r)'
BY OwnLoad, OwnGetInfo, OwnCreateFile, OwnSaveDocument, OwnDescribe, OwnAppend,
   OwnCustomChunk, OwnCustomStats, OwnGetDocument, OwnStatsEmpty,
   OwnSaveChunk, OwnEmbed, OwnUpsert, OwnUpdateStats DEF Ingest

LEMMA CompleteInit == Init => CompleteInv
<1> SUFFICES ASSUME Init PROVE CompleteInv
  OBVIOUS
<1>1. /\ chunks = <<>> /\ disk = Paths
      /\ \A r \in Requests : /\ ing[r].pc = "load" /\ ing[r].ids = <<>>
                             /\ ing[r].response = <<>>
  BY DEF Init, FS!Init
<1>2. \A r \in Requests : FreshInv(r)
  BY <1>1 DEF FreshInv
<1>3. \A r \in Requests : Progress(r)
  BY <1>1 DEF Progress, RowsInv, TextInv, AnswerInv, IndexInv, EarlyPcs,
     FirstPcs, RagPcs
<1> QED
  BY <1>2, <1>3, LocksInit DEF CompleteInv

LEMMA CompleteAfterRequest ==
    ASSUME OwnFileIds, NothingFails, IndInv, CompleteInv, LocksInv',
           NEW r \in Requests, LoadFile(r) \/ Ingest(r)
    PROVE  CompleteInv'
<1>1. UNCHANGED del /\ \A q \in Requests \ {r} : Kept(q)
  BY RequestKeepsOthers, StepEffects DEF Effects
<1>2. ASSUME NEW q \in Requests PROVE FreshInv(q)'
  <2>1. CASE q = r
    BY <2>1, OwnFresh DEF CompleteInv
  <2>2. CASE q # r
    BY <1>1, <2>2 DEF Kept, CompleteInv, FreshInv
  <2> QED
    BY <2>1, <2>2
<1>3. ASSUME NEW q \in Requests, Quiet(FileOf[q])', EnableRAG[q],
             KindOf[q] # "video"
      PROVE  Progress(q)'
  <2>1. Progress(q)
    BY <1>1, <1>3 DEF CompleteInv, Quiet
  <2>2. CASE q = r
    BY <1>3, <2>1, <2>2, OwnProgress DEF Ready, CompleteInv
  <2>3. CASE q # r
    BY <1>1, <2>1, <2>3, ProgressKept
  <2> QED
    BY <2>2, <2>3
<1> QED
  BY <1>2, <1>3 DEF CompleteInv

LEMMA CompleteAfterDeletion ==
    ASSUME OwnPaths, NothingFails, IndInv, DiskInv, CompleteInv, LocksInv',
           NEW x \in Deletions, GetFile(x) \/ Delete(x)
    PROVE  CompleteInv'
<1>1. /\ UNCHANGED ing
      /\ del'[x].file = del[x].file
      /\ \A y \in Deletions \ {x} : del'[y] = del[y]
  BY GetFileMoves, DeleteMoves
<1>2. chunks' = chunks
  BY DEF GetFile, Delete, DeleteVectors, DeleteRows, CommitRows, DeleteDisk,
     storeVars, FS!DeleteDocuments, FS!DeleteFile, FS!RollbackDelete
<1>3. \A q \in Requests : FreshInv(q)'
  BY <1>1, <1>2 DEF CompleteInv, FreshInv
<1>4. ASSUME NEW q \in Requests, Quiet(FileOf[q])', EnableRAG[q],
             KindOf[q] # "video"
      PROVE  Progress(q)'
  <2>1. GetFile(x) => del[x].pc = "getFile"
    BY DEF GetFile
  <2>2. Delete(x) => del'[x].pc \notin {"getFile", "absent"}
    BY DeleteMoves
  <2>3. del[x].pc = "getFile" \/ FileOf[q] # del[x].file
    BY <1>1, <1>4, <2>1, <2>2 DEF Quiet
  <2>4. Quiet(FileOf[q])
    BY <1>1, <1>4, <2>3 DEF Quiet
  <2>5. Progress(q) /\ Kept(q)
    BY <1>4, <2>3, <2>4, DeletionKeepsOthers DEF CompleteInv
  <2> QED
    BY <2>5, ProgressKept
<1> QED
  BY <1>3, <1>4 DEF CompleteInv

LEMMA CompleteNext ==
    ASSUME OwnFileIds, OwnPaths, NothingFails
    PROVE  IndInv /\ DiskInv /\ CompleteInv /\ [Next]_vars => CompleteInv'
<1> SUFFICES ASSUME IndInv, DiskInv, CompleteInv, [Next]_vars PROVE CompleteInv'
  OBVIOUS
<1>1. LocksInv'
  BY LocksNext DEF CompleteInv
<1>2. CASE UNCHANGED vars
  <2>1. \A q \in Requests : FreshInv(q)'
    BY <1>2 DEF vars, CompleteInv, FreshInv
  <2>2. \A q \in Requests : Quiet(FileOf[q])' => Quiet(FileOf[q])
    BY <1>2 DEF vars, Quiet
  <2>3. \A q \in Requests : Kept(q)
    BY <1>2 DEF vars, Kept, VS!VectorsOf
  <2>4. \A q \in Requests : Progress(q) => Progress(q)'
    BY <2>3, ProgressKept
  <2> QED
    BY <1>1, <2>1, <2>2, <2>4 DEF CompleteInv
<1> QED
  BY <1>1, <1>2, CompleteAfterRequest, CompleteAfterDeletion DEF Next, Finished

(* Until a deletion of its file begins, an ended request has indexed every *)
(* piece of its document, an image's description included, and its stats   *)
(* and its response say so (processor.go, rag_processor.go), whatever the  *)
(* other requests and deletions do meanwhile, when nothing fails and no    *)
(* two requests have one FileID or name one path.                          *)
THEOREM IngestionCompletes ==
    ASSUME OwnFileIds, OwnPaths, NothingFails
    PROVE  Spec => []IngestionIsComplete
<1>1. IndInv /\ CompleteInv => IngestionIsComplete
  <2> SUFFICES ASSUME IndInv, CompleteInv, NEW r \in Requests,
                      ing[r].pc = "done", EnableRAG[r], KindOf[r] # "video",
                      \A x \in Deletions :
                         del[x].file = FileOf[r] =>
                            del[x].pc \in {"getFile", "absent"}
               PROVE
                  LET text == documents[r].content
                  IN  /\ KindOf[r] = "image" => text = <<r, r>>
                      /\ \A k \in DOMAIN text :
                            /\ <<r, "rag", k>> \in DOMAIN vectors
                            /\ chunks[<<r, "rag", k>>] = text[k]
                      /\ files[FileOf[r]].stats =
                            [count |-> Len(text), chunking |-> Outcome(text),
                             embedding |-> Outcome(text)]
                      /\ KindOf[r] = "text" =>
                            ing[r].response =
                               [k \in DOMAIN text |->
                                  <<r, IF CustomChunker[r] THEN "custom"
                                                           ELSE "rag", k>>]
    BY DEF IngestionIsComplete
  <2>1. TextInv(r) /\ AnswerInv(r) /\ IndexInv(r) /\ RowsInv(r)
    BY DEF CompleteInv, Quiet, Progress
  <2>2. Text(r) \in Seq(Requests)
    BY <2>1 DEF RowsInv, FirstPcs, Text, IndInv, StoreInv, FS!TypeOK,
       FS!DocumentRows
  <2>3. DOMAIN Text(r) = 1..Len(Text(r)) /\ Behind(r) = Len(Text(r))
    BY <2>2 DEF Behind, LoopPcs
  <2>4. KindOf[r] = "image" => Text(r) = <<r, r>>
    BY <2>1 DEF TextInv, EarlyPcs, FirstPcs
  <2>5. \A k \in DOMAIN Text(r) :
           /\ <<r, "rag", k>> \in DOMAIN vectors
           /\ chunks[<<r, "rag", k>>] = Text(r)[k]
    BY <2>1, <2>3 DEF IndexInv, VS!VectorsOf
  <2>6. files[FileOf[r]].stats = [count |-> Len(Text(r)),
                                  chunking |-> Outcome(Text(r)),
                                  embedding |-> Outcome(Text(r))]
    BY <2>1 DEF IndexInv
  <2>7. KindOf[r] = "text" =>
           ing[r].response =
              Made(r, IF CustomChunker[r] THEN "custom" ELSE "rag",
                   Len(Text(r)))
    BY <2>1 DEF AnswerInv, EarlyPcs, FirstPcs
  <2> QED
    BY <2>3, <2>4, <2>5, <2>6, <2>7 DEF Text, Made
<1>2. IndInv /\ DiskInv /\ CompleteInv /\ [Next]_vars => CompleteInv'
  BY CompleteNext
<1> QED
  BY <1>1, <1>2, Invariance, DiskInit, DiskNext, CompleteInit, PTL DEF Spec
=============================================================================
