-------------------------- MODULE IngestionProofs --------------------------
(***************************************************************************)
(* For any number of requests, files and deletions, any faults and any     *)
(* interleaving: types, the agreement of the two stores, and that text     *)
(* stays with its file.                                                    *)
(*                                                                         *)
(* The invariant has two halves.  StoreInv speaks of the stores alone; the *)
(* lemmas of the first section show that each store operation keeps it,    *)
(* under the conditions its callers meet.  WorkerInv says what a request   *)
(* knows in the middle of its work: above all, that the chunk it is about  *)
(* to index has a row.  No operation removes a chunk row, so that          *)
(* knowledge survives the steps of everyone else.                          *)
(***************************************************************************)
EXTENDS Ingestion, SequenceTheorems, TLAPS

\* The ids of a chunk's relatives are determined by its own id.
Links ==
    /\ \A d \in DOMAIN documents : documents[d].file \subseteq {FileOf[d]}
    /\ \A fc \in fileChunks : fc[1] = FileOf[fc[2][1]]
    /\ \A dc \in docChunks : dc[1] = dc[2][1]
    /\ \A c \in DOMAIN vectors : vectors[c] = FileOf[c[1]]

DocumentTexts ==
    \A d \in DOMAIN documents : \A k \in DOMAIN documents[d].content :
       FileOf[documents[d].content[k]] = FileOf[d]

ChunkTexts == \A c \in DOMAIN chunks : FileOf[chunks[c]] = FileOf[c[1]]

StoreInv ==
    /\ FS!TypeOK
    /\ VS!TypeOK
    /\ disk \subseteq Paths
    /\ Links
    /\ FS!ReferentialIntegrity
    /\ DOMAIN vectors \subseteq DOMAIN chunks
    /\ DocumentTexts
    /\ ChunkTexts

TextOf(r) == {text \in Seq(Requests) :
                 \A k \in DOMAIN text : FileOf[text[k]] = FileOf[r]}

\* A request in one of these steps is inside a loop over its pieces.
LoopPcs == {"customChunk", "saveChunk", "embed", "upsert"}

\* In one of these, it has yet to reach its first loop.
FirstPcs == {"load", "getInfo", "createFile", "saveDocument"}

WorkerInv(r) ==
    /\ ing[r].pieces \in TextOf(r)
    /\ ing[r].pc \in FirstPcs => ing[r].i = 1
    /\ ing[r].pc \in LoopPcs => ing[r].i \in 1..Len(ing[r].pieces)
    /\ ing[r].pc \in {"embed", "upsert"} => ThisChunk(r) \in DOMAIN chunks

IndInv ==
    /\ StoreInv
    /\ ing \in [Requests -> IngestStates]
    /\ \A r \in Requests : WorkerInv(r)
    /\ del \in [Deletions -> DeleteStates]

USE RequestsAssumption

-----------------------------------------------------------------------------
(* The store operations.                                                   *)

LEMMA CreateFileKeeps ==
    ASSUME StoreInv, NEW f \in Files, NEW u \in Paths,
           FS!CreateFile(f, u), UNCHANGED <<vectors, disk>>
    PROVE  StoreInv'
<1> USE DEF FS!CreateFile, FS!Put
<1>1. [url |-> u, stats |-> FS!NoStats] \in FS!FileRows
  BY DEF FS!FileRows, FS!NoStats, FS!ChunkStats, FS!Statuses
<1>2. FS!TypeOK'
  BY <1>1 DEF StoreInv, FS!TypeOK
<1>3. FS!ReferentialIntegrity'
  BY DEF StoreInv, FS!TypeOK, FS!ReferentialIntegrity
<1> QED
  BY <1>2, <1>3 DEF StoreInv, VS!TypeOK, Links, DocumentTexts, ChunkTexts

LEMMA CreateDocumentKeeps ==
    ASSUME StoreInv, NEW r \in Requests, NEW text \in TextOf(r),
           FS!CreateDocument(r, FileOf[r], text), UNCHANGED <<vectors, disk>>
    PROVE  StoreInv'
<1> USE DEF FS!CreateDocument, FS!CanCreateDocument, FS!Put
<1>1. [file |-> {FileOf[r]}, content |-> text] \in FS!DocumentRows
  BY DEF FS!DocumentRows, FS!Optional, TextOf
<1>2. FS!TypeOK'
  BY <1>1 DEF StoreInv, FS!TypeOK
<1>3. FS!ReferentialIntegrity'
  BY DEF StoreInv, FS!TypeOK, FS!ReferentialIntegrity
<1>4. Links'
  BY DEF StoreInv, Links
<1>5. DocumentTexts'
  BY DEF StoreInv, DocumentTexts, TextOf
<1> QED
  BY <1>2, <1>3, <1>4, <1>5 DEF StoreInv, VS!TypeOK, ChunkTexts

LEMMA AppendToDocumentKeeps ==
    ASSUME StoreInv, NEW r \in Requests,
           FS!AppendToDocument(FileOf[r], <<r>>), UNCHANGED <<vectors, disk>>
    PROVE  StoreInv'
<1> DEFINE New(d) == [documents[d] EXCEPT !.content = @ \o <<r>>]
<1>1. DOMAIN documents' = DOMAIN documents
  BY DEF FS!AppendToDocument
<1>2. ASSUME NEW d \in DOMAIN documents
      PROVE  /\ documents[d] \in FS!DocumentRows
             /\ d \in Requests
  BY DEF StoreInv, FS!TypeOK
<1>3. ASSUME NEW d \in DOMAIN documents
      PROVE  New(d) \in FS!DocumentRows /\ New(d).file = documents[d].file
  <2>1. documents[d].content \in Seq(Requests)
    BY <1>2 DEF FS!DocumentRows
  <2>2. documents[d].content \o <<r>> \in Seq(Requests)
    BY <2>1
  <2> QED
    BY <1>2, <2>2 DEF FS!DocumentRows
<1>4. FS!TypeOK'
  BY <1>1, <1>2, <1>3 DEF FS!AppendToDocument, StoreInv, FS!TypeOK
<1>5. \A d \in DOMAIN documents : documents'[d].file = documents[d].file
  BY <1>3 DEF FS!AppendToDocument
<1>6. FS!ReferentialIntegrity' /\ Links'
  BY <1>1, <1>5 DEF FS!AppendToDocument, StoreInv, FS!ReferentialIntegrity, Links
<1>7. ASSUME NEW d \in DOMAIN documents, NEW k \in DOMAIN documents'[d].content
      PROVE  FileOf[documents'[d].content[k]] = FileOf[d]
  <2>1. \A j \in DOMAIN documents[d].content :
           FileOf[documents[d].content[j]] = FileOf[d]
    BY DEF StoreInv, DocumentTexts
  <2>2. CASE d \notin FS!DocumentsOf(FileOf[r])
    <3>1. documents'[d] = documents[d]
      BY <2>2 DEF FS!AppendToDocument
    <3> QED
      BY <2>1, <3>1, <1>7
  <2>3. CASE d \in FS!DocumentsOf(FileOf[r])
    <3> DEFINE old == documents[d].content
    <3>1. old \in Seq(Requests)
      BY <1>2 DEF FS!DocumentRows
    <3>2. FileOf[r] = FileOf[d]
      BY <2>3 DEF FS!DocumentsOf, StoreInv, Links
    <3>3. documents'[d].content = old \o <<r>>
      BY <2>3, <1>2 DEF FS!AppendToDocument, FS!DocumentRows
    <3>4. k \in 1..(Len(old) + 1)
      BY <1>7, <3>1, <3>3
    <3>5. CASE k \in 1..Len(old)
      BY <3>1, <3>3, <3>5, <2>1
    <3>6. CASE k = Len(old) + 1
      <4>1. documents'[d].content[k] = r
        BY <3>1, <3>3, <3>6
      <4> QED
        BY <4>1, <3>2
    <3> QED
      BY <3>1, <3>4, <3>5, <3>6
  <2> QED
    BY <2>2, <2>3
<1>8. DocumentTexts'
  BY <1>1, <1>7 DEF DocumentTexts
<1> QED
  BY <1>4, <1>6, <1>8 DEF FS!AppendToDocument, StoreInv, VS!TypeOK, ChunkTexts

LEMMA UpdateStatsKeeps ==
    ASSUME StoreInv, NEW f \in Files, NEW stats \in FS!ChunkStats,
           FS!UpdateFileChunkStats(f, stats), UNCHANGED <<vectors, disk>>
    PROVE  StoreInv'
<1> USE DEF FS!UpdateFileChunkStats
<1>1. FS!TypeOK'
  BY DEF StoreInv, FS!TypeOK, FS!FileRows
<1>2. FS!ReferentialIntegrity'
  BY DEF StoreInv, FS!ReferentialIntegrity
<1> QED
  BY <1>1, <1>2 DEF StoreInv, VS!TypeOK, Links, DocumentTexts, ChunkTexts

LEMMA CreateChunkKeeps ==
    ASSUME StoreInv, NEW r \in Requests, NEW p \in Passes, NEW k \in Nat,
           NEW s \in Requests, FileOf[s] = FileOf[r],
           FS!CreateChunk(<<r, p, k>>, s, {FileOf[r]}, {r}),
           UNCHANGED <<vectors, disk>>
    PROVE  /\ StoreInv'
           /\ DOMAIN chunks' = DOMAIN chunks \cup {<<r, p, k>>}
<1> DEFINE c == <<r, p, k>>
<1> USE DEF FS!CreateChunk, FS!CanCreateChunk, FS!Put
<1>1. c \in ChunkIds /\ c[1] = r
  BY DEF ChunkIds
<1>2. DOMAIN chunks' = DOMAIN chunks \cup {c}
  OBVIOUS
<1>3. FS!TypeOK'
  BY <1>1 DEF StoreInv, FS!TypeOK
<1>4. FS!ReferentialIntegrity'
  BY <1>2 DEF StoreInv, FS!ReferentialIntegrity
<1>5. Links'
  BY <1>1 DEF StoreInv, Links
<1>6. ChunkTexts'
  BY <1>1 DEF StoreInv, ChunkTexts
<1> QED
  BY <1>2, <1>3, <1>4, <1>5, <1>6 DEF StoreInv, VS!TypeOK, DocumentTexts

\* What DeleteFile leaves of the documents, it leaves as they were, or with
\* no file.
LEMMA DetachedFacts ==
    ASSUME StoreInv, NEW x \in Deletions, NEW f \in Files,
           NEW d \in DOMAIN FS!Detached(x, f)
    PROVE  /\ d \in DOMAIN documents /\ d \notin deleting[x].docs
           /\ FS!Detached(x, f)[d] \in FS!DocumentRows
           /\ FS!Detached(x, f)[d].content = documents[d].content
           /\ FS!Detached(x, f)[d].file \subseteq documents[d].file
           /\ f \notin FS!Detached(x, f)[d].file
<1>1. d \in DOMAIN documents /\ d \notin deleting[x].docs
  BY DEF FS!Detached
<1>2. documents[d] \in FS!DocumentRows
  BY <1>1 DEF StoreInv, FS!TypeOK
<1>3. CASE documents[d].file = {f}
  <2>1. FS!Detached(x, f)[d] = [documents[d] EXCEPT !.file = {}]
    BY <1>1, <1>3 DEF FS!Detached, FS!Late, FS!DocumentsOf
  <2> QED
    BY <1>1, <1>2, <2>1 DEF FS!DocumentRows, FS!Optional
<1>4. CASE documents[d].file # {f}
  <2>1. FS!Detached(x, f)[d] = documents[d]
    BY <1>1, <1>4 DEF FS!Detached, FS!Late, FS!DocumentsOf
  <2> QED
    BY <1>1, <1>2, <1>4, <2>1 DEF FS!DocumentRows, FS!Optional
<1> QED
  BY <1>3, <1>4

LEMMA DeleteFileKeeps ==
    ASSUME StoreInv, NEW x \in Deletions, NEW f \in Files,
           FS!DeleteFile(x, f), UNCHANGED <<vectors, disk>>
    PROVE  StoreInv'
<1> USE DEF FS!DeleteFile, FS!Drop, FS!Restrict
<1>1. /\ documents' = FS!Detached(x, f)
      /\ DOMAIN documents' = DOMAIN documents \ deleting[x].docs
  BY DEF FS!Detached
<1>2. FS!TypeOK'
  <2>1. /\ DOMAIN documents' \subseteq Requests
        /\ documents' \in [DOMAIN documents' -> FS!DocumentRows]
    <3>1. documents' = [d \in DOMAIN documents' |-> documents'[d]]
      BY <1>1 DEF FS!Detached
    <3>2. \A d \in DOMAIN documents' : documents'[d] \in FS!DocumentRows
      BY <1>1, DetachedFacts
    <3> QED
      BY <1>1, <3>1, <3>2 DEF StoreInv, FS!TypeOK
  <2>2. deleting' \in [Deletions -> FS!Transactions]
    BY DEF StoreInv, FS!TypeOK, FS!NoTransaction, FS!Transactions, FS!Optional
  <2> QED
    BY <2>1, <2>2 DEF StoreInv, FS!TypeOK
<1>3. FS!ReferentialIntegrity'
  <2>1. \A d \in DOMAIN documents' : documents'[d].file \subseteq DOMAIN files'
    BY <1>1, DetachedFacts DEF StoreInv, FS!ReferentialIntegrity
  <2> QED
    BY <1>1, <2>1 DEF StoreInv, FS!ReferentialIntegrity
<1>4. Links' /\ DocumentTexts'
  <2>1. ASSUME NEW d \in DOMAIN documents'
        PROVE  /\ documents'[d].file \subseteq {FileOf[d]}
               /\ \A k \in DOMAIN documents'[d].content :
                     FileOf[documents'[d].content[k]] = FileOf[d]
    BY <1>1, DetachedFacts DEF StoreInv, Links, DocumentTexts
  <2> QED
    BY <2>1 DEF StoreInv, Links, DocumentTexts
<1> QED
  BY <1>2, <1>3, <1>4 DEF StoreInv, VS!TypeOK, ChunkTexts

LEMMA TransactionKeeps ==
    ASSUME StoreInv, NEW x \in Deletions, NEW f \in Files,
           FS!DeleteDocuments(x, f) \/ FS!RollbackDelete(x),
           UNCHANGED <<vectors, disk>>
    PROVE  StoreInv'
<1> USE DEF FS!DeleteDocuments, FS!RollbackDelete
<1>1. /\ FS!NoTransaction \in FS!Transactions
      /\ [file |-> {f}, docs |-> FS!DocumentsOf(f)] \in FS!Transactions
  BY DEF StoreInv, FS!TypeOK, FS!NoTransaction, FS!Transactions, FS!Optional,
         FS!DocumentsOf
<1>2. FS!TypeOK' /\ FS!ReferentialIntegrity'
  BY <1>1 DEF StoreInv, FS!TypeOK, FS!ReferentialIntegrity
<1> QED
  BY <1>2 DEF StoreInv, VS!TypeOK, Links, DocumentTexts, ChunkTexts

LEMMA UpsertKeeps ==
    ASSUME StoreInv, NEW c \in DOMAIN chunks, VS!Upsert(c, FileOf[c[1]]),
           UNCHANGED <<storeVars, disk>>
    PROVE  StoreInv'
<1>1. c \in ChunkIds /\ FileOf[c[1]] \in Files
  BY DEF StoreInv, FS!TypeOK, ChunkIds
<1>2. FS!TypeOK' /\ FS!ReferentialIntegrity'
  BY DEF storeVars, StoreInv, FS!TypeOK, FS!ReferentialIntegrity
<1>3. VS!TypeOK' /\ (DOMAIN vectors \subseteq DOMAIN chunks)'
  BY <1>1 DEF VS!Upsert, storeVars, StoreInv, VS!TypeOK
<1>4. Links'
  BY DEF VS!Upsert, storeVars, StoreInv, Links
<1> QED
  BY <1>2, <1>3, <1>4 DEF storeVars, StoreInv, DocumentTexts, ChunkTexts

LEMMA DeleteByFileIDKeeps ==
    ASSUME StoreInv, NEW f \in Files, VS!DeleteByFileID(f),
           UNCHANGED <<storeVars, disk>>
    PROVE  StoreInv'
<1> USE DEF VS!DeleteByFileID, VS!Restrict
<1>1. FS!TypeOK' /\ FS!ReferentialIntegrity'
  BY DEF storeVars, StoreInv, FS!TypeOK, FS!ReferentialIntegrity
<1>2. VS!TypeOK' /\ (DOMAIN vectors \subseteq DOMAIN chunks)' /\ Links'
  BY DEF storeVars, StoreInv, VS!TypeOK, Links
<1> QED
  BY <1>1, <1>2 DEF storeVars, StoreInv, DocumentTexts, ChunkTexts

LEMMA StoresUntouched ==
    ASSUME StoreInv, UNCHANGED <<storeVars, vectors>>, disk' \subseteq Paths
    PROVE  StoreInv'
<1>1. FS!TypeOK' /\ FS!ReferentialIntegrity'
  BY DEF storeVars, StoreInv, FS!TypeOK, FS!ReferentialIntegrity
<1> QED
  BY <1>1 DEF storeVars, StoreInv, VS!TypeOK, Links, DocumentTexts, ChunkTexts

-----------------------------------------------------------------------------
(* The steps of a request.  Each changes its own state, and may change the *)
(* stores by one of the operations above.                                  *)

\* What every step of a request must leave behind.
Worked ==
    /\ ing' \in [Requests -> IngestStates]
    /\ \A q \in Requests : WorkerInv(q)'

\* What a request knows is not disturbed by another one's step.
LEMMA OthersKeep ==
    ASSUME IndInv, NEW r \in Requests, NEW s \in IngestStates,
           ing' = [ing EXCEPT ![r] = s],
           DOMAIN chunks \subseteq DOMAIN chunks',
           s.pieces \in TextOf(r),
           s.pc \in FirstPcs => s.i = 1,
           s.pc \in LoopPcs => s.i \in 1..Len(s.pieces),
           s.pc \in {"embed", "upsert"} => <<r, "rag", s.i>> \in DOMAIN chunks'
    PROVE  Worked
<1>1. ing' \in [Requests -> IngestStates] /\ ing'[r] = s
  BY DEF IndInv
<1>2. WorkerInv(r)'
  BY <1>1 DEF WorkerInv, ThisChunk
<1>3. ASSUME NEW q \in Requests, q # r PROVE WorkerInv(q)'
  <2>1. ing'[q] = ing[q] /\ WorkerInv(q)
    BY <1>3 DEF IndInv
  <2> QED
    BY <2>1 DEF WorkerInv, ThisChunk
<1> QED
  BY <1>1, <1>2, <1>3 DEF Worked

\* A step that only moves a request to a step outside its loops.
LEMMA GoToKeeps ==
    ASSUME IndInv, NEW r \in Requests, NEW pc \in IngestPcs \ LoopPcs,
           pc \in FirstPcs => ing[r].pc \in FirstPcs,
           GoTo(r, pc), DOMAIN chunks \subseteq DOMAIN chunks'
    PROVE  Worked
<1> DEFINE s == [ing[r] EXCEPT !.pc = pc]
<1>1. /\ s \in IngestStates /\ s.pc = pc
      /\ s.pieces = ing[r].pieces /\ s.i = ing[r].i
  BY DEF IndInv, IngestStates
<1>2. ing' = [ing EXCEPT ![r] = s]
  BY DEF GoTo
<1>3. s.pieces \in TextOf(r) /\ (s.pc \in FirstPcs => s.i = 1)
  BY <1>1 DEF IndInv, WorkerInv
<1>4. s.pc \notin LoopPcs /\ s.pc \notin {"embed", "upsert"}
  BY <1>1 DEF LoopPcs
<1> HIDE DEF s
<1> QED
  BY <1>1, <1>2, <1>3, <1>4, OthersKeep

\* The loop goes on to its next piece, or ends.
LEMMA NextPieceKeeps ==
    ASSUME IndInv, NEW r \in Requests, NEW t \in IngestStates,
           NEW again \in {"customChunk", "saveChunk"},
           NEW after \in {"customStats", "stats"},
           t.pieces = ing[r].pieces, t.i = ing[r].i, ing[r].pc \in LoopPcs,
           ing' = [ing EXCEPT ![r] = NextPiece(t, again, after)],
           DOMAIN chunks \subseteq DOMAIN chunks'
    PROVE  Worked
<1> DEFINE s == NextPiece(t, again, after)
<1>1. /\ ing[r].pieces \in TextOf(r)
      /\ ing[r].i \in 1..Len(ing[r].pieces)
  BY DEF IndInv, WorkerInv
<1>2. /\ s \in IngestStates /\ s.pieces = t.pieces /\ s.i = t.i + 1
      /\ s.pc = IF t.i < Len(t.pieces) THEN again ELSE after
  <2> DEFINE pc == IF t.i < Len(t.pieces) THEN again ELSE after
  <2>1. pc \in IngestPcs
    BY DEF IngestPcs
  <2>2. s = [t EXCEPT !.i = t.i + 1, !.pc = pc]
    BY DEF NextPiece
  <2> HIDE DEF pc, s
  <2>3. s.pieces = t.pieces /\ s.i = t.i + 1 /\ s.pc = pc
    BY <2>2 DEF IngestStates
  <2>4. t.i + 1 \in Nat
    BY DEF IngestStates
  <2>5. s \in IngestStates
    BY <2>1, <2>2, <2>4 DEF IngestStates
  <2> QED
    BY <2>3, <2>5 DEF pc
<1>3. Len(t.pieces) \in Nat /\ t.i \in Nat
  BY DEF IngestStates
<1>4. s.pc \in LoopPcs => s.i \in 1..Len(s.pieces)
  BY <1>1, <1>2, <1>3 DEF LoopPcs
<1>5. s.pc \notin {"embed", "upsert"} /\ s.pc \notin FirstPcs
  BY <1>2 DEF FirstPcs
<1>6. s.pieces \in TextOf(r)
  BY <1>1, <1>2
<1>7. ing' = [ing EXCEPT ![r] = s]
  OBVIOUS
<1> HIDE DEF s
<1> QED
  BY <1>2, <1>4, <1>5, <1>6, <1>7, OthersKeep

(* What the loader makes of a file is a text of that file. *)
LEMMA ParsedIsText ==
    ASSUME NEW r \in Requests, NEW text \in ParsedTexts(r)
    PROVE  text \in TextOf(r)
<1>1. PICK n \in Nat : text = [k \in 1..n |-> r]
  BY RequestsAssumption DEF ParsedTexts
<1>2. text \in [1..n -> Requests]
  BY <1>1
<1>3. text \in Seq(Requests)
  BY <1>2
<1> QED
  BY <1>1, <1>3 DEF TextOf

LEMMA LoadFileKeeps ==
    ASSUME IndInv, NEW r \in Requests, LoadFile(r) PROVE IndInv'
<1> USE DEF LoadFile
<1>1. StoreInv' /\ UNCHANGED <<chunks, del>>
  BY StoresUntouched DEF IndInv, StoreInv, storeVars
<1>2. CASE GoTo(r, "failed")
  <2>1. "failed" \in IngestPcs \ LoopPcs /\ "failed" \notin FirstPcs
    BY DEF IngestPcs, LoopPcs, FirstPcs
  <2> QED
    BY <1>1, <1>2, <2>1, GoToKeeps DEF IndInv, Worked
<1>3. ASSUME NEW text \in ParsedTexts(r),
             ing' = [ing EXCEPT ![r].pc = "getInfo", ![r].pieces = text]
      PROVE  IndInv'
  <2> DEFINE s == [ing[r] EXCEPT !.pc = "getInfo", !.pieces = text]
  <2>1. text \in TextOf(r)
    BY ParsedIsText
  <2>2. /\ s \in IngestStates /\ s.pieces = text /\ s.pc = "getInfo"
        /\ s.i = ing[r].i
    BY <2>1 DEF TextOf, IndInv, IngestStates, IngestPcs
  <2>3. ing' = [ing EXCEPT ![r] = s]
    BY <1>3
  <2>4. ing[r].i = 1
    BY DEF IndInv, WorkerInv, FirstPcs
  <2>5. s.pc \notin LoopPcs /\ s.pc \notin {"embed", "upsert"}
    BY <2>2 DEF LoopPcs
  <2>6. s.pieces \in TextOf(r)
    BY <2>1, <2>2
  <2> HIDE DEF s
  <2> QED
    BY <1>1, <2>2, <2>3, <2>4, <2>5, <2>6, OthersKeep DEF IndInv, Worked
<1> QED
  BY <1>2, <1>3

LEMMA GetFileInfoKeeps ==
    ASSUME IndInv, NEW r \in Requests, GetFileInfo(r) PROVE IndInv'
<1> USE DEF GetFileInfo
<1>1. StoreInv' /\ UNCHANGED <<chunks, del>>
  BY StoresUntouched DEF IndInv, StoreInv, storeVars
<1>2. /\ {"createFile", "failed"} \subseteq IngestPcs \ LoopPcs
      /\ ing[r].pc \in FirstPcs
  BY DEF IngestPcs, LoopPcs, FirstPcs
<1>3. GoTo(r, "createFile") \/ GoTo(r, "failed")
  OBVIOUS
<1>4. Worked
  BY <1>1, <1>2, <1>3, GoToKeeps
<1> QED
  BY <1>1, <1>4 DEF IndInv, Worked

LEMMA CreateStepKeeps ==
    ASSUME IndInv, NEW r \in Requests, CreateFile(r) PROVE IndInv'
<1> USE DEF CreateFile
<1>1. /\ {"saveDocument", "failed"} \subseteq IngestPcs \ LoopPcs
      /\ ing[r].pc \in FirstPcs
  BY DEF IngestPcs, LoopPcs, FirstPcs
<1>2. StoreInv' /\ UNCHANGED <<chunks, del>>
  <2>1. CASE FS!CreateFile(FileOf[r], PathOf[r])
    <3>1. FileOf[r] \in Files /\ PathOf[r] \in Paths
      OBVIOUS
    <3> QED
      BY <2>1, <3>1, CreateFileKeeps DEF IndInv, FS!CreateFile
  <2>2. CASE UNCHANGED storeVars
    BY <2>2, StoresUntouched DEF IndInv, StoreInv, storeVars
  <2> QED
    BY <2>1, <2>2
<1>3. GoTo(r, "saveDocument") \/ GoTo(r, "failed")
  OBVIOUS
<1>4. Worked
  BY <1>1, <1>2, <1>3, GoToKeeps
<1> QED
  BY <1>2, <1>4 DEF IndInv, Worked

LEMMA SaveDocumentKeeps ==
    ASSUME IndInv, NEW r \in Requests, SaveDocument(r) PROVE IndInv'
<1> USE DEF SaveDocument
<1>1. /\ ing[r].pieces \in TextOf(r) /\ ing[r] \in IngestStates
      /\ ing[r].i = 1 /\ ing[r].pc \in FirstPcs
  BY DEF IndInv, WorkerInv, FirstPcs
<1>2. StoreInv' /\ UNCHANGED <<chunks, del>>
  <2>1. CASE FS!CreateDocument(r, FileOf[r], ing[r].pieces)
    BY <1>1, <2>1, CreateDocumentKeeps DEF IndInv, FS!CreateDocument
  <2>2. CASE UNCHANGED storeVars
    BY <2>2, StoresUntouched DEF IndInv, StoreInv, storeVars
  <2> QED
    BY <2>1, <2>2
<1>3. ASSUME NEW pc \in IngestPcs \ LoopPcs, GoTo(r, pc) PROVE Worked
  BY <1>1, <1>2, <1>3, GoToKeeps
<1>4. ASSUME GoTo(r, "failed") PROVE Worked
  BY <1>3, <1>4 DEF IngestPcs, LoopPcs
<1>5. ASSUME GoTo(r, AfterDocument(r)) PROVE Worked
  <2>1. CASE AfterDocument(r) \in IngestPcs \ LoopPcs
    BY <1>3, <1>5, <2>1
  <2>2. CASE AfterDocument(r) \notin IngestPcs \ LoopPcs
    <3> DEFINE s == [ing[r] EXCEPT !.pc = "customChunk"]
    <3>1. AfterDocument(r) = "customChunk" /\ ing[r].pieces # <<>>
      BY <2>2 DEF AfterDocument, IngestPcs, LoopPcs, Kinds
    <3>2. /\ s \in IngestStates /\ s.pc = "customChunk"
          /\ s.pieces = ing[r].pieces /\ s.i = 1
      BY <1>1 DEF IngestStates, IngestPcs
    <3>3. ing' = [ing EXCEPT ![r] = s]
      BY <1>5, <3>1 DEF GoTo
    <3>4. 1 \in 1..Len(ing[r].pieces)
      BY <1>1, <3>1, EmptySeq DEF IngestStates
    <3>5. s.pieces \in TextOf(r) /\ s.i \in 1..Len(s.pieces)
      BY <1>1, <3>2, <3>4
    <3>6. s.pc \notin {"embed", "upsert"} /\ s.pc \notin FirstPcs
      BY <3>2 DEF FirstPcs
    <3> HIDE DEF s
    <3> QED
      BY <1>2, <3>2, <3>3, <3>5, <3>6, OthersKeep
  <2> QED
    BY <2>1, <2>2
<1>6. Worked
  BY <1>4, <1>5
<1> QED
  BY <1>2, <1>6 DEF IndInv, Worked

LEMMA DescribeKeeps ==
    ASSUME IndInv, NEW r \in Requests, Describe(r) PROVE IndInv'
<1> USE DEF Describe
<1>1. StoreInv' /\ UNCHANGED <<chunks, del>>
  BY StoresUntouched DEF IndInv, StoreInv, storeVars
<1>2. {"append", "done"} \subseteq IngestPcs \ (LoopPcs \cup FirstPcs)
  BY DEF IngestPcs, LoopPcs, FirstPcs
<1>3. GoTo(r, "append") \/ GoTo(r, "done")
  OBVIOUS
<1>4. Worked
  BY <1>1, <1>2, <1>3, GoToKeeps
<1> QED
  BY <1>1, <1>4 DEF IndInv, Worked

LEMMA AppendDescriptionKeeps ==
    ASSUME IndInv, NEW r \in Requests, AppendDescription(r) PROVE IndInv'
<1> USE DEF AppendDescription
<1>1. StoreInv' /\ UNCHANGED <<chunks, del>>
  <2>1. CASE FS!AppendToDocument(FileOf[r], <<r>>)
    BY <2>1, AppendToDocumentKeeps DEF IndInv, FS!AppendToDocument
  <2>2. CASE UNCHANGED storeVars
    BY <2>2, StoresUntouched DEF IndInv, StoreInv, storeVars
  <2> QED
    BY <2>1, <2>2
<1>2. {"getDocument", "done"} \subseteq IngestPcs \ (LoopPcs \cup FirstPcs)
  BY DEF IngestPcs, LoopPcs, FirstPcs
<1>3. GoTo(r, "getDocument") \/ GoTo(r, "done")
  OBVIOUS
<1>4. Worked
  BY <1>1, <1>2, <1>3, GoToKeeps
<1> QED
  BY <1>1, <1>4 DEF IndInv, Worked

LEMMA WithIdKeeps ==
    ASSUME NEW s \in IngestStates, NEW c \in ChunkIds
    PROVE  /\ WithId(s, c) \in IngestStates
           /\ WithId(s, c).pieces = s.pieces /\ WithId(s, c).i = s.i
<1>1. Append(s.ids, c) \in Seq(ChunkIds)
  BY DEF IngestStates
<1> QED
  BY <1>1 DEF WithId, IngestStates

LEMMA CustomChunkKeeps ==
    ASSUME IndInv, NEW r \in Requests, CustomChunk(r) PROVE IndInv'
<1> DEFINE s == ing[r]
           k == s.i
           c == <<r, "custom", k>>
           Step(t) == ing' = [ing EXCEPT
                        ![r] = NextPiece(t, "customChunk", "customStats")]
<1>1. /\ s \in IngestStates /\ s.pieces \in TextOf(r)
      /\ s.pc \in LoopPcs /\ k \in 1..Len(s.pieces)
  BY DEF CustomChunk, IndInv, WorkerInv, LoopPcs
<1>2. k \in Nat /\ s.pieces[k] \in Requests /\ FileOf[s.pieces[k]] = FileOf[r]
  BY <1>1 DEF TextOf
<1>3. "custom" \in Passes /\ c \in ChunkIds
  BY <1>2 DEF Passes, ChunkIds
<1>4. StoreInv' /\ del' = del /\ DOMAIN chunks \subseteq DOMAIN chunks'
  <2>0. UNCHANGED <<vectors, disk, del>>
    BY DEF CustomChunk
  <2>1. CASE FS!CreateChunk(c, s.pieces[k], {FileOf[r]}, {r})
    <3> HIDE DEF s, k
    <3> QED
      BY <1>2, <1>3, <2>0, <2>1, CreateChunkKeeps DEF IndInv
  <2>2. CASE UNCHANGED storeVars
    BY <2>2, StoresUntouched DEF CustomChunk, IndInv, StoreInv, storeVars
  <2> QED
    BY <2>1, <2>2 DEF CustomChunk
<1>5. ASSUME NEW t \in IngestStates, t.pieces = s.pieces, t.i = k, Step(t)
      PROVE  Worked
  BY <1>1, <1>4, <1>5, NextPieceKeeps
<1>6. Step(WithId(s, c)) \/ Step(s)
  BY DEF CustomChunk
<1>7. Worked
  BY <1>1, <1>3, <1>5, <1>6, WithIdKeeps
<1> QED
  BY <1>4, <1>7 DEF IndInv, Worked

\* The stats a pass reports are well-typed, and reporting them changes no chunk.
LEMMA ReportStatsKeeps ==
    ASSUME IndInv, NEW r \in Requests, NEW stats \in FS!ChunkStats,
           ReportStats(r, stats), UNCHANGED <<vectors, disk>>
    PROVE  StoreInv' /\ chunks' = chunks
<1>1. FileOf[r] \in Files
  OBVIOUS
<1>2. CASE FS!UpdateFileChunkStats(FileOf[r], stats)
  BY <1>1, <1>2, UpdateStatsKeeps DEF IndInv, FS!UpdateFileChunkStats
<1>3. CASE UNCHANGED storeVars
  BY <1>3, StoresUntouched DEF IndInv, StoreInv, storeVars
<1> QED
  BY <1>2, <1>3 DEF ReportStats

\* A request outside its loops that keeps its pieces.
LEMMA OutsideKeeps ==
    ASSUME IndInv, NEW r \in Requests, NEW s \in IngestStates,
           ing' = [ing EXCEPT ![r] = s], s.pieces = ing[r].pieces,
           s.pc \notin LoopPcs, s.pc \notin FirstPcs,
           DOMAIN chunks \subseteq DOMAIN chunks'
    PROVE  Worked
<1>1. s.pieces \in TextOf(r)
  BY DEF IndInv, WorkerInv
<1>2. s.pc \notin {"embed", "upsert"}
  BY DEF LoopPcs
<1> QED
  BY <1>1, <1>2, OthersKeep

LEMMA CustomStatsKeeps ==
    ASSUME IndInv, NEW r \in Requests, CustomStats(r) PROVE IndInv'
<1> DEFINE s == [ing[r] EXCEPT !.pc = "getDocument", !.response = ing[r].ids]
           stats == [count |-> Len(ing[r].ids), chunking |-> "success",
                     embedding |-> "custom-chunker-pending"]
<1>1. ing[r] \in IngestStates
  BY DEF IndInv
<1>2. stats \in FS!ChunkStats
  BY <1>1 DEF IngestStates, FS!ChunkStats, FS!Statuses
<1>3. /\ s \in IngestStates /\ s.pieces = ing[r].pieces
      /\ s.pc = "getDocument"
  BY <1>1 DEF IngestStates, IngestPcs
<1>4. ing' = [ing EXCEPT ![r] = s]
  BY <1>1 DEF CustomStats, IndInv
<1>5. StoreInv' /\ UNCHANGED <<chunks, del>>
  BY <1>2, ReportStatsKeeps DEF CustomStats
<1>6. s.pc \notin LoopPcs /\ s.pc \notin FirstPcs
  BY <1>3 DEF LoopPcs, FirstPcs
<1> HIDE DEF s
<1>7. Worked
  BY <1>3, <1>4, <1>5, <1>6, OutsideKeeps
<1> QED
  BY <1>5, <1>7 DEF IndInv, Worked

LEMMA GetDocumentKeeps ==
    ASSUME IndInv, NEW r \in Requests, GetDocument(r) PROVE IndInv'
<1>1. StoreInv' /\ UNCHANGED <<chunks, del>>
  BY StoresUntouched DEF GetDocument, IndInv, StoreInv, storeVars
<1>2. ASSUME r \in DOMAIN documents,
             LET text == documents[r].content
             IN  ing' = [ing EXCEPT
                            ![r].pc = IF text = <<>> THEN "statsEmpty"
                                                     ELSE "saveChunk",
                            ![r].pieces = text, ![r].i = 1, ![r].ids = <<>>]
      PROVE  Worked
  <2> DEFINE text == documents[r].content
             pc == IF text = <<>> THEN "statsEmpty" ELSE "saveChunk"
             s == [ing[r] EXCEPT !.pc = pc, !.pieces = text, !.i = 1,
                                 !.ids = <<>>]
  <2>1. text \in Seq(Requests)
    BY <1>2 DEF IndInv, StoreInv, FS!TypeOK, FS!DocumentRows
  <2>2. text \in TextOf(r)
    BY <1>2, <2>1 DEF IndInv, StoreInv, DocumentTexts, TextOf
  <2>3. pc \in IngestPcs /\ ing[r] \in IngestStates
    BY DEF IngestPcs, IndInv
  <2>4. ing' = [ing EXCEPT ![r] = s]
    BY <1>2 DEF IndInv
  <2>5. <<>> \in Seq(ChunkIds)
    OBVIOUS
  <2>6. s \in IngestStates /\ s.pc = pc /\ s.pieces = text /\ s.i = 1
    <3> HIDE DEF pc, text
    <3> QED
      BY <2>1, <2>3, <2>5 DEF IngestStates
  <2>7. pc \in LoopPcs => 1 \in 1..Len(text)
    BY <2>1, EmptySeq DEF LoopPcs
  <2>8. pc \notin {"embed", "upsert"}
    OBVIOUS
  <2> HIDE DEF s, pc, text
  <2> QED
    BY <1>1, <2>2, <2>4, <2>6, <2>7, <2>8, OthersKeep
<1>3. ASSUME GoTo(r, "done") PROVE Worked
  BY <1>1, <1>3, GoToKeeps DEF IngestPcs, LoopPcs, FirstPcs
<1>4. Worked
  BY <1>2, <1>3 DEF GetDocument
<1> QED
  BY <1>1, <1>4 DEF IndInv, Worked

LEMMA StatsEmptyKeeps ==
    ASSUME IndInv, NEW r \in Requests, StatsEmpty(r) PROVE IndInv'
<1> DEFINE stats == [count |-> 0, chunking |-> "empty", embedding |-> "empty"]
<1>1. stats \in FS!ChunkStats
  BY DEF FS!ChunkStats, FS!Statuses
<1>2. StoreInv' /\ UNCHANGED <<chunks, del>>
  BY <1>1, ReportStatsKeeps DEF StatsEmpty
<1>3. Worked
  BY <1>2, GoToKeeps DEF StatsEmpty, IngestPcs, LoopPcs, FirstPcs
<1> QED
  BY <1>2, <1>3 DEF IndInv, Worked

LEMMA SaveChunkKeeps ==
    ASSUME IndInv, NEW r \in Requests, SaveChunk(r) PROVE IndInv'
<1> DEFINE s == ing[r]
           k == s.i
           c == <<r, "rag", k>>
<1>1. /\ s \in IngestStates /\ s.pieces \in TextOf(r)
      /\ s.pc \in LoopPcs /\ k \in 1..Len(s.pieces)
  BY DEF SaveChunk, IndInv, WorkerInv, LoopPcs
<1>2. k \in Nat /\ s.pieces[k] \in Requests /\ FileOf[s.pieces[k]] = FileOf[r]
  BY <1>1 DEF TextOf
<1>3. UNCHANGED <<vectors, disk, del>>
  BY DEF SaveChunk
<1>4. ASSUME FS!AdapterCreateChunk(c, s.pieces[k], r), GoTo(r, "embed")
      PROVE  StoreInv' /\ Worked
  <2> DEFINE t == [s EXCEPT !.pc = "embed"]
  <2>1. documents[r].file = {FileOf[r]}
    BY <1>4 DEF FS!AdapterCreateChunk, IndInv, StoreInv, Links
  <2>2. FS!CreateChunk(c, s.pieces[k], {FileOf[r]}, {r})
    BY <1>4, <2>1 DEF FS!AdapterCreateChunk
  <2>3. StoreInv' /\ DOMAIN chunks' = DOMAIN chunks \cup {c}
    <3>1. "rag" \in Passes
      BY DEF Passes
    <3> HIDE DEF s, k
    <3> QED
      BY <1>2, <1>3, <2>2, <3>1, CreateChunkKeeps DEF IndInv
  <2>4. /\ t \in IngestStates /\ t.pc = "embed"
        /\ t.pieces = s.pieces /\ t.i = k
    BY <1>1 DEF IngestStates, IngestPcs
  <2>5. ing' = [ing EXCEPT ![r] = t]
    BY <1>4 DEF GoTo
  <2>6. t.pieces \in TextOf(r) /\ t.i \in 1..Len(t.pieces)
    BY <1>1, <2>4
  <2>7. <<r, "rag", t.i>> \in DOMAIN chunks' /\ t.pc \notin FirstPcs
    BY <2>3, <2>4 DEF FirstPcs
  <2> HIDE DEF t
  <2>8. Worked
    BY <2>3, <2>4, <2>5, <2>6, <2>7, OthersKeep
  <2> QED
    BY <2>3, <2>8
<1>5. ASSUME ing' = [ing EXCEPT ![r] = NextChunk(s)], UNCHANGED storeVars
      PROVE  StoreInv' /\ Worked
  <2>1. StoreInv' /\ chunks' = chunks
    BY <1>3, <1>5, StoresUntouched DEF IndInv, StoreInv, storeVars
  <2>2. ing' = [ing EXCEPT ![r] = NextPiece(s, "saveChunk", "stats")]
    BY <1>5 DEF NextChunk
  <2> HIDE DEF s
  <2>3. s.pieces = ing[r].pieces /\ s.i = ing[r].i /\ ing[r].pc \in LoopPcs
    BY <1>1 DEF s
  <2> QED
    BY <1>1, <2>1, <2>2, <2>3, NextPieceKeeps
<1>6. StoreInv' /\ Worked
  BY <1>4, <1>5 DEF SaveChunk, ThisChunk
<1> QED
  BY <1>3, <1>6 DEF IndInv, Worked

LEMMA EmbedKeeps ==
    ASSUME IndInv, NEW r \in Requests, Embed(r) PROVE IndInv'
<1> DEFINE s == ing[r]
           t == [s EXCEPT !.pc = "upsert"]
<1>1. /\ s \in IngestStates /\ s.pieces \in TextOf(r)
      /\ s.pc \in LoopPcs /\ s.i \in 1..Len(s.pieces)
      /\ <<r, "rag", s.i>> \in DOMAIN chunks
  BY DEF Embed, IndInv, WorkerInv, LoopPcs, ThisChunk
<1>2. StoreInv' /\ UNCHANGED <<chunks, del>>
  BY StoresUntouched DEF Embed, IndInv, StoreInv, storeVars
<1>3. ASSUME GoTo(r, "upsert") PROVE Worked
  <2>1. /\ t \in IngestStates /\ t.pc = "upsert"
        /\ t.pieces = s.pieces /\ t.i = s.i
    BY <1>1 DEF IngestStates, IngestPcs
  <2>2. ing' = [ing EXCEPT ![r] = t]
    BY <1>3 DEF GoTo
  <2>3. /\ t.pieces \in TextOf(r) /\ t.i \in 1..Len(t.pieces)
        /\ <<r, "rag", t.i>> \in DOMAIN chunks'
    BY <1>1, <1>2, <2>1
  <2>4. t.pc \notin FirstPcs
    BY <2>1 DEF FirstPcs
  <2> HIDE DEF t
  <2> QED
    BY <1>2, <2>1, <2>2, <2>3, <2>4, OthersKeep
<1>4. ASSUME ing' = [ing EXCEPT ![r] = NextChunk(s)] PROVE Worked
  <2>1. ing' = [ing EXCEPT ![r] = NextPiece(s, "saveChunk", "stats")]
    BY <1>4 DEF NextChunk
  <2> QED
    BY <1>1, <1>2, <2>1, NextPieceKeeps
<1>5. Worked
  BY <1>3, <1>4 DEF Embed
<1> QED
  BY <1>2, <1>5 DEF IndInv, Worked

LEMMA UpsertVectorKeeps ==
    ASSUME IndInv, NEW r \in Requests, UpsertVector(r) PROVE IndInv'
<1> DEFINE s == ing[r]
           c == <<r, "rag", s.i>>
           t == WithId(s, c)
<1>1. /\ s \in IngestStates /\ s.pc \in LoopPcs
      /\ c \in DOMAIN chunks /\ c[1] = r
  BY DEF UpsertVector, IndInv, WorkerInv, LoopPcs, ThisChunk
<1>2. UNCHANGED <<storeVars, disk, del>>
  BY DEF UpsertVector
<1>3. StoreInv'
  <2>1. CASE VS!Upsert(c, FileOf[r])
    BY <1>1, <1>2, <2>1, UpsertKeeps DEF IndInv
  <2>2. CASE UNCHANGED vectors
    BY <1>2, <2>2, StoresUntouched DEF IndInv, StoreInv
  <2> QED
    BY <2>1, <2>2 DEF UpsertVector, ThisChunk
<1>4. c \in ChunkIds
  BY <1>1 DEF IndInv, StoreInv, FS!TypeOK
<1>5. t \in IngestStates /\ t.pieces = s.pieces /\ t.i = s.i
  BY <1>1, <1>4, WithIdKeeps
<1>6. ing' = [ing EXCEPT ![r] = NextPiece(t, "saveChunk", "stats")]
  BY DEF UpsertVector, NextChunk, ThisChunk
<1>7. chunks' = chunks
  BY <1>2 DEF storeVars
<1> HIDE DEF t
<1>8. Worked
  BY <1>1, <1>5, <1>6, <1>7, NextPieceKeeps
<1> QED
  BY <1>2, <1>3, <1>8 DEF IndInv, Worked

LEMMA UpdateStatsStepKeeps ==
    ASSUME IndInv, NEW r \in Requests, UpdateStats(r) PROVE IndInv'
<1> DEFINE ids == ing[r].ids
           stats == [count |-> Len(ids), chunking |-> Outcome(ids),
                     embedding |-> Outcome(ids)]
           response == IF KindOf[r] = "text" /\ ~CustomChunker[r]
                       THEN ids ELSE ing[r].response
           s == [ing[r] EXCEPT !.pc = "done", !.response = response]
<1>1. ing[r] \in IngestStates
  BY DEF IndInv
<1>2. /\ ids \in Seq(ChunkIds) /\ response \in Seq(ChunkIds)
      /\ Outcome(ids) \in FS!Statuses
  BY <1>1 DEF IngestStates, Outcome, FS!Statuses
<1>3. stats \in FS!ChunkStats
  BY <1>2 DEF FS!ChunkStats
<1>4. StoreInv' /\ UNCHANGED <<chunks, del>>
  BY <1>3, ReportStatsKeeps DEF UpdateStats
<1>5. ing' = [ing EXCEPT ![r] = s]
  BY DEF UpdateStats, IndInv
<1>6. s \in IngestStates /\ s.pieces = ing[r].pieces /\ s.pc = "done"
  <2> HIDE DEF response
  <2> QED
    BY <1>1, <1>2 DEF IngestStates, IngestPcs
<1>7. s.pc \notin LoopPcs /\ s.pc \notin FirstPcs
  BY <1>6 DEF LoopPcs, FirstPcs
<1> HIDE DEF s
<1>8. Worked
  BY <1>4, <1>5, <1>6, <1>7, OutsideKeeps
<1> QED
  BY <1>4, <1>8 DEF IndInv, Worked

-----------------------------------------------------------------------------
(* The steps of a deletion.                                                *)

LEMMA DeletionKeeps ==
    ASSUME IndInv, NEW x \in Deletions, GetFile(x) \/ Delete(x)
    PROVE  IndInv'
<1>1. del[x] \in DeleteStates /\ del[x].file \in Files
  BY DEF IndInv, DeleteStates
<1>2. UNCHANGED <<chunks, ing>>
  BY DEF GetFile, Delete, DeleteVectors, DeleteRows, CommitRows, DeleteDisk,
         storeVars, FS!DeleteDocuments, FS!DeleteFile, FS!RollbackDelete
<1>3. StoreInv'
  <2>1. CASE GetFile(x)
    BY <2>1, StoresUntouched DEF GetFile, IndInv, StoreInv
  <2>2. CASE DeleteVectors(x)
    <3>1. CASE VS!DeleteByFileID(del[x].file)
      BY <1>1, <2>2, <3>1, DeleteByFileIDKeeps DEF DeleteVectors, IndInv
    <3>2. CASE UNCHANGED vectors
      BY <2>2, <3>2, StoresUntouched DEF DeleteVectors, IndInv, StoreInv
    <3> QED
      BY <2>2, <3>1, <3>2 DEF DeleteVectors
  <2>3. CASE DeleteRows(x)
    <3>1. CASE FS!DeleteDocuments(x, del[x].file)
      BY <1>1, <2>3, <3>1, TransactionKeeps DEF DeleteRows, IndInv
    <3>2. CASE UNCHANGED storeVars
      BY <2>3, <3>2, StoresUntouched DEF DeleteRows, IndInv, StoreInv
    <3> QED
      BY <2>3, <3>1, <3>2 DEF DeleteRows
  <2>4. CASE CommitRows(x)
    <3>1. CASE FS!DeleteFile(x, del[x].file)
      BY <1>1, <2>4, <3>1, DeleteFileKeeps DEF CommitRows, IndInv
    <3>2. CASE FS!RollbackDelete(x)
      BY <1>1, <2>4, <3>2, TransactionKeeps DEF CommitRows, IndInv
    <3> QED
      BY <2>4, <3>1, <3>2 DEF CommitRows
  <2>5. CASE DeleteDisk(x)
    BY <2>5, StoresUntouched DEF DeleteDisk, IndInv, StoreInv
  <2> QED
    BY <2>1, <2>2, <2>3, <2>4, <2>5 DEF Delete
<1>4. del' \in [Deletions -> DeleteStates]
  <2>1. ASSUME NEW pc \in DeletePcs, DelGoTo(x, pc)
        PROVE  del' \in [Deletions -> DeleteStates]
    BY <1>1, <2>1 DEF DelGoTo, IndInv, DeleteStates
  <2>2. {"deleteRows", "commitRows", "deleteDisk", "done", "absent", "failed"}
           \subseteq DeletePcs
    BY DEF DeletePcs
  <2>3. ASSUME del[x].file \in DOMAIN files,
               del' = [del EXCEPT ![x].pc = "deleteVectors",
                                  ![x].url = {files[del[x].file].url}]
        PROVE  del' \in [Deletions -> DeleteStates]
    <3>1. {files[del[x].file].url} \subseteq Paths
      BY <2>3 DEF IndInv, StoreInv, FS!TypeOK, FS!FileRows
    <3> QED
      BY <1>1, <2>3, <3>1 DEF IndInv, DeleteStates, DeletePcs
  <2> QED
    BY <2>1, <2>2, <2>3
    DEF GetFile, Delete, DeleteVectors, DeleteRows, CommitRows, DeleteDisk
<1>5. \A r \in Requests : WorkerInv(r)'
  BY <1>2 DEF IndInv, WorkerInv, ThisChunk
<1> QED
  BY <1>2, <1>3, <1>4, <1>5 DEF IndInv

-----------------------------------------------------------------------------
LEMMA InitInv == Init => IndInv
<1> SUFFICES ASSUME Init PROVE IndInv
  OBVIOUS
<1> USE DEF Init, FS!Init, VS!Init
<1>1. StoreInv
  BY DEF StoreInv, FS!TypeOK, VS!TypeOK, Links, FS!ReferentialIntegrity,
         DocumentTexts, ChunkTexts, FS!NoTransaction, FS!Transactions,
         FS!Optional
<1>2. ing \in [Requests -> IngestStates]
  <2>1. <<>> \in Seq(Requests) /\ <<>> \in Seq(ChunkIds)
    OBVIOUS
  <2>2. [pc |-> "load", pieces |-> <<>>, i |-> 1, ids |-> <<>>,
         response |-> <<>>] \in IngestStates
    BY <2>1 DEF IngestStates, IngestPcs
  <2> QED
    BY <2>2
<1>3. ASSUME NEW r \in Requests PROVE WorkerInv(r)
  <2>1. ing[r].pc = "load" /\ ing[r].pieces = <<>> /\ ing[r].i = 1
    OBVIOUS
  <2>2. <<>> \in TextOf(r)
    BY DEF TextOf
  <2> QED
    BY <2>1, <2>2 DEF WorkerInv, LoopPcs
<1>4. del \in [Deletions -> DeleteStates]
  BY DEF DeleteStates, DeletePcs
<1> QED
  BY <1>1, <1>2, <1>3, <1>4 DEF IndInv

LEMMA NextInv == IndInv /\ [Next]_vars => IndInv'
<1> SUFFICES ASSUME IndInv, [Next]_vars PROVE IndInv'
  OBVIOUS
<1>1. ASSUME NEW r \in Requests, LoadFile(r) \/ Ingest(r) PROVE IndInv'
  BY <1>1, LoadFileKeeps, GetFileInfoKeeps, CreateStepKeeps, SaveDocumentKeeps,
     DescribeKeeps, AppendDescriptionKeeps, CustomChunkKeeps, CustomStatsKeeps,
     GetDocumentKeeps, StatsEmptyKeeps, SaveChunkKeeps, EmbedKeeps,
     UpsertVectorKeeps, UpdateStatsStepKeeps
  DEF Ingest
<1>2. ASSUME NEW x \in Deletions, GetFile(x) \/ Delete(x) PROVE IndInv'
  BY <1>2, DeletionKeeps
<1>3. ASSUME UNCHANGED vars PROVE IndInv'
  <2>1. StoreInv'
    BY <1>3, StoresUntouched DEF vars, storeVars, IndInv, StoreInv
  <2> QED
    BY <1>3, <2>1 DEF vars, IndInv, WorkerInv, ThisChunk
<1> QED
  BY <1>1, <1>2, <1>3 DEF Next, Finished

LEMMA Invariance == Spec => []IndInv
<1> QED
  BY InitInv, NextInv, PTL DEF Spec

(* Every variable keeps its type: no step of any request or deletion       *)
(* (processor.go, rag_processor.go) stores a value of another kind.        *)
THEOREM TypeCorrect == Spec => []TypeOK
<1>1. IndInv => TypeOK
  BY DEF IndInv, StoreInv, TypeOK
<1> QED
  BY <1>1, Invariance, PTL

(* PgFileStore and PgVectorStore agree at every moment, for any number of  *)
(* requests, retries under one FileID and deletions, interleaved in any    *)
(* way, whichever operations fail.  The document a chunk row is filed      *)
(* under is its request's, the file its document's, and the vector is      *)
(* filed under the request's FileID: IndInv carries these three equalities *)
(* from step to step, and the agreement follows.                           *)
THEOREM StoresAlwaysAgree == Spec => []StoresAgree
<1>1. IndInv => StoresAgree
  BY DEF IndInv, StoreInv, FS!ReferentialIntegrity, Links, StoresAgree
<1> QED
  BY <1>1, Invariance, PTL

(* Text stays with the file it was extracted from, though every text       *)
(* passes through the local state of a request and AppendToDocument        *)
(* extends documents that other requests made.                             *)
THEOREM TextNeverStrays == Spec => []TextStaysWithItsFile
<1>1. IndInv => TextStaysWithItsFile
  BY DEF IndInv, StoreInv, DocumentTexts, ChunkTexts, TextStaysWithItsFile
<1> QED
  BY <1>1, Invariance, PTL
=============================================================================
