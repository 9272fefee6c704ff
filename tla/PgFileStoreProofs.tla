------------------------- MODULE PgFileStoreProofs -------------------------
(***************************************************************************)
(* What PgFileStore guarantees for every set of ids and every sequence of  *)
(* calls: its tables keep their types, and its methods keep the references *)
(* between them intact.                                                    *)
(***************************************************************************)
EXTENDS PgFileStore, TLAPS

(* The texts a call may pass are sequences of segments. *)
LEMMA TextsAreSequences == Texts \subseteq Seq(Segments)
BY DEF Texts

(***************************************************************************)
(* Type correctness.                                                       *)
(***************************************************************************)
LEMMA InitType == Init => TypeOK
BY DEF Init, TypeOK, NoTransaction, Transactions, Optional

LEMMA CreateFileType ==
    ASSUME TypeOK, NEW f \in FileIds, NEW url \in Urls, CreateFile(f, url)
    PROVE  TypeOK'
<1>1. [url |-> url, stats |-> NoStats] \in FileRows
  BY DEF FileRows, NoStats, ChunkStats, Statuses
<1>2. DOMAIN files' \subseteq FileIds /\ files' \in [DOMAIN files' -> FileRows]
  BY <1>1 DEF Put, CreateFile, TypeOK
<1> QED
  BY <1>2 DEF CreateFile, TypeOK

LEMMA CreateDocumentType ==
    ASSUME TypeOK, NEW d \in DocumentIds, NEW f \in FileIds,
           NEW text \in Seq(Segments), CreateDocument(d, f, text)
    PROVE  TypeOK'
<1>1. [file |-> {f}, content |-> text] \in DocumentRows
  BY DEF DocumentRows, Optional
<1>2. /\ DOMAIN documents' \subseteq DocumentIds
      /\ documents' \in [DOMAIN documents' -> DocumentRows]
  BY <1>1 DEF Put, CreateDocument, TypeOK
<1> QED
  BY <1>2 DEF CreateDocument, TypeOK

LEMMA AppendToDocumentType ==
    ASSUME TypeOK, NEW f \in FileIds, NEW text \in Seq(Segments),
           AppendToDocument(f, text)
    PROVE  TypeOK'
<1>1. ASSUME NEW d \in DOMAIN documents
      PROVE  [documents[d] EXCEPT !.content = @ \o text] \in DocumentRows
  <2>1. documents[d] \in DocumentRows
    BY DEF TypeOK
  <2>2. documents[d].content \o text \in Seq(Segments)
    BY <2>1 DEF DocumentRows
  <2> QED
    BY <2>1, <2>2 DEF DocumentRows
<1>2. /\ DOMAIN documents' = DOMAIN documents
      /\ documents' \in [DOMAIN documents' -> DocumentRows]
  BY <1>1 DEF AppendToDocument, TypeOK
<1> QED
  BY <1>2 DEF AppendToDocument, TypeOK

LEMMA UpdateFileChunkStatsType ==
    ASSUME TypeOK, NEW f \in FileIds, NEW stats \in ChunkStats,
           UpdateFileChunkStats(f, stats)
    PROVE  TypeOK'
BY DEF UpdateFileChunkStats, TypeOK, FileRows

LEMMA CreateChunkType ==
    ASSUME TypeOK, NEW c \in ChunkIds, NEW s \in Segments,
           NEW fs \in SUBSET FileIds, NEW ds \in SUBSET DocumentIds,
           CreateChunk(c, s, fs, ds)
    PROVE  TypeOK'
<1>1. DOMAIN chunks' \subseteq ChunkIds /\ chunks' \in [DOMAIN chunks' -> Segments]
  BY DEF Put, CreateChunk, TypeOK
<1> QED
  BY <1>1 DEF CreateChunk, TypeOK

LEMMA DeleteDocumentsType ==
    ASSUME TypeOK, NEW s \in Sessions, NEW f \in FileIds, DeleteDocuments(s, f)
    PROVE  TypeOK'
<1>1. [file |-> {f}, docs |-> DocumentsOf(f)] \in Transactions
  BY DEF Transactions, Optional, DocumentsOf, TypeOK
<1> QED
  BY <1>1 DEF DeleteDocuments, TypeOK

LEMMA DetachedType ==
    ASSUME TypeOK, NEW s \in Sessions, NEW f \in FileIds
    PROVE  /\ DOMAIN Detached(s, f) \subseteq DocumentIds
           /\ Detached(s, f) \in [DOMAIN Detached(s, f) -> DocumentRows]
<1>1. ASSUME NEW d \in DOMAIN documents
      PROVE  /\ documents[d] \in DocumentRows
             /\ [documents[d] EXCEPT !.file = {}] \in DocumentRows
  BY DEF TypeOK, DocumentRows, Optional
<1> QED
  BY <1>1 DEF Detached, TypeOK

LEMMA DeleteFileType ==
    ASSUME TypeOK, NEW s \in Sessions, NEW f \in FileIds, DeleteFile(s, f)
    PROVE  TypeOK'
<1>1. /\ DOMAIN files' \subseteq FileIds
      /\ files' \in [DOMAIN files' -> FileRows]
  BY DEF Drop, Restrict, DeleteFile, TypeOK
<1>2. /\ DOMAIN documents' \subseteq DocumentIds
      /\ documents' \in [DOMAIN documents' -> DocumentRows]
  BY DetachedType DEF DeleteFile
<1>3. deleting' \in [Sessions -> Transactions]
  BY DEF DeleteFile, TypeOK, NoTransaction, Transactions, Optional
<1> QED
  BY <1>1, <1>2, <1>3 DEF DeleteFile, TypeOK

LEMMA RollbackDeleteType ==
    ASSUME TypeOK, NEW s \in Sessions, RollbackDelete(s)
    PROVE  TypeOK'
BY DEF RollbackDelete, TypeOK, NoTransaction, Transactions, Optional

LEMMA NextType == TypeOK /\ [Next]_storeVars => TypeOK'
<1> SUFFICES ASSUME TypeOK, [Next]_storeVars PROVE TypeOK'
  OBVIOUS
<1>1. ASSUME NEW f \in FileIds, NEW url \in Urls, CreateFile(f, url)
      PROVE  TypeOK'
  BY <1>1, CreateFileType
<1>2. ASSUME NEW f \in FileIds, NEW d \in DocumentIds, NEW text \in Texts,
             CreateDocument(d, f, text)
      PROVE  TypeOK'
  BY <1>2, CreateDocumentType, TextsAreSequences
<1>3. ASSUME NEW f \in FileIds, NEW s \in Segments, AppendToDocument(f, <<s>>)
      PROVE  TypeOK'
  <2>1. <<s>> \in Seq(Segments)
    OBVIOUS
  <2> QED
    BY <1>3, <2>1, AppendToDocumentType
<1>4. ASSUME NEW f \in FileIds, NEW status \in Statuses,
             UpdateFileChunkStats(f, [count |-> 1, chunking |-> status,
                                      embedding |-> status])
      PROVE  TypeOK'
  <2>1. [count |-> 1, chunking |-> status, embedding |-> status] \in ChunkStats
    BY DEF ChunkStats
  <2> QED
    BY <1>4, <2>1, UpdateFileChunkStatsType
<1>5. ASSUME NEW c \in ChunkIds, NEW s \in Segments,
             NEW fs \in Optional(FileIds), NEW ds \in Optional(DocumentIds),
             CreateChunk(c, s, fs, ds)
      PROVE  TypeOK'
  BY <1>5, CreateChunkType DEF Optional
<1>6. ASSUME NEW c \in ChunkIds, NEW s \in Segments, NEW d \in DocumentIds,
             AdapterCreateChunk(c, s, d)
      PROVE  TypeOK'
  <2>1. documents[d].file \in SUBSET FileIds
    BY <1>6 DEF AdapterCreateChunk, TypeOK, DocumentRows, Optional
  <2> QED
    BY <1>6, <2>1, CreateChunkType DEF AdapterCreateChunk
<1>7. ASSUME NEW s \in Sessions, NEW f \in FileIds,
             DeleteDocuments(s, f) \/ DeleteFile(s, f)
      PROVE  TypeOK'
  BY <1>7, DeleteDocumentsType, DeleteFileType
<1>8. ASSUME NEW s \in Sessions, RollbackDelete(s)
      PROVE  TypeOK'
  BY <1>8, RollbackDeleteType
<1>9. CASE UNCHANGED storeVars
  BY <1>9 DEF storeVars, TypeOK
<1> QED
  BY <1>1, <1>2, <1>3, <1>4, <1>5, <1>6, <1>7, <1>8, <1>9 DEF Next

(* The tables hold rows of their types after any sequence of calls. *)
THEOREM TypeCorrect == Spec => []TypeOK
<1>1. Init => TypeOK
  BY InitType
<1>2. TypeOK /\ [Next]_storeVars => TypeOK'
  BY NextType
<1> QED
  BY <1>1, <1>2, PTL DEF Spec

(***************************************************************************)
(* The references between the tables.  ReferentialIntegrity is inductive   *)
(* over TypeOK; ChunkHasOneParent needs it: a junction row's chunk exists, *)
(* so the chunk of a new row, which does not, has no row yet.              *)
(***************************************************************************)
Integrity == ReferentialIntegrity /\ ChunkHasOneParent

LEMMA InitIntegrity == Init => Integrity
BY DEF Init, Integrity, ReferentialIntegrity, ChunkHasOneParent

LEMMA CreateFileIntegrity ==
    ASSUME TypeOK, Integrity, NEW f \in FileIds, NEW url \in Urls,
           CreateFile(f, url)
    PROVE  Integrity'
BY DEF CreateFile, Put, TypeOK, Integrity, ReferentialIntegrity,
       ChunkHasOneParent

LEMMA CreateDocumentIntegrity ==
    ASSUME TypeOK, Integrity, NEW d \in DocumentIds, NEW f \in FileIds,
           NEW text, CreateDocument(d, f, text)
    PROVE  Integrity'
BY DEF CreateDocument, CanCreateDocument, Put, TypeOK, Integrity,
       ReferentialIntegrity, ChunkHasOneParent

LEMMA AppendToDocumentIntegrity ==
    ASSUME TypeOK, Integrity, NEW f \in FileIds, NEW text,
           AppendToDocument(f, text)
    PROVE  Integrity'
<1>1. /\ DOMAIN documents' = DOMAIN documents
      /\ \A d \in DOMAIN documents : documents'[d].file = documents[d].file
  BY DEF AppendToDocument, TypeOK, DocumentRows
<1> QED
  BY <1>1 DEF AppendToDocument, Integrity, ReferentialIntegrity,
              ChunkHasOneParent

LEMMA UpdateFileChunkStatsIntegrity ==
    ASSUME TypeOK, Integrity, NEW f \in FileIds, NEW stats,
           UpdateFileChunkStats(f, stats)
    PROVE  Integrity'
BY DEF UpdateFileChunkStats, TypeOK, Integrity, ReferentialIntegrity,
       ChunkHasOneParent

LEMMA CreateChunkIntegrity ==
    ASSUME TypeOK, Integrity, NEW c \in ChunkIds, NEW s \in Segments,
           NEW fs \in Optional(FileIds), NEW ds \in Optional(DocumentIds),
           CreateChunk(c, s, fs, ds)
    PROVE  Integrity'
<1> USE DEF CreateChunk, CanCreateChunk
<1>1. DOMAIN chunks' = DOMAIN chunks \cup {c} /\ c \notin DOMAIN chunks
  BY DEF Put
<1>2. ReferentialIntegrity'
  BY <1>1 DEF Integrity, ReferentialIntegrity
<1>3. \A p, q \in fileChunks' : p[2] = q[2] => p = q
  BY <1>1 DEF Integrity, ReferentialIntegrity, ChunkHasOneParent, Optional
<1>4. \A p, q \in docChunks' : p[2] = q[2] => p = q
  BY <1>1 DEF Integrity, ReferentialIntegrity, ChunkHasOneParent, Optional
<1> QED
  BY <1>2, <1>3, <1>4 DEF Integrity, ChunkHasOneParent

LEMMA DeleteFileIntegrity ==
    ASSUME TypeOK, Integrity, NEW s \in Sessions, NEW f \in FileIds,
           DeleteFile(s, f)
    PROVE  Integrity'
<1> USE DEF DeleteFile, Drop, Restrict
<1>1. DOMAIN documents' = DOMAIN documents \ deleting[s].docs
  BY DEF Detached
<1>2. ASSUME NEW d \in DOMAIN documents'
      PROVE  documents'[d].file \subseteq DOMAIN files'
  <2>1. d \in DOMAIN documents /\ d \notin deleting[s].docs
    BY <1>1
  <2>2. documents[d] \in DocumentRows
    BY <2>1 DEF TypeOK
  <2>3. CASE documents[d].file = {f}
    BY <2>1, <2>2, <2>3 DEF Detached, Late, DocumentsOf, DocumentRows
  <2>4. CASE documents[d].file # {f}
    <3>1. documents'[d] = documents[d]
      BY <2>1, <2>4 DEF Detached, Late, DocumentsOf
    <3>2. f \notin documents[d].file
      BY <2>2, <2>4 DEF DocumentRows, Optional
    <3> QED
      BY <2>1, <3>1, <3>2 DEF Integrity, ReferentialIntegrity
  <2> QED
    BY <2>3, <2>4
<1>3. \A fc \in fileChunks' : fc[1] \in DOMAIN files' /\ fc[2] \in DOMAIN chunks'
  BY DEF Integrity, ReferentialIntegrity
<1>4. \A dc \in docChunks' :
         dc[1] \in DOMAIN documents' /\ dc[2] \in DOMAIN chunks'
  BY <1>1 DEF Integrity, ReferentialIntegrity
<1> QED
  BY <1>2, <1>3, <1>4 DEF Integrity, ReferentialIntegrity, ChunkHasOneParent

LEMMA NextIntegrity == TypeOK /\ Integrity /\ [Next]_storeVars => Integrity'
<1> SUFFICES ASSUME TypeOK, Integrity, [Next]_storeVars PROVE Integrity'
  OBVIOUS
<1>1. ASSUME NEW f \in FileIds, NEW url \in Urls, CreateFile(f, url)
      PROVE  Integrity'
  BY <1>1, CreateFileIntegrity
<1>2. ASSUME NEW f \in FileIds, NEW d \in DocumentIds, NEW text \in Texts,
             CreateDocument(d, f, text)
      PROVE  Integrity'
  BY <1>2, CreateDocumentIntegrity
<1>3. ASSUME NEW f \in FileIds, NEW s \in Segments, AppendToDocument(f, <<s>>)
      PROVE  Integrity'
  BY <1>3, AppendToDocumentIntegrity
<1>4. ASSUME NEW f \in FileIds, NEW status \in Statuses,
             UpdateFileChunkStats(f, [count |-> 1, chunking |-> status,
                                      embedding |-> status])
      PROVE  Integrity'
  BY <1>4, UpdateFileChunkStatsIntegrity
<1>5. ASSUME NEW c \in ChunkIds, NEW s \in Segments,
             NEW fs \in Optional(FileIds), NEW ds \in Optional(DocumentIds),
             CreateChunk(c, s, fs, ds)
      PROVE  Integrity'
  BY <1>5, CreateChunkIntegrity
<1>6. ASSUME NEW c \in ChunkIds, NEW s \in Segments, NEW d \in DocumentIds,
             AdapterCreateChunk(c, s, d)
      PROVE  Integrity'
  <2>1. /\ documents[d].file \in Optional(FileIds)
        /\ {d} \in Optional(DocumentIds)
    BY <1>6 DEF AdapterCreateChunk, TypeOK, DocumentRows, Optional
  <2> QED
    BY <1>6, <2>1, CreateChunkIntegrity DEF AdapterCreateChunk
<1>7. ASSUME NEW s \in Sessions, NEW f \in FileIds, DeleteFile(s, f)
      PROVE  Integrity'
  BY <1>7, DeleteFileIntegrity
<1>8. CASE UNCHANGED <<files, documents, chunks, fileChunks, docChunks>>
  BY <1>8 DEF Integrity, ReferentialIntegrity, ChunkHasOneParent
<1> QED
  BY <1>1, <1>2, <1>3, <1>4, <1>5, <1>6, <1>7, <1>8
  DEF Next, storeVars, DeleteDocuments, RollbackDelete

(* No sequence of calls leaves a dangling reference, whatever they commit  *)
(* between the DELETEs of a DeleteFile: it removes all that refers to what *)
(* it removes, and every insert has its parents.                           *)
THEOREM ReferencesIntact == Spec => []ReferentialIntegrity
<1>1. Init => Integrity
  BY InitIntegrity
<1>2. TypeOK /\ Integrity /\ [Next]_storeVars => Integrity'
  BY NextIntegrity
<1>3. Integrity => ReferentialIntegrity
  BY DEF Integrity
<1> QED
  BY <1>1, <1>2, <1>3, TypeCorrect, PTL DEF Spec

(* A chunk belongs to at most one file and one document. *)
THEOREM OneParent == Spec => []ChunkHasOneParent
<1>1. Init => Integrity
  BY InitIntegrity
<1>2. TypeOK /\ Integrity /\ [Next]_storeVars => Integrity'
  BY NextIntegrity
<1>3. Integrity => ChunkHasOneParent
  BY DEF Integrity
<1> QED
  BY <1>1, <1>2, <1>3, TypeCorrect, PTL DEF Spec
=============================================================================
