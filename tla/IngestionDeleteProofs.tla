----------------------- MODULE IngestionDeleteProofs -----------------------
(***************************************************************************)
(* What DeleteFile leaves behind, for any number of requests, files and    *)
(* deletions.  Each theorem adds to IndInv of IngestionProofs what its     *)
(* property depends on: DiskInv, that a URL in the store, or read by a     *)
(* deletion, is one that a request has stored; GoneInv, that a file        *)
(* found by a deletion has no request left to create it; LeftInv, that the *)
(* requests of a file being deleted have ended.  The last two hold of the  *)
(* hosts their theorems name.  AskedInv, at the end, is what the promise   *)
(* of FileContract rests on; it holds of every host.                       *)
(***************************************************************************)
EXTENDS IngestionProofs

\* The request is past CreateFile.
Started(r) == ing[r].pc \notin {"load", "getInfo", "createFile"}

\* One request at most names the path.
OwnUrl(u) == \A q, r \in Requests : PathOf[q] = u /\ PathOf[r] = u => q = r

\* A request has stored the path with this file.
Stored(u, f) == \E q \in Requests : PathOf[q] = u /\ FileOf[q] = f /\ Started(q)

DiskInv ==
    /\ \A f \in DOMAIN files : Stored(files[f].url, f)
    /\ \A x \in Deletions : \A u \in del[x].url : Stored(u, del[x].file)
    /\ \A r \in Requests : OwnUrl(PathOf[r]) /\ ~Started(r) => PathOf[r] \in disk
    /\ \A f \in DOMAIN files : OwnUrl(files[f].url) => files[f].url \in disk
    /\ \A x \in Deletions : del[x].pc = "deleteDisk" =>
          \A f \in DOMAIN files :
             OwnUrl(files[f].url) => files[f].url \notin del[x].url

\* The deletion has found its file and not failed.
Found(x) ==
    del[x].pc \in {"deleteVectors", "deleteRows", "commitRows", "deleteDisk",
                   "done"}

GoneInv ==
    /\ \A r \in Requests : ~Started(r) => FileOf[r] \notin DOMAIN files
    /\ \A x \in Deletions : Found(x) =>
          \A r \in Requests : FileOf[r] = del[x].file => Started(r)
    /\ \A x \in Deletions : del[x].pc \in {"deleteDisk", "done"} =>
          del[x].file \notin DOMAIN files

LeftInv ==
    /\ \A x \in Deletions : Found(x) =>
          \A r \in Requests : FileOf[r] = del[x].file => Ended(r)
    /\ \A d \in DOMAIN documents : documents[d].file = {FileOf[d]}
    /\ \A x \in Deletions : del[x].pc = "commitRows" =>
          FS!DocumentsOf(del[x].file) \subseteq deleting[x].docs
    /\ \A x \in Deletions :
          del[x].pc \in {"deleteRows", "commitRows", "deleteDisk", "done"} =>
             VS!VectorsOf(del[x].file) = {}
    /\ \A x \in Deletions : del[x].pc \in {"deleteDisk", "done"} =>
          \A d \in DOMAIN documents : FileOf[d] # del[x].file

\* What the two theorems below require of the host.
OwnFileIds == \A r, s \in Requests : FileOf[r] = FileOf[s] => r = s

DeletesAfterIngestion == AwaitIngestion /\ ~Fails("deleteVectors")

USE RequestsAssumption

-----------------------------------------------------------------------------
(* The steps of a request, seen from a deletion.                           *)

\* The files keep their URLs.
SameUrls ==
    /\ DOMAIN files' = DOMAIN files
    /\ \A f \in DOMAIN files : files'[f].url = files[f].url

\* The documents keep their files.
SameOwners ==
    /\ DOMAIN documents' = DOMAIN documents
    /\ \A d \in DOMAIN documents : documents'[d].file = documents[d].file

LEMMA PcMoved ==
    ASSUME IndInv, NEW r \in Requests, NEW pc, GoTo(r, pc)
    PROVE  /\ ing'[r].pc = pc
           /\ \A q \in Requests \ {r} : ing'[q] = ing[q]
<1>1. ing[r] \in IngestStates /\ ing \in [Requests -> IngestStates]
  BY DEF IndInv
<1> QED
  BY <1>1 DEF GoTo, IngestStates

LEMMA NextPiecePc ==
    ASSUME NEW t \in IngestStates, NEW again, NEW after
    PROVE  NextPiece(t, again, after).pc \in {again, after}
<1> DEFINE pc == IF t.i < Len(t.pieces) THEN again ELSE after
<1>1. NextPiece(t, again, after) = [t EXCEPT !.i = t.i + 1, !.pc = pc]
  BY DEF NextPiece
<1>2. pc \in {again, after}
  OBVIOUS
<1> HIDE DEF pc
<1> QED
  BY <1>1, <1>2 DEF IngestStates

LEMMA ReportKeepsUrls ==
    ASSUME IndInv, NEW r \in Requests, NEW stats, ReportStats(r, stats)
    PROVE  SameUrls /\ UNCHANGED <<documents, deleting>>
<1>1. \A f \in DOMAIN files : files[f] \in FS!FileRows
  BY DEF IndInv, StoreInv, FS!TypeOK
<1> QED
  BY <1>1 DEF ReportStats, FS!UpdateFileChunkStats, FS!FileRows, storeVars,
              SameUrls

\* A step of a request on its files, documents and vectors.
Effects(r) ==
    /\ ~Ended(r)
    /\ \A q \in Requests \ {r} : ing'[q] = ing[q]
    /\ Started(r) => ing'[r].pc \notin {"load", "getInfo", "createFile"}
    /\ UNCHANGED <<deleting, disk, del>>
    /\ \/ SameUrls
       \/ /\ ~Started(r) /\ ing'[r].pc \notin {"load", "getInfo", "createFile"}
          /\ FS!CreateFile(FileOf[r], PathOf[r])
    /\ \/ SameOwners
       \/ FS!CreateDocument(r, FileOf[r], ing[r].pieces)
    /\ vectors' = vectors \/ VS!Upsert(ThisChunk(r), FileOf[r])

LEMMA StepEffects ==
    ASSUME IndInv, NEW r \in Requests, LoadFile(r) \/ Ingest(r)
    PROVE  Effects(r)
<1> USE DEF Ended, Started
<1>0. ing \in [Requests -> IngestStates] /\ ing[r] \in IngestStates
  BY DEF IndInv
<1>1. UNCHANGED files => SameUrls
  BY DEF SameUrls
<1>2. UNCHANGED documents => SameOwners
  BY DEF SameOwners
<1>3. CASE LoadFile(r)
  <2>1. \A q \in Requests \ {r} : ing'[q] = ing[q]
    BY <1>0, <1>3 DEF LoadFile, GoTo
  <2> QED
    BY <1>1, <1>2, <1>3, <2>1 DEF LoadFile, storeVars, Effects
<1>4. CASE GetFileInfo(r) \/ CreateFile(r)
  <2>1. \A q \in Requests \ {r} : ing'[q] = ing[q]
    BY <1>4, PcMoved DEF GetFileInfo, CreateFile
  <2>2. CASE GetFileInfo(r)
    BY <1>1, <1>2, <2>1, <2>2 DEF GetFileInfo, storeVars, Effects
  <2>3. CASE CreateFile(r)
    <3>1. ing'[r].pc \in {"saveDocument", "failed"}
      BY <2>3, PcMoved DEF CreateFile
    <3> QED
      BY <1>1, <1>2, <2>1, <2>3, <3>1
      DEF CreateFile, FS!CreateFile, storeVars, Effects
  <2> QED
    BY <1>4, <2>2, <2>3
<1>5. CASE SaveDocument(r)
  <2>1. AfterDocument(r) \notin {"load", "getInfo", "createFile"}
    BY DEF AfterDocument
  <2>2. /\ ing'[r].pc \notin {"load", "getInfo", "createFile"}
        /\ \A q \in Requests \ {r} : ing'[q] = ing[q]
    BY <1>5, <2>1, PcMoved DEF SaveDocument
  <2> QED
    BY <1>1, <1>2, <1>5, <2>2
    DEF SaveDocument, FS!CreateDocument, storeVars, Effects
<1>6. CASE Describe(r)
  <2>1. /\ ing'[r].pc \in {"append", "done"}
        /\ \A q \in Requests \ {r} : ing'[q] = ing[q]
    BY <1>6, PcMoved DEF Describe
  <2> QED
    BY <1>1, <1>2, <1>6, <2>1 DEF Describe, storeVars, Effects
<1>7. CASE AppendDescription(r)
  <2>1. /\ ing'[r].pc \in {"getDocument", "done"}
        /\ \A q \in Requests \ {r} : ing'[q] = ing[q]
    BY <1>7, PcMoved DEF AppendDescription
  <2>2. ASSUME FS!AppendToDocument(FileOf[r], <<r>>) PROVE SameOwners
    <3>1. \A d \in DOMAIN documents : documents[d] \in FS!DocumentRows
      BY DEF IndInv, StoreInv, FS!TypeOK
    <3> QED
      BY <2>2, <3>1 DEF FS!AppendToDocument, FS!DocumentRows, SameOwners
  <2> QED
    BY <1>1, <1>2, <1>7, <2>1, <2>2
    DEF AppendDescription, FS!AppendToDocument, storeVars, Effects
<1>8. CASE CustomChunk(r)
  <2>1. WithId(ing[r], <<r, "custom", ing[r].i>>) \in IngestStates
    BY <1>0, WithIdKeeps DEF IngestStates, ChunkIds, Passes
  <2>2. PICK t \in IngestStates :
           ing' = [ing EXCEPT
                      ![r] = NextPiece(t, "customChunk", "customStats")]
    BY <1>0, <1>8, <2>1 DEF CustomChunk
  <2>3. /\ ing'[r].pc \in {"customChunk", "customStats"}
        /\ \A q \in Requests \ {r} : ing'[q] = ing[q]
    BY <1>0, <2>2, NextPiecePc
  <2> QED
    BY <1>1, <1>2, <1>8, <2>3
    DEF CustomChunk, FS!CreateChunk, storeVars, Effects
<1>9. CASE CustomStats(r)
  <2>1. /\ ing'[r].pc = "getDocument"
        /\ \A q \in Requests \ {r} : ing'[q] = ing[q]
    BY <1>0, <1>9 DEF CustomStats, IngestStates
  <2> QED
    BY <1>2, <1>9, <2>1, ReportKeepsUrls DEF CustomStats, Effects
<1>10. CASE GetDocument(r)
  <2>1. \A q \in Requests \ {r} : ing'[q] = ing[q]
    BY <1>0, <1>10 DEF GetDocument, GoTo
  <2>2. ing'[r].pc \in {"statsEmpty", "saveChunk", "done"}
    <3>1. CASE GoTo(r, "done")
      BY <3>1, PcMoved
    <3>2. CASE ~GoTo(r, "done")
      <4> DEFINE text == documents[r].content
                 pc == IF text = <<>> THEN "statsEmpty" ELSE "saveChunk"
      <4>1. ing' = [ing EXCEPT ![r] = [ing[r] EXCEPT
                       !.pc = pc, !.pieces = text, !.i = 1, !.ids = <<>>]]
        BY <1>0, <1>10, <3>2 DEF GetDocument
      <4>2. pc \in {"statsEmpty", "saveChunk"}
        OBVIOUS
      <4> HIDE DEF pc, text
      <4>3. ing'[r].pc = pc
        BY <1>0, <4>1 DEF IngestStates
      <4> QED
        BY <4>2, <4>3
    <3> QED
      BY <3>1, <3>2
  <2> QED
    BY <1>1, <1>2, <1>10, <2>1, <2>2 DEF GetDocument, storeVars, Effects
<1>11. CASE StatsEmpty(r)
  <2>1. /\ ing'[r].pc = "done"
        /\ \A q \in Requests \ {r} : ing'[q] = ing[q]
    BY <1>11, PcMoved DEF StatsEmpty
  <2> QED
    BY <1>2, <1>11, <2>1, ReportKeepsUrls DEF StatsEmpty, Effects
<1>12. CASE SaveChunk(r)
  <2>1. /\ ing'[r].pc \in {"embed", "saveChunk", "stats"}
        /\ \A q \in Requests \ {r} : ing'[q] = ing[q]
    <3>1. CASE GoTo(r, "embed")
      BY <3>1, PcMoved
    <3>2. CASE ing' = [ing EXCEPT ![r] = NextChunk(ing[r])]
      BY <1>0, <3>2, NextPiecePc DEF NextChunk
    <3> QED
      BY <1>12, <3>1, <3>2 DEF SaveChunk
  <2> QED
    BY <1>1, <1>2, <1>12, <2>1
    DEF SaveChunk, FS!AdapterCreateChunk, FS!CreateChunk, storeVars, Effects
<1>13. CASE Embed(r)
  <2>1. /\ ing'[r].pc \in {"upsert", "saveChunk", "stats"}
        /\ \A q \in Requests \ {r} : ing'[q] = ing[q]
    <3>1. CASE GoTo(r, "upsert")
      BY <3>1, PcMoved
    <3>2. CASE ing' = [ing EXCEPT ![r] = NextChunk(ing[r])]
      BY <1>0, <3>2, NextPiecePc DEF NextChunk
    <3> QED
      BY <1>13, <3>1, <3>2 DEF Embed
  <2> QED
    BY <1>1, <1>2, <1>13, <2>1 DEF Embed, storeVars, Effects
<1>14. CASE UpsertVector(r)
  <2>1. WithId(ing[r], ThisChunk(r)) \in IngestStates
    BY <1>0, WithIdKeeps DEF IngestStates, ChunkIds, Passes, ThisChunk
  <2>2. /\ ing'[r].pc \in {"saveChunk", "stats"}
        /\ \A q \in Requests \ {r} : ing'[q] = ing[q]
    BY <1>0, <1>14, <2>1, NextPiecePc DEF UpsertVector, NextChunk
  <2> QED
    BY <1>1, <1>2, <1>14, <2>2 DEF UpsertVector, storeVars, Effects
<1>15. CASE UpdateStats(r)
  <2>1. /\ ing'[r].pc = "done"
        /\ \A q \in Requests \ {r} : ing'[q] = ing[q]
    BY <1>0, <1>15 DEF UpdateStats, IngestStates
  <2> QED
    BY <1>2, <1>15, <2>1, ReportKeepsUrls DEF UpdateStats, Effects
<1> QED
  BY <1>3, <1>4, <1>5, <1>6, <1>7, <1>8, <1>9, <1>10, <1>11, <1>12, <1>13,
     <1>14, <1>15 DEF Ingest

-----------------------------------------------------------------------------
(* The steps of a deletion.                                                *)

LEMMA DelMoved ==
    ASSUME IndInv, NEW x \in Deletions, NEW pc, DelGoTo(x, pc)
    PROVE  /\ del'[x].pc = pc
           /\ del'[x].file = del[x].file /\ del'[x].url = del[x].url
           /\ \A y \in Deletions \ {x} : del'[y] = del[y]
<1>1. del[x] \in DeleteStates /\ del \in [Deletions -> DeleteStates]
  BY DEF IndInv
<1> QED
  BY <1>1 DEF DelGoTo, DeleteStates

\* What a deletion finds, it finds in the store.
FindsFile(x) ==
    /\ del[x].file \in DOMAIN files
    /\ del'[x].pc = "deleteVectors"
    /\ del'[x].url = {files[del[x].file].url}

LEMMA GetFileMoves ==
    ASSUME IndInv, NEW x \in Deletions, GetFile(x)
    PROVE  /\ UNCHANGED <<storeVars, vectors, disk, ing>>
           /\ del'[x].file = del[x].file
           /\ \A y \in Deletions \ {x} : del'[y] = del[y]
           /\ \/ FindsFile(x)
              \/ /\ del'[x].pc \in {"absent", "failed"}
                 /\ del'[x].url = del[x].url
<1>1. del[x] \in DeleteStates /\ del \in [Deletions -> DeleteStates]
  BY DEF IndInv
<1>2. CASE DelGoTo(x, "absent") \/ DelGoTo(x, "failed")
  BY <1>2, DelMoved DEF GetFile
<1>3. CASE /\ del[x].file \in DOMAIN files
           /\ del' = [del EXCEPT ![x].pc = "deleteVectors",
                                 ![x].url = {files[del[x].file].url}]
  BY <1>1, <1>3 DEF GetFile, DeleteStates, FindsFile
<1> QED
  BY <1>2, <1>3 DEF GetFile

\* Its later steps, each with the part of the stores it changes.
LEMMA DeleteMoves ==
    ASSUME IndInv, NEW x \in Deletions, Delete(x)
    PROVE  /\ UNCHANGED ing
           /\ del'[x].file = del[x].file /\ del'[x].url = del[x].url
           /\ \A y \in Deletions \ {x} : del'[y] = del[y]
           /\ \/ /\ del[x].pc = "deleteVectors" /\ del'[x].pc = "deleteRows"
                 /\ \/ VS!DeleteByFileID(del[x].file)
                    \/ Fails("deleteVectors") /\ UNCHANGED vectors
                 /\ UNCHANGED <<storeVars, disk>>
              \/ /\ del[x].pc = "deleteRows" /\ del'[x].pc = "commitRows"
                 /\ FS!DeleteDocuments(x, del[x].file)
                 /\ UNCHANGED <<vectors, disk>>
              \/ /\ del[x].pc = "commitRows" /\ del'[x].pc = "deleteDisk"
                 /\ FS!DeleteFile(x, del[x].file)
                 /\ UNCHANGED <<vectors, disk>>
              \/ /\ del[x].pc = "deleteDisk" /\ del'[x].pc = "done"
                 /\ disk' = disk \ del[x].url \/ UNCHANGED disk
                 /\ UNCHANGED <<storeVars, vectors>>
              \/ /\ del[x].pc \in {"deleteRows", "commitRows"}
                 /\ del'[x].pc = "failed"
                 /\ UNCHANGED <<files, documents, vectors, disk>>
                 /\ \A y \in Deletions \ {x} : deleting'[y] = deleting[y]
<1>1. CASE DeleteVectors(x)
  BY <1>1, DelMoved DEF DeleteVectors
<1>2. CASE DeleteRows(x)
  BY <1>2, DelMoved DEF DeleteRows, storeVars
<1>3. CASE CommitRows(x)
  <2>1. CASE FS!DeleteFile(x, del[x].file) /\ DelGoTo(x, "deleteDisk")
    BY <1>3, <2>1, DelMoved DEF CommitRows
  <2>2. CASE FS!RollbackDelete(x) /\ DelGoTo(x, "failed")
    <3>1. \A y \in Deletions \ {x} : deleting'[y] = deleting[y]
      BY <2>2 DEF FS!RollbackDelete, IndInv, StoreInv, FS!TypeOK
    <3> QED
      BY <1>3, <2>2, <3>1, DelMoved DEF CommitRows, FS!RollbackDelete
  <2> QED
    BY <1>3, <2>1, <2>2 DEF CommitRows
<1>4. CASE DeleteDisk(x)
  BY <1>4, DelMoved DEF DeleteDisk
<1> QED
  BY <1>1, <1>2, <1>3, <1>4 DEF Delete

-----------------------------------------------------------------------------
(* The file on disk.                                                       *)

LEMMA DiskInit == Init => DiskInv
<1> SUFFICES ASSUME Init PROVE DiskInv
  OBVIOUS
<1>1. files = <<>> /\ disk = Paths /\ \A x \in Deletions : del[x].url = {}
  BY DEF Init, FS!Init
<1> QED
  BY <1>1 DEF DiskInv

LEMMA DiskNext == IndInv /\ DiskInv /\ [Next]_vars => DiskInv'
<1> SUFFICES ASSUME IndInv, DiskInv, [Next]_vars PROVE DiskInv'
  OBVIOUS
<1> USE DEF DiskInv
<1>0. \A u : OwnUrl(u)' = OwnUrl(u)
  BY DEF OwnUrl
<1>1. ASSUME NEW r \in Requests, LoadFile(r) \/ Ingest(r) PROVE DiskInv'
  <2>1. Effects(r)
    BY <1>1, StepEffects
  <2>2. \A q \in Requests : Started(q) => Started(q)'
    BY <2>1 DEF Effects, Started
  <2>3. UNCHANGED <<disk, del>> /\ \A u, f : Stored(u, f) => Stored(u, f)'
    BY <2>1, <2>2 DEF Effects, Stored
  <2>4. CASE SameUrls
    BY <1>0, <2>2, <2>3, <2>4 DEF SameUrls
  <2>5. CASE ~Started(r) /\ Started(r)' /\ FS!CreateFile(FileOf[r], PathOf[r])
    <3>1. /\ DOMAIN files' = DOMAIN files \cup {FileOf[r]}
          /\ \A f \in DOMAIN files' :
                files'[f].url = IF f = FileOf[r] THEN PathOf[r] ELSE files[f].url
      BY <2>5 DEF FS!CreateFile, FS!Put
    <3>2. Stored(PathOf[r], FileOf[r])'
      BY <2>5 DEF Stored
    <3>3. ASSUME OwnUrl(PathOf[r])
          PROVE  \A x \in Deletions : PathOf[r] \notin del[x].url
      BY <2>5, <3>3 DEF OwnUrl, Stored
    <3>4. OwnUrl(PathOf[r]) => PathOf[r] \in disk
      BY <2>5
    <3> QED
      BY <1>0, <2>2, <2>3, <3>1, <3>2, <3>3, <3>4
  <2> QED
    BY <2>1, <2>4, <2>5 DEF Effects, Started
<1>2. ASSUME NEW x \in Deletions, GetFile(x) PROVE DiskInv'
  <2>1. UNCHANGED <<files, disk, ing>> /\ \A u, f : Stored(u, f)' = Stored(u, f)
    BY <1>2, GetFileMoves DEF storeVars, Stored, Started
  <2>2. ASSUME NEW y \in Deletions
        PROVE  /\ \A u \in del'[y].url : Stored(u, del'[y].file)
               /\ del'[y].pc = "deleteDisk" =>
                     \A f \in DOMAIN files :
                        OwnUrl(files[f].url) => files[f].url \notin del'[y].url
    <3>1. CASE y = x /\ FindsFile(x)
      BY <1>2, <3>1, GetFileMoves DEF FindsFile
    <3>2. CASE y = x /\ ~FindsFile(x)
      BY <1>2, <3>2, GetFileMoves
    <3>3. CASE y # x
      BY <1>2, <3>3, GetFileMoves
    <3> QED
      BY <3>1, <3>2, <3>3
  <2> QED
    BY <1>0, <2>1, <2>2 DEF Started
<1>3. ASSUME NEW x \in Deletions, Delete(x) PROVE DiskInv'
  <2>1. /\ UNCHANGED ing
        /\ del'[x].file = del[x].file /\ del'[x].url = del[x].url
        /\ \A y \in Deletions \ {x} : del'[y] = del[y]
    BY <1>3, DeleteMoves
  <2>2. /\ \A q \in Requests : Started(q)' = Started(q)
        /\ \A u, f : Stored(u, f)' = Stored(u, f)
    BY <2>1 DEF Started, Stored
  <2>3. CASE del'[x].pc # "deleteDisk" /\ UNCHANGED <<files, disk>>
    BY <1>0, <2>1, <2>2, <2>3
  <2>4. CASE FS!DeleteFile(x, del[x].file) /\ UNCHANGED disk
    <3>1. /\ DOMAIN files' = DOMAIN files \ {del[x].file}
          /\ \A f \in DOMAIN files' : files'[f] = files[f]
      BY <2>4 DEF FS!DeleteFile, FS!Drop, FS!Restrict
    <3>2. \A f \in DOMAIN files' :
             OwnUrl(files'[f].url) => files'[f].url \notin del[x].url
      BY <3>1 DEF Stored, OwnUrl
    <3> QED
      BY <1>0, <2>1, <2>2, <2>4, <3>1, <3>2
  <2>5. CASE /\ del[x].pc = "deleteDisk" /\ del'[x].pc = "done"
             /\ disk' = disk \ del[x].url
             /\ UNCHANGED files
    <3>1. \A r \in Requests : OwnUrl(PathOf[r]) /\ ~Started(r) =>
                                PathOf[r] \notin del[x].url
      BY DEF Stored, OwnUrl
    <3> QED
      BY <1>0, <2>1, <2>2, <2>5, <3>1
  <2> QED
    BY <1>3, <2>3, <2>4, <2>5, DeleteMoves DEF storeVars, FS!DeleteDocuments
<1>4. CASE UNCHANGED vars
  BY <1>0, <1>4 DEF vars, Started, Stored
<1> QED
  BY <1>1, <1>2, <1>3, <1>4 DEF Next, Finished

(* A file the store lists has its copy on disk if its path is that of one  *)
(* request alone, for any number of retries under one FileID and of        *)
(* deletions, whatever paths the others share and whatever fails: that     *)
(* request stores its URL once, and no deletion can have read it before.   *)
THEOREM ListedIsOnDisk == Spec => []ListedFileIsOnDisk
<1>1. DiskInv => ListedFileIsOnDisk
  <2> SUFFICES ASSUME DiskInv, NEW f \in DOMAIN files, files[f].url \notin disk
               PROVE  \E q, r \in Requests :
                         /\ q # r
                         /\ PathOf[q] = files[f].url /\ PathOf[r] = files[f].url
    BY DEF ListedFileIsOnDisk
  <2> QED
    BY DEF DiskInv, OwnUrl
<1> QED
  BY <1>1, Invariance, DiskInit, DiskNext, PTL DEF Spec

-----------------------------------------------------------------------------
(* Hosts that give every request a FileID of its own.                      *)

LEMMA GoneInit == Init => GoneInv
<1> SUFFICES ASSUME Init PROVE GoneInv
  OBVIOUS
<1>1. files = <<>> /\ \A x \in Deletions : del[x].pc = "getFile"
  BY DEF Init, FS!Init
<1> QED
  BY <1>1 DEF GoneInv, Found

LEMMA GoneNext ==
    ASSUME OwnFileIds
    PROVE  IndInv /\ GoneInv /\ [Next]_vars => GoneInv'
<1> SUFFICES ASSUME IndInv, GoneInv, [Next]_vars PROVE GoneInv'
  OBVIOUS
<1> USE DEF GoneInv
<1>1. ASSUME NEW r \in Requests, LoadFile(r) \/ Ingest(r) PROVE GoneInv'
  <2>1. Effects(r)
    BY <1>1, StepEffects
  <2>2. \A q \in Requests : Started(q) => Started(q)'
    BY <2>1 DEF Effects, Started
  <2>3. del' = del /\ \A x \in Deletions : Found(x)' = Found(x)
    BY <2>1 DEF Effects, Found
  <2>4. CASE DOMAIN files' = DOMAIN files
    BY <2>2, <2>3, <2>4
  <2>5. CASE ~Started(r) /\ Started(r)' /\ FS!CreateFile(FileOf[r], PathOf[r])
    <3>1. DOMAIN files' = DOMAIN files \cup {FileOf[r]}
      BY <2>5 DEF FS!CreateFile, FS!Put
    <3>2. \A q \in Requests : ~Started(q)' => FileOf[q] # FileOf[r]
      BY <2>5 DEF OwnFileIds
    <3>3. \A x \in Deletions : Found(x) => del[x].file # FileOf[r]
      BY <2>5
    <3>4. \A x \in Deletions : del[x].pc \in {"deleteDisk", "done"} => Found(x)
      BY DEF Found
    <3> QED
      BY <2>2, <2>3, <3>1, <3>2, <3>3, <3>4
  <2> QED
    BY <2>1, <2>4, <2>5 DEF Effects, SameUrls, Started
<1>2. ASSUME NEW x \in Deletions, GetFile(x) PROVE GoneInv'
  <2>1. UNCHANGED <<files, ing>>
    BY <1>2, GetFileMoves DEF storeVars
  <2>2. \A y \in Deletions \ {x} : del'[y] = del[y]
    BY <1>2, GetFileMoves
  <2>3. \/ del'[x].pc \in {"absent", "failed"}
        \/ del'[x].pc = "deleteVectors" /\ del'[x].file \in DOMAIN files
    BY <1>2, GetFileMoves DEF FindsFile
  <2> QED
    BY <2>1, <2>2, <2>3 DEF Found, Started
<1>3. ASSUME NEW x \in Deletions, Delete(x) PROVE GoneInv'
  <2>1. /\ UNCHANGED ing
        /\ del'[x].file = del[x].file
        /\ \A y \in Deletions \ {x} : del'[y] = del[y]
    BY <1>3, DeleteMoves
  <2>2. Found(x) /\ \A y \in Deletions : Found(y)' => Found(y)
    <3>1. Found(x)
      BY <1>3, DeleteMoves DEF Found
    <3> QED
      BY <2>1, <3>1 DEF Found
  <2>3. DOMAIN files' \subseteq DOMAIN files
    <3>1. CASE FS!DeleteFile(x, del[x].file)
      BY <3>1 DEF FS!DeleteFile, FS!Drop, FS!Restrict
    <3>2. FS!DeleteFile(x, del[x].file) \/ UNCHANGED files
      BY <1>3, DeleteMoves DEF storeVars, FS!DeleteDocuments
    <3> QED
      BY <3>1, <3>2
  <2>4. del'[x].pc \in {"deleteDisk", "done"} => del[x].file \notin DOMAIN files'
    <3>1. CASE FS!DeleteFile(x, del[x].file)
      BY <3>1 DEF FS!DeleteFile, FS!Drop, FS!Restrict
    <3>2. CASE del[x].pc = "deleteDisk"
      BY <2>3, <3>2
    <3> QED
      BY <1>3, <3>1, <3>2, DeleteMoves
  <2> QED
    BY <2>1, <2>2, <2>3, <2>4 DEF Started
<1>4. CASE UNCHANGED vars
  BY <1>4 DEF vars, Started, Found
<1> QED
  BY <1>1, <1>2, <1>3, <1>4 DEF Next, Finished

(* A deleted file stays gone, for any number of requests that each have a  *)
(* FileID of their own, any deletions, any faults and any interleaving: a  *)
(* file that GetFile found has been created, so the only request that      *)
(* names it is past CreateFile, and what else that request writes needs    *)
(* the row of the file.                                                    *)
THEOREM DeletedStaysGone ==
    ASSUME OwnFileIds
    PROVE  Spec => []DeletedFileStaysGone
<1>1. IndInv /\ GoneInv => DeletedFileStaysGone
  BY DEF IndInv, StoreInv, Links, FS!ReferentialIntegrity, GoneInv,
         DeletedFileStaysGone
<1>2. IndInv /\ GoneInv /\ [Next]_vars => GoneInv'
  BY GoneNext
<1> QED
  BY <1>1, <1>2, Invariance, GoneInit, PTL DEF Spec

-----------------------------------------------------------------------------
(* Hosts that await ingestion before they delete.                          *)

LEMMA LeftInit == Init => LeftInv
<1> SUFFICES ASSUME Init PROVE LeftInv
  OBVIOUS
<1>1. documents = <<>> /\ \A x \in Deletions : del[x].pc = "getFile"
  BY DEF Init, FS!Init
<1> QED
  BY <1>1 DEF LeftInv, Found

LEMMA LeftAfterRequest ==
    ASSUME IndInv, LeftInv, NEW r \in Requests, LoadFile(r) \/ Ingest(r)
    PROVE  LeftInv'
<1> USE DEF LeftInv
<1>1. Effects(r)
  BY StepEffects
<1>2. \A q \in Requests : Ended(q) => Ended(q)'
  BY <1>1 DEF Effects, Ended
<1>3. UNCHANGED <<deleting, del>> /\ ~Ended(r)
  BY <1>1 DEF Effects
<1>4. \A x \in Deletions : Found(x) => del[x].file # FileOf[r]
  BY <1>3
<1>5. /\ \A d \in DOMAIN documents' : documents'[d].file = {FileOf[d]}
      /\ \A d \in DOMAIN documents' :
            FileOf[d] # FileOf[r] => d \in DOMAIN documents
  <2>1. CASE SameOwners
    BY <2>1 DEF SameOwners
  <2>2. CASE FS!CreateDocument(r, FileOf[r], ing[r].pieces)
    <3>1. documents' = FS!Put(documents, r, [file |-> {FileOf[r]},
                                             content |-> ing[r].pieces])
      BY <2>2 DEF FS!CreateDocument
    <3> QED
      BY <3>1 DEF FS!Put
  <2> QED
    BY <1>1, <2>1, <2>2 DEF Effects
<1>6. ASSUME NEW f \in Files, f # FileOf[r]
      PROVE  /\ FS!DocumentsOf(f)' \subseteq FS!DocumentsOf(f)
             /\ VS!VectorsOf(f)' = VS!VectorsOf(f)
  <2>1. FS!DocumentsOf(f)' \subseteq FS!DocumentsOf(f)
    BY <1>5, <1>6 DEF FS!DocumentsOf
  <2>2. VS!VectorsOf(f)' = VS!VectorsOf(f)
    <3>1. CASE vectors' = vectors
      BY <3>1 DEF VS!VectorsOf
    <3>2. CASE VS!Upsert(ThisChunk(r), FileOf[r])
      <4>1. ThisChunk(r) \in DOMAIN vectors =>
               vectors[ThisChunk(r)] = FileOf[r]
        BY DEF IndInv, StoreInv, Links, ThisChunk
      <4> QED
        BY <1>6, <3>2, <4>1 DEF VS!Upsert, VS!VectorsOf
    <3> QED
      BY <1>1, <3>1, <3>2 DEF Effects
  <2> QED
    BY <2>1, <2>2
<1>7. \A x \in Deletions : del[x].file \in Files
  BY DEF IndInv, DeleteStates
<1>8. ASSUME NEW x \in Deletions, Found(x)
      PROVE  /\ FS!DocumentsOf(del[x].file)' \subseteq FS!DocumentsOf(del[x].file)
             /\ VS!VectorsOf(del[x].file)' = VS!VectorsOf(del[x].file)
  BY <1>3, <1>4, <1>6, <1>7, <1>8
<1>9. \A x \in Deletions : Found(x)' = Found(x)
  BY <1>3 DEF Found
<1>10. ASSUME NEW x \in Deletions, del'[x].pc \in {"deleteDisk", "done"},
              NEW d \in DOMAIN documents'
       PROVE  FileOf[d] # del'[x].file
  BY <1>3, <1>4, <1>5, <1>10 DEF Found
<1>11. \A x \in Deletions : del'[x].pc = "commitRows" =>
          FS!DocumentsOf(del[x].file)' \subseteq deleting'[x].docs
  BY <1>3, <1>8 DEF Found
<1>12. \A x \in Deletions :
          del'[x].pc \in {"deleteRows", "commitRows", "deleteDisk", "done"} =>
             VS!VectorsOf(del[x].file)' = {}
  BY <1>3, <1>8 DEF Found
<1> QED
  BY <1>2, <1>3, <1>5, <1>9, <1>10, <1>11, <1>12

LEMMA LeftAfterGetFile ==
    ASSUME DeletesAfterIngestion, IndInv, LeftInv, NEW x \in Deletions,
           GetFile(x)
    PROVE  LeftInv'
<1> USE DEF LeftInv
<1>1. UNCHANGED <<storeVars, vectors, ing>>
  BY GetFileMoves
<1>2. /\ del'[x].file = del[x].file
      /\ \A y \in Deletions \ {x} : del'[y] = del[y]
      /\ del'[x].pc \in {"deleteVectors", "absent", "failed"}
  BY GetFileMoves DEF FindsFile
<1>3. \A r \in Requests : FileOf[r] = del[x].file => Ended(r)
  BY DEF GetFile, MayDelete, DeletesAfterIngestion
<1>4. \A f : /\ FS!DocumentsOf(f)' = FS!DocumentsOf(f)
             /\ VS!VectorsOf(f)' = VS!VectorsOf(f)
  BY <1>1 DEF storeVars, FS!DocumentsOf, VS!VectorsOf
<1>5. \A y \in Deletions : Found(y)' =>
         \A r \in Requests : FileOf[r] = del'[y].file => Ended(r)'
  BY <1>1, <1>2, <1>3 DEF Found, Ended
<1>6. \A y \in Deletions : del'[y].pc = "commitRows" =>
         FS!DocumentsOf(del[y].file)' \subseteq deleting'[y].docs
  BY <1>1, <1>2, <1>4 DEF storeVars
<1>7. \A y \in Deletions :
         del'[y].pc \in {"deleteRows", "commitRows", "deleteDisk", "done"} =>
            VS!VectorsOf(del[y].file)' = {}
  BY <1>2, <1>4
<1> QED
  BY <1>1, <1>2, <1>5, <1>6, <1>7 DEF storeVars

LEMMA LeftAfterDelete ==
    ASSUME DeletesAfterIngestion, IndInv, LeftInv, NEW x \in Deletions,
           Delete(x)
    PROVE  LeftInv'
<1> USE DEF LeftInv
<1>0. PICK f \in Files : f = del[x].file
  BY DEF IndInv, DeleteStates
<1>1. /\ UNCHANGED ing
      /\ del'[x].file = f
      /\ \A y \in Deletions \ {x} : del'[y] = del[y]
  BY <1>0, DeleteMoves
<1>2. \A y \in Deletions : Found(y)' =>
         \A r \in Requests : FileOf[r] = del'[y].file => Ended(r)'
  <2>1. Found(x)
    BY <1>0, DeleteMoves DEF Found
  <2> QED
    BY <1>0, <1>1, <2>1 DEF Found, Ended
\* The documents and the vectors it leaves.
<1>3. /\ \A d \in DOMAIN documents' :
            d \in DOMAIN documents /\ documents'[d].file = documents[d].file
      /\ \A y \in Deletions \ {x} : deleting'[y] = deleting[y]
  <2>1. CASE FS!DeleteFile(x, f) /\ del[x].pc = "commitRows"
    <3>1. FS!Late(x, f) = {}
      BY <1>0, <2>1 DEF FS!Late
    <3>2. documents' = [d \in DOMAIN documents \ deleting[x].docs |->
                           documents[d]]
      BY <2>1, <3>1 DEF FS!DeleteFile, FS!Detached
    <3> QED
      BY <2>1, <3>2 DEF FS!DeleteFile, IndInv, StoreInv, FS!TypeOK
  <2>2. CASE ~(FS!DeleteFile(x, f) /\ del[x].pc = "commitRows")
    BY <1>0, <2>2, DeleteMoves
    DEF storeVars, FS!DeleteDocuments, IndInv, StoreInv, FS!TypeOK
  <2> QED
    BY <2>1, <2>2
<1>4. /\ \A g : FS!DocumentsOf(g)' \subseteq FS!DocumentsOf(g)
      /\ \A g : VS!VectorsOf(g)' \subseteq VS!VectorsOf(g)
  <2>1. \A g : FS!DocumentsOf(g)' \subseteq FS!DocumentsOf(g)
    BY <1>3 DEF FS!DocumentsOf
  <2>2. /\ DOMAIN vectors' \subseteq DOMAIN vectors
        /\ \A c \in DOMAIN vectors' : vectors'[c] = vectors[c]
    <3>1. CASE VS!DeleteByFileID(del[x].file)
      BY <3>1 DEF VS!DeleteByFileID, VS!Restrict
    <3>2. VS!DeleteByFileID(del[x].file) \/ UNCHANGED vectors
      BY DeleteMoves
    <3> QED
      BY <3>1, <3>2
  <2> QED
    BY <2>1, <2>2 DEF VS!VectorsOf
<1>5. del'[x].pc = "commitRows" =>
         FS!DocumentsOf(f)' \subseteq deleting'[x].docs
  <2>1. ASSUME del'[x].pc = "commitRows"
        PROVE  deleting'[x].docs = FS!DocumentsOf(f)
    BY <1>0, <2>1, DeleteMoves DEF FS!DeleteDocuments, IndInv, StoreInv, FS!TypeOK
  <2> QED
    BY <1>4, <2>1
<1>6. del'[x].pc \in {"deleteRows", "commitRows", "deleteDisk", "done"} =>
         VS!VectorsOf(f)' = {}
  <2>1. CASE del[x].pc = "deleteVectors"
    <3>1. VS!DeleteByFileID(f)
      BY <1>0, <2>1, DeleteMoves DEF DeletesAfterIngestion
    <3> QED
      BY <3>1 DEF VS!DeleteByFileID, VS!Restrict, VS!VectorsOf
  <2>2. CASE del[x].pc # "deleteVectors"
    <3>1. del[x].pc \in {"deleteRows", "commitRows", "deleteDisk"}
      BY <1>0, <2>2, DeleteMoves
    <3> QED
      BY <1>0, <1>4, <3>1
  <2> QED
    BY <2>1, <2>2
<1>7. del'[x].pc \in {"deleteDisk", "done"} =>
         \A d \in DOMAIN documents' : FileOf[d] # f
  <2>1. CASE FS!DeleteFile(x, f) /\ del[x].pc = "commitRows"
    <3>1. \A d \in DOMAIN documents : FileOf[d] = f => d \in deleting[x].docs
      BY <1>0, <2>1 DEF FS!DocumentsOf
    <3>2. DOMAIN documents' = DOMAIN documents \ deleting[x].docs
      BY <2>1 DEF FS!DeleteFile, FS!Detached
    <3> QED
      BY <3>1, <3>2
  <2>2. CASE del[x].pc = "deleteDisk"
    BY <1>0, <1>3, <2>2
  <2> QED
    BY <1>0, <2>1, <2>2, DeleteMoves
<1>8. \A y \in Deletions : del'[y].pc = "commitRows" =>
         FS!DocumentsOf(del[y].file)' \subseteq deleting'[y].docs
  BY <1>0, <1>1, <1>3, <1>4, <1>5
<1>9. \A y \in Deletions :
         del'[y].pc \in {"deleteRows", "commitRows", "deleteDisk", "done"} =>
            VS!VectorsOf(del[y].file)' = {}
  BY <1>0, <1>1, <1>4, <1>6
<1>10. \A y \in Deletions : del'[y].pc \in {"deleteDisk", "done"} =>
          \A d \in DOMAIN documents' : FileOf[d] # del'[y].file
  BY <1>0, <1>1, <1>3, <1>7
<1>11. \A d \in DOMAIN documents' : documents'[d].file = {FileOf[d]}
  BY <1>3
<1> QED
  BY <1>2, <1>8, <1>9, <1>10, <1>11

LEMMA LeftNext ==
    ASSUME DeletesAfterIngestion
    PROVE  IndInv /\ LeftInv /\ [Next]_vars => LeftInv'
<1> SUFFICES ASSUME IndInv, LeftInv, [Next]_vars PROVE LeftInv'
  OBVIOUS
<1>1. CASE UNCHANGED vars
  BY <1>1 DEF vars, LeftInv, Found, Ended, FS!DocumentsOf, VS!VectorsOf
<1> QED
  BY <1>1, LeftAfterRequest, LeftAfterGetFile, LeftAfterDelete
  DEF Next, Finished

(* Nothing of a deleted file is left, neither document nor vector, when    *)
(* the host deletes a file only after its requests, retries included, have *)
(* ended, and the statement on the vectors does not fail; any other        *)
(* operation may, and any number of deletions may name the same file.      *)
THEOREM DeletedLeavesNothing ==
    ASSUME DeletesAfterIngestion
    PROVE  Spec => []DeletedFileLeavesNothing
<1>1. LeftInv => DeletedFileLeavesNothing
  BY DEF LeftInv, DeletedFileLeavesNothing
<1>2. IndInv /\ LeftInv /\ [Next]_vars => LeftInv'
  BY LeftNext
<1> QED
  BY <1>1, <1>2, Invariance, LeftInit, PTL DEF Spec
-----------------------------------------------------------------------------
(* The promise of both stores together.  Each operation of a store is a    *)
(* step of FileContract or leaves what the contract speaks of as it is.    *)

\* What a deletion works on, it has found.
HasUrl == \A x \in Deletions : Found(x) => del[x].url # {}

\* Only its own deletion takes the file from a chunk.
Filed ==
    \A c \in DOMAIN chunks :
       <<FileOf[c[1]], c>> \in fileChunks \/ FileOf[c[1]] \in Asked

AskedInv == HasUrl /\ Filed

LEMMA FindableMembers ==
    /\ \A p : p \in Findable <=> \E c \in DOMAIN vectors : p = Piece(c)
    /\ \A p : p \in Findable' <=> \E c \in DOMAIN vectors' : p = Piece(c)'
BY DEF Findable

LEMMA SameFindable ==
    ASSUME UNCHANGED <<fileChunks, chunks>>, DOMAIN vectors' = DOMAIN vectors
    PROVE  Findable' = Findable
BY DEF Findable, Piece

\* A new chunk has no vector yet, and the others keep their text and file.
LEMMA CreateChunkHides ==
    ASSUME StoreInv, NEW c, NEW text, NEW fs, NEW ds,
           FS!CreateChunk(c, text, fs, ds), UNCHANGED vectors
    PROVE  Findable' = Findable /\ files' = files
<1> USE DEF FS!CreateChunk, FS!CanCreateChunk, FS!Put
<1>1. c \notin DOMAIN vectors
  BY DEF StoreInv
<1>2. ASSUME NEW k \in DOMAIN vectors PROVE Piece(k)' = Piece(k)
  <2>1. chunks'[k] = chunks[k]
    BY <1>1 DEF StoreInv
  <2>2. \A f : <<f, k>> \in fileChunks' <=> <<f, k>> \in fileChunks
    BY <1>1
  <2> QED
    BY <2>1, <2>2 DEF Piece
<1>3. vectors' = vectors /\ files' = files
  OBVIOUS
<1>4. \A p : p \in Findable' <=> p \in Findable
  BY <1>2, <1>3, FindableMembers
<1> QED
  BY <1>3, <1>4

\* And it is filed.
LEMMA CreateChunkFiles ==
    ASSUME Filed, NEW c, NEW text, NEW ds,
           FS!CreateChunk(c, text, {FileOf[c[1]]}, ds), UNCHANGED Asked
    PROVE  Filed'
<1>1. /\ DOMAIN chunks' = DOMAIN chunks \cup {c}
      /\ fileChunks \subseteq fileChunks'
      /\ <<FileOf[c[1]], c>> \in fileChunks'
  BY DEF FS!CreateChunk, FS!Put
<1> QED
  BY <1>1 DEF Filed

LEMMA UpsertIndexes ==
    ASSUME StoreInv, Filed, NEW c \in DOMAIN chunks,
           VS!Upsert(c, FileOf[c[1]]), UNCHANGED <<storeVars, Asked>>
    PROVE  \/ UNCHANGED Contract!vars
           \/ \E piece \in Findable' : Contract!Index(piece)
<1>1. /\ DOMAIN vectors' = DOMAIN vectors \cup {c}
      /\ UNCHANGED <<fileChunks, chunks, files>>
  BY DEF VS!Upsert, storeVars
<1>2. CASE c \in DOMAIN vectors
  BY <1>1, <1>2, SameFindable DEF Contract!vars
<1>3. CASE c \notin DOMAIN vectors
  <2> DEFINE f == FileOf[c[1]]
  <2>1. f \in Files /\ FileOf[Piece(c).text] = f
    BY DEF StoreInv, FS!TypeOK, ChunkIds, ChunkTexts, Piece
  <2>2. \/ Piece(c).file = {f} /\ f \in DOMAIN files
        \/ Piece(c).file = {} /\ f \in Asked
    <3>1. \A g \in Files : <<g, c>> \in fileChunks => g = f /\ f \in DOMAIN files
      BY DEF StoreInv, Links, FS!ReferentialIntegrity
    <3>2. CASE <<f, c>> \in fileChunks
      BY <2>1, <3>1, <3>2 DEF Piece
    <3>3. CASE <<f, c>> \notin fileChunks
      BY <3>1, <3>3 DEF Piece, Filed
    <3> QED
      BY <3>2, <3>3
  <2>3. \A k : Piece(k)' = Piece(k)
    BY <1>1 DEF Piece
  <2>4. Findable' = Findable \cup {Piece(c)}
    <3>1. \A p : p \in Findable' <=> p \in Findable \cup {Piece(c)}
      BY <1>1, <2>3, FindableMembers
    <3> QED
      BY <3>1
  <2>5. \A p \in Findable : p.chunk # Piece(c).chunk
    BY <1>3, FindableMembers DEF Piece
  <2>6. Contract!Index(Piece(c))
    BY <1>1, <2>1, <2>2, <2>4, <2>5 DEF Contract!Index
  <2> QED
    BY <2>4, <2>6
<1> QED
  BY <1>2, <1>3

\* The statement goes by the file id of the vector, the contract by the text
\* of the chunk: they are of one file.
LEMMA DeleteByFileIDWithdraws ==
    ASSUME StoreInv, NEW f \in Asked, VS!DeleteByFileID(f),
           UNCHANGED <<storeVars, Asked>>
    PROVE  Contract!Withdraw(f)
<1>1. /\ \A k : k \in DOMAIN vectors' <=> k \in DOMAIN vectors /\ vectors[k] # f
      /\ UNCHANGED <<fileChunks, chunks, files>>
  BY DEF VS!DeleteByFileID, VS!VectorsOf, VS!Restrict, storeVars
<1>2. \A k \in DOMAIN vectors : FileOf[Piece(k).text] = vectors[k]
  BY DEF StoreInv, Links, ChunkTexts, Piece
<1>3. \A k : Piece(k)' = Piece(k)
  BY <1>1 DEF Piece
<1>4. \A p : p \in Findable' <=> p \in Findable /\ FileOf[p.text] # f
  BY <1>1, <1>2, <1>3, FindableMembers
<1>5. Findable' = Findable \ Contract!TextsOf(f)
  BY <1>4 DEF Contract!TextsOf
<1> QED
  BY <1>1, <1>5 DEF Contract!Withdraw

LEMMA DeleteFileRemoves ==
    ASSUME Filed, NEW x \in Deletions, NEW f \in Asked, FS!DeleteFile(x, f),
           UNCHANGED <<vectors, Asked>>
    PROVE  Contract!Remove(f) /\ Filed'
<1> DEFINE Unfiled(p) == [p EXCEPT !.file = @ \ {f}]
<1>1. /\ DOMAIN files' = DOMAIN files \ {f}
      /\ \A fc : fc \in fileChunks' <=> fc \in fileChunks /\ fc[1] # f
      /\ chunks' = chunks
  BY DEF FS!DeleteFile, FS!Drop, FS!Restrict
<1>2. ASSUME NEW k PROVE Piece(k)' = Unfiled(Piece(k))
  <2>1. \A g : <<g, k>> \in fileChunks' <=> <<g, k>> \in fileChunks /\ g # f
    BY <1>1
  <2> DEFINE old == {g \in Files : <<g, k>> \in fileChunks}
             new == {g \in Files : <<g, k>> \in fileChunks'}
  <2>2. new = old \ {f}
    BY <2>1
  <2>3. /\ Piece(k) = [file |-> old, chunk |-> k, text |-> chunks[k]]
        /\ Piece(k)' = [file |-> new, chunk |-> k, text |-> chunks[k]]
    BY <1>1 DEF Piece
  <2> HIDE DEF old, new
  <2> QED
    BY <2>2, <2>3
<1>3. Findable' = {Unfiled(p) : p \in Findable}
  <2> HIDE DEF Unfiled
  <2>1. \A p : p \in Findable' <=> \E q \in Findable : p = Unfiled(q)
    BY <1>2, FindableMembers
  <2> QED
    BY <2>1
<1>4. Filed'
  BY <1>1 DEF Filed
<1> QED
  BY <1>1, <1>3, <1>4 DEF Contract!Remove

\* The other operations.
Hidden ==
    /\ DOMAIN files' = DOMAIN files
    /\ UNCHANGED <<fileChunks, chunks, vectors>>

LEMMA HiddenStutters ==
    ASSUME Filed, Hidden, UNCHANGED Asked
    PROVE  UNCHANGED Contract!vars /\ Filed'
BY SameFindable DEF Hidden, Contract!vars, Filed

\* Reads, too, and the operations that failed.
LEMMA StoresAtRest ==
    ASSUME UNCHANGED <<storeVars, vectors>>
    PROVE  Hidden
BY DEF Hidden, storeVars

LEMMA ReportHides ==
    ASSUME NEW r \in Requests, NEW stats, ReportStats(r, stats),
           UNCHANGED vectors
    PROVE  Hidden
BY StoresAtRest DEF ReportStats, FS!UpdateFileChunkStats, Hidden

LEMMA RequestServes ==
    ASSUME IndInv, Filed, NEW r \in Requests, LoadFile(r) \/ Ingest(r)
    PROVE  [Contract!Next]_(Contract!vars) /\ Filed'
<1>1. UNCHANGED Asked
  BY StepEffects DEF Effects, Asked
<1>2. FileOf[r] \in Files
  OBVIOUS
<1>3. CASE LoadFile(r) \/ GetFileInfo(r) \/ Describe(r) \/ GetDocument(r) \/ Embed(r)
  BY <1>1, <1>3, StoresAtRest, HiddenStutters
  DEF LoadFile, GetFileInfo, Describe, GetDocument, Embed
<1>4. CASE CreateFile(r)
  <2>1. ASSUME FS!CreateFile(FileOf[r], PathOf[r])
        PROVE  Contract!Publish(FileOf[r]) /\ Filed'
    <3>1. /\ DOMAIN files' = DOMAIN files \cup {FileOf[r]}
          /\ UNCHANGED <<fileChunks, chunks, vectors>>
      BY <1>4, <2>1 DEF CreateFile, FS!CreateFile, FS!Put
    <3> QED
      BY <1>1, <3>1, SameFindable DEF Contract!Publish, Filed
  <2> QED
    BY <1>1, <1>2, <1>4, <2>1, StoresAtRest, HiddenStutters
    DEF CreateFile, Contract!Next
<1>5. CASE SaveDocument(r)
  <2>1. Hidden
    BY <1>5, StoresAtRest DEF SaveDocument, FS!CreateDocument, Hidden
  <2> QED
    BY <1>1, <2>1, HiddenStutters
<1>6. CASE AppendDescription(r)
  <2>1. Hidden
    BY <1>6, StoresAtRest DEF AppendDescription, FS!AppendToDocument, Hidden
  <2> QED
    BY <1>1, <2>1, HiddenStutters
<1>7. CASE CustomStats(r) \/ StatsEmpty(r) \/ UpdateStats(r)
  <2>1. Hidden
    BY <1>7, ReportHides DEF CustomStats, StatsEmpty, UpdateStats
  <2> QED
    BY <1>1, <2>1, HiddenStutters
<1>8. CASE CustomChunk(r) \/ SaveChunk(r)
  <2>1. ASSUME NEW c, c[1] = r, NEW text, NEW ds,
               FS!CreateChunk(c, text, {FileOf[r]}, ds), UNCHANGED vectors
        PROVE  UNCHANGED Contract!vars /\ Filed'
    BY <1>1, <2>1, CreateChunkHides, CreateChunkFiles DEF IndInv, Contract!vars
  <2>2. CASE UNCHANGED <<storeVars, vectors>>
    BY <1>1, <2>2, StoresAtRest, HiddenStutters
  <2>3. ASSUME NEW text, FS!AdapterCreateChunk(ThisChunk(r), text, r)
        PROVE  FS!CreateChunk(ThisChunk(r), text, {FileOf[r]}, {r})
    <3>1. documents[r].file = {FileOf[r]}
      BY <2>3 DEF FS!AdapterCreateChunk, IndInv, StoreInv, Links
    <3> QED
      BY <2>3, <3>1 DEF FS!AdapterCreateChunk
  <2>4. <<r, "custom", ing[r].i>>[1] = r /\ ThisChunk(r)[1] = r
    BY DEF ThisChunk
  <2> QED
    BY <1>8, <2>1, <2>2, <2>3, <2>4 DEF CustomChunk, SaveChunk
<1>9. CASE UpsertVector(r)
  <2>1. ThisChunk(r) \in DOMAIN chunks /\ ThisChunk(r)[1] = r
    BY <1>9 DEF UpsertVector, IndInv, WorkerInv, ThisChunk
  <2>2. CASE VS!Upsert(ThisChunk(r), FileOf[r])
    <3>1. UNCHANGED storeVars
      BY <1>9 DEF UpsertVector
    <3>2. Filed'
      BY <1>1, <3>1 DEF storeVars, Filed
    <3> QED
      BY <1>1, <2>1, <2>2, <3>1, <3>2, UpsertIndexes DEF IndInv, Contract!Next
  <2>3. CASE UNCHANGED vectors
    BY <1>1, <1>9, <2>3, StoresAtRest, HiddenStutters DEF UpsertVector
  <2> QED
    BY <1>9, <2>2, <2>3 DEF UpsertVector
<1> QED
  BY <1>3, <1>4, <1>5, <1>6, <1>7, <1>8, <1>9 DEF Ingest

\* A deletion asks for its file when it finds it.
LEMMA AskedMoves ==
    ASSUME NEW x \in Deletions, del'[x].file = del[x].file,
           \A y \in Deletions \ {x} : del'[y] = del[y]
    PROVE  /\ del'[x].url = del[x].url => Asked' = Asked
           /\ del'[x].url # {} => Asked' = Asked \cup {del[x].file}
           /\ del[x].url # {} => del[x].file \in Asked
BY DEF Asked

LEMMA DeletionServes ==
    ASSUME IndInv, AskedInv, NEW x \in Deletions, GetFile(x) \/ Delete(x)
    PROVE  [Contract!Next]_(Contract!vars) /\ AskedInv'
<1> DEFINE f == del[x].file
<1> USE DEF AskedInv
<1>1. f \in Files
  BY DEF IndInv, DeleteStates
<1>2. CASE GetFile(x)
  <2>1. UNCHANGED <<storeVars, vectors>> /\ Hidden
    BY <1>2, StoresAtRest DEF GetFile
  <2>2. CASE FindsFile(x)
    <3>1. del'[x].url # {}
      BY <2>2 DEF FindsFile
    <3>2. Asked' = Asked \cup {f}
      BY <1>2, <3>1, GetFileMoves, AskedMoves
    <3>3. Contract!AskToDelete(f)
      BY <2>1, <2>2, <3>2, SameFindable DEF Hidden, FindsFile, Contract!AskToDelete
    <3>4. HasUrl'
      BY <1>2, <3>1, GetFileMoves DEF HasUrl, Found
    <3>5. Filed'
      BY <2>1, <3>2 DEF Hidden, Filed
    <3> QED
      BY <1>1, <3>3, <3>4, <3>5 DEF Contract!Next
  <2>3. CASE del'[x].pc \in {"absent", "failed"} /\ del'[x].url = del[x].url
    <3>1. UNCHANGED Contract!vars /\ Filed'
      BY <1>2, <2>1, <2>3, GetFileMoves, AskedMoves, HiddenStutters
    <3>2. HasUrl'
      BY <1>2, <2>3, GetFileMoves DEF HasUrl, Found
    <3> QED
      BY <3>1, <3>2
  <2> QED
    BY <1>2, <2>2, <2>3, GetFileMoves
<1>3. CASE Delete(x)
  <2>1. Found(x)
    BY <1>3
    DEF Delete, DeleteVectors, DeleteRows, CommitRows, DeleteDisk, Found
  <2>2. /\ del'[x].file = f /\ del'[x].url = del[x].url
        /\ \A y \in Deletions \ {x} : del'[y] = del[y]
    BY <1>3, DeleteMoves
  <2>3. HasUrl'
    BY <2>1, <2>2 DEF HasUrl, Found
  <2>4. Asked' = Asked /\ f \in Asked
    BY <2>1, <2>2, AskedMoves DEF HasUrl
  <2>5. CASE VS!DeleteByFileID(f) /\ UNCHANGED storeVars
    <3>1. Filed'
      BY <2>4, <2>5 DEF storeVars, Filed
    <3> QED
      BY <1>1, <2>3, <2>4, <2>5, <3>1, DeleteByFileIDWithdraws
      DEF IndInv, Contract!Next
  <2>6. CASE FS!DeleteFile(x, f) /\ UNCHANGED vectors
    BY <1>1, <2>3, <2>4, <2>6, DeleteFileRemoves DEF Contract!Next
  <2>7. CASE /\ FS!DeleteDocuments(x, f) \/ FS!RollbackDelete(x)
             /\ UNCHANGED vectors
    <3>1. Hidden
      BY <2>7 DEF FS!DeleteDocuments, FS!RollbackDelete, Hidden
    <3> QED
      BY <2>3, <2>4, <3>1, HiddenStutters
  <2>8. CASE UNCHANGED <<storeVars, vectors>>
    BY <2>3, <2>4, <2>8, StoresAtRest, HiddenStutters
  <2> QED
    BY <1>3, <2>5, <2>6, <2>7, <2>8
    DEF Delete, DeleteVectors, DeleteRows, CommitRows, DeleteDisk
<1> QED
  BY <1>2, <1>3

(* Whatever fails and however requests, retries and deletions interleave,  *)
(* the calls of ProcessFile and DeleteFile keep the promise of             *)
(* FileContract: a piece is found only under the file it was extracted     *)
(* from, while that file is listed, and only its own deletion takes it     *)
(* away.  The contract has one step for what the code does in two stores,  *)
(* and each step of the code is one of its steps or none.                  *)
THEOREM ServesContract == Spec => KeepsContract
<1>1. Init => Contract!Init /\ AskedInv
  BY DEF Init, FS!Init, VS!Init, Findable, Asked, Contract!Init,
         AskedInv, HasUrl, Filed, Found
<1>2. IndInv /\ AskedInv /\ [Next]_vars
         => [Contract!Next]_(Contract!vars) /\ AskedInv'
  <2> SUFFICES ASSUME IndInv, AskedInv, [Next]_vars
               PROVE  [Contract!Next]_(Contract!vars) /\ AskedInv'
    OBVIOUS
  <2>1. CASE UNCHANGED vars
    <3>1. Hidden /\ UNCHANGED Asked /\ AskedInv'
      BY <2>1 DEF vars, Hidden, Asked, AskedInv, HasUrl, Filed, Found
    <3> QED
      BY <3>1, HiddenStutters DEF AskedInv
  <2>2. ASSUME NEW r \in Requests, LoadFile(r) \/ Ingest(r)
        PROVE  [Contract!Next]_(Contract!vars) /\ AskedInv'
    BY <2>2, StepEffects, RequestServes DEF Effects, AskedInv, HasUrl, Found
  <2> QED
    BY <2>1, <2>2, DeletionServes DEF Next, Finished
<1> QED
  BY <1>1, <1>2, Invariance, PTL DEF Spec, KeepsContract, Contract!Spec
=============================================================================
