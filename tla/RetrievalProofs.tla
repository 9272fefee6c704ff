-------------------------- MODULE RetrievalProofs --------------------------
(***************************************************************************)
(* For any files, chunks, refreshers and limits: the types; that a search  *)
(* finds no text of a deleted file, though its chunks rows stay; that its  *)
(* answer is of the files it was asked for, and in the order that the      *)
(* ranked lists agree on.                                                  *)
(*                                                                         *)
(* The invariant follows what a search can be led by.  DeleteFile removes  *)
(* vectors, then links, so a chunk with a link may have a vector and one   *)
(* with a vector is of a file no deletion has begun on (TablesInv).  The   *)
(* rows a refresh read, and those of the index, are links of files that    *)
(* were not yet deleted when it began (IndexInv).  So each list of a       *)
(* search, and the answer, holds chunks of other files (AnswerInv).        *)
(***************************************************************************)
EXTENDS Retrieval, FiniteSetTheorems, TLAPS

USE RetrievalAssumption

Linked(c) == <<FileOf[c], c>> \in fileChunks

TablesInv ==
    /\ \A p \in fileChunks : p[1] = FileOf[p[2]] /\ deletion[p[1]] # "done"
    /\ \A c \in DOMAIN chunks : deletion[FileOf[c]] # "done" => Linked(c)
    /\ \A c \in DOMAIN vectors :
          vectors[c] = FileOf[c] /\ deletion[FileOf[c]] = "no"
    /\ \A c \in embeddings :
          c \in DOMAIN chunks /\ deletion[FileOf[c]] = "no"
    /\ setup.store = "public" => DOMAIN vectors = {}
    /\ setup.store = "pgvector" => embeddings = {}

\* Rows of these chunks and files lead to none of the files in fs.
LeadElsewhere(rows, fs) ==
    \A row \in rows : row[2] = FileOf[row[1]] /\ row[2] \notin fs

IndexInv ==
    /\ \A r \in Refreshers : LeadElsewhere(refresh[r].rows, gone.at[r])
    /\ LeadElsewhere(fts, gone.index)
    /\ gone.search \subseteq Deleted
    /\ setup.keyword = "sqlite" => gone.search \subseteq gone.index

IdsElsewhere(ids) == \A i \in DOMAIN ids : FileOf[ids[i]] \notin gone.search

DocsElsewhere(list) ==
    \A i \in DOMAIN list : FileOf[list[i].id] \notin gone.search

SubInv(n) ==
    /\ sub[n].pc # "idle" => n \in Subs
    /\ IdsElsewhere(sub[n].ids) /\ DocsElsewhere(sub[n].docs)

AnswerInv ==
    /\ query = NoQuery => /\ pc = "idle" /\ docs = <<>>
                          /\ sub = [n \in Halves |-> IdleSub]
    /\ \A n \in Halves : SubInv(n)
    /\ DocsElsewhere(docs)

IndInv ==
    /\ TypeOK
    /\ TablesInv
    /\ IndexInv
    /\ AnswerInv

-----------------------------------------------------------------------------
(* The sequences a search handles.                                         *)

LEMMA OrderOfChunks ==
    ASSUME NEW S \in SUBSET ChunkIds, NEW f \in SetToSeqs(S)
    PROVE  f \in Seq(S) /\ f \in Seq(ChunkIds)
<1>1. IsFiniteSet(S)
  BY FS_Subset
<1>2. Cardinality(S) \in Nat
  BY <1>1, FS_CardinalityType
<1>3. f \in [1..Cardinality(S) -> S]
  BY DEF SetToSeqs
<1> QED
  BY <1>2, <1>3

LEMMA SomeChunksInOrder ==
    ASSUME NEW S \in SUBSET ChunkIds, NEW f \in SetToAllKPermutations(S)
    PROVE  f \in Seq(S) /\ f \in Seq(ChunkIds)
<1>1. PICK T \in SUBSET S : f \in SetToSeqs(T)
  BY DEF SetToAllKPermutations
<1>2. f \in Seq(T)
  BY <1>1, OrderOfChunks
<1> QED
  BY <1>2

LEMMA Prefix ==
    ASSUME NEW S, NEW list \in Seq(S), NEW n \in Nat
    PROVE  /\ UpTo(n, list) \in Seq(S)
           /\ DOMAIN UpTo(n, list) \subseteq DOMAIN list
           /\ \A i \in DOMAIN UpTo(n, list) : UpTo(n, list)[i] = list[i]
<1> DEFINE m == IF n <= Len(list) THEN n ELSE Len(list)
<1>1. m \in Nat /\ {i \in DOMAIN list : i <= n} = 1..m
  OBVIOUS
<1>2. UpTo(n, list) = [i \in 1..m |-> list[i]]
  BY <1>1 DEF UpTo, Restrict
<1>3. 1..m \subseteq DOMAIN list
  OBVIOUS
<1> HIDE DEF m
<1> QED
  BY <1>1, <1>2, <1>3

LEMMA FileNamedType ==
    ASSUME NEW c PROVE FileNamed(c) \in FileIds \cup {NoFile}
BY DEF FileNamed

LEMMA ChunksRead ==
    ASSUME NEW ids \in Seq(ChunkIds), NEW wanted,
           NEW found \in GetChunksByIDs(ids, wanted)
    PROVE  /\ found \in Seq(Documents)
           /\ \A i \in DOMAIN found : found[i].id \in ToSet(ids)
<1> DEFINE S == ToSet(ids) \cap DOMAIN chunks \cap wanted
<1>1. S \in SUBSET ChunkIds
  BY DEF ToSet
<1>2. PICK there \in SetToSeqs(S) :
         found = [i \in DOMAIN there |->
                    [id |-> there[i], file |-> FileNamed(there[i])]]
  BY DEF GetChunksByIDs
<1>3. there \in Seq(S) /\ there \in Seq(ChunkIds)
  BY <1>1, OrderOfChunks
<1>4. ASSUME NEW i \in DOMAIN there
      PROVE  /\ [id |-> there[i], file |-> FileNamed(there[i])] \in Documents
             /\ there[i] \in ToSet(ids)
  BY <1>3, FileNamedType DEF Documents
<1> HIDE DEF S
<1>5. DOMAIN there = 1..Len(there) /\ Len(there) \in Nat
  BY <1>3
<1> QED
  BY <1>2, <1>4, <1>5

LEMMA DocOfChunk ==
    ASSUME TypeOK, NEW last \in Subs, NEW c,
           \E n \in Subs : c \in ToSet(Ids(sub[n].docs))
    PROVE  DocOf(c, last) \in Documents /\ DocOf(c, last).id = c
<1> DEFINE fits(d) == /\ d.id = c
                      /\ c \in ToSet(Ids(sub[last].docs)) => d \in ToSet(sub[last].docs)
<1>1. ASSUME NEW n \in Subs, c \in ToSet(Ids(sub[n].docs))
      PROVE  \E d \in ToSet(sub[n].docs) : d.id = c
  BY <1>1 DEF Ids, ToSet
<1>2. \E d \in UNION {ToSet(sub[n].docs) : n \in Subs} : fits(d)
  <2>1. CASE c \in ToSet(Ids(sub[last].docs))
    BY <1>1, <2>1
  <2>2. CASE c \notin ToSet(Ids(sub[last].docs))
    BY <1>1, <2>2
  <2> QED
    BY <2>1, <2>2
<1>3. \A n \in Subs : ToSet(sub[n].docs) \subseteq Documents
  BY DEF TypeOK, SubStates, Subs, Halves, ToSet
<1> QED
  BY <1>2, <1>3 DEF DocOf

-----------------------------------------------------------------------------
(* Processor, and what each of its steps leaves of a search.               *)

TablesType ==
    /\ FS!TypeOK /\ VS!TypeOK /\ PE!TypeOK /\ KI!TypeOK
    /\ deletion \in [FileIds -> {"no", "vectors", "documents", "done"}]

GoneType == gone \in [at : [Refreshers -> SUBSET FileIds],
                      index : SUBSET FileIds, search : SUBSET FileIds]

CallType ==
    /\ query \in {NoQuery} \cup [api : {"retrieve", "semantic"},
                                fileIds : Wanted, limit : Limits]
    /\ pc \in {"idle", "receive", "vector", "keyword", "hydrate", "expand",
              "return", "error"}
    /\ sub \in [Halves -> SubStates]
    /\ channel \in Seq([name : Subs, ok : BOOLEAN])
    /\ merged \subseteq Subs
    /\ docs \in Seq(Documents)
    /\ context \in Seq(ParentIds \cup {NoParent})

LEMMA TypeParts ==
    TypeOK <=> TablesType /\ setup \in Setups /\ CallType /\ GoneType
BY DEF TypeOK, TablesType, CallType, GoneType

LEMMA NextParts ==
    ASSUME TablesType', setup' \in Setups, CallType', GoneType',
           TablesInv', IndexInv', AnswerInv'
    PROVE  IndInv'
BY DEF IndInv, TypeOK, TablesType, CallType, GoneType

LEMMA CallUntouched ==
    ASSUME CallType, UNCHANGED callVars, UNCHANGED setup
    PROVE  CallType'
<1>1. Subs' = Subs
  BY DEF Subs
<1> QED
  BY <1>1 DEF CallType, callVars

LEMMA DataUntouched ==
    ASSUME IndInv, UNCHANGED dbVars, UNCHANGED setup
    PROVE  TablesType' /\ TablesInv' /\ Deleted' = Deleted
<1>1. FS!TypeOK' /\ VS!TypeOK' /\ PE!TypeOK' /\ KI!TypeOK'
  BY DEF IndInv, TypeOK, dbVars, storeVars,
         FS!TypeOK, VS!TypeOK, PE!TypeOK, KI!TypeOK
<1>2. TablesType'
  BY <1>1 DEF IndInv, TypeOK, dbVars, TablesType
<1>3. TablesInv' /\ Deleted' = Deleted
  BY DEF IndInv, dbVars, storeVars, TablesInv, Linked, Deleted
<1> QED
  BY <1>2, <1>3

\* A step of others, which may only take files from those that are gone for
\* the search.
LEMMA SearchUntouched ==
    ASSUME AnswerInv, UNCHANGED callVars, UNCHANGED setup,
           gone'.search \subseteq gone.search
    PROVE  AnswerInv'
BY DEF AnswerInv, SubInv, IdsElsewhere, DocsElsewhere, callVars, Subs

LEMMA SaveChunkType ==
    ASSUME FS!TypeOK, NEW c \in ChunkIds,
           FS!CreateChunk(c, c, {FileOf[c]}, {})
    PROVE  FS!TypeOK'
<1>1. FileOf[c] \in FileIds
  OBVIOUS
<1>2. DOMAIN chunks' \subseteq ChunkIds /\ chunks' \in [DOMAIN chunks' -> ChunkIds]
  BY DEF FS!Put, FS!CreateChunk, FS!TypeOK
<1>3. fileChunks' \subseteq FileIds \X ChunkIds /\ docChunks' \subseteq {} \X ChunkIds
  BY <1>1 DEF FS!CreateChunk, FS!TypeOK
<1> QED
  BY <1>2, <1>3 DEF FS!CreateChunk, FS!TypeOK

LEMMA SaveChunkKeeps ==
    ASSUME IndInv, NEW c \in ChunkIds, SaveChunk(c)
    PROVE  IndInv'
<1>1. FS!CreateChunk(c, c, {FileOf[c]}, {}) /\ deletion[FileOf[c]] = "no"
  BY DEF SaveChunk
<1>2. /\ chunks' = [x \in DOMAIN chunks \cup {c} |-> IF x = c THEN c ELSE chunks[x]]
      /\ fileChunks' = fileChunks \cup ({FileOf[c]} \X {c})
  BY <1>1 DEF FS!CreateChunk, FS!Put
<1>3. TablesInv'
  BY <1>1, <1>2 DEF IndInv, TablesInv, Linked, SaveChunk
<1>4. IndexInv'
  BY DEF IndInv, IndexInv, LeadElsewhere, Deleted, SaveChunk
<1>5. AnswerInv'
  BY SearchUntouched DEF IndInv, SaveChunk
<1>6. FS!TypeOK'
  BY <1>1, SaveChunkType DEF IndInv, TypeOK
<1>7. VS!TypeOK' /\ PE!TypeOK' /\ KI!TypeOK' /\ GoneType' /\ setup' \in Setups
  BY DEF IndInv, TypeOK, SaveChunk, VS!TypeOK, PE!TypeOK, KI!TypeOK, GoneType
<1>8. TablesType'
  BY <1>6, <1>7 DEF IndInv, TypeOK, SaveChunk, TablesType
<1>9. CallType'
  BY TypeParts, CallUntouched DEF IndInv, SaveChunk
<1> QED
  BY <1>3, <1>4, <1>5, <1>7, <1>8, <1>9, NextParts

LEMMA IndexChunkKeeps ==
    ASSUME IndInv, NEW c \in ChunkIds, IndexChunk(c)
    PROVE  IndInv'
<1>1. /\ deletion[FileOf[c]] = "no" /\ c \in DOMAIN chunks
      /\ UNCHANGED <<storeVars, fts, refresh, deletion, gone, setup, callVars>>
      /\ \/ /\ vectors' = [x \in DOMAIN vectors \cup {c} |->
                             IF x = c THEN FileOf[c] ELSE vectors[x]]
            /\ UNCHANGED embeddings /\ setup.store = "pgvector"
         \/ /\ embeddings' = embeddings \cup {c}
            /\ UNCHANGED vectors /\ setup.store # "pgvector"
  BY DEF IndexChunk, VS!Upsert, PE!Upsert
<1>2. setup \in Setups
  BY DEF IndInv, TypeOK
<1>3. TablesInv'
  BY <1>1, <1>2 DEF IndInv, TablesInv, Linked, storeVars, Setups
<1>4. IndexInv'
  BY <1>1 DEF IndInv, IndexInv, LeadElsewhere, Deleted
<1>5. AnswerInv'
  BY <1>1, SearchUntouched DEF IndInv
<1>6. FS!TypeOK' /\ KI!TypeOK' /\ GoneType' /\ setup' \in Setups
  BY <1>1 DEF IndInv, TypeOK, storeVars, FS!TypeOK, KI!TypeOK, GoneType
<1>7. VS!TypeOK' /\ PE!TypeOK'
  BY <1>1 DEF IndInv, TypeOK, VS!TypeOK, PE!TypeOK
<1>8. TablesType'
  BY <1>1, <1>6, <1>7 DEF IndInv, TypeOK, TablesType
<1>9. CallType'
  BY <1>1, TypeParts, CallUntouched DEF IndInv
<1> QED
  BY <1>3, <1>4, <1>5, <1>6, <1>8, <1>9, NextParts

\* The vectors, and rows, that either store keeps of other files.
LEMMA VectorsLeft ==
    ASSUME IndInv, NEW f \in FileIds, DeleteVectors(f)
    PROVE  /\ VS!TypeOK' /\ PE!TypeOK'
           /\ \A c \in DOMAIN vectors' :
                 c \in DOMAIN vectors /\ vectors'[c] = vectors[c] /\ FileOf[c] # f
           /\ \A c \in embeddings' : c \in embeddings /\ FileOf[c] # f
<1>1. CASE setup.store = "pgvector"
  <2>1. /\ vectors' = [c \in DOMAIN vectors \ VS!VectorsOf(f) |-> vectors[c]]
        /\ embeddings' = embeddings /\ embeddings = {}
    BY <1>1 DEF DeleteVectors, VS!DeleteByFileID, VS!Restrict, IndInv, TablesInv
  <2> QED
    BY <2>1 DEF VS!VectorsOf, IndInv, TablesInv, TypeOK, VS!TypeOK, PE!TypeOK
<1>2. CASE setup.store = "public"
  <2>1. /\ embeddings' = embeddings \ PE!ChunksOf(fileChunks, {f})
        /\ vectors' = vectors /\ DOMAIN vectors = {}
    BY <1>2 DEF DeleteVectors, PE!DeleteByFileID, IndInv, TablesInv
  <2>2. ASSUME NEW c \in embeddings, FileOf[c] = f
        PROVE  c \in PE!ChunksOf(fileChunks, {f})
    <3>1. <<f, c>> \in fileChunks
      BY <2>2 DEF IndInv, TablesInv, Linked
    <3> QED
      BY <3>1 DEF PE!ChunksOf
  <2> QED
    BY <2>1, <2>2 DEF IndInv, TypeOK, VS!TypeOK, PE!TypeOK
<1> QED
  BY <1>1, <1>2 DEF IndInv, TypeOK, Setups

LEMMA DeleteVectorsKeeps ==
    ASSUME IndInv, NEW f \in FileIds, DeleteVectors(f)
    PROVE  IndInv'
<1>1. /\ deletion[f] = "no" /\ deletion' = [deletion EXCEPT ![f] = "vectors"]
      /\ UNCHANGED <<storeVars, fts, refresh, gone, setup, callVars>>
  BY DEF DeleteVectors
<1>2. deletion' \in [FileIds -> {"no", "vectors", "documents", "done"}]
  BY <1>1 DEF IndInv, TypeOK
<1>3. /\ \A g \in FileIds : g # f => deletion'[g] = deletion[g]
      /\ deletion'[f] = "vectors"
  BY <1>1 DEF IndInv, TypeOK
<1>4. TablesInv'
  <2>1. \A p \in fileChunks' : p[1] = FileOf[p[2]] /\ deletion'[p[1]] # "done"
    BY <1>1, <1>3 DEF IndInv, TablesInv, storeVars, TypeOK, FS!TypeOK
  <2>2. \A c \in DOMAIN chunks' : deletion'[FileOf[c]] # "done" => Linked(c)'
    BY <1>1, <1>3 DEF IndInv, TablesInv, storeVars, Linked, TypeOK, FS!TypeOK
  <2>3. \A c \in DOMAIN vectors' :
           vectors'[c] = FileOf[c] /\ deletion'[FileOf[c]] = "no"
    BY <1>3, VectorsLeft DEF IndInv, TablesInv, TypeOK, VS!TypeOK
  <2>4. \A c \in embeddings' : c \in DOMAIN chunks' /\ deletion'[FileOf[c]] = "no"
    BY <1>1, <1>3, VectorsLeft DEF IndInv, TablesInv, TypeOK, PE!TypeOK, storeVars
  <2>5. /\ setup'.store = "public" => DOMAIN vectors' = {}
        /\ setup'.store = "pgvector" => embeddings' = {}
    BY <1>1, VectorsLeft DEF IndInv, TablesInv
  <2> QED
    BY <2>1, <2>2, <2>3, <2>4, <2>5 DEF TablesInv
<1>5. IndexInv'
  BY <1>1, <1>3 DEF IndInv, IndexInv, LeadElsewhere, Deleted
<1>6. AnswerInv'
  BY <1>1, SearchUntouched DEF IndInv
<1>7. FS!TypeOK' /\ KI!TypeOK' /\ GoneType' /\ setup' \in Setups
  BY <1>1 DEF IndInv, TypeOK, storeVars, FS!TypeOK, KI!TypeOK, GoneType
<1>8. TablesType'
  BY <1>2, <1>7, VectorsLeft DEF TablesType
<1>9. CallType'
  BY <1>1, TypeParts, CallUntouched DEF IndInv
<1> QED
  BY <1>4, <1>5, <1>6, <1>7, <1>8, <1>9, NextParts

LEMMA DeleteDocumentsKeeps ==
    ASSUME IndInv, NEW f \in FileIds, DeleteDocuments(f)
    PROVE  IndInv'
<1>1. /\ deletion[f] = "vectors" /\ deletion' = [deletion EXCEPT ![f] = "documents"]
      /\ UNCHANGED <<vectors, embeddings, fts, refresh, gone, setup, callVars>>
      /\ UNCHANGED <<files, documents, chunks, fileChunks, docChunks>>
      /\ deleting' = [deleting EXCEPT ![f] = [file |-> {f},
                                              docs |-> FS!DocumentsOf(f)]]
  BY DEF DeleteDocuments, FS!DeleteDocuments
<1>2. deletion' \in [FileIds -> {"no", "vectors", "documents", "done"}]
  BY <1>1 DEF IndInv, TypeOK
<1>3. /\ \A g \in FileIds : g # f => deletion'[g] = deletion[g]
      /\ deletion'[f] = "documents"
  BY <1>1 DEF IndInv, TypeOK
<1>4. TablesInv'
  BY <1>1, <1>3 DEF IndInv, TablesInv, Linked, TypeOK,
                    FS!TypeOK, VS!TypeOK, PE!TypeOK
<1>5. IndexInv'
  BY <1>1, <1>3 DEF IndInv, IndexInv, LeadElsewhere, Deleted
<1>6. AnswerInv'
  BY <1>1, SearchUntouched DEF IndInv
<1>7. FS!TypeOK'
  <2>1. [file |-> {f}, docs |-> FS!DocumentsOf(f)] \in FS!Transactions
    BY DEF FS!Transactions, FS!Optional, FS!DocumentsOf, IndInv, TypeOK, FS!TypeOK
  <2> QED
    BY <1>1, <2>1 DEF IndInv, TypeOK, FS!TypeOK
<1>8. /\ VS!TypeOK' /\ PE!TypeOK' /\ KI!TypeOK' /\ GoneType' /\ setup' \in Setups
  BY <1>1 DEF IndInv, TypeOK, VS!TypeOK, PE!TypeOK, KI!TypeOK, GoneType
<1>9. TablesType'
  BY <1>2, <1>7, <1>8 DEF TablesType
<1>10. CallType'
  BY <1>1, TypeParts, CallUntouched DEF IndInv
<1> QED
  BY <1>4, <1>5, <1>6, <1>8, <1>9, <1>10, NextParts

LEMMA DeleteRowsType ==
    ASSUME FS!TypeOK, NEW f \in FileIds, FS!DeleteFile(f, f)
    PROVE  FS!TypeOK'
<1>1. DOMAIN files' \subseteq FileIds /\ files' \in [DOMAIN files' -> FS!FileRows]
  BY DEF FS!Drop, FS!Restrict, FS!DeleteFile, FS!TypeOK
<1>2. DOMAIN documents' \subseteq {} /\ documents' \in [DOMAIN documents' -> FS!DocumentRows]
  BY DEF FS!DeleteFile, FS!Detached, FS!TypeOK
<1>3. deleting' \in [FileIds -> FS!Transactions]
  BY DEF FS!DeleteFile, FS!TypeOK, FS!NoTransaction, FS!Transactions, FS!Optional
<1> QED
  BY <1>1, <1>2, <1>3 DEF FS!DeleteFile, FS!TypeOK

LEMMA DeleteRowsKeeps ==
    ASSUME IndInv, NEW f \in FileIds, DeleteRows(f)
    PROVE  IndInv'
<1>1. /\ deletion[f] = "documents" /\ deletion' = [deletion EXCEPT ![f] = "done"]
      /\ UNCHANGED <<vectors, embeddings, fts, refresh, gone, setup, callVars>>
      /\ UNCHANGED chunks
      /\ fileChunks' = {fc \in fileChunks : fc[1] # f}
  BY DEF DeleteRows, FS!DeleteFile
<1>2. deletion' \in [FileIds -> {"no", "vectors", "documents", "done"}]
  BY <1>1 DEF IndInv, TypeOK
<1>3. /\ \A g \in FileIds : g # f => deletion'[g] = deletion[g]
      /\ deletion'[f] = "done"
  BY <1>1 DEF IndInv, TypeOK
<1>4. TablesInv'
  BY <1>1, <1>3 DEF IndInv, TablesInv, Linked, TypeOK,
                    FS!TypeOK, VS!TypeOK, PE!TypeOK
<1>5. IndexInv'
  BY <1>1, <1>3 DEF IndInv, IndexInv, LeadElsewhere, Deleted
<1>6. AnswerInv'
  BY <1>1, SearchUntouched DEF IndInv
<1>7. FS!TypeOK'
  BY DeleteRowsType DEF IndInv, TypeOK, DeleteRows
<1>8. /\ VS!TypeOK' /\ PE!TypeOK' /\ KI!TypeOK' /\ GoneType' /\ setup' \in Setups
  BY <1>1 DEF IndInv, TypeOK, VS!TypeOK, PE!TypeOK, KI!TypeOK, GoneType
<1>9. TablesType'
  BY <1>2, <1>7, <1>8 DEF TablesType
<1>10. CallType'
  BY <1>1, TypeParts, CallUntouched DEF IndInv
<1> QED
  BY <1>4, <1>5, <1>6, <1>8, <1>9, <1>10, NextParts

-----------------------------------------------------------------------------
(* The keyword index.                                                      *)

\* What a step of a refresh leaves alone.
LEMMA RefreshKeeps ==
    ASSUME IndInv, UNCHANGED <<storeVars, vectors, embeddings, deletion, setup, callVars>>,
           KI!TypeOK', GoneType', IndexInv', gone'.search \subseteq gone.search
    PROVE  IndInv'
<1>1. TablesInv'
  BY DEF IndInv, TablesInv, Linked, storeVars
<1>2. AnswerInv'
  BY SearchUntouched DEF IndInv
<1>3. FS!TypeOK' /\ VS!TypeOK' /\ PE!TypeOK' /\ setup' \in Setups
  BY DEF IndInv, TypeOK, storeVars, FS!TypeOK, VS!TypeOK, PE!TypeOK
<1>4. TablesType'
  BY <1>3 DEF IndInv, TypeOK, TablesType
<1>5. CallType'
  BY TypeParts, CallUntouched DEF IndInv
<1> QED
  BY <1>1, <1>2, <1>3, <1>4, <1>5, NextParts

LEMMA BeginRefreshKeeps ==
    ASSUME IndInv, NEW r \in Refreshers, BeginRefresh(r)
    PROVE  IndInv'
<1> DEFINE rows == {<<p[2], p[1]>> : p \in fileChunks}
<1>1. /\ refresh' = [refresh EXCEPT ![r] = [reading |-> TRUE, rows |-> rows]]
      /\ fts' = fts
      /\ gone' = [gone EXCEPT !.at = [@ EXCEPT ![r] = Deleted]]
      /\ UNCHANGED <<storeVars, vectors, embeddings, deletion, setup, callVars>>
  BY DEF BeginRefresh, KI!Query
<1>2. rows \in SUBSET KI!Rows /\ LeadElsewhere(rows, Deleted)
  BY DEF KI!Rows, LeadElsewhere, Deleted, IndInv, TablesInv, TypeOK, FS!TypeOK
<1>3. GoneType /\ Deleted \in SUBSET FileIds
  BY TypeParts DEF IndInv, Deleted
<1> HIDE DEF rows
<1>4. /\ gone'.at = [gone.at EXCEPT ![r] = Deleted]
      /\ gone'.index = gone.index /\ gone'.search = gone.search
      /\ GoneType'
  BY <1>1, <1>3 DEF GoneType
<1>5. KI!TypeOK'
  BY <1>1, <1>2 DEF IndInv, TypeOK, KI!TypeOK
<1>6. \A s \in Refreshers : LeadElsewhere(refresh'[s].rows, gone'.at[s])
  <2>1. /\ refresh'[r].rows = rows /\ gone'.at[r] = Deleted
        /\ \A s \in Refreshers \ {r} : /\ refresh'[s] = refresh[s]
                                       /\ gone'.at[s] = gone.at[s]
    BY <1>1, <1>3, <1>4 DEF IndInv, TypeOK, KI!TypeOK, GoneType
  <2> QED
    BY <1>2, <2>1 DEF IndInv, IndexInv
<1>7. IndexInv'
  BY <1>1, <1>4, <1>6 DEF IndInv, IndexInv, LeadElsewhere, Deleted
<1> QED
  BY <1>1, <1>4, <1>5, <1>7, RefreshKeeps

LEMMA EndRefreshKeeps ==
    ASSUME IndInv, NEW r \in Refreshers, EndRefresh(r)
    PROVE  IndInv'
<1>1. /\ fts' = refresh[r].rows
      /\ refresh' = [refresh EXCEPT ![r] = KI!Idle]
      /\ gone' = [at |-> gone.at, index |-> gone.at[r],
                  search |-> gone.search \cap gone.at[r]]
      /\ UNCHANGED <<storeVars, vectors, embeddings, deletion, setup, callVars>>
  BY DEF EndRefresh, KI!Rebuild
<1>2. GoneType'
  BY <1>1, TypeParts DEF IndInv, GoneType
<1>3. KI!TypeOK'
  BY <1>1 DEF IndInv, TypeOK, KI!TypeOK, KI!Idle
<1>4. IndexInv'
  BY <1>1 DEF IndInv, TypeOK, KI!TypeOK, KI!Idle, IndexInv, LeadElsewhere, Deleted
<1> QED
  BY <1>1, <1>2, <1>3, <1>4, RefreshKeeps

LEMMA AbandonRefreshKeeps ==
    ASSUME IndInv, NEW r \in Refreshers, AbandonRefresh(r)
    PROVE  IndInv'
<1>1. /\ fts' = fts /\ gone' = gone
      /\ refresh' = [refresh EXCEPT ![r] = KI!Idle]
      /\ UNCHANGED <<storeVars, vectors, embeddings, deletion, setup, callVars>>
  BY DEF AbandonRefresh, KI!Abandon
<1>2. GoneType'
  BY <1>1, TypeParts DEF IndInv, GoneType
<1>3. KI!TypeOK'
  BY <1>1 DEF IndInv, TypeOK, KI!TypeOK, KI!Idle
<1>4. IndexInv'
  BY <1>1 DEF IndInv, TypeOK, KI!TypeOK, KI!Idle, IndexInv, LeadElsewhere, Deleted
<1> QED
  BY <1>1, <1>2, <1>3, <1>4, RefreshKeeps

-----------------------------------------------------------------------------
(* The search.                                                             *)

\* No store leads to a file that is gone.
LEMMA MatchesElsewhere ==
    ASSUME IndInv, NEW n \in Halves, NEW ids \in Matches(n)
    PROVE  ids \in Seq(ChunkIds) /\ IdsElsewhere(ids)
<1>1. /\ TablesInv /\ IndexInv /\ TablesType
  BY TypeParts DEF IndInv
<1>2. \A f \in gone.search : deletion[f] = "done"
  BY <1>1 DEF IndexInv, Deleted
<1>3. ASSUME NEW c \in Searchable(n)
      PROVE  c \in ChunkIds /\ FileOf[c] \notin gone.search
  <2>1. CASE n = "vector" /\ setup.store = "pgvector"
    <3>1. c \in DOMAIN vectors
      BY <1>3, <2>1 DEF Searchable, VS!Searchable
    <3> QED
      BY <3>1, <1>1, <1>2 DEF TablesInv, TablesType, VS!TypeOK
  <2>2. CASE n = "vector" /\ setup.store = "public"
    <3>1. c \in embeddings
      BY <1>3, <2>2 DEF Searchable, PE!Searchable
    <3> QED
      BY <3>1, <1>1, <1>2 DEF TablesInv, TablesType, PE!TypeOK
  <2>3. CASE n = "keyword" /\ setup.keyword = "sqlite"
    <3>1. PICK row \in fts : row[1] = c
      BY <1>3, <2>3 DEF Searchable, KI!Searchable
    <3> QED
      BY <3>1, <2>3, <1>1 DEF IndexInv, LeadElsewhere, TablesType, KI!TypeOK, KI!Rows
  <2>4. CASE n = "keyword" /\ setup.keyword # "sqlite"
    <3>1. PICK p \in fileChunks : p[2] = c
      BY <1>3, <2>4 DEF Searchable, PE!KeywordSearchable
    <3> QED
      BY <3>1, <1>1, <1>2 DEF TablesInv, TablesType, FS!TypeOK
  <2> QED
    BY <2>1, <2>2, <2>3, <2>4 DEF Halves, Setups, IndInv, TypeOK
<1>4. Searchable(n) \in SUBSET ChunkIds
  BY <1>3
<1>5. ids \in Seq(Searchable(n)) /\ ids \in Seq(ChunkIds)
  BY <1>4, SomeChunksInOrder DEF Matches
<1> QED
  BY <1>3, <1>5 DEF IdsElsewhere

LEMMA ReadElsewhere ==
    ASSUME NEW ids \in Seq(ChunkIds), IdsElsewhere(ids), NEW wanted,
           NEW found \in GetChunksByIDs(ids, wanted), NEW n \in Nat
    PROVE  /\ found \in Seq(Documents) /\ DocsElsewhere(found)
           /\ UpTo(n, found) \in Seq(Documents) /\ DocsElsewhere(UpTo(n, found))
<1>1. /\ found \in Seq(Documents)
      /\ \A i \in DOMAIN found : found[i].id \in ToSet(ids)
  BY ChunksRead
<1>2. DocsElsewhere(found)
  BY <1>1 DEF DocsElsewhere, IdsElsewhere, ToSet
<1>3. /\ UpTo(n, found) \in Seq(Documents)
      /\ DOMAIN UpTo(n, found) \subseteq DOMAIN found
      /\ \A i \in DOMAIN UpTo(n, found) : UpTo(n, found)[i] = found[i]
  BY <1>1, Prefix
<1> QED
  BY <1>1, <1>2, <1>3 DEF DocsElsewhere

\* A step of the search that has begun.
LEMMA SearchKeeps ==
    ASSUME IndInv, UNCHANGED <<dataVars, setup, query>>, query # NoQuery,
           CallType', \A n \in Halves : SubInv(n)', DocsElsewhere(docs)'
    PROVE  IndInv'
<1>1. TablesType' /\ TablesInv' /\ Deleted' = Deleted
  BY DataUntouched DEF dataVars
<1>2. GoneType' /\ setup' \in Setups /\ IndexInv'
  BY <1>1, TypeParts DEF IndInv, GoneType, IndexInv, LeadElsewhere, dataVars, dbVars
<1>3. AnswerInv'
  BY DEF AnswerInv
<1> QED
  BY <1>1, <1>2, <1>3, NextParts

LEMMA SubKeeps ==
    ASSUME IndInv, UNCHANGED <<dataVars, setup, query, merged, docs, context>>,
           query # NoQuery,
           pc' \in {"receive", "vector", "keyword", "hydrate", "error"} \cup {pc},
           channel' \in Seq([name : Subs, ok : BOOLEAN]),
           NEW n \in Halves, NEW at \in SubStates, GoTo(n, at),
           at.pc # "idle" => n \in Subs,
           IdsElsewhere(at.ids), DocsElsewhere(at.docs)
    PROVE  IndInv'
<1>1. CallType /\ \A m \in Halves : SubInv(m)
  BY TypeParts DEF IndInv, AnswerInv
<1>2. /\ sub' \in [Halves -> SubStates] /\ sub'[n] = at
      /\ \A m \in Halves : m # n => sub'[m] = sub[m]
  BY <1>1 DEF CallType, GoTo
<1>3. Subs' = Subs
  BY DEF Subs
<1>4. CallType'
  BY <1>1, <1>2, <1>3 DEF CallType
<1>5. gone' = gone
  BY DEF dataVars
<1>6. ASSUME NEW m \in Halves PROVE SubInv(m)'
  BY <1>1, <1>2, <1>3, <1>5 DEF SubInv, IdsElsewhere, DocsElsewhere
<1>7. DocsElsewhere(docs)'
  BY <1>5 DEF IndInv, AnswerInv, DocsElsewhere
<1> QED
  BY <1>4, <1>6, <1>7, SearchKeeps

\* A search begins with nothing found.
LEMMA QueryKeeps ==
    ASSUME IndInv, NEW api \in {"retrieve", "semantic"}, NEW fileIds \in Wanted,
           NEW limit \in Limits, Query(api, fileIds, limit),
           pc' \in {"receive", "vector"}, sub' \in [Halves -> SubStates],
           \A n \in Halves : /\ sub'[n].ids = <<>> /\ sub'[n].docs = <<>>
                             /\ sub'[n].pc # "idle" => n \in Subs
    PROVE  IndInv'
<1>1. /\ query = NoQuery /\ SearchBegins
      /\ query' = [api |-> api, fileIds |-> fileIds, limit |-> limit]
      /\ UNCHANGED <<dbVars, setup, channel, merged, docs, context>>
  BY DEF Query
<1>2. TablesType' /\ TablesInv' /\ Deleted' = Deleted
  BY <1>1, DataUntouched
<1>3. GoneType /\ IndexInv /\ CallType /\ docs = <<>>
  BY <1>1, TypeParts DEF IndInv, AnswerInv
<1>4. /\ gone'.at = gone.at /\ gone'.index = gone.index
      /\ gone'.search = IF setup.keyword = "sqlite"
                        THEN Deleted \cap gone.index ELSE Deleted
      /\ GoneType'
  BY <1>1, <1>3 DEF SearchBegins, GoneType, Deleted
<1>5. IndexInv'
  BY <1>1, <1>2, <1>3, <1>4 DEF IndexInv, LeadElsewhere, dbVars
<1>6. query' # NoQuery
  BY <1>1 DEF NoQuery
<1>7. Subs' = Subs
  BY <1>1 DEF Subs
<1>8. AnswerInv'
  BY <1>1, <1>3, <1>6, <1>7 DEF AnswerInv, SubInv, IdsElsewhere, DocsElsewhere
<1>9. CallType'
  BY <1>1, <1>3, <1>7 DEF CallType
<1>10. setup' \in Setups
  BY <1>1 DEF IndInv, TypeOK
<1> QED
  BY <1>2, <1>4, <1>5, <1>8, <1>9, <1>10, NextParts

LEMMA RetrieveKeeps ==
    ASSUME IndInv, NEW fileIds \in Wanted, NEW limit \in Limits,
           Retrieve(fileIds, limit)
    PROVE  IndInv'
<1>1. <<>> \in Seq(ChunkIds) /\ <<>> \in Seq(Documents)
  OBVIOUS
<1>2. [pc |-> "search", ids |-> <<>>, docs |-> <<>>] \in SubStates /\ IdleSub \in SubStates
  BY <1>1 DEF SubStates, IdleSub
<1>3. [IdleSub EXCEPT !.pc = "search"] = [pc |-> "search", ids |-> <<>>, docs |-> <<>>]
  BY DEF IdleSub
<1>4. /\ sub' \in [Halves -> SubStates]
      /\ \A n \in Halves : /\ sub'[n].ids = <<>> /\ sub'[n].docs = <<>>
                           /\ sub'[n].pc # "idle" => n \in Subs
  BY <1>2, <1>3 DEF Retrieve, IdleSub
<1> QED
  BY <1>4, QueryKeeps DEF Retrieve

LEMMA SemanticSearchKeeps ==
    ASSUME IndInv, NEW fileIds \in Wanted, NEW limit \in Limits,
           SemanticSearch(fileIds, limit)
    PROVE  IndInv'
<1>1. sub' = sub /\ sub = [n \in Halves |-> IdleSub] /\ sub \in [Halves -> SubStates]
  BY TypeParts DEF SemanticSearch, Query, IndInv, AnswerInv, CallType
<1> QED
  BY <1>1, QueryKeeps DEF SemanticSearch, IdleSub

LEMMA SubSearchKeeps ==
    ASSUME IndInv, NEW n \in Halves, SubSearch(n)
    PROVE  IndInv'
<1>1. /\ UNCHANGED <<dataVars, setup, query, pc, channel, merged, docs, context>>
      /\ query.api = "retrieve" /\ n \in Subs
  BY DEF SubSearch, IndInv, AnswerInv, SubInv
<1>2. query # NoQuery /\ channel' \in Seq([name : Subs, ok : BOOLEAN])
  BY <1>1, TypeParts DEF NoQuery, IndInv, CallType
<1>3. <<>> \in Seq(ChunkIds) /\ <<>> \in Seq(Documents) /\ DocsElsewhere(<<>>)
      /\ IdsElsewhere(<<>>)
  BY DEF DocsElsewhere, IdsElsewhere
<1>4. CASE \E ids \in Matches(n) : GoTo(n, [pc |-> "hydrate", ids |-> ids, docs |-> <<>>])
  <2>1. PICK ids \in Matches(n) : GoTo(n, [pc |-> "hydrate", ids |-> ids, docs |-> <<>>])
    BY <1>4
  <2>2. ids \in Seq(ChunkIds) /\ IdsElsewhere(ids)
    BY MatchesElsewhere
  <2>3. [pc |-> "hydrate", ids |-> ids, docs |-> <<>>] \in SubStates
    BY <1>3, <2>2 DEF SubStates
  <2> QED
    BY <1>1, <1>2, <1>3, <2>1, <2>2, <2>3, SubKeeps
<1>5. CASE GoTo(n, [IdleSub EXCEPT !.pc = "fail"])
  <2>1. [IdleSub EXCEPT !.pc = "fail"] = [pc |-> "fail", ids |-> <<>>, docs |-> <<>>]
    BY DEF IdleSub
  <2>2. [pc |-> "fail", ids |-> <<>>, docs |-> <<>>] \in SubStates
    BY <1>3 DEF SubStates
  <2> QED
    BY <1>1, <1>2, <1>3, <1>5, <2>1, <2>2, SubKeeps
<1> QED
  BY <1>4, <1>5 DEF SubSearch

\* A sub-retriever at work is one of a search.
LEMMA SearchBegun ==
    ASSUME IndInv, NEW n \in Halves, sub[n].pc # "idle" \/ pc # "idle"
    PROVE  /\ query # NoQuery /\ query.limit \in Nat
           /\ sub[n] \in SubStates /\ SubInv(n)
           /\ channel \in Seq([name : Subs, ok : BOOLEAN])
<1>1. query # NoQuery
  BY DEF IndInv, AnswerInv, IdleSub
<1> QED
  BY <1>1, TypeParts DEF IndInv, AnswerInv, CallType

LEMMA SubHydrateKeeps ==
    ASSUME IndInv, NEW n \in Halves, SubHydrate(n)
    PROVE  IndInv'
<1>1. /\ UNCHANGED <<dataVars, setup, query, pc, channel, merged, docs, context>>
      /\ sub[n].pc = "hydrate" /\ n \in Subs
  BY DEF SubHydrate, IndInv, AnswerInv, SubInv
<1>2. /\ query # NoQuery /\ query.limit \in Nat
      /\ sub[n].ids \in Seq(ChunkIds) /\ IdsElsewhere(sub[n].ids)
      /\ channel' \in Seq([name : Subs, ok : BOOLEAN])
  BY <1>1, SearchBegun DEF SubStates, SubInv
<1>3. <<>> \in Seq(ChunkIds) /\ <<>> \in Seq(Documents) /\ DocsElsewhere(<<>>)
      /\ IdsElsewhere(<<>>)
  BY DEF DocsElsewhere, IdsElsewhere
<1>4. ASSUME NEW found \in GetChunksByIDs(sub[n].ids, ChunkIds),
             GoTo(n, [pc |-> "send", ids |-> sub[n].ids, docs |-> UpTo(query.limit, found)])
      PROVE  IndInv'
  <2>1. /\ UpTo(query.limit, found) \in Seq(Documents)
        /\ DocsElsewhere(UpTo(query.limit, found))
    BY <1>2, ReadElsewhere
  <2>2. [pc |-> "send", ids |-> sub[n].ids, docs |-> UpTo(query.limit, found)] \in SubStates
    BY <1>2, <2>1 DEF SubStates
  <2> QED
    BY <1>1, <1>2, <1>4, <2>1, <2>2, SubKeeps
<1>5. CASE GoTo(n, [IdleSub EXCEPT !.pc = "fail"])
  <2>1. [IdleSub EXCEPT !.pc = "fail"] = [pc |-> "fail", ids |-> <<>>, docs |-> <<>>]
    BY DEF IdleSub
  <2>2. [pc |-> "fail", ids |-> <<>>, docs |-> <<>>] \in SubStates
    BY <1>3 DEF SubStates
  <2> QED
    BY <1>1, <1>2, <1>3, <1>5, <2>1, <2>2, SubKeeps
<1> QED
  BY <1>4, <1>5 DEF SubHydrate

LEMMA SubSendKeeps ==
    ASSUME IndInv, NEW n \in Halves, SubSend(n)
    PROVE  IndInv'
<1> DEFINE at == [pc |-> "end", ids |-> sub[n].ids, docs |-> sub[n].docs]
<1>1. /\ UNCHANGED <<dataVars, setup, query, pc, merged, docs, context>>
      /\ channel' = Append(channel, [name |-> n, ok |-> sub[n].pc = "send"])
      /\ GoTo(n, at)
      /\ sub[n].pc # "idle"
  BY DEF SubSend
<1>2. /\ query # NoQuery /\ sub[n] \in SubStates /\ SubInv(n)
      /\ channel \in Seq([name : Subs, ok : BOOLEAN])
  BY <1>1, SearchBegun
<1>3. n \in Subs
  BY <1>1, <1>2 DEF SubInv
<1>4. channel' \in Seq([name : Subs, ok : BOOLEAN])
  <2> DEFINE ok == sub[n].pc = "send"
  <2>1. ok \in BOOLEAN
    OBVIOUS
  <2> HIDE DEF ok
  <2>2. [name |-> n, ok |-> ok] \in [name : Subs, ok : BOOLEAN]
    BY <1>3, <2>1
  <2>3. channel' = Append(channel, [name |-> n, ok |-> ok])
    BY <1>1 DEF ok
  <2> HIDE DEF at
  <2> QED
    BY <1>2, <2>2, <2>3
<1>5. at \in SubStates /\ IdsElsewhere(at.ids) /\ DocsElsewhere(at.docs)
  BY <1>2 DEF SubStates, SubInv
<1>6. pc' = pc
  BY <1>1
<1> HIDE DEF at
<1> QED
  BY <1>1, <1>2, <1>3, <1>4, <1>5, <1>6, SubKeeps

LEMMA ReceiveKeeps ==
    ASSUME IndInv, Receive
    PROVE  IndInv'
<1>1. /\ UNCHANGED <<dataVars, setup, query, sub, docs, context>>
      /\ pc = "receive" /\ channel # <<>> /\ channel' = Tail(channel)
      /\ \/ merged' = merged \cup {Head(channel).name} /\ pc' = pc
         \/ merged' = merged /\ pc' = "error"
  BY DEF Receive
<1>2. CallType /\ \A n \in Halves : SubInv(n)
  BY TypeParts DEF IndInv, AnswerInv
<1>3. query # NoQuery
  BY <1>1, SearchBegun DEF Halves
<1>4. Subs' = Subs
  BY <1>1 DEF Subs
<1>5. channel \in Seq([name : Subs, ok : BOOLEAN])
  BY <1>2 DEF CallType
<1>6. /\ Head(channel).name \in Subs
      /\ channel' \in Seq([name : Subs, ok : BOOLEAN])
  <2> DEFINE results == [name : Subs, ok : BOOLEAN]
  <2>1. \A x \in results : x.name \in Subs
    OBVIOUS
  <2> HIDE DEF results
  <2>2. channel \in Seq(results)
    BY <1>5 DEF results
  <2>3. Head(channel) \in results /\ Tail(channel) \in Seq(results)
    BY <1>1, <2>2
  <2> QED
    BY <1>1, <2>1, <2>3 DEF results
<1>7. CallType'
  BY <1>1, <1>2, <1>4, <1>6 DEF CallType
<1>8. gone' = gone
  BY <1>1 DEF dataVars
<1>9. (\A n \in Halves : SubInv(n)') /\ DocsElsewhere(docs)'
  BY <1>1, <1>2, <1>4, <1>8 DEF IndInv, AnswerInv, SubInv, IdsElsewhere, DocsElsewhere
<1> QED
  BY <1>1, <1>3, <1>7, <1>9, SearchKeeps

\* The documents of a fused answer are those of the lists.
LEMMA FuseElsewhere ==
    ASSUME IndInv, Fuse
    PROVE  docs' \in Seq(Documents) /\ DocsElsewhere(docs')
<1>1. CallType /\ \A n \in Halves : SubInv(n)
  BY TypeParts DEF IndInv, AnswerInv
<1>2. \A n \in Subs : sub[n].docs \in Seq(Documents) /\ DocsElsewhere(sub[n].docs)
  BY <1>1 DEF CallType, SubStates, SubInv, Subs, Halves
<1>3. CASE Subs = {"vector"}
  BY <1>2, <1>3 DEF Fuse
<1>4. CASE Subs # {"vector"}
  <2> DEFINE v == Ids(sub["vector"].docs)
             k == Ids(sub["keyword"].docs)
  <2>1. PICK last \in Subs, ids \in FusedOrders(v, k) :
           docs' = [i \in DOMAIN ids |-> DocOf(ids[i], last)]
    BY <1>4 DEF Fuse
  <2>2. Subs = {"vector", "keyword"}
    BY <1>4 DEF Subs
  <2>3. ToSet(v) \cup ToSet(k) \in SUBSET ChunkIds
    <3>1. ASSUME NEW n \in Subs, NEW i \in DOMAIN sub[n].docs
          PROVE  sub[n].docs[i].id \in ChunkIds
      <4>1. sub[n].docs[i] \in Documents
        BY <1>2
      <4> QED
        BY <4>1 DEF Documents
    <3>2. \A n \in Subs : ToSet(Ids(sub[n].docs)) \subseteq ChunkIds
      <4>1. \A n \in Subs : \A i \in DOMAIN Ids(sub[n].docs) :
               i \in DOMAIN sub[n].docs /\ Ids(sub[n].docs)[i] = sub[n].docs[i].id
        BY DEF Ids
      <4> QED
        BY <3>1, <4>1 DEF ToSet
    <3> QED
      BY <2>2, <3>2
  <2>4. ids \in Seq(ToSet(v) \cup ToSet(k))
    BY <2>3, OrderOfChunks DEF FusedOrders
  <2>5. ASSUME NEW i \in DOMAIN ids
        PROVE  /\ DocOf(ids[i], last) \in Documents
               /\ FileOf[DocOf(ids[i], last).id] \notin gone.search
    <3>1. ids[i] \in ToSet(v) \cup ToSet(k)
      BY <2>4
    <3>2. PICK n \in Subs : ids[i] \in ToSet(Ids(sub[n].docs))
      BY <2>2, <3>1
    <3>3. DocOf(ids[i], last) \in Documents /\ DocOf(ids[i], last).id = ids[i]
      BY <3>2, DocOfChunk DEF IndInv
    <3>4. PICK j \in DOMAIN sub[n].docs : sub[n].docs[j].id = ids[i]
      BY <3>2 DEF ToSet, Ids
    <3> QED
      BY <1>2, <3>3, <3>4 DEF DocsElsewhere
  <2>6. DOMAIN ids = 1..Len(ids) /\ Len(ids) \in Nat
    BY <2>4
  <2> QED
    BY <2>1, <2>5, <2>6 DEF DocsElsewhere
<1> QED
  BY <1>3, <1>4

\* A step that only sets the answer.
LEMMA AnswerKeeps ==
    ASSUME IndInv, UNCHANGED <<dataVars, setup, query, sub, channel, merged>>,
           pc # "idle", pc' \in {"expand", "return", "error"},
           docs' \in Seq(Documents), DocsElsewhere(docs'),
           context' \in Seq(ParentIds \cup {NoParent})
    PROVE  IndInv'
<1>1. CallType /\ \A n \in Halves : SubInv(n)
  BY TypeParts DEF IndInv, AnswerInv
<1>2. query # NoQuery
  BY SearchBegun DEF Halves
<1>3. Subs' = Subs
  BY DEF Subs
<1>4. CallType'
  BY <1>1, <1>3 DEF CallType
<1>5. gone' = gone
  BY DEF dataVars
<1>6. (\A n \in Halves : SubInv(n)') /\ DocsElsewhere(docs)'
  BY <1>1, <1>3, <1>5 DEF SubInv, IdsElsewhere, DocsElsewhere
<1> QED
  BY <1>2, <1>4, <1>6, SearchKeeps

LEMMA FuseKeeps ==
    ASSUME IndInv, Fuse
    PROVE  IndInv'
<1>1. context \in Seq(ParentIds \cup {NoParent})
  BY TypeParts DEF IndInv, CallType
<1> QED
  BY <1>1, FuseElsewhere, AnswerKeeps DEF Fuse

LEMMA ExpandParentsKeeps ==
    ASSUME IndInv, ExpandParents
    PROVE  IndInv'
<1>1. docs \in Seq(Documents) /\ DocsElsewhere(docs)
  BY TypeParts DEF IndInv, AnswerInv, CallType
<1>2. PICK parents : context' = Context(docs, parents)
  BY DEF ExpandParents
<1>3. ASSUME NEW i \in DOMAIN docs
      PROVE  (IF ParentOf[docs[i].id] \in parents THEN ParentOf[docs[i].id]
                                                  ELSE NoParent)
             \in ParentIds \cup {NoParent}
  <2>1. docs[i] \in Documents
    BY <1>1
  <2>2. docs[i].id \in ChunkIds
    BY <2>1 DEF Documents
  <2>3. ParentOf[docs[i].id] \in ParentIds \cup {NoParent}
    BY <2>2 DEF NoParent
  <2> QED
    BY <2>3
<1>4. DOMAIN docs = 1..Len(docs) /\ Len(docs) \in Nat
  BY <1>1
<1>5. context' \in Seq(ParentIds \cup {NoParent})
  BY <1>2, <1>3, <1>4 DEF Context
<1> QED
  BY <1>1, <1>5, AnswerKeeps DEF ExpandParents

\* One half of SemanticSearch that found these ids.
LEMMA FoundKeeps ==
    ASSUME IndInv, UNCHANGED <<dataVars, setup, query, channel, merged, docs, context>>,
           pc # "idle", pc' \in {"keyword", "hydrate"},
           NEW n \in Halves, NEW ids \in Matches(n), Found(n, ids)
    PROVE  IndInv'
<1> DEFINE at == [pc |-> "idle", ids |-> ids, docs |-> <<>>]
<1>1. GoTo(n, at)
  BY DEF Found, IdleSub
<1>2. ids \in Seq(ChunkIds) /\ IdsElsewhere(ids)
  BY MatchesElsewhere
<1>3. <<>> \in Seq(Documents) /\ DocsElsewhere(<<>>)
  BY DEF DocsElsewhere
<1>4. at \in SubStates /\ IdsElsewhere(at.ids) /\ DocsElsewhere(at.docs)
      /\ at.pc = "idle"
  BY <1>2, <1>3 DEF SubStates
<1>5. query # NoQuery /\ channel' \in Seq([name : Subs, ok : BOOLEAN])
  BY SearchBegun
<1> HIDE DEF at
<1> QED
  BY <1>1, <1>4, <1>5, SubKeeps

LEMMA ErrorKeeps ==
    ASSUME IndInv, pc # "idle", pc' = "error",
           UNCHANGED <<dataVars, setup, query, sub, channel, merged, docs, context>>
    PROVE  IndInv'
<1>1. /\ docs \in Seq(Documents) /\ DocsElsewhere(docs)
      /\ context \in Seq(ParentIds \cup {NoParent})
  BY TypeParts DEF IndInv, AnswerInv, CallType
<1> QED
  BY <1>1, AnswerKeeps

LEMMA VectorSearchKeeps ==
    ASSUME IndInv, VectorSearch
    PROVE  IndInv'
BY FoundKeeps, ErrorKeeps DEF VectorSearch, Halves

LEMMA KeywordSearchKeeps ==
    ASSUME IndInv, KeywordSearch
    PROVE  IndInv'
BY FoundKeeps, ErrorKeeps DEF KeywordSearch, Halves

LEMMA FusedElsewhere ==
    ASSUME IndInv, NEW ids \in FusedIds, query.limit \in Nat
    PROVE  ids \in Seq(ChunkIds) /\ IdsElsewhere(ids)
<1> DEFINE v == sub["vector"].ids
           k == sub["keyword"].ids
<1>1. CallType /\ SubInv("vector") /\ SubInv("keyword")
  BY TypeParts DEF IndInv, AnswerInv, Halves
<1>2. /\ v \in Seq(ChunkIds) /\ IdsElsewhere(v)
      /\ k \in Seq(ChunkIds) /\ IdsElsewhere(k)
  BY <1>1 DEF CallType, SubStates, SubInv, Halves
<1>3. CASE "keyword" \in Subs
  <2>1. PICK order \in FusedOrders(v, k) : ids = UpTo(2 * query.limit, order)
    BY <1>3 DEF FusedIds
  <2>2. ToSet(v) \cup ToSet(k) \in SUBSET ChunkIds
    BY <1>2 DEF ToSet
  <2>3. order \in Seq(ToSet(v) \cup ToSet(k)) /\ order \in Seq(ChunkIds)
    BY <2>2, OrderOfChunks DEF FusedOrders
  <2>4. \A i \in DOMAIN order : order[i] \in ToSet(v) \cup ToSet(k)
    BY <2>3
  <2>5. IdsElsewhere(order)
    BY <1>2, <2>4 DEF IdsElsewhere, ToSet
  <2> DEFINE cut == 2 * query.limit
  <2>6. cut \in Nat /\ ids = UpTo(cut, order)
    BY <2>1
  <2> HIDE DEF cut
  <2>7. order \in Seq(ChunkIds)
    BY <2>3
  <2>8. /\ UpTo(cut, order) \in Seq(ChunkIds)
        /\ DOMAIN UpTo(cut, order) \subseteq DOMAIN order
        /\ \A i \in DOMAIN UpTo(cut, order) : UpTo(cut, order)[i] = order[i]
    BY <2>6, <2>7, Prefix
  <2> QED
    BY <2>5, <2>6, <2>8 DEF IdsElsewhere
<1>4. CASE "keyword" \notin Subs
  BY <1>2, <1>4 DEF FusedIds
<1> QED
  BY <1>3, <1>4

LEMMA HydrateFusedKeeps ==
    ASSUME IndInv, HydrateFused
    PROVE  IndInv'
<1>1. /\ UNCHANGED <<dataVars, setup, query, sub, channel, merged, context>>
      /\ pc = "hydrate"
  BY DEF HydrateFused
<1>2. query.limit \in Nat
  BY <1>1, SearchBegun DEF Halves
<1>3. context' \in Seq(ParentIds \cup {NoParent})
  BY <1>1, TypeParts DEF IndInv, CallType
<1>4. ASSUME NEW ids \in FusedIds, NEW found \in GetChunksByIDs(ids, Want),
             docs' = UpTo(query.limit, found), pc' = "return"
      PROVE  IndInv'
  <2>1. ids \in Seq(ChunkIds) /\ IdsElsewhere(ids)
    BY <1>2, FusedElsewhere
  <2>2. docs' \in Seq(Documents) /\ DocsElsewhere(docs')
    BY <1>2, <1>4, <2>1, ReadElsewhere
  <2> QED
    BY <1>1, <1>3, <1>4, <2>2, AnswerKeeps
<1>5. CASE pc' = "error" /\ UNCHANGED docs
  BY <1>1, <1>5, ErrorKeeps
<1> QED
  BY <1>4, <1>5 DEF HydrateFused

-----------------------------------------------------------------------------
(* Every behaviour.                                                        *)

LEMMA InitInv == Init => IndInv
<1> SUFFICES ASSUME Init PROVE IndInv
  OBVIOUS
<1>1. FS!TypeOK
  BY DEF Init, FS!TypeOK, FS!NoTransaction, FS!Transactions, FS!Optional,
         FS!FileRows, FS!NoStats, FS!ChunkStats, FS!Statuses
<1>2. VS!TypeOK /\ PE!TypeOK /\ KI!TypeOK
  BY DEF Init, VS!Init, PE!Init, KI!Init, VS!TypeOK, PE!TypeOK, KI!TypeOK, KI!Idle
<1>3. GoneType
  BY DEF Init, GoneType
<1>4. CallType
  <2>1. <<>> \in Seq(ChunkIds) /\ <<>> \in Seq(Documents)
    OBVIOUS
  <2>2. IdleSub \in SubStates
    BY <2>1 DEF IdleSub, SubStates
  <2> QED
    BY <2>1, <2>2 DEF Init, CallType
<1>5. TypeOK
  BY <1>1, <1>2, <1>3, <1>4, TypeParts DEF Init, TablesType
<1>6. TablesInv
  BY DEF Init, VS!Init, PE!Init, TablesInv
<1>7. IndexInv
  BY DEF Init, KI!Init, KI!Idle, IndexInv, LeadElsewhere
<1>8. AnswerInv
  BY DEF Init, AnswerInv, SubInv, IdleSub, IdsElsewhere, DocsElsewhere
<1> QED
  BY <1>5, <1>6, <1>7, <1>8 DEF IndInv

LEMMA NextInv == IndInv /\ [Next]_vars => IndInv'
<1> SUFFICES ASSUME IndInv, [Next]_vars PROVE IndInv'
  OBVIOUS
<1>1. ASSUME NEW c \in ChunkIds, SaveChunk(c) \/ IndexChunk(c) PROVE IndInv'
  BY <1>1, SaveChunkKeeps, IndexChunkKeeps
<1>2. ASSUME NEW f \in Deletable, DeleteVectors(f) \/ DeleteDocuments(f) \/ DeleteRows(f)
      PROVE  IndInv'
  BY <1>2, DeleteVectorsKeeps, DeleteDocumentsKeeps, DeleteRowsKeeps
<1>3. ASSUME NEW r \in Refreshers, BeginRefresh(r) \/ EndRefresh(r) \/ AbandonRefresh(r)
      PROVE  IndInv'
  BY <1>3, BeginRefreshKeeps, EndRefreshKeeps, AbandonRefreshKeeps
<1>4. ASSUME NEW fileIds \in Wanted, NEW limit \in Limits,
             Retrieve(fileIds, limit) \/ SemanticSearch(fileIds, limit)
      PROVE  IndInv'
  BY <1>4, RetrieveKeeps, SemanticSearchKeeps
<1>5. CASE Work
  BY <1>5, SubSearchKeeps, SubHydrateKeeps, SubSendKeeps, ReceiveKeeps, FuseKeeps,
     ExpandParentsKeeps, VectorSearchKeeps, KeywordSearchKeeps, HydrateFusedKeeps DEF Work
<1>6. CASE UNCHANGED vars
  <2>1. TablesType' /\ TablesInv' /\ Deleted' = Deleted
    BY <1>6, DataUntouched DEF vars, dataVars
  <2>2. GoneType' /\ setup' \in Setups /\ IndexInv'
    BY <1>6, <2>1, TypeParts
       DEF IndInv, GoneType, IndexInv, LeadElsewhere, vars, dataVars, dbVars
  <2>3. AnswerInv'
    BY <1>6, SearchUntouched DEF IndInv, vars, dataVars
  <2>4. CallType'
    BY <1>6, TypeParts, CallUntouched DEF IndInv, vars
  <2> QED
    BY <2>1, <2>2, <2>3, <2>4, NextParts
<1> QED
  BY <1>1, <1>2, <1>3, <1>4, <1>5, <1>6 DEF Next

LEMMA Invariance == Spec => []IndInv
<1> QED
  BY InitInv, NextInv, PTL DEF Spec

(* Every table, every list of a search and its answer keep their types,    *)
(* whatever is saved, deleted and refreshed beside it.                     *)
THEOREM TypeCorrect == Spec => []TypeOK
<1>1. IndInv => TypeOK
  BY DEF IndInv
<1> QED
  BY <1>1, Invariance, PTL

(* However many refreshes of the keyword index overlap, and whenever the   *)
(* file is deleted, a search of either kind over either store finds no     *)
(* text of a file that was gone before it began and before the refreshes   *)
(* that the index has been built by since.                                 *)
THEOREM DeletedIsNotFound == Spec => []DeletedTextNotFound
<1>1. IndInv => DeletedTextNotFound
  BY DEF IndInv, AnswerInv, DocsElsewhere, DeletedTextNotFound, Returned, ToSet
<1> QED
  BY <1>1, Invariance, PTL

-----------------------------------------------------------------------------
(* What a search was asked for: the invariant of its own steps (ScopeInv). *)

\* Over PublicEmbeddingsStore, which filters by file in its queries.
InScope(c) ==
    setup.store = "public" /\ query.fileIds # {} => FileOf[c] \in query.fileIds

SubInScope(n) ==
    /\ \A i \in DOMAIN sub[n].ids : InScope(sub[n].ids[i])
    /\ \A i \in DOMAIN sub[n].docs : InScope(sub[n].docs[i].id)
    /\ Len(sub[n].docs) <= query.limit

CallerInScope ==
    /\ pc \in {"receive", "expand"} => query.api = "retrieve"
    /\ pc \in {"vector", "keyword", "hydrate"} => query.api = "semantic"
    /\ pc # "return" => context = <<>>
    /\ pc \notin {"expand", "return"} => docs = <<>>

ScopeInv ==
    /\ \A n \in Halves : SubInScope(n)
    /\ CallerInScope
    /\ ResultsStayInScope

LEMMA OthersInScope ==
    ASSUME ScopeInv, UNCHANGED callVars, UNCHANGED setup
    PROVE  ScopeInv'
<1>1. Subs' = Subs
  BY DEF Subs
<1> QED
  BY <1>1 DEF ScopeInv, SubInScope, InScope, CallerInScope, ResultsStayInScope,
              Returned, callVars

LEMMA MatchesInScope ==
    ASSUME IndInv, NEW n \in Halves, NEW ids \in Matches(n)
    PROVE  \A i \in DOMAIN ids : InScope(ids[i])
<1>1. TablesInv /\ IndexInv
  BY DEF IndInv
<1>2. ASSUME NEW c \in Searchable(n), setup.store = "public", query.fileIds # {}
      PROVE  FileOf[c] \in query.fileIds
  <2>1. CASE n = "vector"
    <3>1. c \in PE!ChunksOf(fileChunks, query.fileIds)
      BY <1>2, <2>1 DEF Searchable, PE!Searchable
    <3> QED
      BY <3>1, <1>1 DEF PE!ChunksOf, TablesInv
  <2>2. CASE n = "keyword" /\ setup.keyword = "sqlite"
    <3>1. PICK row \in fts : row[1] = c /\ row[2] \in query.fileIds
      BY <1>2, <2>2 DEF Searchable, KI!Searchable
    <3> QED
      BY <3>1, <1>1 DEF IndexInv, LeadElsewhere
  <2>3. CASE n = "keyword" /\ setup.keyword # "sqlite"
    <3>1. PICK p \in fileChunks : p[2] = c /\ p[1] \in query.fileIds
      BY <1>2, <2>3 DEF Searchable, PE!KeywordSearchable
    <3> QED
      BY <3>1, <1>1 DEF TablesInv
  <2> QED
    BY <2>1, <2>2, <2>3 DEF Halves
<1>3. Searchable(n) \in SUBSET ChunkIds
  <2>1. TablesType
    BY TypeParts DEF IndInv
  <2> QED
    BY <2>1 DEF Searchable, VS!Searchable, PE!Searchable, PE!ChunksOf,
                KI!Searchable, PE!KeywordSearchable, TablesType,
                FS!TypeOK, VS!TypeOK, PE!TypeOK, KI!TypeOK, KI!Rows
<1>4. ids \in Seq(Searchable(n))
  BY <1>3, SomeChunksInOrder DEF Matches
<1> QED
  BY <1>2, <1>4 DEF InScope

LEMMA OrderLength ==
    ASSUME NEW S \in SUBSET ChunkIds, NEW f \in SetToSeqs(S)
    PROVE  Len(f) = Cardinality(S)
<1>1. Cardinality(S) \in Nat
  BY FS_Subset, FS_CardinalityType
<1> QED
  BY <1>1 DEF SetToSeqs

LEMMA FewerElements ==
    ASSUME NEW S, NEW s \in Seq(S)
    PROVE  IsFiniteSet(ToSet(s)) /\ Cardinality(ToSet(s)) <= Len(s)
<1>1. s \in [1..Len(s) -> ToSet(s)] /\ Len(s) \in Nat
  BY DEF ToSet
<1>2. s \in Surjection(1..Len(s), ToSet(s))
  BY <1>1 DEF Surjection, ToSet
<1>3. IsFiniteSet(1..Len(s)) /\ Cardinality(1..Len(s)) = Len(s)
  BY <1>1, FS_Interval
<1> QED
  BY <1>2, <1>3, FS_Surjection

LEMMA PrefixLength ==
    ASSUME NEW S, NEW list \in Seq(S), NEW n \in Nat
    PROVE  Len(UpTo(n, list)) <= n
<1> DEFINE m == IF n <= Len(list) THEN n ELSE Len(list)
<1>1. m \in Nat /\ m <= n /\ {i \in DOMAIN list : i <= n} = 1..m
  OBVIOUS
<1>2. UpTo(n, list) = [i \in 1..m |-> list[i]]
  BY <1>1 DEF UpTo, Restrict
<1> HIDE DEF m
<1> QED
  BY <1>1, <1>2

LEMMA ChunksReadAreWanted ==
    ASSUME NEW ids \in Seq(ChunkIds), NEW wanted,
           NEW found \in GetChunksByIDs(ids, wanted)
    PROVE  \A i \in DOMAIN found :
              found[i].id \in wanted /\ found[i].file = FileNamed(found[i].id)
<1> DEFINE S == ToSet(ids) \cap DOMAIN chunks \cap wanted
<1>1. S \in SUBSET ChunkIds
  BY DEF ToSet
<1>2. PICK there \in SetToSeqs(S) :
         found = [i \in DOMAIN there |->
                    [id |-> there[i], file |-> FileNamed(there[i])]]
  BY DEF GetChunksByIDs
<1>3. there \in Seq(S)
  BY <1>1, OrderOfChunks
<1>4. \A i \in DOMAIN there : there[i] \in wanted
  BY <1>3
<1> HIDE DEF S
<1> QED
  BY <1>2, <1>4

LEMMA SubsCount ==
    \/ Subs = {"vector"} /\ Cardinality(Subs) = 1
    \/ Subs = {"vector", "keyword"} /\ Cardinality(Subs) = 2
<1>1. Cardinality({"vector"}) = 1 /\ IsFiniteSet({"vector"})
  BY FS_Singleton
<1>2. Cardinality({"vector"} \cup {"keyword"}) = 2
  <2> DEFINE one == {"vector"}
  <2>1. "keyword" \notin one
    OBVIOUS
  <2>2. IsFiniteSet(one) /\ Cardinality(one) = 1
    BY <1>1
  <2> HIDE DEF one
  <2>3. Cardinality(one \cup {"keyword"}) = Cardinality(one) + 1
    BY <2>1, <2>2, FS_AddElement
  <2> QED
    BY <2>2, <2>3 DEF one
<1>3. {"vector", "keyword"} = {"vector"} \cup {"keyword"}
  OBVIOUS
<1> QED
  BY <1>1, <1>2, <1>3 DEF Subs

\* A step in which one half of the search goes on, and the answer is still
\* to be made.
LEMMA HalfInScope ==
    ASSUME IndInv, ScopeInv, UNCHANGED <<setup, query, docs, context>>,
           pc' = pc \/ /\ pc' \in {"keyword", "hydrate"}
                       /\ pc \in {"vector", "keyword", "hydrate"},
           NEW n \in Halves, NEW at, GoTo(n, at),
           \A i \in DOMAIN at.ids : InScope(at.ids[i]),
           \A i \in DOMAIN at.docs : InScope(at.docs[i].id),
           Len(at.docs) <= query.limit
    PROVE  ScopeInv'
<1>1. Subs' = Subs /\ Returned' = Returned
  BY DEF Subs, Returned
<1>2. /\ sub'[n] = at
      /\ \A m \in Halves : m # n => sub'[m] = sub[m]
  BY DEF GoTo, IndInv, TypeOK
<1>3. ASSUME NEW m \in Halves PROVE SubInScope(m)'
  BY <1>2 DEF ScopeInv, SubInScope, InScope
<1>4. CallerInScope'
  BY DEF ScopeInv, CallerInScope
<1>5. ResultsStayInScope'
  BY <1>1 DEF ScopeInv, ResultsStayInScope
<1> QED
  BY <1>3, <1>4, <1>5 DEF ScopeInv

LEMMA QueryInScope ==
    ASSUME IndInv, ScopeInv, NEW fileIds \in Wanted, NEW limit \in Limits,
           Retrieve(fileIds, limit) \/ SemanticSearch(fileIds, limit)
    PROVE  ScopeInv'
<1>1. /\ query = NoQuery /\ pc = "idle" /\ docs = <<>> /\ context = <<>>
      /\ sub = [n \in Halves |-> IdleSub]
      /\ UNCHANGED <<setup, docs, context>>
      /\ query'.fileIds = fileIds /\ query'.limit = limit
      /\ \/ pc' = "receive" /\ query'.api = "retrieve"
         \/ pc' = "vector" /\ query'.api = "semantic"
  BY DEF Retrieve, SemanticSearch, Query, IndInv, AnswerInv, ScopeInv, CallerInScope
<1>2. \A n \in Halves : sub'[n].ids = <<>> /\ sub'[n].docs = <<>>
  <2>1. [IdleSub EXCEPT !.pc = "search"] = [pc |-> "search", ids |-> <<>>, docs |-> <<>>]
    BY DEF IdleSub
  <2> QED
    BY <1>1, <2>1 DEF Retrieve, SemanticSearch, IdleSub
<1>3. \A n \in Halves : SubInScope(n)'
  BY <1>1, <1>2 DEF SubInScope
<1>4. CallerInScope'
  BY <1>1 DEF CallerInScope
<1>5. limit * Cardinality(Subs') \in Nat
  <2>1. Subs' = Subs
    BY <1>1 DEF Subs
  <2> QED
    BY <2>1, SubsCount
<1>6. ResultsStayInScope'
  BY <1>1, <1>5 DEF ResultsStayInScope, Returned, ToSet
<1> QED
  BY <1>3, <1>4, <1>6 DEF ScopeInv

LEMMA SubSearchInScope ==
    ASSUME IndInv, ScopeInv, NEW n \in Halves, SubSearch(n)
    PROVE  ScopeInv'
<1>1. UNCHANGED <<setup, query, pc, docs, context>>
  BY DEF SubSearch
<1>2. query.limit \in Nat
  BY SearchBegun DEF SubSearch
<1>3. CASE \E ids \in Matches(n) : GoTo(n, [pc |-> "hydrate", ids |-> ids, docs |-> <<>>])
  <2>1. PICK ids \in Matches(n) : GoTo(n, [pc |-> "hydrate", ids |-> ids, docs |-> <<>>])
    BY <1>3
  <2> QED
    BY <1>1, <1>2, <2>1, MatchesInScope, HalfInScope
<1>4. CASE GoTo(n, [IdleSub EXCEPT !.pc = "fail"])
  <2>1. [IdleSub EXCEPT !.pc = "fail"] = [pc |-> "fail", ids |-> <<>>, docs |-> <<>>]
    BY DEF IdleSub
  <2> QED
    BY <1>1, <1>2, <1>4, <2>1, HalfInScope
<1> QED
  BY <1>3, <1>4 DEF SubSearch

LEMMA SubHydrateInScope ==
    ASSUME IndInv, ScopeInv, NEW n \in Halves, SubHydrate(n)
    PROVE  ScopeInv'
<1>1. UNCHANGED <<setup, query, pc, docs, context>>
  BY DEF SubHydrate
<1>2. query.limit \in Nat /\ sub[n].ids \in Seq(ChunkIds)
  BY SearchBegun DEF SubHydrate, SubStates
<1>3. \A i \in DOMAIN sub[n].ids : InScope(sub[n].ids[i])
  BY DEF ScopeInv, SubInScope
<1>4. ASSUME NEW found \in GetChunksByIDs(sub[n].ids, ChunkIds),
             GoTo(n, [pc |-> "send", ids |-> sub[n].ids, docs |-> UpTo(query.limit, found)])
      PROVE  ScopeInv'
  <2> DEFINE list == UpTo(query.limit, found)
  <2>1. /\ found \in Seq(Documents)
        /\ \A i \in DOMAIN found : found[i].id \in ToSet(sub[n].ids)
    BY <1>2, ChunksRead
  <2>2. Len(list) <= query.limit
    BY <1>2, <2>1, PrefixLength
  <2>3. /\ DOMAIN list \subseteq DOMAIN found
        /\ \A i \in DOMAIN list : list[i] = found[i]
    BY <1>2, <2>1, Prefix
  <2>4. \A i \in DOMAIN list : InScope(list[i].id)
    BY <1>3, <2>1, <2>3 DEF ToSet
  <2> HIDE DEF list
  <2>5. GoTo(n, [pc |-> "send", ids |-> sub[n].ids, docs |-> list])
    BY <1>4 DEF list
  <2> QED
    BY <1>1, <1>3, <2>2, <2>4, <2>5, HalfInScope
<1>5. CASE GoTo(n, [IdleSub EXCEPT !.pc = "fail"])
  <2>1. [IdleSub EXCEPT !.pc = "fail"] = [pc |-> "fail", ids |-> <<>>, docs |-> <<>>]
    BY DEF IdleSub
  <2> QED
    BY <1>1, <1>2, <1>5, <2>1, HalfInScope
<1> QED
  BY <1>4, <1>5 DEF SubHydrate

LEMMA SubSendInScope ==
    ASSUME IndInv, ScopeInv, NEW n \in Halves, SubSend(n)
    PROVE  ScopeInv'
<1> DEFINE at == [pc |-> "end", ids |-> sub[n].ids, docs |-> sub[n].docs]
<1>1. UNCHANGED <<setup, query, pc, docs, context>> /\ GoTo(n, at)
  BY DEF SubSend
<1>2. /\ \A i \in DOMAIN at.ids : InScope(at.ids[i])
      /\ \A i \in DOMAIN at.docs : InScope(at.docs[i].id)
      /\ Len(at.docs) <= query.limit
  BY DEF ScopeInv, SubInScope
<1> HIDE DEF at
<1> QED
  BY <1>1, <1>2, HalfInScope

LEMMA FoundInScope ==
    ASSUME IndInv, ScopeInv, UNCHANGED <<setup, query, docs, context>>,
           pc' \in {"keyword", "hydrate"}, pc \in {"vector", "keyword", "hydrate"},
           NEW n \in Halves, NEW ids \in Matches(n), Found(n, ids)
    PROVE  ScopeInv'
<1>1. GoTo(n, [pc |-> "idle", ids |-> ids, docs |-> <<>>])
  BY DEF Found, IdleSub
<1>2. query.limit \in Nat
  BY SearchBegun
<1> QED
  BY <1>1, <1>2, MatchesInScope, HalfInScope

\* An error ends the search with no answer.
LEMMA ErrorInScope ==
    ASSUME ScopeInv, pc' = "error", pc # "return",
           UNCHANGED <<setup, query, sub, docs, context>>,
           docs = <<>>
    PROVE  ScopeInv'
<1>1. Subs' = Subs
  BY DEF Subs
<1> QED
  BY <1>1 DEF ScopeInv, SubInScope, InScope, CallerInScope, ResultsStayInScope, Returned

LEMMA VectorSearchInScope ==
    ASSUME IndInv, ScopeInv, VectorSearch
    PROVE  ScopeInv'
BY FoundInScope, ErrorInScope DEF VectorSearch, Halves, ScopeInv, CallerInScope

LEMMA KeywordSearchInScope ==
    ASSUME IndInv, ScopeInv, KeywordSearch
    PROVE  ScopeInv'
BY FoundInScope, ErrorInScope DEF KeywordSearch, Halves, ScopeInv, CallerInScope

LEMMA ReceiveInScope ==
    ASSUME IndInv, ScopeInv, Receive
    PROVE  ScopeInv'
<1>1. /\ UNCHANGED <<setup, query, sub, docs, context>>
      /\ pc = "receive" /\ pc' \in {"receive", "error"}
  BY DEF Receive
<1>2. Subs' = Subs
  BY <1>1 DEF Subs
<1> QED
  BY <1>1, <1>2 DEF ScopeInv, SubInScope, InScope, CallerInScope,
                    ResultsStayInScope, Returned

\* A fused answer has each document of the lists once.
LEMMA FusedLength ==
    ASSUME IndInv, ScopeInv, Fuse
    PROVE  Len(docs') <= query.limit * Cardinality(Subs)
<1>1. query.limit \in Nat
  BY SearchBegun DEF Fuse, Halves
<1>2. \A n \in Halves : /\ sub[n].docs \in Seq(Documents)
                        /\ Len(sub[n].docs) <= query.limit
  BY TypeParts DEF IndInv, CallType, SubStates, ScopeInv, SubInScope
<1>3. CASE Subs = {"vector"}
  <2>1. docs' = sub["vector"].docs /\ Cardinality(Subs) = 1
    BY <1>3, SubsCount DEF Fuse
  <2> QED
    BY <1>1, <1>2, <2>1 DEF Halves
<1>4. CASE Subs # {"vector"}
  <2> DEFINE v == Ids(sub["vector"].docs)
             k == Ids(sub["keyword"].docs)
             a == ToSet(v)
             b == ToSet(k)
  <2>1. PICK last \in Subs, ids \in FusedOrders(v, k) :
           docs' = [i \in DOMAIN ids |-> DocOf(ids[i], last)]
    BY <1>4 DEF Fuse
  <2>2. ASSUME NEW n \in Halves
        PROVE  /\ Ids(sub[n].docs) \in Seq(ChunkIds)
               /\ Len(Ids(sub[n].docs)) = Len(sub[n].docs)
    <3>1. ASSUME NEW i \in DOMAIN sub[n].docs PROVE sub[n].docs[i].id \in ChunkIds
      <4>1. sub[n].docs[i] \in Documents
        BY <1>2
      <4> QED
        BY <4>1 DEF Documents
    <3>2. DOMAIN sub[n].docs = 1..Len(sub[n].docs) /\ Len(sub[n].docs) \in Nat
      BY <1>2
    <3> QED
      BY <3>1, <3>2 DEF Ids
  <2>3. /\ v \in Seq(ChunkIds) /\ Len(v) <= query.limit
        /\ k \in Seq(ChunkIds) /\ Len(k) <= query.limit
    BY <1>2, <2>2 DEF Halves
  <2>4. /\ IsFiniteSet(a) /\ Cardinality(a) <= Len(v)
        /\ IsFiniteSet(b) /\ Cardinality(b) <= Len(k)
        /\ a \cup b \in SUBSET ChunkIds
    BY <2>3, FewerElements DEF ToSet
  <2>5. ids \in SetToSeqs(a \cup b)
    BY <2>1 DEF FusedOrders
  <2>6. Len(docs') = Len(ids) /\ Len(ids) \in Nat
    <3>1. ids \in Seq(ChunkIds)
      BY <2>4, <2>5, OrderOfChunks
    <3> QED
      BY <2>1, <3>1
  <2>7. Len(ids) = Cardinality(a \cup b)
    BY <2>4, <2>5, OrderLength
  <2>8. Len(v) \in Nat /\ Len(k) \in Nat
    BY <2>3
  <2> HIDE DEF v, k, a, b
  <2>9. /\ Cardinality(a \cup b) = Cardinality(a) + Cardinality(b) - Cardinality(a \cap b)
        /\ Cardinality(a) \in Nat /\ Cardinality(b) \in Nat
    BY <2>4, FS_Union, FS_CardinalityType
  <2>10. Cardinality(a \cap b) \in Nat
    <3>1. IsFiniteSet(a \cap b)
      BY <2>4, FS_Subset
    <3> QED
      BY <3>1, FS_CardinalityType
  <2>11. Cardinality(Subs) = 2
    BY <1>4, SubsCount
  <2> QED
    BY <1>1, <2>3, <2>4, <2>6, <2>7, <2>8, <2>9, <2>10, <2>11
<1> QED
  BY <1>3, <1>4

LEMMA FuseInScope ==
    ASSUME IndInv, ScopeInv, Fuse
    PROVE  ScopeInv'
<1>1. /\ UNCHANGED <<setup, query, sub, context>>
      /\ pc = "receive" /\ pc' = "expand"
      /\ query.api = "retrieve" /\ context = <<>>
  BY DEF Fuse, ScopeInv, CallerInScope
<1>2. Subs' = Subs
  BY <1>1 DEF Subs
<1>3. \A i \in DOMAIN docs' : InScope(docs'[i].id)
  <2>1. ASSUME NEW n \in Subs
        PROVE  \A i \in DOMAIN sub[n].docs : InScope(sub[n].docs[i].id)
    BY DEF ScopeInv, SubInScope, Subs, Halves
  <2>2. CASE Subs = {"vector"}
    BY <2>1, <2>2 DEF Fuse
  <2>3. CASE Subs # {"vector"}
    <3> DEFINE v == Ids(sub["vector"].docs)
               k == Ids(sub["keyword"].docs)
    <3>1. PICK last \in Subs, ids \in FusedOrders(v, k) :
             docs' = [i \in DOMAIN ids |-> DocOf(ids[i], last)]
      BY <2>3 DEF Fuse
    <3>2. Subs = {"vector", "keyword"}
      BY <2>3 DEF Subs
    <3>3. ids \in [1..Cardinality(ToSet(v) \cup ToSet(k)) -> ToSet(v) \cup ToSet(k)]
      BY <3>1 DEF FusedOrders, SetToSeqs
    <3>4. ASSUME NEW i \in DOMAIN ids PROVE InScope(DocOf(ids[i], last).id)
      <4>1. ids[i] \in ToSet(v) \cup ToSet(k)
        BY <3>3
      <4>2. PICK n \in Subs : ids[i] \in ToSet(Ids(sub[n].docs))
        BY <3>2, <4>1
      <4>3. DocOf(ids[i], last).id = ids[i]
        BY <4>2, DocOfChunk DEF IndInv
      <4>4. PICK j \in DOMAIN sub[n].docs : sub[n].docs[j].id = ids[i]
        BY <4>2 DEF ToSet, Ids
      <4> QED
        BY <2>1, <4>3, <4>4
    <3> QED
      BY <3>1, <3>4
  <2> QED
    BY <2>2, <2>3
<1>4. (\A n \in Halves : SubInScope(n)') /\ CallerInScope'
  BY <1>1 DEF ScopeInv, SubInScope, InScope, CallerInScope
<1>5. ResultsStayInScope'
  <2>1. Len(docs') <= query'.limit * Cardinality(Subs')
    BY <1>1, <1>2, FusedLength
  <2>2. setup'.store = "public" /\ query'.fileIds # {} =>
           \A d \in Returned' : FileOf[d.id] \in query'.fileIds
    BY <1>1, <1>3 DEF Returned, ToSet, InScope
  <2> QED
    BY <1>1, <2>1, <2>2 DEF ResultsStayInScope
<1> QED
  BY <1>4, <1>5 DEF ScopeInv

LEMMA ExpandParentsInScope ==
    ASSUME IndInv, ScopeInv, ExpandParents
    PROVE  ScopeInv'
<1>1. /\ UNCHANGED <<setup, query, sub, docs>>
      /\ pc = "expand" /\ pc' = "return" /\ query.api = "retrieve"
  BY DEF ExpandParents, ScopeInv, CallerInScope
<1>2. Subs' = Subs /\ Returned' = Returned
  BY <1>1 DEF Subs, Returned
<1>3. \A i \in DOMAIN context' : context'[i] \in {NoParent, ParentOf[docs[i].id]}
  BY DEF ExpandParents, Context
<1>4. (\A n \in Halves : SubInScope(n)') /\ CallerInScope'
  BY <1>1 DEF ScopeInv, SubInScope, InScope, CallerInScope
<1>5. ResultsStayInScope'
  BY <1>1, <1>2, <1>3 DEF ScopeInv, ResultsStayInScope
<1> QED
  BY <1>4, <1>5 DEF ScopeInv

LEMMA HydrateFusedInScope ==
    ASSUME IndInv, ScopeInv, HydrateFused
    PROVE  ScopeInv'
<1>1. /\ UNCHANGED <<setup, query, sub, context>>
      /\ pc = "hydrate" /\ context = <<>> /\ docs = <<>>
      /\ query.api = "semantic"
  BY DEF HydrateFused, ScopeInv, CallerInScope
<1>2. query.limit \in Nat
  BY <1>1, SearchBegun DEF Halves
<1>3. ASSUME NEW ids \in FusedIds, NEW found \in GetChunksByIDs(ids, Want),
             docs' = UpTo(query.limit, found), pc' = "return"
      PROVE  ScopeInv'
  <2>1. ids \in Seq(ChunkIds)
    BY <1>2, FusedElsewhere
  <2>2. /\ found \in Seq(Documents)
        /\ \A i \in DOMAIN found :
              found[i].id \in Want /\ found[i].file = FileNamed(found[i].id)
    BY <2>1, ChunksRead, ChunksReadAreWanted
  <2>3. Len(docs') <= query.limit
    BY <1>2, <1>3, <2>2, PrefixLength
  <2>4. /\ DOMAIN docs' \subseteq DOMAIN found
        /\ \A i \in DOMAIN docs' : docs'[i] = found[i]
    BY <1>2, <1>3, <2>2, Prefix
  <2>5. query.fileIds # {} => \A d \in Returned' : d.file \in query.fileIds
    BY <2>2, <2>4 DEF Want, Returned, ToSet
  <2>6. ResultsStayInScope'
    BY <1>1, <2>3, <2>5 DEF ResultsStayInScope
  <2>7. (\A n \in Halves : SubInScope(n)') /\ CallerInScope'
    BY <1>1, <1>3 DEF ScopeInv, SubInScope, InScope, CallerInScope
  <2> QED
    BY <2>6, <2>7 DEF ScopeInv
<1>4. CASE pc' = "error" /\ UNCHANGED docs
  BY <1>1, <1>4, ErrorInScope
<1> QED
  BY <1>3, <1>4 DEF HydrateFused

LEMMA InitInScope == Init => ScopeInv
<1> SUFFICES ASSUME Init PROVE ScopeInv
  OBVIOUS
<1>1. (\A n \in Halves : SubInScope(n)) /\ CallerInScope
  BY DEF Init, SubInScope, IdleSub, NoQuery, CallerInScope
<1>2. ResultsStayInScope
  BY DEF Init, NoQuery, ResultsStayInScope
<1> QED
  BY <1>1, <1>2 DEF ScopeInv

LEMMA NextInScope == IndInv /\ ScopeInv /\ [Next]_vars => ScopeInv'
<1> SUFFICES ASSUME IndInv, ScopeInv, [Next]_vars PROVE ScopeInv'
  OBVIOUS
<1>1. ASSUME NEW c \in ChunkIds, SaveChunk(c) \/ IndexChunk(c) PROVE ScopeInv'
  BY <1>1, OthersInScope DEF SaveChunk, IndexChunk
<1>2. ASSUME NEW f \in Deletable, DeleteVectors(f) \/ DeleteDocuments(f) \/ DeleteRows(f)
      PROVE  ScopeInv'
  BY <1>2, OthersInScope DEF DeleteVectors, DeleteDocuments, DeleteRows
<1>3. ASSUME NEW r \in Refreshers, BeginRefresh(r) \/ EndRefresh(r) \/ AbandonRefresh(r)
      PROVE  ScopeInv'
  BY <1>3, OthersInScope DEF BeginRefresh, EndRefresh, AbandonRefresh
<1>4. ASSUME NEW fileIds \in Wanted, NEW limit \in Limits,
             Retrieve(fileIds, limit) \/ SemanticSearch(fileIds, limit)
      PROVE  ScopeInv'
  BY <1>4, QueryInScope
<1>5. CASE Work
  BY <1>5, SubSearchInScope, SubHydrateInScope, SubSendInScope, ReceiveInScope,
     FuseInScope, ExpandParentsInScope, VectorSearchInScope, KeywordSearchInScope,
     HydrateFusedInScope DEF Work
<1>6. CASE UNCHANGED vars
  BY <1>6, OthersInScope DEF vars
<1> QED
  BY <1>1, <1>2, <1>3, <1>4, <1>5, <1>6 DEF Next

(* SemanticSearch returns no more than its limit and only chunks of the    *)
(* files asked for; Retrieve, over the store that filters, none of another *)
(* file, TopK of each sub-retriever at most, and each document with the    *)
(* context of its own parent: for any limits, files and parents, and       *)
(* whatever is saved and deleted between the steps of the search.          *)
THEOREM AnswerInScope == Spec => []ResultsStayInScope
<1>1. ScopeInv => ResultsStayInScope
  BY DEF ScopeInv
<1>2. Init /\ [][Next]_vars /\ []IndInv => []ScopeInv
  BY InitInScope, NextInScope, PTL
<1> QED
  BY <1>1, <1>2, Invariance, PTL DEF Spec

-----------------------------------------------------------------------------
(* The order of an answer.  Of two fractions that are added to two others, *)
(* none greater and one smaller, the sum is smaller: so a score respects   *)
(* the lists it is made from.  The lists, which have each chunk once, are  *)
(* fixed when they are fused, every sub-retriever having ended (RankInv).  *)

Fractions == Nat \X (Nat \ {0})

Above(p, q) == p[1] * q[2] > q[1] * p[2]

LEMMA TimesKeepsOrder ==
    ASSUME NEW a \in Nat, NEW b \in Nat, NEW c \in Nat, a >= b
    PROVE  a * c >= b * c
<1>1. PICK d \in Nat : a = b + d
  <2>1. a - b \in Nat /\ a = b + (a - b)
    OBVIOUS
  <2> QED
    BY <2>1
<1>2. (b + d) * c = b * c + d * c
  OBVIOUS
<1>3. d * c \in Nat /\ b * c \in Nat
  OBVIOUS
<1> QED
  BY <1>1, <1>2, <1>3

LEMMA TimesKeepsAbove ==
    ASSUME NEW a \in Nat, NEW b \in Nat, NEW c \in Nat \ {0}, a > b
    PROVE  a * c > b * c
<1>1. a >= b + 1 /\ b + 1 \in Nat /\ c \in Nat
  OBVIOUS
<1>2. a * c >= (b + 1) * c
  BY <1>1, TimesKeepsOrder
<1>3. (b + 1) * c = b * c + c
  OBVIOUS
<1>4. b * c \in Nat /\ a * c \in Nat
  OBVIOUS
<1> QED
  BY <1>2, <1>3, <1>4

LEMMA ProductPositive ==
    ASSUME NEW a \in Nat \ {0}, NEW b \in Nat \ {0}
    PROVE  a * b \in Nat \ {0}
<1>1. a > 0 /\ a \in Nat /\ 0 \in Nat
  OBVIOUS
<1>2. a * b > 0 * b
  BY <1>1, TimesKeepsAbove
<1> QED
  BY <1>2

LEMMA SumAbove ==
    ASSUME NEW p \in Fractions, NEW q \in Fractions,
           NEW r \in Fractions, NEW s \in Fractions,
           Above(p, q), AtLeast(r, s)
    PROVE  ~ AtLeast(Plus(q, s), Plus(p, r)) /\ ~ AtLeast(Plus(s, q), Plus(r, p))
<1> DEFINE np == p[1]
           dp == p[2]
           nq == q[1]
           dq == q[2]
           nr == r[1]
           dr == r[2]
           ns == s[1]
           ds == s[2]
<1>1. /\ np \in Nat /\ nq \in Nat /\ nr \in Nat /\ ns \in Nat
      /\ dp \in Nat \ {0} /\ dq \in Nat \ {0} /\ dr \in Nat \ {0} /\ ds \in Nat \ {0}
      /\ np * dq > nq * dp /\ nr * ds >= ns * dr
  BY DEF Fractions, Above, AtLeast
<1>2. /\ Plus(q, s) = <<nq * ds + ns * dq, dq * ds>>
      /\ Plus(s, q) = <<ns * dq + nq * ds, ds * dq>>
      /\ Plus(p, r) = <<np * dr + nr * dp, dp * dr>>
      /\ Plus(r, p) = <<nr * dp + np * dr, dr * dp>>
  BY DEF Plus
<1> HIDE DEF np, dp, nq, dq, nr, dr, ns, ds
<1>3. /\ np * dq \in Nat /\ nq * dp \in Nat /\ nr * ds \in Nat /\ ns * dr \in Nat
      /\ dr * ds \in Nat \ {0} /\ dp * dq \in Nat
  BY <1>1, ProductPositive
<1>4. (np * dq) * (dr * ds) > (nq * dp) * (dr * ds)
  BY <1>1, <1>3, TimesKeepsAbove
<1>5. (nr * ds) * (dp * dq) >= (ns * dr) * (dp * dq)
  BY <1>1, <1>3, TimesKeepsOrder
<1> DEFINE a == (np * dq) * (dr * ds)
           b == (nq * dp) * (dr * ds)
           c == (nr * ds) * (dp * dq)
           d == (ns * dr) * (dp * dq)
<1>6. a \in Nat /\ b \in Nat /\ c \in Nat /\ d \in Nat
  BY <1>3
<1>7. /\ (nq * ds + ns * dq) * (dp * dr) = b + d
      /\ (np * dr + nr * dp) * (dq * ds) = a + c
      /\ (ns * dq + nq * ds) * (dr * dp) = b + d
      /\ (nr * dp + np * dr) * (ds * dq) = a + c
  BY <1>1
<1>8. b + d < a + c
  <2>1. a > b /\ c >= d
    BY <1>4, <1>5
  <2> HIDE DEF a, b, c, d
  <2> QED
    BY <1>6, <2>1
<1> HIDE DEF a, b, c, d
<1>9. AtLeast(Plus(q, s), Plus(p, r)) <=>
         (nq * ds + ns * dq) * (dp * dr) >= (np * dr + nr * dp) * (dq * ds)
  BY <1>2 DEF AtLeast
<1>10. AtLeast(Plus(s, q), Plus(r, p)) <=>
         (ns * dq + nq * ds) * (dr * dp) >= (nr * dp + np * dr) * (ds * dq)
  BY <1>2 DEF AtLeast
<1> QED
  BY <1>6, <1>7, <1>8, <1>9, <1>10

LEMMA ShareType ==
    ASSUME NEW n \in Halves, NEW list \in Seq(ChunkIds), NEW c
    PROVE  Share(n, list, c) \in Fractions
<1>1. Weight[n] \in Nat
  BY DEF Weight, Halves
<1>2. ASSUME c \in ToSet(list)
      PROVE  (K + CHOOSE i \in DOMAIN list : list[i] = c) \in Nat \ {0}
  <2> DEFINE at == CHOOSE i \in DOMAIN list : list[i] = c
  <2>1. at \in DOMAIN list
    BY <1>2 DEF ToSet
  <2>2. at \in Nat /\ at > 0
    BY <2>1
  <2> HIDE DEF at
  <2>3. K + at \in Nat \ {0}
    BY <2>2 DEF K
  <2> QED
    BY <2>3 DEF at
<1> QED
  BY <1>1, <1>2 DEF Share, Fractions

LEMMA ShareInList ==
    ASSUME NEW n, NEW list, IsInjective(list), NEW i \in DOMAIN list
    PROVE  Share(n, list, list[i]) = <<Weight[n], K + i>>
<1>1. list[i] \in ToSet(list)
  BY DEF ToSet
<1>2. (CHOOSE j \in DOMAIN list : list[j] = list[i]) = i
  BY DEF IsInjective
<1> QED
  BY <1>1, <1>2 DEF Share

\* The share of the chunk that is ahead in a list is the greater.
LEMMA AheadSharesMore ==
    ASSUME NEW n \in Halves, NEW list \in Seq(ChunkIds), IsInjective(list),
           NEW a, NEW b, Ahead(list, a, b)
    PROVE  Above(Share(n, list, a), Share(n, list, b))
<1>1. PICK i \in DOMAIN list :
         list[i] = a /\ \A j \in DOMAIN list : list[j] = b => i < j
  BY DEF Ahead
<1>2. Share(n, list, a) = <<Weight[n], K + i>>
  BY <1>1, ShareInList
<1>3. Weight[n] \in Nat /\ Weight[n] > 0 /\ K \in Nat /\ i \in Nat
  BY DEF Weight, Halves, K
<1>4. CASE b \in ToSet(list)
  <2>1. PICK j \in DOMAIN list : list[j] = b
    BY <1>4 DEF ToSet
  <2>2. /\ Share(n, list, b) = <<Weight[n], K + j>>
        /\ i < j /\ j \in Nat
    <3>1. Share(n, list, list[j]) = <<Weight[n], K + j>>
      BY <2>1, ShareInList
    <3>2. i < j
      BY <1>1, <2>1
    <3>3. j \in Nat
      BY <2>1
    <3> QED
      BY <2>1, <3>1, <3>2, <3>3
  <2>3. Weight[n] * (K + j) > Weight[n] * (K + i)
    <3> DEFINE w == Weight[n]
               x == K + j
               y == K + i
    <3>1. x \in Nat /\ y \in Nat /\ x > y /\ w \in Nat \ {0}
      BY <1>3, <2>2
    <3> HIDE DEF w, x, y
    <3>2. x * w > y * w /\ x * w = w * x /\ y * w = w * y
      BY <3>1, TimesKeepsAbove
    <3>3. w * x > w * y
      BY <3>2
    <3> QED
      BY <3>3 DEF w, x, y
  <2> QED
    BY <1>2, <2>2, <2>3 DEF Above
<1>5. CASE b \notin ToSet(list)
  <2>1. Share(n, list, b) = <<0, 1>>
    BY <1>5 DEF Share
  <2>2. Weight[n] * 1 > 0 * (K + i)
    BY <1>3
  <2> QED
    BY <1>2, <2>1, <2>2 DEF Above
<1> QED
  BY <1>4, <1>5

\* b is before a in no list, and a is before b in some or all.
Prefers(list, a, b) == Ahead(list, a, b) \/ {a, b} \cap ToSet(list) = {}

LEMMA PreferredSharesMore ==
    ASSUME NEW n \in Halves, NEW list \in Seq(ChunkIds), IsInjective(list),
           NEW a, NEW b, Prefers(list, a, b)
    PROVE  /\ AtLeast(Share(n, list, a), Share(n, list, b))
           /\ a \in ToSet(list) => Above(Share(n, list, a), Share(n, list, b))
<1>1. CASE Ahead(list, a, b)
  <2>1. Above(Share(n, list, a), Share(n, list, b))
    BY <1>1, AheadSharesMore
  <2>2. Share(n, list, a) \in Fractions /\ Share(n, list, b) \in Fractions
    BY ShareType
  <2> HIDE DEF Share
  <2>3. AtLeast(Share(n, list, a), Share(n, list, b))
    <3> DEFINE p == Share(n, list, a)
               q == Share(n, list, b)
    <3>1. p \in Fractions /\ q \in Fractions /\ Above(p, q)
      BY <2>1, <2>2
    <3> HIDE DEF p, q
    <3>2. AtLeast(p, q)
      BY <3>1 DEF Above, AtLeast, Fractions
    <3> QED
      BY <3>2 DEF p, q
  <2> QED
    BY <2>1, <2>3
<1>2. CASE {a, b} \cap ToSet(list) = {}
  <2>1. a \notin ToSet(list) /\ b \notin ToSet(list)
    BY <1>2
  <2>2. Share(n, list, a) = <<0, 1>> /\ Share(n, list, b) = <<0, 1>>
    BY <2>1 DEF Share
  <2> QED
    BY <2>1, <2>2 DEF AtLeast
<1> QED
  BY <1>1, <1>2 DEF Prefers

\* Of two chunks of a fused order, the one that both lists prefer is first.
LEMMA FusedOrderPrefers ==
    ASSUME NEW v \in Seq(ChunkIds), NEW k \in Seq(ChunkIds),
           IsInjective(v), IsInjective(k), NEW order \in FusedOrders(v, k),
           NEW i \in DOMAIN order, NEW j \in DOMAIN order,
           Prefers(v, order[i], order[j]), Prefers(k, order[i], order[j])
    PROVE  i <= j
<1> DEFINE a == order[i]
           b == order[j]
           va == Share("vector", v, a)
           vb == Share("vector", v, b)
           ka == Share("keyword", k, a)
           kb == Share("keyword", k, b)
<1>1. order \in [1..Cardinality(ToSet(v) \cup ToSet(k)) -> ToSet(v) \cup ToSet(k)]
  BY DEF FusedOrders, SetToSeqs
<1>2. Cardinality(ToSet(v) \cup ToSet(k)) \in Nat
  <2>1. ToSet(v) \cup ToSet(k) \in SUBSET ChunkIds
    BY DEF ToSet
  <2> QED
    BY <2>1, FS_Subset, FS_CardinalityType
<1>3. i \in Nat /\ j \in Nat /\ a \in ToSet(v) \cup ToSet(k)
  <2> DEFINE all == ToSet(v) \cup ToSet(k)
  <2> HIDE DEF all
  <2>1. order \in [1..Cardinality(all) -> all] /\ Cardinality(all) \in Nat
    BY <1>1, <1>2 DEF all
  <2>2. i \in Nat /\ j \in Nat /\ order[i] \in all
    BY <2>1, SMTT(20)
  <2> QED
    BY <2>2 DEF all
<1>4. /\ va \in Fractions /\ vb \in Fractions /\ ka \in Fractions /\ kb \in Fractions
  BY ShareType DEF Halves
<1>5. /\ AtLeast(va, vb) /\ (a \in ToSet(v) => Above(va, vb))
      /\ AtLeast(ka, kb) /\ (a \in ToSet(k) => Above(ka, kb))
  BY PreferredSharesMore DEF Halves
<1>6. Score(v, k, a) = Plus(va, ka) /\ Score(v, k, b) = Plus(vb, kb)
  BY DEF Score
<1>7. j < i => AtLeast(Score(v, k, b), Score(v, k, a))
  BY DEF FusedOrders
<1> HIDE DEF a, b, va, vb, ka, kb
<1>8. ~ AtLeast(Plus(vb, kb), Plus(va, ka))
  BY <1>3, <1>4, <1>5, SumAbove
<1> QED
  BY <1>3, <1>6, <1>7, <1>8

\* A sequence of the elements of a set has each of them, once.
LEMMA OrderOfAll ==
    ASSUME NEW S \in SUBSET ChunkIds, NEW f \in SetToSeqs(S)
    PROVE  IsInjective(f) /\ ToSet(f) = S
<1>1. IsFiniteSet(S) /\ Cardinality(S) \in Nat
  BY FS_Subset, FS_CardinalityType
<1>2. f \in [1..Cardinality(S) -> S] /\ IsInjective(f)
  BY DEF SetToSeqs, IsInjective
<1>3. f \in Injection(1..Cardinality(S), S)
  BY <1>2 DEF Injection
<1>4. Cardinality(1..Cardinality(S)) = Cardinality(S)
  BY <1>1, FS_Interval
<1>5. f \in Surjection(1..Cardinality(S), S)
  BY <1>1, <1>3, <1>4, FS_Injection
<1> QED
  BY <1>2, <1>5 DEF Surjection, ToSet

LEMMA MatchesOnce ==
    ASSUME NEW n \in Halves, NEW ids \in Matches(n)
    PROVE  IsInjective(ids)
<1>1. PICK T \in SUBSET Searchable(n) : ids \in SetToSeqs(T)
  BY DEF Matches, SetToAllKPermutations
<1> QED
  BY <1>1 DEF SetToSeqs, IsInjective

\* The chunks read are in the order of the ids asked for.
LEMMA ChunksReadInOrder ==
    ASSUME NEW ids \in Seq(ChunkIds), NEW wanted,
           NEW found \in GetChunksByIDs(ids, wanted)
    PROVE  /\ IsInjective(Ids(found))
           /\ \A i, j \in DOMAIN found :
                 i < j => Ahead(ids, found[i].id, found[j].id)
<1> DEFINE S == ToSet(ids) \cap DOMAIN chunks \cap wanted
<1>1. S \in SUBSET ChunkIds
  BY DEF ToSet
<1>2. PICK there \in SetToSeqs(S) :
         /\ found = [i \in DOMAIN there |->
                       [id |-> there[i], file |-> FileNamed(there[i])]]
         /\ \A i, j \in DOMAIN there : i < j => Ahead(ids, there[i], there[j])
  BY DEF GetChunksByIDs
<1>3. IsInjective(there)
  BY <1>1, <1>2, OrderOfAll
<1> HIDE DEF S
<1>4. DOMAIN found = DOMAIN there /\ \A i \in DOMAIN found : found[i].id = there[i]
  BY <1>2
<1> QED
  BY <1>2, <1>3, <1>4 DEF IsInjective, Ids

LEMMA PrefixOnce ==
    ASSUME NEW list \in Seq(Documents), NEW n \in Nat, IsInjective(Ids(list))
    PROVE  IsInjective(Ids(UpTo(n, list)))
<1>1. /\ DOMAIN UpTo(n, list) \subseteq DOMAIN list
      /\ \A i \in DOMAIN UpTo(n, list) : UpTo(n, list)[i] = list[i]
  BY Prefix
<1> HIDE DEF UpTo
<1> QED
  BY <1>1 DEF IsInjective, Ids

RankedAnswer(answer) ==
    /\ \A i, j \in DOMAIN answer :
          (\A n \in Subs : Prefers(Lists[n], answer[i].id, answer[j].id)) => i <= j
    /\ IsInjective(Ids(answer))
    /\ query.api = "retrieve" =>
          ToSet(answer) \subseteq UNION {ToSet(sub[n].docs) : n \in Subs}
          /\ ToSet(Ids(answer)) = UNION {ToSet(Lists[n]) : n \in Subs}

\* Each sub-retriever whose result was sent has ended, and those of the
\* semantic search were never started.
SubsEnded ==
    /\ \A i \in DOMAIN channel : sub[channel[i].name].pc = "end"
    /\ \A n \in merged : sub[n].pc = "end"
    /\ pc \in {"expand", "return"} /\ query.api = "retrieve" => merged = Subs
    /\ query.api = "semantic" => \A n \in Halves : sub[n].pc = "idle"

EachOnce(n) == IsInjective(sub[n].ids) /\ IsInjective(Ids(sub[n].docs))

RankInv ==
    /\ \A n \in Halves : EachOnce(n)
    /\ SubsEnded
    /\ pc \in {"expand", "return"} => RankedAnswer(docs)

LEMMA OthersRanked ==
    ASSUME RankInv, UNCHANGED callVars, UNCHANGED setup
    PROVE  RankInv'
<1>1. Subs' = Subs /\ Lists' = Lists
  BY DEF Subs, Lists, callVars
<1>2. RankedAnswer(docs)' <=> RankedAnswer(docs)
  BY <1>1 DEF RankedAnswer, callVars
<1> QED
  BY <1>1, <1>2 DEF RankInv, EachOnce, SubsEnded, callVars

\* A step of one half of a search: the answer is still to be made.
LEMMA HalfRanked ==
    ASSUME IndInv, ScopeInv, RankInv, UNCHANGED <<setup, query>>,
           pc' = pc \/ pc' \in {"keyword", "hydrate"},
           merged' = merged, NEW n \in Halves, NEW at, GoTo(n, at),
           \/ channel' = channel
           \/ at.pc = "end" /\ \E ok \in BOOLEAN : channel' = Append(channel, [name |-> n, ok |-> ok]),
           IsInjective(at.ids), IsInjective(Ids(at.docs)),
           \/ query.api = "retrieve" /\ sub[n].pc \in {"search", "hydrate", "send", "fail"}
           \/ query.api = "semantic" /\ at.pc = "idle" /\ pc \in {"vector", "keyword"}
                                     /\ pc' \in {"keyword", "hydrate"}
    PROVE  RankInv'
<1>1. sub'[n] = at /\ \A m \in Halves : m # n => sub'[m] = sub[m]
  BY DEF GoTo, IndInv, TypeOK
<1>2. \A m \in Halves : EachOnce(m)'
  BY <1>1 DEF RankInv, EachOnce
<1>3. /\ channel \in Seq([name : Subs, ok : BOOLEAN])
      /\ merged \subseteq Halves /\ Subs \subseteq Halves
  BY TypeParts DEF IndInv, CallType, Subs, Halves
<1>4. pc \notin {"expand", "return"} /\ pc' \notin {"expand", "return"}
  <2>1. CASE query.api = "retrieve" /\ sub[n].pc \in {"search", "hydrate", "send", "fail"}
    <3>1. n \in Subs
      BY <2>1 DEF IndInv, AnswerInv, SubInv
    <3>2. pc \notin {"expand", "return"}
      BY <2>1, <3>1 DEF RankInv, SubsEnded
    <3> QED
      BY <3>2
  <2>2. CASE pc \in {"vector", "keyword"} /\ pc' \in {"keyword", "hydrate"}
    BY <2>2
  <2> QED
    BY <2>1, <2>2
<1>5. SubsEnded'
  <2>1. \A m \in Halves : sub[m].pc = "end" => sub'[m].pc = "end"
    <3>1. sub[n].pc # "end"
      BY DEF RankInv, SubsEnded
    <3> QED
      BY <1>1, <3>1
  <2>2. \A i \in DOMAIN channel' : sub'[channel'[i].name].pc = "end"
    <3> DEFINE results == [name : Subs, ok : BOOLEAN]
    <3>1. \A i \in DOMAIN channel : sub'[channel[i].name].pc = "end"
      <4>1. \A i \in DOMAIN channel : channel[i].name \in Halves
        <5>1. \A x \in results : x.name \in Halves
          BY <1>3
        <5> HIDE DEF results
        <5>2. channel \in Seq(results)
          BY <1>3 DEF results
        <5> QED
          BY <5>1, <5>2
      <4> QED
        BY <2>1, <4>1 DEF RankInv, SubsEnded
    <3>2. CASE channel' = channel
      BY <3>1, <3>2
    <3>3. ASSUME NEW ok \in BOOLEAN, channel' = Append(channel, [name |-> n, ok |-> ok]), at.pc = "end"
          PROVE  \A i \in DOMAIN channel' : sub'[channel'[i].name].pc = "end"
      <4> DEFINE x == [name |-> n, ok |-> ok]
      <4>1. x.name = n
        OBVIOUS
      <4>2. x \in results
        <5>1. n \in Subs
          BY <3>3 DEF IndInv, AnswerInv, SubInv
        <5> QED
          BY <5>1
      <4> HIDE DEF x, results
      <4>3. channel \in Seq(results) /\ channel' = Append(channel, x)
        BY <1>3, <3>3 DEF x, results
      <4>4. \A i \in DOMAIN channel' :
               \/ channel'[i] = x
               \/ i \in DOMAIN channel /\ channel'[i] = channel[i]
        BY <4>2, <4>3
      <4> QED
        BY <1>1, <3>1, <3>3, <4>1, <4>4
    <3> QED
      BY <3>2, <3>3
  <2>3. \A m \in merged' : sub'[m].pc = "end"
    BY <1>3, <2>1 DEF RankInv, SubsEnded
  <2>4. query'.api = "semantic" => \A m \in Halves : sub'[m].pc = "idle"
    <3>1. query.api = "semantic" => at.pc = "idle"
      OBVIOUS
    <3> QED
      BY <1>1, <3>1 DEF RankInv, SubsEnded
  <2> QED
    BY <1>4, <2>2, <2>3, <2>4 DEF SubsEnded
<1> QED
  BY <1>2, <1>4, <1>5 DEF RankInv

LEMMA SubSearchRanked ==
    ASSUME IndInv, ScopeInv, RankInv, NEW n \in Halves, SubSearch(n)
    PROVE  RankInv'
<1>1. /\ UNCHANGED <<setup, query, pc, channel, merged>>
      /\ query.api = "retrieve" /\ sub[n].pc = "search"
  BY DEF SubSearch
<1>2. IsInjective(<<>>) /\ IsInjective(Ids(<<>>))
  BY DEF IsInjective, Ids
<1>3. ASSUME NEW ids \in Matches(n), GoTo(n, [pc |-> "hydrate", ids |-> ids, docs |-> <<>>])
      PROVE  RankInv'
  BY <1>1, <1>2, <1>3, MatchesOnce, HalfRanked
<1>4. CASE GoTo(n, [IdleSub EXCEPT !.pc = "fail"])
  <2>1. [IdleSub EXCEPT !.pc = "fail"] = [pc |-> "fail", ids |-> <<>>, docs |-> <<>>]
    BY DEF IdleSub
  <2> QED
    BY <1>1, <1>2, <1>4, <2>1, HalfRanked
<1> QED
  BY <1>3, <1>4 DEF SubSearch

\* Only Retrieve's sub-retrievers are at work.
LEMMA AtWork ==
    ASSUME IndInv, RankInv, NEW n \in Halves, sub[n].pc # "idle"
    PROVE  query.api = "retrieve"
<1>1. query # NoQuery
  BY SearchBegun
<1>2. query.api \in {"retrieve", "semantic"}
  BY <1>1, TypeParts DEF IndInv, CallType
<1> QED
  BY <1>2 DEF RankInv, SubsEnded

LEMMA SubHydrateRanked ==
    ASSUME IndInv, ScopeInv, RankInv, NEW n \in Halves, SubHydrate(n)
    PROVE  RankInv'
<1>1. /\ UNCHANGED <<setup, query, pc, channel, merged>>
      /\ sub[n].pc = "hydrate" /\ query.api = "retrieve"
  BY AtWork DEF SubHydrate
<1>2. query.limit \in Nat /\ sub[n].ids \in Seq(ChunkIds) /\ IsInjective(sub[n].ids)
  BY <1>1, SearchBegun DEF SubStates, RankInv, EachOnce
<1>3. ASSUME NEW found \in GetChunksByIDs(sub[n].ids, ChunkIds),
             GoTo(n, [pc |-> "send", ids |-> sub[n].ids, docs |-> UpTo(query.limit, found)])
      PROVE  RankInv'
  <2>1. found \in Seq(Documents) /\ IsInjective(Ids(found))
    BY <1>2, ChunksRead, ChunksReadInOrder
  <2>2. IsInjective(Ids(UpTo(query.limit, found)))
    BY <1>2, <2>1, PrefixOnce
  <2> QED
    BY <1>1, <1>2, <1>3, <2>2, HalfRanked
<1>4. CASE GoTo(n, [IdleSub EXCEPT !.pc = "fail"])
  <2>1. [IdleSub EXCEPT !.pc = "fail"] = [pc |-> "fail", ids |-> <<>>, docs |-> <<>>]
    BY DEF IdleSub
  <2>2. IsInjective(<<>>) /\ IsInjective(Ids(<<>>))
    BY DEF IsInjective, Ids
  <2> QED
    BY <1>1, <1>4, <2>1, <2>2, HalfRanked
<1> QED
  BY <1>3, <1>4 DEF SubHydrate

LEMMA SubSendRanked ==
    ASSUME IndInv, ScopeInv, RankInv, NEW n \in Halves, SubSend(n)
    PROVE  RankInv'
<1> DEFINE at == [pc |-> "end", ids |-> sub[n].ids, docs |-> sub[n].docs]
           ok == sub[n].pc = "send"
<1>1. /\ UNCHANGED <<setup, query, pc, merged>> /\ GoTo(n, at)
      /\ channel' = Append(channel, [name |-> n, ok |-> ok])
      /\ sub[n].pc \in {"send", "fail"}
  BY DEF SubSend
<1>2. query.api = "retrieve"
  BY <1>1, AtWork
<1>3. /\ IsInjective(at.ids) /\ IsInjective(Ids(at.docs))
      /\ at.pc = "end" /\ ok \in BOOLEAN
  BY DEF RankInv, EachOnce
<1> HIDE DEF at, ok
<1> QED
  BY <1>1, <1>2, <1>3, HalfRanked

\* One half of the semantic search that found these ids.
LEMMA FoundRanked ==
    ASSUME IndInv, ScopeInv, RankInv, UNCHANGED <<setup, query, channel, merged>>,
           pc' \in {"keyword", "hydrate"}, pc \in {"vector", "keyword"},
           NEW n \in Halves, NEW ids \in Matches(n), Found(n, ids)
    PROVE  RankInv'
<1>1. GoTo(n, [pc |-> "idle", ids |-> ids, docs |-> <<>>])
  BY DEF Found, IdleSub
<1>2. IsInjective(ids) /\ IsInjective(Ids(<<>>)) /\ query.api = "semantic"
  BY MatchesOnce DEF IsInjective, Ids, ScopeInv, CallerInScope
<1> QED
  BY <1>1, <1>2, HalfRanked

\* A step of the caller, who leaves the sub-retrievers alone.
LEMMA CallerRanked ==
    ASSUME IndInv, RankInv, UNCHANGED <<setup, query, sub>>,
           channel' = channel \/ (channel # <<>> /\ channel' = Tail(channel)),
           \A n \in merged' : sub[n].pc = "end",
           pc' \in {"expand", "return"} =>
              /\ query.api = "retrieve" => merged' = Subs
              /\ RankedAnswer(docs')
    PROVE  RankInv'
<1>1. Subs' = Subs /\ Lists' = Lists
  BY DEF Subs, Lists
<1>2. RankedAnswer(docs') <=> RankedAnswer(docs)'
  BY <1>1 DEF RankedAnswer
<1>3. \A i \in DOMAIN channel' : sub[channel'[i].name].pc = "end"
  <2> DEFINE results == [name : Subs, ok : BOOLEAN]
  <2>1. channel \in Seq(results)
    BY TypeParts DEF IndInv, CallType
  <2> HIDE DEF results
  <2>2. \A i \in DOMAIN channel : sub[channel[i].name].pc = "end"
    BY DEF RankInv, SubsEnded
  <2>3. CASE channel # <<>> /\ channel' = Tail(channel)
    <3>1. \A i \in DOMAIN channel' : i + 1 \in DOMAIN channel /\ channel'[i] = channel[i + 1]
      BY <2>1, <2>3
    <3> QED
      BY <2>2, <3>1
  <2> QED
    BY <2>2, <2>3
<1> QED
  BY <1>1, <1>2, <1>3 DEF RankInv, EachOnce, SubsEnded

LEMMA ReceiveRanked ==
    ASSUME IndInv, ScopeInv, RankInv, Receive
    PROVE  RankInv'
<1>1. /\ UNCHANGED <<setup, query, sub, docs>>
      /\ pc = "receive" /\ pc' \in {"receive", "error"}
      /\ channel # <<>> /\ channel' = Tail(channel)
      /\ merged' = merged \/ merged' = merged \cup {Head(channel).name}
  BY DEF Receive
<1>2. 1 \in DOMAIN channel /\ Head(channel) = channel[1]
  <2> DEFINE results == [name : Subs, ok : BOOLEAN]
  <2>1. channel \in Seq(results)
    BY TypeParts DEF IndInv, CallType
  <2> HIDE DEF results
  <2> QED
    BY <1>1, <2>1
<1>3. \A n \in merged' : sub[n].pc = "end"
  BY <1>1, <1>2 DEF RankInv, SubsEnded
<1> QED
  BY <1>1, <1>3, CallerRanked

LEMMA ErrorRanked ==
    ASSUME IndInv, RankInv, pc' = "error",
           UNCHANGED <<setup, query, sub, channel, merged, docs>>
    PROVE  RankInv'
<1>1. \A n \in merged' : sub[n].pc = "end"
  BY DEF RankInv, SubsEnded
<1> QED
  BY <1>1, CallerRanked

LEMMA VectorSearchRanked ==
    ASSUME IndInv, ScopeInv, RankInv, VectorSearch
    PROVE  RankInv'
BY FoundRanked, ErrorRanked DEF VectorSearch, Halves

LEMMA KeywordSearchRanked ==
    ASSUME IndInv, ScopeInv, RankInv, KeywordSearch
    PROVE  RankInv'
BY FoundRanked, ErrorRanked DEF KeywordSearch, Halves

LEMMA ExpandParentsRanked ==
    ASSUME IndInv, ScopeInv, RankInv, ExpandParents
    PROVE  RankInv'
<1>1. /\ UNCHANGED <<setup, query, sub, channel, merged, docs>> /\ pc = "expand"
  BY DEF ExpandParents
<1>2. /\ \A n \in merged' : sub[n].pc = "end"
      /\ query.api = "retrieve" => merged' = Subs
      /\ RankedAnswer(docs')
  BY <1>1 DEF RankInv, SubsEnded
<1> QED
  BY <1>1, <1>2, CallerRanked

LEMMA QueryRanked ==
    ASSUME IndInv, ScopeInv, RankInv, NEW fileIds \in Wanted, NEW limit \in Limits,
           Retrieve(fileIds, limit) \/ SemanticSearch(fileIds, limit)
    PROVE  RankInv'
<1>1. /\ query = NoQuery /\ sub = [n \in Halves |-> IdleSub]
      /\ UNCHANGED <<setup, channel, merged>>
      /\ \/ pc' = "receive" /\ query'.api = "retrieve"
         \/ pc' = "vector" /\ query'.api = "semantic" /\ sub' = sub
  BY DEF Retrieve, SemanticSearch, Query, IndInv, AnswerInv
<1>2. \A n \in Halves : sub'[n].ids = <<>> /\ sub'[n].docs = <<>>
  <2>1. [IdleSub EXCEPT !.pc = "search"] = [pc |-> "search", ids |-> <<>>, docs |-> <<>>]
    BY DEF IdleSub
  <2> QED
    BY <1>1, <2>1 DEF Retrieve, SemanticSearch, IdleSub
<1>3. \A n \in Halves : EachOnce(n)'
  BY <1>2 DEF EachOnce, IsInjective, Ids
<1>4. channel = <<>> /\ merged = {}
  <2>1. \A n \in Halves : sub[n].pc = "idle"
    BY <1>1 DEF IdleSub
  <2>2. merged = {}
    <3>1. merged \subseteq Halves
      BY TypeParts DEF IndInv, CallType, Subs, Halves
    <3> QED
      BY <2>1, <3>1 DEF RankInv, SubsEnded
  <2>3. channel = <<>>
    <3> DEFINE results == [name : Subs, ok : BOOLEAN]
    <3>1. \A x \in results : sub[x.name].pc # "end"
      BY <2>1 DEF Subs, Halves
    <3>2. channel \in Seq(results)
      BY TypeParts DEF IndInv, CallType
    <3> HIDE DEF results
    <3>3. \A i \in DOMAIN channel : channel[i] \in results
      BY <3>2
    <3>4. DOMAIN channel = {}
      BY <3>1, <3>3 DEF RankInv, SubsEnded
    <3> QED
      BY <3>2, <3>4
  <2> QED
    BY <2>2, <2>3
<1>5. query'.api = "semantic" => \A n \in Halves : sub'[n].pc = "idle"
  BY <1>1 DEF IdleSub
<1> QED
  BY <1>1, <1>3, <1>4, <1>5 DEF RankInv, SubsEnded

\* The document put in the answer is one that a list has.
LEMMA DocOfList ==
    ASSUME NEW last \in Subs, NEW c,
           \E n \in Subs : c \in ToSet(Ids(sub[n].docs))
    PROVE  DocOf(c, last) \in UNION {ToSet(sub[n].docs) : n \in Subs}
<1> DEFINE fits(d) == /\ d.id = c
                      /\ c \in ToSet(Ids(sub[last].docs)) => d \in ToSet(sub[last].docs)
<1>1. ASSUME NEW n \in Subs, c \in ToSet(Ids(sub[n].docs))
      PROVE  \E d \in ToSet(sub[n].docs) : d.id = c
  BY <1>1 DEF Ids, ToSet
<1>2. \E d \in UNION {ToSet(sub[n].docs) : n \in Subs} : fits(d)
  <2>1. CASE c \in ToSet(Ids(sub[last].docs))
    BY <1>1, <2>1
  <2>2. CASE c \notin ToSet(Ids(sub[last].docs))
    BY <1>1, <2>2
  <2> QED
    BY <2>1, <2>2
<1> QED
  BY <1>2 DEF DocOf

LEMMA FuseRanked ==
    ASSUME IndInv, ScopeInv, RankInv, Fuse
    PROVE  RankInv'
<1>1. /\ UNCHANGED <<setup, query, sub, channel, merged>>
      /\ query.api = "retrieve" /\ merged = Subs /\ Subs \subseteq Halves
  BY DEF Fuse, ScopeInv, CallerInScope, Subs, Halves
<1>2. \A n \in Subs : /\ Lists[n] = Ids(sub[n].docs) /\ sub[n].docs \in Seq(Documents)
                      /\ IsInjective(Ids(sub[n].docs))
  BY <1>1, TypeParts DEF Lists, IndInv, CallType, SubStates, RankInv, EachOnce
<1>3. RankedAnswer(docs')
  <2>1. CASE Subs = {"vector"}
    <3> DEFINE answer == sub["vector"].docs
    <3>1. docs' = answer
      BY <2>1 DEF Fuse
    <3>2. /\ Lists["vector"] = Ids(answer) /\ answer \in Seq(Documents)
          /\ IsInjective(Ids(answer))
      BY <1>2, <2>1
    <3>3. ASSUME NEW i \in DOMAIN answer, NEW j \in DOMAIN answer,
                 Prefers(Ids(answer), answer[i].id, answer[j].id)
          PROVE  i <= j
      <4> HIDE DEF answer
      <4>1. /\ DOMAIN Ids(answer) = DOMAIN answer
            /\ \A p \in DOMAIN answer : Ids(answer)[p] = answer[p].id
        BY DEF Ids
      <4>2. answer[i].id \in ToSet(Ids(answer))
        BY <4>1 DEF ToSet
      <4>3. Ahead(Ids(answer), answer[i].id, answer[j].id)
        BY <3>3, <4>2 DEF Prefers
      <4>4. i < j
        BY <3>2, <4>1, <4>3 DEF Ahead, IsInjective
      <4>5. i \in Nat /\ j \in Nat
        BY <3>2
      <4> QED
        BY <4>4, <4>5
    <3>4. /\ UNION {ToSet(sub[n].docs) : n \in Subs} = ToSet(answer)
          /\ UNION {ToSet(Lists[n]) : n \in Subs} = ToSet(Ids(answer))
      BY <2>1, <3>2
    <3> HIDE DEF answer
    <3> QED
      BY <2>1, <3>1, <3>2, <3>3, <3>4 DEF RankedAnswer
  <2>2. CASE Subs # {"vector"}
    <3> DEFINE v == Ids(sub["vector"].docs)
               k == Ids(sub["keyword"].docs)
    <3>1. PICK last \in Subs, ids \in FusedOrders(v, k) :
             docs' = [i \in DOMAIN ids |-> DocOf(ids[i], last)]
      BY <2>2 DEF Fuse
    <3>2. Subs = {"vector", "keyword"} /\ Lists["vector"] = v /\ Lists["keyword"] = k
      BY <1>2, <2>2 DEF Subs
    <3>3. ASSUME NEW n \in Subs PROVE Ids(sub[n].docs) \in Seq(ChunkIds)
      <4>1. ASSUME NEW i \in DOMAIN sub[n].docs PROVE sub[n].docs[i].id \in ChunkIds
        <5>1. sub[n].docs[i] \in Documents
          BY <1>2
        <5> QED
          BY <5>1 DEF Documents
      <4>2. DOMAIN sub[n].docs = 1..Len(sub[n].docs) /\ Len(sub[n].docs) \in Nat
        BY <1>2
      <4> QED
        BY <4>1, <4>2 DEF Ids
    <3>4. /\ v \in Seq(ChunkIds) /\ IsInjective(v)
          /\ k \in Seq(ChunkIds) /\ IsInjective(k)
      BY <1>2, <3>2, <3>3
    <3>5. IsInjective(ids) /\ ToSet(ids) = ToSet(v) \cup ToSet(k)
      <4>1. ToSet(v) \cup ToSet(k) \in SUBSET ChunkIds
        BY <3>4 DEF ToSet
      <4>2. ids \in SetToSeqs(ToSet(v) \cup ToSet(k))
        BY <3>1 DEF FusedOrders
      <4> QED
        BY <4>1, <4>2, OrderOfAll
    <3>6. ASSUME NEW i \in DOMAIN ids
          PROVE  /\ DocOf(ids[i], last).id = ids[i]
                 /\ DocOf(ids[i], last) \in UNION {ToSet(sub[n].docs) : n \in Subs}
      <4>1. ids[i] \in ToSet(v) \cup ToSet(k)
        BY <3>5 DEF ToSet
      <4>2. \E n \in Subs : ids[i] \in ToSet(Ids(sub[n].docs))
        BY <3>2, <4>1
      <4> QED
        BY <4>2, DocOfChunk, DocOfList DEF IndInv
    <3>7. DOMAIN docs' = DOMAIN ids /\ \A i \in DOMAIN ids : docs'[i].id = ids[i]
      BY <3>1, <3>6
    <3>8. Ids(docs') = ids
      <4>1. ids \in [DOMAIN ids -> ToSet(ids)]
        BY <3>1 DEF FusedOrders, SetToSeqs, ToSet
      <4> QED
        BY <3>7, <4>1 DEF Ids
    <3> HIDE DEF v, k
    <3>9. ASSUME NEW i \in DOMAIN docs', NEW j \in DOMAIN docs',
                 \A n \in Subs : Prefers(Lists[n], docs'[i].id, docs'[j].id)
          PROVE  i <= j
      BY <3>1, <3>2, <3>4, <3>7, <3>9, FusedOrderPrefers
    <3>10. ToSet(docs') \subseteq UNION {ToSet(sub[n].docs) : n \in Subs}
      BY <3>1, <3>6 DEF ToSet
    <3>11. ToSet(Ids(docs')) = UNION {ToSet(Lists[n]) : n \in Subs}
      BY <3>2, <3>5, <3>8
    <3> QED
      BY <3>5, <3>8, <3>9, <3>10, <3>11 DEF RankedAnswer
  <2> QED
    BY <2>1, <2>2
<1>4. \A n \in merged' : sub[n].pc = "end"
  BY <1>1 DEF RankInv, SubsEnded
<1> QED
  BY <1>1, <1>3, <1>4, CallerRanked

LEMMA NotBothAhead ==
    ASSUME NEW list \in Seq(ChunkIds), NEW a, NEW b,
           Ahead(list, a, b), Ahead(list, b, a)
    PROVE  FALSE
BY DEF Ahead

\* Of two chunks of the fused ids, the one that every list prefers is first.
LEMMA FusedIdsPrefer ==
    ASSUME IndInv, RankInv, query.api = "semantic", query.limit \in Nat,
           NEW ids \in FusedIds, NEW a, NEW b \in ToSet(ids), Ahead(ids, b, a),
           a \in ToSet(ids), \A n \in Subs : Prefers(Lists[n], a, b)
    PROVE  FALSE
<1> DEFINE v == sub["vector"].ids
           k == sub["keyword"].ids
<1>1. /\ v \in Seq(ChunkIds) /\ IsInjective(v)
      /\ k \in Seq(ChunkIds) /\ IsInjective(k)
  BY TypeParts DEF IndInv, CallType, SubStates, Halves, RankInv, EachOnce
<1>2. CASE "keyword" \in Subs
  <2> DEFINE cut == 2 * query.limit
  <2>1. PICK order \in FusedOrders(v, k) : ids = UpTo(cut, order)
    BY <1>2 DEF FusedIds
  <2>2. Lists["vector"] = v /\ Lists["keyword"] = k /\ "vector" \in Subs
    BY <1>2 DEF Lists, Subs
  <2>3. cut \in Nat
    OBVIOUS
  <2>4. ToSet(v) \cup ToSet(k) \in SUBSET ChunkIds
    BY <1>1 DEF ToSet
  <2>5. order \in Seq(ChunkIds)
    BY <2>4, OrderOfChunks DEF FusedOrders
  <2> HIDE DEF cut, v, k
  <2>6. /\ DOMAIN ids \subseteq DOMAIN order
        /\ \A i \in DOMAIN ids : ids[i] = order[i]
    <3>1. \A S : \A list \in Seq(S), m \in Nat :
             /\ DOMAIN UpTo(m, list) \subseteq DOMAIN list
             /\ \A i \in DOMAIN UpTo(m, list) : UpTo(m, list)[i] = list[i]
      BY Prefix, Zenon
    <3>2. \A m \in Nat :
             /\ DOMAIN UpTo(m, order) \subseteq DOMAIN order
             /\ \A i \in DOMAIN UpTo(m, order) : UpTo(m, order)[i] = order[i]
      BY <2>5, <3>1, Zenon
    <3> QED
      BY <2>1, <2>3, <3>2, Zenon
  <2>7. PICK j \in DOMAIN ids :
           ids[j] = b /\ \A i \in DOMAIN ids : ids[i] = a => j < i
    BY DEF Ahead
  <2>8. PICK i \in DOMAIN ids : ids[i] = a
    BY DEF ToSet
  <2>9. /\ i \in DOMAIN order /\ j \in DOMAIN order /\ order[i] = a /\ order[j] = b
        /\ j < i
    BY <2>6, <2>7, <2>8
  <2>10. Prefers(v, order[i], order[j]) /\ Prefers(k, order[i], order[j])
    BY <1>2, <2>2, <2>9
  <2>11. i <= j
    BY <1>1, <2>1, <2>9, <2>10, FusedOrderPrefers
  <2>12. i \in Nat /\ j \in Nat
    BY <2>5, <2>9
  <2> QED
    BY <2>9, <2>11, <2>12
<1>3. CASE "keyword" \notin Subs
  <2>1. ids = v /\ Lists["vector"] = v /\ "vector" \in Subs
    BY <1>3 DEF FusedIds, Lists, Subs
  <2>2. Ahead(v, a, b)
    BY <2>1 DEF Prefers
  <2> QED
    BY <1>1, <2>1, <2>2, NotBothAhead
<1> QED
  BY <1>2, <1>3

LEMMA HydrateFusedRanked ==
    ASSUME IndInv, ScopeInv, RankInv, HydrateFused
    PROVE  RankInv'
<1>1. /\ UNCHANGED <<setup, query, sub, channel, merged>>
      /\ pc = "hydrate" /\ query.api = "semantic"
  BY DEF HydrateFused, ScopeInv, CallerInScope
<1>2. query.limit \in Nat
  BY <1>1, SearchBegun DEF Halves
<1>3. ASSUME NEW ids \in FusedIds, NEW found \in GetChunksByIDs(ids, Want),
             docs' = UpTo(query.limit, found)
      PROVE  RankedAnswer(docs')
  <2>1. ids \in Seq(ChunkIds)
    BY <1>2, FusedElsewhere
  <2>2. /\ found \in Seq(Documents)
        /\ \A i \in DOMAIN found : found[i].id \in ToSet(ids)
        /\ IsInjective(Ids(found))
        /\ \A i, j \in DOMAIN found : i < j => Ahead(ids, found[i].id, found[j].id)
    BY <2>1, ChunksRead, ChunksReadInOrder
  <2>3. /\ DOMAIN docs' \subseteq DOMAIN found
        /\ \A i \in DOMAIN docs' : docs'[i] = found[i]
    BY <1>2, <1>3, <2>2, Prefix
  <2>4. IsInjective(Ids(docs'))
    BY <1>2, <1>3, <2>2, PrefixOnce
  <2>5. ASSUME NEW i \in DOMAIN docs', NEW j \in DOMAIN docs',
               \A n \in Subs : Prefers(Lists[n], docs'[i].id, docs'[j].id)
        PROVE  i <= j
    <3>1. ~ (j < i)
      BY <1>1, <1>2, <2>2, <2>3, <2>5, FusedIdsPrefer
    <3>2. i \in Nat /\ j \in Nat
      BY <2>2, <2>3
    <3> QED
      BY <3>1, <3>2
  <2> QED
    BY <1>1, <2>4, <2>5 DEF RankedAnswer
<1>4. \A n \in merged' : sub[n].pc = "end"
  BY <1>1 DEF RankInv, SubsEnded
<1>5. CASE pc' = "error" /\ UNCHANGED docs
  BY <1>1, <1>5, ErrorRanked
<1> QED
  BY <1>1, <1>3, <1>4, <1>5, CallerRanked DEF HydrateFused

LEMMA InitRanked == Init => RankInv
<1> SUFFICES ASSUME Init PROVE RankInv
  OBVIOUS
<1>1. \A n \in Halves : EachOnce(n)
  BY DEF Init, IdleSub, EachOnce, IsInjective, Ids
<1> QED
  BY <1>1 DEF Init, RankInv, SubsEnded, NoQuery

LEMMA NextRanked == IndInv /\ ScopeInv /\ RankInv /\ [Next]_vars => RankInv'
<1> SUFFICES ASSUME IndInv, ScopeInv, RankInv, [Next]_vars PROVE RankInv'
  OBVIOUS
<1>1. ASSUME NEW c \in ChunkIds, SaveChunk(c) \/ IndexChunk(c) PROVE RankInv'
  BY <1>1, OthersRanked DEF SaveChunk, IndexChunk
<1>2. ASSUME NEW f \in Deletable, DeleteVectors(f) \/ DeleteDocuments(f) \/ DeleteRows(f)
      PROVE  RankInv'
  BY <1>2, OthersRanked DEF DeleteVectors, DeleteDocuments, DeleteRows
<1>3. ASSUME NEW r \in Refreshers, BeginRefresh(r) \/ EndRefresh(r) \/ AbandonRefresh(r)
      PROVE  RankInv'
  BY <1>3, OthersRanked DEF BeginRefresh, EndRefresh, AbandonRefresh
<1>4. ASSUME NEW fileIds \in Wanted, NEW limit \in Limits,
             Retrieve(fileIds, limit) \/ SemanticSearch(fileIds, limit)
      PROVE  RankInv'
  BY <1>4, QueryRanked
<1>5. CASE Work
  BY <1>5, SubSearchRanked, SubHydrateRanked, SubSendRanked, ReceiveRanked,
     FuseRanked, ExpandParentsRanked, VectorSearchRanked, KeywordSearchRanked,
     HydrateFusedRanked DEF Work
<1>6. CASE UNCHANGED vars
  BY <1>6, OthersRanked DEF vars
<1> QED
  BY <1>1, <1>2, <1>3, <1>4, <1>5, <1>6 DEF Next

(* A chunk that each search ranks before another, or the one search that   *)
(* has either of them, comes before it in the answer of Retrieve and of    *)
(* SemanticSearch; and Retrieve returns the documents of all its lists,    *)
(* each once: for any chunks, in whatever order the sub-retrievers end and *)
(* entries of equal score come out of the map.                             *)
THEOREM RanksRespected == Spec => []FusionRespectsRanks
<1>1. RankInv => FusionRespectsRanks
  <2> SUFFICES ASSUME RankInv, pc = "return" PROVE FusionRespectsRanks
    BY DEF FusionRespectsRanks
  <2>1. RankedAnswer(docs)
    BY DEF RankInv
  <2>2. \A i, j \in DOMAIN docs : docs[i].id = docs[j].id => i = j
    BY <2>1 DEF RankedAnswer, IsInjective, Ids
  <2> QED
    BY <2>1, <2>2 DEF RankedAnswer, FusionRespectsRanks, Prefers, Returned
<1>2. Init /\ [][Next]_vars /\ []IndInv /\ []ScopeInv => []RankInv
  BY InitRanked, NextRanked, PTL
<1>3. Init /\ [][Next]_vars /\ []IndInv => []ScopeInv
  BY InitInScope, NextInScope, PTL
<1> QED
  BY <1>1, <1>2, <1>3, Invariance, PTL DEF Spec
=============================================================================
