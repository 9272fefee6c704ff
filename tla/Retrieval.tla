----------------------------- MODULE Retrieval -----------------------------
(***************************************************************************)
(* One search beside ingestion, deletion and refreshes of the keyword      *)
(* index: Retriever.Retrieve with its concurrent sub-retrievers and their  *)
(* router (eino_retriever.go, eino_retriever_router.go), and               *)
(* Searcher.SemanticSearch (rag_searcher.go), over the stores they read.   *)
(*                                                                         *)
(* Scores are left out, ranks kept: an index is approximate, and filtering *)
(* by a threshold drops matches, so a search returns any of the rows it    *)
(* looks among in any order.  A document is the chunk it was made from and *)
(* the file its metadata names.                                            *)
(***************************************************************************)
EXTENDS Naturals, SequencesExt

CONSTANTS FileIds, ChunkIds, Refreshers,
          FileOf,          \* the file each chunk is cut from
          ParentIds,       \* chunks that others wrote, parents of some
          ParentOf,        \* chunks.parent_id, which the package only reads
          Deletable,       \* the files the host deletes in this run
          Wanted,          \* the sets of file ids a query is restricted to
          Limits,          \* TopK, or SearchParamsSearcher.Limit, of a query
          Oversample,      \* candidateOversample: 5
          MinCandidates    \* minCandidateLimit: 50

ASSUME RetrievalAssumption ==
    /\ FileOf \in [ChunkIds -> FileIds]
    /\ IsFiniteSet(ChunkIds)
    /\ ParentOf \in [ChunkIds -> ParentIds \cup {"none"}]
    /\ Deletable \subseteq FileIds
    /\ Wanted \subseteq SUBSET FileIds
    /\ Limits \subseteq Nat \ {0}
    /\ Oversample \in Nat /\ MinCandidates \in Nat

VARIABLES files, documents, chunks, fileChunks, docChunks, deleting,  \* PgFileStore
          vectors,         \* PgVectorStore
          embeddings,      \* PublicEmbeddingsStore
          fts, refresh,    \* KeywordIndex
          deletion,        \* file |-> where its DeleteFile is
          setup,           \* the parts the host put together
          query,           \* the search: its entry point and options
          pc, sub,         \* where its caller is, and each sub-retriever
          channel, merged, \* the results sent, and the names received
          docs, context,   \* the answer: documents, parents put before them
          gone             \* observer, see SearchBegins

storeVars == <<files, documents, chunks, fileChunks, docChunks, deleting>>
dbVars == <<storeVars, vectors, embeddings, fts, refresh, deletion>>
dataVars == <<dbVars, gone>>
callVars == <<query, pc, sub, channel, merged, docs, context>>
vars == <<dataVars, setup, callVars>>

\* The documents of files play no part here.
FS == INSTANCE PgFileStore
        WITH DocumentIds <- {}, Segments <- ChunkIds, Urls <- FileIds,
             Sessions <- FileIds, MaxSegments <- 0
VS == INSTANCE PgVectorStore
PE == INSTANCE PublicEmbeddingsStore
KI == INSTANCE KeywordIndex

\* NewRetriever and NewSearcher take the VectorStore as KeywordSearcher too
\* when it is one; PgVectorStore is not.
Setups == {[store |-> "pgvector", keyword |-> "sqlite"],
           [store |-> "pgvector", keyword |-> "none"],
           [store |-> "public", keyword |-> "sqlite"],
           [store |-> "public", keyword |-> "store"]}

Subs == IF setup.keyword = "none" THEN {"vector"} ELSE {"vector", "keyword"}

NoFile == "none"

NoParent == "none"

Documents == [id : ChunkIds, file : FileIds \cup {NoFile}]

Halves == {"vector", "keyword"}

\* A sub-retriever, or one half of SemanticSearch.
IdleSub == [pc |-> "idle", ids |-> <<>>, docs |-> <<>>]

SubStates == [pc : {"idle", "search", "hydrate", "send", "fail", "end"},
              ids : Seq(ChunkIds), docs : Seq(Documents)]

NoQuery == [api |-> "none", fileIds |-> {}, limit |-> 0]

Init ==
    /\ files = [f \in FileIds |-> [url |-> f, stats |-> FS!NoStats]]
    /\ documents = <<>> /\ chunks = <<>> /\ fileChunks = {} /\ docChunks = {}
    /\ deleting = [f \in FileIds |-> FS!NoTransaction]
    /\ VS!Init /\ PE!Init /\ KI!Init
    /\ deletion = [f \in FileIds |-> "no"]
    /\ setup \in Setups
    /\ query = NoQuery /\ pc = "idle"
    /\ sub = [n \in Halves |-> IdleSub]
    /\ channel = <<>> /\ merged = {}
    /\ docs = <<>> /\ context = <<>>
    /\ gone = [at |-> [r \in Refreshers |-> {}], index |-> {}, search |-> {}]

-----------------------------------------------------------------------------
(* What Processor does meanwhile, when no step of it fails: Ingestion has  *)
(* the steps in full, and what deleting a file under ingestion leads to.   *)

SaveChunk(c) ==
    /\ deletion[FileOf[c]] = "no"
    /\ FS!CreateChunk(c, c, {FileOf[c]}, {})
    /\ UNCHANGED <<vectors, embeddings, fts, refresh, deletion, gone, setup, callVars>>

IndexChunk(c) ==
    /\ deletion[FileOf[c]] = "no"
    /\ c \in DOMAIN chunks
    /\ IF setup.store = "pgvector"
       THEN VS!Upsert(c, FileOf[c]) /\ UNCHANGED embeddings
       ELSE PE!Upsert(c) /\ UNCHANGED vectors
    /\ UNCHANGED <<storeVars, fts, refresh, deletion, gone, setup, callVars>>

DeleteVectors(f) ==
    /\ deletion[f] = "no"
    /\ IF setup.store = "pgvector"
       THEN VS!DeleteByFileID(f) /\ UNCHANGED embeddings
       ELSE PE!DeleteByFileID(fileChunks, f) /\ UNCHANGED vectors
    /\ deletion' = [deletion EXCEPT ![f] = "vectors"]
    /\ UNCHANGED <<storeVars, fts, refresh, gone, setup, callVars>>

DeleteDocuments(f) ==
    /\ deletion[f] = "vectors"
    /\ FS!DeleteDocuments(f, f)
    /\ deletion' = [deletion EXCEPT ![f] = "documents"]
    /\ UNCHANGED <<vectors, embeddings, fts, refresh, gone, setup, callVars>>

DeleteRows(f) ==
    /\ deletion[f] = "documents"
    /\ FS!DeleteFile(f, f)
    /\ deletion' = [deletion EXCEPT ![f] = "done"]
    /\ UNCHANGED <<vectors, embeddings, fts, refresh, gone, setup, callVars>>

Deleted == {f \in FileIds : deletion[f] = "done"}

BeginRefresh(r) ==
    /\ setup.keyword = "sqlite"
    /\ KI!Query(r, fileChunks)
    /\ gone' = [gone EXCEPT !.at = [@ EXCEPT ![r] = Deleted]]
    /\ UNCHANGED <<storeVars, vectors, embeddings, deletion, setup, callVars>>

EndRefresh(r) ==
    /\ KI!Rebuild(r)
    /\ gone' = [at |-> gone.at, index |-> gone.at[r],
                search |-> gone.search \cap gone.at[r]]
    /\ UNCHANGED <<storeVars, vectors, embeddings, deletion, setup, callVars>>

AbandonRefresh(r) ==
    /\ KI!Abandon(r)
    /\ UNCHANGED <<storeVars, vectors, embeddings, deletion, gone, setup, callVars>>

\* Observer: of the files deleted when the search begins, those the keyword
\* index has forgotten, deleted before the refresh began that last completed.
\* A refresh that began before a deletion may bring its file back.
SearchBegins ==
    gone' = [gone EXCEPT !.search = IF setup.keyword = "sqlite"
                                    THEN Deleted \cap gone.index ELSE Deleted]

-----------------------------------------------------------------------------
(* The stores, read.                                                       *)

CandidateLimit == Max({query.limit * Oversample, MinCandidates})

Searchable(n) ==
    CASE n = "vector" /\ setup.store = "pgvector" -> VS!Searchable
      [] n = "vector" /\ setup.store = "public" ->
            PE!Searchable(fileChunks, query.fileIds)
      [] n = "keyword" /\ setup.keyword = "sqlite" -> KI!Searchable(query.fileIds)
      [] OTHER -> PE!KeywordSearchable(fileChunks, query.fileIds)

Matches(n) == {ids \in SetToAllKPermutations(Searchable(n)) :
                  Len(ids) <= CandidateLimit}

UpTo(n, list) == Restrict(list, {i \in DOMAIN list : i <= n})

\* a is before b in the list, or b is not in it.
Ahead(list, a, b) ==
    \E i \in DOMAIN list :
       list[i] = a /\ \A j \in DOMAIN list : list[j] = b => i < j

FileNamed(c) ==
    IF \E f \in FileIds : <<f, c>> \in fileChunks
    THEN CHOOSE f \in FileIds : <<f, c>> \in fileChunks
    ELSE NoFile

\* The one sequence that GetChunksByIDs returns, of the chunks that are there
\* in the order asked for, without those that the caller does not want.
GetChunksByIDs(ids, wanted) ==
    {[i \in DOMAIN there |-> [id |-> there[i], file |-> FileNamed(there[i])]] :
        there \in {s \in SetToSeqs(ToSet(ids) \cap DOMAIN chunks \cap wanted) :
                     \A i, j \in DOMAIN s : i < j => Ahead(ids, s[i], s[j])}}

-----------------------------------------------------------------------------
(* Reciprocal rank fusion, of lists of ids.                                *)

K == 60

Weight == [vector |-> 7, keyword |-> 3]

\* A share is a fraction, <<numerator, denominator>>.
Share(n, list, c) ==
    IF c \in ToSet(list)
    THEN <<Weight[n], K + CHOOSE i \in DOMAIN list : list[i] = c>>
    ELSE <<0, 1>>

Plus(p, q) == <<p[1] * q[2] + q[1] * p[2], p[2] * q[2]>>

AtLeast(p, q) == p[1] * q[2] >= q[1] * p[2]

\* Mutant: assigned where it should be added.
ScoreOverwritten(vector, keyword, c) ==
    IF c \in ToSet(keyword) THEN Share("keyword", keyword, c)
                            ELSE Share("vector", vector, c)

Score(vector, keyword, c) ==
    Plus(Share("vector", vector, c), Share("keyword", keyword, c))

\* The entries come out of a map, so those of equal score in any order.
FusedOrders(vector, keyword) ==
    {ids \in SetToSeqs(ToSet(vector) \cup ToSet(keyword)) :
        \A i, j \in DOMAIN ids :
           i < j => AtLeast(Score(vector, keyword, ids[i]),
                            Score(vector, keyword, ids[j]))}

-----------------------------------------------------------------------------
(* Retriever.Retrieve.                                                     *)

Query(api, fileIds, limit) ==
    /\ query = NoQuery
    /\ query' = [api |-> api, fileIds |-> fileIds, limit |-> limit]
    /\ SearchBegins
    /\ UNCHANGED <<dbVars, setup, channel, merged, docs, context>>

\* The goroutines are started at once, before any result is received.
Retrieve(fileIds, limit) ==
    /\ Query("retrieve", fileIds, limit)
    /\ pc' = "receive"
    /\ sub' = [n \in Halves |-> IF n \in Subs THEN [IdleSub EXCEPT !.pc = "search"]
                                              ELSE IdleSub]

GoTo(n, at) == sub' = [sub EXCEPT ![n] = at]

SubSearch(n) ==
    /\ query.api = "retrieve" /\ sub[n].pc = "search"
    /\ \/ \E ids \in Matches(n) :
             GoTo(n, [pc |-> "hydrate", ids |-> ids, docs |-> <<>>])
       \/ GoTo(n, [IdleSub EXCEPT !.pc = "fail"])
    /\ UNCHANGED <<dataVars, setup, query, pc, channel, merged, docs, context>>

\* No matches, and the chunks are not asked for: no error either.
SubHydrate(n) ==
    /\ sub[n].pc = "hydrate"
    /\ \/ \E found \in GetChunksByIDs(sub[n].ids, ChunkIds) :
             GoTo(n, [pc |-> "send", ids |-> sub[n].ids, docs |-> UpTo(query.limit, found)])
       \/ sub[n].ids # <<>> /\ GoTo(n, [IdleSub EXCEPT !.pc = "fail"])
    /\ UNCHANGED <<dataVars, setup, query, pc, channel, merged, docs, context>>

\* Mutant: make(chan result).
MaySendUnbuffered == pc = "receive" /\ channel = <<>>

\* The channel holds a result of every sub-retriever.
MaySend == Len(channel) < Cardinality(Subs)

SubSend(n) ==
    /\ sub[n].pc \in {"send", "fail"}
    /\ MaySend
    /\ channel' = Append(channel, [name |-> n, ok |-> sub[n].pc = "send"])
    /\ GoTo(n, [pc |-> "end", ids |-> sub[n].ids, docs |-> sub[n].docs])
    /\ UNCHANGED <<dataVars, setup, query, pc, merged, docs, context>>

\* The first error received is returned at once.
Receive ==
    /\ pc = "receive" /\ channel # <<>>
    /\ merged # Subs
    /\ channel' = Tail(channel)
    /\ IF Head(channel).ok
       THEN merged' = merged \cup {Head(channel).name} /\ UNCHANGED pc
       ELSE pc' = "error" /\ UNCHANGED merged
    /\ UNCHANGED <<dataVars, setup, query, sub, docs, context>>

Ids(list) == [i \in DOMAIN list |-> list[i].id]

\* A document of both lists is the one of the list iterated last.
DocOf(c, last) ==
    CHOOSE d \in UNION {ToSet(sub[n].docs) : n \in Subs} :
       /\ d.id = c
       /\ c \in ToSet(Ids(sub[last].docs)) => d \in ToSet(sub[last].docs)

\* Fusion, of one list or two, with no cut to the limit.
Fuse ==
    /\ pc = "receive" /\ merged = Subs
    /\ IF Subs = {"vector"}
       THEN docs' = sub["vector"].docs
       ELSE \E last \in Subs,
               ids \in FusedOrders(Ids(sub["vector"].docs), Ids(sub["keyword"].docs)) :
               docs' = [i \in DOMAIN ids |-> DocOf(ids[i], last)]
    /\ pc' = "expand"
    /\ UNCHANGED <<dataVars, setup, query, sub, channel, merged, context>>

\* Mutant: the parents read and the documents taken to be in one order.
ContextInOrder(list, parents) ==
    LET order == SetToSeq(parents)
    IN [i \in DOMAIN list |-> IF i \in DOMAIN order THEN order[i] ELSE NoParent]

\* The parent whose text is put before that of each document.
Context(list, parents) ==
    [i \in DOMAIN list |-> IF ParentOf[list[i].id] \in parents
                           THEN ParentOf[list[i].id] ELSE NoParent]

\* ExpandParentContext, if asked for: of the parents named, those that are
\* there and have text; none when they cannot be read, which is no error.
ExpandParents ==
    /\ pc = "expand"
    /\ \E parents \in SUBSET ({ParentOf[d.id] : d \in ToSet(docs)} \ {NoParent}) :
          context' = Context(docs, parents)
    /\ pc' = "return"
    /\ UNCHANGED <<dataVars, setup, query, sub, channel, merged, docs>>

-----------------------------------------------------------------------------
(* Searcher.SemanticSearch: the same steps one after the other.            *)

SemanticSearch(fileIds, limit) ==
    /\ Query("semantic", fileIds, limit)
    /\ pc' = "vector"
    /\ UNCHANGED sub

Found(n, ids) == GoTo(n, [IdleSub EXCEPT !.ids = ids])

VectorSearch ==
    /\ pc = "vector"
    /\ \/ /\ \E ids \in Matches("vector") : Found("vector", ids)
          /\ pc' = IF "keyword" \in Subs THEN "keyword" ELSE "hydrate"
       \/ pc' = "error" /\ UNCHANGED sub
    /\ UNCHANGED <<dataVars, setup, query, channel, merged, docs, context>>

KeywordSearch ==
    /\ pc = "keyword"
    /\ \/ /\ \E ids \in Matches("keyword") : Found("keyword", ids)
          /\ pc' = "hydrate"
       \/ pc' = "error" /\ UNCHANGED sub
    /\ UNCHANGED <<dataVars, setup, query, channel, merged, docs, context>>

\* fuseRRF cuts to twice the limit before the chunks are read.
FusedIds ==
    IF "keyword" \in Subs
    THEN {UpTo(2 * query.limit, order) : order \in
             FusedOrders(sub["vector"].ids, sub["keyword"].ids)}
    ELSE {sub["vector"].ids}

\* Mutant: the check that the chunk is wanted left to the store.
WantAny == ChunkIds

\* want: the files asked for, when any are.
Want == {c \in ChunkIds : query.fileIds = {} \/ FileNamed(c) \in query.fileIds}

HydrateFused ==
    /\ pc = "hydrate"
    /\ \/ /\ \E ids \in FusedIds : \E found \in GetChunksByIDs(ids, Want) :
                docs' = UpTo(query.limit, found)
          /\ pc' = "return"
       \/ /\ sub["vector"].ids # <<>> \/ sub["keyword"].ids # <<>>
          /\ pc' = "error" /\ UNCHANGED docs
    /\ UNCHANGED <<dataVars, setup, query, sub, channel, merged, context>>

-----------------------------------------------------------------------------
Work ==
    \/ \E n \in Halves : SubSearch(n) \/ SubHydrate(n) \/ SubSend(n)
    \/ Receive \/ Fuse \/ ExpandParents \/ VectorSearch \/ KeywordSearch \/ HydrateFused

Next ==
    \/ \E c \in ChunkIds : SaveChunk(c) \/ IndexChunk(c)
    \/ \E f \in Deletable : DeleteVectors(f) \/ DeleteDocuments(f) \/ DeleteRows(f)
    \/ \E r \in Refreshers : BeginRefresh(r) \/ EndRefresh(r) \/ AbandonRefresh(r)
    \/ \E fileIds \in Wanted, limit \in Limits :
          Retrieve(fileIds, limit) \/ SemanticSearch(fileIds, limit)
    \/ Work

\* A query ends, with an answer or an error, and the scheduler runs whoever
\* can run: each goroutine, and the caller.
Spec ==
    /\ Init /\ [][Next]_vars
    /\ \A n \in Halves :
          WF_vars(SubSearch(n) \/ SubHydrate(n) \/ SubSend(n))
    /\ WF_vars(Receive \/ Fuse \/ ExpandParents
                 \/ VectorSearch \/ KeywordSearch \/ HydrateFused)

-----------------------------------------------------------------------------
(* The stores, the call and its results are of their types. *)
TypeOK ==
    /\ FS!TypeOK /\ VS!TypeOK /\ PE!TypeOK /\ KI!TypeOK
    /\ deletion \in [FileIds -> {"no", "vectors", "documents", "done"}]
    /\ setup \in Setups
    /\ query \in {NoQuery} \cup [api : {"retrieve", "semantic"},
                                fileIds : Wanted, limit : Limits]
    /\ pc \in {"idle", "receive", "vector", "keyword", "hydrate", "expand",
              "return", "error"}
    /\ sub \in [Halves -> SubStates]
    /\ channel \in Seq([name : Subs, ok : BOOLEAN])
    /\ merged \subseteq Subs
    /\ docs \in Seq(Documents)
    /\ context \in Seq(ParentIds \cup {NoParent})
    /\ gone \in [at : [Refreshers -> SUBSET FileIds],
                 index : SUBSET FileIds, search : SUBSET FileIds]

Returned == ToSet(docs)

(* A search finds no text of a file that was deleted before it began, and  *)
(* before any refresh began whose rows the keyword index has held since,   *)
(* though DeleteFile leaves the rows of chunks: what leads to them is      *)
(* gone, the vectors, the rows of file_chunks and those of chunks_fts      *)
(* (Processor.DeleteFile, DeleteByFileID of both stores,                   *)
(* RefreshFromPostgres).                                                   *)
DeletedTextNotFound == \A d \in Returned : FileOf[d.id] \notin gone.search

Lists == IF query.api = "retrieve" THEN [n \in Subs |-> Ids(sub[n].docs)]
                                   ELSE [n \in Subs |-> sub[n].ids]

(* A document that each search ranks before another, or that the other     *)
(* search has neither of, is before the other in the answer; and Retrieve  *)
(* returns the documents of both lists, each once (WeightedRRFFusion,      *)
(* fuseRRF).                                                               *)
FusionRespectsRanks ==
    pc = "return" =>
       /\ \A i, j \in DOMAIN docs :
             (\A n \in Subs : \/ Ahead(Lists[n], docs[i].id, docs[j].id)
                              \/ {docs[i].id, docs[j].id} \cap ToSet(Lists[n]) = {})
                => i <= j
       /\ \A i, j \in DOMAIN docs : docs[i].id = docs[j].id => i = j
       /\ query.api = "retrieve" =>
             Returned \subseteq UNION {ToSet(sub[n].docs) : n \in Subs}
             /\ ToSet(Ids(docs)) = UNION {ToSet(Lists[n]) : n \in Subs}

(* Restricted to some files, SemanticSearch returns chunks of these only,  *)
(* and no more than the limit.  Retrieve does over PublicEmbeddingsStore:  *)
(* a chunk whose file is deleted between its search and its hydration is   *)
(* returned with no file, but never one of a file that was not asked for.  *)
(* Its list, never cut again, holds at most TopK of each sub-retriever,    *)
(* and parent context only puts the text of its own parent to a document.  *)
ResultsStayInScope ==
    /\ query.api = "semantic" =>
          /\ Len(docs) <= query.limit
          /\ query.fileIds # {} => \A d \in Returned : d.file \in query.fileIds
    /\ query.api = "retrieve" =>
          /\ Len(docs) <= query.limit * Cardinality(Subs)
          /\ \A i \in DOMAIN context : context[i] \in {NoParent, ParentOf[docs[i].id]}
          /\ setup.store = "public" /\ query.fileIds # {} =>
                \A d \in Returned : FileOf[d.id] \in query.fileIds

(* No goroutine of a call is left behind when Retrieve returns with the    *)
(* error of another: each sends its result and ends.                       *)
SubRetrieversEnd ==
    \A n \in Halves : sub[n].pc = "search" ~> sub[n].pc = "end"

(* "WithFileIDs restricts results to chunks belonging to the given files"  *)
(* (eino_retriever.go).                                                    *)
FileIDsRestrictResults ==
    query.api = "retrieve" /\ query.fileIds # {} =>
       \A d \in Returned : FileOf[d.id] \in query.fileIds
=============================================================================
