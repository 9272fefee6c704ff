# fileprocessor in TLA+

A specification of the Go package `fileprocessor`: how uploaded files are
ingested into a relational store and a vector store, deleted from them, cached,
chunked and searched. TLC checks the modules on small instances; TLAPS proves
the central invariants for every instance.

## The system

| Part | Source | State | Operations |
|---|---|---|---|
| Processor | `processor.go` | none of its own; goroutines in flight | `ProcessFile` (load, metadata, document, RAG or the asynchronous image branch), `DeleteFile` |
| RAGProcessor | `rag_processor.go` | none | `ProcessFile` (chunk, save, embed, upsert, stats), `DeleteFileVectors` |
| PostgresFileStore, PostgresChunkStore | `pg_file_store.go`, `types.go` | tables files, documents, chunks, file_chunks, document_chunks | `CreateFile`, `CreateDocument`, `AppendToDocument`, `UpdateFileChunkStats`, `CreateChunk` (both), `DeleteFile`, readers |
| PgVectorStore | `pgvector_store.go` | a vectors table of its own, no foreign keys | `Upsert`, `UpsertBatch`, `Search`, `BatchSearch`, `DeleteByID`, `DeleteByFileID`, `SetEfSearch` |
| PublicEmbeddingsStore | `public_embeddings_store.go` | `public.embeddings`; files are found through file_chunks | the same interface, and `KeywordSearch` |
| SQLiteKeywordIndex | `sqlite_keyword_index.go` | `chunks_fts`, an RWMutex | `RefreshFromPostgres`, `KeywordSearch` |
| Searcher | `rag_searcher.go` | none | `SemanticSearch`, `fuseRRF` |
| Retriever, its router | `eino_retriever.go`, `eino_retriever_router.go` | goroutines and a channel per call | `Retrieve`, `WeightedRRFFusion`, `ExpandParentContext` |
| EmbeddingCache | `rag_cache.go` | a map, counters, two locks | `Embed`, `Warmup`, `Stats`, `HitRate`, `Clear` |
| Chunkers | `rag_chunker.go`, `mdsplitter.go`, `chunker.go` | none | `ChunkDocument`, `CharChunker.Chunk`, `TokenChunker.Chunk` |
| Embedders | `openai_embedder.go`, `gemini_embedder.go`, `fallback_embedder.go`, `ragcore.go` | none | one HTTP exchange; fallback to a second embedder |
| FileLoader | `loader*.go` | none | `LoadFile`, `LoadBytes` |
| OCR, vision | `ocr.go`, `openai_vision.go` | none | a subprocess, an HTTP exchange |
| Disk copies | `storage.go` | files under a directory | `CopyToStorage`, `SafeDelete` |

**How they interact.** `Processor.ProcessFile` calls the loader, then the file
store, then `RAGProcessor`, which reads the document back, cuts it, and for
each chunk makes three calls that no transaction spans: a chunk row, an
embedding, a vector. For an image the last part runs in a goroutine that
outlives the call. `DeleteFile` reads the file, deletes vectors, then rows in
one transaction, then the copy on disk. Searches read the vector store and the
keyword index, which holds a copy of the chunks as of its last refresh, and
then read the chunk rows ("hydration"). Everything meets in the database.

**What is hard.** Ingestion, deletion, refresh and search interleave at every
call. Any call may fail half way through a document, and `ProcessFile` goes on
after most errors. A request may be retried under the same FileID. The vector
store has no foreign keys. READ COMMITTED lets a document slip between the
DELETEs of one transaction. Batches lock rows in the order they list them, and
ask the pool for a second connection. Processes open one database at once. The
cache has two locks. A search reads four snapshots at four times. PROJECT.json lists each of these at its line, with the
properties that look at it.

**What makes each part correct.** The store: no dangling reference, one parent
per chunk. Ingestion: everything that was parsed is indexed when nothing fails;
when something does, what is stored still names the right file, and a success
counts chunks that were saved, all those that can be found among them. Deletion:
nothing of the file comes back, and no other file loses its copy, unless two
requests name one path. The vector store: a batch is whole or absent, a deletion
removes what it must, every call returns. The cache: the right embedding in the
right place, never too many entries, none stale, and calls that return unless
`Stats` is shut out. Search: no text of a deleted file, no file that was not
asked for, an order both rankings agree with, no goroutine left behind.
Chunking: no letter lost, no words glued, nothing mislabelled.

## Modules

| Module | Models | Shape |
|---|---|---|
| `PgFileStore` | PostgresFileStore and adapter | an action per method, two and a rollback for `DeleteFile`; a host that calls any of them in any order |
| `VectorContract` | what the writes of a VectorStore promise | abstract: invocation, effect, answer |
| `PgVectorOpening` | the constructor of PgVectorStore | a look and a creation per object of the database |
| `PgVectorCalls` | the writes of PgVectorStore | row locks, connections and transactions; INSTANCEs of the two above, the first refined |
| `PgVectorStore` | PgVectorStore as the rest of the system sees it | one action per write, what `Search` looks among |
| `PublicEmbeddingsStore` | the alternative vector store | the same, with file_chunks as an argument |
| `KeywordIndex` | SQLiteKeywordIndex | read, rebuild, abandon |
| `FileContract` | what ProcessFile and DeleteFile promise | abstract: the files listed, the pieces found, the deletions asked for |
| `Ingestion` | Processor, RAGProcessor | INSTANCEs of both stores, refining `FileContract`; a pc per request and per deletion; one step per call |
| `EmbeddingCache` | EmbeddingCache | a pc per caller; one step between lock operations |
| `Retrieval` | Retriever, router, Searcher | INSTANCEs of the four stores, beside deletion and refresh; a pc per sub-retriever |
| `Loader` | FileLoader | operators: the type of a file, what is loaded, the chunker it goes to |
| `ChunkLoops` | the chunkers: markdown splitter, recursive splitters, TokenChunker, merging of PDF pages | one action per line, part and page; a stack of calls |
| `Chunking` | the files they are given | extends `ChunkLoops`; its documents are files that `Loader` has loaded |
| `MC...` | | constants for TLC |
| `...Proofs` | | theorems |

### PgFileStore

A table is a function from ids to rows, a junction table a set of pairs. The
schema belongs to another project; its constraints are those the code relies
on: foreign keys as guards, `documents.file_id` ON DELETE SET NULL, junction
rows that go with their parents, no ON CONFLICT on chunks. A transaction of
inserts is one step: it holds its locks to the end, so every interleaving of it
equals a serial one or a rollback. `DeleteFile` is not, since its DELETEs take
snapshots one after the other: `DeleteDocuments` stands for the first three up
to where they hold their locks, `DeleteFile` for the last and the commit. The
documents it has locked make others wait (`Locked`), those committed meanwhile
(`Late`) are detached, not deleted. A text is the sequence of the pieces a
chunker cuts it into; names, sizes and dates are left out.

### VectorContract, PgVectorOpening, PgVectorCalls

`VectorContract` says what a goroutine that writes to a vector store may count
on: its call takes effect at one moment between invocation and answer, a batch
as a whole, or it is answered with an error, which says nothing of the effect.
A deletion promises less. At READ COMMITTED a DELETE finds its rows in a
snapshot and looks at each again when it gets the lock; of a batch that commits
meanwhile it removes the rows its snapshot had under an older version and
leaves the new ones. What it must remove (`due`) are the rows that matched when
it was called and have matched ever since; it may remove others that match.

`PgVectorCalls` runs the same calls as the database does. `work[c]` is the
session of a call: the next item, the rows written and not committed (`own`),
the ids a DELETE has still to visit (`scan`) and those it has locked (`held`),
which are fewer to remove (`Doomed`) when the newest version of one no longer
matches: PostgreSQL keeps its lock to the end of the transaction all the same.
`UpsertBatch` takes a connection and copies; an id that is stored or has been
copied already makes COPY fail; the transaction is rolled back, and a second
one, on a connection asked for anew, upserts row by row. A cycle of waits is
broken by failing a statement; any call may fail at any step, and the answer to
a commit may be lost. An error of the second `Begin` leaves nil in `tx`, on
which the deferred `Rollback` panics (the answer "panic").

`PgVectorOpening` is `init`: schema, extension, table, index, each looked for
and then created, by several processes at once; the dimension of the column is
read back; the constructor may be called again after an error.

`PgVectorStore` is the coarse module that Ingestion and Retrieval use, where
each write is one step: they make one call per row, so that a step stands for
`VectorContract`'s `Write` or `Delete`. `PublicEmbeddingsStore.UpsertBatch`
(`public_embeddings_store.go:247`) is the same protocol without the file id, and
is not modelled a second time.

### Ingestion

`ing[r].pc` names the call that request `r` makes next, `del[x].pc` that of a
deletion. Steps follow `ProcessFile` in order: `LoadFile`, `GetFileInfo` and
`CreateFile` (`saveFileMetadata` looks at the file, then stores its path),
`SaveDocument`, then by kind: a text goes through the custom chunker's loop
(`CustomChunk`, `CustomStats`) if there is one, and the RAG loop
(`GetDocument`, `SaveChunk`, `Embed`, `UpsertVector`, `UpdateStats`); an image
is described, its document extended, and then indexed; a video stops.
Ids are named after the call that draws them, which makes them distinct as
uuids are. `Faults` says which operations may fail in a run; a failure takes
the path the code takes, a warning or a return. Vision, OCR and HTTP are an
outcome. `p.rag == nil` is a request with `EnableRAG` false. The path of a file
is the host's choice as its FileID is (`PathOf`, `FileOf`): a retry may name
both again, and requests of two files one path. `disk` has a path as long as its
copy is there; `DeleteFile` takes it away by the URL it read at first. The host
deletes at any time, or, with `AwaitIngestion`, after the requests of the file.

`FileContract` knows nothing of rows, calls and failures. It has the files that
`GetFile` finds, the pieces that a search of the vector store finds, each with
its text and the file it names, and the files of which a deletion has got to
work. `Findable` reads the pieces off the two stores as the search does: from a
vector to its chunk, and by the LEFT JOIN of `GetChunksByIDs` to its file, if it
has one. Promised: a piece is found under the file its text comes from, which is
listed; it is found so until that file is asked to be deleted; no other request
or deletion touches it. Not promised, because the code does not keep it: that
the text of a deleted file is not found at all. It may be found under no file
(the run `ingest_race` is one way to get there), but only of a file that a
deletion was asked for.

### EmbeddingCache

`readers`, `writer` and `statsOwner` are the RWMutex and the mutex. Announcing
`Lock` blocks new readers, as Go documents. A text stands for its SHA256 and
for its vector; the wrapped embedder returns one vector per text, or an error.
`MaxSize` and `TTL` are naturals, as the constructor makes them.

### Retrieval

One search, from either entry point, while chunks are saved and indexed, files
are deleted and the index is refreshed. Calls only read, so one is enough. It
is in `query` (entry point and options), `pc` (where its caller is), `sub` (the
list of each sub-retriever), `channel` and `merged`, `docs` (the answer) and
`context` (the parents put before its documents).
Scores are replaced by ranks: a search may return any of the rows it looks
among in any order, which covers approximate indexes and every threshold.
Shares of fused scores are kept exact, as fractions. `setup` is chosen once:
which vector store, and the index, the store itself, or nothing for keywords.
`gone` is an observer: the files whose deletion was complete when the search
began, and when the refreshes did whose rows the index holds. Deletion takes the
path where no step fails, and files
are not ingested while they are deleted: Ingestion shows what happens then.
The channel, its capacity, the first error that returns early and the goroutine
it leaves at work are modelled; so are the orders in which maps are iterated.
`ExpandParents` reads the parents of the answer's chunks, rows that another
program writes, and puts the text of each before its child.

### Loader and Chunking

`Loader` takes a file as its extension, its text and what the third-party
reader of its format finds, and gives what `LoadFile` or `LoadBytes` return: a
text is wrapped in a code fence, a PDF gets a title and a heading per page.
`ChunkerOf` is the dispatch of `ChunkDocument` on that. `Chunking` instantiates
it twice, with characters and with lines for text, and cuts every file the
bounds allow.

The chunkers are actions of `ChunkLoops`, whose documents are any whose lines,
pages or text hold a file's letters in order (`InOrder`); `LoopsSpec`, checked by
the run `chunking`, says that what the loader makes of a file is such a document.
What is proved of `LoopsSpec` therefore holds of Chunking. `md` and `pdf` are the
local variables of `mdSplitter.Split` and `chunkPDFByPages`; `md.first` is where
`currentLines` starts. `recursiveSplit` is a stack, `calls`: a call that meets a
part too long for a chunk (`SplitPart`) waits below the one it makes. A call has
the text it has still to cut, and where it is: called, in the loop over the
parts, at its end. `cur` is the `strings.Builder` of the running loop; when a
call is made it has been written out, so that one is enough. The code collects
parts that fit in a list and merges them afterwards; the model merges each when
it is met, which gives the same chunks, as nothing happens in between.
`BeginText` and `BeginBody` are the first calls, of a whole text and of a body of
markdown. CharChunker takes the same steps with another `WithPart`. TokenChunker's
loop over the lines (`TokenLine`) is that over the parts at newlines, with its
own rule for what fits.

A letter is a number, its place in the document, so that a chunk shows where it
came from. White space is itself, and so are the five characters of punctuation
that a separator begins with, which `strings.Split` cuts out with the blank
after them. All eight separators are tried in the code's order. `Places`,
`TrimSpace` and `Join` model Go's strings package. A page's CharCount is its
length, as all loaders set it.

## Runs

`retrieval`, `retrieval_filter` and `chunking` end by stopping, and turn the
deadlock check off; so does `cache`, whose callers may be stuck as
`cache_locks` shows. In the others a stuck state is an error (`Finished` is the
end).

| Run | Question | Bounds, and why they are enough |
|---|---|---|
| `store` | do five tables stay consistent under any sequence of calls, and two deletions at once | two ids of most kinds: a dangling reference needs two rows, a race two sessions |
| `vectors` | do the writes keep `VectorContract` at the granularity of row locks, do they all return, do stores agree on the dimension | two callers of one store, one call each, any two of the four; two ids and two files, batches of up to two: rows locked in opposite orders, an id twice in a batch, one already stored; a pool of two, which two falling-back batches fill; a second store of another dimension |
| `ingest_clean` | is everything indexed when nothing fails, and does a deletion afterwards remove it | four requests (two texts, one with a custom chunker, an image, a video), two deletions that may name one file; texts of up to two pieces, so that a loop has a first, a last and an only step |
| `ingest_faults` | what survives when anything fails and a file is deleted meanwhile; do both stores together keep `FileContract` | a text with a custom chunker and an image, one deletion; every operation may fail, upserts and the DELETEs of the rows included |
| `ingest_retry` | two calls under one FileID, and two deletions: do the stores agree, does a listed file keep its copy, does every call return | a text and an image, whose description is appended to the text's document; a path each (the type goes by the extension), so that a deletion may have read the URL of either; deletions that wait for each other's documents; failing upserts and row deletions; fairness |
| `ingest_race` | the doc comment of `DeleteFile` | one request, one deletion: violated |
| `ingest_shared_path` | the comment on `FileRecord.URL` | a request, its retry at the same path, one deletion: violated |
| `cache` | bounds, order, expiry, termination | three callers of every method, a call each: a reader, a waiting writer and a `Stats`, which is the deadlock of `cache_locks`; a cache of one entry and a batch of two, so that one batch overflows it; a TTL of one tick, so that an entry expires before the next call, or during it |
| `cache_locks` | "safe for concurrent use" | two callers of `Embed` and one of `Stats`: violated, by a deadlock of three |
| `retrieval` | what a search may return | two files of a chunk each, one of which has a parent, one file deleted, one refresher, limits of one and two with candidates cut to the same; all four setups, filtered or not, every failure |
| `retrieval_filter` | the comment on `WithFileIDs` | violated |
| `chunking` | no letter lost, no words glued, nothing mislabelled | every file, of every extension, with every text of up to seven letters, blanks and newlines, or of up to six letters, blanks, full stops and commas (the other three separators with punctuation are the same case between these two, the first and the last); five lines, four pages; a size of two, which cuts words, and one of five, which merges them; no overlap, one below the size, one above |

In `vectors`, `Overlap` is FALSE: nobody calls while a store is being opened.
The steps of opening change only `db` and `opening`, those of calls neither, so
that interleaving them multiplies states and tells nothing new; the proofs cover
`Overlap = TRUE`. In `retrieval`, two refreshers double the states, which
together with liveness takes longer than a run should; with safety only, they
were checked, and the theorems are about any number.

**Properties beyond types.** `ReferentialIntegrity`, `ChunkHasOneParent`;
`KeepsContract` (a refinement), `OneDimension` and `CallsReturn` of the vector
calls; `IngestionIsComplete`, `DeletedFileLeavesNothing`, `SuccessIsOfSavedChunks`,
`DeletedFileStaysGone`, `TextStaysWithItsFile`, `StoresAgree`,
`ListedFileIsOnDisk`, `KeepsContract` (a refinement) and `CallsReturn` of
ingestion; `CacheBounded`, `ResultsMatch`,
`ResultsAreFresh` and `CallsReturn` of the cache; `DeletedTextNotFound`,
`FusionRespectsRanks`, `ResultsStayInScope`, `SubRetrieversEnd`;
`ChunksTileDocument`, `SizeBounded`, `WordsStayApart`, `PunctuationStays`,
`HeadersInForce`, `PagesListedOnce`, `BodiesUnderHeaders` (what `HeadersInForce` rests on, for the
bodies rather than the chunks) and `LoopsSpec`, a specification that is a
property of one with fewer documents. Each has its statement above its definition, and a mutant of
the code that breaks it (operators whose comment begins with "Mutant").

**Fairness.** Ingestion: weak fairness per call once it has begun and until it
returns; nothing says that a host starts a request. A call on a store, on an
embedder or on the disk ends, with an answer or an error, since the context of
the caller bounds it. The description of an image has no such context
(`context.Background()`, `processor.go:261`) and runs tesseract without a timeout
(`ocr.go:22`): no fairness is assumed of it, `CallsReturn` says nothing of its
end, and holds for the others though it hangs. Vector calls: weak fairness of each session's own steps, which
includes that the database looks for cycles of waits (`deadlock_timeout`); none
of failures, lost answers or invocations. Cache: weak fairness per caller; Go's locks do not starve a waiter
that is enabled for ever. `CallsReturn` leaves out the behaviours in which a
`Stats` is shut out of `mu` for ever, and no others. Retrieval: weak fairness for each sub-retriever and
for the caller, its reading of parents included. No strong fairness, and no fairness of failures.

## Disagreements with the text of the repository

Shown by runs:

- `ingest_race`: `DeleteFile` deletes vectors first; a RAG pass at work upserts
  more, and nothing can delete them afterwards (`processor.go:154`).
- `ingest_shared_path`: `DeleteFile` reads the URL, deletes the rows, and then the
  copy. A retry under the same FileID and path that has looked at the file before
  stores its path after the commit: the file is listed, "the location of the file
  on disk" (`types.go:22`) is empty. `ListedFileIsOnDisk` is therefore about files
  whose path one request alone names.
- `cache_locks`: `Stats` takes `statsMu` then `mu`, `Embed` the other way
  round; with a writer waiting, three calls never return (`rag_cache.go:47`).
- `retrieval_filter`: with PgVectorStore, `WithFileIDs` does not restrict what
  the vector half returns (`eino_retriever.go:238`, `pgvector_store.go:433`).

Met while modelling, without a run of their own:

- `DeleteFile` never deletes rows of `chunks` (`pg_file_store.go:349`), though
  `types.go:156` says that it does, and `pg_file_store.go:348` that it "cascades to
  chunks via FK"; a junction's foreign key does not cascade that way.
- "chunks + vectors" are said to be persisted "atomically" (`README.md:14`). A
  failed embedding leaves a chunk row without a vector; a failed upsert does, too,
  and the chunk is counted with the others under "success"
  (`rag_processor.go:136`). `SuccessIsOfSavedChunks` is what the count can be
  relied on for.
- `CharChunker` is said to match `RAGChunker` (`README.md:10`, `chunker.go:18`).
  Its `mergeParts` writes a separator after each part but the first, so the
  first two words of a piece are glued together (`WithPart`); `WordsStayApart`
  has to leave it out.
- `chunkText` promises "pieces no larger than ChunkSize" (`rag_chunker.go:174`);
  with overlap, `mergeParts` goes above it. `SizeBounded` states by how much.
- `overlapTail` returns the shortest suffix within the budget, one character
  (`chunker.go:113`), and a line longer than the budget is not cut.
- A separator with punctuation is lost where two chunks meet: "Is it? No", with a
  size of five and no overlap, becomes "Is it" and "No" (`rag_chunker.go:190`).
  With overlap the next chunk has it twice, between the overlap and the part
  (`:267`, `:273`); CharChunker writes it after each part but the first, so after
  the last one, too, where the document may have none. `PunctuationStays` is about
  which characters are between two words of one chunk, CharChunker aside.
- Chunks of a custom `Chunker` are saved and reported, but the pass that embeds
  re-chunks the document with the built-in one (`processor.go:249`): the
  reported ids have no vector (`IngestionIsComplete` spells this out).
- A document committed between the DELETEs of `DeleteFile` is detached, not
  deleted (`Detached`).
- `rag_cache.go:46` says LRU; `evictOldest` goes by the age of the entry.
- `WithEmbedding` and `ScoreThreshold` have no effect on `Retrieve`
  (`eino_retriever.go:173`), and its fused list may be twice TopK long.
- `SetEfSearch` promises "subsequent queries on this store's connections"
  (`pgvector_store.go:281`); it sets one session of the pool. `ResetEfSearch`
  promises the value given at construction (`:294`); RESET restores the
  server's, and the constructor, too, sets one session only, though its comment
  speaks of AfterConnect (`:195`).
- `EnsureSchema` is "safe to call from multiple processes" (`:152`); of two that
  find no schema, one fails on a unique index of the catalog (`LoseRace`), and
  so do the other objects. Calling again succeeds.
- When the fallback of `UpsertBatch` cannot begin its transaction, the first
  deferred `Rollback` runs on a nil interface and panics
  (`pgvector_store.go:372`, `:393`; `public_embeddings_store.go:261`, `:282`).
- `DeleteByFileID` "removes all vectors belonging to a file"; of a batch that
  commits while it runs it may remove some and leave others.
- `LoadBytes` "mirrors LoadFile" (`loader_bytes.go:16`); it refuses empty
  content, and sets neither source, totals nor metadata.
- "doc" is a supported type (`loader.go:132`), for which `LoadFile` has no reader:
  every such file is an error.
- `rag_chunker.go:23` says markdown is split at headers. `ChunkDocument` looks at
  the extension: "md" is not one it knows, and goes to the recursive splitter;
  "markdown" and "txt" are, but arrive inside a code fence, where headers are
  text. "xls" is read as a spreadsheet and chunked recursively.
- Splitting by force counts bytes, and may cut a UTF-8 sequence.
- `Embedder` promises "one embedding per input text, in the same order"
  (`ragcore.go:100`); the HTTP clients pass on as many as the service sends, in
  its order. More than asked for make `EmbeddingCache.Embed` panic with `mu`
  locked.
- `FallbackEmbedder` reports the dimension of its primary, and stores vectors of
  two models side by side.
- `BatchSearch` keys its results by QueryID: two queries of one id each get the
  matches of both.
- Of two refreshes at once, the older snapshot may be written last, and the text
  of a deleted file is in the index again until the next one. `DeletedTextNotFound`
  is about the refreshes the index was built from.
- `Retrieve` with parent context, followed by the exported
  `ExpandParentContext`, puts a parent before its child twice.

## Proofs

| Theorem | Module | States |
|---|---|---|
| `TypeCorrect` | `PgFileStoreProofs` | `Spec => []TypeOK` |
| `ReferencesIntact` | | `Spec => []ReferentialIntegrity` |
| `OneParent` | | `Spec => []ChunkHasOneParent` |
| `TypeCorrect` | `PgVectorCallsProofs` | `Spec => []TypeOK` |
| `Implements` | | `Spec => KeepsContract`: the calls implement `VectorContract` |
| `StoresAgreeOnDimension` | | `Spec => []OneDimension` |
| `TypeCorrect` | `IngestionProofs` | `Spec => []TypeOK` |
| `StoresAlwaysAgree` | | `Spec => []StoresAgree` |
| `TextNeverStrays` | | `Spec => []TextStaysWithItsFile` |
| `ListedIsOnDisk` | `IngestionDeleteProofs` | `Spec => []ListedFileIsOnDisk` |
| `DeletedStaysGone` | | `Spec => []DeletedFileStaysGone`, of hosts that give each request a FileID of its own |
| `DeletedLeavesNothing` | | `Spec => []DeletedFileLeavesNothing`, of hosts that await ingestion, when the DELETE of the vectors does not fail |
| `ServesContract` | | `Spec => KeepsContract`: requests and deletions implement `FileContract` |
| `SuccessIsOfSaved` | `IngestionCompleteProofs` | `Spec => []SuccessIsOfSavedChunks`, of hosts that give each request a FileID of its own |
| `IngestionCompletes` | | `Spec => []IngestionIsComplete`, of such hosts, when they give each request a path of its own, too, and nothing fails |
| `TypeCorrect` | `EmbeddingCacheProofs` | `Spec => []TypeOK` |
| `SizeNeverExceeded` | | `Spec => []CacheBounded` |
| `EachTextItsEmbedding` | | `Spec => []ResultsMatch` |
| `AnswersAreFresh` | | `Spec => []ResultsAreFresh` |
| `TypeCorrect` | `RetrievalProofs` | `Spec => []TypeOK` |
| `DeletedIsNotFound` | | `Spec => []DeletedTextNotFound` |
| `AnswerInScope` | | `Spec => []ResultsStayInScope` |
| `RanksRespected` | | `Spec => []FusionRespectsRanks` |
| `PagesAreListed` | `ChunkLoopsProofs` | `LoopsSpec => []PagesListedOnce` |
| `HeadersAreInForce` | | `LoopsSpec => []BodiesUnderHeaders` |
| `DocumentIsTiled` | | `LoopsSpec => []ChunksTileDocument` |
| `SizesAreBounded` | | `LoopsSpec => []SizeBounded` |
| `WordsAreApart` | | `LoopsSpec => []WordsStayApart` |
| `ChunksNameHeaders` | | `LoopsSpec => []HeadersInForce` |

They hold for any sets of ids, requests, deletions, callers, texts, stores and
refreshers, any faults and any sizes, under the named assumptions of the
modules, which only type the constants (`MaxSegmentsAssumption`,
`RequestsAssumption`, `CacheAssumption`, `CallsAssumption`, `StoresAssumption`, `DimsAssumption`,
`BoundsAssumption`, `RetrievalAssumption`), and, for the vector calls and
Retrieval, say that the ids of chunks are a finite set: a DELETE scans them one
by one, a result is a list. ChunkLoops has no constants: its theorems are about
documents of any length, any chunk size above 0 and any overlap (`LoopsInit`,
which `LoopsSpec` as a property of the run shows to hold of loaded files). The theorems that speak of a kind of host, or of what
does not fail, have this as a hypothesis (`OwnFileIds`, `OwnPaths`,
`DeletesAfterIngestion`, `NothingFails`); the runs of these properties are of such hosts.
The hypotheses are needed. Two requests under one FileID overwrite each other's
count. Of two that name one path, the deletion of one file takes the copy of the
other before it is read. None of them excludes a deletion that races with the
request.

*Store.* `TypeOK` is inductive, one lemma per action. Integrity and
`ChunkHasOneParent` are proved together, from `TypeOK`: that a chunk has one
parent rests on the junction rows naming chunk rows that exist, which
`CanCreateChunk` then excludes.

*Vector calls.* `CallInv` says what a session has done so far: an open batch
holds the rows of the items before its index, the last of each id
(`WrittenSoFar`), and a DELETE has locked rows that match, and has every row it
is due to among those locked or those still to be visited. No other session
disturbs this: the rows of its snapshot that another takes away, or overwrites
with what does not match, are no longer due. `AllWritten` then shows that what a commit publishes is the batch, and `DeleteRowsStep` that
what a DELETE removes contains its due; every other step is a stutter of the
contract, or a refusal. `OpeningInv` is about the order of the objects: a store
that is past the table has read its dimension, which never changes.

*Ingestion.* `IndInv` is `StoreInv`, the types of `ing` and `del`, and
`WorkerInv(r)` of every request. The property alone is not inductive: that a
vector has a chunk row needs to know that a request about to upsert has saved
its row (`WorkerInv`), and that nobody removes rows of `chunks`; that chunk,
document and vector name one file needs `Links`, by which the file of each is
determined by the request that made it. Lemmas show first that each store
operation keeps `StoreInv` under the conditions its callers meet, then that
each step keeps the invariant of its own request and, since ids are distinct,
that of the others.

*Deletion.* `StepEffects` sums up what any step of a request does to files,
documents and vectors; three invariants follow from it beside `IndInv`.
`DiskInv`: a URL that the store lists, or that a deletion has read, is the path of
a request for that file that is past `CreateFile` (`Stored`); a path that one
request alone names (`OwnUrl`) is on disk until that request has stored it, and
while it is listed, no deletion that is past its rows knows it. `GoneInv`: a file that a deletion has found has no request left to create
it. `LeftInv`: the requests of a file being deleted have ended, so its documents
are those that `DeleteDocuments` locked, and its vectors, once deleted, stay so.

*The contract of both.* `ServesContract` has no hypothesis about host or
failures. Each store operation is a step of `FileContract` or, as for most
(`Hidden`, `CreateChunkHides`), none. Three of them need more than the operation
itself. `Upsert` is `Index`, since `StoreInv` has the chunk's link, text and
vector name one file, and `Filed` says that a chunk has its link unless a deletion of
its file was asked for. `DeleteByFileID` goes by the file id of the vectors and
the contract by the source of the texts: `Links` and `ChunkTexts` make them the
same. And what a deletion removes it has asked for: `HasUrl`. `AskedInv` is
`HasUrl` and `Filed`, and is proved along with the refinement.

*Counting and completeness.* Both rest on what nobody else can do to a request.
`Kept(q)` lists it: the row of its file, its document, its chunks and vectors
change only by its own steps, or by a deletion of its file (`RequestKeepsOthers`,
`DeletionKeepsOthers`). `CountInv` then says that the ids a request has collected
are distinct, that every vector of its file is one of them, whether or not its
upsert failed (`VectorsInv`), and that each has a chunk saved under the file
while the file is listed (`SavedInv`); as they are distinct, the length it
reports is the cardinality of their set (`DistinctCounted`), which lies between
those of the vectors and of the chunks. `CompleteInv` says, until a
deletion of the file begins, which rows a request at each pc has written, that
the pieces it works on are those of its document, and that those before its
index have a row and a vector. Documents other deletions hold locked are their
own (`LocksInv`), so that they make nobody lose a step.

*Cache.* `IndInv` is `TypeOK`, `CacheInv` (entries are of their own text, and
at most MaxSize) and `CallsInv` (the positions found so far hold embeddings of
their texts, and the rest are listed as misses). `EvictionBounds` shows that
filling and evicting in one critical section ends within MaxSize;
`AnsweredMatches` that the batch answers exactly the misses. Freshness is a
second invariant over it (`Fresh`): what was found was young enough when it was
found, which is after the call began, and what was not is younger than the call.

*Retrieval.* `TablesInv`: a chunk with a vector is of a file no deletion has
begun on, one with a link of a file whose deletion is not complete. `IndexInv`:
the rows a refresh has read, and those of the index, were linked when it began.
`AnswerInv` carries both to the lists of the sub-retrievers, the channel and the
answer. `ScopeInv` does the same for limits and file ids. `RankInv` is about
order: a chunk ahead of another in a list has the larger share of it
(`AheadSharesMore`), the sum of two fractions grows with each (`SumAbove`), so
that no order of descending scores puts the other first (`FusedOrderPrefers`);
hydration by `GetChunksByIDs`, a limit and the parents put before a text keep
the order.

*Chunk loops.* `PagesInv`: the lists of the chunks made so far, then that of the
one being made, count the pages up to the last one read, and a page is in the
text of its list; a chunk that is closed has a page, since a text that is not
empty has one. `LinesInv`: there is a set of the lines that open the code blocks
met so far, each line being in it or not by those before it; at most one of
these blocks is not closed, the one of `md.fence`; the headers in force are two
lines, the last h2 and the last h3 below it (`InForce`), and the same for every
line since `md.first`; the bodies end just before that line. That a new header
leaves what it should of the list (`OuterIs`) needs this shape: of an arbitrary
list of headers it would be false.

*Chunks.* `AllInv` adds to these what the splitters know of their text.
`SplitInv` is about letters. What a call holds, what `cur` holds and each chunk
is a run of the file's letters (`IsRun`: in order, none left out); the texts of
the waiting calls, the last call first, and then the bodies not yet begun hold
the rest, one run after the other (`Waits`), and chunks and `cur` cover the
letters up to where the running call begins (`Covered`). That overlap neither
skips nor reorders is that a suffix of a run is one that ends where it did, and
that what is put before a part is such a suffix (`MergeOverlap`,
`OverlapTail`). `TrimSpace` and the separators take no letter, only white space and
punctuation, and a step
of `ForceSplit` begins no later than its piece ended (`Stride`); without
overlap, exactly there, so that runs are disjoint. `IsOf` and `ApartIn`: two
letters side by side in a text are so in the document, since every text is cut
from the document or from two such texts with a separator between them;
CharChunker is excused. `AllFit`: `cur` is within the bound of `SizeBounded`, as
a part that fits is at most the size, and what it is added to is either within
it together with the separator, or an overlap and a separator. `ChunkFrom`: a
chunk of markdown carries the headers of the body whose lines its letters are
from, so that `HeadersInForce` follows from `BodiesUnderHeaders`. What a step
does to the texts is in lemmas of its own about sequences (`Running`,
`AreSplit`), which mention no primes; one lemma per action then applies them. As
the calls are on a stack, the induction over their depth is one over steps.

Model-checked only: liveness (`CallsReturn`, `SubRetrieversEnd`) and
`NobodyIsStuck`, which is about ENABLED, are beyond TLAPS. That the documents of
Chunking satisfy `LoopsInit` (`LoopsSpec` as a property) is checked for the
files within the bounds: what the loader and the operators of Chunking make of a
file is built by folds over its lines and pages, and a fact about a fold for
every length is an induction over data.

## Not modelled

The readers of file formats, OCR, vision and HTTP clients: pure I/O, present as
an outcome. `FallbackEmbedder`, whose choice nothing else depends on.
`BatchSearch` and `GetIndexStats`, which read, and the ef_search setting of a
session, which only moves what an approximate index finds: a search here may
return any rows. The tenant scope of `PublicEmbeddingsStore`, which belongs to
the schema of the host. `CopyToStorage`, which the package never calls: the
host that does so may be given one key for two copies of one name within a
millisecond, which is one way to name a path twice. `hitCount`,
incremented under a read lock by racing readers and read nowhere.

## Plan

Done, in this order: PgFileStore, PgVectorStore, Ingestion, EmbeddingCache,
their proofs; KeywordIndex, PublicEmbeddingsStore, Retrieval; Chunking;
VectorContract, PgVectorOpening, PgVectorCalls and the proof that the last
implements the first; parent context; Loader; the proofs about Retrieval, about
deletion and about the age of cached embeddings; the proofs that ingestion
completes and counts right, and about the order of a fused answer; ChunkLoops
and the proofs about headers and pages; the recursive splitters as steps, and the
proofs that they lose, repeat, glue and mislabel nothing; FileContract and the
proof that Ingestion implements it.

Next, by importance:

1. A second contract, of hosts that await their requests and whose deletions do
   not fail: `Remove` takes away all that is found of the file, and nothing is
   indexed once its deletion is asked for. `DeletedLeavesNothing` says this of the
   states after a deletion, not of its steps.
2. What a retry under the same FileID is still owed: `SuccessIsOfSavedChunks`
   without `OwnFileIds` is false, and the weakest condition is not known.
3. `storage.go` with the naming of copies, which decides when two requests name
   one path.
