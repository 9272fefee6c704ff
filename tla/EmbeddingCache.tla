--------------------------- MODULE EmbeddingCache ---------------------------
(***************************************************************************)
(* EmbeddingCache (rag_cache.go): Embed, Stats, HitRate and Clear, called  *)
(* by any number of goroutines, at the granularity of its two locks.       *)
(*                                                                         *)
(* mu is a sync.RWMutex: Lock announces a writer, waits for the readers to *)
(* leave, and keeps new readers out from the moment it is announced.       *)
(* statsMu is a sync.Mutex.  What is done between taking a lock and        *)
(* releasing it is one step, unless another lock is taken in between.      *)
(*                                                                         *)
(* A text stands for its SHA256, and for its embedding too: the vector of  *)
(* an entry is named by the text it was computed from.  Warmup is Embed    *)
(* with its results dropped.                                               *)
(***************************************************************************)
EXTENDS Integers, Sequences, FiniteSets, Functions

CONSTANTS Callers,    \* goroutines
          Texts,
          Ops,        \* the methods they call
          MaxSize,    \* EmbeddingCacheConfig.MaxSize
          TTL,        \* EmbeddingCacheConfig.TTL; 0: entries never expire
          MaxTexts,   \* bound: caller |-> the texts of one Embed call
          MaxCalls,   \* bound: caller |-> the calls it makes
          MaxTime,    \* bound: ticks of the clock
          NoCaller

ASSUME CacheAssumption ==
    /\ MaxSize \in Nat /\ TTL \in Nat
    /\ MaxTime \in Nat
    /\ NoCaller \notin Callers

ASSUME CallsAssumption ==
    MaxCalls \in [Callers -> Nat] /\ MaxTexts \in [Callers -> Nat]

VARIABLES cache,      \* text |-> entry
          now,        \* the clock
          readers,    \* who holds mu for reading
          writer,     \* who has announced Lock on mu, or holds it
          statsOwner, \* who holds statsMu while it waits for mu
          stats,      \* EmbeddingCacheStats
          call,       \* caller |-> the call it is in, or was in last
          results     \* caller |-> position |-> the embedding found for it

locks == <<readers, writer, statsOwner>>

vars == <<cache, now, readers, writer, statsOwner, stats, call, results>>

Pcs == {"idle", "rlock", "lookup", "hit", "miss", "inner", "lock", "store",
        "returned", "failed", "stats", "statsRLock", "hitRate",
        "clearLock", "clear", "clearStats"}

\* The hits an entry has served (hitCount) are counted and never read.
Embeddings == [of : Texts, createdAt : Nat]

\* misses: toEmbedIdx.  began: when the call began.  made: calls so far.
Calls == [pc : Pcs, texts : Seq(Texts), i : Nat, misses : Seq(Nat),
          began : Nat, made : Nat]

Init ==
    /\ cache = <<>>
    /\ now = 0
    /\ readers = {}
    /\ writer = NoCaller
    /\ statsOwner = NoCaller
    /\ stats = [hits |-> 0, misses |-> 0, size |-> 0]
    /\ call = [c \in Callers |-> [pc |-> "idle", texts |-> <<>>, i |-> 1,
                                  misses |-> <<>>, began |-> 0, made |-> 0]]
    /\ results = [c \in Callers |-> <<>>]

Returned(c) == call[c].pc \in {"idle", "returned", "failed"}

GoTo(c, pc) == call' = [call EXCEPT ![c].pc = pc]

\* Embed of no texts returns before it does anything.
TextLists(c) == UNION {[1..n -> Texts] : n \in 1..MaxTexts[c]}

Call(c) ==
    LET Start(pc, texts) ==
            call' = [call EXCEPT ![c] = [pc |-> pc, texts |-> texts, i |-> 1,
                                         misses |-> <<>>, began |-> now,
                                         made |-> @.made + 1]]
    IN  /\ Returned(c)
        /\ call[c].made < MaxCalls[c]
        /\ \/ "Embed" \in Ops /\ \E texts \in TextLists(c) : Start("rlock", texts)
           \/ "Stats" \in Ops /\ Start("stats", <<>>)
           \/ "HitRate" \in Ops /\ Start("hitRate", <<>>)
           \/ "Clear" \in Ops /\ Start("clearLock", <<>>)
        /\ results' = [results EXCEPT ![c] = <<>>]
        /\ UNCHANGED <<cache, now, locks, stats>>

-----------------------------------------------------------------------------
(* Embed.                                                                  *)

RLock(c) ==
    /\ call[c].pc = "rlock"
    /\ writer = NoCaller
    /\ readers' = readers \cup {c}
    /\ GoTo(c, "lookup")
    /\ UNCHANGED <<cache, now, writer, statsOwner, stats, results>>

\* Mutant: an entry lives one tick too long.
IsFreshAtTTL(entry) == TTL = 0 \/ now - entry.createdAt <= TTL

IsFresh(entry) == TTL = 0 \/ now - entry.createdAt < TTL

Answer(found, k, embedding) ==
    [p \in DOMAIN found \cup {k} |-> IF p = k THEN embedding ELSE found[p]]

\* A map read under RLock; recordHit or recordMiss is the next step.
Lookup(c) ==
    LET s == call[c]
        text == s.texts[s.i]
        hit == text \in DOMAIN cache /\ IsFresh(cache[text])
    IN  /\ s.pc = "lookup"
        /\ \/ /\ hit
              /\ results' = [results EXCEPT ![c] = Answer(@, s.i, cache[text])]
              /\ GoTo(c, "hit")
           \/ /\ ~hit
              /\ call' = [call EXCEPT ![c].pc = "miss",
                                      ![c].misses = Append(@, s.i)]
              /\ UNCHANGED results
        /\ UNCHANGED <<cache, now, locks, stats>>

\* Mutant: Embed returns before RUnlock when there is nothing to embed.
AfterTextKeepsLock(c) ==
    LET s == call[c]
    IN  IF s.i < Len(s.texts)
        THEN /\ call' = [call EXCEPT ![c].pc = "lookup", ![c].i = @ + 1]
             /\ UNCHANGED readers
        ELSE IF s.misses = <<>>
        THEN GoTo(c, "returned") /\ UNCHANGED readers
        ELSE GoTo(c, "inner") /\ readers' = readers \ {c}

\* The loop goes on, or RUnlock ends it; with nothing to embed, so does Embed.
AfterText(c) ==
    LET s == call[c]
    IN  IF s.i < Len(s.texts)
        THEN /\ call' = [call EXCEPT ![c].pc = "lookup", ![c].i = @ + 1]
             /\ UNCHANGED readers
        ELSE /\ GoTo(c, IF s.misses = <<>> THEN "returned" ELSE "inner")
             /\ readers' = readers \ {c}

Record(c) ==
    /\ statsOwner = NoCaller
    /\ \/ call[c].pc = "hit" /\ stats' = [stats EXCEPT !.hits = @ + 1]
       \/ call[c].pc = "miss" /\ stats' = [stats EXCEPT !.misses = @ + 1]
    /\ AfterText(c)
    /\ UNCHANGED <<cache, now, writer, statsOwner, results>>

\* The wrapped Embedder: a vector for each text, in order, or an error.
Inner(c) ==
    /\ call[c].pc = "inner"
    /\ GoTo(c, "lock") \/ GoTo(c, "failed")
    /\ UNCHANGED <<cache, now, locks, stats, results>>

\* Lock of mu, up to the wait for its readers.
Lock(c) ==
    /\ call[c].pc \in {"lock", "clearLock"}
    /\ writer = NoCaller
    /\ writer' = c
    /\ GoTo(c, IF call[c].pc = "lock" THEN "store" ELSE "clear")
    /\ UNCHANGED <<cache, now, readers, statsOwner, stats, results>>

\* evictOldest: entries in the order of createdAt, ties in any order.
Evictable(entries, gone) ==
    \A t \in gone, u \in DOMAIN entries \ gone :
       entries[t].createdAt <= entries[u].createdAt

\* Mutant: one entry too few is evicted.
ExcessButOne(entries) ==
    IF Cardinality(DOMAIN entries) > MaxSize
    THEN Cardinality(DOMAIN entries) - MaxSize - 1
    ELSE 0

Excess(entries) ==
    IF Cardinality(DOMAIN entries) > MaxSize
    THEN Cardinality(DOMAIN entries) - MaxSize
    ELSE 0

Batch(c) == DOMAIN call[c].misses

\* What the wrapped Embedder returns for the j-th text of the batch.
Vector(c, j) == call[c].texts[call[c].misses[j]]

\* Mutant: without toEmbedIdx.
SlotInBatch(c, j) == j

\* The position that the j-th vector answers.
Slot(c, j) == call[c].misses[j]

Key(c, j) == call[c].texts[Slot(c, j)]

\* The entries after the batch is stored, and before any is evicted.
Filled(c) ==
    [t \in DOMAIN cache \cup {Key(c, j) : j \in Batch(c)} |->
        IF \E j \in Batch(c) : Key(c, j) = t
        THEN [of |-> Vector(c, CHOOSE j \in Batch(c) : Key(c, j) = t),
              createdAt |-> now]
        ELSE cache[t]]

Answered(c) ==
    [k \in DOMAIN results[c] \cup {Slot(c, j) : j \in Batch(c)} |->
        IF \E j \in Batch(c) : Slot(c, j) = k
        THEN [of |-> Vector(c, CHOOSE j \in Batch(c) : Slot(c, j) = k),
              createdAt |-> now]
        ELSE results[c][k]]

Store(c) ==
    /\ call[c].pc = "store"
    /\ readers = {}
    /\ \E gone \in SUBSET DOMAIN Filled(c) :
          /\ Cardinality(gone) = Excess(Filled(c))
          /\ Evictable(Filled(c), gone)
          /\ cache' = Restrict(Filled(c), DOMAIN Filled(c) \ gone)
    /\ results' = [results EXCEPT ![c] = Answered(c)]
    /\ writer' = NoCaller
    /\ GoTo(c, "returned")
    /\ UNCHANGED <<now, readers, statsOwner, stats>>

-----------------------------------------------------------------------------
(* Stats, HitRate and Clear.                                               *)

Stats(c) ==
    /\ call[c].pc = "stats"
    /\ statsOwner = NoCaller
    /\ statsOwner' = c
    /\ GoTo(c, "statsRLock")
    /\ UNCHANGED <<cache, now, readers, writer, stats, results>>

\* Mutant: Size is what is left of MaxSize, with its operands swapped.
StatsRoom(c) ==
    /\ call[c].pc = "statsRLock"
    /\ writer = NoCaller
    /\ stats' = [stats EXCEPT !.size = Cardinality(DOMAIN cache) - MaxSize]
    /\ statsOwner' = NoCaller
    /\ GoTo(c, "idle")
    /\ UNCHANGED <<cache, now, readers, writer, results>>

\* RLock while statsMu is held.
StatsSize(c) ==
    /\ call[c].pc = "statsRLock"
    /\ writer = NoCaller
    /\ stats' = [stats EXCEPT !.size = Cardinality(DOMAIN cache)]
    /\ statsOwner' = NoCaller
    /\ GoTo(c, "idle")
    /\ UNCHANGED <<cache, now, readers, writer, results>>

HitRate(c) ==
    /\ call[c].pc = "hitRate"
    /\ statsOwner = NoCaller
    /\ GoTo(c, "idle")
    /\ UNCHANGED <<cache, now, locks, stats, results>>

Clear(c) ==
    /\ call[c].pc = "clear"
    /\ readers = {}
    /\ cache' = <<>>
    /\ writer' = NoCaller
    /\ GoTo(c, "clearStats")
    /\ UNCHANGED <<now, readers, statsOwner, stats, results>>

ClearStats(c) ==
    /\ call[c].pc = "clearStats"
    /\ statsOwner = NoCaller
    /\ stats' = [hits |-> 0, misses |-> 0, size |-> 0]
    /\ GoTo(c, "idle")
    /\ UNCHANGED <<cache, now, locks, results>>

-----------------------------------------------------------------------------
Tick ==
    /\ now < MaxTime
    /\ now' = now + 1
    /\ UNCHANGED <<cache, locks, stats, call, results>>

\* The steps of a call that has begun.
Work(c) ==
    \/ RLock(c) \/ Lookup(c) \/ Record(c) \/ Inner(c) \/ Lock(c) \/ Store(c)
    \/ Stats(c) \/ StatsSize(c) \/ HitRate(c) \/ Clear(c) \/ ClearStats(c)

\* Every caller has made its calls.
Finished ==
    /\ \A c \in Callers : Returned(c) /\ call[c].made = MaxCalls[c]
    /\ UNCHANGED vars

Next == (\E c \in Callers : Call(c) \/ Work(c)) \/ Tick \/ Finished

Spec == Init /\ [][Next]_vars

\* A goroutine that can run is run.
FairSpec == Spec /\ \A c \in Callers : WF_vars(Work(c))

-----------------------------------------------------------------------------
(* Every variable holds values of its type. *)
TypeOK ==
    /\ DOMAIN cache \subseteq Texts
    /\ cache \in [DOMAIN cache -> Embeddings]
    /\ now \in Nat
    /\ readers \subseteq Callers
    /\ {writer, statsOwner} \subseteq Callers \cup {NoCaller}
    /\ stats \in [hits : Nat, misses : Nat, size : Nat]
    /\ call \in [Callers -> Calls]
    /\ DOMAIN results = Callers
    /\ \A c \in Callers :
          results[c] \in [DOMAIN results[c] -> Embeddings]

(* However many calls fill the cache at once, and though one batch may be  *)
(* larger than the cache, nobody sees it above MaxSize: a batch and the    *)
(* eviction it causes are in one critical section (rag_cache.go, Embed).   *)
CacheBounded == Cardinality(DOMAIN cache) <= MaxSize

(* "Embed returns one embedding per input text, in the same order"         *)
(* (ragcore.go, Embedder): of a list that is partly cached, with the same  *)
(* text in it twice, each position gets the embedding of its own text,     *)
(* whatever other calls store, evict and clear meanwhile.                  *)
ResultsMatch ==
    \A c \in Callers : call[c].pc = "returned" =>
       /\ DOMAIN results[c] = DOMAIN call[c].texts
       /\ \A k \in DOMAIN results[c] : results[c][k].of = call[c].texts[k]

(* A call that waits long for locks or for the wrapped embedder returns no *)
(* embedding that had outlived the TTL when the call began.                *)
ResultsAreFresh ==
    TTL > 0 => \A c \in Callers : call[c].pc = "returned" =>
       \A k \in DOMAIN results[c] :
          call[c].began - results[c][k].createdAt < TTL

(* Stats holds statsMu and is kept out of mu by a writer (rag_cache.go:151). *)
StatsIsShutOut ==
    \E s \in Callers : call[s].pc = "statsRLock" /\ writer # NoCaller

(* Every call returns, unless some Stats is shut out of mu for ever: the   *)
(* cycle of statsMu and mu that NobodyIsStuck meets is the only way in     *)
(* which these calls can wait for each other, and no path through Embed    *)
(* or Clear leaves a lock behind (rag_cache.go).                           *)
CallsReturn ==
    []<>~StatsIsShutOut => <>[](\A c \in Callers : Returned(c))

(* "It wraps an Embedder and is safe for concurrent use" (rag_cache.go:47): *)
(* while a call is under way, some call can take its next step.            *)
NobodyIsStuck ==
    (\E c \in Callers : ~Returned(c)) => ENABLED (\E c \in Callers : Work(c))
=============================================================================
