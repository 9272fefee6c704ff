------------------------ MODULE EmbeddingCacheProofs ------------------------
(***************************************************************************)
(* For any number of callers, any texts, any MaxSize and TTL: the types,   *)
(* the bound on the size of the cache, that Embed returns the embedding of *)
(* each text at its position, and that none it returns is stale.           *)
(*                                                                         *)
(* The invariant says what is true of the cache between critical sections  *)
(* (CacheInv) and what a call has settled so far (CallInv): every position *)
(* up to the current one is answered or in misses, and no other.           *)
(***************************************************************************)
EXTENDS EmbeddingCache, FiniteSetTheorems, FunctionTheorems, SequenceTheorems,
        TLAPS

USE CacheAssumption

CacheInv ==
    /\ IsFiniteSet(DOMAIN cache)
    /\ CacheBounded
    /\ \A t \in DOMAIN cache : cache[t].of = t

Missed(s) == {s.misses[j] : j \in DOMAIN s.misses}

\* What has been settled of the texts of a call.
Settled(s) ==
    CASE s.pc = "lookup" -> 1..(s.i - 1)
      [] s.pc \in {"hit", "miss"} -> 1..s.i
      [] OTHER -> 1..Len(s.texts)

AnswersMatch(s, found) ==
    \A k \in DOMAIN found : k \in DOMAIN s.texts /\ found[k].of = s.texts[k]

EmbedPcs == {"lookup", "hit", "miss", "inner", "lock", "store"}

CallInv(s, found) ==
    /\ AnswersMatch(s, found)
    /\ Missed(s) \subseteq DOMAIN s.texts
    /\ s.pc = "rlock" => /\ s.i = 1 /\ s.texts # <<>>
                         /\ s.misses = <<>> /\ found = <<>>
    /\ s.pc \in {"lookup", "hit", "miss"} => s.i \in DOMAIN s.texts
    /\ s.pc \in EmbedPcs => DOMAIN found \cup Missed(s) = Settled(s)
    /\ s.pc = "returned" => DOMAIN found = DOMAIN s.texts

CallsInv ==
    /\ call \in [Callers -> Calls]
    /\ results = [c \in Callers |-> results[c]]
    /\ \A c \in Callers : /\ results[c] \in [DOMAIN results[c] -> Embeddings]
                          /\ CallInv(call[c], results[c])

IndInv ==
    /\ TypeOK
    /\ CacheInv
    /\ CallsInv

-----------------------------------------------------------------------------
\* A step of caller c leaves the calls of the others as they were.
LEMMA OthersKeep ==
    ASSUME IndInv, NEW c \in Callers, NEW s \in Calls, NEW found,
           call' = [call EXCEPT ![c] = s],
           results' = [results EXCEPT ![c] = found],
           found \in [DOMAIN found -> Embeddings],
           CallInv(s, found)
    PROVE  CallsInv'
<1>1. /\ call' \in [Callers -> Calls] /\ call'[c] = s
      /\ results' = [d \in Callers |-> results'[d]] /\ results'[c] = found
  BY DEF IndInv, CallsInv
<1>2. ASSUME NEW d \in Callers, d # c
      PROVE  /\ call'[d] = call[d] /\ results'[d] = results[d]
             /\ CallInv(call[d], results[d])
             /\ results[d] \in [DOMAIN results[d] -> Embeddings]
  BY <1>2 DEF IndInv, CallsInv
<1>3. ASSUME NEW d \in Callers
      PROVE  /\ results'[d] \in [DOMAIN results'[d] -> Embeddings]
             /\ CallInv(call'[d], results'[d])
  BY <1>1, <1>2
<1> QED
  BY <1>1, <1>3 DEF CallsInv

\* The map after a batch is stored in it.
LEMMA FilledType ==
    ASSUME IndInv, NEW c \in Callers, call[c].pc = "store"
    PROVE  /\ IsFiniteSet(DOMAIN Filled(c))
           /\ DOMAIN Filled(c) \subseteq Texts
           /\ Filled(c) \in [DOMAIN Filled(c) -> Embeddings]
           /\ \A t \in DOMAIN Filled(c) : Filled(c)[t].of = t
<1> DEFINE keys == {Key(c, j) : j \in Batch(c)}
<1>1. /\ call[c].misses \in Seq(Nat) /\ call[c].texts \in Seq(Texts)
      /\ Missed(call[c]) \subseteq DOMAIN call[c].texts
  BY DEF IndInv, CallsInv, Calls, CallInv
<1>2. ASSUME NEW j \in Batch(c)
      PROVE  Key(c, j) \in Texts /\ Vector(c, j) = Key(c, j)
  BY <1>1 DEF Batch, Key, Vector, Slot, Missed
<1>3. IsFiniteSet(Batch(c))
  <2>1. Batch(c) = 1..Len(call[c].misses) /\ Len(call[c].misses) \in Nat
    BY <1>1 DEF Batch
  <2> QED
    BY <2>1, FS_Interval
<1>4. IsFiniteSet(keys)
  <2> DEFINE f == [j \in Batch(c) |-> Key(c, j)]
  <2>1. f \in Surjection(Batch(c), keys)
    BY DEF Surjection
  <2> HIDE DEF f, keys
  <2> QED
    BY <1>3, <2>1, FS_Surjection
<1>5. DOMAIN Filled(c) = DOMAIN cache \cup keys
  BY DEF Filled
<1>6. IsFiniteSet(DOMAIN cache)
  BY DEF IndInv, CacheInv
<1>7. IsFiniteSet(DOMAIN Filled(c))
  BY <1>4, <1>5, <1>6, FS_Union
<1>8. ASSUME NEW t \in DOMAIN Filled(c)
      PROVE  Filled(c)[t] \in Embeddings /\ Filled(c)[t].of = t
  <2>1. CASE \E j \in Batch(c) : Key(c, j) = t
    <3> DEFINE n == CHOOSE j \in Batch(c) : Key(c, j) = t
    <3>1. n \in Batch(c) /\ Key(c, n) = t
      BY <2>1
    <3>2. Filled(c)[t] = [of |-> Vector(c, n), createdAt |-> now]
      BY <2>1, <1>5 DEF Filled
    <3>3. Vector(c, n) = t /\ t \in Texts
      BY <1>2, <3>1
    <3> HIDE DEF n
    <3> QED
      BY <3>2, <3>3 DEF Embeddings, IndInv, TypeOK
  <2>2. CASE ~\E j \in Batch(c) : Key(c, j) = t
    <3>1. t \in DOMAIN cache /\ Filled(c)[t] = cache[t]
      BY <2>2, <1>5 DEF Filled
    <3> QED
      BY <3>1 DEF IndInv, TypeOK, CacheInv
  <2> QED
    BY <2>1, <2>2
<1>9. DOMAIN Filled(c) \subseteq Texts
  BY <1>2, <1>5 DEF IndInv, TypeOK
<1>10. Filled(c) \in [DOMAIN Filled(c) -> Embeddings]
  BY <1>8 DEF Filled
<1> QED
  BY <1>7, <1>8, <1>9, <1>10

\* Evicting the excess brings any map down to MaxSize.
LEMMA EvictionBounds ==
    ASSUME NEW entries, IsFiniteSet(DOMAIN entries),
           NEW gone \in SUBSET DOMAIN entries,
           Cardinality(gone) = Excess(entries)
    PROVE  /\ IsFiniteSet(DOMAIN entries \ gone)
           /\ Cardinality(DOMAIN entries \ gone) <= MaxSize
<1>1. gone \cap DOMAIN entries = gone /\ DOMAIN entries \cap gone = gone
  OBVIOUS
<1>2. /\ IsFiniteSet(DOMAIN entries \ gone)
      /\ Cardinality(DOMAIN entries \ gone) =
            Cardinality(DOMAIN entries) - Cardinality(gone)
  <2> DEFINE S == DOMAIN entries
  <2>1. IsFiniteSet(S) /\ S \cap gone = gone
    BY <1>1
  <2> HIDE DEF S
  <2>2. /\ IsFiniteSet(S \ gone)
        /\ Cardinality(S \ gone) = Cardinality(S) - Cardinality(S \cap gone)
    BY <2>1, FS_Difference, Zenon
  <2>3. Cardinality(S \cap gone) = Cardinality(gone)
    BY <2>1, Zenon
  <2>4. Cardinality(S \ gone) = Cardinality(S) - Cardinality(gone)
    BY <2>2, <2>3, Zenon
  <2> QED
    BY <2>2, <2>4, Zenon DEF S
<1>3. Cardinality(DOMAIN entries) \in Nat
  BY FS_CardinalityType
<1> QED
  BY <1>2, <1>3 DEF Excess

LEMMA AnsweredMatches ==
    ASSUME IndInv, NEW c \in Callers, call[c].pc = "store"
    PROVE  /\ Answered(c) \in [DOMAIN Answered(c) -> Embeddings]
           /\ AnswersMatch(call[c], Answered(c))
           /\ DOMAIN Answered(c) = DOMAIN call[c].texts
<1> DEFINE s == call[c]
<1>1. /\ s.misses \in Seq(Nat) /\ s.texts \in Seq(Texts)
      /\ Missed(s) \subseteq DOMAIN s.texts
      /\ AnswersMatch(s, results[c])
      /\ DOMAIN results[c] \cup Missed(s) = 1..Len(s.texts)
      /\ results[c] \in [DOMAIN results[c] -> Embeddings]
  BY DEF IndInv, CallsInv, Calls, CallInv, Settled, EmbedPcs
<1>2. {Slot(c, j) : j \in Batch(c)} = Missed(s)
  BY DEF Slot, Batch, Missed
<1>3. DOMAIN Answered(c) = DOMAIN s.texts
  BY <1>1, <1>2 DEF Answered
<1>4. ASSUME NEW k \in DOMAIN Answered(c)
      PROVE  /\ Answered(c)[k] \in Embeddings
             /\ Answered(c)[k].of = s.texts[k]
  <2>1. CASE \E j \in Batch(c) : Slot(c, j) = k
    <3> DEFINE n == CHOOSE j \in Batch(c) : Slot(c, j) = k
    <3>1. n \in Batch(c) /\ Slot(c, n) = k
      BY <2>1
    <3>2. Answered(c)[k] = [of |-> Vector(c, n), createdAt |-> now]
      BY <2>1 DEF Answered
    <3>3. Vector(c, n) = s.texts[k] /\ s.texts[k] \in Texts
      BY <1>1, <1>3, <3>1 DEF Vector, Slot
    <3> HIDE DEF n, s
    <3> QED
      BY <3>2, <3>3 DEF Embeddings, IndInv, TypeOK
  <2>2. CASE ~\E j \in Batch(c) : Slot(c, j) = k
    <3>1. k \in DOMAIN results[c] /\ Answered(c)[k] = results[c][k]
      BY <2>2 DEF Answered
    <3> QED
      BY <1>1, <3>1 DEF AnswersMatch
  <2> QED
    BY <2>1, <2>2
<1>5. Answered(c) \in [DOMAIN Answered(c) -> Embeddings]
  BY <1>4 DEF Answered
<1> QED
  BY <1>3, <1>4, <1>5 DEF AnswersMatch

-----------------------------------------------------------------------------
(* Embed.                                                                  *)

\* What a step that touches neither the cache nor the types of the shared
\* variables has to show.
Untouched ==
    /\ UNCHANGED cache
    /\ now' \in Nat
    /\ readers' \subseteq Callers
    /\ {writer', statsOwner'} \subseteq Callers \cup {NoCaller}
    /\ stats' \in [hits : Nat, misses : Nat, size : Nat]

LEMMA UntouchedKeeps ==
    ASSUME IndInv, Untouched, NEW c \in Callers, NEW s \in Calls, NEW found,
           call' = [call EXCEPT ![c] = s],
           results' = [results EXCEPT ![c] = found],
           found \in [DOMAIN found -> Embeddings],
           CallInv(s, found)
    PROVE  IndInv'
<1>1. CacheInv'
  BY DEF IndInv, CacheInv, CacheBounded, Untouched
<1>2. CallsInv'
  BY OthersKeep
<1>3. TypeOK'
  BY <1>2 DEF CallsInv, IndInv, TypeOK, Untouched
<1> QED
  BY <1>1, <1>2, <1>3 DEF IndInv

LEMMA CallKeeps ==
    ASSUME IndInv, NEW c \in Callers, Call(c) PROVE IndInv'
<1>1. PICK pc \in {"rlock", "stats", "hitRate", "clearLock"},
           texts \in TextLists(c) \cup {<<>>} :
         /\ pc = "rlock" => texts # <<>>
         /\ call' = [call EXCEPT ![c] = [pc |-> pc, texts |-> texts, i |-> 1,
                                         misses |-> <<>>, began |-> now,
                                         made |-> @.made + 1]]
  <2>1. \A texts \in TextLists(c) : texts # <<>>
    BY DEF TextLists
  <2> QED
    BY <2>1 DEF Call
<1> DEFINE s == [pc |-> pc, texts |-> texts, i |-> 1, misses |-> <<>>,
                 began |-> now, made |-> call[c].made + 1]
<1>2. texts \in Seq(Texts)
  <2>1. CASE texts = <<>>
    BY <2>1
  <2>2. CASE texts \in TextLists(c)
    <3>1. PICK n \in 1..MaxTexts[c] : texts \in [1..n -> Texts]
      BY <2>2 DEF TextLists
    <3> QED
      BY <3>1
  <2> QED
    BY <2>1, <2>2
<1>3. call[c].made + 1 \in Nat /\ now \in Nat
  <2>1. call[c] \in Calls /\ now \in Nat
    BY DEF IndInv, TypeOK
  <2> QED
    BY <2>1 DEF Calls
<1>4. s \in Calls
  <2>1. <<>> \in Seq(Nat)
    OBVIOUS
  <2> QED
    BY <1>2, <1>3, <2>1 DEF Calls, Pcs
<1>5. CallInv(s, <<>>)
  BY <1>1 DEF CallInv, AnswersMatch, Missed, EmbedPcs
<1>6. Untouched
  BY DEF Call, Untouched, IndInv, TypeOK, locks
<1>7. call' = [call EXCEPT ![c] = s] /\ results' = [results EXCEPT ![c] = <<>>]
  BY <1>1 DEF Call, IndInv, CallsInv
<1>8. <<>> \in [DOMAIN <<>> -> Embeddings]
  OBVIOUS
<1> HIDE DEF s
<1> QED
  BY <1>4, <1>5, <1>6, <1>7, <1>8, UntouchedKeeps

\* What IndInv says of one call.
LEMMA CallFacts ==
    ASSUME IndInv, NEW c \in Callers
    PROVE  /\ call[c] \in Calls
           /\ call[c].texts \in Seq(Texts) /\ call[c].misses \in Seq(Nat)
           /\ call[c].i \in Nat
           /\ results[c] \in [DOMAIN results[c] -> Embeddings]
           /\ CallInv(call[c], results[c])
           /\ DOMAIN call[c].texts = 1..Len(call[c].texts)
           /\ Len(call[c].texts) \in Nat
<1>1. call[c] \in Calls
  BY DEF IndInv, TypeOK
<1>2. /\ call[c].texts \in Seq(Texts) /\ call[c].misses \in Seq(Nat)
      /\ call[c].i \in Nat
  BY <1>1 DEF Calls
<1>3. /\ results[c] \in [DOMAIN results[c] -> Embeddings]
      /\ CallInv(call[c], results[c])
  BY DEF IndInv, CallsInv
<1>4. /\ DOMAIN call[c].texts = 1..Len(call[c].texts)
      /\ Len(call[c].texts) \in Nat
  BY <1>2
<1> QED
  BY <1>1, <1>2, <1>3, <1>4

\* A step that moves a call without settling a text.
LEMMA GoToCall ==
    ASSUME IndInv, NEW c \in Callers, NEW pc \in Pcs, GoTo(c, pc),
           NEW s, s = [call[c] EXCEPT !.pc = pc]
    PROVE  /\ s \in Calls /\ call' = [call EXCEPT ![c] = s]
           /\ s.pc = pc /\ s.texts = call[c].texts /\ s.i = call[c].i
           /\ s.misses = call[c].misses
<1>1. call[c] \in Calls
  BY CallFacts
<1>2. s \in Calls
  BY <1>1 DEF Calls
<1>3. call' = [call EXCEPT ![c] = s]
  BY DEF GoTo
<1>4. /\ s.pc = pc /\ s.texts = call[c].texts /\ s.i = call[c].i
      /\ s.misses = call[c].misses
  BY <1>1 DEF Calls
<1> QED
  BY <1>2, <1>3, <1>4

LEMMA ResultsSame ==
    ASSUME IndInv, NEW c \in Callers
    PROVE  results = [results EXCEPT ![c] = results[c]]
<1> QED
  BY DEF IndInv, CallsInv

LEMMA RLockKeeps ==
    ASSUME IndInv, NEW c \in Callers, RLock(c) PROVE IndInv'
<1> DEFINE s == [call[c] EXCEPT !.pc = "lookup"]
<1>1. /\ s \in Calls /\ call' = [call EXCEPT ![c] = s]
      /\ s.pc = "lookup" /\ s.texts = call[c].texts /\ s.i = call[c].i
      /\ s.misses = call[c].misses
  BY GoToCall DEF RLock, Pcs
<1>2. /\ call[c].i = 1 /\ call[c].texts # <<>> /\ call[c].misses = <<>>
      /\ results[c] = <<>>
  BY CallFacts DEF RLock, CallInv
<1>3. 1 \in DOMAIN call[c].texts
  BY <1>2, CallFacts, EmptySeq
<1>4. CallInv(s, results[c])
  <2>1. Missed(s) = {} /\ DOMAIN results[c] = {}
    BY <1>1, <1>2 DEF Missed
  <2>2. Settled(s) = {}
    BY <1>1, <1>2 DEF Settled
  <2> HIDE DEF s
  <2>3. s.i \in DOMAIN s.texts /\ s.pc = "lookup"
    BY <1>1, <1>2, <1>3
  <2>4. AnswersMatch(s, results[c]) /\ Missed(s) \subseteq DOMAIN s.texts
    BY <2>1 DEF AnswersMatch
  <2>5. DOMAIN results[c] \cup Missed(s) = Settled(s)
    BY <2>1, <2>2
  <2> QED
    BY <2>3, <2>4, <2>5 DEF CallInv
<1>5. Untouched
  BY DEF RLock, Untouched, IndInv, TypeOK
<1>6. results' = [results EXCEPT ![c] = results[c]]
  BY ResultsSame DEF RLock
<1> HIDE DEF s
<1> QED
  BY <1>1, <1>4, <1>5, <1>6, CallFacts, UntouchedKeeps

LEMMA LookupKeeps ==
    ASSUME IndInv, NEW c \in Callers, Lookup(c) PROVE IndInv'
<1> DEFINE s == call[c]
           text == s.texts[s.i]
           e == cache[text]
           found == Answer(results[c], s.i, e)
           hitting == [s EXCEPT !.pc = "hit"]
           missing == [s EXCEPT !.pc = "miss", !.misses = Append(@, s.i)]
<1>1. /\ s \in Calls /\ s.pc = "lookup" /\ s.i \in DOMAIN s.texts
      /\ DOMAIN s.texts = 1..Len(s.texts) /\ Len(s.texts) \in Nat
      /\ s.misses \in Seq(Nat) /\ text \in Texts
      /\ AnswersMatch(s, results[c]) /\ Missed(s) \subseteq DOMAIN s.texts
      /\ DOMAIN results[c] \cup Missed(s) = 1..(s.i - 1)
      /\ results[c] \in [DOMAIN results[c] -> Embeddings]
  <2>1. s.pc = "lookup"
    BY DEF Lookup
  <2>2. Settled(s) = 1..(s.i - 1)
    BY <2>1 DEF Settled
  <2>3. /\ AnswersMatch(s, results[c]) /\ Missed(s) \subseteq DOMAIN s.texts
        /\ s.i \in DOMAIN s.texts
        /\ DOMAIN results[c] \cup Missed(s) = 1..(s.i - 1)
    BY <2>1, <2>2, CallFacts DEF CallInv, EmbedPcs
  <2> QED
    BY <2>1, <2>3, CallFacts
<1>2. (1..(s.i - 1)) \cup {s.i} = 1..s.i
  BY <1>1
<1>3. ASSUME text \in DOMAIN cache,
             results' = [results EXCEPT ![c] = found],
             cache' = cache,
             GoTo(c, "hit")
      PROVE  IndInv'
  <2>1. e \in Embeddings /\ e.of = text
    BY <1>3 DEF IndInv, TypeOK, CacheInv
  <2>2. /\ hitting \in Calls /\ call' = [call EXCEPT ![c] = hitting]
        /\ hitting.pc = "hit" /\ hitting.texts = s.texts /\ hitting.i = s.i
        /\ hitting.misses = s.misses
    BY <1>3, GoToCall DEF Pcs
  <2>3. /\ DOMAIN found = DOMAIN results[c] \cup {s.i}
        /\ found \in [DOMAIN found -> Embeddings]
        /\ AnswersMatch(s, found)
    BY <1>1, <2>1 DEF Answer, AnswersMatch
  <2>4. CallInv(hitting, found)
    <3> HIDE DEF hitting, found, s
    <3>1. Missed(hitting) = Missed(s) /\ AnswersMatch(hitting, found)
      BY <2>2, <2>3 DEF Missed, AnswersMatch
    <3>2. Settled(hitting) = 1..s.i
      BY <2>2 DEF Settled
    <3>3. DOMAIN found \cup Missed(hitting) = Settled(hitting)
      BY <1>1, <1>2, <2>3, <3>1, <3>2
    <3> QED
      BY <1>1, <2>2, <3>1, <3>3 DEF CallInv
  <2>5. /\ DOMAIN cache' = DOMAIN cache
        /\ cache' \in [DOMAIN cache -> Embeddings]
        /\ \A t \in DOMAIN cache : cache'[t].of = t
    BY <1>3 DEF IndInv, TypeOK, CacheInv
  <2>6. CacheInv'
    BY <2>5 DEF IndInv, CacheInv, CacheBounded
  <2> HIDE DEF hitting, found
  <2>7. CallsInv'
    BY <1>3, <2>2, <2>3, <2>4, OthersKeep
  <2>8. TypeOK'
    BY <2>5, <2>7 DEF Lookup, locks, IndInv, TypeOK, CallsInv
  <2> QED
    BY <2>6, <2>7, <2>8 DEF IndInv
<1>4. ASSUME call' = [call EXCEPT ![c].pc = "miss",
                                  ![c].misses = Append(@, s.i)],
             UNCHANGED <<cache, results>>
      PROVE  IndInv'
  <2>1. Append(s.misses, s.i) \in Seq(Nat)
    BY <1>1
  <2>2. /\ missing \in Calls /\ call' = [call EXCEPT ![c] = missing]
        /\ missing.pc = "miss" /\ missing.texts = s.texts /\ missing.i = s.i
        /\ missing.misses = Append(s.misses, s.i)
    <3> DEFINE misses == Append(s.misses, s.i)
    <3>1. missing = [s EXCEPT !.pc = "miss", !.misses = misses]
      OBVIOUS
    <3>2. call' = [call EXCEPT ![c] = missing]
      BY <1>4
    <3>3. misses \in Seq(Nat)
      BY <2>1
    <3> HIDE DEF missing, misses, s
    <3>4. /\ missing \in Calls /\ missing.pc = "miss"
          /\ missing.texts = s.texts /\ missing.i = s.i
          /\ missing.misses = misses
      BY <1>1, <3>1, <3>3 DEF Calls, Pcs
    <3> QED
      BY <3>2, <3>4 DEF misses
  <2>3. Missed(missing) = Missed(s) \cup {s.i}
    <3> DEFINE old == s.misses
    <3>1. old \in Seq(Nat) /\ missing.misses = Append(old, s.i)
      BY <1>1, <2>2
    <3> HIDE DEF missing, s, old
    <3>2. /\ DOMAIN missing.misses = DOMAIN old \cup {Len(old) + 1}
          /\ missing.misses[Len(old) + 1] = s.i
          /\ \A j \in DOMAIN old : missing.misses[j] = old[j]
      BY <3>1
    <3> QED
      BY <3>2 DEF Missed, old
  <2>4. CallInv(missing, results[c])
    <3> HIDE DEF missing, s
    <3>1. AnswersMatch(missing, results[c]) /\ Settled(missing) = 1..s.i
      BY <1>1, <2>2 DEF AnswersMatch, Settled
    <3>2. DOMAIN results[c] \cup Missed(missing) = Settled(missing)
      BY <1>1, <1>2, <2>3, <3>1
    <3>3. Missed(missing) \subseteq DOMAIN missing.texts
      BY <1>1, <2>2, <2>3
    <3> QED
      BY <1>1, <2>2, <3>1, <3>2, <3>3 DEF CallInv
  <2>5. Untouched
    BY <1>4 DEF Lookup, locks, Untouched, IndInv, TypeOK
  <2>6. results' = [results EXCEPT ![c] = results[c]]
    BY <1>4, ResultsSame
  <2> HIDE DEF missing
  <2> QED
    BY <1>1, <2>2, <2>4, <2>5, <2>6, UntouchedKeeps
<1> QED
  BY <1>3, <1>4 DEF Lookup

\* A step that moves a call outside the loop over its texts.
LEMMA MoveKeeps ==
    ASSUME IndInv, NEW c \in Callers, NEW pc \in Pcs,
           GoTo(c, pc), UNCHANGED results,
           pc \notin {"rlock", "lookup", "hit", "miss"},
           pc \in EmbedPcs =>
              DOMAIN results[c] \cup Missed(call[c]) = 1..Len(call[c].texts),
           pc = "returned" => DOMAIN results[c] = DOMAIN call[c].texts
    PROVE  CallsInv'
<1> DEFINE s == [call[c] EXCEPT !.pc = pc]
<1>1. /\ s \in Calls /\ call' = [call EXCEPT ![c] = s]
      /\ s.pc = pc /\ s.texts = call[c].texts /\ s.i = call[c].i
      /\ s.misses = call[c].misses
  BY GoToCall
<1>2. results' = [results EXCEPT ![c] = results[c]]
  BY ResultsSame
<1> HIDE DEF s
<1>3. AnswersMatch(s, results[c]) /\ Missed(s) = Missed(call[c])
      /\ Missed(s) \subseteq DOMAIN s.texts
  BY <1>1, CallFacts DEF CallInv, AnswersMatch, Missed
<1>4. pc \in EmbedPcs => Settled(s) = 1..Len(s.texts)
  BY <1>1 DEF Settled, EmbedPcs
<1>5. CallInv(s, results[c])
  BY <1>1, <1>3, <1>4 DEF CallInv
<1> QED
  BY <1>1, <1>2, <1>5, CallFacts, OthersKeep

\* Such a step, when it leaves the cache alone.
LEMMA MoveUntouched ==
    ASSUME IndInv, Untouched, CallsInv' PROVE IndInv'
<1>1. CacheInv'
  BY DEF IndInv, CacheInv, CacheBounded, Untouched
<1>2. TypeOK'
  BY DEF Untouched, CallsInv, IndInv, TypeOK
<1> QED
  BY <1>1, <1>2 DEF IndInv

LEMMA RecordKeeps ==
    ASSUME IndInv, NEW c \in Callers, Record(c) PROVE IndInv'
<1> DEFINE s == call[c]
           next == [s EXCEPT !.pc = "lookup", !.i = s.i + 1]
<1>1. /\ s \in Calls /\ s.pc \in {"hit", "miss"} /\ s.i \in DOMAIN s.texts
      /\ DOMAIN s.texts = 1..Len(s.texts) /\ Len(s.texts) \in Nat
      /\ AnswersMatch(s, results[c]) /\ Missed(s) \subseteq DOMAIN s.texts
      /\ DOMAIN results[c] \cup Missed(s) = 1..s.i
  BY CallFacts DEF Record, CallInv, Settled, EmbedPcs
<1>2. Untouched
  <2>1. readers' \subseteq Callers
    BY DEF Record, AfterText, IndInv, TypeOK
  <2>2. stats' \in [hits : Nat, misses : Nat, size : Nat]
    BY DEF Record, IndInv, TypeOK
  <2> QED
    BY <2>1, <2>2 DEF Record, Untouched, IndInv, TypeOK
<1>3. UNCHANGED results
  BY DEF Record
<1>4. CASE s.i < Len(s.texts)
  <2>1. call' = [call EXCEPT ![c] = next]
    BY <1>4 DEF Record, AfterText
  <2>2. /\ next \in Calls /\ next.pc = "lookup" /\ next.texts = s.texts
        /\ next.i = s.i + 1 /\ next.misses = s.misses
    <3>1. s.i + 1 \in Nat
      BY <1>1
    <3> HIDE DEF s
    <3> QED
      BY <1>1, <3>1 DEF Calls, Pcs
  <2>3. CallInv(next, results[c])
    <3> HIDE DEF next, s
    <3>1. Missed(next) = Missed(s) /\ AnswersMatch(next, results[c])
      BY <1>1, <2>2 DEF Missed, AnswersMatch
    <3>2. Settled(next) = 1..s.i
      BY <1>1, <2>2 DEF Settled
    <3>3. next.i \in DOMAIN next.texts
      BY <1>1, <1>4, <2>2
    <3> QED
      BY <1>1, <2>2, <3>1, <3>2, <3>3 DEF CallInv
  <2>4. results' = [results EXCEPT ![c] = results[c]]
    BY <1>3, ResultsSame
  <2> HIDE DEF next
  <2> QED
    BY <1>2, <2>1, <2>2, <2>3, <2>4, CallFacts, UntouchedKeeps
<1>5. CASE ~(s.i < Len(s.texts))
  <2> DEFINE pc == IF s.misses = <<>> THEN "returned" ELSE "inner"
  <2>1. GoTo(c, pc)
    BY <1>5 DEF Record, AfterText
  <2>2. DOMAIN results[c] \cup Missed(s) = 1..Len(s.texts)
    BY <1>1, <1>5
  <2>3. s.misses = <<>> => DOMAIN results[c] = DOMAIN s.texts
    <3> HIDE DEF s, pc, next
    <3>1. ASSUME s.misses = <<>> PROVE Missed(s) = {}
      BY <3>1 DEF Missed
    <3>2. ASSUME s.misses = <<>> PROVE DOMAIN results[c] = 1..Len(s.texts)
      BY <2>2, <3>1, <3>2
    <3> QED
      BY <1>1, <3>2
  <2>4. CallsInv'
    <3>1. CASE s.misses = <<>>
      BY <1>3, <2>1, <2>3, <3>1, MoveKeeps DEF Pcs, EmbedPcs
    <3>2. CASE s.misses # <<>>
      BY <1>3, <2>1, <2>2, <3>2, MoveKeeps DEF Pcs, EmbedPcs
    <3> QED
      BY <3>1, <3>2
  <2> QED
    BY <1>2, <2>4, MoveUntouched
<1> QED
  BY <1>4, <1>5

\* The steps of Embed outside mu.
LEMMA InnerKeeps ==
    ASSUME IndInv, NEW c \in Callers, Inner(c) PROVE IndInv'
<1>1. DOMAIN results[c] \cup Missed(call[c]) = 1..Len(call[c].texts)
  BY CallFacts DEF Inner, CallInv, Settled, EmbedPcs
<1>2. UNCHANGED results /\ Untouched
  BY DEF Inner, Untouched, IndInv, TypeOK, locks
<1>3. ASSUME NEW pc \in {"lock", "failed"}, GoTo(c, pc) PROVE CallsInv'
  BY <1>1, <1>2, <1>3, MoveKeeps DEF Pcs, EmbedPcs
<1>4. CallsInv'
  BY <1>3 DEF Inner
<1> QED
  BY <1>2, <1>4, MoveUntouched

LEMMA LockKeeps ==
    ASSUME IndInv, NEW c \in Callers, Lock(c) PROVE IndInv'
<1>1. UNCHANGED results /\ Untouched
  BY DEF Lock, Untouched, IndInv, TypeOK
<1>2. CASE call[c].pc = "lock"
  <2>1. DOMAIN results[c] \cup Missed(call[c]) = 1..Len(call[c].texts)
    BY <1>2, CallFacts DEF CallInv, Settled, EmbedPcs
  <2>2. GoTo(c, "store")
    BY <1>2 DEF Lock
  <2>3. CallsInv'
    BY <1>1, <2>1, <2>2, MoveKeeps DEF Pcs, EmbedPcs
  <2> QED
    BY <1>1, <2>3, MoveUntouched
<1>3. CASE call[c].pc = "clearLock"
  <2>1. GoTo(c, "clear")
    BY <1>3 DEF Lock
  <2>2. CallsInv'
    BY <1>1, <2>1, MoveKeeps DEF Pcs, EmbedPcs
  <2> QED
    BY <1>1, <2>2, MoveUntouched
<1> QED
  BY <1>2, <1>3 DEF Lock

LEMMA StoreKeeps ==
    ASSUME IndInv, NEW c \in Callers, Store(c) PROVE IndInv'
<1> DEFINE s == [call[c] EXCEPT !.pc = "returned"]
<1>1. call[c].pc = "store"
  BY DEF Store
<1>2. PICK gone \in SUBSET DOMAIN Filled(c) :
         /\ Cardinality(gone) = Excess(Filled(c))
         /\ cache' = [t \in DOMAIN Filled(c) \ gone |-> Filled(c)[t]]
  BY DEF Store, Restrict
<1>3. /\ IsFiniteSet(DOMAIN Filled(c))
      /\ DOMAIN Filled(c) \subseteq Texts
      /\ Filled(c) \in [DOMAIN Filled(c) -> Embeddings]
      /\ \A t \in DOMAIN Filled(c) : Filled(c)[t].of = t
  BY <1>1, FilledType
<1>4. DOMAIN cache' = DOMAIN Filled(c) \ gone
  BY <1>2
<1>5. IsFiniteSet(DOMAIN cache') /\ Cardinality(DOMAIN cache') <= MaxSize
  BY <1>2, <1>3, <1>4, EvictionBounds
<1>6. CacheInv'
  BY <1>2, <1>3, <1>5 DEF CacheInv, CacheBounded
<1>7. CallsInv'
  <2>1. /\ s \in Calls /\ call' = [call EXCEPT ![c] = s]
        /\ s.pc = "returned" /\ s.texts = call[c].texts
        /\ s.misses = call[c].misses
    BY GoToCall DEF Store, Pcs
  <2>2. /\ Answered(c) \in [DOMAIN Answered(c) -> Embeddings]
        /\ AnswersMatch(call[c], Answered(c))
        /\ DOMAIN Answered(c) = DOMAIN call[c].texts
    BY <1>1, AnsweredMatches
  <2> HIDE DEF s
  <2>3. AnswersMatch(s, Answered(c)) /\ Missed(s) \subseteq DOMAIN s.texts
    BY <2>1, <2>2, CallFacts DEF AnswersMatch, Missed, CallInv
  <2>4. CallInv(s, Answered(c))
    BY <2>1, <2>2, <2>3 DEF CallInv, EmbedPcs
  <2>5. results' = [results EXCEPT ![c] = Answered(c)]
    BY DEF Store
  <2> QED
    BY <2>1, <2>2, <2>4, <2>5, OthersKeep
<1>8. TypeOK'
  <2>1. DOMAIN cache' \subseteq Texts /\ cache' \in [DOMAIN cache' -> Embeddings]
    BY <1>2, <1>3
  <2> QED
    BY <1>7, <2>1 DEF Store, CallsInv, IndInv, TypeOK
<1> QED
  BY <1>6, <1>7, <1>8 DEF IndInv

-----------------------------------------------------------------------------
(* Stats, HitRate and Clear, and the whole.                                *)

LEMMA StatsKeeps ==
    ASSUME IndInv, NEW c \in Callers,
           Stats(c) \/ StatsSize(c) \/ HitRate(c) \/ ClearStats(c)
    PROVE  IndInv'
<1>1. UNCHANGED results
  BY DEF Stats, StatsSize, HitRate, ClearStats
<1>2. Cardinality(DOMAIN cache) \in Nat
  BY FS_CardinalityType DEF IndInv, CacheInv
<1>3. Untouched
  BY <1>2 DEF Stats, StatsSize, HitRate, ClearStats, Untouched, IndInv, TypeOK,
              locks
<1>4. ASSUME NEW pc \in {"statsRLock", "idle"}, GoTo(c, pc) PROVE CallsInv'
  BY <1>1, <1>4, MoveKeeps DEF Pcs, EmbedPcs
<1>5. CallsInv'
  BY <1>4 DEF Stats, StatsSize, HitRate, ClearStats
<1> QED
  BY <1>3, <1>5, MoveUntouched

LEMMA ClearKeeps ==
    ASSUME IndInv, NEW c \in Callers, Clear(c) PROVE IndInv'
<1>1. CallsInv'
  BY MoveKeeps DEF Clear, Pcs, EmbedPcs
<1>2. DOMAIN cache' = {}
  BY DEF Clear
<1>3. CacheInv'
  BY <1>2, FS_EmptySet DEF CacheInv, CacheBounded
<1>4. TypeOK'
  BY <1>1, <1>2 DEF Clear, CallsInv, IndInv, TypeOK
<1> QED
  BY <1>1, <1>3, <1>4 DEF IndInv

LEMMA InitInv == Init => IndInv
<1> SUFFICES ASSUME Init PROVE IndInv
  OBVIOUS
<1> DEFINE s == [pc |-> "idle", texts |-> <<>>, i |-> 1, misses |-> <<>>,
                 began |-> 0, made |-> 0]
<1>1. CacheInv
  BY FS_EmptySet DEF Init, CacheInv, CacheBounded
<1>2. CallsInv
  <2>1. <<>> \in Seq(Texts) /\ <<>> \in Seq(Nat)
    OBVIOUS
  <2>2. s \in Calls
    BY <2>1 DEF Calls, Pcs
  <2>3. CallInv(s, <<>>)
    BY DEF CallInv, AnswersMatch, Missed, EmbedPcs
  <2>4. /\ call = [c \in Callers |-> s]
        /\ results = [c \in Callers |-> <<>>]
    BY DEF Init
  <2> HIDE DEF s
  <2> QED
    BY <2>2, <2>3, <2>4 DEF CallsInv
<1>3. TypeOK
  BY <1>2 DEF Init, TypeOK, CallsInv
<1> QED
  BY <1>1, <1>2, <1>3 DEF IndInv

LEMMA NextInv == IndInv /\ [Next]_vars => IndInv'
<1> SUFFICES ASSUME IndInv, [Next]_vars PROVE IndInv'
  OBVIOUS
<1>1. ASSUME NEW c \in Callers, Call(c) \/ Work(c) PROVE IndInv'
  BY <1>1, CallKeeps, RLockKeeps, LookupKeeps, RecordKeeps, InnerKeeps,
     LockKeeps, StoreKeeps, StatsKeeps, ClearKeeps DEF Work
<1>2. CASE Tick
  BY <1>2 DEF Tick, locks, IndInv, TypeOK, CacheInv, CacheBounded, CallsInv
<1>3. CASE UNCHANGED vars
  BY <1>3 DEF vars, IndInv, TypeOK, CacheInv, CacheBounded, CallsInv
<1> QED
  BY <1>1, <1>2, <1>3 DEF Next, Finished

LEMMA Invariance == Spec => []IndInv
<1> QED
  BY InitInv, NextInv, PTL DEF Spec

(* Every variable keeps its type. *)
THEOREM TypeCorrect == Spec => []TypeOK
<1>1. IndInv => TypeOK
  BY DEF IndInv
<1> QED
  BY <1>1, Invariance, PTL

(* The cache never holds more than MaxSize entries when its lock is free,  *)
(* whatever the batches that are stored in it: evictOldest is called with  *)
(* the whole excess, in the critical section that made it.                 *)
THEOREM SizeNeverExceeded == Spec => []CacheBounded
<1>1. IndInv => CacheBounded
  BY DEF IndInv, CacheInv
<1> QED
  BY <1>1, Invariance, PTL

(* Embed answers each position with the embedding of its own text, for any *)
(* mixture of hits, misses and repeated texts, and any interleaving with   *)
(* the stores, evictions and clears of other calls.                        *)
THEOREM EachTextItsEmbedding == Spec => []ResultsMatch
<1>1. IndInv => ResultsMatch
  BY DEF IndInv, CallsInv, CallInv, AnswersMatch, ResultsMatch
<1> QED
  BY <1>1, Invariance, PTL

-----------------------------------------------------------------------------
(* Freshness: the clock only runs forward, and a call that began earlier   *)
(* finds an answer at most as old as it would have been when it began.     *)

Fresh(c) ==
    /\ call[c].began <= now
    /\ TTL > 0 => \A k \in DOMAIN results[c] :
                     call[c].began - results[c][k].createdAt < TTL

\* Nothing but Call sets the time a call began.
LEMMA BeganKept ==
    ASSUME IndInv, NEW c \in Callers, Work(c), NEW d \in Callers
    PROVE  call'[d].began = call[d].began
<1>1. call \in [Callers -> Calls] /\ call[c] \in Calls
  BY DEF IndInv, CallsInv
<1>2. ASSUME NEW pc, GoTo(c, pc) PROVE call'[d].began = call[d].began
  BY <1>1, <1>2 DEF GoTo, Calls
<1>3. CASE Lookup(c)
  <2>1. ASSUME call' = [call EXCEPT ![c].pc = "miss",
                                    ![c].misses = Append(@, call[c].i)]
        PROVE  call'[d].began = call[d].began
    BY <1>1, <2>1 DEF Calls
  <2> QED
    BY <1>2, <1>3, <2>1 DEF Lookup
<1>4. CASE Record(c)
  <2>1. ASSUME call' = [call EXCEPT ![c].pc = "lookup", ![c].i = @ + 1]
        PROVE  call'[d].began = call[d].began
    BY <1>1, <2>1 DEF Calls
  <2> QED
    BY <1>2, <1>4, <2>1 DEF Record, AfterText
<1> QED
  BY <1>2, <1>3, <1>4
     DEF Work, RLock, Inner, Lock, Store, Stats, StatsSize, HitRate, Clear, ClearStats

LEMMA AnsweredLater ==
    ASSUME IndInv, NEW c \in Callers, Fresh(c), NEW k \in DOMAIN Answered(c),
           TTL > 0
    PROVE  call[c].began - Answered(c)[k].createdAt < TTL
<1>1. call[c].began \in Nat /\ now \in Nat
  BY DEF IndInv, TypeOK, Calls
<1>2. CASE \E j \in Batch(c) : Slot(c, j) = k
  <2>1. Answered(c)[k].createdAt = now
    BY <1>2 DEF Answered
  <2> QED
    BY <1>1, <2>1 DEF Fresh
<1>3. CASE ~ \E j \in Batch(c) : Slot(c, j) = k
  BY <1>3 DEF Answered, Fresh
<1> QED
  BY <1>2, <1>3

LEMMA WorkFresh ==
    ASSUME IndInv, \A d \in Callers : Fresh(d), NEW c \in Callers, Work(c)
    PROVE  \A d \in Callers : Fresh(d)'
<1>1. /\ now' = now /\ now \in Nat
      /\ \A d \in Callers : call'[d].began = call[d].began
  BY BeganKept DEF IndInv, TypeOK, Work, RLock, Lookup, Record, Inner, Lock, Store, Stats,
                   StatsSize, HitRate, Clear, ClearStats
<1>2. results = [d \in Callers |-> results[d]]
  BY DEF IndInv, CallsInv
<1>3. CASE results' = results
  BY <1>1, <1>3 DEF Fresh
<1>4. CASE Lookup(c) /\ results' # results
  <2> DEFINE s == call[c]
             e == cache[s.texts[s.i]]
             found == Answer(results[c], s.i, e)
  <2>1. /\ results' = [results EXCEPT ![c] = found]
        /\ s.texts[s.i] \in DOMAIN cache /\ IsFresh(e)
    BY <1>4 DEF Lookup
  <2>2. e.createdAt \in Nat /\ s.began \in Nat
    BY <2>1 DEF IndInv, TypeOK, Embeddings, Calls
  <2>3. ASSUME TTL > 0, NEW k \in DOMAIN found
        PROVE  s.began - found[k].createdAt < TTL
    <3>1. CASE k = s.i
      <4>1. found[k] = e
        BY <3>1 DEF Answer
      <4>2. now - e.createdAt < TTL /\ s.began <= now
        BY <2>1, <2>3 DEF IsFresh, Fresh
      <4> QED
        BY <1>1, <2>2, <4>1, <4>2
    <3>2. CASE k # s.i
      <4>1. k \in DOMAIN results[c] /\ found[k] = results[c][k]
        BY <3>2 DEF Answer
      <4> QED
        BY <2>3, <4>1 DEF Fresh
    <3> QED
      BY <3>1, <3>2
  <2> HIDE DEF found, e, s
  <2>4. /\ results'[c] = found
        /\ \A d \in Callers : d # c => results'[d] = results[d]
    BY <1>2, <2>1
  <2>5. s = call[c]
    BY DEF s
  <2> QED
    BY <1>1, <2>3, <2>4, <2>5 DEF Fresh
<1>5. CASE Store(c)
  <2>1. /\ results'[c] = Answered(c)
        /\ \A d \in Callers : d # c => results'[d] = results[d]
    BY <1>2, <1>5 DEF Store
  <2> QED
    BY <1>1, <2>1, AnsweredLater DEF Fresh
<1> QED
  BY <1>3, <1>4, <1>5
     DEF Work, RLock, Record, Inner, Lock, Stats, StatsSize, HitRate, Clear, ClearStats

LEMMA CallFresh ==
    ASSUME IndInv, \A d \in Callers : Fresh(d), NEW c \in Callers, Call(c)
    PROVE  \A d \in Callers : Fresh(d)'
<1>1. now' = now /\ now \in Nat
  BY DEF Call, IndInv, TypeOK
<1>2. PICK pc, texts :
         call' = [call EXCEPT ![c] = [pc |-> pc, texts |-> texts, i |-> 1,
                                      misses |-> <<>>, began |-> now,
                                      made |-> @.made + 1]]
  BY DEF Call
<1>3. /\ call'[c].began = now /\ results'[c] = <<>>
      /\ \A d \in Callers : d # c => call'[d] = call[d] /\ results'[d] = results[d]
  BY <1>2 DEF Call, IndInv, CallsInv
<1> QED
  BY <1>1, <1>3 DEF Fresh

(* An answer that was in the cache was fresh when it was found, and one    *)
(* that was not is younger than the call: neither the wait for a lock nor  *)
(* the one for the wrapped embedder lets a call return an embedding older  *)
(* than the TTL when it began, for any TTL and any batches.                *)
THEOREM AnswersAreFresh == Spec => []ResultsAreFresh
<1> DEFINE FreshInv == \A c \in Callers : Fresh(c)
<1>1. Init => FreshInv
  BY DEF Init, Fresh
<1>2. IndInv /\ FreshInv /\ [Next]_vars => FreshInv'
  <2> SUFFICES ASSUME IndInv, FreshInv, [Next]_vars PROVE FreshInv'
    OBVIOUS
  <2>1. CASE Tick
    <3>1. now \in Nat /\ \A c \in Callers : call[c].began \in Nat
      BY DEF IndInv, TypeOK, Calls
    <3> QED
      BY <2>1, <3>1 DEF Tick, Fresh
  <2>2. CASE UNCHANGED vars
    BY <2>2 DEF vars, Fresh
  <2> QED
    BY <2>1, <2>2, WorkFresh, CallFresh DEF Next, Finished
<1>3. FreshInv => ResultsAreFresh
  BY DEF Fresh, ResultsAreFresh
<1> HIDE DEF FreshInv
<1>4. Init /\ [][Next]_vars /\ []IndInv => []FreshInv
  BY <1>1, <1>2, PTL
<1> QED
  BY <1>3, <1>4, Invariance, PTL DEF Spec
=============================================================================
