---------------------------- MODULE PgVectorCalls ----------------------------
(***************************************************************************)
(* The calls that write to PgVectorStore (pgvector_store.go) as the        *)
(* database runs them, at READ COMMITTED: Upsert, UpsertBatch, DeleteByID  *)
(* and DeleteByFileID of goroutines that share the pool of a store, beside *)
(* the opening of other stores on the same database.                       *)
(*                                                                         *)
(* A transaction locks the rows it writes until it ends; whoever wants one *)
(* of them waits.  A DELETE finds its rows in a snapshot taken when it     *)
(* begins, and looks at each again when it gets the lock.  A cycle of      *)
(* waits is broken by failing one of the statements.                       *)
(*                                                                         *)
(* Searches are single statements: they read the committed rows, vectors.  *)
(***************************************************************************)
EXTENDS Naturals, Sequences, Functions, FiniteSets

CONSTANTS Callers, ChunkIds, FileIds,
          Stores, Dims, DimOf,
          StoreOf,    \* the store each goroutine was given
          PoolSize,   \* connections of a pool
          MaxBatch,   \* bound: items of one batch
          MaxCalls,   \* bound: calls of one goroutine
          Overlap     \* bound: FALSE lets nobody call while a store is being opened

ASSUME StoresAssumption == StoreOf \in [Callers -> Stores]

ASSUME DimsAssumption ==
    /\ Dims \subseteq Nat \ {0}
    /\ DimOf \in [Stores -> Dims]

ASSUME ChunkIdsAssumption == IsFiniteSet(ChunkIds)

ASSUME BoundsAssumption ==
    /\ PoolSize \in Nat \ {0} /\ MaxBatch \in Nat /\ MaxCalls \in Nat
    /\ Overlap \in BOOLEAN

VARIABLES db, opening,  \* PgVectorOpening
          vectors,      \* the committed rows, id |-> file_id
          request, answer, made,
          work,         \* caller |-> its session: where it is, and what it holds
          due           \* observer, see VectorContract

vars == <<db, opening, vectors, request, answer, made, work, due>>

openingVars == <<db, opening>>

callVars == <<vectors, request, answer, made, work, due>>

Opening == INSTANCE PgVectorOpening

\* A panic is no answer: to the rest of the system it is a call that failed.
Answers == [c \in Callers |-> IF answer[c] = "panic" THEN "error" ELSE answer[c]]

Contract == INSTANCE VectorContract WITH table <- vectors, answer <- Answers

-----------------------------------------------------------------------------
\* i: the next item of the batch.  own: the rows written and not committed.
\* scan: the ids a DELETE has still to visit.  found: those of its snapshot
\* that nobody has deleted since.  held: those it has locked.
At(pc) == [pc |-> pc, i |-> 1, own |-> <<>>, scan |-> <<>>, found |-> {}, held |-> {}]

NoWork == At("idle")

Init ==
    /\ Opening!Init
    /\ vectors \in IF "table" \in db.made THEN Contract!Tables ELSE {<<>>}
    /\ request = [c \in Callers |-> Contract!NoRequest]
    /\ answer = [c \in Callers |-> "none"]
    /\ due = [c \in Callers |-> {}]
    /\ made = [c \in Callers |-> 0]
    /\ work = [c \in Callers |-> NoWork]

Pending(c) == answer[c] = "pending"

Item(c) == request[c].items[work[c].i]

ItemsLeft(c) == work[c].i <= Len(request[c].items)

Empty(c) == request[c].op = "batch" /\ request[c].items = <<>>

\* Mutant: the fallback begins before the failed transaction is rolled back.
ConnectedTwice(c) == work[c].pc \in {"put", "copy", "reacquire", "upsert", "delete"}

\* Who has a connection of the pool.
Connected(c) == work[c].pc \in {"put", "copy", "upsert", "delete"}

MayConnect(c) ==
    Cardinality({d \in Callers : StoreOf[d] = StoreOf[c] /\ Connected(d)}) < PoolSize

Locked(c) == DOMAIN work[c].own \cup work[c].held

IsFree(c, id) == \A d \in Callers \ {c} : id \notin Locked(d)

Writes(c) == work[c].pc \in {"copy", "upsert"} /\ ItemsLeft(c)

\* The row that a session needs next.
Wants(c, id) ==
    \/ Writes(c) /\ id = Item(c).id
    \/ /\ work[c].pc = "delete" /\ work[c].scan # <<>>
       /\ id = Head(work[c].scan) /\ id \in work[c].found

WaitsFor(c, d) == c # d /\ \E id \in Locked(d) : Wants(c, id)

\* Nobody waits for two, so that these are the cycles.
InCycle(c) ==
    \E S \in SUBSET Callers :
       /\ c \in S
       /\ \A d \in S : (\E e \in S : WaitsFor(d, e)) /\ (\E e \in S : WaitsFor(e, d))

\* The call ends.  Its session has committed or rolled back, and the
\* connection is in the pool again.
End(c, a) ==
    /\ answer' = [answer EXCEPT ![c] = a]
    /\ work' = [work EXCEPT ![c] = NoWork]

\* With the effect, the answer; or it is lost with the connection.
Ends(c) == \E a \in {"ok", "error"} : End(c, a)

Effect(t) ==
    /\ vectors' = t
    /\ due' = Contract!StillDue(t)
    /\ UNCHANGED <<openingVars, request, made>>

NoEffect == UNCHANGED <<openingVars, vectors, request, made, due>>

Session(c, w) ==
    /\ work' = [work EXCEPT ![c] = w]
    /\ NoEffect
    /\ UNCHANGED answer

-----------------------------------------------------------------------------
Invoke(c) ==
    /\ Opening!IsOpen(StoreOf[c])
    /\ Overlap \/ \A s \in Stores : Opening!IsSettled(s)
    /\ ~Pending(c) /\ made[c] < MaxCalls
    /\ made' = [made EXCEPT ![c] = @ + 1]
    /\ \E r \in Contract!Requests :
          /\ request' = [request EXCEPT ![c] = r]
          /\ due' = [due EXCEPT ![c] = IF Contract!IsWrite(r) THEN {}
                                       ELSE Contract!Matching(r, vectors)]
    /\ answer' = [answer EXCEPT ![c] = "pending"]
    /\ work' = [work EXCEPT ![c].pc = "begin"]
    /\ UNCHANGED <<openingVars, vectors>>

ReturnNil(c) ==
    /\ work[c].pc = "begin" /\ Empty(c)
    /\ End(c, "ok")
    /\ NoEffect

\* An embedding of another dimension, or no connection.
Refuse(c) ==
    /\ work[c].pc = "begin" /\ ~Empty(c)
    /\ End(c, "error")
    /\ NoEffect

BeginWrite(c) ==
    /\ work[c].pc = "begin" /\ ~Empty(c) /\ Contract!IsWrite(request[c])
    /\ MayConnect(c)
    /\ Session(c, At(IF request[c].op = "batch" THEN "copy" ELSE "put"))

\* The snapshot of the statement, and the order in which it comes to its rows.
BeginDelete(c) ==
    /\ work[c].pc = "begin" /\ ~Contract!IsWrite(request[c])
    /\ MayConnect(c)
    /\ LET rows == Contract!Matching(request[c], vectors)
       IN  \E order \in Bijection(1..Cardinality(rows), rows) :
              Session(c, [pc |-> "delete", i |-> 1, own |-> <<>>,
                          scan |-> order, found |-> rows, held |-> {}])

\* Upsert: one statement, which is its own transaction.
Put(c) ==
    /\ work[c].pc = "put" /\ IsFree(c, Item(c).id)
    /\ Effect(Contract!Put(vectors, Item(c)))
    /\ Ends(c)

\* Mutant: of two items with one id in a batch the first stays.
FirstItemStays(c) ==
    Session(c, [work[c] EXCEPT !.i = @ + 1,
                   !.own = IF Item(c).id \in DOMAIN @ THEN @ ELSE Contract!Put(@, Item(c))])

\* A row goes into the transaction, over what it has for that id.
WriteItem(c) ==
    Session(c, [work[c] EXCEPT !.i = @ + 1, !.own = Contract!Put(@, Item(c))])

IsDuplicate(c) == Item(c).id \in DOMAIN vectors \cup DOMAIN work[c].own

CopyRow(c) ==
    /\ Writes(c) /\ work[c].pc = "copy"
    /\ IsFree(c, Item(c).id) /\ ~IsDuplicate(c)
    /\ WriteItem(c)

\* The failed COPY is rolled back, the connection returned, another one asked for.
FallBack(c) == Session(c, At("reacquire"))

\* COPY has no ON CONFLICT.
CopyConflicts(c) ==
    /\ Writes(c) /\ work[c].pc = "copy"
    /\ IsFree(c, Item(c).id) /\ IsDuplicate(c)
    /\ FallBack(c)

\* Any other error of COPY.
CopyFails(c) ==
    /\ Writes(c) /\ work[c].pc = "copy"
    /\ FallBack(c)

BeginFallback(c) ==
    /\ work[c].pc = "reacquire"
    /\ MayConnect(c)
    /\ Session(c, At("upsert"))

\* Begin has left nil in tx, and the deferred Rollback of the first transaction
\* calls a method of it.
FallbackPanics(c) ==
    /\ work[c].pc = "reacquire"
    /\ End(c, "panic")
    /\ NoEffect

UpsertRow(c) ==
    /\ Writes(c) /\ work[c].pc = "upsert"
    /\ IsFree(c, Item(c).id)
    /\ WriteItem(c)

Commit(c) ==
    /\ work[c].pc \in {"copy", "upsert"} /\ ~ItemsLeft(c)
    /\ Effect([id \in DOMAIN vectors \cup DOMAIN work[c].own |->
                  IF id \in DOMAIN work[c].own THEN work[c].own[id] ELSE vectors[id]])
    /\ Ends(c)

\* A row that somebody has deleted since the snapshot is passed over; another
\* one is locked, whether or not its newest version still matches.
VisitRow(c) ==
    /\ work[c].pc = "delete" /\ work[c].scan # <<>>
    /\ LET id == Head(work[c].scan)
       IN  /\ id \in work[c].found => IsFree(c, id)
           /\ Session(c, [work[c] EXCEPT !.scan = Tail(@),
                                         !.held = @ \cup ({id} \cap work[c].found)])

\* The rows it has locked whose newest versions match.
Doomed(c) == work[c].held \cap Contract!Matching(request[c], vectors)

DeleteRows(c) ==
    /\ work[c].pc = "delete" /\ work[c].scan = <<>>
    /\ Effect(Restrict(vectors, DOMAIN vectors \ Doomed(c)))
    /\ \E a \in {"ok", "error"} : answer' = [answer EXCEPT ![c] = a]
    /\ work' = [d \in Callers |->
                   IF d = c THEN NoWork
                            ELSE [work[d] EXCEPT !.found = @ \ Doomed(c)]]

\* A statement or the commit fails; the deferred Rollback undoes the rest.
Fails(c) ==
    /\ Connected(c)
    /\ work[c].pc = "copy" => ~ItemsLeft(c)
    /\ End(c, "error")
    /\ NoEffect

\* The database fails a statement of a cycle of waits: a COPY goes on to the
\* fallback, anything else is an error.
Victim(c) == InCycle(c) /\ (CopyFails(c) \/ Fails(c))

-----------------------------------------------------------------------------
Progress(c) ==
    \/ ReturnNil(c) \/ BeginWrite(c) \/ BeginDelete(c) \/ Put(c)
    \/ CopyRow(c) \/ CopyConflicts(c) \/ BeginFallback(c) \/ UpsertRow(c) \/ Commit(c)
    \/ VisitRow(c) \/ DeleteRows(c)
    \/ Victim(c)

Faults(c) == Refuse(c) \/ CopyFails(c) \/ FallbackPanics(c) \/ Fails(c)

Open(s) ==
    /\ Overlap \/ \A c \in Callers : made[c] = 0
    /\ Opening!Step(s)
    /\ UNCHANGED callVars

\* Every goroutine has made its calls.
Finished ==
    /\ \A c \in Callers : ~Pending(c) /\ made[c] = MaxCalls
    /\ UNCHANGED vars

Next ==
    \/ \E c \in Callers : Invoke(c) \/ Progress(c) \/ Faults(c)
    \/ \E s \in Stores : Open(s)
    \/ Finished

Spec == Init /\ [][Next]_vars

\* The goroutine inside a call runs on, and the database looks for cycles of
\* waits after deadlock_timeout.  Nobody has to call, and nothing has to fail.
FairSpec == Spec /\ \A c \in Callers : WF_vars(Progress(c))
-----------------------------------------------------------------------------
TypeOK ==
    /\ Opening!TypeOK
    /\ vectors \in Contract!Tables
    /\ request \in [Callers -> Contract!Requests]
    /\ answer \in [Callers -> {"none", "pending", "ok", "error", "panic"}]
    /\ made \in [Callers -> 0..MaxCalls]
    /\ work \in [Callers -> [pc : {"idle", "begin", "put", "copy", "reacquire", "upsert", "delete"},
                             i : 1..(MaxBatch + 1),
                             own : Contract!Tables,
                             scan : Seq(ChunkIds),
                             found : SUBSET ChunkIds,
                             held : SUBSET ChunkIds]]
    /\ due \in [Callers -> SUBSET ChunkIds]

\* Whatever the database interleaves, and whatever fails on the way, a batch
\* is stored whole or not at all, the last item of an id wins, and a deletion
\* removes what it is due to and nothing that does not match ("inserts or
\* updates many vectors in a single transaction", "removes all vectors
\* belonging to a file").
KeepsContract == Contract!Spec

\* Stores that opened on one table agree with it, and so with each other, on
\* the dimension of an embedding ("refuses to start if it doesn't match").
OneDimension ==
    \A s \in Stores : Opening!IsOpen(s) => db.dim = DimOf[s]

\* Every call returns: no pool runs empty under callers that hold one
\* connection and ask for another, and no cycle of row locks lasts.
CallsReturn == \A c \in Callers : Pending(c) ~> ~Pending(c)
=============================================================================
