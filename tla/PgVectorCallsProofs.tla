------------------------ MODULE PgVectorCallsProofs ------------------------
(***************************************************************************)
(* For any number of goroutines, ids, files and stores, any pool and any   *)
(* length of a batch: types, the dimension of the stores, and that the     *)
(* calls implement VectorContract.                                         *)
(*                                                                         *)
(* The invariant says what a session has done so far (CallInv): an open    *)
(* batch holds exactly the rows of the items before its index, the last    *)
(* one of each id; what a deletion is due to and has not locked is still   *)
(* on its scan.  A row that others take away or overwrite meanwhile is no  *)
(* longer due.                                                             *)
(***************************************************************************)
EXTENDS PgVectorCalls, FiniteSetTheorems, TLAPS

USE StoresAssumption, DimsAssumption, ChunkIdsAssumption, BoundsAssumption

\* Item k is the last one of its id among the first n.
IsLast(items, n, id, k) ==
    items[k].id = id /\ \A j \in 1..n : items[j].id = id => j <= k

WrittenSoFar(w, items) ==
    /\ w.i <= Len(items) + 1
    /\ \A k \in 1..(w.i - 1) : items[k].id \in DOMAIN w.own
    /\ \A id \in DOMAIN w.own :
          \E k \in 1..(w.i - 1) :
             IsLast(items, w.i - 1, id, k) /\ w.own[id] = items[k].file

\* What is left on a scan.
ToVisit(w) == {w.scan[k] : k \in DOMAIN w.scan}

\* w, r, a, d: the work of a call, its request, answer and due; t: vectors.
CallInv(w, r, a, d, t) ==
    /\ (w.pc = "idle") <=> (a # "pending")
    /\ w.pc \in {"idle", "begin", "put", "reacquire"} => w = At(w.pc)
    /\ w.pc = "put" => r.op = "upsert"
    /\ w.pc \in {"copy", "reacquire", "upsert"} => r.op = "batch"
    /\ w.pc \in {"copy", "upsert"} => w.held = {} /\ WrittenSoFar(w, r.items)
    /\ w.pc = "delete" => /\ ~Contract!IsWrite(r)
                          /\ w.own = <<>>
                          /\ d \subseteq w.held \cup (w.found \cap ToVisit(w))
    /\ d \subseteq IF Contract!IsWrite(r) THEN {} ELSE Contract!Matching(r, t)

CallsInv ==
    \A c \in Callers : CallInv(work[c], request[c], answer[c], due[c], vectors)

IInv == TypeOK /\ CallsInv

\* Who is past the table has compared the dimensions, and a table keeps its own.
Compared(o) == o.pc = "open" \/ o.at = 4

OpeningInv ==
    /\ Opening!TypeOK
    /\ \A s \in Stores :
          /\ opening[s].pc = "verify" => opening[s].at = 3 /\ "table" \in db.made
          /\ Compared(opening[s]) => "table" \in db.made /\ db.dim = DimOf[s]

-----------------------------------------------------------------------------
\* What a table is.
LEMMA TableType ==
    ASSUME NEW t
    PROVE  t \in Contract!Tables <=> /\ DOMAIN t \subseteq ChunkIds
                                     /\ t \in [DOMAIN t -> FileIds]
<1>1. ASSUME t \in Contract!Tables
      PROVE  DOMAIN t \subseteq ChunkIds /\ t \in [DOMAIN t -> FileIds]
  <2>1. PICK ids \in SUBSET ChunkIds : t \in [ids -> FileIds]
    BY <1>1 DEF Contract!Tables
  <2>. QED  BY <2>1
<1>2. ASSUME DOMAIN t \subseteq ChunkIds, t \in [DOMAIN t -> FileIds]
      PROVE  t \in Contract!Tables
  BY <1>2 DEF Contract!Tables
<1>. QED  BY <1>1, <1>2

LEMMA EmptyTable == <<>> \in Contract!Tables /\ DOMAIN <<>> = {}
<1>1. <<>> \in Seq(FileIds) /\ Len(<<>>) = 0
  OBVIOUS
<1>2. DOMAIN <<>> = {}
  BY <1>1
<1>3. <<>> \in [{} -> FileIds]
  BY <1>1, <1>2
<1>. QED  BY <1>2, <1>3 DEF Contract!Tables

\* The requests, by their operation.
LEMMA RequestType ==
    ASSUME NEW r \in Contract!Requests
    PROVE  /\ r.op \in {"upsert", "batch", "deleteID", "deleteFile"}
           /\ r.op = "upsert" => r.items \in [1..1 -> Contract!Items]
           /\ r.op = "batch" => /\ r.items \in Seq(Contract!Items)
                                /\ Len(r.items) \in 0..MaxBatch
           /\ r.op = "deleteID" => r.key \in ChunkIds
           /\ r.op = "deleteFile" => r.key \in FileIds
<1>1. CASE r \in Contract!Upserts
  BY <1>1 DEF Contract!Upserts
<1>2. CASE r \in Contract!UpsertBatches
  <2>1. r.op = "batch" /\ r.items \in Contract!Batches
    BY <1>2 DEF Contract!UpsertBatches
  <2>2. PICK n \in 0..MaxBatch : r.items \in [1..n -> Contract!Items]
    BY <2>1 DEF Contract!Batches
  <2>3. r.items \in Seq(Contract!Items) /\ Len(r.items) = n
    BY <2>2
  <2>. QED  BY <2>1, <2>3
<1>3. CASE r \in Contract!DeletesByID
  BY <1>3 DEF Contract!DeletesByID
<1>4. CASE r \in Contract!DeletesByFileID
  BY <1>4 DEF Contract!DeletesByFileID
<1>. QED  BY <1>1, <1>2, <1>3, <1>4 DEF Contract!Requests

LEMMA NoRequestType == Contract!NoRequest \in Contract!Requests
<1>1. <<>> \in [1..0 -> Contract!Items]
  OBVIOUS
<1>2. <<>> \in Contract!Batches
  BY <1>1 DEF Contract!Batches
<1>. QED
  BY <1>2 DEF Contract!NoRequest, Contract!Requests, Contract!UpsertBatches

LEMMA PutType ==
    ASSUME NEW t \in Contract!Tables, NEW item \in Contract!Items
    PROVE  /\ Contract!Put(t, item) \in Contract!Tables
           /\ DOMAIN Contract!Put(t, item) = DOMAIN t \cup {item.id}
           /\ \A id \in DOMAIN t \ {item.id} : Contract!Put(t, item)[id] = t[id]
           /\ Contract!Put(t, item)[item.id] = item.file
<1>1. item.id \in ChunkIds /\ item.file \in FileIds
  BY DEF Contract!Items
<1>2. DOMAIN t \subseteq ChunkIds /\ t \in [DOMAIN t -> FileIds]
  BY TableType
<1>3. Contract!Put(t, item) \in [DOMAIN t \cup {item.id} -> FileIds]
  BY <1>1, <1>2 DEF Contract!Put
<1>. QED  BY <1>1, <1>2, <1>3, TableType DEF Contract!Put

LEMMA MatchingType ==
    ASSUME NEW r, NEW t \in Contract!Tables
    PROVE  Contract!Matching(r, t) \subseteq DOMAIN t
BY DEF Contract!Matching

-----------------------------------------------------------------------------
Works == [pc : {"idle", "begin", "put", "copy", "reacquire", "upsert", "delete"},
          i : 1..(MaxBatch + 1),
          own : Contract!Tables,
          scan : Seq(ChunkIds),
          found : SUBSET ChunkIds,
          held : SUBSET ChunkIds]

\* A session that holds nothing.
LEMMA NoWorkType ==
    ASSUME NEW pc \in {"idle", "begin", "put", "copy", "reacquire", "upsert", "delete"}
    PROVE  /\ At(pc) \in Works
           /\ At(pc).pc = pc
BY EmptyTable DEF At, Works

\* A step of c that changes no table and nobody's due keeps the invariant if
\* the new state of its session fits.
LEMMA SessionStep ==
    ASSUME IInv, NEW c \in Callers, NEW w \in Works,
           NEW a \in {"none", "pending", "ok", "error", "panic"},
           work' = [work EXCEPT ![c] = w],
           answer' = [answer EXCEPT ![c] = a],
           NoEffect,
           CallInv(w, request[c], a, due[c], vectors)
    PROVE  IInv'
<1>1. TypeOK'
  BY DEF IInv, TypeOK, NoEffect, openingVars, Works, Opening!TypeOK
<1>2. CallsInv'
  <2>. SUFFICES ASSUME NEW d \in Callers
               PROVE  CallInv(work'[d], request'[d], answer'[d], due'[d], vectors')
    BY DEF CallsInv
  <2>1. CASE d = c
    BY <2>1 DEF IInv, TypeOK, NoEffect
  <2>2. CASE d # c
    BY <2>2 DEF IInv, TypeOK, NoEffect, CallsInv
  <2>. QED  BY <2>1, <2>2
<1>. QED  BY <1>1, <1>2 DEF IInv

\* To end a call without an effect.
LEMMA EndStep ==
    ASSUME IInv, NEW c \in Callers, NEW a \in {"ok", "error", "panic"},
           End(c, a), NoEffect
    PROVE  IInv'
<1>1. NoWork \in Works /\ NoWork.pc = "idle"
  BY NoWorkType DEF NoWork
<1>2. CallInv(NoWork, request[c], a, due[c], vectors)
  BY <1>1 DEF CallInv, IInv, CallsInv, NoWork
<1>3. work' = [work EXCEPT ![c] = NoWork] /\ answer' = [answer EXCEPT ![c] = a]
  BY DEF End
<1>. QED  BY <1>1, <1>2, <1>3, SessionStep

\* What the invariant says of one caller.
LEMMA CallerType ==
    ASSUME IInv, NEW c \in Callers
    PROVE  /\ work[c] \in Works
           /\ request[c] \in Contract!Requests
           /\ vectors \in Contract!Tables
           /\ answer[c] \in {"none", "pending", "ok", "error", "panic"}
           /\ due[c] \in SUBSET ChunkIds
           /\ CallInv(work[c], request[c], answer[c], due[c], vectors)
BY DEF IInv, TypeOK, CallsInv, Works

\* A session that goes on.
LEMMA SessionKeeps ==
    ASSUME IInv, NEW c \in Callers, NEW w \in Works, Session(c, w),
           CallInv(w, request[c], answer[c], due[c], vectors)
    PROVE  IInv'
<1>1. work' = [work EXCEPT ![c] = w] /\ NoEffect /\ answer' = answer
  BY DEF Session
<1>2. answer' = [answer EXCEPT ![c] = answer[c]]
  BY <1>1 DEF IInv, TypeOK
<1>3. answer[c] \in {"none", "pending", "ok", "error", "panic"}
  BY CallerType
<1>. QED  BY <1>1, <1>2, <1>3, SessionStep

\* A batch begins, or begins again, with no row written.
LEMMA BatchBegins ==
    ASSUME IInv, NEW c \in Callers, work[c].pc \in {"begin", "reacquire", "copy"},
           request[c].op = "batch", NEW pc \in {"copy", "reacquire", "upsert"},
           Session(c, At(pc))
    PROVE  IInv'
<1>1. At(pc) \in Works /\ At(pc).pc = pc
  BY NoWorkType
<1>2. /\ At(pc).i = 1 /\ At(pc).own = <<>> /\ At(pc).held = {}
      /\ DOMAIN At(pc).own = {}
  BY EmptyTable DEF At
<1>3. CallInv(work[c], request[c], answer[c], due[c], vectors)
  BY CallerType
<1>4. Len(request[c].items) \in Nat
  BY CallerType, RequestType
<1>5. WrittenSoFar(At(pc), request[c].items)
  BY <1>2, <1>4 DEF WrittenSoFar
<1>6. CallInv(At(pc), request[c], answer[c], due[c], vectors)
  BY <1>1, <1>2, <1>3, <1>5 DEF CallInv
<1>. QED  BY <1>1, <1>6, SessionKeeps

LEMMA BeginWriteStep ==
    ASSUME IInv, NEW c \in Callers, BeginWrite(c)
    PROVE  IInv'
<1>1. CASE request[c].op = "batch"
  BY <1>1, BatchBegins DEF BeginWrite
<1>2. CASE request[c].op # "batch"
  <2>1. Session(c, At("put")) /\ work[c].pc = "begin" /\ request[c].op = "upsert"
    BY <1>2 DEF BeginWrite, Contract!IsWrite
  <2>2. At("put") \in Works /\ At("put").pc = "put"
    BY NoWorkType
  <2>3. CallInv(At("put"), request[c], answer[c], due[c], vectors)
    BY <2>1, <2>2, CallerType DEF CallInv
  <2>. QED  BY <2>1, <2>2, <2>3, SessionKeeps
<1>. QED  BY <1>1, <1>2

LEMMA BeginDeleteStep ==
    ASSUME IInv, NEW c \in Callers, BeginDelete(c)
    PROVE  IInv'
<1> DEFINE rows == Contract!Matching(request[c], vectors)
<1>1. PICK order \in Bijection(1..Cardinality(rows), rows) :
         Session(c, [pc |-> "delete", i |-> 1, own |-> <<>>,
                     scan |-> order, found |-> rows, held |-> {}])
  BY DEF BeginDelete
<1> DEFINE w == [pc |-> "delete", i |-> 1, own |-> <<>>,
                 scan |-> order, found |-> rows, held |-> {}]
<1>2. rows \subseteq ChunkIds
  BY CallerType, MatchingType, TableType
<1>3. Cardinality(rows) \in Nat
  BY <1>2, FS_Subset, FS_CardinalityType
<1>4. /\ order \in [1..Cardinality(rows) -> rows]
      /\ \A id \in rows : \E k \in 1..Cardinality(rows) : order[k] = id
  BY DEF Bijection, Injection, Surjection
<1>5. order \in Seq(ChunkIds) /\ DOMAIN order = 1..Cardinality(rows)
  BY <1>2, <1>3, <1>4
<1>6. w \in Works
  BY <1>2, <1>5, EmptyTable DEF Works
<1>7. rows \subseteq ToVisit(w)
  BY <1>4, <1>5 DEF ToVisit
<1>8. CallInv(w, request[c], answer[c], due[c], vectors)
  BY <1>7, CallerType DEF CallInv, BeginDelete
<1>. QED  BY <1>1, <1>6, <1>8, SessionKeeps

-----------------------------------------------------------------------------
\* What a batch has written after one more item, of id i and file f.
LEMMA WrittenMore ==
    ASSUME NEW w \in Works, NEW items \in Seq(Contract!Items), NEW i, NEW f,
           WrittenSoFar(w, items), w.i <= Len(items),
           items[w.i].id = i, items[w.i].file = f,
           NEW v \in Works, v.i = w.i + 1,
           DOMAIN v.own = DOMAIN w.own \cup {i},
           \A id \in DOMAIN w.own \ {i} : v.own[id] = w.own[id],
           v.own[i] = f
    PROVE  WrittenSoFar(v, items)
<1>1. w.i \in Nat /\ w.i >= 1 /\ Len(items) \in Nat /\ v.i - 1 = w.i
  BY DEF Works
<1>2. \A k \in 1..(v.i - 1) : items[k].id \in DOMAIN v.own
  BY <1>1 DEF WrittenSoFar
<1>3. ASSUME NEW id \in DOMAIN v.own
      PROVE  \E k \in 1..(v.i - 1) :
                IsLast(items, v.i - 1, id, k) /\ v.own[id] = items[k].file
  <2>1. CASE id = i
    <3>1. IsLast(items, w.i, id, w.i) /\ v.own[id] = items[w.i].file
      BY <1>1, <2>1 DEF IsLast
    <3>. QED  BY <1>1, <3>1
  <2>2. CASE id # i
    <3>1. PICK k \in 1..(w.i - 1) :
             IsLast(items, w.i - 1, id, k) /\ w.own[id] = items[k].file
      BY <2>2 DEF WrittenSoFar
    <3>2. IsLast(items, w.i, id, k) /\ v.own[id] = items[k].file
      BY <1>1, <2>2, <3>1 DEF IsLast
    <3>. QED  BY <1>1, <3>1, <3>2
  <2>. QED  BY <2>1, <2>2
<1>4. v.i <= Len(items) + 1
  BY <1>1
<1>. QED  BY <1>2, <1>3, <1>4 DEF WrittenSoFar

LEMMA WriteItemStep ==
    ASSUME IInv, NEW c \in Callers, Writes(c), WriteItem(c)
    PROVE  IInv'
<1>1. work[c] \in Works /\ CallInv(work[c], request[c], answer[c], due[c], vectors)
  BY CallerType
<1>w. PICK w \in Works : w = work[c]
  BY <1>1
<1>2. PICK items : w = work[c] /\ items = request[c].items
  BY <1>w
<1>3. /\ w.pc \in {"copy", "upsert"} /\ w.i <= Len(items) /\ request[c].op = "batch"
      /\ w.held = {} /\ WrittenSoFar(w, items)
  BY <1>1, <1>2 DEF Writes, ItemsLeft, CallInv
<1>4. items \in Seq(Contract!Items) /\ Len(items) \in 0..MaxBatch
  BY <1>2, <1>3, CallerType, RequestType
<1>5. w.i \in Nat \ {0} /\ w.i + 1 \in 1..(MaxBatch + 1) /\ w.own \in Contract!Tables
  BY <1>2, <1>3, <1>4 DEF Works
<1>6. /\ Item(c) \in Contract!Items
      /\ items[w.i].id = Item(c).id /\ items[w.i].file = Item(c).file
  BY <1>2, <1>3, <1>4, <1>5 DEF Item
<1>7. PICK own \in Contract!Tables :
         /\ own = Contract!Put(w.own, Item(c))
         /\ DOMAIN own = DOMAIN w.own \cup {Item(c).id}
         /\ \A id \in DOMAIN w.own \ {Item(c).id} : own[id] = w.own[id]
         /\ own[Item(c).id] = Item(c).file
  BY <1>5, <1>6, PutType
<1>i. PICK i \in 1..(MaxBatch + 1) : i = w.i + 1
  BY <1>5
<1>8. PICK v : i = w.i + 1 /\ v = [w EXCEPT !.i = i, !.own = own]
  BY <1>i, Zenon
<1>9. /\ v \in Works /\ v.i = i /\ v.own = own
      /\ v.pc = w.pc /\ v.held = w.held
  <2>1. w \in Works /\ v = [w EXCEPT !.i = i, !.own = own]
    BY <1>8
  <2>2. v \in Works
    BY <2>1 DEF Works
  <2>. QED  BY <2>1, <2>2 DEF Works
<1>10. WrittenSoFar(v, items)
  <2>1. PICK id, f : id = Item(c).id /\ f = Item(c).file
    OBVIOUS
  <2>2. /\ WrittenSoFar(w, items) /\ w.i <= Len(items)
        /\ items[w.i].id = id /\ items[w.i].file = f
    BY <1>3, <1>6, <2>1
  <2>3. /\ v \in Works /\ v.i = w.i + 1
        /\ DOMAIN v.own = DOMAIN w.own \cup {id}
        /\ \A x \in DOMAIN w.own \ {id} : v.own[x] = w.own[x]
        /\ v.own[id] = f
    BY <1>7, <1>8, <1>9, <2>1
  <2>. QED  BY <1>4, <2>2, <2>3, WrittenMore
<1>11. CallInv(v, request[c], answer[c], due[c], vectors)
  BY <1>1, <1>2, <1>3, <1>9, <1>10 DEF CallInv
<1>12. work' = [work EXCEPT ![c] = v]
  BY <1>2, <1>7, <1>8, Zenon DEF WriteItem, Session
<1>13. answer' = [answer EXCEPT ![c] = answer[c]]
  BY DEF WriteItem, Session, IInv, TypeOK
<1>14. NoEffect /\ answer[c] \in {"none", "pending", "ok", "error", "panic"}
  BY CallerType DEF WriteItem, Session
<1>. QED  BY <1>9, <1>11, <1>12, <1>13, <1>14, SessionStep

LEMMA VisitRowStep ==
    ASSUME IInv, NEW c \in Callers, VisitRow(c)
    PROVE  IInv'
<1>1. work[c] \in Works /\ CallInv(work[c], request[c], answer[c], due[c], vectors)
  BY CallerType
<1>w. PICK w \in Works : w = work[c]
  BY <1>1
<1>2. PICK id, held :
         /\ w = work[c] /\ id = Head(w.scan)
         /\ held = w.held \cup ({id} \cap w.found)
  BY <1>w
<1>3. w.pc = "delete" /\ w.scan # <<>>
  BY <1>2 DEF VisitRow
<1>4. w.scan \in Seq(ChunkIds) /\ Tail(w.scan) \in Seq(ChunkIds) /\ id \in ChunkIds
  BY <1>2, <1>3 DEF Works
<1>5. /\ ~Contract!IsWrite(request[c])
      /\ w.own = <<>> /\ due[c] \subseteq w.held \cup (w.found \cap ToVisit(w))
  BY <1>1, <1>2, <1>3 DEF CallInv
<1>6. w.held \subseteq held /\ held \subseteq w.held \cup {id}
  BY <1>2
<1>7. held \in SUBSET ChunkIds
  BY <1>4, <1>6 DEF Works
<1>s. PICK scan \in Seq(ChunkIds) : scan = Tail(w.scan)
  BY <1>4, Zenon
<1>8. PICK v : scan = Tail(w.scan) /\ v = [w EXCEPT !.scan = scan, !.held = held]
  BY <1>s, Zenon
<1>9. /\ v \in Works
      /\ v.scan = scan /\ v.held = held
      /\ v.pc = w.pc /\ v.own = w.own /\ v.found = w.found
  <2>1. w \in Works /\ held \in SUBSET ChunkIds /\ v = [w EXCEPT !.scan = scan, !.held = held]
    BY <1>7, <1>8
  <2>2. v \in Works
    BY <2>1 DEF Works
  <2>. QED  BY <2>1, <2>2 DEF Works
<1>10. ToVisit(w) \subseteq {id} \cup ToVisit(v)
  <2>. SUFFICES ASSUME NEW k \in DOMAIN w.scan, k # 1
               PROVE  w.scan[k] \in ToVisit(v)
    BY <1>2, <1>4 DEF ToVisit
  <2>1. k - 1 \in DOMAIN Tail(w.scan) /\ Tail(w.scan)[k - 1] = w.scan[k]
    BY <1>3, <1>4
  <2>. QED  BY <1>8, <1>9, <2>1 DEF ToVisit
<1>11. due[c] \subseteq held \cup (v.found \cap ToVisit(v))
  BY <1>2, <1>5, <1>6, <1>9, <1>10
<1>12. CallInv(v, request[c], answer[c], due[c], vectors)
  BY <1>1, <1>2, <1>3, <1>5, <1>6, <1>9, <1>11 DEF CallInv
<1>13. work' = [work EXCEPT ![c] = v]
  BY <1>2, <1>8, Zenon DEF VisitRow, Session
<1>14. answer' = [answer EXCEPT ![c] = answer[c]]
  BY DEF VisitRow, Session, IInv, TypeOK
<1>15. NoEffect /\ answer[c] \in {"none", "pending", "ok", "error", "panic"}
  BY CallerType DEF VisitRow, Session
<1>. QED  BY <1>9, <1>12, <1>13, <1>14, <1>15, SessionStep

-----------------------------------------------------------------------------
\* WrittenSoFar looks at the index and the rows of a session, no further.
LEMMA SameWritten ==
    ASSUME NEW w, NEW v, NEW items, v.i = w.i, v.own = w.own,
           WrittenSoFar(w, items)
    PROVE  WrittenSoFar(v, items)
<1>1. v.i <= Len(items) + 1
  BY DEF WrittenSoFar
<1>2. \A k \in 1..(v.i - 1) : items[k].id \in DOMAIN v.own
  BY DEF WrittenSoFar
<1>3. ASSUME NEW id \in DOMAIN v.own
      PROVE  \E k \in 1..(v.i - 1) :
                IsLast(items, v.i - 1, id, k) /\ v.own[id] = items[k].file
  BY <1>3 DEF WrittenSoFar
<1>. QED  BY <1>1, <1>2, <1>3 DEF WrittenSoFar

\* Who has locked rows keeps them locked, and is not due to the rows that have
\* gone.
LEMMA OthersKeep ==
    ASSUME IInv, NEW d \in Callers, NEW t \in Contract!Tables, NEW gone,
           gone \cap DOMAIN t = {},
           NEW v, v = [work[d] EXCEPT !.found = @ \ gone]
    PROVE  /\ v \in Works
           /\ CallInv(v, request[d], answer[d], Contract!StillDue(t)[d], t)
<1>1. PICK w \in Works : w = work[d]
  BY CallerType
<1>2. CallInv(w, request[d], answer[d], due[d], vectors)
  BY <1>1, CallerType
<1>3. /\ v \in Works
      /\ v.found = w.found \ gone
      /\ v.pc = w.pc /\ v.i = w.i /\ v.own = w.own /\ v.scan = w.scan /\ v.held = w.held
      /\ w.found = {} => v = w
  <2>1. w \in Works /\ v = [w EXCEPT !.found = @ \ gone]
    BY <1>1
  <2>2. v \in Works
    BY <2>1 DEF Works
  <2>3. /\ v.found = w.found \ gone
        /\ v.pc = w.pc /\ v.i = w.i /\ v.own = w.own /\ v.scan = w.scan /\ v.held = w.held
    BY <2>1, <2>2 DEF Works
  <2>4. ASSUME w.found = {}
        PROVE  v = w
    BY <2>2, <2>3, <2>4 DEF Works
  <2>. QED  BY <2>2, <2>3, <2>4
<1>4. PICK r, e, rows : /\ r = request[d] /\ e = Contract!StillDue(t)[d]
                        /\ rows = Contract!Matching(r, t)
  OBVIOUS
<1>6. e = IF Contract!IsWrite(r) THEN {} ELSE due[d] \cap rows
  BY <1>4 DEF Contract!StillDue
<1>7. v.pc \in {"idle", "begin", "put", "reacquire"} => v = At(v.pc)
  <2>1. ASSUME w.pc \in {"idle", "begin", "put", "reacquire"}
        PROVE  v = w /\ w = At(w.pc)
    BY <1>2, <1>3, <2>1 DEF CallInv, At
  <2>. QED  BY <1>3, <2>1
<1>8. v.pc \in {"copy", "upsert"} => v.held = {} /\ WrittenSoFar(v, r.items)
  <2>1. WrittenSoFar(w, r.items) => WrittenSoFar(v, r.items)
    BY <1>3, SameWritten
  <2>2. w.pc \in {"copy", "upsert"} => w.held = {} /\ WrittenSoFar(w, r.items)
    BY <1>2, <1>4, Zenon DEF CallInv
  <2>. QED  BY <1>3, <2>1, <2>2
<1>9. ASSUME v.pc = "delete"
      PROVE  /\ ~Contract!IsWrite(r)
             /\ v.own = <<>>
             /\ e \subseteq v.held \cup (v.found \cap ToVisit(v))
  <2>1. /\ ~Contract!IsWrite(r) /\ w.own = <<>>
        /\ due[d] \subseteq w.held \cup (w.found \cap ToVisit(w))
    BY <1>2, <1>3, <1>4, <1>9 DEF CallInv
  <2>2. rows \cap gone = {}
    BY <1>4, MatchingType
  <2>3. ToVisit(v) = ToVisit(w)
    BY <1>3 DEF ToVisit
  <2>. QED  BY <1>3, <1>6, <2>1, <2>2, <2>3
<1>10. CallInv(v, r, answer[d], e, t)
  BY <1>2, <1>3, <1>4, <1>6, <1>7, <1>8, <1>9 DEF CallInv
<1>. QED  BY <1>1, <1>3, <1>4, <1>10

\* The three effects on the table: c ends its call, and the others go on.
LEMMA EffectStep ==
    ASSUME IInv, NEW c \in Callers, NEW a \in {"ok", "error"}, NEW t \in Contract!Tables,
           NEW gone, gone \cap DOMAIN t = {},
           Effect(t),
           answer' = [answer EXCEPT ![c] = a],
           work' = [d \in Callers |-> IF d = c THEN NoWork
                                               ELSE [work[d] EXCEPT !.found = @ \ gone]]
    PROVE  IInv'
<1>1. /\ NoWork \in Works /\ NoWork.pc = "idle"
      /\ NoWork = At("idle")
  BY NoWorkType DEF NoWork
<1>2. \A d \in Callers :
         /\ work'[d] \in Works
         /\ CallInv(work'[d], request[d], answer'[d], Contract!StillDue(t)[d], t)
  <2>. SUFFICES ASSUME NEW d \in Callers
               PROVE  /\ work'[d] \in Works
                      /\ CallInv(work'[d], request[d], answer'[d], Contract!StillDue(t)[d], t)
    OBVIOUS
  <2>1. CASE d = c
    <3>1. work'[d] = NoWork /\ answer'[d] = a
      BY <2>1 DEF IInv, TypeOK
    <3>2. Contract!StillDue(t)[d] \subseteq
             IF Contract!IsWrite(request[d]) THEN {} ELSE Contract!Matching(request[d], t)
      BY DEF Contract!StillDue
    <3>3. CallInv(NoWork, request[d], a, Contract!StillDue(t)[d], t)
      BY <1>1, <3>2 DEF CallInv
    <3>. QED  BY <1>1, <3>1, <3>3
  <2>2. CASE d # c
    <3>1. PICK v : v = [work[d] EXCEPT !.found = @ \ gone]
      OBVIOUS
    <3>2. work'[d] = v /\ answer'[d] = answer[d]
      BY <2>2, <3>1 DEF IInv, TypeOK
    <3>3. /\ v \in Works
          /\ CallInv(v, request[d], answer[d], Contract!StillDue(t)[d], t)
      BY <2>2, <3>1, OthersKeep
    <3>. QED  BY <3>2, <3>3
  <2>. QED  BY <2>1, <2>2
<1>3. /\ vectors' = t /\ due' = Contract!StillDue(t)
      /\ request' = request /\ made' = made /\ db' = db /\ opening' = opening
  BY DEF Effect, openingVars
<1>4. TypeOK'
  <2>1. work' \in [Callers -> Works]
    BY <1>2
  <2>2. Contract!StillDue(t) \in [Callers -> SUBSET ChunkIds]
    BY DEF Contract!StillDue, IInv, TypeOK
  <2>3. answer' \in [Callers -> {"none", "pending", "ok", "error", "panic"}]
    BY DEF IInv, TypeOK
  <2>. QED  BY <1>3, <2>1, <2>2, <2>3 DEF IInv, TypeOK, Works, Opening!TypeOK
<1>5. CallsInv'
  BY <1>2, <1>3 DEF CallsInv
<1>. QED  BY <1>4, <1>5 DEF IInv

-----------------------------------------------------------------------------
\* When all items are written, they are what the contract wants written.
LEMMA AllWritten ==
    ASSUME NEW own, NEW items \in Seq(Contract!Items), NEW t \in Contract!Tables,
           own \in Contract!Tables,
           \A k \in 1..Len(items) : items[k].id \in DOMAIN own,
           \A id \in DOMAIN own :
              \E k \in 1..Len(items) :
                 IsLast(items, Len(items), id, k) /\ own[id] = items[k].file
    PROVE  /\ [id \in DOMAIN t \cup DOMAIN own |->
                 IF id \in DOMAIN own THEN own[id] ELSE t[id]] = Contract!Written(t, items)
           /\ Contract!Written(t, items) \in Contract!Tables
<1>1. Len(items) \in Nat /\ DOMAIN items = 1..Len(items)
  OBVIOUS
<1>2. Contract!Ids(items) = DOMAIN own
  <2>1. \A id \in DOMAIN own : \E k \in DOMAIN items : id = items[k].id
    BY <1>1 DEF IsLast
  <2>2. \A k \in DOMAIN items : items[k].id \in DOMAIN own
    BY <1>1
  <2>3. Contract!Ids(items) \subseteq DOMAIN own
    BY <2>2, Zenon DEF Contract!Ids
  <2>4. DOMAIN own \subseteq Contract!Ids(items)
    BY <2>1, Zenon DEF Contract!Ids
  <2>. QED  BY <2>3, <2>4
<1>3. ASSUME NEW id \in DOMAIN own
      PROVE  items[Contract!LastOf(items, id)].file = own[id]
  <2>1. PICK k \in 1..Len(items) :
           IsLast(items, Len(items), id, k) /\ own[id] = items[k].file
    OBVIOUS
  <2>2. /\ k \in DOMAIN items /\ items[k].id = id
        /\ \A j \in DOMAIN items : items[j].id = id => j <= k
    BY <1>1, <2>1 DEF IsLast
  <2>3. \A l \in DOMAIN items :
           /\ items[l].id = id
           /\ \A j \in DOMAIN items : items[j].id = id => j <= l
           => l = k
    BY <1>1, <2>2
  <2>4. Contract!LastOf(items, id) = k
    BY <2>2, <2>3 DEF Contract!LastOf
  <2>. QED  BY <2>1, <2>4
<1>4. [id \in DOMAIN t \cup DOMAIN own |->
          IF id \in DOMAIN own THEN own[id] ELSE t[id]] = Contract!Written(t, items)
  <2>1. \A id \in DOMAIN t \cup DOMAIN own :
           (IF id \in DOMAIN own THEN own[id] ELSE t[id])
              = IF id \in Contract!Ids(items)
                THEN items[Contract!LastOf(items, id)].file ELSE t[id]
    BY <1>2, <1>3
  <2>. QED  BY <1>2, <2>1, Zenon DEF Contract!Written
<1>5. [id \in DOMAIN t \cup DOMAIN own |->
          IF id \in DOMAIN own THEN own[id] ELSE t[id]] \in Contract!Tables
  <2> DEFINE u == [id \in DOMAIN t \cup DOMAIN own |->
                      IF id \in DOMAIN own THEN own[id] ELSE t[id]]
  <2>1. /\ DOMAIN t \subseteq ChunkIds /\ t \in [DOMAIN t -> FileIds]
        /\ DOMAIN own \subseteq ChunkIds /\ own \in [DOMAIN own -> FileIds]
    BY TableType
  <2>2. DOMAIN u \subseteq ChunkIds /\ u \in [DOMAIN u -> FileIds]
    BY <2>1
  <2>. QED  BY <2>2, TableType
<1>. QED  BY <1>4, <1>5

\* Of a single item, too.
LEMMA OneWritten ==
    ASSUME NEW items \in [1..1 -> Contract!Items], NEW t \in Contract!Tables
    PROVE  Contract!Put(t, items[1]) = Contract!Written(t, items)
<1>1. DOMAIN items = {1} /\ Contract!Ids(items) = {items[1].id}
  BY DEF Contract!Ids
<1>2. Contract!LastOf(items, items[1].id) = 1
  BY <1>1 DEF Contract!LastOf
<1>. QED  BY <1>1, <1>2 DEF Contract!Put, Contract!Written

LEMMA AnswersStep ==
    ASSUME IInv, NEW c \in Callers, NEW a, answer' = [answer EXCEPT ![c] = a]
    PROVE  Answers' = [Answers EXCEPT ![c] = IF a = "panic" THEN "error" ELSE a]
BY DEF IInv, TypeOK, Answers

LEMMA PendingStep ==
    ASSUME IInv, NEW c \in Callers, work[c].pc # "idle"
    PROVE  answer[c] = "pending" /\ Answers[c] = "pending"
<1>1. CallInv(work[c], request[c], answer[c], due[c], vectors)
  BY CallerType
<1>. QED  BY <1>1 DEF CallInv, Answers

-----------------------------------------------------------------------------
\* Each action keeps the invariant, and is a step of the contract or none.
\* Where a call ends without an effect, it is a refusal.
LEMMA RefusalStep ==
    ASSUME IInv, NEW c \in Callers, work[c].pc # "idle", NEW a \in {"error", "panic"},
           End(c, a), NoEffect
    PROVE  IInv' /\ Contract!Refuse(c)
<1>1. IInv'
  BY EndStep
<1>2. Answers' = [Answers EXCEPT ![c] = "error"]
  BY AnswersStep DEF End
<1>. QED
  BY <1>1, <1>2, PendingStep DEF Contract!Refuse, NoEffect

LEMMA InvokeStep ==
    ASSUME IInv, NEW c \in Callers, Invoke(c)
    PROVE  IInv' /\ Contract!Call(c)
<1>1. PICK r \in Contract!Requests :
         /\ request' = [request EXCEPT ![c] = r]
         /\ due' = [due EXCEPT ![c] = IF Contract!IsWrite(r) THEN {}
                                      ELSE Contract!Matching(r, vectors)]
  BY DEF Invoke
<1>2. /\ answer[c] # "pending" /\ made[c] < MaxCalls
      /\ made' = [made EXCEPT ![c] = @ + 1]
      /\ answer' = [answer EXCEPT ![c] = "pending"]
      /\ work' = [work EXCEPT ![c].pc = "begin"]
      /\ vectors' = vectors /\ db' = db /\ opening' = opening
  BY DEF Invoke, Pending, openingVars
<1>3. work[c] = At("idle")
  BY <1>2, CallerType DEF CallInv
<1>4. At("begin") \in Works /\ At("begin").pc = "begin"
  BY NoWorkType
<1>5. work' = [work EXCEPT ![c] = At("begin")]
  <2>1. [work[c] EXCEPT !.pc = "begin"] = At("begin")
    <3>w. PICK w \in Works : w = work[c]
      BY CallerType
    <3>1. PICK v : w = work[c] /\ v = [w EXCEPT !.pc = "begin"]
      BY <3>w
    <3>2. v \in Works
      BY <3>1 DEF Works
    <3>3. /\ v.pc = "begin" /\ v.i = w.i /\ v.own = w.own /\ v.scan = w.scan
          /\ v.found = w.found /\ v.held = w.held
      BY <3>1, <3>2 DEF Works
    <3>4. w = At("idle")
      BY <1>3, <3>1
    <3>5. v = At("begin")
      BY <3>2, <3>3, <3>4 DEF At, Works
    <3>. QED  BY <3>1, <3>5, Zenon
  <2>. QED  BY <1>2, <2>1, Zenon
<1> DEFINE rows == IF Contract!IsWrite(r) THEN {} ELSE Contract!Matching(r, vectors)
<1>6. rows \subseteq ChunkIds
  BY CallerType, MatchingType, TableType
<1>7. TypeOK'
  <2>1. request' \in [Callers -> Contract!Requests] /\ due' \in [Callers -> SUBSET ChunkIds]
    BY <1>1, <1>6 DEF IInv, TypeOK
  <2>2. made' \in [Callers -> 0..MaxCalls]
    BY <1>2 DEF IInv, TypeOK
  <2>3. work' \in [Callers -> Works]
    BY <1>4, <1>5 DEF IInv, TypeOK, Works
  <2>4. answer' \in [Callers -> {"none", "pending", "ok", "error", "panic"}]
    BY <1>2 DEF IInv, TypeOK
  <2>. QED  BY <1>2, <2>1, <2>2, <2>3, <2>4 DEF IInv, TypeOK, Works, Opening!TypeOK
<1>8. CallsInv'
  <2>. SUFFICES ASSUME NEW d \in Callers
               PROVE  CallInv(work'[d], request'[d], answer'[d], due'[d], vectors')
    BY DEF CallsInv
  <2>1. CASE d = c
    <3>1. work'[d] = At("begin") /\ request'[d] = r /\ answer'[d] = "pending" /\ due'[d] = rows
      BY <1>1, <1>2, <1>5, <2>1 DEF IInv, TypeOK
    <3>2. CallInv(At("begin"), r, "pending", rows, vectors)
      BY <1>4 DEF CallInv
    <3>. QED  BY <1>2, <3>1, <3>2
  <2>2. CASE d # c
    BY <1>1, <1>2, <1>5, <2>2 DEF IInv, TypeOK, CallsInv
  <2>. QED  BY <2>1, <2>2
<1>9. Answers' = [Answers EXCEPT ![c] = "pending"]
  BY <1>2, AnswersStep
<1>10. Answers[c] # "pending"
  BY <1>2 DEF Answers
<1>11. Contract!Call(c)
  BY <1>1, <1>2, <1>9, <1>10 DEF Contract!Call
<1>. QED  BY <1>7, <1>8, <1>11 DEF IInv

\* A call that ends without removing a row leaves the other sessions alone.
LEMMA NobodyForgets ==
    ASSUME IInv, NEW c \in Callers, work' = [work EXCEPT ![c] = NoWork]
    PROVE  work' = [d \in Callers |-> IF d = c THEN NoWork
                                                ELSE [work[d] EXCEPT !.found = @ \ {}]]
<1>1. ASSUME NEW d \in Callers
      PROVE  [work[d] EXCEPT !.found = @ \ {}] = work[d]
  <2>w. PICK w \in Works : w = work[d]
    BY CallerType
  <2>1. PICK v : w = work[d] /\ v = [w EXCEPT !.found = @ \ {}]
    BY <2>w
  <2>2. v \in Works
    BY <2>1 DEF Works
  <2>3. /\ v.found = w.found /\ v.pc = w.pc /\ v.i = w.i /\ v.own = w.own
        /\ v.scan = w.scan /\ v.held = w.held
    BY <2>1, <2>2 DEF Works
  <2>4. v = w
    BY <2>1, <2>2, <2>3 DEF Works
  <2>. QED  BY <2>1, <2>4, Zenon
<1>2. work' = [d \in Callers |-> IF d = c THEN NoWork ELSE work[d]]
  BY DEF IInv, TypeOK
<1>. QED  BY <1>1, <1>2, Zenon

LEMMA PutStep ==
    ASSUME IInv, NEW c \in Callers, Put(c)
    PROVE  IInv' /\ Contract!Write(c)
<1>1. PICK a \in {"ok", "error"} : End(c, a)
  BY DEF Put, Ends
<1>2. /\ work[c].pc = "put" /\ IsFree(c, Item(c).id)
      /\ Effect(Contract!Put(vectors, Item(c)))
  BY DEF Put
<1>3. request[c].op = "upsert" /\ work[c] = At("put")
  BY <1>2, CallerType DEF CallInv
<1>4. request[c].items \in [1..1 -> Contract!Items]
  BY <1>3, CallerType, RequestType
<1>5. Item(c) \in Contract!Items /\ Item(c) = request[c].items[1]
  BY <1>3, <1>4 DEF Item, At
<1>6. vectors \in Contract!Tables
  BY CallerType
<1>7. PICK t \in Contract!Tables :
         /\ t = Contract!Put(vectors, Item(c))
         /\ DOMAIN t = DOMAIN vectors \cup {Item(c).id}
         /\ \A x \in DOMAIN vectors \ {Item(c).id} : t[x] = vectors[x]
  <2>1. Item(c) \in Contract!Items
    BY <1>5
  <2>. QED  BY <1>6, <2>1, PutType
<1>9. /\ work' = [d \in Callers |-> IF d = c THEN NoWork
                                             ELSE [work[d] EXCEPT !.found = @ \ {}]]
      /\ answer' = [answer EXCEPT ![c] = a]
      /\ Effect(t)
  BY <1>1, <1>2, <1>7, NobodyForgets, Zenon DEF End
<1>10. IInv'
  BY <1>9, EffectStep
<1>11. Answers[c] = "pending" /\ Answers' = [Answers EXCEPT ![c] = a]
  BY <1>2, <1>9, AnswersStep, PendingStep
<1>12. /\ vectors' = Contract!Written(vectors, request[c].items)
       /\ due' = Contract!StillDue(vectors') /\ request' = request
  BY <1>2, <1>4, <1>5, <1>6, OneWritten DEF Effect
<1>. QED
  BY <1>3, <1>10, <1>11, <1>12 DEF Contract!Write, Contract!Answer, Contract!IsWrite

LEMMA CommitStep ==
    ASSUME IInv, NEW c \in Callers, Commit(c)
    PROVE  IInv' /\ Contract!Write(c)
<1>1. PICK a \in {"ok", "error"} : End(c, a)
  BY DEF Commit, Ends
<1>2. work[c].pc \in {"copy", "upsert"} /\ ~ItemsLeft(c)
  BY DEF Commit
<1>w. PICK w \in Works : w = work[c]
  BY CallerType
<1>3. PICK items : w = work[c] /\ items = request[c].items
  BY <1>w
<1>4. /\ request[c].op = "batch" /\ WrittenSoFar(w, items)
      /\ ~(w.i <= Len(items)) /\ w.own \in Contract!Tables /\ w.i \in Nat
  BY <1>2, <1>3, CallerType DEF CallInv, ItemsLeft, Works
<1>5. items \in Seq(Contract!Items) /\ Len(items) \in Nat
  BY <1>3, <1>4, CallerType, RequestType
<1>6. w.i - 1 = Len(items)
  BY <1>4, <1>5 DEF WrittenSoFar
<1>7. /\ \A k \in 1..Len(items) : items[k].id \in DOMAIN w.own
      /\ \A id \in DOMAIN w.own :
            \E k \in 1..Len(items) :
               IsLast(items, Len(items), id, k) /\ w.own[id] = items[k].file
  BY <1>4, <1>6 DEF WrittenSoFar
<1>8. vectors \in Contract!Tables
  BY CallerType
<1> DEFINE u == [id \in DOMAIN vectors \cup DOMAIN w.own |->
                    IF id \in DOMAIN w.own THEN w.own[id] ELSE vectors[id]]
<1>9. PICK t \in Contract!Tables : t = u /\ t = Contract!Written(vectors, items)
  <2>1. w.own \in Contract!Tables
    BY <1>4
  <2>2. u = Contract!Written(vectors, items)
    BY <1>5, <1>7, <1>8, <2>1, AllWritten
  <2>3. Contract!Written(vectors, items) \in Contract!Tables
    BY <1>5, <1>7, <1>8, <2>1, AllWritten
  <2>. QED  BY <2>2, <2>3
<1>11. Effect(t)
  BY <1>3, <1>9, Zenon DEF Commit
<1>12. /\ work' = [d \in Callers |-> IF d = c THEN NoWork
                                              ELSE [work[d] EXCEPT !.found = @ \ {}]]
       /\ answer' = [answer EXCEPT ![c] = a]
  BY <1>1, NobodyForgets DEF End
<1>13. IInv'
  BY <1>11, <1>12, EffectStep
<1>14. Answers[c] = "pending" /\ Answers' = [Answers EXCEPT ![c] = a]
  BY <1>2, <1>12, AnswersStep, PendingStep
<1>15. /\ vectors' = Contract!Written(vectors, request[c].items)
       /\ due' = Contract!StillDue(vectors') /\ request' = request
  BY <1>3, <1>9, <1>11 DEF Effect
<1>. QED
  BY <1>4, <1>13, <1>14, <1>15 DEF Contract!Write, Contract!Answer, Contract!IsWrite

LEMMA DeleteRowsStep ==
    ASSUME IInv, NEW c \in Callers, DeleteRows(c)
    PROVE  IInv' /\ Contract!Delete(c)
<1>1. PICK a \in {"ok", "error"} : answer' = [answer EXCEPT ![c] = a]
  BY DEF DeleteRows
<1>2. PICK w \in Works : w = work[c]
  BY CallerType
<1>d. PICK doomed : doomed = Doomed(c)
  OBVIOUS
<1>3. /\ w.pc = "delete" /\ w.scan = <<>>
      /\ Effect(Restrict(vectors, DOMAIN vectors \ doomed))
      /\ work' = [d \in Callers |-> IF d = c THEN NoWork
                                             ELSE [work[d] EXCEPT !.found = @ \ doomed]]
  BY <1>2, <1>d DEF DeleteRows
<1>4. /\ ~Contract!IsWrite(request[c])
      /\ due[c] \subseteq Contract!Matching(request[c], vectors)
      /\ due[c] \subseteq w.held \cup (w.found \cap ToVisit(w))
  BY <1>2, <1>3, CallerType DEF CallInv
<1>5. ToVisit(w) = {}
  BY <1>3, EmptyTable DEF ToVisit
<1>6. vectors \in Contract!Tables
  BY CallerType
<1>7. PICK t \in Contract!Tables :
         /\ t = Restrict(vectors, DOMAIN vectors \ doomed)
         /\ DOMAIN t = DOMAIN vectors \ doomed
         /\ \A x \in DOMAIN t : t[x] = vectors[x]
  <2> DEFINE u == [x \in DOMAIN vectors \ doomed |-> vectors[x]]
  <2>1. DOMAIN vectors \subseteq ChunkIds /\ vectors \in [DOMAIN vectors -> FileIds]
    BY <1>6, TableType
  <2>2. DOMAIN u \subseteq ChunkIds /\ u \in [DOMAIN u -> FileIds]
    BY <2>1
  <2>3. u \in Contract!Tables
    BY <2>2, TableType
  <2>4. u = Restrict(vectors, DOMAIN vectors \ doomed)
    BY DEF Restrict
  <2>. QED  BY <2>3, <2>4
<1>9. Effect(t) /\ doomed \cap DOMAIN t = {}
  BY <1>3, <1>7
<1>10. IInv'
  BY <1>1, <1>3, <1>9, EffectStep
<1>11. Answers[c] = "pending" /\ Answers' = [Answers EXCEPT ![c] = a]
  BY <1>1, <1>2, <1>3, AnswersStep, PendingStep
<1>12. /\ vectors' = Restrict(vectors, DOMAIN vectors \ doomed)
       /\ due' = Contract!StillDue(vectors') /\ request' = request
  BY <1>3 DEF Effect
<1>13. due[c] \subseteq doomed /\ doomed \subseteq Contract!Matching(request[c], vectors)
  BY <1>2, <1>4, <1>5, <1>d DEF Doomed
<1>14. Contract!Answer(c)
  BY <1>11 DEF Contract!Answer
<1>15. PICK gone \in SUBSET Contract!Matching(request[c], vectors) :
          due[c] \subseteq gone /\ vectors' = Contract!Restrict(vectors, DOMAIN vectors \ gone)
  BY <1>12, <1>13 DEF Restrict, Contract!Restrict
<1>16. Contract!Delete(c)
  BY <1>4, <1>11, <1>12, <1>14, <1>15 DEF Contract!Delete
<1>. QED  BY <1>10, <1>16

-----------------------------------------------------------------------------
\* A step that moves nothing the contract sees.
LEMMA ContractStutter ==
    ASSUME NoEffect, answer' = answer
    PROVE  UNCHANGED Contract!vars
BY DEF NoEffect, Contract!vars, Answers

\* The steps inside a call are invisible.
LEMMA InsideStep ==
    ASSUME IInv, NEW c \in Callers,
           \/ BeginWrite(c) \/ BeginDelete(c) \/ BeginFallback(c)
           \/ CopyRow(c) \/ CopyConflicts(c) \/ CopyFails(c) \/ UpsertRow(c)
           \/ VisitRow(c)
    PROVE  IInv' /\ UNCHANGED Contract!vars
<1>1. CASE BeginWrite(c)
  BY <1>1, BeginWriteStep, ContractStutter DEF BeginWrite, Session
<1>2. CASE BeginDelete(c)
  BY <1>2, BeginDeleteStep, ContractStutter DEF BeginDelete, Session
<1>3. CASE BeginFallback(c)
  <2>1. work[c].pc = "reacquire" /\ Session(c, At("upsert"))
    BY <1>3 DEF BeginFallback
  <2>2. request[c].op = "batch"
    BY <2>1, CallerType DEF CallInv
  <2>. QED  BY <2>1, <2>2, BatchBegins, ContractStutter DEF Session
<1>4. CASE CopyConflicts(c) \/ CopyFails(c)
  <2>1. work[c].pc = "copy" /\ Session(c, At("reacquire"))
    BY <1>4 DEF CopyConflicts, CopyFails, FallBack
  <2>2. request[c].op = "batch"
    BY <2>1, CallerType DEF CallInv
  <2>. QED  BY <2>1, <2>2, BatchBegins, ContractStutter DEF Session
<1>5. CASE CopyRow(c) \/ UpsertRow(c)
  <2>1. Writes(c) /\ WriteItem(c)
    BY <1>5 DEF CopyRow, UpsertRow
  <2>. QED  BY <2>1, WriteItemStep, ContractStutter DEF WriteItem, Session
<1>6. CASE VisitRow(c)
  BY <1>6, VisitRowStep, ContractStutter DEF VisitRow, Session
<1>. QED  BY <1>1, <1>2, <1>3, <1>4, <1>5, <1>6

\* An empty batch is written at once.
LEMMA ReturnNilStep ==
    ASSUME IInv, NEW c \in Callers, ReturnNil(c)
    PROVE  IInv' /\ Contract!Write(c)
<1>1. End(c, "ok") /\ NoEffect /\ work[c].pc = "begin"
  BY DEF ReturnNil
<1>2. request[c].op = "batch" /\ request[c].items = <<>>
  BY DEF ReturnNil, Empty
<1>3. IInv'
  BY <1>1, EndStep
<1>4. Answers[c] = "pending" /\ Answers' = [Answers EXCEPT ![c] = "ok"]
  BY <1>1, AnswersStep, PendingStep DEF End
<1>5. vectors = Contract!Written(vectors, <<>>)
  <2>1. Contract!Ids(<<>>) = {}
    BY EmptyTable DEF Contract!Ids
  <2>2. vectors \in [DOMAIN vectors -> FileIds]
    BY CallerType, TableType
  <2>. QED  BY <2>1, <2>2 DEF Contract!Written
<1>6. due = Contract!StillDue(vectors)
  <2>1. \A d \in Callers : due[d] \subseteq IF Contract!IsWrite(request[d]) THEN {}
                                            ELSE Contract!Matching(request[d], vectors)
    BY CallerType DEF CallInv
  <2>2. \A d \in Callers : due[d] = IF Contract!IsWrite(request[d]) THEN {}
                                    ELSE due[d] \cap Contract!Matching(request[d], vectors)
    BY <2>1
  <2>. QED  BY <2>2 DEF Contract!StillDue, IInv, TypeOK
<1>7. vectors' = vectors /\ due' = due /\ request' = request
  BY <1>1 DEF NoEffect
<1>. QED
  BY <1>2, <1>3, <1>4, <1>5, <1>6, <1>7
  DEF Contract!Write, Contract!Answer, Contract!IsWrite

LEMMA ObjectsType ==
    /\ Opening!Objects[1] = "schema" /\ Opening!Objects[2] = "extension"
    /\ Opening!Objects[3] = "table" /\ Opening!Objects[4] = "index"
    /\ Len(Opening!Objects) = 4
BY DEF Opening!Objects

\* Where a store goes on after an object of the database.
LEMMA AfterType ==
    ASSUME NEW o, o.at \in 1..4
    PROVE  /\ Opening!There(o) \in [pc : {"look", "verify", "open"}, at : 1..4]
           /\ Opening!There(o).pc = "verify" <=> Opening!Objects[o.at] = "table"
           /\ Opening!There(o).pc = "verify" => Opening!There(o).at = 3
           /\ Compared(Opening!There(o)) => o.at = 4
           /\ Opening!After(o) \in [pc : {"look", "open"}, at : 1..4]
<1>1. o.at = 1 \/ o.at = 2 \/ o.at = 3 \/ o.at = 4
  OBVIOUS
<1>. QED  BY <1>1, ObjectsType DEF Opening!There, Opening!After, Compared

\* A store moves on, and the database stays as it is.
LEMMA OpeningMoves ==
    ASSUME OpeningInv, NEW s \in Stores,
           NEW o \in [pc : {"look", "create", "verify", "open", "failed"}, at : 1..4],
           opening' = [opening EXCEPT ![s] = o], db' = db,
           o.pc = "verify" => o.at = 3 /\ "table" \in db.made,
           Compared(o) => "table" \in db.made /\ db.dim = DimOf[s]
    PROVE  OpeningInv'
BY DEF OpeningInv, Opening!TypeOK

LEMMA OpeningStep ==
    ASSUME OpeningInv, NEW s \in Stores, Opening!Step(s)
    PROVE  OpeningInv'
<1>1. PICK o : o = opening[s]
  OBVIOUS
<1>2. /\ o \in [pc : {"look", "create", "verify", "open", "failed"}, at : 1..4]
      /\ o.pc = "verify" => o.at = 3 /\ "table" \in db.made
      /\ Compared(o) => "table" \in db.made /\ db.dim = DimOf[s]
  BY <1>1 DEF OpeningInv, Opening!TypeOK
<1>3. o.at \in 1..4
  BY <1>2
<1>4. /\ Opening!Failed \in [pc : {"look", "create", "verify", "open", "failed"}, at : 1..4]
      /\ Opening!Failed.pc # "verify" /\ ~Compared(Opening!Failed)
  BY DEF Opening!Failed, Compared
<1>5. CASE Opening!Look(s)
  <2>1. CASE Opening!Objects[o.at] \in db.made
    <3>1. opening' = [opening EXCEPT ![s] = Opening!There(o)] /\ db' = db
      BY <1>1, <1>5, <2>1 DEF Opening!Look
    <3>2. Compared(Opening!There(o)) => Compared(o)
      BY <1>3, AfterType DEF Compared
    <3>. QED  BY <1>2, <1>3, <2>1, <3>1, <3>2, AfterType, OpeningMoves
  <2>2. CASE Opening!Objects[o.at] \notin db.made
    <3>1. PICK n : n = [pc |-> "create", at |-> o.at]
      OBVIOUS
    <3>2. opening' = [opening EXCEPT ![s] = n] /\ db' = db
      BY <1>1, <1>5, <2>2, <3>1 DEF Opening!Look
    <3>3. /\ n \in [pc : {"look", "create", "verify", "open", "failed"}, at : 1..4]
          /\ n.pc = "create" /\ (Compared(n) => Compared(o))
      BY <1>3, <3>1 DEF Compared
    <3>. QED  BY <1>2, <3>2, <3>3, OpeningMoves
  <2>. QED  BY <2>1, <2>2
<1>6. CASE Opening!Create(s)
  <2>1. PICK object : object = Opening!Objects[o.at]
    OBVIOUS
  <2>2. /\ object \notin db.made
        /\ db'.made = db.made \cup {object}
        /\ db'.dim = IF object = "table" THEN DimOf[s] ELSE db.dim
        /\ db' \in [made : SUBSET Opening!Kinds, dim : Dims \cup {0}]
        /\ opening' = [opening EXCEPT ![s] = Opening!There(o)]
    <3>1. object \in Opening!Kinds
      BY <1>3, <2>1, ObjectsType DEF Opening!Kinds
    <3>2. DimOf[s] \in Dims
      OBVIOUS
    <3>. QED  BY <1>1, <1>6, <2>1, <3>1, <3>2 DEF Opening!Create, OpeningInv, Opening!TypeOK
  <2>3. /\ Opening!There(o) \in [pc : {"look", "create", "verify", "open", "failed"}, at : 1..4]
        /\ Opening!There(o).pc = "verify" => /\ Opening!There(o).at = 3 /\ object = "table"
        /\ Compared(Opening!There(o)) => Compared(o)
    BY <1>3, <2>1, AfterType DEF Compared
  <2>4. ASSUME NEW r \in Stores
        PROVE  /\ opening'[r].pc = "verify" => opening'[r].at = 3 /\ "table" \in db'.made
               /\ Compared(opening'[r]) => "table" \in db'.made /\ db'.dim = DimOf[r]
    <3>1. CASE r = s
      BY <1>2, <2>2, <2>3, <3>1 DEF OpeningInv, Opening!TypeOK
    <3>2. CASE r # s
      <4>1. opening'[r] = opening[r]
        BY <2>2, <3>2 DEF OpeningInv, Opening!TypeOK
      <4>2. /\ opening[r].pc = "verify" => opening[r].at = 3 /\ "table" \in db.made
            /\ Compared(opening[r]) => "table" \in db.made /\ db.dim = DimOf[r]
        BY DEF OpeningInv
      <4>. QED  BY <2>2, <4>1, <4>2
    <3>. QED  BY <3>1, <3>2
  <2>. QED  BY <2>2, <2>3, <2>4 DEF OpeningInv, Opening!TypeOK
<1>7. CASE Opening!Verify(s)
  <2>1. o.pc = "verify" /\ db' = db
    BY <1>1, <1>7 DEF Opening!Verify
  <2>2. CASE db.dim = DimOf[s]
    <3>1. opening' = [opening EXCEPT ![s] = Opening!After(o)]
      BY <1>1, <1>7, <2>2 DEF Opening!Verify
    <3>. QED  BY <1>2, <1>3, <2>1, <2>2, <3>1, AfterType, OpeningMoves
  <2>3. CASE db.dim # DimOf[s]
    <3>1. opening' = [opening EXCEPT ![s] = Opening!Failed]
      BY <1>1, <1>7, <2>3 DEF Opening!Verify
    <3>. QED  BY <1>4, <2>1, <3>1, OpeningMoves
  <2>. QED  BY <2>2, <2>3
<1>8. CASE Opening!LoseRace(s) \/ Opening!Fail(s)
  <2>1. opening' = [opening EXCEPT ![s] = Opening!Failed] /\ db' = db
    BY <1>8 DEF Opening!LoseRace, Opening!Fail
  <2>. QED  BY <1>4, <2>1, OpeningMoves
<1>9. CASE Opening!Reopen(s)
  <2>1. PICK n : n = [pc |-> "look", at |-> o.at]
    OBVIOUS
  <2>2. opening' = [opening EXCEPT ![s] = n] /\ db' = db
    <3>1. PICK m : m = [o EXCEPT !.pc = "look"]
      OBVIOUS
    <3>2. m = n
      BY <1>2, <2>1, <3>1
    <3>3. opening' = [opening EXCEPT ![s] = m] /\ db' = db
      BY <1>1, <1>9, <3>1, Zenon DEF Opening!Reopen
    <3>. QED  BY <3>2, <3>3
  <2>3. /\ n \in [pc : {"look", "create", "verify", "open", "failed"}, at : 1..4]
        /\ n.pc = "look" /\ (Compared(n) => Compared(o))
    BY <1>3, <2>1 DEF Compared
  <2>. QED  BY <1>2, <2>2, <2>3, OpeningMoves
<1>. QED  BY <1>5, <1>6, <1>7, <1>8, <1>9 DEF Opening!Step

LEMMA OpenStep ==
    ASSUME IInv, OpeningInv, NEW s \in Stores, Open(s)
    PROVE  IInv' /\ OpeningInv' /\ UNCHANGED Contract!vars
<1>1. UNCHANGED callVars /\ Opening!Step(s)
  BY DEF Open
<1>2. OpeningInv'
  BY <1>1, OpeningStep
<1>3. TypeOK'
  BY <1>1, <1>2 DEF callVars, IInv, TypeOK, OpeningInv
<1>4. CallsInv'
  BY <1>1 DEF callVars, IInv, CallsInv
<1>5. UNCHANGED Contract!vars
  BY <1>1 DEF callVars, Contract!vars, Answers
<1>. QED  BY <1>2, <1>3, <1>4, <1>5 DEF IInv

-----------------------------------------------------------------------------
LEMMA InitStep ==
    ASSUME Init
    PROVE  IInv /\ OpeningInv /\ Contract!Init
<1>1. Opening!TypeOK
  BY DEF Init, Opening!Init, Opening!TypeOK, Opening!Kinds
<1>2. OpeningInv
  BY <1>1 DEF Init, Opening!Init, OpeningInv, Compared
<1>3. vectors \in Contract!Tables
  BY EmptyTable DEF Init
<1>4. NoWork \in Works /\ NoWork = At("idle") /\ NoWork.pc = "idle"
  BY NoWorkType DEF NoWork
<1>5. TypeOK
  <2>1. request \in [Callers -> Contract!Requests]
    BY NoRequestType DEF Init
  <2>2. work \in [Callers -> Works]
    BY <1>4 DEF Init
  <2>3. /\ answer \in [Callers -> {"none", "pending", "ok", "error", "panic"}]
        /\ made \in [Callers -> 0..MaxCalls]
        /\ due \in [Callers -> SUBSET ChunkIds]
    BY DEF Init
  <2>. QED  BY <1>1, <1>3, <2>1, <2>2, <2>3 DEF TypeOK, Works
<1>6. CallsInv
  <2>. SUFFICES ASSUME NEW c \in Callers
               PROVE  CallInv(work[c], request[c], answer[c], due[c], vectors)
    BY DEF CallsInv
  <2>1. work[c] = NoWork /\ answer[c] = "none" /\ due[c] = {}
    BY DEF Init
  <2>. QED  BY <1>4, <2>1 DEF CallInv
<1>7. Contract!Init
  BY <1>3 DEF Init, Contract!Init, Answers
<1>. QED  BY <1>2, <1>5, <1>6, <1>7 DEF IInv

\* A call leaves the stores alone.
LEMMA CallsLeaveStores ==
    ASSUME OpeningInv, UNCHANGED openingVars
    PROVE  OpeningInv'
BY DEF OpeningInv, openingVars, Opening!TypeOK

LEMMA CallStep ==
    ASSUME IInv, OpeningInv, NEW c \in Callers, Invoke(c) \/ Progress(c) \/ Faults(c)
    PROVE  IInv' /\ OpeningInv' /\ [Contract!Next]_(Contract!vars)
<1>1. ASSUME Fails(c)
      PROVE  IInv' /\ UNCHANGED openingVars /\ Contract!Refuse(c)
  BY <1>1, RefusalStep DEF Fails, Connected, NoEffect
<1>2. ASSUME CopyFails(c)
      PROVE  IInv' /\ UNCHANGED openingVars /\ UNCHANGED Contract!vars
  BY <1>2, InsideStep DEF CopyFails, FallBack, Session, NoEffect
<1>3. CASE Invoke(c)
  <2>1. IInv' /\ Contract!Call(c)
    BY <1>3, InvokeStep
  <2>2. UNCHANGED openingVars
    BY <1>3 DEF Invoke, openingVars
  <2>. QED  BY <2>1, <2>2, CallsLeaveStores DEF Contract!Next
<1>4. CASE ReturnNil(c)
  <2>1. IInv' /\ Contract!Write(c)
    BY <1>4, ReturnNilStep
  <2>2. UNCHANGED openingVars
    BY <1>4 DEF ReturnNil, NoEffect
  <2>. QED  BY <2>1, <2>2, CallsLeaveStores DEF Contract!Next
<1>5. CASE \/ BeginWrite(c) \/ BeginDelete(c) \/ BeginFallback(c) \/ CopyRow(c)
           \/ CopyConflicts(c) \/ UpsertRow(c) \/ VisitRow(c)
  <2>1. IInv' /\ UNCHANGED Contract!vars
    BY <1>5, InsideStep
  <2>2. UNCHANGED openingVars
    BY <1>5 DEF BeginWrite, BeginDelete, BeginFallback, CopyRow, CopyConflicts, UpsertRow,
                VisitRow, WriteItem, FallBack, Session, NoEffect
  <2>. QED  BY <2>1, <2>2, CallsLeaveStores
<1>6. CASE Put(c)
  <2>1. IInv' /\ Contract!Write(c)
    BY <1>6, PutStep
  <2>2. UNCHANGED openingVars
    BY <1>6 DEF Put, Effect
  <2>. QED  BY <2>1, <2>2, CallsLeaveStores DEF Contract!Next
<1>7. CASE Commit(c)
  <2>1. IInv' /\ Contract!Write(c)
    BY <1>7, CommitStep
  <2>2. UNCHANGED openingVars
    BY <1>7 DEF Commit, Effect
  <2>. QED  BY <2>1, <2>2, CallsLeaveStores DEF Contract!Next
<1>8. CASE DeleteRows(c)
  <2>1. IInv' /\ Contract!Delete(c)
    BY <1>8, DeleteRowsStep
  <2>2. UNCHANGED openingVars
    BY <1>8 DEF DeleteRows, Effect
  <2>. QED  BY <2>1, <2>2, CallsLeaveStores DEF Contract!Next
<1>9. CASE Victim(c)
  BY <1>1, <1>2, <1>9, CallsLeaveStores DEF Victim, Contract!Next
<1>10. CASE Refuse(c)
  <2>1. IInv' /\ Contract!Refuse(c)
    BY <1>10, RefusalStep DEF Refuse
  <2>2. UNCHANGED openingVars
    BY <1>10 DEF Refuse, NoEffect
  <2>. QED  BY <2>1, <2>2, CallsLeaveStores DEF Contract!Next
<1>11. CASE FallbackPanics(c)
  <2>1. IInv' /\ Contract!Refuse(c)
    BY <1>11, RefusalStep DEF FallbackPanics
  <2>2. UNCHANGED openingVars
    BY <1>11 DEF FallbackPanics, NoEffect
  <2>. QED  BY <2>1, <2>2, CallsLeaveStores DEF Contract!Next
<1>12. CASE CopyFails(c) \/ Fails(c)
  BY <1>1, <1>2, <1>12, CallsLeaveStores DEF Contract!Next
<1>. QED
  BY <1>3, <1>4, <1>5, <1>6, <1>7, <1>8, <1>9, <1>10, <1>11, <1>12 DEF Progress, Faults

LEMMA NextStep ==
    ASSUME IInv, OpeningInv, [Next]_vars
    PROVE  IInv' /\ OpeningInv' /\ [Contract!Next]_(Contract!vars)
<1>1. CASE \E c \in Callers : Invoke(c) \/ Progress(c) \/ Faults(c)
  BY <1>1, CallStep
<1>2. CASE \E s \in Stores : Open(s)
  BY <1>2, OpenStep
<1>3. CASE UNCHANGED vars
  <2>1. UNCHANGED callVars /\ UNCHANGED openingVars
    BY <1>3 DEF vars, callVars, openingVars
  <2>2. OpeningInv'
    BY <2>1, CallsLeaveStores
  <2>3. TypeOK'
    BY <2>1, <2>2 DEF callVars, IInv, TypeOK, OpeningInv
  <2>4. CallsInv'
    BY <2>1 DEF callVars, IInv, CallsInv
  <2>5. UNCHANGED Contract!vars
    BY <2>1 DEF callVars, Contract!vars, Answers
  <2>. QED  BY <2>2, <2>3, <2>4, <2>5 DEF IInv
<1>. QED  BY <1>1, <1>2, <1>3 DEF Next, Finished

LEMMA Invariants == Spec => [](IInv /\ OpeningInv)
<1>1. Init => IInv /\ OpeningInv
  BY InitStep
<1>2. IInv /\ OpeningInv /\ [Next]_vars => IInv' /\ OpeningInv'
  BY NextStep
<1>. QED  BY <1>1, <1>2, PTL DEF Spec

-----------------------------------------------------------------------------
\* Sessions, answers and the database stay well typed, under every overlap of
\* calls and opening stores.
THEOREM TypeCorrect == Spec => []TypeOK
<1>1. IInv => TypeOK
  BY DEF IInv
<1>. QED  BY <1>1, Invariants, PTL

\* The writes of the store implement what VectorStore promises: any number of
\* interleaved batches, fallbacks, victims and deletions.
THEOREM Implements == Spec => KeepsContract
<1>1. Init => Contract!Init
  BY InitStep
<1>2. IInv /\ OpeningInv /\ [Next]_vars => [Contract!Next]_(Contract!vars)
  BY NextStep
<1>. QED  BY <1>1, <1>2, Invariants, PTL DEF Spec, KeepsContract, Contract!Spec

\* However many stores open on one table at once, those that succeed agree on
\* its dimension.
THEOREM StoresAgreeOnDimension == Spec => []OneDimension
<1>1. OpeningInv => OneDimension
  BY DEF OpeningInv, OneDimension, Compared, Opening!IsOpen
<1>. QED  BY <1>1, Invariants, PTL
=============================================================================
