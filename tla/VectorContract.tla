--------------------------- MODULE VectorContract ---------------------------
(***************************************************************************)
(* What the writes of a VectorStore promise (VectorStore, ragcore.go; the  *)
(* doc comments of PgVectorStore): each call takes effect at one moment    *)
(* between its invocation and its answer, a batch all at once, or it       *)
(* answers with an error.  An error says nothing of the effect: the answer *)
(* to a commit may be lost on the way.                                     *)
(*                                                                         *)
(* A deletion promises less than a moment of its own: it removes what it   *)
(* is due to, the rows that matched when it was called and have matched    *)
(* ever since, and may remove other rows that match; of a batch stored     *)
(* meanwhile it may take some rows and leave others.                       *)
(***************************************************************************)
EXTENDS Naturals, Sequences, Functions

CONSTANTS Callers, ChunkIds, FileIds,
          MaxBatch    \* bound: items of one batch

VARIABLES table,    \* id |-> file_id
          request,  \* caller |-> what it asked for last
          answer,   \* caller |-> "none", "pending", "ok", "error"
          due       \* caller |-> the rows its deletion has to remove

vars == <<table, request, answer, due>>

Items == [id : ChunkIds, file : FileIds]

Batches == UNION {[1..n -> Items] : n \in 0..MaxBatch}

Upserts == [op : {"upsert"}, items : [1..1 -> Items]]
UpsertBatches == [op : {"batch"}, items : Batches]
DeletesByID == [op : {"deleteID"}, key : ChunkIds]
DeletesByFileID == [op : {"deleteFile"}, key : FileIds]

Requests == Upserts \cup UpsertBatches \cup DeletesByID \cup DeletesByFileID

NoRequest == [op |-> "batch", items |-> <<>>]

IsWrite(r) == r.op \in {"upsert", "batch"}

Tables == UNION {[ids -> FileIds] : ids \in SUBSET ChunkIds}

\* The rows a deletion asks for.
Matching(r, t) ==
    IF r.op = "deleteID" THEN {r.key} \cap DOMAIN t
                         ELSE {c \in DOMAIN t : t[c] = r.key}

\* The row of an id that a table is given last.
Put(t, item) ==
    [c \in DOMAIN t \cup {item.id} |-> IF c = item.id THEN item.file ELSE t[c]]

Ids(items) == {items[i].id : i \in DOMAIN items}

LastOf(items, c) ==
    CHOOSE i \in DOMAIN items :
       /\ items[i].id = c
       /\ \A j \in DOMAIN items : items[j].id = c => j <= i

Written(t, items) ==
    [c \in DOMAIN t \cup Ids(items) |->
        IF c \in Ids(items) THEN items[LastOf(items, c)].file ELSE t[c]]

Init ==
    /\ table \in Tables
    /\ request = [c \in Callers |-> NoRequest]
    /\ answer = [c \in Callers |-> "none"]
    /\ due = [c \in Callers |-> {}]

Call(c) ==
    /\ answer[c] # "pending"
    /\ \E r \in Requests :
          /\ request' = [request EXCEPT ![c] = r]
          /\ due' = [due EXCEPT ![c] = IF IsWrite(r) THEN {} ELSE Matching(r, table)]
    /\ answer' = [answer EXCEPT ![c] = "pending"]
    /\ UNCHANGED table

\* A row that another call has removed, or moved to another file, is not due
\* any longer, even if it comes back.
StillDue(t) ==
    [c \in Callers |-> IF IsWrite(request[c]) THEN {}
                       ELSE due[c] \cap Matching(request[c], t)]

\* With the effect, the answer; or the answer is lost.
Answer(c) ==
    \E a \in {"ok", "error"} : answer' = [answer EXCEPT ![c] = a]

Write(c) ==
    /\ answer[c] = "pending" /\ IsWrite(request[c])
    /\ table' = Written(table, request[c].items)
    /\ due' = StillDue(table')
    /\ Answer(c)
    /\ UNCHANGED request

Delete(c) ==
    /\ answer[c] = "pending" /\ ~IsWrite(request[c])
    /\ \E gone \in SUBSET Matching(request[c], table) :
          /\ due[c] \subseteq gone
          /\ table' = Restrict(table, DOMAIN table \ gone)
    /\ due' = StillDue(table')
    /\ Answer(c)
    /\ UNCHANGED request

Refuse(c) ==
    /\ answer[c] = "pending"
    /\ answer' = [answer EXCEPT ![c] = "error"]
    /\ UNCHANGED <<table, request, due>>

Next == \E c \in Callers : Call(c) \/ Write(c) \/ Delete(c) \/ Refuse(c)

Spec == Init /\ [][Next]_vars
=============================================================================
