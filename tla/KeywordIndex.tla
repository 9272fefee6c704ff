---------------------------- MODULE KeywordIndex ----------------------------
(***************************************************************************)
(* SQLiteKeywordIndex (sqlite_keyword_index.go): the rows of chunks_fts, a *)
(* projection of chunks joined with file_chunks, rebuilt by refreshes that *)
(* read PostgreSQL before they take the lock of the index.  SQLite has one *)
(* connection, and the rebuild is one transaction under the lock: a step.  *)
(* The words of a text are left out: a row is its chunk and file.          *)
(***************************************************************************)
CONSTANTS FileIds, ChunkIds,
          Refreshers   \* callers of RefreshFromPostgres

VARIABLES fts,         \* {<<chunk_id, file_id>>}
          refresh      \* refresher |-> the rows it is reading

indexVars == <<fts, refresh>>

Rows == ChunkIds \X FileIds

Idle == [reading |-> FALSE, rows |-> {}]

Init ==
    /\ fts = {}
    /\ refresh = [r \in Refreshers |-> Idle]

\* Mutant: the columns scanned in the wrong order.
QuerySwapsColumns(r, linked) ==
    /\ ~refresh[r].reading
    /\ refresh' = [refresh EXCEPT ![r] = [reading |-> TRUE, rows |-> linked]]
    /\ UNCHANGED fts

\* pool.Query: the snapshot of the statement that joins chunks with their
\* file_chunks, which is {<<file_id, chunk_id>>}.
Query(r, linked) ==
    /\ ~refresh[r].reading
    /\ refresh' = [refresh EXCEPT ![r] = [reading |-> TRUE,
                                          rows |-> {<<p[2], p[1]>> : p \in linked}]]
    /\ UNCHANGED fts

\* Mutant: without DELETE FROM chunks_fts.
RebuildKeepsRows(r) ==
    /\ refresh[r].reading
    /\ fts' = fts \cup refresh[r].rows
    /\ refresh' = [refresh EXCEPT ![r] = Idle]

Rebuild(r) ==
    /\ refresh[r].reading
    /\ fts' = refresh[r].rows
    /\ refresh' = [refresh EXCEPT ![r] = Idle]

\* An error of either database: the transaction is rolled back.
Abandon(r) ==
    /\ refresh[r].reading
    /\ refresh' = [refresh EXCEPT ![r] = Idle]
    /\ UNCHANGED fts

\* What KeywordSearch may return; no file ids, no filter.
Searchable(fileIds) ==
    {row[1] : row \in {x \in fts : fileIds = {} \/ x[2] \in fileIds}}

TypeOK ==
    /\ fts \subseteq Rows
    /\ refresh \in [Refreshers -> [reading : BOOLEAN, rows : SUBSET Rows]]
=============================================================================
