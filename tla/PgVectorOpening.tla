--------------------------- MODULE PgVectorOpening ---------------------------
(***************************************************************************)
(* How a PgVectorStore is opened (pgvector_store.go, init): by several     *)
(* processes at once on one database, each for its dimension.              *)
(*                                                                         *)
(* CREATE ... IF NOT EXISTS looks whether the object is there, and creates *)
(* it if not; between the two another session may have created it, and the *)
(* statement fails on the unique index of a catalog.                       *)
(***************************************************************************)
EXTENDS Naturals, Sequences

CONSTANTS Stores,
          Dims,      \* the dimensions a column may have, without 0
          DimOf      \* [Stores -> Dims]: what each store is opened with

VARIABLES db,        \* the objects in the database, and the column's dimension
          opening    \* store |-> where its init is

\* In the order in which init ensures them.
Objects == <<"schema", "extension", "table", "index">>

Kinds == {"schema", "extension", "table", "index"}

Init ==
    /\ db \in [made : {{}, {"extension"}}, dim : {0}] \cup [made : {Kinds}, dim : Dims]
    /\ opening = [s \in Stores |-> [pc |-> "look", at |-> 1]]

\* The constructor returns an error.
Failed == [pc |-> "failed", at |-> 1]

IsOpen(s) == opening[s].pc = "open"

\* Mutant: an object after the last.
AfterBeyond(o) == IF o.at <= Len(Objects) THEN [pc |-> "look", at |-> o.at + 1]
                                          ELSE [pc |-> "open", at |-> o.at]

\* SET hnsw.ef_search is last; its failure is only logged.
After(o) == IF o.at < Len(Objects) THEN [pc |-> "look", at |-> o.at + 1]
                                   ELSE [pc |-> "open", at |-> o.at]

\* ensureTable goes on to read the dimension of the column.
There(o) == IF Objects[o.at] = "table" THEN [pc |-> "verify", at |-> o.at] ELSE After(o)

\* The extension is probed for first, which is to look twice.
Look(s) ==
    /\ opening[s].pc = "look"
    /\ opening' = [opening EXCEPT ![s] =
                      IF Objects[@.at] \in db.made THEN There(@)
                                                   ELSE [pc |-> "create", at |-> @.at]]
    /\ UNCHANGED db

Create(s) ==
    LET object == Objects[opening[s].at]
    IN  /\ opening[s].pc = "create"
        /\ object \notin db.made
        /\ db' = [made |-> db.made \cup {object},
                  dim |-> IF object = "table" THEN DimOf[s] ELSE db.dim]
        /\ opening' = [opening EXCEPT ![s] = There(@)]

LoseRace(s) ==
    /\ opening[s].pc = "create"
    /\ Objects[opening[s].at] \in db.made
    /\ opening' = [opening EXCEPT ![s] = Failed]
    /\ UNCHANGED db

\* Mutant: who finds the table takes its dimension for granted.
VerifyNothing(s) ==
    /\ opening[s].pc = "verify"
    /\ opening' = [opening EXCEPT ![s] = After(@)]
    /\ UNCHANGED db

Verify(s) ==
    /\ opening[s].pc = "verify"
    /\ opening' = [opening EXCEPT ![s] =
                      IF db.dim = DimOf[s] THEN After(@) ELSE Failed]
    /\ UNCHANGED db

\* A connection breaks, a privilege is missing.
Fail(s) ==
    /\ opening[s].pc \in {"look", "create", "verify"}
    /\ opening' = [opening EXCEPT ![s] = Failed]
    /\ UNCHANGED db

\* The host calls the constructor again.
Reopen(s) ==
    /\ opening[s].pc = "failed"
    /\ opening' = [opening EXCEPT ![s].pc = "look"]
    /\ UNCHANGED db

Step(s) == Look(s) \/ Create(s) \/ LoseRace(s) \/ Verify(s) \/ Fail(s) \/ Reopen(s)

IsSettled(s) == opening[s].pc \in {"open", "failed"}

TypeOK ==
    /\ db \in [made : SUBSET Kinds, dim : Dims \cup {0}]
    /\ opening \in [Stores -> [pc : {"look", "create", "verify", "open", "failed"},
                               at : 1..4]]
=============================================================================
