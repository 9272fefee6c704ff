--------------------------- MODULE MCPgVectorCalls ---------------------------
(***************************************************************************)
(* PgVectorCalls for TLC: the callers share the store s1, while a process  *)
(* that expects another dimension tries to open s2.                        *)
(***************************************************************************)
EXTENDS PgVectorCalls

CONSTANTS s1, s2

AllOnS1 == [c \in Callers |-> s1]

TwoDims == [s \in Stores |-> IF s = s1 THEN 3 ELSE 4]
=============================================================================
