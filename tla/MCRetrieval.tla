---------------------------- MODULE MCRetrieval ----------------------------
(***************************************************************************)
(* Retrieval for TLC: a chunk of each of two files.                        *)
(***************************************************************************)
EXTENDS Retrieval

CONSTANTS c1, c2, f1, f2, p1

FileOfChunk == [c \in ChunkIds |-> IF c = c1 THEN f1 ELSE f2]

ParentOfChunk == [c \in ChunkIds |-> IF c = c1 THEN p1 ELSE NoParent]

AnyFileOrF1 == {{}, {f1}}

OnlyF1 == {{f1}}
=============================================================================
