-------------------------- MODULE MCEmbeddingCache --------------------------
(* EmbeddingCache for TLC; the other constants have values in the .cfg.    *)
EXTENDS EmbeddingCache

CONSTANT Busiest    \* the caller that may embed two texts at once

CallBound == [c \in Callers |-> 1]

TextBound == [c \in Callers |-> IF c = Busiest THEN 2 ELSE 1]
=============================================================================
