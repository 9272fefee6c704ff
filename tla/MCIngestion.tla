---------------------------- MODULE MCIngestion ----------------------------
(***************************************************************************)
(* Ingestion for TLC.  Requests r1 to r4 have a FileID each (OwnFiles), or *)
(* are calls under one (OneFile), and so their paths (OwnPaths, OnePath).  *)
(***************************************************************************)
EXTENDS Ingestion

CONSTANTS r1, r2, r3, r4, f1, f2, f3, f4, p1, p2, p3, p4

OwnFiles ==
    [r \in Requests |-> CASE r = r1 -> f1 [] r = r2 -> f2
                          [] r = r3 -> f3 [] r = r4 -> f4]

OneFile == [r \in Requests |-> f1]

OwnPaths ==
    [r \in Requests |-> CASE r = r1 -> p1 [] r = r2 -> p2
                          [] r = r3 -> p3 [] r = r4 -> p4]

OnePath == [r \in Requests |-> p1]

MixedKinds ==
    [r \in Requests |-> CASE r \in {r1, r2} -> "text"
                          [] r = r3 -> "image" [] r = r4 -> "video"]

AllTexts == [r \in Requests |-> "text"]

Always == [r \in Requests |-> TRUE]

Never == [r \in Requests |-> FALSE]

OnlyR1 == [r \in Requests |-> r = r1]

OnlyR2 == [r \in Requests |-> r = r2]
=============================================================================
