----------------------------- MODULE MCChunking -----------------------------
(***************************************************************************)
(* Chunking for TLC: every document, size and overlap within the bounds.   *)
(***************************************************************************)
EXTENDS Chunking
=============================================================================
