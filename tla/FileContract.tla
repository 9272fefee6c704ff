---------------------------- MODULE FileContract ----------------------------
(***************************************************************************)
(* What a host may count on that calls ProcessFile and DeleteFile          *)
(* (processor.go), as far as GetFile and a search of the vector store can  *)
(* tell, however calls interleave and whatever fails.  A search takes an   *)
(* id from the vector store, and the text and the file of its chunk from   *)
(* the file store (rag_searcher.go).                                       *)
(*                                                                         *)
(* Pieces are found one by one, each under the file its text comes from    *)
(* while that file is listed.  A piece stays found, and under its file,    *)
(* until a deletion of that file has got to work.  That may take away all  *)
(* that is found of its text, and it removes the file; in between and      *)
(* afterwards more of the text may be found, once the file is removed      *)
(* under no file at all.  No request and no deletion touches what is found *)
(* of another file.                                                        *)
(***************************************************************************)

CONSTANTS Files,
          SourceOf   \* the file that a text was extracted from

VARIABLES listed,   \* the files that GetFile finds
          found,    \* the pieces a search finds: chunk, text and the file, {} for none
          asked     \* the files that DeleteFile has been called for, and found

vars == <<listed, found, asked>>

TextsOf(f) == {piece \in found : SourceOf[piece.text] = f}

Init == listed = {} /\ found = {} /\ asked = {}

Publish(f) ==
    /\ listed' = listed \cup {f}
    /\ UNCHANGED <<found, asked>>

\* Under no other file than its own, and that is listed; or it was removed.
Index(piece) ==
    /\ \A other \in found : other.chunk # piece.chunk
    /\ \/ piece.file = {SourceOf[piece.text]} /\ piece.file \subseteq listed
       \/ piece.file = {} /\ SourceOf[piece.text] \in asked
    /\ found' = found \cup {piece}
    /\ UNCHANGED <<listed, asked>>

AskToDelete(f) ==
    /\ f \in listed
    /\ asked' = asked \cup {f}
    /\ UNCHANGED <<listed, found>>

Withdraw(f) ==
    /\ f \in asked
    /\ found' = found \ TextsOf(f)
    /\ UNCHANGED <<listed, asked>>

\* What is still found of the file is no longer found under it.
Remove(f) ==
    /\ f \in asked
    /\ listed' = listed \ {f}
    /\ found' = {[piece EXCEPT !.file = @ \ {f}] : piece \in found}
    /\ UNCHANGED asked

Next ==
    \/ \E f \in Files : Publish(f) \/ AskToDelete(f) \/ Withdraw(f) \/ Remove(f)
    \/ \E piece \in found' : Index(piece)

Spec == Init /\ [][Next]_vars
=============================================================================
