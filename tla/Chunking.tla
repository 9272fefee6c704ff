------------------------------ MODULE Chunking ------------------------------
(***************************************************************************)
(* A file, loaded from disk or from memory (Loader), and how it is cut     *)
(* into chunks (ChunkLoops).                                               *)
(***************************************************************************)
EXTENDS ChunkLoops

CONSTANTS MaxText,     \* bound: characters of a text of words and lines
          MaxSentence, \* bound: characters of a text with punctuation
          MaxLines,    \* bound: lines of a markdown document
          MaxPages,    \* bound: pages of a PDF
          Sizes,       \* ChunkSize
          Overlaps     \* OverlapSize

ASSUME ChunkingAssumption ==
    /\ MaxText \in Nat /\ MaxSentence \in Nat
    /\ MaxLines \in Nat /\ MaxPages \in Nat
    /\ Sizes \subseteq Nat \ {0} /\ Overlaps \subseteq Nat

-----------------------------------------------------------------------------
(* Files, of lines for the markdown splitter, of characters for the other  *)
(* chunkers.  A line of a file that is not empty is two words: those of a  *)
(* heading stand for its marks and its title.  A line is in a code block,  *)
(* opens or closes one by what it starts with; "inline" has two runs of    *)
(* backticks.  The loader writes a "fence" around a text, and a "note".    *)

Words(kind) == IF kind \in LineKinds \ {"empty"} THEN 2 ELSE 0

WordsBefore(lines, i) ==
    FoldLeft(LAMBDA n, kind : n + Words(kind), 0, SubSeq(lines, 1, i - 1))

Line(lines, i) ==
    CASE lines[i] = "empty" -> <<>>
      [] lines[i] \in {"fence", "note"} -> <<Mark>>
      [] OTHER -> <<WordsBefore(lines, i) + 1, Space, WordsBefore(lines, i) + 2>>

LineTexts(lines) == [i \in DOMAIN lines |-> Line(lines, i)]

Join(texts, sep) ==
    IF texts = <<>> THEN <<>>
    ELSE FoldLeft(LAMBDA text, t : text \o sep \o t, Head(texts), Tail(texts))

IsBlank(text) == TrimSpace(text) = <<>>

Lines == INSTANCE Loader
            WITH FenceBefore <- <<"fence">>, FenceAfter <- <<"fence">>,
                 NoContent <- <<"note", "empty", "note">>,
                 PdfTitle <- <<"note", "empty", "empty">>,
                 PageTitle <- <<>>, NoText <- <<>>, PageBreak <- <<>>,
                 Link <- <<>>, Blank <- IsBlank

Chars == INSTANCE Loader
            WITH FenceBefore <- <<Mark, Newline>>, FenceAfter <- <<Newline, Mark>>,
                 NoContent <- <<Mark, Newline, Newline, Mark>>,
                 PdfTitle <- <<Mark, Newline, Newline>>,
                 PageTitle <- <<Mark, Newline, Newline>>, NoText <- <<Mark>>,
                 PageBreak <- <<Newline, Newline>>,
                 Link <- <<Mark, Newline, Newline>>, Blank <- IsBlank

File(ext, text, pages) == [ext |-> ext, bytes |-> "good", text |-> text, pages |-> pages]

TextFile(ext, text, empty) ==
    [File(ext, text, <<>>) EXCEPT !.bytes = IF text = empty THEN "none" ELSE "good"]

\* The only line of an empty file has nothing in it.
LineFiles ==
    {File("docx", lines, <<>>) : lines \in BoundedSeq(LineKinds, MaxLines) \ {<<"empty">>}}
    \cup {TextFile("markdown", lines, <<"empty">>) :
             lines \in BoundedSeq(LineKinds, MaxLines - 2) \ {<<>>}}
    \cup {File("pdf", <<>>, <<>>)}

\* A pattern of letters (0), white space and punctuation, its letters numbered.
Numbered(pattern) ==
    [i \in DOMAIN pattern |->
        IF pattern[i] = 0
        THEN Len(SelectSeq(SubSeq(pattern, 1, i), LAMBDA ch : ch = 0))
        ELSE pattern[i]]

Patterns ==
    BoundedSeq({0, Space, Newline}, MaxText)
    \cup BoundedSeq({0, Space, Stop, Comma}, MaxSentence)

Texts == {Numbered(p) : p \in Patterns}

\* Pages of so many letters each.
PagesOf(lengths) ==
    [i \in DOMAIN lengths |->
        [k \in 1..lengths[i] |-> k + FoldLeft(+, 0, SubSeq(lengths, 1, i - 1))]]

CharFiles ==
    {File("xls", text, <<>>) : text \in Texts}
    \cup {TextFile("md", text, <<>>) : text \in {t \in Texts : Len(t) < MaxSentence}}
    \cup {File("pdf", <<>>, PagesOf(lengths)) :
             lengths \in BoundedSeq(0..3, MaxPages) \ {<<>>}}

LineDoc(file, load) ==
    [chunker |-> Lines!ChunkerOf(load), letters |-> WordsBefore(file.text, Len(file.text) + 1),
     text |-> Join(LineTexts(load.content), <<Newline>>),
     lines |-> load.content, lineTexts |-> LineTexts(load.content), pages |-> <<>>]

CharDoc(file, load, chunker) ==
    [chunker |-> chunker, letters |-> Len(SelectSeq(file.text \o FlattenSeq(file.pages), IsLetter)),
     text |-> load.content, lines |-> <<>>, lineTexts |-> <<>>, pages |-> load.pages]

\* A file is loaded from disk or from memory.  ProcessFile has it cut by type,
\* or by the chunker of the host.
Init ==
    /\ \/ \E file \in LineFiles : \E load \in {Lines!LoadFile(file), Lines!LoadBytes(file)} :
             load.ok /\ doc = LineDoc(file, load)
       \/ \E file \in CharFiles : \E load \in {Chars!LoadFile(file), Chars!LoadBytes(file)} :
             /\ load.ok
             /\ \E chunker \in {Chars!ChunkerOf(load), "char", "token"} :
                   doc = CharDoc(file, load, chunker)
    /\ config \in [size : Sizes, overlap : Overlaps]
    /\ pc = "start" /\ md = BeforeLines /\ pdf = BeforePages
    /\ bodyNo = 0 /\ calls = <<>> /\ cur = <<>> /\ chunks = <<>>

Spec == Init /\ [][LoopsNext]_vars
=============================================================================
