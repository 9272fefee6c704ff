----------------------------- MODULE ChunkLoops -----------------------------
(***************************************************************************)
(* The chunkers: RAGChunker.ChunkDocument, with mdSplitter.Split           *)
(* (mdsplitter.go), a line at a time, chunkPDFByPages (rag_chunker.go), a  *)
(* page at a time, and recursiveSplit, a part at a time, its waiting calls *)
(* on a stack; and the CharChunker and TokenChunker a host may use instead *)
(* (chunker.go).  Chunking extends this module with the files that the     *)
(* documents come from.                                                    *)
(*                                                                         *)
(* A text is a sequence of characters.  A letter is a positive number, its *)
(* place among the letters of the file, so that a chunk shows where it     *)
(* came from; a mark is one the loader wrote, and the rest is white space  *)
(* and the punctuation of the separators, which is cut out with them.  A   *)
(* token is a character not white space.                                   *)
(*                                                                         *)
(* A line is of a kind, which says what Split makes of it: a header; a     *)
(* line that starts as the fence of a code block does, "inline" with two   *)
(* runs of backticks; or one that the loader writes, a "fence" or a        *)
(* "note".  A body is a stretch of lines.                                  *)
(***************************************************************************)
EXTENDS Integers, FiniteSets, SequencesExt

VARIABLES doc,       \* the document, and the chunker that is given it
          config,    \* its sizes
          pc,        \* "start", "split" while texts are split, then "done"
          md,        \* the loop over the lines
          pdf,       \* the loop over the pages
          bodyNo,    \* the number of bodies taken so far, the last being split
          calls,     \* the calls of recursiveSplit, the running one last
          cur,       \* what the strings.Builder of the running loop holds
          chunks     \* the result

vars == <<doc, config, pc, md, pdf, bodyNo, calls, cur, chunks>>

-----------------------------------------------------------------------------
(* Strings.                                                                *)

Space == -1
Newline == -2
Mark == -3
Stop == -4
Question == -5
Exclamation == -6
Semicolon == -7
Comma == -8

IsLetter(ch) == ch > 0

LettersIn(text) == {ch \in ToSet(text) : IsLetter(ch)}

IsSpace(ch) == ch \in {Space, Newline}

Places(text, sep) ==
    {i \in 1..Len(text) - Len(sep) + 1 : SubSeq(text, i, i + Len(sep) - 1) = sep}

TrimSpace(text) ==
    LET kept == {i \in DOMAIN text : ~IsSpace(text[i])}
    IN IF kept = {} THEN <<>> ELSE SubSeq(text, Min(kept), Max(kept))

Suffix(text, n) ==
    SubSeq(text, IF n < Len(text) THEN Len(text) - n + 1 ELSE 1, Len(text))

-----------------------------------------------------------------------------
(* A document.                                                             *)

LineKinds == {"text", "empty", "h2", "h3", "backticks", "tildes", "inline"}

LoadedKinds == LineKinds \cup {"fence", "note"}

\* What the loops read.
Contents ==
    CASE doc.chunker = "markdown" -> doc.lineTexts
      [] doc.chunker = "pdf" -> doc.pages
      [] OTHER -> <<doc.text>>

\* What is read is in the text of the document, and its letters are those of
\* the file, in order.
InOrder ==
    /\ \A i, j \in DOMAIN Contents :
          /\ Contents[i] = <<>> \/ Places(doc.text, Contents[i]) # {}
          /\ \A k \in DOMAIN Contents[i], l \in DOMAIN Contents[j] :
                /\ IsLetter(Contents[i][k]) /\ IsLetter(Contents[j][l])
                /\ i < j \/ (i = j /\ k < l)
                => Contents[i][k] < Contents[j][l]
    /\ UNION {LettersIn(Contents[i]) : i \in DOMAIN Contents} = 1..doc.letters

BeforeLines == [i |-> 1, fence |-> "none", headers |-> <<>>, first |-> 1, bodies |-> <<>>]

BeforePages == [i |-> 1, pages |-> <<>>]

\* Splitting a text leaves one line at least.
LoopsInit ==
    /\ doc.text \in Seq(Int) /\ doc.pages \in Seq(Seq(Int)) /\ doc.letters \in Nat
    /\ doc.lines \in Seq(LoadedKinds) /\ doc.lineTexts \in Seq(Seq(Int))
    /\ Len(doc.lineTexts) = Len(doc.lines)
    /\ doc.chunker = "markdown" => doc.lines # <<>>
    /\ InOrder
    /\ config.size \in Nat \ {0} /\ config.overlap \in Nat
    /\ pc = "start" /\ md = BeforeLines /\ pdf = BeforePages
    /\ bodyNo = 0 /\ calls = <<>> /\ cur = <<>> /\ chunks = <<>>

-----------------------------------------------------------------------------
(* mdSplitter.Split.  currentLines is joined as it is collected.           *)

Level(kind) == IF kind = "h2" THEN 2 ELSE 3

\* Mutant: the fence that opened the code block not remembered.
AnyFenceCloses(fence, kind) ==
    CASE kind \notin {"backticks", "tildes", "fence"} -> fence
      [] fence = "none" -> "backticks"
      [] OTHER -> "none"

\* The fence of the code block the next line is in, after a line of this kind.
NextFence(fence, kind) ==
    CASE fence = "none" /\ kind \in {"backticks", "fence"} -> "backticks"
      [] fence = "none" /\ kind = "tildes" -> "tildes"
      [] fence = "backticks" /\ kind \in {"backticks", "inline", "fence"} -> "none"
      [] fence = "tildes" /\ kind = "tildes" -> "none"
      [] OTHER -> fence

\* Mutant: the headers below the new one left in the list.
SameHeaders(headers, level) == headers

\* Popped from the end of the list while they are not lower.
OuterHeaders(headers, level) ==
    SubSeq(headers, 1, Max({0} \cup {k \in DOMAIN headers : headers[k].level < level}))

\* currentLines and the headers in force, when there are lines.
WithBody(bodies, to) ==
    IF md.first > to THEN bodies
    ELSE Append(bodies, [from |-> md.first, to |-> to, headers |-> md.headers,
                         text |-> cur])

WithLine(line) == IF md.i = md.first THEN line ELSE cur \o <<Newline>> \o line

IsHeaderNow(kind) == NextFence(md.fence, kind) = "none" /\ kind \in {"h2", "h3"}

ReadingLine ==
    /\ pc = "start" /\ doc.chunker = "markdown"
    /\ md.i <= Len(doc.lines)
    /\ UNCHANGED <<doc, config, pc, pdf, bodyNo, calls, chunks>>

SplitLine ==
    /\ ReadingLine
    /\ LET kind == doc.lines[md.i] IN
       /\ ~IsHeaderNow(kind)
       /\ md' = [md EXCEPT !.i = @ + 1, !.fence = NextFence(@, kind)]
    /\ cur' = WithLine(doc.lineTexts[md.i])

SplitHeader ==
    /\ ReadingLine
    /\ LET kind == doc.lines[md.i] IN
       /\ IsHeaderNow(kind)
       /\ md' = [i |-> md.i + 1, fence |-> "none", first |-> md.i,
                 bodies |-> WithBody(md.bodies, md.i - 1),
                 headers |-> Append(OuterHeaders(md.headers, Level(kind)),
                                    [level |-> Level(kind), line |-> md.i])]
    /\ cur' = doc.lineTexts[md.i]

SplitEnd ==
    /\ pc = "start" /\ doc.chunker = "markdown"
    /\ md.i > Len(doc.lines)
    /\ md' = [md EXCEPT !.bodies = WithBody(@, Len(doc.lines))]
    /\ cur' = <<>>
    /\ pc' = "split"
    /\ UNCHANGED <<doc, config, pdf, bodyNo, calls, chunks>>

\* The header of a level that a body is under.
HeaderAt(headers, level) ==
    IF \E h \in ToSet(headers) : h.level = level
    THEN (CHOOSE h \in ToSet(headers) : h.level = level).line ELSE 0

-----------------------------------------------------------------------------
(* The texts that are split: each body that is too long, or the text of a  *)
(* document that is neither markdown nor has pages.                        *)

Separators ==
    <<<<Newline, Newline>>, <<Newline>>, <<Stop, Space>>, <<Question, Space>>,
      <<Exclamation, Space>>, <<Semicolon, Space>>, <<Comma, Space>>, <<Space>>>>

\* at: "call" when it has just been called, or forceSplitBySize has; "parts"
\* in its loop over the parts; "end" when there are no more.
Call(text, depth) == [text |-> text, depth |-> depth, at |-> "call"]

ChunkOf(text, k) ==
    IF doc.chunker = "markdown"
    THEN [text |-> text, h2 |-> HeaderAt(md.bodies[k].headers, 2),
                         h3 |-> HeaderAt(md.bodies[k].headers, 3)]
    ELSE [text |-> text]

With(list, text) == Append(list, ChunkOf(text, bodyNo))

\* A builder that holds nothing makes no chunk.
Flushed(list) == IF cur = <<>> THEN list ELSE With(list, cur)

IsPlain(chunker) == chunker \notin {"markdown", "pdf"}

\* An empty text makes no chunk.  TokenChunker cuts at the ends of lines only.
BeginText ==
    /\ pc = "start" /\ IsPlain(doc.chunker)
    /\ pc' = "split"
    /\ calls' = IF doc.text = <<>> THEN <<>>
                ELSE IF doc.chunker = "token" THEN <<[Call(doc.text, 2) EXCEPT !.at = "parts"]>>
                ELSE <<Call(doc.text, 1)>>
    /\ UNCHANGED <<doc, config, md, pdf, bodyNo, cur, chunks>>

BeginBody ==
    /\ pc = "split" /\ calls = <<>> /\ bodyNo < Len(md.bodies)
    /\ bodyNo' = bodyNo + 1
    /\ LET text == md.bodies[bodyNo + 1].text
       IN IF Len(text) > config.size
          THEN calls' = <<Call(text, 1)>> /\ UNCHANGED chunks
          ELSE chunks' = Append(chunks, ChunkOf(text, bodyNo + 1)) /\ UNCHANGED calls
    /\ UNCHANGED <<doc, config, pc, md, pdf, cur>>

EndSplit ==
    /\ pc = "split" /\ calls = <<>> /\ bodyNo = Len(md.bodies)
    /\ pc' = "done"
    /\ UNCHANGED <<doc, config, md, pdf, bodyNo, calls, cur, chunks>>

Top == Last(calls)

\* The running call goes on as this, or returns.
GoOn(call) == calls' = Append(Front(calls), call)

Return == calls' = Front(calls)

At(at) ==
    /\ calls # <<>> /\ Top.at = at
    /\ UNCHANGED <<doc, config, pc, md, pdf, bodyNo>>

ReturnText ==
    /\ At("call") /\ Len(Top.text) <= config.size
    /\ chunks' = With(chunks, Top.text)
    /\ Return
    /\ UNCHANGED cur

\* Mutant: a step past the end of the piece.
StrideAhead(size, overlap) == size + 1

\* An overlap as large as the piece would never get on.
Stride(size, overlap) == IF size - overlap <= 0 THEN size ELSE size - overlap

\* forceSplitBySize: a piece of the text, and on to where the next begins.  The
\* last piece is a text that fits.
ForceSplit ==
    /\ At("call") /\ Len(Top.text) > config.size /\ Top.depth > Len(Separators)
    /\ chunks' = With(chunks, SubSeq(Top.text, 1, config.size))
    /\ GoOn([Top EXCEPT !.text = SubSeq(Top.text, Stride(config.size, config.overlap) + 1,
                                        Len(Top.text))])
    /\ UNCHANGED cur

Sep == Separators[Top.depth]

SeparatorFound ==
    /\ At("call") /\ Len(Top.text) > config.size /\ Top.depth <= Len(Separators)
    /\ GoOn(IF Places(Top.text, Sep) = {} THEN [Top EXCEPT !.depth = @ + 1]
                                          ELSE [Top EXCEPT !.at = "parts"])
    /\ UNCHANGED <<cur, chunks>>

\* strings.Split, a part at a time.
FirstPart ==
    IF Places(Top.text, Sep) = {} THEN Top.text
    ELSE SubSeq(Top.text, 1, Min(Places(Top.text, Sep)) - 1)

AfterPart ==
    IF Places(Top.text, Sep) = {} THEN [Top EXCEPT !.text = <<>>, !.at = "end"]
    ELSE [Top EXCEPT !.text = SubSeq(Top.text, Min(Places(Top.text, Sep)) + Len(Sep),
                                     Len(Top.text))]

Part == TrimSpace(FirstPart)

\* Mutant: the separator written by neither.
WithPartGlued(chunker, text, sep, part) == text \o part

\* Mutant: parts joined by a space, whatever they were cut at.
WithPartSpaced(chunker, text, sep, part) ==
    IF text = <<>> THEN part
    ELSE text \o <<Space>> \o part

\* mergeParts of RAGChunker and of CharChunker, which write a part after what
\* the chunk already holds in their own ways.
WithPart(chunker, text, sep, part) ==
    IF text = <<>> THEN part
    ELSE IF chunker = "char" THEN text \o part \o sep
                             ELSE text \o sep \o part

\* Mutant: the length of the separator forgotten.
OverflowsWithoutSeparator(text, sep, part, size) ==
    text # <<>> /\ Len(text) + Len(part) > size

Overflows(text, sep, part, size) ==
    text # <<>> /\ Len(text) + Len(sep) + Len(part) > size

\* The text of the chunk before that a new chunk begins with.
MergeOverlap == IF config.overlap > 0 THEN Suffix(cur, config.overlap) \o Sep ELSE <<>>

ReadingPart == At("parts") /\ doc.chunker # "token"

SkipPart ==
    /\ ReadingPart /\ Part = <<>>
    /\ GoOn(AfterPart)
    /\ UNCHANGED <<cur, chunks>>

\* Parts that fit are merged.  The code collects them first: between one and
\* the next it does nothing else.
MergePart ==
    /\ ReadingPart /\ Part # <<>> /\ Len(Part) <= config.size
    /\ IF Overflows(cur, Sep, Part, config.size)
       THEN /\ chunks' = With(chunks, cur)
            /\ cur' = WithPart(doc.chunker, MergeOverlap, Sep, Part)
       ELSE /\ cur' = WithPart(doc.chunker, cur, Sep, Part)
            /\ UNCHANGED chunks
    /\ GoOn(AfterPart)

\* One that does not fit is split at the next separator.
SplitPart ==
    /\ ReadingPart /\ Len(Part) > config.size
    /\ chunks' = Flushed(chunks)
    /\ cur' = <<>>
    /\ calls' = Append(Append(Front(calls), AfterPart), Call(Part, Top.depth + 1))

EndParts ==
    /\ At("end")
    /\ chunks' = Flushed(chunks)
    /\ cur' = <<>>
    /\ Return

-----------------------------------------------------------------------------
(* TokenChunker.                                                           *)

Tokens(text) == Cardinality({i \in DOMAIN text : ~IsSpace(text[i])})

\* The loop goes from the last character back and takes the first suffix that
\* is small enough: the shortest.
OverlapTail(src, maxTokens) ==
    LET small == {i \in DOMAIN src : Tokens(SubSeq(src, i, Len(src))) <= maxTokens}
    IN IF src = <<>> \/ maxTokens <= 0 THEN <<>>
       ELSE IF small = {} THEN src
       ELSE SubSeq(src, Max(small), Len(src))

TokenLine ==
    /\ At("parts") /\ doc.chunker = "token"
    /\ LET line == FirstPart \o (IF Places(Top.text, Sep) = {} THEN <<>> ELSE Sep)
       IN IF Tokens(cur \o line) > config.size /\ cur # <<>>
          THEN /\ chunks' = With(chunks, cur)
               /\ cur' = OverlapTail(cur, config.overlap) \o line
          ELSE /\ cur' = cur \o line
               /\ UNCHANGED chunks
    /\ GoOn(AfterPart)

-----------------------------------------------------------------------------
(* chunkPDFByPages.                                                        *)

PageEnd == <<Newline, Newline>>

\* Mutant: the list not emptied with the text.
PagesKept(full, listed, i) == Append(listed, i)

PagesWith(full, listed, i) == IF full THEN <<i>> ELSE Append(listed, i)

PageChunk == [text |-> cur, pages |-> pdf.pages]

\* The page does not fit in the chunk.
Full ==
    cur # <<>> /\ Len(cur) + Len(doc.pages[pdf.i]) > config.size

\* The text of the page before that a new chunk begins with.
PageOverlap ==
    IF config.overlap > 0 /\ pdf.i > 1
    THEN Suffix(doc.pages[pdf.i - 1], config.overlap) \o PageEnd
    ELSE <<>>

AddPage ==
    /\ pc = "start" /\ doc.chunker = "pdf"
    /\ pdf.i <= Len(doc.pages)
    /\ chunks' = IF Full THEN Append(chunks, PageChunk) ELSE chunks
    /\ cur' = (IF Full THEN PageOverlap ELSE cur) \o doc.pages[pdf.i] \o PageEnd
    /\ pdf' = [i |-> pdf.i + 1, pages |-> PagesWith(Full, pdf.pages, pdf.i)]
    /\ UNCHANGED <<doc, config, pc, md, bodyNo, calls>>

EndPages ==
    /\ pc = "start" /\ doc.chunker = "pdf"
    /\ pdf.i > Len(doc.pages)
    /\ chunks' = IF cur = <<>> THEN chunks ELSE Append(chunks, PageChunk)
    /\ pc' = "done"
    /\ UNCHANGED <<doc, config, md, pdf, bodyNo, calls, cur>>

-----------------------------------------------------------------------------
LoopsNext ==
    \/ SplitLine \/ SplitHeader \/ SplitEnd
    \/ BeginText \/ BeginBody \/ EndSplit
    \/ ReturnText \/ ForceSplit \/ SeparatorFound
    \/ SkipPart \/ MergePart \/ SplitPart \/ EndParts
    \/ TokenLine
    \/ AddPage \/ EndPages

(* The chunkers, given any document whose lines or pages hold a file's     *)
(* letters in order.  Chunking has this as a property: what the loader     *)
(* makes of a file is such a document (FileLoader, RAGChunker.ChunkDocument*)
(* and Processor.runRAG).                                                  *)
LoopsSpec == LoopsInit /\ [][LoopsNext]_vars

-----------------------------------------------------------------------------
\* A code block is closed by the first line after its opening that starts as
\* that one does.
Closes(o, k) ==
    IF doc.lines[o] = "tildes" THEN doc.lines[k] = "tildes"
                               ELSE doc.lines[k] \in {"backticks", "inline", "fence"}

Closed(o, to) == \E k \in o + 1..to : Closes(o, k)

\* The lines that open the code blocks among the first n lines: those that
\* start as a fence does when every block opened before is closed.
AreOpenings(open, n) ==
    \A j \in 1..n :
       j \in open <=> /\ doc.lines[j] \in {"backticks", "tildes", "fence"}
                     /\ \A o \in open : o < j => Closed(o, j - 1)

IsHeader(open, l, kind) ==
    doc.lines[l] = kind /\ \A o \in open : o <= l => Closed(o, l)

\* The last header of a kind among these lines, 0 if there is none.
IsLastHeader(h, open, kind, from, to) ==
    /\ h = 0 \/ (h \in from..to /\ IsHeader(open, h, kind))
    /\ \A l \in from..to : IsHeader(open, l, kind) => l <= h

(* Split returns the lines in order, each in one body, and each line is in *)
(* a body under the last h2 header at or before it, and the last h3 header *)
(* since that one; what looks like a header in a code block is none        *)
(* (mdSplitter.Split).                                                     *)
BodiesUnderHeaders ==
    pc # "start" /\ doc.chunker = "markdown" =>
       /\ \A k \in DOMAIN md.bodies :
             /\ md.bodies[k].from <= md.bodies[k].to
             /\ md.bodies[k].from = IF k = 1 THEN 1 ELSE md.bodies[k - 1].to + 1
       /\ md.bodies # <<>> /\ md.bodies[Len(md.bodies)].to = Len(doc.lines)
       /\ \E open \in SUBSET DOMAIN doc.lines :
             /\ AreOpenings(open, Len(doc.lines))
             /\ \A k \in DOMAIN md.bodies :
                LET body == md.bodies[k]
                    h2 == HeaderAt(body.headers, 2)
                    h3 == HeaderAt(body.headers, 3)
                IN \A l \in body.from..body.to :
                      /\ IsLastHeader(h2, open, "h2", 1, l)
                      /\ IsLastHeader(h3, open, "h3", h2 + 1, l)

(* The page lists of the chunks of a PDF are its pages in order, each      *)
(* once, and the text of a page is in the chunk that lists it              *)
(* (chunkPDFByPages).                                                      *)
PagesListedOnce ==
    pc = "done" /\ doc.chunker = "pdf" =>
       /\ \A c \in DOMAIN chunks : \A k \in DOMAIN chunks[c].pages :
             chunks[c].pages[k] =
                IF k > 1 THEN chunks[c].pages[k - 1] + 1
                ELSE IF c = 1 THEN 1
                ELSE Last(chunks[c - 1].pages) + 1
       /\ \A c \in DOMAIN chunks : chunks[c].pages # <<>>
       /\ doc.pages # <<>> => /\ chunks # <<>>
                              /\ Last(Last(chunks).pages) = Len(doc.pages)
       /\ \A c \in DOMAIN chunks : \A p \in ToSet(chunks[c].pages) :
             ToSet(doc.pages[p]) \subseteq ToSet(chunks[c].text)

Done == pc = "done"

(* A chunker loses, repeats and moves no word, but for the overlap: the    *)
(* letters of each chunk are a run of those of the file; a chunk begins    *)
(* and ends no earlier than those before it; each letter is in a chunk,    *)
(* and in one only when there is no overlap.  Of white space and of the    *)
(* punctuation of separators nothing is said: they are dropped where a     *)
(* text is cut, and written after an overlap (recursiveSplit, mergeParts). *)
ChunksTileDocument ==
    Done =>
       /\ UNION {LettersIn(chunks[c].text) : c \in DOMAIN chunks} = 1..doc.letters
       /\ \A c \in DOMAIN chunks :
          LET text == chunks[c].text
          IN \A k, l \in DOMAIN text :
                IsLetter(text[k]) /\ IsLetter(text[l]) /\ k < l =>
                   text[k] < text[l] /\ text[k]..text[l] \subseteq LettersIn(text)
       /\ \A b, c \in DOMAIN chunks :
             b < c => \A m \in LettersIn(chunks[b].text), n \in LettersIn(chunks[c].text) :
                         /\ \E first \in LettersIn(chunks[b].text) : first <= n
                         /\ \E last \in LettersIn(chunks[c].text) : m <= last
                         /\ config.overlap = 0 => m # n

(* "pieces no larger than ChunkSize" (chunkText) holds without overlap;    *)
(* with it a piece may be larger by the overlap and two separators, and by *)
(* no more.  Pages and the lines of TokenChunker are never cut.            *)
SizeBounded ==
    Done /\ doc.chunker \in {"rag", "char", "markdown"} =>
       \A c \in DOMAIN chunks :
          Len(chunks[c].text) <= config.size + (IF config.overlap = 0 THEN 0
                                                ELSE config.overlap + 4)

(* Two words that white space or punctuation separates in the document are *)
(* never glued in a chunk.  CharChunker is left out: it writes a separator *)
(* after each part but the first, and glues the first two of each piece.   *)
WordsStayApart ==
    Done /\ doc.chunker # "char" =>
       \A c \in DOMAIN chunks : \A k \in 1..Len(chunks[c].text) - 1 :
          LET text == chunks[c].text
          IN IsLetter(text[k]) /\ IsLetter(text[k + 1]) =>
                Places(doc.text, <<text[k], text[k + 1]>>) # {}

Punctuation == {Stop, Question, Exclamation, Semicolon, Comma}

PunctuationAt(text, from, to) == ToSet(SubSeq(text, from, to)) \cap Punctuation

(* A chunk that holds two words holds the same punctuation between them as *)
(* the document: what strings.Split cuts out, mergeParts writes again, at  *)
(* its place and nowhere else.  Where chunks meet, it is lost, or written  *)
(* by the one with the overlap; CharChunker writes it after the part.      *)
PunctuationStays ==
    Done /\ doc.chunker # "char" =>
       \A c \in DOMAIN chunks : \A k, l \in DOMAIN chunks[c].text :
          LET text == chunks[c].text
          IN /\ k < l /\ IsLetter(text[k]) /\ IsLetter(text[l])
             /\ \A i \in k + 1..l - 1 : ~IsLetter(text[i])
             => \E m, n \in DOMAIN doc.text :
                   /\ doc.text[m] = text[k] /\ doc.text[n] = text[l]
                   /\ PunctuationAt(text, k, l) = PunctuationAt(doc.text, m, n)

(* Each chunk of markdown names the last h2 header at or before its lines, *)
(* and the last h3 header since that one; what looks like a header in a    *)
(* code block is none (RAGChunker.chunkMarkdownWithHeaders).               *)
HeadersInForce ==
    Done /\ doc.chunker = "markdown" =>
       \E open \in SUBSET DOMAIN doc.lines :
          /\ AreOpenings(open, Len(doc.lines))
          /\ \A c \in DOMAIN chunks : \A line \in DOMAIN doc.lines :
                LettersIn(chunks[c].text) \cap LettersIn(doc.lineTexts[line]) # {} =>
                   /\ IsLastHeader(chunks[c].h2, open, "h2", 1, line)
                   /\ IsLastHeader(chunks[c].h3, open, "h3", chunks[c].h2 + 1, line)
=============================================================================
