-------------------------- MODULE ChunkLoopsProofs --------------------------
(***************************************************************************)
(* For any document, whatever its lines, pages and text, and any sizes:    *)
(* the page lists of the chunks of a PDF; the headers that bodies and      *)
(* chunks of markdown are under; that the chunks hold the letters of the   *)
(* file in order, none lost; that they are no larger than they may be; and *)
(* that they glue no words together.                                       *)
(*                                                                         *)
(* The first two parts are loops over pages and lines.  The rest is about  *)
(* recursiveSplit.  The letters of a text are a run of those of the file   *)
(* (IsRun); the letters read so far are in the chunks and the builder, and *)
(* the others in the calls that wait, the last call first, each where the  *)
(* one after it ends (SplitInv).  What is said of a step is stated for     *)
(* values (Running, AreSplit) before it is for the variables.              *)
(***************************************************************************)
EXTENDS ChunkLoops, SequenceTheorems, FiniteSetTheorems, TLAPS

DocType ==
    /\ doc.lines \in Seq(LoadedKinds) /\ doc.lineTexts \in Seq(Seq(Int))
    /\ Len(doc.lineTexts) = Len(doc.lines)
    /\ doc.pages \in Seq(Seq(Int)) /\ doc.text \in Seq(Int) /\ doc.letters \in Nat
    /\ doc.chunker = "markdown" => doc.lines # <<>>
    /\ InOrder
    /\ config.size \in Nat \ {0} /\ config.overlap \in Nat

\* Texts are split after the lines are read, and those of pages not at all.
Control ==
    /\ pc \in {"start", "split", "done"}
    /\ pc = "split" => doc.chunker # "pdf"
    /\ pc # "split" => calls = <<>>

Splits ==
    \/ BeginText \/ BeginBody \/ EndSplit
    \/ ReturnText \/ ForceSplit \/ SeparatorFound
    \/ SkipPart \/ MergePart \/ SplitPart \/ EndParts
    \/ TokenLine

LEMMA StepsAre ==
    LoopsNext <=> SplitLine \/ SplitHeader \/ SplitEnd \/ Splits \/ AddPage \/ EndPages
BY DEF LoopsNext, Splits

\* What splitting a text leaves alone.
LEMMA SplitsKeep ==
    ASSUME Control, Splits
    PROVE  /\ UNCHANGED <<doc, config, md, pdf>>
           /\ doc.chunker # "pdf" /\ pc # "done" /\ pc' \in {"split", "done"}
           /\ pc = "start" => IsPlain(doc.chunker) /\ pc' = "split"
           /\ pc' = "done" => calls' = <<>>
<1>1. CASE BeginText \/ BeginBody \/ EndSplit
  BY <1>1 DEF BeginText, BeginBody, EndSplit, IsPlain, Control
<1>2. CASE ReturnText \/ ForceSplit \/ SeparatorFound \/ SkipPart \/ MergePart
           \/ SplitPart \/ EndParts \/ TokenLine
  <2>1. calls # <<>> /\ UNCHANGED <<doc, config, pc, md, pdf>>
    BY <1>2 DEF ReturnText, ForceSplit, SeparatorFound, SkipPart, MergePart, SplitPart,
                EndParts, TokenLine, ReadingPart, At
  <2> QED
    BY <1>2, <2>1 DEF Control
<1> QED
  BY <1>1, <1>2 DEF Splits

LEMMA InitType == LoopsInit => DocType /\ Control
BY DEF LoopsInit, DocType, Control

LEMMA NextType == DocType /\ Control /\ [LoopsNext]_vars => DocType' /\ Control'
<1> SUFFICES ASSUME DocType, Control, [LoopsNext]_vars PROVE DocType' /\ Control'
  OBVIOUS
<1>1. doc' = doc /\ config' = config
  BY StepsAre, SplitsKeep DEF SplitLine, SplitHeader, ReadingLine, SplitEnd, AddPage,
                              EndPages, vars
<1>2. DocType'
  <2>1. Contents' = Contents
    BY <1>1 DEF Contents
  <2>2. InOrder'
    <3>1. \A text, sep : /\ Places(text, sep)' = Places(text, sep)
                         /\ LettersIn(text)' = LettersIn(text)
      BY DEF Places, LettersIn, IsLetter
    <3> QED
      BY <1>1, <2>1, <3>1 DEF DocType, InOrder
  <2> QED
    BY <1>1, <2>2 DEF DocType
<1>3. CASE Splits
  <2>1. /\ doc' = doc /\ doc.chunker # "pdf" /\ pc' \in {"split", "done"}
        /\ pc' = "done" => calls' = <<>>
    BY <1>3, SplitsKeep
  <2> QED
    BY <1>2, <2>1 DEF Control
<1>4. CASE SplitLine \/ SplitHeader \/ SplitEnd \/ AddPage \/ EndPages
  <2>1. /\ doc' = doc /\ pc = "start" /\ calls' = calls
        /\ pc' \in {"start", "split", "done"}
        /\ pc' = "split" => doc.chunker = "markdown"
    BY <1>4 DEF SplitLine, SplitHeader, ReadingLine, SplitEnd, AddPage, EndPages
  <2>2. calls = <<>>
    BY <2>1 DEF Control
  <2>3. Control'
    BY <2>1, <2>2 DEF Control
  <2> QED
    BY <1>2, <2>3
<1>5. CASE UNCHANGED vars
  BY <1>2, <1>5 DEF Control, vars
<1> QED
  BY <1>2, <1>3, <1>4, <1>5, StepsAre

-----------------------------------------------------------------------------
(* The pages.  Each chunk lists the page after those of the chunk before   *)
(* it, and goes on page by page; so do the pages listed for the chunk that *)
(* is being made, up to the one before the next (PagesInv).                *)

PageChunks == [text : Seq(Int), pages : Seq(Nat) \ {<<>>}]

\* The page that the chunk with this number begins with.
PageAfter(list, c) == IF c = 1 THEN 1 ELSE Last(list[c - 1].pages) + 1

Consecutive(pages, from) ==
    \A k \in DOMAIN pages : pages[k] = IF k > 1 THEN pages[k - 1] + 1 ELSE from

HoldsPages(text, pages) ==
    \A p \in ToSet(pages) :
       p \in DOMAIN doc.pages /\ ToSet(doc.pages[p]) \subseteq ToSet(text)

PagesOf(list) ==
    /\ list \in Seq(PageChunks)
    /\ \A c \in DOMAIN list : /\ Consecutive(list[c].pages, PageAfter(list, c))
                              /\ HoldsPages(list[c].text, list[c].pages)

PagesInv ==
    doc.chunker = "pdf" =>
       /\ pc \in {"start", "done"}
       /\ PagesOf(chunks)
       /\ pdf.i \in 1..Len(doc.pages) + 1
       /\ cur \in Seq(Int) /\ pdf.pages \in Seq(Nat)
       /\ pdf.i = 1 => cur = <<>> /\ pdf.pages = <<>> /\ chunks = <<>>
       /\ pc = "start" /\ pdf.i > 1 =>
             /\ cur # <<>> /\ pdf.pages # <<>>
             /\ Consecutive(pdf.pages, PageAfter(chunks, Len(chunks) + 1))
             /\ Last(pdf.pages) = pdf.i - 1
             /\ HoldsPages(cur, pdf.pages)
       /\ pc = "done" =>
             /\ pdf.i = Len(doc.pages) + 1
             /\ pdf.i > 1 => /\ chunks # <<>>
                             /\ Last(Last(chunks).pages) = Len(doc.pages)

LEMMA SuffixType ==
    ASSUME NEW text \in Seq(Int), NEW n \in Nat \ {0}
    PROVE  Suffix(text, n) \in Seq(Int)
<1> DEFINE from == IF n < Len(text) THEN Len(text) - n + 1 ELSE 1
<1>1. from \in Nat \ {0} /\ Len(text) \in Nat
  OBVIOUS
<1> HIDE DEF from
<1>2. SubSeq(text, from, Len(text)) \in Seq(Int)
  BY <1>1
<1> QED
  BY <1>2 DEF Suffix, from

LEMMA ConcatHolds ==
    ASSUME NEW s \in Seq(Int), NEW t \in Seq(Int)
    PROVE  /\ s \o t \in Seq(Int)
           /\ ToSet(s) \subseteq ToSet(s \o t) /\ ToSet(t) \subseteq ToSet(s \o t)
           /\ t # <<>> => s \o t # <<>>
<1>1. s \o t \in Seq(Int) /\ Len(s \o t) = Len(s) + Len(t)
  OBVIOUS
<1>2. \A i \in DOMAIN s : i \in DOMAIN (s \o t) /\ (s \o t)[i] = s[i]
  OBVIOUS
<1>3. \A i \in DOMAIN t : /\ Len(s) + i \in DOMAIN (s \o t)
                          /\ (s \o t)[Len(s) + i] = t[i]
  OBVIOUS
<1>4. t # <<>> => s \o t # <<>>
  <2>1. t # <<>> => Len(t) > 0
    OBVIOUS
  <2> QED
    BY <1>1, <2>1
<1> QED
  BY <1>1, <1>2, <1>3, <1>4 DEF ToSet

\* One chunk more.
LEMMA PagesOfMore ==
    ASSUME NEW list, PagesOf(list), NEW x \in PageChunks,
           Consecutive(x.pages, PageAfter(list, Len(list) + 1)),
           HoldsPages(x.text, x.pages)
    PROVE  /\ PagesOf(Append(list, x))
           /\ Append(list, x) # <<>>
           /\ Last(Append(list, x)) = x
           /\ PageAfter(Append(list, x), Len(Append(list, x)) + 1) = Last(x.pages) + 1
<1> DEFINE more == Append(list, x)
<1>1. list \in Seq(PageChunks)
  BY DEF PagesOf
<1>2. /\ more \in Seq(PageChunks) /\ Len(more) = Len(list) + 1 /\ Len(list) \in Nat
      /\ \A c \in 1..Len(list) : more[c] = list[c]
      /\ more[Len(list) + 1] = x
  BY <1>1
<1>3. DOMAIN list = 1..Len(list) /\ DOMAIN more = 1..Len(list) + 1
  BY <1>1, <1>2
<1> HIDE DEF more
<1>4. ASSUME NEW c \in DOMAIN more
      PROVE  /\ Consecutive(more[c].pages, PageAfter(more, c))
             /\ HoldsPages(more[c].text, more[c].pages)
  <2>1. PageAfter(more, c) = PageAfter(list, c)
    <3>1. c # 1 => c - 1 \in 1..Len(list)
      BY <1>2, <1>3
    <3> QED
      BY <1>2, <3>1 DEF PageAfter
  <2>2. CASE c \in 1..Len(list)
    BY <1>2, <1>3, <2>1, <2>2 DEF PagesOf
  <2>3. CASE c = Len(list) + 1
    BY <1>2, <2>1, <2>3
  <2> QED
    BY <1>2, <1>3, <2>2, <2>3
<1>5. more # <<>> /\ Last(more) = x
  BY <1>2, <1>3 DEF Last
<1>6. PageAfter(more, Len(more) + 1) = Last(x.pages) + 1
  BY <1>2 DEF PageAfter
<1> QED
  BY <1>2, <1>4, <1>5, <1>6 DEF PagesOf, more

\* The page that is added to the chunk being made.
LEMMA ConsecutiveMore ==
    ASSUME NEW pages \in Seq(Nat), NEW from, Consecutive(pages, from),
           NEW i \in Nat, i = IF pages = <<>> THEN from ELSE Last(pages) + 1
    PROVE  /\ Append(pages, i) \in Seq(Nat) /\ Append(pages, i) # <<>>
           /\ Consecutive(Append(pages, i), from) /\ Last(Append(pages, i)) = i
<1> DEFINE more == Append(pages, i)
<1>1. /\ more \in Seq(Nat) /\ Len(more) = Len(pages) + 1 /\ Len(pages) \in Nat
      /\ \A c \in 1..Len(pages) : more[c] = pages[c]
      /\ more[Len(pages) + 1] = i
      /\ DOMAIN more = 1..Len(pages) + 1 /\ DOMAIN pages = 1..Len(pages)
      /\ pages = <<>> <=> Len(pages) = 0
  OBVIOUS
<1> HIDE DEF more
<1>2. ASSUME NEW k \in DOMAIN more
      PROVE  more[k] = IF k > 1 THEN more[k - 1] + 1 ELSE from
  <2>1. CASE k \in 1..Len(pages)
    BY <1>1, <2>1, SMTT(20) DEF Consecutive
  <2>2. CASE k = Len(pages) + 1 /\ Len(pages) > 0
    BY <1>1, <2>2 DEF Last
  <2>3. CASE k = Len(pages) + 1 /\ Len(pages) = 0
    BY <1>1, <2>3
  <2> QED
    BY <1>1, <2>1, <2>2, <2>3
<1>3. more # <<>> /\ Last(more) = i
  BY <1>1 DEF Last
<1> QED
  BY <1>1, <1>2, <1>3 DEF Consecutive, more

LEMMA PageAdded ==
    ASSUME DocType, PagesInv, AddPage, doc.chunker = "pdf"
    PROVE  PagesInv'
<1> DEFINE page == doc.pages[pdf.i]
           before == IF Full THEN PageOverlap ELSE cur
<1>1. /\ pc = "start" /\ pdf.i <= Len(doc.pages)
      /\ chunks' = IF Full THEN Append(chunks, PageChunk) ELSE chunks
      /\ cur' = before \o page \o PageEnd
      /\ pdf' = [i |-> pdf.i + 1, pages |-> PagesWith(Full, pdf.pages, pdf.i)]
      /\ UNCHANGED <<doc, config, pc>>
  BY DEF AddPage
<1>2. /\ doc.pages \in Seq(Seq(Int)) /\ config.overlap \in Nat
      /\ PagesOf(chunks) /\ cur \in Seq(Int) /\ pdf.pages \in Seq(Nat)
      /\ pdf.i \in 1..Len(doc.pages) /\ pdf.i \in DOMAIN doc.pages /\ pdf.i \in Nat
      /\ Len(doc.pages) \in Nat
  BY <1>1, SMTT(20) DEF DocType, PagesInv
<1>3. page \in Seq(Int) /\ PageEnd \in Seq(Int) /\ PageEnd # <<>>
  BY <1>2 DEF PageEnd, Newline
<1>4. before \in Seq(Int)
  <2>1. PageOverlap \in Seq(Int)
    <3>1. CASE config.overlap > 0 /\ pdf.i > 1
      <4>1. doc.pages[pdf.i - 1] \in Seq(Int) /\ config.overlap \in Nat \ {0}
        BY <1>2, <3>1
      <4>2. Suffix(doc.pages[pdf.i - 1], config.overlap) \in Seq(Int)
        BY <4>1, SuffixType
      <4>3. Suffix(doc.pages[pdf.i - 1], config.overlap) \o PageEnd \in Seq(Int)
        BY <1>3, <4>2, ConcatHolds
      <4> QED
        BY <3>1, <4>3 DEF PageOverlap
    <3>2. CASE ~ (config.overlap > 0 /\ pdf.i > 1)
      BY <3>2 DEF PageOverlap
    <3> QED
      BY <3>1, <3>2
  <2> QED
    BY <1>2, <2>1
<1> HIDE DEF page, before
<1>5. /\ cur' \in Seq(Int) /\ cur' # <<>>
      /\ ToSet(before) \subseteq ToSet(cur')
      /\ ToSet(page) \subseteq ToSet(cur')
  <2>1. /\ before \o page \in Seq(Int)
        /\ ToSet(before) \subseteq ToSet(before \o page)
        /\ ToSet(page) \subseteq ToSet(before \o page)
    BY <1>3, <1>4, ConcatHolds
  <2>2. /\ (before \o page) \o PageEnd \in Seq(Int)
        /\ ToSet(before \o page) \subseteq ToSet((before \o page) \o PageEnd)
        /\ (before \o page) \o PageEnd # <<>>
    BY <1>3, <2>1, ConcatHolds
  <2>3. cur' = (before \o page) \o PageEnd
    BY <1>1
  <2> QED
    BY <2>1, <2>2, <2>3
<1>6. pdf'.i = pdf.i + 1 /\ pdf'.i > 1 /\ pdf'.i \in 1..Len(doc.pages) + 1
  BY <1>1, <1>2, SMTT(20)
<1>7. /\ PagesOf(chunks') /\ pdf'.pages \in Seq(Nat) /\ pdf'.pages # <<>>
      /\ Consecutive(pdf'.pages, PageAfter(chunks', Len(chunks') + 1))
      /\ Last(pdf'.pages) = pdf.i
      /\ HoldsPages(cur', pdf'.pages)
  <2>1. CASE Full
    <3>1. /\ chunks' = Append(chunks, PageChunk) /\ pdf'.pages = <<pdf.i>>
      BY <1>1, <2>1 DEF PagesWith
    <3>2. pdf.i > 1
      BY <1>2, <2>1 DEF Full, PagesInv
    <3>3. /\ PageChunk \in PageChunks
          /\ Consecutive(PageChunk.pages, PageAfter(chunks, Len(chunks) + 1))
          /\ HoldsPages(PageChunk.text, PageChunk.pages)
          /\ Last(PageChunk.pages) = pdf.i - 1
      BY <1>1, <1>2, <3>2 DEF PagesInv, PageChunk, PageChunks
    <3>4. PagesOf(chunks') /\ PageAfter(chunks', Len(chunks') + 1) = pdf.i
      BY <1>2, <3>1, <3>3, PagesOfMore
    <3>5. Consecutive(pdf'.pages, pdf.i) /\ Last(pdf'.pages) = pdf.i
          /\ pdf'.pages \in Seq(Nat) /\ pdf'.pages # <<>> /\ ToSet(pdf'.pages) = {pdf.i}
      BY <1>2, <3>1 DEF Consecutive, Last, ToSet
    <3>6. HoldsPages(cur', pdf'.pages)
      BY <1>2, <1>5, <3>5 DEF HoldsPages, page
    <3> QED
      BY <3>4, <3>5, <3>6
  <2>2. CASE ~Full
    <3>1. chunks' = chunks /\ pdf'.pages = Append(pdf.pages, pdf.i) /\ before = cur
      BY <1>1, <2>2 DEF PagesWith, before
    <3> DEFINE from == PageAfter(chunks, Len(chunks) + 1)
    <3>2. /\ Consecutive(pdf.pages, from)
          /\ pdf.i = IF pdf.pages = <<>> THEN from ELSE Last(pdf.pages) + 1
          /\ HoldsPages(cur, pdf.pages)
      <4>1. CASE pdf.i = 1
        <5>1. cur = <<>> /\ pdf.pages = <<>> /\ chunks = <<>>
          BY <4>1 DEF PagesInv
        <5>2. Len(chunks) + 1 = 1
          BY <5>1
        <5>3. from = 1
          BY <5>2 DEF PageAfter
        <5>4. Consecutive(<<>>, from) /\ HoldsPages(<<>>, <<>>)
          BY DEF Consecutive, HoldsPages, ToSet
        <5> QED
          BY <4>1, <5>1, <5>3, <5>4
      <4>2. CASE pdf.i > 1
        <5>1. /\ pdf.pages # <<>> /\ Consecutive(pdf.pages, from)
              /\ Last(pdf.pages) = pdf.i - 1 /\ HoldsPages(cur, pdf.pages)
          BY <1>1, <4>2 DEF PagesInv
        <5>2. pdf.i = Last(pdf.pages) + 1
          BY <1>2, <5>1
        <5> QED
          BY <5>1, <5>2
      <4> QED
        BY <1>2, <4>1, <4>2
    <3> HIDE DEF from
    <3>3. /\ pdf'.pages \in Seq(Nat) /\ pdf'.pages # <<>>
          /\ Consecutive(pdf'.pages, from) /\ Last(pdf'.pages) = pdf.i
      BY <1>2, <3>1, <3>2, ConsecutiveMore
    <3>4. ToSet(pdf'.pages) \subseteq ToSet(pdf.pages) \cup {pdf.i}
      BY <1>2, <3>1, SMTT(20) DEF ToSet
    <3>5. HoldsPages(cur', pdf'.pages)
      BY <1>2, <1>5, <3>1, <3>2, <3>4 DEF HoldsPages, page
    <3> QED
      BY <1>2, <3>1, <3>3, <3>5 DEF from
  <2> QED
    BY <2>1, <2>2
<1>8. (PagesOf(chunks))' <=> PagesOf(chunks')
  BY <1>1 DEF PagesOf, HoldsPages
<1>9. HoldsPages(cur, pdf.pages)' <=> HoldsPages(cur', pdf'.pages)
  BY <1>1 DEF HoldsPages
<1>10. /\ doc' = doc /\ pc' = "start" /\ pdf'.i - 1 = pdf.i
  BY <1>1, <1>2
<1>11. /\ Consecutive(pdf.pages, PageAfter(chunks, Len(chunks) + 1))'
      /\ (Last(pdf.pages) = pdf.i - 1)'
  BY <1>7, <1>10 DEF Consecutive, PageAfter
<1>12. (pdf.i = 1 => cur = <<>> /\ pdf.pages = <<>> /\ chunks = <<>>)'
  BY <1>2, <1>6
<1> QED
  BY <1>5, <1>6, <1>7, <1>8, <1>9, <1>10, <1>11, <1>12 DEF PagesInv

LEMMA PagesEnded ==
    ASSUME DocType, PagesInv, EndPages, doc.chunker = "pdf"
    PROVE  PagesInv'
<1>1. /\ pc = "start" /\ pdf.i > Len(doc.pages) /\ pc' = "done"
      /\ chunks' = IF cur = <<>> THEN chunks ELSE Append(chunks, PageChunk)
      /\ UNCHANGED <<doc, config, pdf, cur>>
  BY DEF EndPages
<1>2. /\ PagesOf(chunks) /\ cur \in Seq(Int) /\ pdf.pages \in Seq(Nat)
      /\ pdf.i \in 1..Len(doc.pages) + 1 /\ Len(doc.pages) \in Nat
  BY DEF DocType, PagesInv
<1>3. /\ PagesOf(chunks')
      /\ pdf.i > 1 => chunks' # <<>> /\ Last(Last(chunks').pages) = pdf.i - 1
      /\ pdf.i = 1 => chunks' = <<>>
  <2>1. CASE pdf.i = 1
    <3>1. cur = <<>> /\ chunks = <<>>
      BY <2>1 DEF PagesInv
    <3>2. chunks' = chunks
      BY <1>1, <3>1
    <3> QED
      BY <1>2, <2>1, <3>1, <3>2
  <2>2. CASE pdf.i > 1
    <3>1. /\ PageChunk \in PageChunks /\ chunks' = Append(chunks, PageChunk)
          /\ Consecutive(PageChunk.pages, PageAfter(chunks, Len(chunks) + 1))
          /\ HoldsPages(PageChunk.text, PageChunk.pages)
          /\ Last(PageChunk.pages) = pdf.i - 1
      BY <1>1, <1>2, <2>2 DEF PagesInv, PageChunk, PageChunks
    <3>2. /\ PagesOf(chunks') /\ chunks' # <<>>
          /\ Last(chunks') = PageChunk
      BY <1>2, <3>1, PagesOfMore
    <3> QED
      BY <2>2, <3>1, <3>2
  <2> QED
    BY <1>2, <2>1, <2>2
<1>4. (PagesOf(chunks))' <=> PagesOf(chunks')
  BY <1>1 DEF PagesOf, HoldsPages
<1>5. /\ pdf' = pdf /\ doc' = doc /\ pc' = "done" /\ pdf.i = Len(doc.pages) + 1
      /\ (pdf.i \in 1..Len(doc.pages) + 1)'
  BY <1>1, <1>2
<1>6. (pdf.i = 1 => cur = <<>> /\ pdf.pages = <<>> /\ chunks = <<>>)'
  <2>1. pdf.i = 1 => cur = <<>> /\ pdf.pages = <<>>
    BY DEF PagesInv
  <2> QED
    BY <1>1, <1>3, <1>5, <2>1
<1>7. (pdf.i > 1 => chunks # <<>> /\ Last(Last(chunks).pages) = Len(doc.pages))'
  <2>1. pdf.i - 1 = Len(doc.pages)
    BY <1>2, <1>5
  <2>2. pdf.i > 1 => chunks' # <<>> /\ Last(Last(chunks').pages) = Len(doc.pages)
    BY <1>3, <2>1
  <2>3. Last(Last(chunks).pages)' = Last(Last(chunks').pages)
    BY DEF Last
  <2> QED
    BY <1>5, <2>2, <2>3
<1>8. (cur \in Seq(Int) /\ pdf.pages \in Seq(Nat))'
  BY <1>1, <1>2
<1> QED
  BY <1>3, <1>4, <1>5, <1>6, <1>7, <1>8 DEF PagesInv

LEMMA PagesInit == LoopsInit => PagesInv
<1> SUFFICES ASSUME LoopsInit PROVE PagesInv
  OBVIOUS
<1>1. Len(doc.pages) \in Nat
  BY DEF LoopsInit
<1> QED
  BY <1>1 DEF LoopsInit, PagesInv, PagesOf, BeforePages

LEMMA PagesNext == DocType /\ Control /\ PagesInv /\ [LoopsNext]_vars => PagesInv'
<1> SUFFICES ASSUME DocType, Control, PagesInv, [LoopsNext]_vars, doc.chunker = "pdf"
             PROVE  PagesInv'
  BY StepsAre, SplitsKeep DEF PagesInv, SplitLine, SplitHeader, ReadingLine, SplitEnd,
                              AddPage, EndPages, vars
<1>1. CASE AddPage
  BY <1>1, PageAdded
<1>2. CASE EndPages
  BY <1>2, PagesEnded
<1>3. CASE SplitLine \/ SplitHeader \/ SplitEnd \/ Splits
  BY <1>3, SplitsKeep DEF PagesInv, SplitLine, SplitHeader, ReadingLine, SplitEnd
<1>4. CASE UNCHANGED vars
  BY <1>4 DEF vars, PagesInv, PagesOf, HoldsPages
<1> QED
  BY <1>1, <1>2, <1>3, <1>4, StepsAre

(* Whatever the pages of a PDF, empty ones and ones longer than a chunk    *)
(* among them, and whatever the size and the overlap of a chunk: the page  *)
(* lists of the chunks are the pages in order, each once, and each page is *)
(* whole in the chunk that lists it.                                       *)
THEOREM PagesAreListed == LoopsSpec => []PagesListedOnce
<1>1. DocType /\ PagesInv => PagesListedOnce
  <2> SUFFICES ASSUME DocType, PagesInv, pc = "done", doc.chunker = "pdf"
               PROVE  PagesListedOnce
    BY DEF PagesListedOnce
  <2>1. chunks \in Seq(PageChunks) /\ PagesOf(chunks)
    BY DEF PagesInv, PagesOf
  <2>2. \A c \in DOMAIN chunks : chunks[c].pages # <<>>
    <3>1. \A c \in DOMAIN chunks : chunks[c] \in PageChunks
      BY <2>1
    <3> QED
      BY <3>1 DEF PageChunks
  <2>3. doc.pages # <<>> => chunks # <<>> /\ Last(Last(chunks).pages) = Len(doc.pages)
    <3>1. doc.pages # <<>> => Len(doc.pages) + 1 > 1
      BY DEF DocType
    <3> QED
      BY <3>1 DEF PagesInv
  <2> QED
    BY <2>1, <2>2, <2>3 DEF PagesListedOnce, PagesOf, Consecutive, PageAfter, HoldsPages
<1>2. LoopsInit /\ [][LoopsNext]_vars => [](DocType /\ Control /\ PagesInv)
  BY InitType, NextType, PagesInit, PagesNext, PTL
<1> QED
  BY <1>1, <1>2, PTL DEF LoopsSpec

-----------------------------------------------------------------------------
(* The lines.  So far, the lines read are those before md.i: the blocks    *)
(* that they open, at most one of which is not closed, the one of md.fence;*)
(* the headers that the next line is under unless it is one; and the       *)
(* bodies, which end before md.first (LinesInv).                           *)

\* The headers in force after the h2 at line a and the h3 at line b.
InForce(a, b) ==
    LET h2 == [level |-> 2, line |-> a]
        h3 == [level |-> 3, line |-> b]
    IN IF b = 0 THEN IF a = 0 THEN <<>> ELSE <<h2>>
                ELSE IF a = 0 THEN <<h3>> ELSE <<h2, h3>>

\* Line l is under these.
Under(open, a, b, l) ==
    IsLastHeader(a, open, "h2", 1, l) /\ IsLastHeader(b, open, "h3", a + 1, l)

FenceOf(o) == IF doc.lines[o] = "tildes" THEN "tildes" ELSE "backticks"

\* The block that is not closed after n lines.
InBlock(open, n, fence) ==
    \/ fence = "none" /\ \A o \in open : Closed(o, n)
    \/ \E o \in open : /\ fence = FenceOf(o) /\ ~Closed(o, n)
                       /\ \A p \in open \ {o} : Closed(p, n)

Bodies == [from : Nat, to : Nat, headers : Seq([level : Nat, line : Nat]),
           text : Seq(Int)]

Loops == [i : Nat, fence : {"none", "backticks", "tildes"}, first : Nat,
          headers : Seq([level : Nat, line : Nat]), bodies : Seq(Bodies)]

Tile(bodies, to) ==
    /\ \A k \in DOMAIN bodies :
          /\ bodies[k].from <= bodies[k].to
          /\ bodies[k].from = IF k = 1 THEN 1 ELSE bodies[k - 1].to + 1
          /\ bodies[k].to <= to
    /\ IF bodies = <<>> THEN to = 0 ELSE bodies[Len(bodies)].to = to

UnderTheirs(open, bodies) ==
    \A k \in DOMAIN bodies : \A l \in bodies[k].from..bodies[k].to :
       Under(open, HeaderAt(bodies[k].headers, 2), HeaderAt(bodies[k].headers, 3), l)

\* After n lines.
Blocks(open, n, fence) ==
    open \subseteq 1..n /\ AreOpenings(open, n) /\ InBlock(open, n, fence)

Headers(open, n) ==
    \E a, b \in 0..n : /\ md.headers = InForce(a, b) /\ Under(open, a, b, n)
                       /\ \A l \in md.first..n : Under(open, a, b, l)

Reading ==
    /\ md.i \in 1..Len(doc.lines) + 1 /\ md.first \in 1..md.i
    /\ md \in Loops /\ cur \in Seq(Int)
    /\ Tile(md.bodies, md.first - 1)
    /\ \E open \in SUBSET (1..md.i - 1) :
          /\ Blocks(open, md.i - 1, md.fence) /\ Headers(open, md.i - 1)
          /\ UnderTheirs(open, md.bodies)

LinesInv ==
    /\ doc.chunker = "markdown" /\ pc = "start" => Reading
    /\ BodiesUnderHeaders

\* The four lists there are.
LEMMA InForceIs ==
    ASSUME NEW a \in Nat, NEW b \in Nat
    PROVE  /\ a = 0 /\ b = 0 => InForce(a, b) = <<>>
           /\ a # 0 /\ b = 0 => InForce(a, b) = <<[level |-> 2, line |-> a]>>
           /\ a = 0 /\ b # 0 => InForce(a, b) = <<[level |-> 3, line |-> b]>>
           /\ a # 0 /\ b # 0 => InForce(a, b) = <<[level |-> 2, line |-> a],
                                                  [level |-> 3, line |-> b]>>
BY DEF InForce

LEMMA InForceType ==
    ASSUME NEW a \in Nat, NEW b \in Nat
    PROVE  InForce(a, b) \in Seq([level : Nat, line : Nat])
<1> DEFINE h2 == [level |-> 2, line |-> a]
           h3 == [level |-> 3, line |-> b]
           H == [level : Nat, line : Nat]
<1>1. h2 \in H /\ h3 \in H
  OBVIOUS
<1>2. \/ InForce(a, b) = <<>> \/ InForce(a, b) = <<h2>>
      \/ InForce(a, b) = <<h3>> \/ InForce(a, b) = <<h2, h3>>
  BY DEF InForce
<1> HIDE DEF h2, h3, H
<1>3. <<>> \in Seq(H) /\ <<h2>> \in Seq(H) /\ <<h3>> \in Seq(H)
  BY <1>1
<1>4. <<h2, h3>> \in Seq(H)
  BY <1>1
<1>5. InForce(a, b) \in Seq(H)
  BY <1>2, <1>3, <1>4
<1> QED
  BY <1>5 DEF H

LEMMA HeaderAtIs ==
    ASSUME NEW a \in Nat, NEW b \in Nat
    PROVE  HeaderAt(InForce(a, b), 2) = a /\ HeaderAt(InForce(a, b), 3) = b
<1> DEFINE h2 == [level |-> 2, line |-> a]
           h3 == [level |-> 3, line |-> b]
<1>1. ToSet(InForce(a, b)) = (IF a = 0 THEN {} ELSE {h2}) \cup (IF b = 0 THEN {} ELSE {h3})
  <2>1. ToSet(<<>>) = {} /\ ToSet(<<h2>>) = {h2} /\ ToSet(<<h3>>) = {h3}
    BY DEF ToSet
  <2>2. ToSet(<<h2, h3>>) = {h2, h3}
    BY DEF ToSet
  <2> QED
    BY <2>1, <2>2, InForceIs
<1>2. h2.level = 2 /\ h2.line = a /\ h3.level = 3 /\ h3.line = b
  OBVIOUS
<1> HIDE DEF h2, h3
<1>3. HeaderAt(InForce(a, b), 2) = a
  BY <1>1, <1>2 DEF HeaderAt
<1>4. HeaderAt(InForce(a, b), 3) = b
  BY <1>1, <1>2 DEF HeaderAt
<1> QED
  BY <1>3, <1>4

LEMMA MaxIs ==
    ASSUME NEW S \in SUBSET Int, NEW m \in S, \A x \in S : x <= m
    PROVE  Max(S) = m
<1>1. Max(S) \in S /\ \A x \in S : Max(S) >= x
  BY DEF Max
<1>2. m \in Int /\ Max(S) \in Int /\ Max(S) >= m /\ Max(S) <= m
  BY <1>1
<1> QED
  BY <1>2

LEMMA FirstOne ==
    ASSUME NEW T, NEW list \in Seq(T), Len(list) >= 1
    PROVE  SubSeq(list, 1, 1) = <<list[1]>>
<1> DEFINE front == SubSeq(list, 1, 1)
           one == <<list[1]>>
<1>1. front \in Seq(T) /\ Len(front) = 1 /\ front[1] = list[1]
  OBVIOUS
<1>2. one \in Seq(T) /\ Len(one) = 1 /\ one[1] = list[1]
  OBVIOUS
<1> HIDE DEF front, one
<1>3. Len(front) = Len(one) /\ \A i \in 1..Len(front) : front[i] = one[i]
  BY <1>1, <1>2
<1>4. front = one
  BY <1>1, <1>2, <1>3, SeqEqual
<1> QED
  BY <1>4 DEF front, one

\* A header of level 2 ends those in force, one of level 3 those below it.
LEMMA OuterIs ==
    ASSUME NEW a \in Nat, NEW b \in Nat
    PROVE  OuterHeaders(InForce(a, b), 2) = <<>> /\ OuterHeaders(InForce(a, b), 3) = InForce(a, 0)
<1> DEFINE list == InForce(a, b)
           S(level) == {0} \cup {k \in DOMAIN list : list[k].level < level}
<1>1. /\ S(2) = {0}
      /\ S(3) = IF a = 0 THEN {0} ELSE {0, 1}
  <2>1. CASE a = 0 /\ b = 0
    BY <2>1, InForceIs
  <2>2. CASE a # 0 /\ b = 0
    BY <2>2, InForceIs
  <2>3. CASE a = 0 /\ b # 0
    BY <2>3, InForceIs
  <2>4. CASE a # 0 /\ b # 0
    BY <2>4, InForceIs
  <2> QED
    BY <2>1, <2>2, <2>3, <2>4
<1>2. Max({0}) = 0 /\ Max({0, 1}) = 1
  BY MaxIs
<1>3. OuterHeaders(list, 2) = SubSeq(list, 1, 0)
  BY <1>1, <1>2 DEF OuterHeaders
<1>4. OuterHeaders(list, 3) = SubSeq(list, 1, IF a = 0 THEN 0 ELSE 1)
  BY <1>1, <1>2 DEF OuterHeaders
<1>5. SubSeq(list, 1, 0) = <<>>
  <2>1. list \in Seq([level : Nat, line : Nat])
    BY InForceType
  <2> HIDE DEF list
  <2> QED
    BY <2>1
<1>6. a # 0 => SubSeq(list, 1, 1) = InForce(a, 0)
  <2> SUFFICES ASSUME a # 0 PROVE SubSeq(list, 1, 1) = InForce(a, 0)
    OBVIOUS
  <2>1. list \in Seq([level : Nat, line : Nat])
    BY InForceType
  <2>2. list[1] = [level |-> 2, line |-> a]
    BY InForceIs
  <2>3. InForce(a, 0) = <<[level |-> 2, line |-> a]>>
    BY DEF InForce
  <2>4. Len(list) >= 1
    BY InForceIs
  <2> HIDE DEF list
  <2>5. SubSeq(list, 1, 1) = <<list[1]>>
    BY <2>1, <2>4, FirstOne
  <2> QED
    BY <2>2, <2>3, <2>5
<1> QED
  BY <1>3, <1>4, <1>5, <1>6, InForceIs

LEMMA ClosedMore ==
    ASSUME NEW n \in Nat
    PROVE  /\ \A o \in 1..n : Closed(o, n + 1) <=> Closed(o, n) \/ Closes(o, n + 1)
           /\ ~ Closed(n + 1, n + 1)
<1>1. \A o \in 1..n : o + 1..n + 1 = o + 1..n \cup {n + 1}
  OBVIOUS
<1>2. (n + 1) + 1..n + 1 = {}
  OBVIOUS
<1> QED
  BY <1>1, <1>2 DEF Closed

\* One line more: the block it opens if it opens one.
OpeningsWith(open, n, fence) ==
    IF fence = "none" /\ doc.lines[n + 1] \in {"backticks", "tildes", "fence"}
    THEN open \cup {n + 1} ELSE open

LEMMA OpeningsMore ==
    ASSUME NEW n \in Nat, NEW open, NEW fence, Blocks(open, n, fence),
           doc.lines[n + 1] \in LoadedKinds
    PROVE  Blocks(OpeningsWith(open, n, fence), n + 1, NextFence(fence, doc.lines[n + 1]))
<1> DEFINE kind == doc.lines[n + 1]
           more == OpeningsWith(open, n, fence)
<1>1. /\ open \subseteq 1..n /\ AreOpenings(open, n) /\ InBlock(open, n, fence)
      /\ more = IF fence = "none" /\ kind \in {"backticks", "tildes", "fence"}
                THEN open \cup {n + 1} ELSE open
  BY DEF Blocks, OpeningsWith
<1>2. /\ \A o \in open : Closed(o, n + 1) <=> Closed(o, n) \/ Closes(o, n + 1)
      /\ ~ Closed(n + 1, n + 1)
  BY <1>1, ClosedMore
<1>3. /\ fence = "none" <=> \A o \in open : Closed(o, n)
      /\ fence \in {"none", "backticks", "tildes"}
  BY <1>1 DEF InBlock, FenceOf
<1> HIDE DEF more
<1>4. AreOpenings(more, n + 1)
  <2> SUFFICES ASSUME NEW j \in 1..n + 1
               PROVE  j \in more <=> /\ doc.lines[j] \in {"backticks", "tildes", "fence"}
                                     /\ \A o \in more : o < j => Closed(o, j - 1)
    BY DEF AreOpenings
  <2>1. CASE j \in 1..n
    <3>1. /\ j \in more <=> j \in open
          /\ \A o : o < j => (o \in more <=> o \in open)
      BY <1>1, <2>1
    <3> QED
      BY <1>1, <2>1, <3>1 DEF AreOpenings
  <2>2. CASE j = n + 1
    <3>1. /\ \A o \in open : o < j
          /\ \A o \in more : o < j => o \in open
          /\ j - 1 = n /\ j \notin open /\ open \subseteq more
      BY <1>1, <2>2
    <3> QED
      BY <1>1, <1>3, <2>2, <3>1
  <2> QED
    BY <2>1, <2>2
<1>5. InBlock(more, n + 1, NextFence(fence, kind))
  <2>1. CASE fence = "none" /\ kind \in {"backticks", "tildes", "fence"}
    <3>1. more = open \cup {n + 1} /\ n + 1 \notin open
      BY <1>1, <2>1
    <3>2. NextFence(fence, kind) = FenceOf(n + 1)
      BY <2>1 DEF NextFence, FenceOf
    <3>3. \A p \in more \ {n + 1} : Closed(p, n + 1)
      BY <1>2, <1>3, <2>1, <3>1
    <3> QED
      BY <1>2, <3>1, <3>2, <3>3 DEF InBlock
  <2>2. CASE fence = "none" /\ kind \notin {"backticks", "tildes", "fence"}
    <3>1. more = open /\ NextFence(fence, kind) = "none"
      BY <1>1, <2>2 DEF NextFence
    <3> QED
      BY <1>2, <1>3, <2>2, <3>1 DEF InBlock
  <2>3. CASE fence # "none"
    <3>1. more = open
      BY <1>1, <2>3
    <3>2. PICK o \in open : /\ fence = FenceOf(o) /\ ~ Closed(o, n)
                            /\ \A p \in open \ {o} : Closed(p, n)
      BY <1>1, <2>3 DEF InBlock
    <3>3. CASE Closes(o, n + 1)
      <4>1. NextFence(fence, kind) = "none"
        BY <3>2, <3>3 DEF NextFence, FenceOf, Closes
      <4> QED
        BY <1>2, <3>1, <3>2, <3>3, <4>1 DEF InBlock
    <3>4. CASE ~ Closes(o, n + 1)
      <4>1. NextFence(fence, kind) = fence
        BY <3>2, <3>4 DEF NextFence, FenceOf, Closes
      <4> QED
        BY <1>2, <3>1, <3>2, <3>4, <4>1 DEF InBlock
    <3> QED
      BY <3>3, <3>4
  <2> QED
    BY <2>1, <2>2, <2>3
<1> QED
  BY <1>1, <1>4, <1>5 DEF Blocks, more

\* What the next line is, and that those before it are what they were.
LEMMA HeadersMore ==
    ASSUME NEW n \in Nat, NEW open, NEW fence, Blocks(open, n, fence)
    PROVE  /\ \A l \in 1..n : \A kind : IsHeader(OpeningsWith(open, n, fence), l, kind)
                                    <=> IsHeader(open, l, kind)
           /\ \A kind \in {"h2", "h3"} :
                 IsHeader(OpeningsWith(open, n, fence), n + 1, kind)
                 <=> doc.lines[n + 1] = kind /\ NextFence(fence, kind) = "none"
<1> DEFINE more == OpeningsWith(open, n, fence)
<1>1. /\ open \subseteq 1..n /\ InBlock(open, n, fence)
      /\ more = IF fence = "none" /\ doc.lines[n + 1] \in {"backticks", "tildes", "fence"}
                THEN open \cup {n + 1} ELSE open
  BY DEF Blocks, OpeningsWith
<1> HIDE DEF more
<1>2. ASSUME NEW l \in 1..n, NEW kind
      PROVE  IsHeader(more, l, kind) <=> IsHeader(open, l, kind)
  <2>1. \A o : o <= l => (o \in more <=> o \in open)
    BY <1>1
  <2> QED
    BY <2>1 DEF IsHeader
<1>3. ASSUME NEW kind \in {"h2", "h3"}, doc.lines[n + 1] = kind
      PROVE  IsHeader(more, n + 1, kind) <=> NextFence(fence, kind) = "none"
  <2>1. more = open /\ \A o \in open : o <= n + 1
    BY <1>1, <1>3
  <2>2. \A o \in open : Closed(o, n + 1) <=> Closed(o, n)
    BY <1>1, <1>3, ClosedMore DEF Closes
  <2>3. NextFence(fence, kind) = fence
    BY <1>3 DEF NextFence
  <2>4. fence = "none" <=> \A o \in open : Closed(o, n)
    BY <1>1 DEF InBlock, FenceOf
  <2> QED
    BY <1>3, <2>1, <2>2, <2>3, <2>4 DEF IsHeader
<1>4. \A kind : IsHeader(more, n + 1, kind) => doc.lines[n + 1] = kind
  BY DEF IsHeader
<1> QED
  BY <1>2, <1>3, <1>4 DEF more

\* A line stays under the headers it was under.
LEMMA UnderSame ==
    ASSUME NEW n \in Nat, NEW open, NEW more,
           \A l \in 1..n : \A kind : IsHeader(more, l, kind) <=> IsHeader(open, l, kind),
           NEW l \in 0..n, NEW a, NEW b, Under(open, a, b, l)
    PROVE  Under(more, a, b, l)
<1>1. /\ IsLastHeader(a, open, "h2", 1, l) /\ IsLastHeader(b, open, "h3", a + 1, l)
      /\ a \in 0..l
  BY DEF Under, IsLastHeader
<1>2. 1..l \subseteq 1..n /\ a + 1..l \subseteq 1..n
  BY <1>1
<1>3. IsLastHeader(a, more, "h2", 1, l)
  BY <1>1, <1>2 DEF IsLastHeader
<1>4. IsLastHeader(b, more, "h3", a + 1, l)
  BY <1>1, <1>2 DEF IsLastHeader
<1> QED
  BY <1>3, <1>4 DEF Under

\* The next line, if it is no header, an h2 or an h3.
LEMMA UnderNext ==
    ASSUME NEW n \in Nat, NEW open, NEW a, NEW b, Under(open, a, b, n)
    PROVE  /\ ~ IsHeader(open, n + 1, "h2") /\ ~ IsHeader(open, n + 1, "h3")
              => Under(open, a, b, n + 1)
           /\ IsHeader(open, n + 1, "h2") => Under(open, n + 1, 0, n + 1)
           /\ IsHeader(open, n + 1, "h3") => Under(open, a, n + 1, n + 1)
<1>1. /\ a \in 0..n /\ b \in 0..n
      /\ IsLastHeader(a, open, "h2", 1, n) /\ IsLastHeader(b, open, "h3", a + 1, n)
  BY DEF Under, IsLastHeader
<1>2. /\ 1..n + 1 = 1..n \cup {n + 1} /\ a + 1..n + 1 = a + 1..n \cup {n + 1}
      /\ (n + 1) + 1..n + 1 = {}
  BY <1>1
<1>3. ~ IsHeader(open, n + 1, "h2") => IsLastHeader(a, open, "h2", 1, n + 1)
  BY <1>1, <1>2 DEF IsLastHeader
<1>4. ~ IsHeader(open, n + 1, "h3") => IsLastHeader(b, open, "h3", a + 1, n + 1)
  BY <1>1, <1>2 DEF IsLastHeader
<1>5. IsHeader(open, n + 1, "h3") => ~ IsHeader(open, n + 1, "h2")
  BY DEF IsHeader
<1>6. IsHeader(open, n + 1, "h2") => /\ IsLastHeader(n + 1, open, "h2", 1, n + 1)
                                     /\ IsLastHeader(0, open, "h3", (n + 1) + 1, n + 1)
  BY <1>2 DEF IsLastHeader
<1>7. IsHeader(open, n + 1, "h3") => IsLastHeader(n + 1, open, "h3", a + 1, n + 1)
  BY <1>1, <1>2 DEF IsLastHeader
<1> QED
  BY <1>3, <1>4, <1>5, <1>6, <1>7 DEF Under

\* The bodies before the line that is read stay under theirs.
LEMMA BodiesSame ==
    ASSUME NEW n \in Nat, NEW open, NEW more,
           \A l \in 1..n : \A kind : IsHeader(more, l, kind) <=> IsHeader(open, l, kind),
           NEW bodies \in Seq(Bodies), NEW to \in 0..n, Tile(bodies, to),
           UnderTheirs(open, bodies)
    PROVE  UnderTheirs(more, bodies)
<1> SUFFICES ASSUME NEW k \in DOMAIN bodies, NEW l \in bodies[k].from..bodies[k].to
             PROVE  Under(more, HeaderAt(bodies[k].headers, 2),
                                HeaderAt(bodies[k].headers, 3), l)
  BY DEF UnderTheirs
<1>1. bodies[k] \in Bodies
  OBVIOUS
<1>2. l \in 0..n
  BY <1>1 DEF Tile, Bodies
<1>3. Under(open, HeaderAt(bodies[k].headers, 2), HeaderAt(bodies[k].headers, 3), l)
  BY DEF UnderTheirs
<1> QED
  BY <1>2, <1>3, UnderSame

\* The lines since md.first, all those before the next, put in a body.
LEMMA BodyDone ==
    ASSUME NEW n \in Nat, NEW open,
           md.bodies \in Seq(Bodies), md.first \in 1..n + 1, cur \in Seq(Int),
           Tile(md.bodies, md.first - 1), Headers(open, n), UnderTheirs(open, md.bodies)
    PROVE  /\ WithBody(md.bodies, n) \in Seq(Bodies)
           /\ Tile(WithBody(md.bodies, n), n)
           /\ UnderTheirs(open, WithBody(md.bodies, n))
<1>1. CASE md.first > n
  <2>1. md.first - 1 = n
    BY <1>1
  <2>2. WithBody(md.bodies, n) = md.bodies
    BY <1>1 DEF WithBody
  <2> QED
    BY <2>1, <2>2
<1>2. CASE md.first <= n
  <2> DEFINE body == [from |-> md.first, to |-> n, headers |-> md.headers, text |-> cur]
             more == Append(md.bodies, body)
  <2>1. PICK a, b \in 0..n : /\ md.headers = InForce(a, b)
                             /\ \A l \in md.first..n : Under(open, a, b, l)
    BY DEF Headers
  <2>2. /\ body \in Bodies
        /\ HeaderAt(body.headers, 2) = a /\ HeaderAt(body.headers, 3) = b
        /\ body.from = md.first /\ body.to = n
    <3>1. md.headers \in Seq([level : Nat, line : Nat])
      BY <2>1, InForceType
    <3>2. HeaderAt(md.headers, 2) = a /\ HeaderAt(md.headers, 3) = b
      BY <2>1, HeaderAtIs
    <3> QED
      BY <3>1, <3>2 DEF Bodies
  <2> HIDE DEF body
  <2>3. /\ more \in Seq(Bodies) /\ Len(more) = Len(md.bodies) + 1 /\ Len(md.bodies) \in Nat
        /\ DOMAIN more = 1..Len(md.bodies) + 1 /\ DOMAIN md.bodies = 1..Len(md.bodies)
        /\ \A k \in 1..Len(md.bodies) : more[k] = md.bodies[k]
        /\ more[Len(md.bodies) + 1] = body
        /\ md.bodies = <<>> <=> Len(md.bodies) = 0
    <3> HIDE DEF Bodies
    <3> QED
      BY <2>2
  <2> HIDE DEF more
  <2>4. more # <<>>
    <3>1. Len(more) # 0
      BY <2>3
    <3> QED
      BY <3>1
  <2>5. Tile(more, n)
    <3>1. ASSUME NEW k \in DOMAIN more
          PROVE  /\ more[k].from <= more[k].to /\ more[k].to <= n
                 /\ more[k].from = IF k = 1 THEN 1 ELSE more[k - 1].to + 1
      <4>1. CASE k \in 1..Len(md.bodies)
        <5>1. /\ md.bodies[k] \in Bodies /\ md.bodies[k].from <= md.bodies[k].to
              /\ md.bodies[k].to <= md.first - 1
              /\ md.bodies[k].from = IF k = 1 THEN 1 ELSE md.bodies[k - 1].to + 1
          BY <2>3, <4>1 DEF Tile
        <5>2. k # 1 => more[k - 1] = md.bodies[k - 1]
          <6>1. k # 1 => k - 1 \in 1..Len(md.bodies)
            BY <2>3, <4>1
          <6> QED
            BY <2>3, <6>1
        <5>3. md.bodies[k].to \in Nat /\ more[k] = md.bodies[k]
          BY <2>3, <4>1, <5>1 DEF Bodies
        <5>4. md.bodies[k].to <= n
          BY <1>2, <5>1, <5>3
        <5> QED
          BY <5>1, <5>2, <5>3, <5>4
      <4>2. CASE k = Len(md.bodies) + 1
        <5>1. k # 1 => more[k - 1] = md.bodies[Len(md.bodies)] /\ md.bodies # <<>>
          <6>1. k - 1 = Len(md.bodies) /\ (k # 1 => Len(md.bodies) \in 1..Len(md.bodies))
            BY <2>3, <4>2
          <6>2. \A j \in 1..Len(md.bodies) : more[j] = md.bodies[j]
            BY <2>3
          <6>3. k # 1 => more[k - 1] = md.bodies[Len(md.bodies)]
            BY <6>1, <6>2, Zenon
          <6>4. k # 1 => Len(md.bodies) # 0
            BY <2>3, <6>1
          <6>5. Len(md.bodies) # 0 => md.bodies # <<>>
            BY <2>3
          <6> QED
            BY <6>3, <6>4, <6>5
        <5>2. IF md.bodies = <<>> THEN md.first - 1 = 0
              ELSE md.bodies[Len(md.bodies)].to = md.first - 1
          BY DEF Tile
        <5>3. /\ more[k] = body /\ (k = 1 <=> md.bodies = <<>>)
              /\ md.first - 1 + 1 = md.first
          BY <2>3, <4>2
        <5>4. more[k].from = IF k = 1 THEN 1 ELSE more[k - 1].to + 1
          BY <2>2, <5>1, <5>2, <5>3
        <5> QED
          BY <1>2, <2>2, <5>3, <5>4
      <4> QED
        BY <2>3, <4>1, <4>2
    <3>2. more[Len(more)].to = n
      BY <2>2, <2>3
    <3> QED
      BY <2>4, <3>1, <3>2 DEF Tile
  <2>6. UnderTheirs(open, more)
    <3> SUFFICES ASSUME NEW k \in DOMAIN more, NEW l \in more[k].from..more[k].to
                 PROVE  Under(open, HeaderAt(more[k].headers, 2),
                                    HeaderAt(more[k].headers, 3), l)
      BY DEF UnderTheirs
    <3>1. CASE k \in 1..Len(md.bodies)
      BY <2>3, <3>1 DEF UnderTheirs
    <3>2. CASE k = Len(md.bodies) + 1
      BY <2>1, <2>2, <2>3, <3>2
    <3> QED
      BY <2>3, <3>1, <3>2
  <2>7. WithBody(md.bodies, n) = more
    BY <1>2 DEF WithBody, more, body
  <2> QED
    BY <2>3, <2>5, <2>6, <2>7
<1> QED
  BY <1>1, <1>2

LEMMA AppendOne ==
    ASSUME NEW x, NEW y
    PROVE  Append(<<>>, x) = <<x>> /\ Append(<<x>>, y) = <<x, y>>
<1> DEFINE T == {x, y}
           p == Append(<<>>, x)
           q == <<x>>
           r == Append(<<x>>, y)
           s == <<x, y>>
<1>1. /\ p \in Seq(T) /\ Len(p) = 1 /\ p[1] = x
      /\ q \in Seq(T) /\ Len(q) = 1 /\ q[1] = x
  OBVIOUS
<1>2. /\ r \in Seq(T) /\ Len(r) = 2 /\ r[1] = x /\ r[2] = y
      /\ s \in Seq(T) /\ Len(s) = 2 /\ s[1] = x /\ s[2] = y
  OBVIOUS
<1> HIDE DEF p, q, r, s
<1>3. /\ Len(p) = Len(q) /\ \A i \in 1..Len(p) : p[i] = q[i]
      /\ Len(r) = Len(s) /\ \A i \in 1..Len(r) : r[i] = s[i]
  BY <1>1, <1>2
<1>4. p = q /\ r = s
  BY <1>1, <1>2, <1>3, SeqEqual
<1> QED
  BY <1>4 DEF p, q, r, s

LEMMA InForceMore ==
    ASSUME NEW a \in Nat, NEW b \in Nat, NEW i \in Nat \ {0}
    PROVE  /\ Append(OuterHeaders(InForce(a, b), 2), [level |-> 2, line |-> i]) = InForce(i, 0)
           /\ Append(OuterHeaders(InForce(a, b), 3), [level |-> 3, line |-> i]) = InForce(a, i)
<1> DEFINE h2(l) == [level |-> 2, line |-> l]
           h3(l) == [level |-> 3, line |-> l]
<1>1. /\ InForce(i, 0) = <<h2(i)>>
      /\ InForce(a, i) = IF a = 0 THEN <<h3(i)>> ELSE <<h2(a), h3(i)>>
      /\ InForce(a, 0) = IF a = 0 THEN <<>> ELSE <<h2(a)>>
  BY DEF InForce
<1>2. /\ OuterHeaders(InForce(a, b), 2) = <<>>
      /\ OuterHeaders(InForce(a, b), 3) = InForce(a, 0)
  BY OuterIs
<1>3. /\ Append(<<>>, h2(i)) = <<h2(i)>> /\ Append(<<>>, h3(i)) = <<h3(i)>>
      /\ Append(<<h2(a)>>, h3(i)) = <<h2(a), h3(i)>>
  BY AppendOne
<1> HIDE DEF h2, h3
<1>4. /\ Append(OuterHeaders(InForce(a, b), 2), h2(i)) = InForce(i, 0)
      /\ Append(OuterHeaders(InForce(a, b), 3), h3(i)) = InForce(a, i)
  BY <1>1, <1>2, <1>3
<1> QED
  BY <1>4 DEF h2, h3

\* A document does not change, nor then does what is said of it.
LEMMA SameDoc ==
    ASSUME doc' = doc
    PROVE  /\ \A open, n, fence : Blocks(open, n, fence)' <=> Blocks(open, n, fence)
           /\ \A open, n : AreOpenings(open, n)' <=> AreOpenings(open, n)
           /\ \A open, a, b, l : Under(open, a, b, l)' <=> Under(open, a, b, l)
           /\ \A open, bodies : UnderTheirs(open, bodies)' <=> UnderTheirs(open, bodies)
<1>1. \A o, n : Closed(o, n)' <=> Closed(o, n)
  BY DEF Closed, Closes
<1>2. \A open, n : AreOpenings(open, n)' <=> AreOpenings(open, n)
  BY <1>1 DEF AreOpenings
<1>3. \A open, n, fence : InBlock(open, n, fence)' <=> InBlock(open, n, fence)
  BY <1>1 DEF InBlock, FenceOf
<1>4. \A open, l, kind : IsHeader(open, l, kind)' <=> IsHeader(open, l, kind)
  BY <1>1 DEF IsHeader
<1>5. \A h, open, kind, from, to :
         IsLastHeader(h, open, kind, from, to)' <=> IsLastHeader(h, open, kind, from, to)
  BY <1>4 DEF IsLastHeader
<1>6. \A open, a, b, l : Under(open, a, b, l)' <=> Under(open, a, b, l)
  BY <1>5 DEF Under
<1>7. \A open, bodies : UnderTheirs(open, bodies)' <=> UnderTheirs(open, bodies)
  BY <1>6 DEF UnderTheirs
<1> QED
  BY <1>2, <1>3, <1>6, <1>7 DEF Blocks

\* What a step of the loop starts from, and what it has to reach.
LEMMA LineRead ==
    ASSUME DocType, Reading, ReadingLine
    PROVE  /\ md.i - 1 \in Nat /\ md.i = (md.i - 1) + 1
           /\ md.i \in 1..Len(doc.lines) /\ doc.lines[md.i] \in LoadedKinds
           /\ md.first \in 1..(md.i - 1) + 1 /\ Len(doc.lines) \in Nat
           /\ cur \in Seq(Int) /\ doc.lineTexts[md.i] \in Seq(Int)
<1>1. /\ md.i \in 1..Len(doc.lines) + 1 /\ md.first \in 1..md.i /\ md.i <= Len(doc.lines)
      /\ Len(doc.lines) \in Nat /\ cur \in Seq(Int)
  BY DEF DocType, Reading, ReadingLine
<1>2. md.i \in 1..Len(doc.lines)
  BY <1>1
<1>3. doc.lines[md.i] \in LoadedKinds /\ doc.lineTexts[md.i] \in Seq(Int)
  BY <1>2 DEF DocType
<1> QED
  BY <1>1, <1>2, <1>3

LEMMA ReadingOn ==
    ASSUME doc' = doc, md' \in Loops, cur' \in Seq(Int),
           NEW n \in 0..Len(doc.lines), md'.i = n + 1, md'.first \in 1..n + 1,
           Tile(md'.bodies, md'.first - 1),
           NEW open \in SUBSET (1..n), Blocks(open, n, md'.fence),
           UnderTheirs(open, md'.bodies),
           NEW a \in 0..n, NEW b \in 0..n, md'.headers = InForce(a, b),
           Under(open, a, b, n), \A l \in md'.first..n : Under(open, a, b, l)
    PROVE  Reading'
<1>1. md'.i - 1 = n
  OBVIOUS
<1>2. Blocks(open, md.i - 1, md.fence)'
  BY <1>1, SameDoc
<1>3. UnderTheirs(open, md.bodies)'
  BY SameDoc
<1>4. Headers(open, md.i - 1)'
  BY <1>1, SameDoc DEF Headers
<1>5. Tile(md.bodies, md.first - 1)' <=> Tile(md'.bodies, md'.first - 1)
  BY DEF Tile
<1> QED
  BY <1>1, <1>2, <1>3, <1>4, <1>5 DEF Reading

LEMMA LineSplit ==
    ASSUME DocType, Reading, SplitLine
    PROVE  Reading'
<1> DEFINE n == md.i - 1
           kind == doc.lines[md.i]
           fence == NextFence(md.fence, kind)
<1>1. /\ n \in Nat /\ md.i = n + 1 /\ md.i \in 1..Len(doc.lines)
      /\ kind \in LoadedKinds /\ md.first \in 1..n + 1 /\ Len(doc.lines) \in Nat
  BY LineRead DEF SplitLine
<1>2. /\ doc' = doc /\ ~ IsHeaderNow(kind)
      /\ md' = [md EXCEPT !.i = @ + 1, !.fence = NextFence(@, kind)]
  BY DEF SplitLine, ReadingLine
<1>3. PICK open \in SUBSET (1..n) : /\ Blocks(open, n, md.fence) /\ Headers(open, n)
                                    /\ UnderTheirs(open, md.bodies)
  BY DEF Reading
<1> DEFINE more == OpeningsWith(open, n, md.fence)
<1>4. Blocks(more, n + 1, fence) /\ more \subseteq 1..n + 1
  BY <1>1, <1>3, OpeningsMore DEF Blocks
<1>5. /\ \A l \in 1..n : \A k : IsHeader(more, l, k) <=> IsHeader(open, l, k)
      /\ ~ IsHeader(more, n + 1, "h2") /\ ~ IsHeader(more, n + 1, "h3")
  BY <1>1, <1>2, <1>3, HeadersMore DEF IsHeaderNow
<1> HIDE DEF more
<1>6. PICK a, b \in 0..n : /\ md.headers = InForce(a, b) /\ Under(open, a, b, n)
                           /\ \A l \in md.first..n : Under(open, a, b, l)
  BY <1>3 DEF Headers
<1>7. ASSUME NEW l \in 0..n, Under(open, a, b, l) PROVE Under(more, a, b, l)
  BY <1>1, <1>5, <1>7, UnderSame
<1>8. Under(more, a, b, n + 1)
  BY <1>1, <1>5, <1>6, <1>7, UnderNext
<1>9. \A l \in md.first..n + 1 : Under(more, a, b, l)
  <2>1. \A l \in md.first..n + 1 : (l \in 0..n /\ l \in md.first..n) \/ l = n + 1
    BY <1>1
  <2> QED
    BY <1>6, <1>7, <1>8, <2>1
<1>10. md \in Loops /\ Tile(md.bodies, md.first - 1) /\ md.bodies \in Seq(Bodies)
  BY DEF Reading, Loops
<1>15. cur' \in Seq(Int)
  <2>1. <<Newline>> \in Seq(Int) /\ cur' = WithLine(doc.lineTexts[md.i])
    BY DEF SplitLine, Newline
  <2>2. cur \o <<Newline>> \o doc.lineTexts[md.i] \in Seq(Int)
    BY <2>1, LineRead, ConcatHolds DEF SplitLine
  <2> QED
    BY <2>1, <2>2, LineRead DEF SplitLine, WithLine
<1>11. UnderTheirs(more, md.bodies)
  <2>1. md.first - 1 \in 0..n
    BY <1>1
  <2> QED
    BY <1>1, <1>3, <1>5, <1>10, <2>1, BodiesSame
<1>12. fence \in {"none", "backticks", "tildes"}
  BY <1>10 DEF Loops, NextFence
<1>13. /\ md' \in Loops /\ md'.i = (n + 1) + 1 /\ md'.first = md.first
       /\ md'.headers = md.headers /\ md'.bodies = md.bodies /\ md'.fence = fence
  <2>1. md' = [md EXCEPT !.i = md.i + 1, !.fence = fence]
    BY <1>2
  <2> HIDE DEF fence, Bodies
  <2>2. md.i + 1 \in Nat
    <3>1. md.i \in Nat
      BY <1>10 DEF Loops
    <3> QED
      BY <3>1
  <2>3. md' \in Loops
    BY <1>10, <1>12, <2>1, <2>2 DEF Loops
  <2>4. /\ md'.i = md.i + 1 /\ md'.first = md.first /\ md'.fence = fence
        /\ md'.headers = md.headers /\ md'.bodies = md.bodies
    BY <1>10, <2>1 DEF Loops
  <2> QED
    BY <1>1, <2>3, <2>4
<1>14. n + 1 \in 0..Len(doc.lines) /\ md.first \in 1..(n + 1) + 1
       /\ a \in 0..n + 1 /\ b \in 0..n + 1
  BY <1>1
<1> QED
  BY <1>2, <1>4, <1>6, <1>8, <1>9, <1>10, <1>11, <1>13, <1>14, <1>15, ReadingOn

LEMMA HeaderSplit ==
    ASSUME DocType, Reading, SplitHeader
    PROVE  Reading'
<1> DEFINE n == md.i - 1
           kind == doc.lines[md.i]
           bodies == WithBody(md.bodies, n)
<1>1. /\ n \in Nat /\ md.i = n + 1 /\ md.i \in 1..Len(doc.lines)
      /\ kind \in LoadedKinds /\ md.first \in 1..n + 1 /\ Len(doc.lines) \in Nat
  BY LineRead DEF SplitHeader
<1>2. /\ doc' = doc /\ IsHeaderNow(kind)
      /\ md' = [i |-> md.i + 1, fence |-> "none", first |-> md.i, bodies |-> bodies,
                headers |-> Append(OuterHeaders(md.headers, Level(kind)),
                                   [level |-> Level(kind), line |-> md.i])]
  BY DEF SplitHeader, ReadingLine
<1>3. PICK open \in SUBSET (1..n) : /\ Blocks(open, n, md.fence) /\ Headers(open, n)
                                    /\ UnderTheirs(open, md.bodies)
  BY DEF Reading
<1> DEFINE more == OpeningsWith(open, n, md.fence)
<1>4. Blocks(more, n + 1, "none") /\ more \subseteq 1..n + 1
  BY <1>1, <1>2, <1>3, OpeningsMore DEF Blocks, IsHeaderNow
<1>5. /\ \A l \in 1..n : \A k : IsHeader(more, l, k) <=> IsHeader(open, l, k)
      /\ kind \in {"h2", "h3"} /\ IsHeader(more, n + 1, kind)
  BY <1>1, <1>2, <1>3, HeadersMore DEF IsHeaderNow
<1> HIDE DEF more
<1>6. PICK a, b \in 0..n : md.headers = InForce(a, b) /\ Under(open, a, b, n)
  BY <1>3 DEF Headers
<1>7. Under(more, a, b, n)
  <2>1. n \in 0..n
    BY <1>1
  <2> QED
    BY <1>1, <1>5, <1>6, <2>1, UnderSame
<1>8. /\ bodies \in Seq(Bodies) /\ Tile(bodies, n) /\ UnderTheirs(open, bodies)
  BY <1>1, <1>3, BodyDone DEF Reading, Loops
<1>14. cur' \in Seq(Int)
  BY LineRead DEF SplitHeader
<1> HIDE DEF bodies
<1>9. UnderTheirs(more, bodies)
  <2>1. n \in 0..n
    BY <1>1
  <2> QED
    BY <1>1, <1>3, <1>5, <1>8, <2>1, BodiesSame
<1>10. PICK c, d \in 0..n + 1 : md'.headers = InForce(c, d) /\ Under(more, c, d, n + 1)
  <2>1. CASE kind = "h2"
    <3>1. Under(more, n + 1, 0, n + 1)
      BY <1>1, <1>5, <1>7, <2>1, UnderNext
    <3>2. Level(kind) = 2
      BY <2>1 DEF Level
    <3>3. md'.headers = Append(OuterHeaders(InForce(a, b), 2), [level |-> 2, line |-> n + 1])
      BY <1>1, <1>2, <1>6, <3>2
    <3>4. md'.headers = InForce(n + 1, 0)
      <4>1. n + 1 \in Nat \ {0} /\ a \in Nat /\ b \in Nat
        BY <1>1
      <4> QED
        BY <3>3, <4>1, InForceMore, Zenon
    <3>5. n + 1 \in 0..n + 1 /\ 0 \in 0..n + 1
      BY <1>1
    <3> QED
      BY <3>1, <3>4, <3>5, Zenon
  <2>2. CASE kind = "h3"
    <3>1. Under(more, a, n + 1, n + 1)
      BY <1>1, <1>5, <1>7, <2>2, UnderNext
    <3>2. Level(kind) = 3
      BY <2>2 DEF Level
    <3>3. md'.headers = Append(OuterHeaders(InForce(a, b), 3), [level |-> 3, line |-> n + 1])
      BY <1>1, <1>2, <1>6, <3>2
    <3>4. md'.headers = InForce(a, n + 1)
      <4>1. n + 1 \in Nat \ {0} /\ a \in Nat /\ b \in Nat
        BY <1>1
      <4> QED
        BY <3>3, <4>1, InForceMore, Zenon
    <3>5. n + 1 \in 0..n + 1 /\ a \in 0..n + 1
      BY <1>1
    <3> QED
      BY <3>1, <3>4, <3>5, Zenon
  <2> QED
    BY <1>5, <2>1, <2>2
<1>11. /\ md'.i = (n + 1) + 1 /\ md'.first = n + 1 /\ md'.fence = "none"
       /\ md'.bodies = bodies
  BY <1>1, <1>2
<1>12. md' \in Loops
  <2>1. md'.headers \in Seq([level : Nat, line : Nat])
    BY <1>1, <1>10, InForceType
  <2>2. md' = [i |-> md.i + 1, fence |-> "none", first |-> md.i, bodies |-> bodies,
               headers |-> md'.headers]
    BY <1>2
  <2> QED
    BY <1>1, <1>8, <2>1, <2>2, SMTT(20) DEF Loops
<1>13. /\ n + 1 \in 0..Len(doc.lines) /\ md'.first \in 1..(n + 1) + 1
       /\ Tile(md'.bodies, md'.first - 1)
       /\ \A l \in md'.first..n + 1 : l = n + 1
  BY <1>1, <1>8, <1>11
<1> QED
  BY <1>2, <1>4, <1>9, <1>10, <1>11, <1>12, <1>13, <1>14, ReadingOn

\* What was reached when the last line is in a body.
LEMMA LastSplit ==
    ASSUME DocType, Reading, SplitEnd
    PROVE  BodiesUnderHeaders'
<1>1. /\ doc' = doc /\ md.i > Len(doc.lines) /\ doc.chunker = "markdown"
      /\ md' = [md EXCEPT !.bodies = WithBody(@, Len(doc.lines))]
  BY DEF SplitEnd
<1>2. PICK n \in Nat \ {0} : n = Len(doc.lines) /\ DOMAIN doc.lines = 1..n
  <2>1. doc.lines \in Seq(LoadedKinds) /\ doc.lines # <<>>
    BY <1>1 DEF DocType
  <2> QED
    BY <2>1
<1>3. md.i - 1 = n /\ md.i = n + 1 /\ md.first \in 1..n + 1
  BY <1>1, <1>2 DEF Reading
<1>4. PICK open \in SUBSET (1..n) : /\ Blocks(open, n, md.fence) /\ Headers(open, n)
                                    /\ UnderTheirs(open, md.bodies)
  BY <1>3 DEF Reading
<1>5. /\ md \in Loops /\ Tile(md.bodies, md.first - 1) /\ md.bodies \in Seq(Bodies)
      /\ cur \in Seq(Int)
  BY DEF Reading, Loops
<1>6. PICK bodies : bodies = WithBody(md.bodies, n)
  OBVIOUS
<1>7. bodies \in Seq(Bodies) /\ Tile(bodies, n) /\ UnderTheirs(open, bodies)
  BY <1>2, <1>3, <1>4, <1>5, <1>6, BodyDone
<1>8. md'.bodies = bodies
  BY <1>1, <1>2, <1>5, <1>6 DEF Loops
<1>9. /\ AreOpenings(open, n)' /\ UnderTheirs(open, bodies)'
      /\ open \in SUBSET DOMAIN doc'.lines /\ n = Len(doc'.lines)
  <2>1. AreOpenings(open, n)
    BY <1>4 DEF Blocks
  <2> QED
    BY <1>1, <1>2, <1>7, <2>1, SameDoc
<1>10. /\ bodies # <<>> /\ bodies[Len(bodies)].to = n
       /\ \A k \in DOMAIN bodies :
             /\ bodies[k].from <= bodies[k].to
             /\ bodies[k].from = IF k = 1 THEN 1 ELSE bodies[k - 1].to + 1
  BY <1>2, <1>7 DEF Tile
<1>11. AreOpenings(open, Len(doc.lines))'
  BY <1>9 DEF AreOpenings
<1> QED
  BY <1>8, <1>9, <1>10, <1>11 DEF BodiesUnderHeaders, UnderTheirs, Under

LEMMA LinesInit == LoopsInit => LinesInv
<1> SUFFICES ASSUME LoopsInit PROVE LinesInv
  OBVIOUS
<1>1. /\ Len(doc.lines) \in Nat /\ pc = "start" /\ md = BeforeLines /\ cur \in Seq(Int)
  BY DEF LoopsInit
<1>2. md \in Loops
  <2>1. <<>> \in Seq([level : Nat, line : Nat]) /\ <<>> \in Seq(Bodies)
    OBVIOUS
  <2> QED
    BY <1>1, <2>1 DEF Loops, BeforeLines
<1>3. /\ md.i = 1 /\ md.first = 1 /\ md.bodies = <<>> /\ md.fence = "none"
      /\ md.headers = <<>> /\ md.i - 1 = 0 /\ md.first - 1 = 0
  BY <1>1 DEF BeforeLines
<1>4. Tile(<<>>, 0) /\ UnderTheirs({}, <<>>) /\ Blocks({}, 0, "none")
  BY DEF Tile, UnderTheirs, Blocks, AreOpenings, InBlock
<1>5. Headers({}, 0)
  <2>1. Under({}, 0, 0, 0)
    BY DEF Under, IsLastHeader
  <2>2. InForce(0, 0) = <<>> /\ 0 \in 0..0 /\ 1..0 = {}
    BY DEF InForce
  <2> QED
    BY <1>3, <2>1, <2>2 DEF Headers
<1>6. Reading
  BY <1>1, <1>2, <1>3, <1>4, <1>5 DEF Reading
<1> QED
  BY <1>1, <1>6 DEF LinesInv, BodiesUnderHeaders

\* What is said of the bodies once they are made stays so.
LEMMA BodiesKept ==
    ASSUME doc' = doc, md' = md, pc # "start", BodiesUnderHeaders
    PROVE  BodiesUnderHeaders'
<1> SUFFICES ASSUME doc.chunker = "markdown" PROVE BodiesUnderHeaders'
  BY DEF BodiesUnderHeaders
<1>1. PICK n, bodies : n = Len(doc.lines) /\ bodies = md.bodies
  OBVIOUS
<1>2. /\ bodies # <<>> /\ bodies[Len(bodies)].to = n
      /\ \A k \in DOMAIN bodies :
            /\ bodies[k].from <= bodies[k].to
            /\ bodies[k].from = IF k = 1 THEN 1 ELSE bodies[k - 1].to + 1
  BY <1>1 DEF BodiesUnderHeaders
<1>3. PICK open \in SUBSET DOMAIN doc.lines : AreOpenings(open, n) /\ UnderTheirs(open, bodies)
  BY <1>1 DEF BodiesUnderHeaders, UnderTheirs, Under
<1>4. AreOpenings(open, n)' /\ UnderTheirs(open, bodies)'
  BY <1>3, SameDoc
<1>5. AreOpenings(open, Len(doc.lines))'
  BY <1>1, <1>4 DEF AreOpenings
<1> QED
  BY <1>1, <1>2, <1>3, <1>4, <1>5 DEF BodiesUnderHeaders, UnderTheirs, Under

LEMMA ReadingKept ==
    ASSUME DocType, Reading, doc' = doc, md' = md, cur' = cur
    PROVE  Reading'
<1>1. PICK n \in 0..Len(doc.lines) : n = md.i - 1 /\ md.i = n + 1 /\ md.first \in 1..n + 1
  <2>1. Len(doc.lines) \in Nat
    BY DEF DocType
  <2> QED
    BY <2>1 DEF Reading
<1>2. PICK open \in SUBSET (1..n) : /\ Blocks(open, n, md.fence) /\ Headers(open, n)
                                    /\ UnderTheirs(open, md.bodies)
  BY <1>1 DEF Reading
<1>3. PICK a, b \in 0..n : /\ md.headers = InForce(a, b) /\ Under(open, a, b, n)
                           /\ \A l \in md.first..n : Under(open, a, b, l)
  BY <1>2 DEF Headers
<1>4. md \in Loops /\ Tile(md.bodies, md.first - 1) /\ cur \in Seq(Int)
  BY DEF Reading
<1> QED
  BY <1>1, <1>2, <1>3, <1>4, ReadingOn

LEMMA LinesNext == DocType /\ Control /\ LinesInv /\ [LoopsNext]_vars => LinesInv'
<1> SUFFICES ASSUME DocType, Control, LinesInv, [LoopsNext]_vars PROVE LinesInv'
  OBVIOUS
<1>1. CASE SplitLine \/ SplitHeader
  <2>1. pc = "start" /\ pc' = "start" /\ doc' = doc /\ doc.chunker = "markdown"
    BY <1>1 DEF SplitLine, SplitHeader, ReadingLine
  <2>2. Reading'
    BY <1>1, <2>1, LineSplit, HeaderSplit DEF LinesInv
  <2> QED
    BY <2>1, <2>2 DEF LinesInv, BodiesUnderHeaders
<1>2. CASE SplitEnd
  <2>1. pc = "start" /\ pc' = "split" /\ doc.chunker = "markdown"
    BY <1>2 DEF SplitEnd
  <2>2. BodiesUnderHeaders'
    BY <1>2, <2>1, LastSplit DEF LinesInv
  <2> QED
    BY <2>1, <2>2 DEF LinesInv
<1>3. CASE AddPage \/ EndPages
  BY <1>3 DEF AddPage, EndPages, LinesInv, BodiesUnderHeaders
<1>4. CASE Splits
  <2>1. /\ pc' # "start" /\ doc' = doc /\ md' = md
        /\ doc.chunker = "markdown" => pc # "start"
    BY <1>4, SplitsKeep DEF IsPlain
  <2>2. CASE pc # "start"
    BY <2>1, <2>2, BodiesKept DEF LinesInv
  <2>3. CASE pc = "start"
    BY <2>1, <2>3 DEF LinesInv, BodiesUnderHeaders
  <2> QED
    BY <2>2, <2>3
<1>5. CASE UNCHANGED vars
  <2>1. doc' = doc /\ md' = md /\ pc' = pc /\ cur' = cur
    BY <1>5 DEF vars
  <2>2. CASE pc # "start"
    BY <2>1, <2>2, BodiesKept DEF LinesInv
  <2>3. CASE pc = "start"
    <3>1. BodiesUnderHeaders'
      BY <2>1, <2>3 DEF BodiesUnderHeaders
    <3>2. doc.chunker = "markdown" => Reading'
      BY <2>1, <2>3, ReadingKept DEF LinesInv
    <3> QED
      BY <2>1, <3>1, <3>2 DEF LinesInv
  <2> QED
    BY <2>2, <2>3
<1> QED
  BY <1>1, <1>2, <1>3, <1>4, <1>5, StepsAre

(* Whatever the lines of a markdown document, code blocks that are not     *)
(* closed and what looks like a header in one among them: Split puts each  *)
(* line in one body, in order, and each body is under the last h2 and h3   *)
(* headers at or before its lines.                                         *)
THEOREM HeadersAreInForce == LoopsSpec => []BodiesUnderHeaders
<1>1. LinesInv => BodiesUnderHeaders
  BY DEF LinesInv
<1>2. LoopsInit /\ [][LoopsNext]_vars => [](DocType /\ Control /\ LinesInv)
  BY InitType, NextType, LinesInit, LinesNext, PTL
<1> QED
  BY <1>1, <1>2, PTL DEF LoopsSpec

-----------------------------------------------------------------------------
(* Numbers.                                                                *)

\* Numbers from u + 1 to v with each number that is less than one of them.
IsInitial(S, u, v) ==
    u \in Nat /\ v \in Nat /\ u <= v /\ S \subseteq u + 1..v /\ \A n \in S : u + 1..n \subseteq S

LEMMA FirstNumbers ==
    ASSUME NEW u, NEW v, NEW S, IsInitial(S, u, v)
    PROVE  \E w \in u..v : S = u + 1..w
<1> USE DEF IsInitial
<1>1. ASSUME NEW a \in Int, NEW b \in Int, NEW T \in SUBSET (a..b)
      PROVE  /\ IsFiniteSet(T) /\ Cardinality(T) \in Nat
             /\ Cardinality(a..b) = IF a > b THEN 0 ELSE b - a + 1
             /\ Cardinality(T) <= IF a > b THEN 0 ELSE b - a + 1
  <2>1. IsFiniteSet(a..b) /\ Cardinality(a..b) = IF a > b THEN 0 ELSE b - a + 1
    BY FS_Interval
  <2>2. IsFiniteSet(T) /\ Cardinality(T) <= Cardinality(a..b)
    BY <2>1, FS_Subset
  <2> QED
    BY <2>1, <2>2, FS_CardinalityType
<1>2. u + 1 \in Int /\ v \in Int
  OBVIOUS
<1>3. IsFiniteSet(S) /\ Cardinality(S) \in Nat /\ Cardinality(S) <= v - u
  <2>1. /\ IsFiniteSet(S) /\ Cardinality(S) \in Nat
        /\ Cardinality(S) <= IF u + 1 > v THEN 0 ELSE v - (u + 1) + 1
    BY <1>1, <1>2
  <2> QED
    BY <2>1
<1> DEFINE w == u + Cardinality(S)
<1>4. w \in u..v
  BY <1>3
<1>5. ASSUME NEW n \in S PROVE n <= w
  <2>1. n \in Int /\ n > u
    OBVIOUS
  <2>2. Cardinality(u + 1..n) = n - (u + 1) + 1
    BY <1>2, <2>1, FS_Interval
  <2>3. Cardinality(u + 1..n) <= Cardinality(S)
    BY <1>3, FS_Subset
  <2> QED
    BY <1>3, <2>1, <2>2, <2>3
<1>6. ASSUME NEW n \in u + 1..w, n \notin S PROVE FALSE
  <2>1. n \in Int /\ n - 1 \in Int /\ n > u /\ n <= w
    BY <1>4
  <2>2. S \in SUBSET (u + 1..n - 1)
    <3> SUFFICES ASSUME NEW s \in S, s >= n PROVE FALSE
      BY <2>1
    <3>1. n \in u + 1..s
      BY <2>1
    <3> QED
      BY <1>6, <3>1
  <2>3. Cardinality(S) <= IF u + 1 > n - 1 THEN 0 ELSE n - 1 - (u + 1) + 1
    BY <1>1, <1>2, <2>1, <2>2
  <2> QED
    BY <1>3, <2>1, <2>3
<1> HIDE DEF w
<1>7. S = u + 1..w
  <2>1. \A n \in S : n \in Int /\ n >= u + 1
    OBVIOUS
  <2>2. \A n \in S : n \in u + 1..w
    BY <1>4, <1>5, <2>1
  <2> QED
    BY <1>6, <2>2
<1> QED
  BY <1>4, <1>7

LEMMA MinExists ==
    ASSUME NEW n \in Nat, NEW S \in SUBSET (1..n), S # {}
    PROVE  Min(S) \in S /\ \A x \in S : Min(S) <= x
<1> DEFINE below == {i \in 1..n : \A s \in S : i < s}
<1>1. PICK w \in 0..n : below = 1..w
  <2>1. \A i \in below : 1..i \subseteq below
    OBVIOUS
  <2>2. below \in SUBSET (0 + 1..n)
    OBVIOUS
  <2> HIDE DEF below
  <2>3. \E w \in 0..n : below = 0 + 1..w
    <3>1. IsInitial(below, 0, n)
      BY <2>1, <2>2 DEF IsInitial
    <3> QED
      BY <3>1, FirstNumbers
  <2> QED
    BY <2>3
<1>2. w + 1 \in S /\ \A x \in S : w + 1 <= x
  <2>1. \A x \in S : w + 1 <= x
    <3> SUFFICES ASSUME NEW x \in S, x <= w PROVE FALSE
      OBVIOUS
    <3>1. x \in below
      BY <1>1
    <3> QED
      BY <3>1
  <2>2. w + 1 \notin below
    BY <1>1
  <2>3. PICK x \in S : w + 1 <= x
    BY <2>1
  <2>4. w + 1 \in 1..n
    BY <2>3
  <2>5. PICK y \in S : ~ (w + 1 < y)
    BY <2>2, <2>4
  <2>6. y = w + 1
    BY <2>1, <2>5
  <2> QED
    BY <2>1, <2>6
<1> QED
  BY <1>2 DEF Min

LEMMA MaxExists ==
    ASSUME NEW n \in Nat, NEW S \in SUBSET (0..n), S # {}
    PROVE  Max(S) \in S /\ \A x \in S : x <= Max(S)
<1> DEFINE T == {t \in 1..n + 1 : n + 1 - t \in S}
<1>1. T \in SUBSET (1..n + 1) /\ n + 1 \in Nat
  OBVIOUS
<1>2. \A x \in S : n + 1 - x \in T
  OBVIOUS
<1>3. T # {}
  BY <1>2
<1>4. PICK m \in T : \A y \in T : m <= y
  <2> HIDE DEF T
  <2> QED
    BY <1>1, <1>3, MinExists
<1>5. n + 1 - m \in S /\ \A x \in S : x <= n + 1 - m
  BY <1>2, <1>4
<1> QED
  BY <1>5 DEF Max

-----------------------------------------------------------------------------
(* Texts.                                                                  *)

Texts == Seq(Int)

\* The characters from a to b of a text.
LEMMA PieceIs ==
    ASSUME NEW text \in Texts, NEW a \in Nat \ {0}, NEW b \in 0..Len(text), a <= b + 1
    PROVE  /\ SubSeq(text, a, b) \in Texts
           /\ Len(SubSeq(text, a, b)) = b + 1 - a
           /\ \A i \in 1..b + 1 - a : SubSeq(text, a, b)[i] = text[a + i - 1]
<1>1. SubSeq(text, a, b) \in Seq(Int)
  BY DEF Texts
<1>2. Len(SubSeq(text, a, b)) = b + 1 - a
  BY DEF Texts
<1> QED
  BY <1>1, <1>2 DEF Texts

LEMMA SameText ==
    ASSUME NEW s \in Texts, NEW t \in Texts, Len(s) = Len(t),
           \A i \in 1..Len(s) : s[i] = t[i]
    PROVE  s = t
BY SeqEqual DEF Texts

LEMMA PiecePiece ==
    ASSUME NEW text \in Texts, NEW a \in Nat \ {0}, NEW b \in 0..Len(text), a <= b + 1,
           NEW c \in Nat \ {0}, NEW d \in 0..b + 1 - a, c <= d + 1
    PROVE  SubSeq(SubSeq(text, a, b), c, d) = SubSeq(text, a + c - 1, a + d - 1)
<1>1. Len(text) \in Nat
  BY DEF Texts
<1> DEFINE piece == SubSeq(text, a, b)
           inner == SubSeq(piece, c, d)
           outer == SubSeq(text, a + c - 1, a + d - 1)
<1>2. /\ piece \in Texts /\ Len(piece) = b + 1 - a
      /\ \A i \in 1..b + 1 - a : piece[i] = text[a + i - 1]
  BY PieceIs
<1> HIDE DEF piece
<1>3. /\ inner \in Texts /\ Len(inner) = d + 1 - c
      /\ \A i \in 1..d + 1 - c : inner[i] = piece[c + i - 1]
  BY <1>2, PieceIs
<1>4. PICK e, f : e = a + c - 1 /\ f = a + d - 1
  OBVIOUS
<1>5. e \in Nat \ {0} /\ f \in 0..Len(text) /\ e <= f + 1 /\ f + 1 - e = d + 1 - c
  BY <1>1, <1>4
<1>6. /\ outer \in Texts /\ Len(outer) = d + 1 - c
      /\ \A i \in 1..d + 1 - c : outer[i] = text[e + i - 1]
  BY <1>4, <1>5, PieceIs
<1>7. \A i \in 1..d + 1 - c : inner[i] = outer[i]
  <2> SUFFICES ASSUME NEW i \in 1..d + 1 - c PROVE inner[i] = outer[i]
    OBVIOUS
  <2>1. c + i - 1 \in 1..b + 1 - a /\ a + (c + i - 1) - 1 = e + i - 1
    BY <1>1, <1>4
  <2> QED
    BY <1>2, <1>3, <1>6, <2>1
<1> HIDE DEF inner, outer
<1>8. inner = outer
  BY <1>3, <1>6, <1>7, SameText
<1> QED
  BY <1>8 DEF inner, outer, piece

\* The first characters of a text, and the first of those.
LEMMA FrontIs ==
    ASSUME NEW text \in Texts, NEW b \in 0..Len(text)
    PROVE  /\ SubSeq(text, 1, b) \in Texts /\ Len(SubSeq(text, 1, b)) = b
           /\ \A i \in 1..b : SubSeq(text, 1, b)[i] = text[i]
           /\ \A d \in 0..b : SubSeq(SubSeq(text, 1, b), 1, d) = SubSeq(text, 1, d)
<1>1. Len(text) \in Nat /\ 1 \in Nat \ {0} /\ 1 <= b + 1 /\ b + 1 - 1 = b /\ b \in Nat
  BY DEF Texts
<1>2. /\ SubSeq(text, 1, b) \in Texts /\ Len(SubSeq(text, 1, b)) = b + 1 - 1
      /\ \A i \in 1..b + 1 - 1 : SubSeq(text, 1, b)[i] = text[1 + i - 1]
  BY <1>1, PieceIs
<1>3. \A i \in 1..b : 1 + i - 1 = i
  BY <1>1
<1>4. ASSUME NEW d \in 0..b PROVE SubSeq(SubSeq(text, 1, b), 1, d) = SubSeq(text, 1, d)
  <2>1. d \in 0..b + 1 - 1 /\ 1 <= d + 1 /\ 1 + 1 - 1 = 1 /\ 1 + d - 1 = d
    BY <1>1
  <2>2. SubSeq(SubSeq(text, 1, b), 1, d) = SubSeq(text, 1 + 1 - 1, 1 + d - 1)
    BY <1>1, <2>1, PiecePiece
  <2> QED
    BY <2>1, <2>2
<1> QED
  BY <1>1, <1>2, <1>3, <1>4

LEMMA JoinIs ==
    ASSUME NEW s \in Texts, NEW t \in Texts
    PROVE  /\ s \o t \in Texts
           /\ Len(s \o t) = Len(s) + Len(t)
           /\ \A i \in 1..Len(s) : (s \o t)[i] = s[i]
           /\ \A i \in 1..Len(t) : (s \o t)[Len(s) + i] = t[i]
BY DEF Texts

LEMMA TextIs ==
    ASSUME NEW text \in Texts
    PROVE  /\ Len(text) \in Nat /\ DOMAIN text = 1..Len(text)
           /\ \A i \in 1..Len(text) : text[i] \in Int
           /\ text = <<>> <=> Len(text) = 0
           /\ \A n : n \in LettersIn(text) <=> n > 0 /\ \E i \in 1..Len(text) : text[i] = n
BY DEF Texts, LettersIn, IsLetter, ToSet

LEMMA PieceLetters ==
    ASSUME NEW text \in Texts, NEW a \in Nat \ {0}, NEW b \in 0..Len(text), a <= b + 1
    PROVE  \A n : n \in LettersIn(SubSeq(text, a, b)) <=> n > 0 /\ \E i \in a..b : text[i] = n
<1>1. Len(text) \in Nat
  BY TextIs
<1> DEFINE piece == SubSeq(text, a, b)
<1>2. /\ piece \in Texts /\ Len(piece) = b + 1 - a
      /\ \A i \in 1..b + 1 - a : piece[i] = text[a + i - 1]
  BY PieceIs
<1> HIDE DEF piece
<1>3. \A n : n \in LettersIn(piece) <=> n > 0 /\ \E i \in 1..b + 1 - a : piece[i] = n
  BY <1>2, TextIs
<1>4. \A i \in a..b : i - a + 1 \in 1..b + 1 - a /\ piece[i - a + 1] = text[i]
  BY <1>1, <1>2
<1>5. \A i \in 1..b + 1 - a : a + i - 1 \in a..b
  BY <1>1
<1>6. ASSUME NEW n
      PROVE  (\E i \in 1..b + 1 - a : piece[i] = n) <=> \E i \in a..b : text[i] = n
  <2>1. ASSUME NEW i \in 1..b + 1 - a, piece[i] = n PROVE \E j \in a..b : text[j] = n
    BY <1>2, <1>5, <2>1
  <2>2. ASSUME NEW i \in a..b, text[i] = n PROVE \E j \in 1..b + 1 - a : piece[j] = n
    BY <1>4, <2>2
  <2> QED
    BY <2>1, <2>2
<1> QED
  BY <1>3, <1>6 DEF piece

LEMMA JoinLetters ==
    ASSUME NEW s \in Texts, NEW t \in Texts
    PROVE  LettersIn(s \o t) = LettersIn(s) \cup LettersIn(t)
<1>1. Len(s) \in Nat /\ Len(t) \in Nat
  BY TextIs
<1> DEFINE joined == s \o t
<1>2. /\ joined \in Texts /\ Len(joined) = Len(s) + Len(t)
      /\ \A i \in 1..Len(s) : joined[i] = s[i]
      /\ \A i \in 1..Len(t) : joined[Len(s) + i] = t[i]
  BY JoinIs
<1> HIDE DEF joined
<1>3. ASSUME NEW n, n \in LettersIn(joined) PROVE n \in LettersIn(s) \cup LettersIn(t)
  <2>1. PICK i \in 1..Len(joined) : n > 0 /\ joined[i] = n
    BY <1>2, <1>3, TextIs
  <2>2. CASE i \in 1..Len(s)
    BY <1>2, <2>1, <2>2, TextIs
  <2>3. CASE i \notin 1..Len(s)
    <3>1. i - Len(s) \in 1..Len(t) /\ i = Len(s) + (i - Len(s))
      BY <1>1, <1>2, <2>3
    <3>2. t[i - Len(s)] = n
      BY <1>2, <2>1, <3>1
    <3> QED
      BY <2>1, <3>1, <3>2, TextIs
  <2> QED
    BY <2>2, <2>3
<1>4. ASSUME NEW n, n \in LettersIn(s) PROVE n \in LettersIn(joined)
  <2>1. PICK i \in 1..Len(s) : n > 0 /\ s[i] = n
    BY <1>4, TextIs
  <2>2. i \in 1..Len(joined) /\ joined[i] = n
    BY <1>1, <1>2, <2>1
  <2> QED
    BY <1>2, <2>1, <2>2, TextIs
<1>5. ASSUME NEW n, n \in LettersIn(t) PROVE n \in LettersIn(joined)
  <2>1. PICK i \in 1..Len(t) : n > 0 /\ t[i] = n
    BY <1>5, TextIs
  <2>2. Len(s) + i \in 1..Len(joined) /\ joined[Len(s) + i] = n
    BY <1>1, <1>2, <2>1
  <2> QED
    BY <1>2, <2>1, <2>2, TextIs
<1> QED
  BY <1>3, <1>4, <1>5 DEF joined

Ascending(text) ==
    \A k, l \in 1..Len(text) :
       IsLetter(text[k]) /\ IsLetter(text[l]) /\ k < l => text[k] < text[l]

\* The letters of a text are those after u, up to v, in order.
IsRun(text, u, v) ==
    /\ text \in Texts /\ u \in Nat /\ v \in Nat /\ u <= v
    /\ LettersIn(text) = u + 1..v
    /\ Ascending(text)

LEMMA RunOne ==
    ASSUME NEW text, NEW u, NEW v, NEW w, IsRun(text, u, v), IsRun(text, u, w)
    PROVE  v = w
<1>1. u + 1..v = u + 1..w /\ u \in Nat /\ v \in Nat /\ w \in Nat /\ u <= v /\ u <= w
  BY DEF IsRun
<1>2. (v > u => v \in u + 1..w) /\ (w > u => w \in u + 1..v)
  BY <1>1
<1> QED
  BY <1>1, <1>2

\* A text of no letters, where it is.
LEMMA RunBare ==
    ASSUME NEW text \in Texts, LettersIn(text) = {}
    PROVE  /\ \A u \in Nat : IsRun(text, u, u)
           /\ \A u, v : IsRun(text, u, v) => u = v
<1>1. ASSUME NEW u \in Nat PROVE IsRun(text, u, u)
  <2>1. u + 1..u = {} /\ u <= u
    OBVIOUS
  <2>2. \A i \in 1..Len(text) : ~ IsLetter(text[i])
    BY TextIs DEF IsLetter
  <2> QED
    BY <2>1, <2>2 DEF IsRun, Ascending
<1>2. ASSUME NEW u, NEW v, IsRun(text, u, v) PROVE u = v
  BY <1>1, <1>2, RunOne DEF IsRun
<1> QED
  BY <1>1, <1>2

LEMMA RunEmpty ==
    /\ \A u \in Nat : IsRun(<<>>, u, u)
    /\ \A u, v : IsRun(<<>>, u, v) => u = v
<1>1. <<>> \in Texts /\ LettersIn(<<>>) = {}
  BY DEF Texts, LettersIn, ToSet
<1> QED
  BY <1>1, RunBare

LEMMA PieceAscends ==
    ASSUME NEW text \in Texts, Ascending(text),
           NEW a \in Nat \ {0}, NEW b \in 0..Len(text), a <= b + 1
    PROVE  Ascending(SubSeq(text, a, b))
<1>1. Len(text) \in Nat
  BY TextIs
<1> DEFINE piece == SubSeq(text, a, b)
<1>2. /\ piece \in Texts /\ Len(piece) = b + 1 - a
      /\ \A i \in 1..b + 1 - a : piece[i] = text[a + i - 1]
  BY PieceIs
<1> HIDE DEF piece
<1>3. \A k, l \in 1..Len(piece) :
         /\ a + k - 1 \in 1..Len(text) /\ a + l - 1 \in 1..Len(text)
         /\ k < l => a + k - 1 < a + l - 1
  BY <1>1, <1>2
<1>4. Ascending(piece)
  BY <1>2, <1>3 DEF Ascending
<1> QED
  BY <1>4 DEF piece

\* A piece that has all the letters.
LEMMA RunPiece ==
    ASSUME NEW text, NEW u, NEW v, IsRun(text, u, v),
           NEW a \in Nat \ {0}, NEW b \in 0..Len(text), a <= b + 1,
           \A i \in 1..Len(text) : i \in a..b \/ ~ IsLetter(text[i])
    PROVE  IsRun(SubSeq(text, a, b), u, v)
<1>1. text \in Texts /\ Len(text) \in Nat
  BY TextIs DEF IsRun
<1>2. LettersIn(SubSeq(text, a, b)) = LettersIn(text)
  <2>1. \A i \in a..b : i \in 1..Len(text)
    BY <1>1
  <2>2. \A n : n \in LettersIn(SubSeq(text, a, b)) <=> n > 0 /\ \E i \in a..b : text[i] = n
    BY <1>1, PieceLetters
  <2>3. \A n : n \in LettersIn(text) <=> n > 0 /\ \E i \in 1..Len(text) : text[i] = n
    BY <1>1, TextIs
  <2>4. \A n : n \in LettersIn(SubSeq(text, a, b)) <=> n \in LettersIn(text)
    BY <2>1, <2>2, <2>3 DEF IsLetter
  <2> QED
    BY <2>4
<1> QED
  BY <1>1, <1>2, PieceIs, PieceAscends DEF IsRun

\* A text is cut in two.
LEMMA RunCut ==
    ASSUME NEW text, NEW u, NEW v, IsRun(text, u, v), NEW i \in 0..Len(text)
    PROVE  \E w \in u..v : /\ IsRun(SubSeq(text, 1, i), u, w)
                           /\ IsRun(SubSeq(text, i + 1, Len(text)), w, v)
<1>1. /\ text \in Texts /\ Len(text) \in Nat /\ u \in Nat /\ v \in Nat /\ u <= v
      /\ LettersIn(text) = u + 1..v /\ Ascending(text)
      /\ \A k \in 1..Len(text) : text[k] \in Int
  BY TextIs DEF IsRun
<1> DEFINE front == SubSeq(text, 1, i)
           back == SubSeq(text, i + 1, Len(text))
<1>2. 1 \in Nat \ {0} /\ 1 <= i + 1 /\ i + 1 \in Nat \ {0} /\ i + 1 <= Len(text) + 1
      /\ Len(text) \in 0..Len(text)
  BY <1>1
<1>3. /\ front \in Texts /\ Ascending(front)
      /\ \A n : n \in LettersIn(front) <=> n > 0 /\ \E k \in 1..i : text[k] = n
  BY <1>1, <1>2, PieceIs, PieceAscends, PieceLetters
<1>4. /\ back \in Texts /\ Ascending(back)
      /\ \A n : n \in LettersIn(back) <=> n > 0 /\ \E k \in i + 1..Len(text) : text[k] = n
  BY <1>1, <1>2, PieceIs, PieceAscends, PieceLetters
<1> HIDE DEF front, back
<1>5. \A n : n \in u + 1..v <=> n > 0 /\ \E k \in 1..Len(text) : text[k] = n
  BY <1>1, TextIs
<1>6. \A k, l \in 1..Len(text) : text[k] > 0 /\ text[l] > 0 /\ k < l => text[k] < text[l]
  BY <1>1 DEF Ascending, IsLetter
<1>7. IsInitial(LettersIn(front), u, v)
  <2>1. LettersIn(front) \subseteq u + 1..v
    BY <1>1, <1>3, <1>5
  <2>2. ASSUME NEW n \in LettersIn(front), NEW m \in u + 1..n PROVE m \in LettersIn(front)
    <3>1. PICK k \in 1..i : text[k] = n /\ n > 0
      BY <1>3
    <3>2. m \in u + 1..v /\ m > 0
      BY <1>1, <2>1
    <3>3. PICK l \in 1..Len(text) : text[l] = m
      BY <1>5, <3>2
    <3>4. l \in 1..i
      BY <1>1, <1>6, <3>1, <3>2, <3>3
    <3> QED
      BY <1>3, <3>2, <3>3, <3>4
  <2> QED
    BY <1>1, <2>1, <2>2 DEF IsInitial
<1>8. PICK w \in u..v : LettersIn(front) = u + 1..w
  BY <1>7, FirstNumbers
<1>9. LettersIn(back) = w + 1..v
  <2>1. ASSUME NEW n \in LettersIn(back) PROVE n \in w + 1..v
    <3>1. PICK l \in i + 1..Len(text) : text[l] = n /\ n > 0
      BY <1>4
    <3>2. l \in 1..Len(text) /\ n \in u + 1..v
      BY <1>1, <1>5, <3>1
    <3>3. n \notin LettersIn(front)
      BY <1>1, <1>3, <1>6, <3>1, <3>2
    <3> QED
      BY <1>1, <1>8, <3>2, <3>3
  <2>2. ASSUME NEW n \in w + 1..v PROVE n \in LettersIn(back)
    <3>1. n \in u + 1..v /\ n > 0 /\ n \notin LettersIn(front)
      BY <1>1, <1>8
    <3>2. PICK l \in 1..Len(text) : text[l] = n
      BY <1>5, <3>1
    <3>3. l \in i + 1..Len(text)
      BY <1>1, <1>3, <3>1, <3>2
    <3> QED
      BY <1>4, <3>1, <3>2, <3>3
  <2> QED
    BY <2>1, <2>2
<1>10. IsRun(front, u, w) /\ IsRun(back, w, v)
  BY <1>1, <1>3, <1>4, <1>8, <1>9 DEF IsRun
<1> QED
  BY <1>10 DEF front, back

LEMMA RunJoin ==
    ASSUME NEW s, NEW t, NEW u, NEW v, NEW w, IsRun(s, u, v), IsRun(t, v, w)
    PROVE  IsRun(s \o t, u, w)
<1>1. /\ s \in Texts /\ t \in Texts /\ Len(s) \in Nat /\ Len(t) \in Nat
      /\ u \in Nat /\ v \in Nat /\ w \in Nat /\ u <= v /\ v <= w
      /\ LettersIn(s) = u + 1..v /\ LettersIn(t) = v + 1..w
  BY TextIs DEF IsRun
<1>2. LettersIn(s \o t) = u + 1..w
  <2>1. u + 1..w = (u + 1..v) \cup (v + 1..w)
    BY <1>1
  <2> QED
    BY <1>1, <2>1, JoinLetters
<1> DEFINE joined == s \o t
<1>3. /\ joined \in Texts /\ Len(joined) = Len(s) + Len(t)
      /\ \A i \in 1..Len(s) : joined[i] = s[i]
      /\ \A i \in 1..Len(t) : joined[Len(s) + i] = t[i]
  BY <1>1, JoinIs
<1> HIDE DEF joined
<1>4. ASSUME NEW k \in 1..Len(joined), NEW l \in 1..Len(joined),
             IsLetter(joined[k]), IsLetter(joined[l]), k < l
      PROVE  joined[k] < joined[l]
  <2>1. ASSUME NEW i \in 1..Len(joined), IsLetter(joined[i])
        PROVE  /\ i <= Len(s) => /\ i \in 1..Len(s) /\ joined[i] = s[i]
                                 /\ joined[i] \in u + 1..v
               /\ i > Len(s) => /\ i - Len(s) \in 1..Len(t) /\ joined[i] = t[i - Len(s)]
                                /\ joined[i] \in v + 1..w
    <3>1. CASE i <= Len(s)
      <4>1. i \in 1..Len(s) /\ joined[i] = s[i]
        BY <1>1, <1>3, <3>1
      <4> QED
        <5>1. joined[i] \in LettersIn(s)
          BY <1>1, <2>1, <4>1, TextIs DEF IsLetter
        <5> QED
          BY <1>1, <3>1, <4>1, <5>1
    <3>2. CASE i > Len(s)
      <4>1. i - Len(s) \in 1..Len(t) /\ i = Len(s) + (i - Len(s))
        BY <1>1, <1>3, <3>2
      <4>2. joined[i] = t[i - Len(s)]
        BY <1>3, <4>1
      <4> QED
        <5>1. joined[i] \in LettersIn(t)
          BY <1>1, <2>1, <4>1, <4>2, TextIs DEF IsLetter
        <5> QED
          BY <1>1, <3>2, <4>1, <4>2, <5>1
    <3> QED
      BY <1>1, <3>1, <3>2
  <2>2. CASE l <= Len(s)
    <3>1. k <= Len(s)
      BY <1>1, <1>3, <1>4, <2>2
    <3> QED
      BY <1>4, <2>1, <2>2, <3>1 DEF IsRun, Ascending
  <2>3. CASE k <= Len(s) /\ l > Len(s)
    <3>1. joined[k] \in u + 1..v /\ joined[l] \in v + 1..w
      BY <1>4, <2>1, <2>3
    <3> QED
      BY <1>1, <3>1
  <2>4. CASE k > Len(s)
    <3>1. l > Len(s) /\ k - Len(s) < l - Len(s)
      BY <1>1, <1>3, <1>4, <2>4
    <3> QED
      BY <1>4, <2>1, <2>4, <3>1 DEF IsRun, Ascending
  <2> QED
    BY <1>1, <1>3, <2>2, <2>3, <2>4
<1>5. Ascending(joined)
  BY <1>4 DEF Ascending
<1> QED
  BY <1>1, <1>2, <1>3, <1>5 DEF IsRun, joined

\* A piece of a text, and one that goes to its end.
IsPiece(piece, text) ==
    \E a \in Nat \ {0}, b \in 0..Len(text) : a <= b + 1 /\ piece = SubSeq(text, a, b)

IsTail(tail, text) ==
    \E a \in 1..Len(text) + 1 : tail = SubSeq(text, a, Len(text))

LEMMA TailIs ==
    ASSUME NEW text \in Texts, NEW tail, IsTail(tail, text)
    PROVE  IsPiece(tail, text)
<1>1. Len(text) \in Nat
  BY TextIs
<1>2. PICK a \in 1..Len(text) + 1 : tail = SubSeq(text, a, Len(text))
  BY DEF IsTail
<1>3. a \in Nat \ {0} /\ Len(text) \in 0..Len(text) /\ a <= Len(text) + 1
  BY <1>1
<1> QED
  BY <1>2, <1>3 DEF IsPiece

LEMMA PieceType ==
    ASSUME NEW text \in Texts, NEW piece, IsPiece(piece, text)
    PROVE  piece \in Texts /\ Len(piece) <= Len(text)
<1>1. Len(text) \in Nat
  BY TextIs
<1>2. PICK a \in Nat \ {0}, b \in 0..Len(text) : a <= b + 1 /\ piece = SubSeq(text, a, b)
  BY DEF IsPiece
<1>3. piece \in Texts /\ Len(piece) = b + 1 - a
  BY <1>2, PieceIs
<1> QED
  BY <1>1, <1>2, <1>3

LEMMA EmptyPiece ==
    ASSUME NEW text \in Texts
    PROVE  IsPiece(<<>>, text) /\ SubSeq(text, 1, 0) = <<>> /\ SubSeq(text, 1, Len(text)) = text
<1>1. Len(text) \in Nat
  BY TextIs
<1>2. 1 \in Nat \ {0} /\ 0 \in 0..Len(text) /\ 1 <= 0 + 1
  BY <1>1
<1>3. SubSeq(text, 1, 0) \in Texts /\ Len(SubSeq(text, 1, 0)) = 0 + 1 - 1
  BY <1>2, PieceIs
<1>4. SubSeq(text, 1, 0) = <<>>
  BY <1>3, TextIs
<1>5. SubSeq(text, 1, Len(text)) = text
  BY DEF Texts
<1> QED
  BY <1>2, <1>4, <1>5 DEF IsPiece

LEMMA RunTail ==
    ASSUME NEW text, NEW u, NEW v, IsRun(text, u, v), NEW tail, IsTail(tail, text)
    PROVE  \E w \in u..v : IsRun(tail, w, v)
<1>1. text \in Texts /\ Len(text) \in Nat
  BY TextIs DEF IsRun
<1>2. PICK a \in 1..Len(text) + 1 : tail = SubSeq(text, a, Len(text))
  BY DEF IsTail
<1>3. PICK i \in 0..Len(text) : i + 1 = a
  <2>1. a - 1 \in 0..Len(text) /\ a - 1 + 1 = a
    BY <1>1
  <2> QED
    BY <2>1
<1> QED
  BY <1>2, <1>3, RunCut

LEMMA SuffixIs ==
    ASSUME NEW text \in Texts, NEW n \in Nat \ {0}
    PROVE  IsTail(Suffix(text, n), text) /\ Len(Suffix(text, n)) <= n
<1>1. Len(text) \in Nat
  BY TextIs
<1> DEFINE a == IF n < Len(text) THEN Len(text) - n + 1 ELSE 1
<1>2. /\ a \in 1..Len(text) + 1 /\ a \in Nat \ {0} /\ a <= Len(text) + 1
      /\ Len(text) + 1 - a <= n /\ Len(text) \in 0..Len(text)
  BY <1>1
<1>3. Suffix(text, n) = SubSeq(text, a, Len(text))
  BY DEF Suffix
<1> HIDE DEF a
<1>4. Len(SubSeq(text, a, Len(text))) = Len(text) + 1 - a
  BY <1>2, PieceIs
<1> QED
  BY <1>2, <1>3, <1>4 DEF IsTail

LEMMA OverlapTailIs ==
    ASSUME NEW text \in Texts, NEW n \in Nat
    PROVE  IsTail(OverlapTail(text, n), text) /\ (n = 0 => OverlapTail(text, n) = <<>>)
<1>1. Len(text) \in Nat /\ DOMAIN text = 1..Len(text)
  BY TextIs
<1> DEFINE small == {i \in DOMAIN text : Tokens(SubSeq(text, i, Len(text))) <= n}
<1>2. /\ Len(text) + 1 \in 1..Len(text) + 1 /\ Len(text) + 1 \in Nat \ {0}
      /\ Len(text) \in 0..Len(text) /\ 1 \in 1..Len(text) + 1
  BY <1>1
<1>3. IsTail(<<>>, text)
  <2>1. /\ SubSeq(text, Len(text) + 1, Len(text)) \in Texts
        /\ Len(SubSeq(text, Len(text) + 1, Len(text))) = Len(text) + 1 - (Len(text) + 1)
    BY <1>2, PieceIs
  <2>2. SubSeq(text, Len(text) + 1, Len(text)) = <<>>
    BY <1>1, <2>1, TextIs
  <2> QED
    BY <1>2, <2>2 DEF IsTail
<1>4. IsTail(text, text)
  BY <1>2, EmptyPiece DEF IsTail
<1>5. small # {} => IsTail(SubSeq(text, Max(small), Len(text)), text)
  <2>1. small \in SUBSET (0..Len(text)) /\ small \subseteq 1..Len(text) + 1
    BY <1>1
  <2> HIDE DEF small
  <2>2. small # {} => Max(small) \in small
    BY <1>1, <2>1, MaxExists
  <2> QED
    BY <2>1, <2>2 DEF IsTail
<1>6. OverlapTail(text, n) =
         IF text = <<>> \/ n <= 0 THEN <<>>
         ELSE IF small = {} THEN text
         ELSE SubSeq(text, Max(small), Len(text))
  BY DEF OverlapTail
<1> HIDE DEF small
<1> QED
  BY <1>3, <1>4, <1>5, <1>6

\* White space is trimmed: no letter is lost.
LEMMA TrimIs ==
    ASSUME NEW text \in Texts
    PROVE  /\ IsPiece(TrimSpace(text), text)
           /\ \A u, v : IsRun(text, u, v) => IsRun(TrimSpace(text), u, v)
<1> DEFINE kept == {i \in DOMAIN text : ~ IsSpace(text[i])}
<1>1. Len(text) \in Nat /\ DOMAIN text = 1..Len(text)
  BY TextIs
<1>2. kept \in SUBSET (1..Len(text)) /\ kept \in SUBSET (0..Len(text))
  BY <1>1
<1>3. \A i \in 1..Len(text) : i \in kept \/ ~ IsLetter(text[i])
  BY <1>1 DEF IsSpace, IsLetter, Space, Newline
<1>4. TrimSpace(text) = IF kept = {} THEN <<>> ELSE SubSeq(text, Min(kept), Max(kept))
  BY DEF TrimSpace
<1> HIDE DEF kept
<1>5. CASE kept = {}
  <2>1. LettersIn(text) = {}
    BY <1>3, <1>5, TextIs DEF IsLetter
  <2>2. \A u, v : IsRun(text, u, v) => u = v /\ u \in Nat
    BY <2>1, RunBare DEF IsRun
  <2> QED
    BY <1>4, <1>5, <2>2, RunEmpty, EmptyPiece
<1>6. CASE kept # {}
  <2>1. Min(kept) \in kept /\ \A i \in kept : Min(kept) <= i
    BY <1>1, <1>2, <1>6, MinExists
  <2>2. Max(kept) \in kept /\ \A i \in kept : i <= Max(kept)
    BY <1>1, <1>2, <1>6, MaxExists
  <2>3. PICK a, b : a = Min(kept) /\ b = Max(kept)
    OBVIOUS
  <2>4. /\ a \in Nat \ {0} /\ b \in 0..Len(text) /\ a <= b + 1
        /\ \A i \in kept : i \in a..b
    <3>1. a \in kept /\ b \in kept /\ \A i \in kept : a <= i /\ i <= b
      BY <2>1, <2>2, <2>3
    <3>2. \A i \in kept : i \in 1..Len(text)
      BY <1>2
    <3>3. a \in 1..Len(text) /\ b \in 1..Len(text) /\ a <= b
      BY <3>1, <3>2
    <3> QED
      BY <1>1, <3>1, <3>2, <3>3
  <2>5. \A i \in 1..Len(text) : i \in a..b \/ ~ IsLetter(text[i])
    BY <1>3, <2>4
  <2>6. TrimSpace(text) = SubSeq(text, a, b)
    BY <1>4, <1>6, <2>3
  <2>7. \A u, v : IsRun(text, u, v) => IsRun(SubSeq(text, a, b), u, v)
    BY <2>4, <2>5, RunPiece
  <2> QED
    BY <2>4, <2>6, <2>7 DEF IsPiece
<1> QED
  BY <1>5, <1>6

\* The first place of a separator: what is before it, and what is after.
LEMMA CutAtSep ==
    ASSUME NEW text \in Texts, NEW sep \in Texts, Len(sep) > 0, LettersIn(sep) = {},
           Places(text, sep) # {}, NEW m, m = Min(Places(text, sep))
    PROVE  /\ m \in 1..Len(text) /\ m - 1 + Len(sep) \in 0..Len(text)
           /\ \A u, v : IsRun(text, u, v) =>
                \E w \in u..v : /\ IsRun(SubSeq(text, 1, m - 1), u, w)
                                /\ IsRun(SubSeq(text, m + Len(sep), Len(text)), w, v)
<1>1. Len(text) \in Nat /\ Len(sep) \in Nat \ {0}
  BY TextIs
<1>2. Places(text, sep) \in SUBSET (1..Len(text))
  BY <1>1 DEF Places
<1>3. m \in Places(text, sep)
  BY <1>1, <1>2, MinExists
<1>4. m \in 1..Len(text) - Len(sep) + 1 /\ SubSeq(text, m, m + Len(sep) - 1) = sep
  BY <1>3 DEF Places
<1>5. m \in 1..Len(text) /\ m - 1 + Len(sep) \in 0..Len(text)
  BY <1>1, <1>4
<1>6. ASSUME NEW u, NEW v, IsRun(text, u, v)
      PROVE  \E w \in u..v : /\ IsRun(SubSeq(text, 1, m - 1), u, w)
                             /\ IsRun(SubSeq(text, m + Len(sep), Len(text)), w, v)
  <2> DEFINE q == m - 1 + Len(sep)
             front == SubSeq(text, 1, q)
  <2>1. /\ q \in 0..Len(text) /\ q + 1 = m + Len(sep) /\ m - 1 \in 0..q
        /\ q = m + Len(sep) - 1 /\ m \in Nat \ {0} /\ m <= q + 1 /\ 1 <= q + 1
        /\ 1 \in Nat \ {0} /\ 1 <= (m - 1) + 1
    <3>1. m \in Int /\ 1 <= m /\ m <= Len(text) - Len(sep) + 1
      BY <1>1, <1>4
    <3> QED
      BY <1>1, <3>1
  <2>2. PICK w \in u..v : /\ IsRun(front, u, w)
                          /\ IsRun(SubSeq(text, q + 1, Len(text)), w, v)
    BY <1>6, <2>1, RunCut
  <2>3. /\ front \in Texts /\ Len(front) = q /\ \A i \in 1..q : front[i] = text[i]
    BY <2>1, FrontIs
  <2>4. \A i \in m..q : ~ IsLetter(text[i])
    <3>1. \A n : n > 0 => ~ \E i \in m..q : text[i] = n
      <4>1. LettersIn(SubSeq(text, m, q)) = {}
        BY <1>4, <2>1
      <4> QED
        BY <2>1, <4>1, PieceLetters
    <3> QED
      BY <3>1 DEF IsLetter
  <2>5. \A i \in 1..Len(front) : i \in 1..m - 1 \/ ~ IsLetter(front[i])
    <3> SUFFICES ASSUME NEW i \in 1..q, i \notin 1..m - 1 PROVE ~ IsLetter(front[i])
      BY <2>3
    <3>1. i \in m..q
      BY <1>1, <2>1
    <3> QED
      BY <2>3, <2>4, <3>1
  <2>6. SubSeq(front, 1, m - 1) = SubSeq(text, 1, m - 1)
    BY <2>1, FrontIs
  <2> HIDE DEF front, q
  <2>7. IsRun(SubSeq(front, 1, m - 1), u, w)
    BY <2>1, <2>2, <2>3, <2>5, RunPiece
  <2> QED
    BY <2>1, <2>2, <2>6, <2>7
<1> QED
  BY <1>5, <1>6

-----------------------------------------------------------------------------
(* The list of chunks, when the letters up to u are in it or are held for  *)
(* the next chunk, which begins after letter a.                            *)

CoveredBy(list, from, to, a, u, overlap) ==
    /\ from \in [1..Len(list) -> 0..u] /\ to \in [1..Len(list) -> 0..u]
    /\ \A c \in 1..Len(list) : /\ IsRun(list[c].text, from[c], to[c])
                               /\ from[c] <= a
                               /\ overlap = 0 => to[c] <= a
    /\ \A b, c \in 1..Len(list) : b < c => /\ from[b] <= from[c] /\ to[b] <= to[c]
                                           /\ overlap = 0 => to[b] <= from[c]
    /\ \A n \in 1..a : \E c \in 1..Len(list) : n \in from[c] + 1..to[c]

Covered(list, a, u, overlap) ==
    /\ a \in Nat /\ u \in Nat /\ a <= u
    /\ \E from, to \in [1..Len(list) -> 0..u] : CoveredBy(list, from, to, a, u, overlap)

LEMMA CoveredFirst ==
    ASSUME NEW overlap
    PROVE  Covered(<<>>, 0, 0, overlap)
<1> DEFINE none == [c \in 1..0 |-> 0]
<1>1. Len(<<>>) = 0 /\ 1..0 = {} /\ 0 \in Nat /\ 0 <= 0
  OBVIOUS
<1>2. none \in [1..0 -> 0..0]
  OBVIOUS
<1> HIDE DEF none
<1>3. \E from, to \in [1..Len(<<>>) -> 0..0] : CoveredBy(<<>>, from, to, 0, 0, overlap)
  <2>1. none \in [1..Len(<<>>) -> 0..0]
    BY <1>1, <1>2
  <2>2. CoveredBy(<<>>, none, none, 0, 0, overlap)
    BY <1>1, <2>1 DEF CoveredBy
  <2> QED
    BY <2>1, <2>2
<1> QED
  BY <1>1, <1>3 DEF Covered

\* More is held.
LEMMA CoveredOn ==
    ASSUME NEW list, NEW a, NEW u, NEW overlap, Covered(list, a, u, overlap),
           NEW v \in Nat, u <= v
    PROVE  Covered(list, a, v, overlap)
<1>1. PICK from, to \in [1..Len(list) -> 0..u] : CoveredBy(list, from, to, a, u, overlap)
  BY DEF Covered
<1>2. a \in Nat /\ u \in Nat /\ a <= u
  BY DEF Covered
<1>3. from \in [1..Len(list) -> 0..v] /\ to \in [1..Len(list) -> 0..v]
  BY <1>2
<1>4. CoveredBy(list, from, to, a, v, overlap)
  BY <1>1, <1>3 DEF CoveredBy
<1> QED
  BY <1>2, <1>3, <1>4 DEF Covered

\* A chunk more, of what is held; the next begins with the end of it, and
\* after it if nothing is to overlap.
LEMMA CoveredMore ==
    ASSUME NEW S, NEW list \in Seq(S), NEW a, NEW u, NEW overlap,
           Covered(list, a, u, overlap), NEW x \in S, IsRun(x.text, a, u),
           NEW b \in a..u, overlap = 0 => b = u
    PROVE  Covered(Append(list, x), b, u, overlap)
<1>1. a \in Nat /\ u \in Nat /\ a <= u
  BY DEF Covered
<1>2. PICK from, to \in [1..Len(list) -> 0..u] : CoveredBy(list, from, to, a, u, overlap)
  BY DEF Covered
<1>3. PICK n \in Nat : n = Len(list)
  OBVIOUS
<1>4. PICK more : /\ more = Append(list, x) /\ Len(more) = n + 1
                  /\ \A c \in 1..n : more[c] = list[c]
                  /\ more[n + 1] = x
  <2>1. /\ Len(Append(list, x)) = Len(list) + 1
        /\ \A c \in 1..Len(list) : Append(list, x)[c] = list[c]
        /\ Append(list, x)[Len(list) + 1] = x
    OBVIOUS
  <2> QED
    BY <1>3, <2>1
<1> DEFINE from2 == [c \in 1..n + 1 |-> IF c <= n THEN from[c] ELSE a]
           to2 == [c \in 1..n + 1 |-> IF c <= n THEN to[c] ELSE u]
<1>5. /\ from2 \in [1..n + 1 -> 0..u] /\ to2 \in [1..n + 1 -> 0..u]
      /\ \A c \in 1..n : from2[c] = from[c] /\ to2[c] = to[c]
      /\ from2[n + 1] = a /\ to2[n + 1] = u
      /\ \A c \in 1..n : from[c] \in 0..u /\ to[c] \in 0..u
  <2>1. \A c \in 1..n : from[c] \in 0..u /\ to[c] \in 0..u
    BY <1>3
  <2>2. a \in 0..u /\ u \in 0..u
    BY <1>1
  <2>3. \A c \in 1..n + 1 : c <= n => c \in 1..n
    OBVIOUS
  <2>4. \A c \in 1..n + 1 : from2[c] \in 0..u /\ to2[c] \in 0..u
    BY <2>1, <2>2, <2>3
  <2>5. from2 \in [1..n + 1 -> 0..u] /\ to2 \in [1..n + 1 -> 0..u]
    BY <2>4
  <2>6. \A c \in 1..n : c \in 1..n + 1 /\ c <= n
    OBVIOUS
  <2>7. \A c \in 1..n : from2[c] = from[c] /\ to2[c] = to[c]
    BY <2>6
  <2>8. n + 1 \in 1..n + 1 /\ ~ (n + 1 <= n)
    OBVIOUS
  <2>9. from2[n + 1] = a /\ to2[n + 1] = u
    BY <2>8
  <2> QED
    BY <2>1, <2>5, <2>7, <2>9
<1> HIDE DEF from2, to2
<1>6. \A c \in 1..n + 1 : c \in 1..n \/ c = n + 1
  OBVIOUS
<1>7. \A c \in 1..n : /\ IsRun(list[c].text, from[c], to[c])
                      /\ from[c] <= a
                      /\ overlap = 0 => to[c] <= a
  BY <1>2, <1>3 DEF CoveredBy
<1>8. ASSUME NEW c \in 1..n + 1
      PROVE  /\ IsRun(more[c].text, from2[c], to2[c])
             /\ from2[c] <= b
             /\ overlap = 0 => to2[c] <= b
  <2>1. CASE c \in 1..n
    BY <1>1, <1>4, <1>5, <1>7, <2>1
  <2>2. CASE c = n + 1
    BY <1>1, <1>4, <1>5, <2>2
  <2> QED
    BY <1>6, <2>1, <2>2
<1>9. ASSUME NEW c \in 1..n + 1, NEW d \in 1..n + 1, c < d
      PROVE  /\ from2[c] <= from2[d] /\ to2[c] <= to2[d]
             /\ overlap = 0 => to2[c] <= from2[d]
  <2>1. c \in 1..n
    BY <1>9
  <2>2. CASE d \in 1..n
    BY <1>2, <1>3, <1>5, <1>9, <2>1, <2>2 DEF CoveredBy
  <2>3. CASE d = n + 1
    BY <1>1, <1>5, <1>7, <2>1, <2>3
  <2> QED
    BY <1>6, <2>2, <2>3
<1>10. ASSUME NEW k \in 1..b PROVE \E c \in 1..n + 1 : k \in from2[c] + 1..to2[c]
  <2>1. CASE k <= a
    <3>1. k \in 1..a
      BY <1>1, <2>1
    <3>2. PICK c \in 1..n : k \in from[c] + 1..to[c]
      BY <1>2, <1>3, <3>1 DEF CoveredBy
    <3>3. c \in 1..n + 1 /\ from2[c] = from[c] /\ to2[c] = to[c]
      BY <1>5, <3>2
    <3> QED
      BY <3>2, <3>3
  <2>2. CASE k > a
    <3>1. k \in a + 1..u /\ n + 1 \in 1..n + 1
      BY <1>1, <2>2
    <3> QED
      BY <1>5, <3>1
  <2> QED
    BY <1>1, <2>1, <2>2
<1>11. CoveredBy(more, from2, to2, b, u, overlap)
  BY <1>4, <1>5, <1>8, <1>9, <1>10 DEF CoveredBy
<1>12. b \in Nat /\ b <= u
  BY <1>1
<1> QED
  BY <1>1, <1>4, <1>5, <1>11, <1>12 DEF Covered

Tiles(list, n, overlap) ==
    /\ UNION {LettersIn(list[c].text) : c \in DOMAIN list} = 1..n
    /\ \A c \in DOMAIN list : \A k, l \in DOMAIN list[c].text :
          IsLetter(list[c].text[k]) /\ IsLetter(list[c].text[l]) /\ k < l =>
             /\ list[c].text[k] < list[c].text[l]
             /\ list[c].text[k]..list[c].text[l] \subseteq LettersIn(list[c].text)
    /\ \A b, c \in DOMAIN list :
          b < c => \A m \in LettersIn(list[b].text), n2 \in LettersIn(list[c].text) :
                      /\ \E first \in LettersIn(list[b].text) : first <= n2
                      /\ \E last \in LettersIn(list[c].text) : m <= last
                      /\ overlap = 0 => m # n2

\* All of them are in the list.
LEMMA CoveredAll ==
    ASSUME NEW list, NEW n, NEW overlap, Covered(list, n, n, overlap),
           DOMAIN list = 1..Len(list)
    PROVE  Tiles(list, n, overlap)
<1>1. PICK from, to \in [1..Len(list) -> 0..n] : CoveredBy(list, from, to, n, n, overlap)
  BY DEF Covered
<1>2. n \in Nat /\ \A c \in DOMAIN list : from[c] \in 0..n /\ to[c] \in 0..n
  BY DEF Covered
<1>3. \A c \in DOMAIN list : /\ IsRun(list[c].text, from[c], to[c])
                             /\ LettersIn(list[c].text) = from[c] + 1..to[c]
  BY <1>1 DEF CoveredBy, IsRun
<1>4. UNION {LettersIn(list[c].text) : c \in DOMAIN list} = 1..n
  <2>1. \A c \in DOMAIN list : LettersIn(list[c].text) \subseteq 1..n
    BY <1>2, <1>3
  <2>2. \A k \in 1..n : \E c \in DOMAIN list : k \in LettersIn(list[c].text)
    BY <1>1, <1>3 DEF CoveredBy
  <2> QED
    BY <2>1, <2>2
<1>5. ASSUME NEW c \in DOMAIN list, NEW k \in DOMAIN list[c].text, NEW l \in DOMAIN list[c].text,
             IsLetter(list[c].text[k]), IsLetter(list[c].text[l]), k < l
      PROVE  /\ list[c].text[k] < list[c].text[l]
             /\ list[c].text[k]..list[c].text[l] \subseteq LettersIn(list[c].text)
  <2>1. PICK text : text = list[c].text
    OBVIOUS
  <2>2. text \in Texts /\ Ascending(text) /\ LettersIn(text) = from[c] + 1..to[c]
    BY <1>3, <2>1 DEF IsRun
  <2>3. k \in 1..Len(text) /\ l \in 1..Len(text)
    BY <2>1, <2>2, TextIs
  <2>4. text[k] \in LettersIn(text) /\ text[l] \in LettersIn(text)
    BY <1>5, <2>1, <2>2, <2>3, TextIs DEF IsLetter
  <2>5. text[k] < text[l]
    BY <1>5, <2>1, <2>2, <2>3 DEF Ascending
  <2>6. text[k]..text[l] \subseteq from[c] + 1..to[c]
    BY <1>2, <2>2, <2>4
  <2> QED
    BY <2>1, <2>2, <2>5, <2>6
<1>6. ASSUME NEW b \in DOMAIN list, NEW c \in DOMAIN list, b < c,
             NEW k \in LettersIn(list[b].text), NEW l \in LettersIn(list[c].text)
      PROVE  /\ \E first \in LettersIn(list[b].text) : first <= l
             /\ \E last \in LettersIn(list[c].text) : k <= last
             /\ overlap = 0 => k # l
  <2>1. /\ from[b] <= from[c] /\ to[b] <= to[c]
        /\ overlap = 0 => to[b] <= from[c]
    BY <1>1, <1>6 DEF CoveredBy
  <2>2. k \in from[b] + 1..to[b] /\ l \in from[c] + 1..to[c]
    BY <1>3
  <2>3. from[b] + 1 \in LettersIn(list[b].text) /\ to[c] \in LettersIn(list[c].text)
    BY <1>2, <1>3, <2>2
  <2>4. from[b] + 1 <= l /\ k <= to[c] /\ (overlap = 0 => k # l)
    BY <1>2, <2>1, <2>2
  <2> QED
    BY <2>3, <2>4
<1> QED
  BY <1>4, <1>5, <1>6 DEF Tiles

-----------------------------------------------------------------------------
(* What is read: the letters up to and with the i-th line or page.         *)

LettersTo(contents, i) ==
    Max({0} \cup UNION {LettersIn(contents[j]) : j \in 1..i})

\* What InOrder says, of texts that hold a file's letters in order.
AreOrdered(contents, n) ==
    /\ contents \in Seq(Texts) /\ n \in Nat
    /\ \A i, j \in 1..Len(contents) :
          \A k \in 1..Len(contents[i]), l \in 1..Len(contents[j]) :
             /\ IsLetter(contents[i][k]) /\ IsLetter(contents[j][l])
             /\ i < j \/ (i = j /\ k < l)
             => contents[i][k] < contents[j][l]
    /\ UNION {LettersIn(contents[i]) : i \in 1..Len(contents)} = 1..n

LEMMA LettersToIs ==
    ASSUME NEW contents, NEW n, AreOrdered(contents, n)
    PROVE  /\ LettersTo(contents, 0) = 0 /\ LettersTo(contents, Len(contents)) = n
           /\ \A i \in 1..Len(contents) :
                 IsRun(contents[i], LettersTo(contents, i - 1), LettersTo(contents, i))
           /\ \A i \in 0..Len(contents) : LettersTo(contents, i) \in Nat
           /\ \A i, j \in 0..Len(contents) :
                 i <= j => LettersTo(contents, i) <= LettersTo(contents, j)
<1> DEFINE S(i) == UNION {LettersIn(contents[j]) : j \in 1..i}
<1>1. PICK len \in Nat : len = Len(contents)
  BY DEF AreOrdered
<1>2. n \in Nat /\ S(len) = 1..n /\ \A i \in 1..len : contents[i] \in Texts
  BY <1>1 DEF AreOrdered
<1>3. \A i \in 1..len : \A k \in 1..Len(contents[i]) :
         IsLetter(contents[i][k]) <=> contents[i][k] > 0
  BY DEF IsLetter
<1>4. ASSUME NEW i \in 1..len, NEW j \in 1..len, i < j,
             NEW k \in LettersIn(contents[i]), NEW l \in LettersIn(contents[j])
      PROVE  k < l
  <2>1. PICK p \in 1..Len(contents[i]) : contents[i][p] = k /\ k > 0
    BY <1>2, TextIs
  <2>2. PICK q \in 1..Len(contents[j]) : contents[j][q] = l /\ l > 0
    BY <1>2, TextIs
  <2> QED
    BY <1>1, <1>4, <2>1, <2>2 DEF AreOrdered, IsLetter
<1>5. \A i \in 1..len : Ascending(contents[i])
  BY <1>1 DEF AreOrdered, Ascending
<1>6. \A i \in 0..len : \A k : k \in S(i) <=> \E j \in 1..i : k \in LettersIn(contents[j])
  OBVIOUS
<1> HIDE DEF S
<1>7. ASSUME NEW i \in 0..len PROVE \E w \in 0..n : S(i) = 1..w
  <2>1. S(i) \subseteq 0 + 1..n
    <3>1. \A j \in 1..i : j \in 1..len
      OBVIOUS
    <3>2. len \in 0..len
      OBVIOUS
    <3>3. \A k \in S(i) : k \in S(len)
      BY <1>6, <3>1, <3>2
    <3> QED
      BY <1>2, <3>3
  <2>2. ASSUME NEW k \in S(i), NEW l \in 0 + 1..k PROVE l \in S(i)
    <3>1. k \in 1..n /\ l \in 1..n /\ len \in 0..len /\ l <= k
      BY <1>2, <2>1
    <3>2. PICK a \in 1..i : k \in LettersIn(contents[a])
      BY <1>6
    <3>3. PICK b \in 1..len : l \in LettersIn(contents[b])
      BY <1>2, <1>6, <3>1
    <3>4. CASE b <= i
      <4>1. b \in 1..i
        BY <3>4
      <4> QED
        BY <1>6, <3>3, <4>1
    <3>5. CASE b > i
      <4>1. a \in 1..len /\ a < b
        BY <3>5
      <4>2. k < l
        BY <1>4, <3>2, <3>3, <4>1
      <4> QED
        BY <1>2, <3>1, <4>2
    <3> QED
      BY <3>4, <3>5
  <2>3. IsInitial(S(i), 0, n)
    BY <1>2, <2>1, <2>2 DEF IsInitial
  <2> QED
    BY <2>3, FirstNumbers
<1>8. ASSUME NEW i \in 0..len
      PROVE  LettersTo(contents, i) \in 0..n /\ S(i) = 1..LettersTo(contents, i)
  <2>1. PICK w \in 0..n : S(i) = 1..w
    BY <1>7
  <2>2. {0} \cup S(i) \in SUBSET Int /\ w \in {0} \cup S(i)
        /\ \A x \in {0} \cup S(i) : x <= w
    BY <1>2, <2>1
  <2>3. Max({0} \cup S(i)) = w
    BY <2>2, MaxIs
  <2>4. LettersTo(contents, i) = Max({0} \cup S(i))
    BY DEF LettersTo, S
  <2> QED
    BY <2>1, <2>3, <2>4
<1>9. LettersTo(contents, 0) = 0
  <2>1. 0 \in 0..len /\ 1..0 = {}
    OBVIOUS
  <2>2. S(0) = {}
    BY <1>6, <2>1
  <2>3. PICK w \in 0..n : w = LettersTo(contents, 0) /\ 1..w = {}
    BY <1>8, <2>1, <2>2
  <2>4. w > 0 => 1 \in 1..w
    BY <1>2
  <2> QED
    BY <1>2, <2>3, <2>4
<1>10. LettersTo(contents, len) = n
  <2>1. PICK w \in 0..n : w = LettersTo(contents, len) /\ 1..w = 1..n
    BY <1>2, <1>8
  <2>2. n > 0 => n \in 1..w
    BY <1>2, <2>1
  <2> QED
    BY <1>2, <2>1, <2>2
<1>11. ASSUME NEW i \in 1..len
       PROVE  IsRun(contents[i], LettersTo(contents, i - 1), LettersTo(contents, i))
  <2>1. PICK u, v : /\ u = LettersTo(contents, i - 1) /\ v = LettersTo(contents, i)
                    /\ u \in 0..n /\ v \in 0..n /\ S(i - 1) = 1..u /\ S(i) = 1..v
    <3>1. i - 1 \in 0..len /\ i \in 0..len
      OBVIOUS
    <3> QED
      BY <1>8, <3>1
  <2>2. i - 1 \in 0..len /\ i \in 0..len /\ i \in 1..i
        /\ \A j \in 1..i : j = i \/ j \in 1..i - 1
    OBVIOUS
  <2>3. \A k : k \in 1..v <=> k \in 1..u \/ k \in LettersIn(contents[i])
    <3>1. \A k : k \in S(i) <=> \E j \in 1..i : k \in LettersIn(contents[j])
      BY <1>6, <2>2
    <3>2. \A k : k \in S(i - 1) <=> \E j \in 1..i - 1 : k \in LettersIn(contents[j])
      BY <1>6, <2>2
    <3>3. \A j \in 1..i - 1 : j \in 1..i
      OBVIOUS
    <3> QED
      BY <2>1, <2>2, <3>1, <3>2, <3>3
  <2>4. \A k \in LettersIn(contents[i]) : k \notin 1..u
    <3> SUFFICES ASSUME NEW k \in LettersIn(contents[i]), k \in 1..u PROVE FALSE
      OBVIOUS
    <3>1. PICK j \in 1..i - 1 : k \in LettersIn(contents[j])
      BY <1>6, <2>1, <2>2
    <3>2. j \in 1..len /\ j < i
      OBVIOUS
    <3>3. k < k
      BY <1>4, <3>1, <3>2
    <3> QED
      BY <1>2, <3>3
  <2>5. u <= v
    <3>1. u > 0 => u \in 1..v
      BY <1>2, <2>1, <2>3
    <3> QED
      BY <1>2, <2>1, <3>1
  <2>6. LettersIn(contents[i]) = u + 1..v
    <3>1. \A k \in LettersIn(contents[i]) : k \in u + 1..v
      BY <1>2, <2>1, <2>3, <2>4
    <3>2. \A k \in u + 1..v : k \in LettersIn(contents[i])
      BY <1>2, <2>1, <2>3
    <3> QED
      BY <3>1, <3>2
  <2>7. u \in Nat /\ v \in Nat
    BY <1>2, <2>1
  <2> QED
    BY <1>2, <1>5, <2>1, <2>5, <2>6, <2>7 DEF IsRun
<1>12. \A i \in 0..len : LettersTo(contents, i) \in Nat
  BY <1>2, <1>8
<1>13. ASSUME NEW i \in 0..len, NEW j \in 0..len, i <= j
       PROVE  LettersTo(contents, i) <= LettersTo(contents, j)
  <2>1. PICK u \in 0..n, v \in 0..n : /\ u = LettersTo(contents, i) /\ S(i) = 1..u
                                      /\ v = LettersTo(contents, j) /\ S(j) = 1..v
    BY <1>8
  <2>2. \A k \in 1..i : k \in 1..j
    BY <1>13
  <2>3. \A k \in 1..u : k \in 1..v
    BY <1>6, <2>1, <2>2
  <2>4. u > 0 => u \in 1..u
    BY <1>2
  <2>5. u <= v
    BY <1>2, <2>3, <2>4
  <2> QED
    BY <2>1, <2>5
<1> QED
  BY <1>1, <1>9, <1>10, <1>11, <1>12, <1>13

-----------------------------------------------------------------------------
(* The calls: they hold the letters after u, up to v, the last call first. *)

Frames == [text : Texts, depth : 1..9, at : {"call", "parts", "end"}]

IsStack(stack) ==
    /\ stack \in Seq(Frames)
    /\ \A k \in 1..Len(stack) :
          /\ stack[k].at # "call" => stack[k].depth <= 8
          /\ stack[k].at = "end" => stack[k].text = <<>>
          /\ k < Len(stack) => stack[k].at # "call"

\* The running call has not just been called.
GoesOn(stack) == stack # <<>> => Last(stack).at # "call"

Waits(stack, u, v) ==
    \E s \in [0..Len(stack) -> Nat] :
       /\ s[0] = v /\ s[Len(stack)] = u
       /\ \A k \in 1..Len(stack) : IsRun(stack[k].text, s[k], s[k - 1])

IsFrame(x) ==
    /\ x \in Frames
    /\ x.at # "call" => x.depth <= 8
    /\ x.at = "end" => x.text = <<>>

LEMMA NoStack == IsStack(<<>>) /\ GoesOn(<<>>)
BY DEF IsStack, GoesOn

LEMMA StackPush ==
    ASSUME NEW stack, IsStack(stack), GoesOn(stack), NEW x, IsFrame(x)
    PROVE  /\ IsStack(Append(stack, x)) /\ Append(stack, x) # <<>>
           /\ Last(Append(stack, x)) = x
<1>1. PICK n \in Nat : n = Len(stack) /\ (stack = <<>> <=> n = 0)
  BY DEF IsStack
<1>2. /\ Append(stack, x) \in Seq(Frames) /\ Len(Append(stack, x)) = n + 1
      /\ \A k \in 1..n : Append(stack, x)[k] = stack[k]
      /\ Append(stack, x)[n + 1] = x
  BY <1>1 DEF IsStack, IsFrame
<1>3. PICK more : more = Append(stack, x)
  OBVIOUS
<1>4. ASSUME NEW k \in 1..n + 1
      PROVE  /\ more[k].at # "call" => more[k].depth <= 8
             /\ more[k].at = "end" => more[k].text = <<>>
             /\ k < n + 1 => more[k].at # "call"
  <2>1. CASE k = n + 1
    BY <1>2, <1>3, <2>1 DEF IsFrame
  <2>2. CASE k # n + 1
    <3>1. k \in 1..n /\ (k < n \/ (k = n /\ n # 0))
      BY <2>2
    <3>2. stack # <<>> => stack[n].at # "call"
      BY <1>1 DEF GoesOn, Last
    <3> QED
      BY <1>1, <1>2, <1>3, <3>1, <3>2 DEF IsStack
  <2> QED
    BY <2>1, <2>2
<1>5. more # <<>>
  BY <1>2, <1>3
<1>6. Last(more) = x
  BY <1>2, <1>3 DEF Last
<1> QED
  BY <1>2, <1>3, <1>4, <1>5, <1>6 DEF IsStack

LEMMA FrontLast ==
    ASSUME NEW T, NEW list \in Seq(T), list # <<>>
    PROVE  /\ Front(list) \in Seq(T) /\ Len(Front(list)) = Len(list) - 1
           /\ Len(list) \in Nat \ {0}
           /\ \A k \in 1..Len(list) - 1 : Front(list)[k] = list[k]
           /\ Last(list) = list[Len(list)] /\ Last(list) \in T
<1>1. Len(list) \in Nat /\ Len(list) # 0
  OBVIOUS
<1>2. PICK n \in Nat : n = Len(list) - 1
  BY <1>1
<1>3. Front(list) = SubSeq(list, 1, n)
  BY <1>2 DEF Front
<1>4. /\ SubSeq(list, 1, n) \in Seq(T) /\ Len(SubSeq(list, 1, n)) = n
      /\ \A k \in 1..n : SubSeq(list, 1, n)[k] = list[k]
  BY <1>1, <1>2
<1> QED
  BY <1>1, <1>2, <1>3, <1>4 DEF Last

LEMMA StackPop ==
    ASSUME NEW stack, IsStack(stack), stack # <<>>
    PROVE  IsStack(Front(stack)) /\ GoesOn(Front(stack)) /\ IsFrame(Last(stack))
<1>1. stack \in Seq(Frames)
  BY DEF IsStack
<1>2. PICK n \in Nat \ {0} : n = Len(stack)
  BY <1>1, FrontLast
<1>3. PICK rest : rest = Front(stack)
  OBVIOUS
<1>4. /\ rest \in Seq(Frames) /\ Len(rest) = n - 1 /\ n - 1 \in Nat
      /\ \A k \in 1..n - 1 : rest[k] = stack[k]
      /\ Last(stack) = stack[n] /\ Last(stack) \in Frames
  BY <1>1, <1>2, <1>3, FrontLast
<1>5. \A k \in 1..n - 1 : k \in 1..n /\ k < n
  OBVIOUS
<1>6. IsStack(rest)
  BY <1>2, <1>4, <1>5 DEF IsStack
<1>7. GoesOn(rest)
  <2> SUFFICES ASSUME rest # <<>> PROVE Last(rest).at # "call"
    BY DEF GoesOn
  <2>1. n - 1 \in 1..n - 1 /\ Last(rest) = rest[n - 1]
    <3>1. Len(rest) # 0
      BY <1>4
    <3> QED
      BY <1>4, <3>1 DEF Last
  <2> QED
    BY <1>2, <1>4, <1>5, <2>1 DEF IsStack
<1>8. IsFrame(Last(stack))
  <2>1. n \in 1..n
    OBVIOUS
  <2> QED
    BY <1>2, <1>4, <2>1 DEF IsStack, IsFrame
<1> QED
  BY <1>3, <1>6, <1>7, <1>8

LEMMA WaitsNone ==
    /\ \A u \in Nat : Waits(<<>>, u, u)
    /\ \A u, v : Waits(<<>>, u, v) => u = v
<1>1. Len(<<>>) = 0 /\ 1..0 = {} /\ 0 \in 0..0
  OBVIOUS
<1>2. ASSUME NEW u \in Nat PROVE Waits(<<>>, u, u)
  <2> DEFINE s == [k \in 0..0 |-> u]
  <2>1. s \in [0..0 -> Nat] /\ s[0] = u
    OBVIOUS
  <2> HIDE DEF s
  <2> QED
    BY <1>1, <2>1 DEF Waits
<1>3. ASSUME NEW u, NEW v, Waits(<<>>, u, v) PROVE u = v
  BY <1>1, <1>3 DEF Waits
<1> QED
  BY <1>2, <1>3

LEMMA WaitsPush ==
    ASSUME NEW stack \in Seq(Frames), NEW u, NEW v, NEW w, Waits(stack, w, v),
           NEW x \in Frames, IsRun(x.text, u, w)
    PROVE  Waits(Append(stack, x), u, v)
<1>1. PICK n \in Nat : n = Len(stack)
  OBVIOUS
<1>2. PICK s \in [0..n -> Nat] : /\ s[0] = v /\ s[n] = w
                                 /\ \A k \in 1..n : IsRun(stack[k].text, s[k], s[k - 1])
  BY <1>1 DEF Waits
<1>3. PICK more : /\ more = Append(stack, x) /\ Len(more) = n + 1
                  /\ \A k \in 1..n : more[k] = stack[k]
                  /\ more[n + 1] = x
  <2>1. /\ Len(Append(stack, x)) = n + 1
        /\ \A k \in 1..n : Append(stack, x)[k] = stack[k]
        /\ Append(stack, x)[n + 1] = x
    BY <1>1
  <2> QED
    BY <2>1
<1> DEFINE t == [k \in 0..n + 1 |-> IF k <= n THEN s[k] ELSE u]
<1>4. u \in Nat
  BY DEF IsRun
<1>5. /\ t \in [0..n + 1 -> Nat] /\ \A k \in 0..n : t[k] = s[k]
      /\ t[n + 1] = u /\ t[0] = v
  BY <1>2, <1>4
<1> HIDE DEF t
<1>6. ASSUME NEW k \in 1..n + 1 PROVE IsRun(more[k].text, t[k], t[k - 1])
  <2>1. CASE k \in 1..n
    <3>1. k \in 0..n /\ k - 1 \in 0..n
      BY <2>1
    <3> QED
      BY <1>2, <1>3, <1>5, <2>1, <3>1
  <2>2. CASE k = n + 1
    <3>1. k - 1 = n /\ n \in 0..n
      BY <2>2
    <3> QED
      BY <1>2, <1>3, <1>5, <2>2, <3>1
  <2> QED
    BY <2>1, <2>2
<1>7. Waits(more, u, v)
  BY <1>3, <1>5, <1>6 DEF Waits
<1> QED
  BY <1>3, <1>7

LEMMA WaitsPop ==
    ASSUME NEW stack \in Seq(Frames), stack # <<>>, NEW u, NEW v, Waits(stack, u, v)
    PROVE  \E w \in Nat : IsRun(Last(stack).text, u, w) /\ Waits(Front(stack), w, v)
<1>1. PICK n \in Nat : n + 1 = Len(stack)
  <2>1. Len(stack) \in Nat \ {0}
    BY FrontLast
  <2>2. Len(stack) - 1 \in Nat /\ Len(stack) - 1 + 1 = Len(stack)
    BY <2>1
  <2> QED
    BY <2>2
<1>2. PICK s \in [0..n + 1 -> Nat] :
         /\ s[0] = v /\ s[n + 1] = u
         /\ \A k \in 1..n + 1 : IsRun(stack[k].text, s[k], s[k - 1])
  BY <1>1 DEF Waits
<1>3. PICK rest : rest = Front(stack)
  OBVIOUS
<1>4. /\ Len(rest) = n /\ \A k \in 1..n : rest[k] = stack[k]
      /\ Last(stack) = stack[n + 1]
  <2>1. Len(stack) - 1 = n
    BY <1>1
  <2>2. /\ Len(Front(stack)) = Len(stack) - 1
        /\ \A k \in 1..Len(stack) - 1 : Front(stack)[k] = stack[k]
        /\ Last(stack) = stack[Len(stack)]
    BY FrontLast
  <2> QED
    BY <1>1, <1>3, <2>1, <2>2
<1> DEFINE t == [k \in 0..n |-> s[k]]
<1>5. /\ t \in [0..n -> Nat] /\ \A k \in 0..n : t[k] = s[k]
      /\ t[0] = v /\ t[n] = s[n] /\ s[n] \in Nat
  BY <1>2
<1> HIDE DEF t
<1>6. \A k \in 1..n : IsRun(rest[k].text, t[k], t[k - 1])
  <2>1. \A k \in 1..n : k \in 1..n + 1 /\ k \in 0..n /\ k - 1 \in 0..n
    OBVIOUS
  <2> QED
    BY <1>2, <1>4, <1>5, <2>1
<1>7. Waits(rest, s[n], v)
  BY <1>4, <1>5, <1>6 DEF Waits
<1>8. IsRun(Last(stack).text, u, s[n])
  <2>1. n + 1 \in 1..n + 1 /\ n + 1 - 1 = n
    OBVIOUS
  <2> QED
    BY <1>2, <1>4, <2>1
<1> QED
  BY <1>3, <1>5, <1>7, <1>8

-----------------------------------------------------------------------------
(* What the chunks and the builder hold, when the letters up to u are read:*)
(* those that are in no chunk yet are in the builder.                      *)

HeldCur(text, list, u, overlap) ==
    \E a : IsRun(text, a, u) /\ Covered(list, a, u, overlap)

\* Of a call just made, the text begins with what a chunk ends with when a
\* piece of it was forced.
HeldCall(text, depth, list, u, size, overlap) ==
    \E m \in 0..Len(text) : \E v :
       /\ m <= size /\ (m > 0 => depth > 8)
       /\ IsRun(SubSeq(text, 1, m), u, v)
       /\ Covered(list, u, v, overlap)

LEMMA HeldNew ==
    ASSUME NEW list, NEW u, NEW overlap, NEW size \in Nat,
           HeldCur(<<>>, list, u, overlap),
           NEW text \in Texts, NEW depth
    PROVE  HeldCall(text, depth, list, u, size, overlap)
<1>1. PICK a : IsRun(<<>>, a, u) /\ Covered(list, a, u, overlap)
  BY DEF HeldCur
<1>2. a = u /\ u \in Nat
  BY <1>1, RunEmpty DEF IsRun
<1>3. IsRun(<<>>, u, u)
  BY <1>2, RunEmpty
<1>4. Len(text) \in Nat /\ SubSeq(text, 1, 0) = <<>>
  BY TextIs, EmptyPiece
<1>5. 0 \in 0..Len(text) /\ 0 <= size /\ ~ (0 > 0)
  BY <1>4
<1>6. IsRun(SubSeq(text, 1, 0), u, u) /\ Covered(list, u, u, overlap)
  BY <1>1, <1>2, <1>3, <1>4
<1> QED
  BY <1>5, <1>6 DEF HeldCall

LEMMA HeldParts ==
    ASSUME NEW list, NEW u, NEW overlap, NEW size, NEW text \in Texts, NEW depth,
           HeldCall(text, depth, list, u, size, overlap), depth \in 1..8
    PROVE  HeldCur(<<>>, list, u, overlap)
<1>1. PICK m, v :
         /\ m \in 0..Len(text)
         /\ m <= size /\ (m > 0 => depth > 8)
         /\ IsRun(SubSeq(text, 1, m), u, v) /\ Covered(list, u, v, overlap)
  BY DEF HeldCall
<1>2. m = 0
  <2>1. ~ (depth > 8)
    OBVIOUS
  <2>2. Len(text) \in Nat
    BY TextIs
  <2> QED
    BY <1>1, <2>1, <2>2
<1>3. SubSeq(text, 1, 0) = <<>>
  BY EmptyPiece
<1>4. u = v /\ IsRun(<<>>, u, u)
  BY <1>1, <1>2, <1>3, RunEmpty
<1> QED
  BY <1>1, <1>4 DEF HeldCur

\* The whole text is a chunk.
LEMMA HeldReturn ==
    ASSUME NEW S, NEW list \in Seq(S), NEW u, NEW w, NEW overlap, NEW size, NEW text, NEW depth,
           HeldCall(text, depth, list, u, size, overlap), IsRun(text, u, w),
           NEW x \in S, x.text = text
    PROVE  HeldCur(<<>>, Append(list, x), w, overlap)
<1>1. PICK m, v :
         /\ m \in 0..Len(text)
         /\ IsRun(SubSeq(text, 1, m), u, v) /\ Covered(list, u, v, overlap)
  BY DEF HeldCall
<1>2. PICK v2 \in u..w : IsRun(SubSeq(text, 1, m), u, v2)
  BY <1>1, RunCut
<1>3. v = v2 /\ v <= w /\ w \in Nat /\ u \in Nat
  BY <1>1, <1>2, RunOne DEF IsRun
<1>4. Covered(list, u, w, overlap)
  BY <1>1, <1>3, CoveredOn
<1>5. w \in u..w
  BY <1>2, <1>3
<1>6. Covered(Append(list, x), w, w, overlap)
  BY <1>4, <1>5, CoveredMore
<1> QED
  BY <1>3, <1>6, RunEmpty DEF HeldCur

LEMMA StrideIs ==
    ASSUME NEW size \in Nat \ {0}, NEW overlap \in Nat
    PROVE  /\ Stride(size, overlap) \in 1..size
           /\ overlap = 0 => Stride(size, overlap) = size
BY DEF Stride

\* A piece of it is a chunk, and the rest, with the end of the piece when
\* there is an overlap, is to come.
LEMMA HeldForce ==
    ASSUME NEW S, NEW list \in Seq(S), NEW u, NEW w,
           NEW overlap \in Nat, NEW size \in Nat \ {0}, NEW text, NEW depth, depth > 8,
           HeldCall(text, depth, list, u, size, overlap), IsRun(text, u, w),
           Len(text) > size,
           NEW x \in S, x.text = SubSeq(text, 1, size),
           NEW rest, rest = SubSeq(text, Stride(size, overlap) + 1, Len(text))
    PROVE  \E b : /\ IsRun(rest, b, w)
                  /\ HeldCall(rest, depth, Append(list, x), b, size, overlap)
<1>1. PICK m, v :
         /\ m \in 0..Len(text)
         /\ m <= size
         /\ IsRun(SubSeq(text, 1, m), u, v) /\ Covered(list, u, v, overlap)
  BY DEF HeldCall
<1>2. PICK stride \in 1..size : /\ stride = Stride(size, overlap)
                                /\ overlap = 0 => stride = size
  BY StrideIs
<1>3. text \in Texts
  BY DEF IsRun
<1>4. text \in Texts /\ Len(text) \in Nat
  BY <1>3, TextIs
<1>5. size \in 0..Len(text) /\ stride \in 0..Len(text) /\ m \in 0..size /\ stride \in 0..size
  BY <1>1, <1>3, <1>4
<1> DEFINE piece == SubSeq(text, 1, size)
<1>6. /\ piece \in Texts /\ Len(piece) = size
      /\ \A d \in 0..size : SubSeq(piece, 1, d) = SubSeq(text, 1, d)
  BY <1>4, <1>5, FrontIs
<1>7. PICK p \in u..w : IsRun(piece, u, p)
  BY <1>3, <1>5, RunCut
<1>8. PICK b \in u..w : /\ IsRun(SubSeq(text, 1, stride), u, b)
                        /\ IsRun(SubSeq(text, stride + 1, Len(text)), b, w)
  BY <1>3, <1>5, RunCut
<1>9. SubSeq(piece, stride + 1, Len(piece)) = SubSeq(text, stride + 1, size)
  <2>1. /\ 1 \in Nat \ {0} /\ 1 <= size + 1 /\ stride + 1 \in Nat \ {0}
        /\ size \in 0..size + 1 - 1 /\ stride + 1 <= size + 1
        /\ 1 + (stride + 1) - 1 = stride + 1 /\ 1 + size - 1 = size
    OBVIOUS
  <2>2. SubSeq(SubSeq(text, 1, size), stride + 1, size)
           = SubSeq(text, 1 + (stride + 1) - 1, 1 + size - 1)
    BY <1>4, <1>5, <2>1, PiecePiece
  <2>3. SubSeq(SubSeq(text, 1, size), stride + 1, size) = SubSeq(text, stride + 1, size)
    BY <2>1, <2>2
  <2> QED
    BY <1>6, <2>3
<1> HIDE DEF piece
<1>10. v \in u..p
  <2>1. PICK v2 \in u..p : IsRun(SubSeq(piece, 1, m), u, v2)
    BY <1>5, <1>6, <1>7, RunCut
  <2>2. SubSeq(piece, 1, m) = SubSeq(text, 1, m)
    BY <1>5, <1>6
  <2>3. v = v2
    BY <1>1, <1>3, <2>1, <2>2, RunOne
  <2> QED
    BY <2>1, <2>3
<1>11. b \in u..p /\ IsRun(SubSeq(text, stride + 1, size), b, p)
  <2>1. PICK c \in u..p : /\ IsRun(SubSeq(piece, 1, stride), u, c)
                          /\ IsRun(SubSeq(piece, stride + 1, Len(piece)), c, p)
    BY <1>5, <1>6, <1>7, RunCut
  <2>2. SubSeq(piece, 1, stride) = SubSeq(text, 1, stride)
    BY <1>5, <1>6
  <2>3. b = c
    BY <1>8, <2>1, <2>2, RunOne
  <2> QED
    BY <1>9, <2>1, <2>3
<1>12. overlap = 0 => b = p
  <2>1. overlap = 0 => SubSeq(text, 1, stride) = piece
    BY <1>2 DEF piece
  <2> QED
    BY <1>7, <1>8, <2>1, RunOne
<1>13. Covered(Append(list, x), b, p, overlap)
  <2>1. p \in Nat /\ v <= p
    <3>1. u \in Nat /\ w \in Nat
      BY DEF IsRun
    <3> QED
      BY <1>7, <1>10, <3>1
  <2>2. Covered(list, u, p, overlap)
    BY <1>1, <2>1, CoveredOn
  <2>3. IsRun(x.text, u, p)
    BY <1>3, <1>7 DEF piece
  <2> QED
    BY <1>11, <1>12, <2>2, <2>3, CoveredMore
<1>14. IsRun(SubSeq(rest, 1, size - stride), b, p)
  <2>1. /\ stride + 1 \in Nat \ {0} /\ Len(text) \in 0..Len(text) /\ stride + 1 <= Len(text) + 1
        /\ 1 \in Nat \ {0} /\ size - stride \in 0..Len(text) + 1 - (stride + 1)
        /\ 1 <= size - stride + 1
        /\ (stride + 1) + 1 - 1 = stride + 1 /\ (stride + 1) + (size - stride) - 1 = size
    BY <1>4, <1>5
  <2>2. SubSeq(SubSeq(text, stride + 1, Len(text)), 1, size - stride)
          = SubSeq(text, (stride + 1) + 1 - 1, (stride + 1) + (size - stride) - 1)
    BY <1>4, <2>1, PiecePiece
  <2>3. SubSeq(SubSeq(text, stride + 1, Len(text)), 1, size - stride)
          = SubSeq(text, stride + 1, size)
    BY <2>1, <2>2
  <2>4. rest = SubSeq(text, stride + 1, Len(text))
    BY <1>2, <1>3
  <2> QED
    BY <1>11, <2>3, <2>4
<1>15. size - stride \in 0..Len(rest) /\ size - stride <= size
  <2>1. /\ stride + 1 \in Nat \ {0} /\ Len(text) \in 0..Len(text) /\ stride + 1 <= Len(text) + 1
    BY <1>4, <1>5
  <2>2. Len(SubSeq(text, stride + 1, Len(text))) = Len(text) + 1 - (stride + 1)
    BY <1>4, <2>1, PieceIs
  <2>3. rest = SubSeq(text, stride + 1, Len(text))
    BY <1>2, <1>3
  <2>4. PICK n \in Nat : n = Len(text)
    BY <1>4
  <2>5. n + 1 - (stride + 1) = n - stride /\ size <= n
    BY <1>5, <2>4
  <2>6. Len(rest) = n - stride
    BY <2>2, <2>3, <2>4, <2>5
  <2>7. size - stride \in 0..n - stride /\ size - stride <= size
    BY <1>5, <2>5
  <2> QED
    BY <2>6, <2>7
<1>16. HeldCall(rest, depth, Append(list, x), b, size, overlap)
  BY <1>13, <1>14, <1>15 DEF HeldCall
<1> QED
  BY <1>2, <1>3, <1>8, <1>16

\* What the builder holds is a chunk, and the builder begins with an end of it.
LEMMA HeldNext ==
    ASSUME NEW S, NEW list \in Seq(S), NEW u, NEW overlap, NEW text,
           HeldCur(text, list, u, overlap), NEW x \in S, x.text = text,
           NEW tail, IsTail(tail, text), overlap = 0 => tail = <<>>
    PROVE  HeldCur(tail, Append(list, x), u, overlap)
<1>1. PICK a : IsRun(text, a, u) /\ Covered(list, a, u, overlap)
  BY DEF HeldCur
<1>2. PICK b \in a..u : IsRun(tail, b, u)
  BY <1>1, RunTail
<1>3. overlap = 0 => b = u
  BY <1>2, RunEmpty
<1>4. Covered(Append(list, x), b, u, overlap)
  BY <1>1, <1>2, <1>3, CoveredMore
<1> QED
  BY <1>2, <1>4 DEF HeldCur

LEMMA NoTail ==
    ASSUME NEW text \in Texts
    PROVE  IsTail(<<>>, text)
<1>1. Len(text) \in Nat
  BY TextIs
<1>2. Len(text) + 1 \in 1..Len(text) + 1 /\ Len(text) + 1 \in Nat \ {0} /\ Len(text) \in 0..Len(text)
  BY <1>1
<1>3. /\ SubSeq(text, Len(text) + 1, Len(text)) \in Texts
      /\ Len(SubSeq(text, Len(text) + 1, Len(text))) = Len(text) + 1 - (Len(text) + 1)
  BY <1>2, PieceIs
<1>4. SubSeq(text, Len(text) + 1, Len(text)) = <<>>
  BY <1>1, <1>3, TextIs
<1> QED
  BY <1>2, <1>4 DEF IsTail

LEMMA HeldFlush ==
    ASSUME NEW S, NEW list \in Seq(S), NEW u, NEW overlap, NEW text,
           HeldCur(text, list, u, overlap), NEW x \in S, x.text = text
    PROVE  HeldCur(<<>>, IF text = <<>> THEN list ELSE Append(list, x), u, overlap)
<1>1. text \in Texts
  BY DEF HeldCur, IsRun
<1>2. IsTail(<<>>, text)
  BY <1>1, NoTail
<1>3. HeldCur(<<>>, Append(list, x), u, overlap)
  BY <1>2, HeldNext
<1> QED
  BY <1>3

\* More is read.
LEMMA HeldOn ==
    ASSUME NEW list, NEW u, NEW v, NEW overlap, NEW text,
           HeldCur(text, list, u, overlap), NEW more, IsRun(more, u, v)
    PROVE  HeldCur(text \o more, list, v, overlap)
<1>1. PICK a : IsRun(text, a, u) /\ Covered(list, a, u, overlap)
  BY DEF HeldCur
<1>2. v \in Nat /\ u <= v
  BY DEF IsRun
<1>3. IsRun(text \o more, a, v) /\ Covered(list, a, v, overlap)
  BY <1>1, <1>2, RunJoin, CoveredOn
<1> QED
  BY <1>3 DEF HeldCur

LEMMA HeldBare ==
    ASSUME NEW list, NEW u, NEW overlap, NEW text, HeldCur(text, list, u, overlap),
           NEW sep \in Texts, LettersIn(sep) = {}
    PROVE  HeldCur(text \o sep, list, u, overlap)
<1>1. u \in Nat
  BY DEF HeldCur, IsRun
<1> QED
  BY <1>1, RunBare, HeldOn

LEMMA HeldPart ==
    ASSUME NEW list, NEW u, NEW v, NEW overlap, NEW text, HeldCur(text, list, u, overlap),
           NEW sep \in Texts, LettersIn(sep) = {}, NEW part, IsRun(part, u, v), NEW chunker
    PROVE  HeldCur(WithPart(chunker, text, sep, part), list, v, overlap)
<1>1. HeldCur(text \o sep \o part, list, v, overlap)
  BY HeldBare, HeldOn
<1>2. HeldCur(text \o part \o sep, list, v, overlap)
  BY HeldBare, HeldOn
<1>3. text = <<>> => HeldCur(part, list, v, overlap)
  <2> SUFFICES ASSUME text = <<>> PROVE HeldCur(part, list, v, overlap)
    OBVIOUS
  <2>1. PICK a : IsRun(<<>>, a, u) /\ Covered(list, a, u, overlap)
    BY DEF HeldCur
  <2>2. a = u /\ v \in Nat /\ u <= v
    BY <2>1, RunEmpty DEF IsRun
  <2>3. Covered(list, u, v, overlap)
    BY <2>1, <2>2, CoveredOn
  <2> QED
    BY <2>3 DEF HeldCur
<1> QED
  BY <1>1, <1>2, <1>3 DEF WithPart

-----------------------------------------------------------------------------
(* Texts of a document: of some of its letters only, and no two of them    *)
(* next to each other that are not in the document.                        *)

ApartIn(text, whole) ==
    \A k \in 1..Len(text) - 1 :
       IsLetter(text[k]) /\ IsLetter(text[k + 1]) =>
          Places(whole, <<text[k], text[k + 1]>>) # {}

IsOf(text, S, whole) ==
    text \in Texts /\ LettersIn(text) \subseteq S /\ ApartIn(text, whole)

EndsBare(text) == text # <<>> => ~ IsLetter(text[Len(text)])

IsSep(sep) == sep \in Texts /\ Len(sep) \in 1..2 /\ LettersIn(sep) = {}

LEMMA BareIs ==
    ASSUME NEW text \in Texts, LettersIn(text) = {}
    PROVE  /\ \A i \in 1..Len(text) : ~ IsLetter(text[i])
           /\ EndsBare(text)
           /\ \A S, whole : IsOf(text, S, whole)
<1>1. \A i \in 1..Len(text) : ~ IsLetter(text[i])
  BY TextIs DEF IsLetter
<1>2. PICK n \in Nat : n = Len(text) /\ (text = <<>> <=> n = 0)
  BY TextIs
<1>3. EndsBare(text)
  BY <1>1, <1>2 DEF EndsBare
<1>4. ASSUME NEW S, NEW whole PROVE IsOf(text, S, whole)
  BY <1>1, <1>2 DEF IsOf, ApartIn
<1> QED
  BY <1>1, <1>3, <1>4

LEMMA OfEmpty == \A S, whole : IsOf(<<>>, S, whole)
<1>1. <<>> \in Texts /\ LettersIn(<<>>) = {}
  BY DEF Texts, LettersIn, ToSet
<1> QED
  BY <1>1, BareIs

LEMMA OfPiece ==
    ASSUME NEW text, NEW S, NEW whole, IsOf(text, S, whole), NEW piece, IsPiece(piece, text)
    PROVE  IsOf(piece, S, whole)
<1>1. PICK n \in Nat : n = Len(text) /\ text \in Texts
  BY TextIs DEF IsOf
<1>2. PICK a \in Nat \ {0}, b \in 0..n : a <= b + 1 /\ piece = SubSeq(text, a, b)
  BY <1>1 DEF IsPiece
<1>3. /\ piece \in Texts /\ Len(piece) = b + 1 - a
      /\ \A i \in 1..b + 1 - a : piece[i] = text[a + i - 1]
  BY <1>1, <1>2, PieceIs
<1>4. LettersIn(piece) \subseteq S
  <2>1. \A k : k \in LettersIn(piece) <=> k > 0 /\ \E i \in a..b : text[i] = k
    BY <1>1, <1>2, PieceLetters
  <2>2. \A i \in a..b : i \in 1..n
    BY <1>1, <1>2
  <2>3. \A k : k \in LettersIn(text) <=> k > 0 /\ \E i \in 1..n : text[i] = k
    BY <1>1, TextIs
  <2>4. \A k \in LettersIn(piece) : k \in LettersIn(text)
    BY <2>1, <2>2, <2>3
  <2> QED
    BY <2>4 DEF IsOf
<1>5. ApartIn(piece, whole)
  <2> SUFFICES ASSUME NEW k \in 1..Len(piece) - 1, IsLetter(piece[k]), IsLetter(piece[k + 1])
               PROVE  Places(whole, <<piece[k], piece[k + 1]>>) # {}
    BY DEF ApartIn
  <2>1. k \in 1..b + 1 - a /\ k + 1 \in 1..b + 1 - a
    BY <1>2, <1>3
  <2>2. PICK j : j = a + k - 1 /\ j \in 1..n - 1 /\ a + (k + 1) - 1 = j + 1
    BY <1>2, <2>1
  <2>3. piece[k] = text[j] /\ piece[k + 1] = text[j + 1]
    <3>1. piece[k + 1] = text[a + (k + 1) - 1]
      BY <1>3, <2>1
    <3>2. piece[k] = text[a + k - 1]
      BY <1>3, <2>1
    <3> QED
      BY <2>2, <3>1, <3>2
  <2> QED
    BY <1>1, <2>2, <2>3 DEF IsOf, ApartIn
<1> QED
  BY <1>3, <1>4, <1>5 DEF IsOf

LEMMA OfJoin ==
    ASSUME NEW s, NEW t, NEW S, NEW whole, IsOf(s, S, whole), IsOf(t, S, whole),
           EndsBare(s) \/ LettersIn(t) = {}
    PROVE  IsOf(s \o t, S, whole)
<1>1. PICK m \in Nat, n \in Nat : m = Len(s) /\ n = Len(t) /\ s \in Texts /\ t \in Texts
                                  /\ (s = <<>> <=> m = 0)
  BY TextIs DEF IsOf
<1> DEFINE joined == s \o t
<1>2. /\ joined \in Texts /\ Len(joined) = m + n
      /\ \A i \in 1..m : joined[i] = s[i]
      /\ \A i \in 1..n : joined[m + i] = t[i]
  BY <1>1, JoinIs
<1>3. LettersIn(joined) \subseteq S
  BY <1>1, JoinLetters DEF IsOf
<1> HIDE DEF joined
<1>4. ASSUME NEW k \in 1..m + n - 1, IsLetter(joined[k]), IsLetter(joined[k + 1])
      PROVE  Places(whole, <<joined[k], joined[k + 1]>>) # {}
  <2>1. CASE k < m
    <3>1. k \in 1..m - 1 /\ k \in 1..m /\ k + 1 \in 1..m
      BY <2>1
    <3> QED
      BY <1>1, <1>2, <1>4, <3>1 DEF IsOf, ApartIn
  <2>2. CASE k > m
    <3>1. PICK j : j = k - m /\ j \in 1..n - 1 /\ j \in 1..n /\ j + 1 \in 1..n
                   /\ k = m + j /\ k + 1 = m + (j + 1)
      BY <2>2
    <3>2. joined[k] = t[j] /\ joined[k + 1] = t[j + 1]
      BY <1>2, <3>1
    <3> QED
      BY <1>1, <1>4, <3>1, <3>2 DEF IsOf, ApartIn
  <2>3. CASE k = m
    <3>1. 1 \in 1..n /\ m \in 1..m /\ m # 0
      BY <2>3
    <3>2. joined[k] = s[m] /\ joined[k + 1] = t[1]
      BY <1>2, <2>3, <3>1
    <3>3. LettersIn(t) # {}
      BY <1>1, <1>4, <3>1, <3>2, BareIs
    <3> QED
      BY <1>1, <1>4, <3>1, <3>2, <3>3 DEF EndsBare
  <2> QED
    BY <2>1, <2>2, <2>3
<1>5. ApartIn(joined, whole)
  <2>1. 1..Len(joined) - 1 = 1..m + n - 1
    BY <1>2
  <2> QED
    BY <1>4, <2>1 DEF ApartIn
<1> QED
  BY <1>2, <1>3, <1>5 DEF IsOf, joined

LEMMA JoinEnds ==
    ASSUME NEW s \in Texts, NEW t \in Texts, EndsBare(t), EndsBare(s) \/ t # <<>>
    PROVE  EndsBare(s \o t)
<1>1. PICK m \in Nat, n \in Nat : m = Len(s) /\ n = Len(t)
                                  /\ (s = <<>> <=> m = 0) /\ (t = <<>> <=> n = 0)
  BY TextIs
<1> DEFINE joined == s \o t
<1>2. /\ joined \in Texts /\ Len(joined) = m + n
      /\ \A i \in 1..m : joined[i] = s[i]
      /\ \A i \in 1..n : joined[m + i] = t[i]
      /\ (joined = <<>> <=> m + n = 0)
  <2>1. /\ joined \in Texts /\ Len(joined) = m + n
        /\ \A i \in 1..m : joined[i] = s[i]
        /\ \A i \in 1..n : joined[m + i] = t[i]
    BY <1>1, JoinIs
  <2> HIDE DEF joined
  <2> QED
    BY <2>1, TextIs
<1> HIDE DEF joined
<1>3. CASE n = 0
  <2>1. m + n = m /\ (m # 0 => m \in 1..m)
    BY <1>3
  <2> QED
    BY <1>1, <1>2, <1>3, <2>1 DEF EndsBare, joined
<1>4. CASE n # 0
  <2>1. n \in 1..n /\ joined[m + n] = t[n]
    BY <1>2, <1>4
  <2>2. EndsBare(joined)
    BY <1>1, <1>2, <1>4, <2>1 DEF EndsBare
  <2> QED
    BY <2>2 DEF joined
<1> QED
  BY <1>3, <1>4

LEMMA TailEnds ==
    ASSUME NEW text \in Texts, EndsBare(text), NEW tail, IsTail(tail, text)
    PROVE  EndsBare(tail)
<1>1. PICK n \in Nat : n = Len(text) /\ (text = <<>> <=> n = 0)
  BY TextIs
<1>2. PICK a \in 1..n + 1 : tail = SubSeq(text, a, n)
  BY <1>1 DEF IsTail
<1>3. a \in Nat \ {0} /\ n \in 0..n /\ a <= n + 1
  OBVIOUS
<1>4. /\ tail \in Texts /\ Len(tail) = n + 1 - a
      /\ \A i \in 1..n + 1 - a : tail[i] = text[a + i - 1]
  BY <1>1, <1>2, <1>3, PieceIs
<1>5. PICK l : l = n + 1 - a /\ l \in Nat /\ (l # 0 => l \in 1..n + 1 - a /\ a + l - 1 = n /\ n # 0)
  OBVIOUS
<1>6. tail = <<>> <=> l = 0
  BY <1>4, <1>5, TextIs
<1>7. l # 0 => tail[l] = text[n]
  BY <1>4, <1>5
<1> QED
  BY <1>1, <1>4, <1>5, <1>6, <1>7 DEF EndsBare

LEMMA OfSep ==
    ASSUME NEW text, NEW S, NEW whole, IsOf(text, S, whole), NEW sep, IsSep(sep)
    PROVE  IsOf(text \o sep, S, whole) /\ EndsBare(text \o sep) /\ text \o sep # <<>>
           /\ text \o sep \in Texts /\ Len(text \o sep) = Len(text) + Len(sep)
<1>1. PICK m \in Nat, n \in 1..2 : /\ m = Len(text) /\ n = Len(sep) /\ text \in Texts
                                   /\ sep \in Texts /\ LettersIn(sep) = {}
                                   /\ (sep = <<>> <=> n = 0)
  BY TextIs DEF IsOf, IsSep
<1>2. EndsBare(sep) /\ IsOf(sep, S, whole) /\ sep # <<>>
  BY <1>1, BareIs
<1>3. text \o sep \in Texts /\ Len(text \o sep) = m + n
  BY <1>1, JoinIs
<1>4. text \o sep # <<>>
  <2>1. m + n # 0
    OBVIOUS
  <2> QED
    BY <1>3, <2>1, TextIs
<1> QED
  BY <1>1, <1>2, <1>3, <1>4, OfJoin, JoinEnds

LEMMA OfPart ==
    ASSUME NEW text, NEW S, NEW whole, IsOf(text, S, whole), NEW part, IsOf(part, S, whole),
           NEW sep, IsSep(sep), NEW chunker, chunker # "char"
    PROVE  IsOf(WithPart(chunker, text, sep, part), S, whole)
<1>1. IsOf(text \o sep, S, whole) /\ EndsBare(text \o sep)
  BY OfSep
<1>2. IsOf(text \o sep \o part, S, whole)
  BY <1>1, OfJoin
<1> QED
  BY <1>2 DEF WithPart

LEMMA PartSize ==
    ASSUME NEW text \in Texts, NEW part \in Texts, NEW sep, IsSep(sep), NEW chunker
    PROVE  /\ WithPart(chunker, text, sep, part) \in Texts
           /\ Len(WithPart(chunker, text, sep, part)) =
                 IF text = <<>> THEN Len(part) ELSE Len(text) + Len(sep) + Len(part)
<1>1. PICK l \in Nat, m \in Nat, n \in Nat :
         l = Len(text) /\ m = Len(sep) /\ n = Len(part) /\ sep \in Texts
  BY TextIs DEF IsSep
<1>2. text \o sep \in Texts /\ Len(text \o sep) = l + m
  BY <1>1, JoinIs
<1>3. text \o part \in Texts /\ Len(text \o part) = l + n
  BY <1>1, JoinIs
<1>4. (text \o sep) \o part \in Texts /\ Len((text \o sep) \o part) = l + m + n
  BY <1>1, <1>2, JoinIs
<1>5. (text \o part) \o sep \in Texts /\ Len((text \o part) \o sep) = l + n + m
  BY <1>1, <1>3, JoinIs
<1>6. l + n + m = l + m + n
  OBVIOUS
<1> QED
  BY <1>1, <1>4, <1>5, <1>6 DEF WithPart

\* What is in a text is in it as it is there.
LEMMA PlaceApart ==
    ASSUME NEW whole \in Texts, NEW text \in Texts, text = <<>> \/ Places(whole, text) # {}
    PROVE  ApartIn(text, whole)
<1>1. PICK m \in Nat, n \in Nat : m = Len(whole) /\ n = Len(text)
                                  /\ (text = <<>> <=> n = 0)
  BY TextIs
<1>2. CASE n = 0
  <2>1. 1..n - 1 = {}
    BY <1>2
  <2> QED
    BY <1>1, <2>1 DEF ApartIn
<1>3. CASE n # 0
  <2>1. PICK p \in 1..m - n + 1 : SubSeq(whole, p, p + n - 1) = text
    BY <1>1, <1>3 DEF Places
  <2> SUFFICES ASSUME NEW k \in 1..n - 1
               PROVE  Places(whole, <<text[k], text[k + 1]>>) # {}
    BY <1>1 DEF ApartIn
  <2>2. PICK q : /\ q = p + n - 1 /\ q \in 0..m /\ p <= q + 1 /\ p \in Nat \ {0}
                 /\ q + 1 - p = n /\ k \in 1..n /\ k + 1 \in 1..n
    BY <1>3, <2>1
  <2>3. \A i \in 1..n : text[i] = whole[p + i - 1]
    BY <1>1, <2>1, <2>2, PieceIs
  <2>4. PICK j : j = p + k - 1 /\ j \in Nat \ {0} /\ j + 1 \in 0..m /\ j <= (j + 1) + 1
                 /\ j \in 1..m - 2 + 1 /\ p + (k + 1) - 1 = j + 1 /\ (j + 1) + 1 - j = 2
                 /\ j + 2 - 1 = j + 1
    BY <1>3, <2>1, <2>2
  <2>5. /\ SubSeq(whole, j, j + 1) \in Texts /\ Len(SubSeq(whole, j, j + 1)) = 2
        /\ \A i \in 1..2 : SubSeq(whole, j, j + 1)[i] = whole[j + i - 1]
    BY <1>1, <2>4, PieceIs
  <2>6. text[k] = whole[j] /\ text[k + 1] = whole[j + 1]
    <3>1. text[k + 1] = whole[p + (k + 1) - 1] /\ text[k] = whole[p + k - 1]
      BY <2>2, <2>3
    <3> QED
      BY <2>4, <3>1
  <2> DEFINE two == <<text[k], text[k + 1]>>
  <2>7. /\ two \in Texts /\ Len(two) = 2 /\ two[1] = text[k] /\ two[2] = text[k + 1]
    <3>1. text[k] \in Int /\ text[k + 1] \in Int
      BY <1>1, <2>2, TextIs
    <3> QED
      BY <3>1 DEF Texts
  <2> HIDE DEF two
  <2>8. SubSeq(whole, j, j + 1) = two
    <3>1. \A i \in 1..2 : i = 1 \/ i = 2
      OBVIOUS
    <3>2. 1 \in 1..2 /\ 2 \in 1..2 /\ j + 1 - 1 = j /\ j + 2 - 1 = j + 1
      BY <2>4
    <3>3. SubSeq(whole, j, j + 1)[1] = two[1] /\ SubSeq(whole, j, j + 1)[2] = two[2]
      BY <2>5, <2>6, <2>7, <3>2
    <3>4. \A i \in 1..2 : SubSeq(whole, j, j + 1)[i] = two[i]
      BY <3>1, <3>3
    <3> QED
      BY <2>5, <2>7, <3>4, SameText
  <2>9. j \in Places(whole, two)
    BY <1>1, <2>4, <2>7, <2>8 DEF Places
  <2> QED
    BY <2>9 DEF two
<1> QED
  BY <1>2, <1>3

-----------------------------------------------------------------------------
(* What the variables hold.  The builder is empty when a text has just been*)
(* given to recursiveSplit.                                                *)

Chunk == [text : Texts] \cup [text : Texts, h2 : Nat, h3 : Nat]

Types ==
    /\ cur \in Texts /\ IsStack(calls)
    /\ md.bodies \in Seq(Bodies) /\ bodyNo \in 0..Len(md.bodies)
    /\ doc.chunker # "markdown" => md.bodies = <<>>
    /\ pc = "start" => bodyNo = 0
    /\ calls # <<>> /\ doc.chunker = "markdown" => bodyNo # 0
    /\ doc.chunker # "pdf" => chunks \in Seq(Chunk)
    /\ doc.chunker # "pdf" /\ pc = "start" => chunks = <<>>
    /\ /\ doc.chunker # "pdf" /\ (pc = "start" => doc.chunker # "markdown")
       /\ calls = <<>> \/ Last(calls).at = "call"
       => cur = <<>>

LEMMA HeaderAtType ==
    ASSUME NEW headers \in Seq([level : Nat, line : Nat]), NEW level
    PROVE  HeaderAt(headers, level) \in Nat
<1> DEFINE H == [level : Nat, line : Nat]
<1>1. headers \in Seq(H) /\ \A h \in H : h.line \in Nat
  OBVIOUS
<1> HIDE DEF H
<1>2. \A i \in DOMAIN headers : headers[i].line \in Nat
  BY <1>1
<1>3. \A h \in ToSet(headers) : h.line \in Nat
  BY <1>2 DEF ToSet
<1> QED
  BY <1>3 DEF HeaderAt

LEMMA ChunkOfIs ==
    ASSUME Types, NEW text \in Texts, NEW k,
           doc.chunker = "markdown" => k \in 1..Len(md.bodies)
    PROVE  /\ ChunkOf(text, k) \in Chunk /\ ChunkOf(text, k).text = text
           /\ doc.chunker = "markdown" =>
                 /\ ChunkOf(text, k).h2 = HeaderAt(md.bodies[k].headers, 2)
                 /\ ChunkOf(text, k).h3 = HeaderAt(md.bodies[k].headers, 3)
<1>1. CASE doc.chunker = "markdown"
  <2>1. md.bodies[k] \in Bodies
    BY <1>1 DEF Types
  <2>2. md.bodies[k].headers \in Seq([level : Nat, line : Nat])
    BY <2>1 DEF Bodies
  <2>3. PICK h2 \in Nat, h3 \in Nat : /\ h2 = HeaderAt(md.bodies[k].headers, 2)
                                      /\ h3 = HeaderAt(md.bodies[k].headers, 3)
    BY <2>2, HeaderAtType
  <2>4. ChunkOf(text, k) = [text |-> text, h2 |-> h2, h3 |-> h3]
    BY <1>1, <2>3 DEF ChunkOf
  <2>5. ChunkOf(text, k) \in [text : Texts, h2 : Nat, h3 : Nat]
    BY <2>4
  <2> QED
    BY <2>3, <2>4, <2>5 DEF Chunk
<1>2. CASE doc.chunker # "markdown"
  <2>1. ChunkOf(text, k) = [text |-> text]
    BY <1>2 DEF ChunkOf
  <2>2. ChunkOf(text, k) \in [text : Texts]
    BY <2>1
  <2> QED
    BY <1>2, <2>1, <2>2 DEF Chunk
<1> QED
  BY <1>1, <1>2

\* While recursiveSplit, or the loop over the lines, runs.
LEMMA RunningIs ==
    ASSUME Control, Types, calls # <<>>
    PROVE  /\ pc = "split" /\ doc.chunker # "pdf"
           /\ calls \in Seq(Frames) /\ IsFrame(Top) /\ Top = Last(calls)
           /\ Front(calls) \in Seq(Frames) /\ IsStack(Front(calls)) /\ GoesOn(Front(calls))
           /\ chunks \in Seq(Chunk) /\ cur \in Texts
           /\ Top.at = "call" => cur = <<>>
           /\ doc.chunker = "markdown" => bodyNo \in 1..Len(md.bodies)
           /\ \A text \in Texts : /\ ChunkOf(text, bodyNo) \in Chunk
                                  /\ ChunkOf(text, bodyNo).text = text
<1>1. pc = "split" /\ doc.chunker # "pdf"
  BY DEF Control
<1>2. IsFrame(Last(calls)) /\ IsStack(Front(calls)) /\ GoesOn(Front(calls))
  BY StackPop DEF Types
<1>3. doc.chunker = "markdown" => bodyNo \in 1..Len(md.bodies)
  BY DEF Types
<1>4. \A text \in Texts : /\ ChunkOf(text, bodyNo) \in Chunk
                          /\ ChunkOf(text, bodyNo).text = text
  BY <1>3, ChunkOfIs
<1>5. calls \in Seq(Frames) /\ Front(calls) \in Seq(Frames)
  BY <1>2 DEF Types, IsStack
<1> QED
  BY <1>1, <1>2, <1>3, <1>4, <1>5 DEF Types, Top

\* A part of the text of a call, and what is left of the text after it.
IsPart(call, sep, first, part, after) ==
    /\ IsSep(sep) /\ call.depth \in 1..8
    /\ IsPiece(first, call.text) /\ first \in Texts
    /\ IsPiece(part, call.text) /\ part \in Texts
    /\ IsFrame(after) /\ after.at \in {"parts", "end"} /\ IsPiece(after.text, call.text)
    /\ \A u, w : IsRun(call.text, u, w) =>
         \E v : IsRun(first, u, v) /\ IsRun(part, u, v) /\ IsRun(after.text, v, w)

LEMMA PartIs ==
    ASSUME IsFrame(Top), Top.at = "parts"
    PROVE  /\ IsPart(Top, Sep, FirstPart, Part, AfterPart)
           /\ AfterPart.at = "end" <=> Places(Top.text, Sep) = {}
<1>1. PICK text \in Texts, depth \in 1..8 : Top = [text |-> text, depth |-> depth, at |-> "parts"]
  <2>1. /\ Top.text \in Texts /\ Top.depth \in 1..9 /\ Top.depth <= 8
        /\ Top = [text |-> Top.text, depth |-> Top.depth, at |-> "parts"]
    BY DEF IsFrame, Frames
  <2> QED
    BY <2>1
<1>2. Top.text = text /\ Top.depth = depth
  BY <1>1
<1>3. PICK sep : sep = Sep /\ IsSep(sep)
  <2>1. Sep \in {<<Newline, Newline>>, <<Newline>>, <<Space>>}
             \cup {<<ch, Space>> : ch \in {Stop, Question, Exclamation, Semicolon, Comma}}
    BY <1>2 DEF Sep, Separators
  <2>2. ASSUME NEW s \in {<<Newline, Newline>>, <<Newline>>, <<Space>>}
                        \cup {<<ch, Space>> : ch \in {Stop, Question, Exclamation, Semicolon, Comma}}
        PROVE IsSep(s)
    <3>1. s \in Texts /\ Len(s) \in 1..2 /\ \A i \in 1..Len(s) : s[i] <= 0
      <4>1. CASE s = <<Newline, Newline>>
        BY <4>1 DEF Texts, Newline
      <4>2. CASE s = <<Newline>>
        BY <4>2 DEF Texts, Newline
      <4>3. CASE s = <<Space>>
        BY <4>3 DEF Texts, Space
      <4>4. ASSUME NEW ch \in {Stop, Question, Exclamation, Semicolon, Comma}, s = <<ch, Space>>
            PROVE  s \in Texts /\ Len(s) \in 1..2 /\ \A i \in 1..Len(s) : s[i] <= 0
        <5>1. ch \in Int /\ ch <= 0
          BY DEF Stop, Question, Exclamation, Semicolon, Comma
        <5> QED
          BY <4>4, <5>1 DEF Texts, Space
      <4> QED
        BY <4>1, <4>2, <4>3, <4>4
    <3>2. LettersIn(s) = {}
      BY <3>1, TextIs
    <3> QED
      BY <3>1, <3>2 DEF IsSep
  <2> QED
    BY <2>1, <2>2
<1>4. PICK n \in Nat : n = Len(text) /\ sep \in Texts /\ Len(sep) > 0 /\ LettersIn(sep) = {}
  <2>1. sep \in Texts /\ Len(sep) > 0 /\ LettersIn(sep) = {}
    <3>1. sep \in Texts /\ Len(sep) \in 1..2 /\ LettersIn(sep) = {}
      BY <1>3, Zenon DEF IsSep
    <3>2. \A n \in 1..2 : n > 0
      OBVIOUS
    <3> QED
      BY <3>1, <3>2
  <2>2. Len(text) \in Nat
    BY TextIs
  <2> QED
    BY <2>1, <2>2
<1>5. CASE Places(text, sep) = {}
  <2>1. FirstPart = text /\ AfterPart = [text |-> <<>>, depth |-> depth, at |-> "end"]
    BY <1>1, <1>2, <1>3, <1>5 DEF FirstPart, AfterPart
  <2>2. <<>> \in Texts /\ depth \in 1..9 /\ depth <= 8
    BY DEF Texts
  <2>3. IsFrame(AfterPart) /\ AfterPart.at = "end" /\ AfterPart.text = <<>>
    BY <2>1, <2>2 DEF IsFrame, Frames
  <2>4. 1 \in Nat \ {0} /\ n \in 0..n /\ 1 <= n + 1 /\ text = SubSeq(text, 1, n)
    BY <1>4, EmptyPiece
  <2>5. IsPiece(text, text) /\ IsPiece(<<>>, text)
    BY <1>4, <2>4, EmptyPiece DEF IsPiece
  <2>6. Part = TrimSpace(text)
    BY <2>1 DEF Part
  <2>7. IsPiece(Part, text) /\ Part \in Texts
    BY <2>6, TrimIs, PieceType
  <2>8. ASSUME NEW u, NEW w, IsRun(text, u, w)
        PROVE  IsRun(FirstPart, u, w) /\ IsRun(Part, u, w) /\ IsRun(AfterPart.text, w, w)
    <3>1. w \in Nat
      BY <2>8 DEF IsRun
    <3> QED
      BY <2>1, <2>3, <2>6, <2>8, <3>1, TrimIs, RunEmpty
  <2> QED
    BY <1>2, <1>3, <1>5, <2>1, <2>3, <2>5, <2>7, <2>8 DEF IsPart
<1>6. CASE Places(text, sep) # {}
  <2>1. PICK m : m = Min(Places(text, sep))
    OBVIOUS
  <2>2. /\ m \in 1..Len(text) /\ m - 1 + Len(sep) \in 0..Len(text)
        /\ \A u, v : IsRun(text, u, v) =>
             \E w \in u..v : /\ IsRun(SubSeq(text, 1, m - 1), u, w)
                             /\ IsRun(SubSeq(text, m + Len(sep), Len(text)), w, v)
    BY <1>4, <1>6, <2>1, CutAtSep
  <2>3. /\ FirstPart = SubSeq(text, 1, m - 1)
        /\ AfterPart = [text |-> SubSeq(text, m + Len(sep), Len(text)), depth |-> depth,
                        at |-> "parts"]
    BY <1>1, <1>2, <1>3, <1>6, <2>1 DEF FirstPart, AfterPart
  <2>4. /\ 1 \in Nat \ {0} /\ m - 1 \in 0..n /\ 1 <= (m - 1) + 1
        /\ m + Len(sep) \in Nat \ {0} /\ n \in 0..n /\ m + Len(sep) <= n + 1
    <3>1. PICK l \in 1..2 : l = Len(sep)
      BY <1>3 DEF IsSep
    <3>2. m \in 1..n /\ m - 1 + l \in 0..n
      BY <1>4, <2>2, <3>1
    <3> QED
      BY <3>1, <3>2
  <2>5. IsPiece(FirstPart, text)
    BY <1>4, <2>3, <2>4 DEF IsPiece
  <2>6. FirstPart \in Texts
    BY <2>5, PieceType
  <2>7. SubSeq(text, m + Len(sep), Len(text)) \in Texts
        /\ IsPiece(SubSeq(text, m + Len(sep), Len(text)), text)
    BY <1>4, <2>4, PieceIs DEF IsPiece
  <2>8. IsFrame(AfterPart) /\ AfterPart.at = "parts" /\ IsPiece(AfterPart.text, text)
    BY <2>3, <2>7 DEF IsFrame, Frames
  <2>9. IsPiece(Part, text) /\ Part \in Texts
    <3>1. PICK c, d : c = m - 1 /\ d = c /\ c \in 0..n /\ FirstPart = SubSeq(text, 1, c)
      BY <2>3, <2>4
    <3>2. IsPiece(Part, FirstPart) /\ Len(FirstPart) = c
      BY <1>4, <2>6, <3>1, TrimIs, FrontIs DEF Part
    <3>3. PICK a \in Nat \ {0}, b \in 0..c : a <= b + 1 /\ Part = SubSeq(FirstPart, a, b)
      BY <3>2 DEF IsPiece
    <3>4. /\ b \in 0..c + 1 - 1 /\ 1 + a - 1 = a /\ 1 + b - 1 = b /\ b \in 0..n /\ 1 <= c + 1
      BY <3>1
    <3>5. Part = SubSeq(text, 1 + a - 1, 1 + b - 1)
      BY <1>4, <3>1, <3>3, <3>4, PiecePiece
    <3>6. IsPiece(Part, text)
      BY <1>4, <3>3, <3>4, <3>5 DEF IsPiece
    <3> QED
      BY <3>6, PieceType
  <2>10. ASSUME NEW u, NEW w, IsRun(text, u, w)
         PROVE  \E v : /\ IsRun(FirstPart, u, v) /\ IsRun(Part, u, v)
                       /\ IsRun(AfterPart.text, v, w)
    <3>1. PICK v : /\ IsRun(FirstPart, u, v)
                   /\ IsRun(SubSeq(text, m + Len(sep), Len(text)), v, w)
      BY <2>2, <2>3, <2>10
    <3>2. IsRun(Part, u, v)
      BY <2>6, <3>1, TrimIs DEF Part
    <3> QED
      BY <2>3, <3>1, <3>2
  <2> QED
    BY <1>2, <1>3, <1>6, <2>5, <2>6, <2>8, <2>9, <2>10 DEF IsPart
<1> QED
  BY <1>5, <1>6

-----------------------------------------------------------------------------
(* What is true while a text is split, of where it comes from (src).       *)

Source ==
    [chunker |-> doc.chunker, letters |-> doc.letters, whole |-> doc.text,
     lines |-> doc.lineTexts, bodies |-> md.bodies, n |-> bodyNo,
     size |-> config.size, overlap |-> config.overlap]

\* The letters of a body, and the last letter of those read so far.
BodyLetters(src, k) ==
    LettersTo(src.lines, src.bodies[k].from - 1) + 1..LettersTo(src.lines, src.bodies[k].to)

Reached(src) ==
    IF src.chunker # "markdown" THEN src.letters
    ELSE IF src.n = 0 THEN 0 ELSE LettersTo(src.lines, src.bodies[src.n].to)

TextOf(src, text) ==
    IsOf(text, IF src.chunker = "markdown" THEN BodyLetters(src, src.n) ELSE Int, src.whole)

AllOf(src, stack) == \A k \in 1..Len(stack) : TextOf(src, stack[k].text)

ChunkFrom(src, x) ==
    IF src.chunker = "markdown"
    THEN \E k \in 1..src.n : /\ x.h2 = HeaderAt(src.bodies[k].headers, 2)
                             /\ x.h3 = HeaderAt(src.bodies[k].headers, 3)
                             /\ IsOf(x.text, BodyLetters(src, k), src.whole)
    ELSE IsOf(x.text, Int, src.whole)

AllFrom(src, list) == \A c \in 1..Len(list) : ChunkFrom(src, list[c])

Limit(src) == src.size + (IF src.overlap = 0 THEN 0 ELSE src.overlap + 4)

AllFit(src, list) == \A c \in 1..Len(list) : Len(list[c].text) <= Limit(src)

Holds(src, stack, text, list) ==
    \E u : /\ Waits(stack, u, Reached(src))
           /\ IF stack # <<>> /\ Last(stack).at = "call"
              THEN HeldCall(Last(stack).text, Last(stack).depth, list, u, src.size, src.overlap)
              ELSE HeldCur(text, list, u, src.overlap)

Takes(src, stack, text, list) ==
    src.chunker # "char" =>
       /\ TextOf(src, text) /\ AllOf(src, stack) /\ AllFrom(src, list)
       /\ src.chunker = "token" /\ stack # <<>> /\ Last(stack).at = "parts" => EndsBare(text)

Fits(src, text, list) ==
    src.chunker # "token" => Len(text) <= Limit(src) /\ AllFit(src, list)

SplitInv ==
    pc = "split" => /\ Holds(Source, calls, cur, chunks)
                    /\ Takes(Source, calls, cur, chunks)
                    /\ Fits(Source, cur, chunks)

LEMMA FrontOf ==
    ASSUME NEW src, NEW stack \in Seq(Frames), stack # <<>>, AllOf(src, stack)
    PROVE  AllOf(src, Front(stack)) /\ TextOf(src, Last(stack).text)
<1>1. PICK n \in Nat \ {0} : n = Len(stack)
  BY FrontLast
<1>2. /\ Len(Front(stack)) = n - 1 /\ \A k \in 1..n - 1 : Front(stack)[k] = stack[k]
      /\ Last(stack) = stack[n]
  BY <1>1, FrontLast
<1>3. n \in 1..n /\ \A k \in 1..n - 1 : k \in 1..n
  OBVIOUS
<1> QED
  BY <1>1, <1>2, <1>3 DEF AllOf

LEMMA AppendIs ==
    ASSUME NEW S, NEW list \in Seq(S), NEW x \in S
    PROVE  /\ Append(list, x) \in Seq(S)
           /\ \A k \in 1..Len(Append(list, x)) :
                 (k \in 1..Len(list) /\ Append(list, x)[k] = list[k]) \/ Append(list, x)[k] = x
<1>1. PICK n \in Nat : n = Len(list)
  OBVIOUS
<1>2. /\ Append(list, x) \in Seq(S) /\ Len(Append(list, x)) = n + 1
      /\ \A k \in 1..n : Append(list, x)[k] = list[k]
      /\ Append(list, x)[n + 1] = x
  BY <1>1
<1>3. \A k \in 1..n + 1 : k \in 1..n \/ k = n + 1
  OBVIOUS
<1> QED
  BY <1>1, <1>2, <1>3

LEMMA PushOf ==
    ASSUME NEW src, NEW stack \in Seq(Frames), AllOf(src, stack),
           NEW x \in Frames, TextOf(src, x.text)
    PROVE  AllOf(src, Append(stack, x))
<1>1. PICK more : more = Append(stack, x)
  OBVIOUS
<1>2. \A k \in 1..Len(more) : (k \in 1..Len(stack) /\ more[k] = stack[k]) \/ more[k] = x
  BY <1>1, AppendIs
<1>3. \A k \in 1..Len(more) : TextOf(src, more[k].text)
  BY <1>2 DEF AllOf
<1> QED
  BY <1>1, <1>3 DEF AllOf

LEMMA PushFrom ==
    ASSUME NEW src, NEW list \in Seq(Chunk), AllFrom(src, list),
           NEW x \in Chunk, ChunkFrom(src, x)
    PROVE  AllFrom(src, Append(list, x))
<1>1. PICK more : more = Append(list, x)
  OBVIOUS
<1>2. \A k \in 1..Len(more) : (k \in 1..Len(list) /\ more[k] = list[k]) \/ more[k] = x
  BY <1>1, AppendIs
<1>3. \A k \in 1..Len(more) : ChunkFrom(src, more[k])
  BY <1>2 DEF AllFrom
<1> QED
  BY <1>1, <1>3 DEF AllFrom

LEMMA PushFits ==
    ASSUME NEW src, NEW list \in Seq(Chunk), AllFit(src, list),
           NEW x \in Chunk, Len(x.text) <= Limit(src)
    PROVE  AllFit(src, Append(list, x))
<1>1. PICK more : more = Append(list, x)
  OBVIOUS
<1>2. \A k \in 1..Len(more) : (k \in 1..Len(list) /\ more[k] = list[k]) \/ more[k] = x
  BY <1>1, AppendIs
<1>3. \A k \in 1..Len(more) : Len(more[k].text) <= Limit(src)
  BY <1>2 DEF AllFit
<1> QED
  BY <1>1, <1>3 DEF AllFit

\* What is true of the calls, the builder and the chunks.
AreSplit(src, stack, text, list) ==
    /\ text \in Texts /\ IsStack(stack) /\ list \in Seq(Chunk)
    /\ stack = <<>> \/ Last(stack).at = "call" => text = <<>>
    /\ Holds(src, stack, text, list)
    /\ Takes(src, stack, text, list)
    /\ Fits(src, text, list)

\* The same, of the running call, top, and those that wait for it.
Running(src, rest, top, text, list, u, w) ==
    /\ src.size \in Nat \ {0} /\ src.overlap \in Nat
    /\ IsStack(rest) /\ GoesOn(rest) /\ IsFrame(top)
    /\ text \in Texts /\ list \in Seq(Chunk)
    /\ top.at = "call" => text = <<>>
    /\ IsRun(top.text, u, w) /\ Waits(rest, w, Reached(src))
    /\ IF top.at = "call"
       THEN HeldCall(top.text, top.depth, list, u, src.size, src.overlap)
       ELSE HeldCur(text, list, u, src.overlap)
    /\ src.chunker # "char" =>
          /\ TextOf(src, text) /\ TextOf(src, top.text)
          /\ AllOf(src, rest) /\ AllFrom(src, list)
          /\ src.chunker = "token" /\ top.at = "parts" => EndsBare(text)
    /\ src.chunker # "token" => Len(text) <= Limit(src) /\ AllFit(src, list)

\* A chunk of a text of the source.
IsChunk(src, x, text) ==
    /\ x \in Chunk /\ x.text = text
    /\ TextOf(src, text) => ChunkFrom(src, x)

LEMMA ChunkIs ==
    ASSUME Types, doc.chunker = "markdown" => bodyNo \in 1..Len(md.bodies)
    PROVE  \A text \in Texts : IsChunk(Source, ChunkOf(text, bodyNo), text)
<1> SUFFICES ASSUME NEW text \in Texts PROVE IsChunk(Source, ChunkOf(text, bodyNo), text)
  OBVIOUS
<1>1. /\ Source.chunker = doc.chunker /\ Source.n = bodyNo
      /\ Source.bodies = md.bodies
  BY DEF Source
<1>2. PICK x \in Chunk :
         /\ x = ChunkOf(text, bodyNo) /\ x.text = text
         /\ doc.chunker = "markdown" =>
               /\ x.h2 = HeaderAt(md.bodies[bodyNo].headers, 2)
               /\ x.h3 = HeaderAt(md.bodies[bodyNo].headers, 3)
  BY ChunkOfIs
<1>3. doc.chunker = "markdown" => bodyNo \in 1..bodyNo
  OBVIOUS
<1>4. TextOf(Source, text) => ChunkFrom(Source, x)
  BY <1>1, <1>2, <1>3 DEF ChunkFrom, TextOf
<1> QED
  BY <1>2, <1>4 DEF IsChunk

LEMMA SourceIs ==
    ASSUME DocType
    PROVE  /\ Source.size = config.size /\ Source.overlap = config.overlap
           /\ Source.chunker = doc.chunker
           /\ Source.size \in Nat \ {0} /\ Source.overlap \in Nat
BY DEF DocType, Source

LEMMA RunningNow ==
    ASSUME DocType, Control, Types, SplitInv, calls # <<>>
    PROVE  /\ \E u, w : Running(Source, Front(calls), Top, cur, chunks, u, w)
           /\ \A text \in Texts : IsChunk(Source, ChunkOf(text, bodyNo), text)
           /\ doc.chunker # "pdf"
<1>1. /\ pc = "split" /\ doc.chunker # "pdf"
      /\ calls \in Seq(Frames) /\ Top = Last(calls)
      /\ IsStack(Front(calls)) /\ GoesOn(Front(calls)) /\ IsFrame(Top)
      /\ cur \in Texts /\ chunks \in Seq(Chunk)
      /\ Top.at = "call" => cur = <<>>
  BY RunningIs
<1>2. /\ Source.size \in Nat \ {0} /\ Source.overlap \in Nat
      /\ Holds(Source, calls, cur, chunks) /\ Takes(Source, calls, cur, chunks)
      /\ Fits(Source, cur, chunks)
  BY <1>1, SourceIs DEF SplitInv
<1>3. PICK u : /\ Waits(calls, u, Reached(Source))
               /\ IF Top.at = "call"
                  THEN HeldCall(Top.text, Top.depth, chunks, u, Source.size, Source.overlap)
                  ELSE HeldCur(cur, chunks, u, Source.overlap)
  BY <1>1, <1>2 DEF Holds
<1>4. PICK w : IsRun(Top.text, u, w) /\ Waits(Front(calls), w, Reached(Source))
  BY <1>1, <1>3, WaitsPop
<1>5. Source.chunker # "char" =>
         /\ TextOf(Source, cur) /\ TextOf(Source, Top.text)
         /\ AllOf(Source, Front(calls)) /\ AllFrom(Source, chunks)
         /\ Source.chunker = "token" /\ Top.at = "parts" => EndsBare(cur)
  <2>1. Source.chunker # "char" =>
           /\ TextOf(Source, cur) /\ AllOf(Source, calls) /\ AllFrom(Source, chunks)
           /\ Source.chunker = "token" /\ Top.at = "parts" => EndsBare(cur)
    BY <1>1, <1>2 DEF Takes
  <2> QED
    BY <1>1, <2>1, FrontOf
<1>6. Running(Source, Front(calls), Top, cur, chunks, u, w)
  BY <1>1, <1>2, <1>3, <1>4, <1>5 DEF Running, Fits
<1>7. \A t \in Texts : IsChunk(Source, ChunkOf(t, bodyNo), t)
  BY RunningIs, ChunkIs
<1> QED
  BY <1>1, <1>6, <1>7

\* A step of what runs leaves the source as it is.
LEMMA RunningOn ==
    ASSUME Control, Types, calls # <<>>, UNCHANGED <<doc, config, pc, md, pdf, bodyNo>>,
           AreSplit(Source, calls', cur', chunks')
    PROVE  Types' /\ SplitInv'
<1>1. pc = "split" /\ doc.chunker # "pdf"
  BY DEF Control
<1>2. doc.chunker = "markdown" => bodyNo # 0
  BY DEF Types
<1>3. Types'
  BY <1>1, <1>2 DEF Types, AreSplit
<1>4. Source' = Source
  BY DEF Source
<1>5. SplitInv'
  BY <1>4 DEF SplitInv, AreSplit
<1> QED
  BY <1>3, <1>5

-----------------------------------------------------------------------------
(* The steps of recursiveSplit: the running call returns, goes on, or calls*)
(* itself.                                                                 *)

LEMMA LimitIs ==
    ASSUME NEW src, src.size \in Nat \ {0}, src.overlap \in Nat
    PROVE  /\ Limit(src) \in Nat /\ src.size <= Limit(src)
           /\ src.overlap # 0 => src.size + src.overlap + 4 = Limit(src)
BY DEF Limit

LEMMA EmptyOf ==
    /\ \A src : TextOf(src, <<>>)
    /\ EndsBare(<<>>) /\ <<>> \in Texts /\ Len(<<>>) = 0
BY OfEmpty DEF TextOf, EndsBare, Texts

LEMMA PieceOf ==
    ASSUME NEW src, NEW text, TextOf(src, text), NEW piece, IsPiece(piece, text)
    PROVE  TextOf(src, piece)
BY OfPiece DEF TextOf

\* It returns.
LEMMA Returns ==
    ASSUME NEW src, NEW rest, NEW top, NEW text, NEW list, NEW u, NEW w,
           Running(src, rest, top, text, list, u, w),
           NEW list2 \in Seq(Chunk), HeldCur(<<>>, list2, w, src.overlap),
           src.chunker # "char" => AllFrom(src, list2),
           src.chunker # "token" => AllFit(src, list2)
    PROVE  AreSplit(src, rest, <<>>, list2)
<1>1. Holds(src, rest, <<>>, list2)
  BY DEF Running, Holds, GoesOn
<1>2. Takes(src, rest, <<>>, list2)
  BY EmptyOf DEF Running, Takes
<1>3. Fits(src, <<>>, list2)
  BY EmptyOf, LimitIs DEF Running, Fits
<1>4. <<>> \in Texts /\ IsStack(rest)
  BY EmptyOf DEF Running
<1> QED
  BY <1>1, <1>2, <1>3, <1>4 DEF AreSplit

\* It goes on with its parts.
LEMMA GoesToPart ==
    ASSUME NEW src, NEW rest, NEW top, NEW text, NEW list, NEW u, NEW w,
           Running(src, rest, top, text, list, u, w),
           NEW on, IsFrame(on), on.at # "call", IsPiece(on.text, top.text),
           NEW v, IsRun(on.text, v, w),
           NEW text2 \in Texts, NEW list2 \in Seq(Chunk), HeldCur(text2, list2, v, src.overlap),
           src.chunker # "char" => TextOf(src, text2) /\ AllFrom(src, list2),
           src.chunker = "token" /\ on.at = "parts" => EndsBare(text2),
           src.chunker # "token" => Len(text2) <= Limit(src) /\ AllFit(src, list2)
    PROVE  AreSplit(src, Append(rest, on), text2, list2)
<1>1. PICK stack : stack = Append(rest, on)
  OBVIOUS
<1>2. /\ rest \in Seq(Frames) /\ on \in Frames
      /\ IsStack(stack) /\ stack # <<>> /\ Last(stack) = on
  <2>1. IsStack(rest) /\ GoesOn(rest)
    BY DEF Running
  <2>2. rest \in Seq(Frames) /\ on \in Frames
    BY <2>1 DEF IsStack, IsFrame
  <2> QED
    BY <1>1, <2>1, <2>2, StackPush
<1>3. Waits(stack, v, Reached(src))
  BY <1>1, <1>2, WaitsPush DEF Running
<1>4. Holds(src, stack, text2, list2)
  BY <1>2, <1>3 DEF Holds
<1>5. src.chunker # "char" => AllOf(src, stack)
  BY <1>1, <1>2, PushOf, PieceOf DEF Running
<1>6. Takes(src, stack, text2, list2)
  BY <1>2, <1>5 DEF Takes
<1>7. Fits(src, text2, list2)
  BY DEF Fits
<1> QED
  BY <1>1, <1>2, <1>4, <1>6, <1>7 DEF AreSplit

\* It goes on as a call, or its last part is given to another.
LEMMA GoesToCall ==
    ASSUME NEW src, NEW rest, IsStack(rest), GoesOn(rest),
           NEW w, Waits(rest, w, Reached(src)),
           NEW on, IsFrame(on), on.at = "call",
           NEW v, IsRun(on.text, v, w), src.size \in Nat \ {0}, src.overlap \in Nat,
           NEW list2 \in Seq(Chunk),
           HeldCall(on.text, on.depth, list2, v, src.size, src.overlap),
           src.chunker # "char" => /\ TextOf(src, on.text) /\ AllOf(src, rest)
                                   /\ AllFrom(src, list2),
           src.chunker # "token" => AllFit(src, list2)
    PROVE  AreSplit(src, Append(rest, on), <<>>, list2)
<1>1. PICK stack : stack = Append(rest, on)
  OBVIOUS
<1>2. /\ rest \in Seq(Frames) /\ on \in Frames
      /\ IsStack(stack) /\ stack # <<>> /\ Last(stack) = on
  BY <1>1, StackPush DEF IsStack, IsFrame
<1>3. Waits(stack, v, Reached(src))
  BY <1>1, <1>2, WaitsPush
<1>4. Holds(src, stack, <<>>, list2)
  BY <1>2, <1>3 DEF Holds
<1>5. src.chunker # "char" => AllOf(src, stack)
  BY <1>1, <1>2, PushOf
<1>6. Takes(src, stack, <<>>, list2)
  BY <1>5, EmptyOf DEF Takes
<1>7. Fits(src, <<>>, list2)
  BY EmptyOf, LimitIs DEF Fits
<1> QED
  BY <1>1, <1>2, <1>4, <1>6, <1>7, EmptyOf DEF AreSplit

\* One chunk more.
LEMMA ListWith ==
    ASSUME NEW src, NEW rest, NEW top, NEW text, NEW list, NEW u, NEW w,
           Running(src, rest, top, text, list, u, w),
           NEW x, NEW t, IsChunk(src, x, t),
           src.chunker # "char" => TextOf(src, t),
           src.chunker # "token" => Len(t) <= Limit(src)
    PROVE  /\ Append(list, x) \in Seq(Chunk)
           /\ src.chunker # "char" => AllFrom(src, Append(list, x))
           /\ src.chunker # "token" => AllFit(src, Append(list, x))
<1>1. list \in Seq(Chunk) /\ x \in Chunk /\ x.text = t
  BY DEF Running, IsChunk
<1>2. Append(list, x) \in Seq(Chunk)
  BY <1>1, AppendIs
<1>3. src.chunker # "char" => AllFrom(src, Append(list, x))
  BY <1>1, PushFrom DEF Running, IsChunk
<1>4. src.chunker # "token" => AllFit(src, Append(list, x))
  BY <1>1, PushFits DEF Running
<1> QED
  BY <1>2, <1>3, <1>4

\* A call with another text.
LEMMA FrameWith ==
    ASSUME NEW x \in Frames, NEW t
    PROVE  [x EXCEPT !.text = t] = [text |-> t, depth |-> x.depth, at |-> x.at]
<1>1. PICK text, depth, at : x = [text |-> text, depth |-> depth, at |-> at]
  BY DEF Frames
<1> QED
  BY <1>1

LEMMA ReturnStep ==
    ASSUME NEW src, NEW rest, NEW top, NEW text, NEW list, NEW u, NEW w,
           Running(src, rest, top, text, list, u, w), top.at = "call",
           Len(top.text) <= src.size, NEW x, IsChunk(src, x, top.text)
    PROVE  AreSplit(src, rest, <<>>, Append(list, x))
<1>1. /\ src.size \in Nat \ {0} /\ src.overlap \in Nat /\ list \in Seq(Chunk)
      /\ IsRun(top.text, u, w) /\ HeldCall(top.text, top.depth, list, u, src.size, src.overlap)
      /\ x \in Chunk /\ x.text = top.text
      /\ src.chunker # "char" => TextOf(src, top.text)
  BY DEF Running, IsChunk
<1>2. Len(top.text) <= Limit(src)
  <2>1. Len(top.text) \in Nat
    BY <1>1, TextIs DEF IsRun
  <2> QED
    BY <1>1, <2>1, LimitIs
<1>3. /\ Append(list, x) \in Seq(Chunk)
      /\ src.chunker # "char" => AllFrom(src, Append(list, x))
      /\ src.chunker # "token" => AllFit(src, Append(list, x))
  BY <1>1, <1>2, ListWith
<1>4. HeldCur(<<>>, Append(list, x), w, src.overlap)
  BY <1>1, HeldReturn
<1> QED
  BY <1>3, <1>4, Returns

LEMMA ForceStep ==
    ASSUME NEW src, NEW rest, NEW top, NEW text, NEW list, NEW u, NEW w,
           Running(src, rest, top, text, list, u, w), top.at = "call",
           Len(top.text) > src.size, top.depth > 8,
           NEW x, IsChunk(src, x, SubSeq(top.text, 1, src.size)), NEW on,
           on = [top EXCEPT !.text = SubSeq(top.text, Stride(src.size, src.overlap) + 1,
                                            Len(top.text))]
    PROVE  AreSplit(src, Append(rest, on), <<>>, Append(list, x))
<1>1. PICK t, size, overlap, depth, back :
         /\ t = top.text /\ size = src.size /\ overlap = src.overlap /\ depth = top.depth
         /\ back = SubSeq(t, Stride(size, overlap) + 1, Len(t))
  OBVIOUS
<1>2. /\ size \in Nat \ {0} /\ overlap \in Nat /\ list \in Seq(Chunk)
      /\ IsStack(rest) /\ GoesOn(rest) /\ Waits(rest, w, Reached(src))
      /\ IsRun(t, u, w) /\ HeldCall(t, depth, list, u, size, overlap)
      /\ src.chunker # "char" => /\ TextOf(src, t) /\ AllOf(src, rest)
  BY <1>1 DEF Running
<1>3. /\ x \in Chunk /\ x.text = SubSeq(t, 1, size) /\ IsChunk(src, x, SubSeq(t, 1, size))
      /\ top \in Frames /\ depth \in 1..9 /\ depth > 8 /\ Len(t) > size /\ top.at = "call"
  BY <1>1 DEF IsChunk, Running, IsFrame, Frames
<1>4. PICK n \in Nat : n = Len(t) /\ t \in Texts
  BY <1>2, TextIs DEF IsRun
<1>5. PICK stride \in 1..size : stride = Stride(size, overlap)
  BY <1>2, StrideIs
<1>6. /\ stride + 1 \in Nat \ {0} /\ n \in 0..n /\ stride + 1 <= n + 1 /\ size \in 0..n
      /\ 1 \in Nat \ {0} /\ 1 <= size + 1
  BY <1>2, <1>3, <1>4
<1>7. back \in Texts /\ IsPiece(back, t)
  <2>1. back = SubSeq(t, stride + 1, n)
    BY <1>1, <1>4, <1>5
  <2> QED
    BY <1>4, <1>6, <2>1, PieceIs DEF IsPiece
<1>8. IsPiece(SubSeq(t, 1, size), t) /\ Len(SubSeq(t, 1, size)) = size
  BY <1>4, <1>6, FrontIs DEF IsPiece
<1>9. on = [text |-> back, depth |-> depth, at |-> "call"]
  <2>1. on = [top EXCEPT !.text = back]
    BY <1>1
  <2> QED
    BY <1>1, <1>3, <2>1, FrameWith
<1>10. IsFrame(on) /\ on.at = "call" /\ on.text = back /\ on.depth = depth
  <2>1. depth \in 1..9 /\ back \in Texts
    BY <1>3, <1>7
  <2>2. on.at = "call" /\ on.text = back /\ on.depth = depth
    BY <1>9
  <2>3. on \in Frames
    <3>1. [text |-> back, depth |-> depth, at |-> "call"] \in Frames
      BY <2>1 DEF Frames
    <3> QED
      BY <1>9, <3>1
  <2> QED
    BY <2>2, <2>3 DEF IsFrame
<1>11. PICK v : IsRun(back, v, w) /\ HeldCall(back, depth, Append(list, x), v, size, overlap)
  <2>1. back = SubSeq(t, Stride(size, overlap) + 1, Len(t))
    BY <1>1
  <2> QED
    BY <1>2, <1>3, <2>1, HeldForce
<1>12. /\ Append(list, x) \in Seq(Chunk)
       /\ src.chunker # "char" => AllFrom(src, Append(list, x))
       /\ src.chunker # "token" => AllFit(src, Append(list, x))
  <2>1. Len(SubSeq(t, 1, size)) <= Limit(src)
    BY <1>1, <1>2, <1>8, LimitIs
  <2>2. src.chunker # "char" => TextOf(src, SubSeq(t, 1, size))
    BY <1>2, <1>8, PieceOf
  <2> QED
    BY <1>3, <2>1, <2>2, ListWith
<1>13. src.chunker # "char" => TextOf(src, on.text)
  BY <1>2, <1>7, <1>10, PieceOf
<1>14. HeldCall(on.text, on.depth, Append(list, x), v, src.size, src.overlap)
  BY <1>1, <1>10, <1>11
<1> QED
  BY <1>1, <1>2, <1>10, <1>11, <1>12, <1>13, <1>14, GoesToCall

\* The text has the separator, or the next is looked for.
LEMMA FoundStep ==
    ASSUME NEW src, NEW rest, NEW top, NEW text, NEW list, NEW u, NEW w,
           Running(src, rest, top, text, list, u, w), top.at = "call", top.depth <= 8
    PROVE  /\ AreSplit(src, Append(rest, [top EXCEPT !.depth = @ + 1]), <<>>, list)
           /\ AreSplit(src, Append(rest, [top EXCEPT !.at = "parts"]), <<>>, list)
<1>1. PICK t \in Texts, depth \in 1..8 : top = [text |-> t, depth |-> depth, at |-> "call"]
  <2>1. /\ top.text \in Texts /\ top.depth \in 1..9
        /\ top = [text |-> top.text, depth |-> top.depth, at |-> "call"]
    BY DEF Running, IsFrame, Frames
  <2>2. top.depth \in 1..8
    BY <2>1
  <2> QED
    BY <2>1, <2>2
<1>2. PICK on, parts : /\ on = [text |-> t, depth |-> depth + 1, at |-> "call"]
                       /\ parts = [text |-> t, depth |-> depth, at |-> "parts"]
  OBVIOUS
<1>3. on = [top EXCEPT !.depth = @ + 1] /\ parts = [top EXCEPT !.at = "parts"]
  BY <1>1, <1>2
<1>4. /\ IsFrame(on) /\ on.at = "call" /\ on.text = t /\ on.depth = depth + 1
      /\ IsFrame(parts) /\ parts.at = "parts" /\ parts.text = t
  BY <1>2 DEF IsFrame, Frames
<1>5. /\ src.size \in Nat \ {0} /\ src.overlap \in Nat /\ list \in Seq(Chunk)
      /\ IsStack(rest) /\ GoesOn(rest) /\ Waits(rest, w, Reached(src))
      /\ IsRun(t, u, w) /\ HeldCall(t, depth, list, u, src.size, src.overlap)
      /\ src.chunker # "char" => TextOf(src, t) /\ AllOf(src, rest) /\ AllFrom(src, list)
      /\ src.chunker # "token" => AllFit(src, list)
  BY <1>1 DEF Running
<1>6. HeldCur(<<>>, list, u, src.overlap)
  BY <1>5, HeldParts
<1>7. HeldCall(on.text, on.depth, list, u, src.size, src.overlap)
  BY <1>4, <1>5, <1>6, HeldNew
<1>8. AreSplit(src, Append(rest, on), <<>>, list)
  BY <1>4, <1>5, <1>7, GoesToCall
<1>9. IsPiece(parts.text, top.text)
  <2>1. 1 \in Nat \ {0} /\ Len(t) \in 0..Len(t) /\ 1 <= Len(t) + 1
    BY TextIs
  <2>2. IsPiece(t, t)
    BY <2>1, EmptyPiece DEF IsPiece
  <2> QED
    BY <1>1, <1>4, <2>2
<1>10. src.chunker # "token" => Len(<<>>) <= Limit(src) /\ AllFit(src, list)
  BY <1>5, EmptyOf, LimitIs
<1>11. AreSplit(src, Append(rest, parts), <<>>, list)
  BY <1>4, <1>5, <1>6, <1>9, <1>10, EmptyOf, GoesToPart
<1> QED
  BY <1>3, <1>8, <1>11

\* A part of no text.
LEMMA SkipStep ==
    ASSUME NEW src, NEW rest, NEW top, NEW text, NEW list, NEW u, NEW w,
           Running(src, rest, top, text, list, u, w), top.at = "parts", src.chunker # "token",
           NEW sep, NEW first, NEW after, IsPart(top, sep, first, <<>>, after)
    PROVE  AreSplit(src, Append(rest, after), text, list)
<1>1. /\ text \in Texts /\ list \in Seq(Chunk) /\ IsRun(top.text, u, w)
      /\ HeldCur(text, list, u, src.overlap)
      /\ src.chunker # "char" => TextOf(src, text) /\ AllFrom(src, list)
      /\ src.chunker # "token" => Len(text) <= Limit(src) /\ AllFit(src, list)
  BY DEF Running
<1>2. IsFrame(after) /\ after.at # "call" /\ IsPiece(after.text, top.text)
  BY DEF IsPart
<1>3. PICK v : IsRun(<<>>, u, v) /\ IsRun(after.text, v, w)
  BY <1>1 DEF IsPart
<1>4. u = v
  BY <1>3, RunEmpty
<1> QED
  BY <1>1, <1>2, <1>3, <1>4, GoesToPart

\* A part is written after what the builder holds.
LEMMA WrittenStep ==
    ASSUME NEW src, NEW rest, NEW top, NEW text, NEW list, NEW u, NEW w,
           Running(src, rest, top, text, list, u, w), src.chunker # "token",
           NEW sep, NEW first, NEW part, NEW after, IsPart(top, sep, first, part, after),
           NEW before \in Texts, NEW list2 \in Seq(Chunk), HeldCur(before, list2, u, src.overlap),
           src.chunker # "char" => TextOf(src, before) /\ AllFrom(src, list2),
           AllFit(src, list2), before = <<>> => Len(part) <= src.size,
           before # <<>> => Len(before) + Len(sep) + Len(part) <= Limit(src)
    PROVE  AreSplit(src, Append(rest, after), WithPart(src.chunker, before, sep, part), list2)
<1>1. PICK chunker, text2 : /\ chunker = src.chunker
                            /\ text2 = WithPart(chunker, before, sep, part)
  OBVIOUS
<1>2. /\ src.size \in Nat \ {0} /\ src.overlap \in Nat /\ IsRun(top.text, u, w)
      /\ src.chunker # "char" => TextOf(src, top.text)
  BY DEF Running
<1>3. /\ IsFrame(after) /\ after.at # "call" /\ IsPiece(after.text, top.text)
      /\ part \in Texts /\ IsPiece(part, top.text) /\ IsSep(sep)
      /\ sep \in Texts /\ LettersIn(sep) = {}
  BY DEF IsPart, IsSep
<1>4. PICK v : IsRun(part, u, v) /\ IsRun(after.text, v, w)
  BY <1>2 DEF IsPart
<1>5. text2 \in Texts /\ Len(text2) = IF before = <<>> THEN Len(part)
                                      ELSE Len(before) + Len(sep) + Len(part)
  BY <1>1, <1>3, PartSize
<1>6. HeldCur(text2, list2, v, src.overlap)
  BY <1>1, <1>3, <1>4, HeldPart
<1>7. src.chunker # "char" => TextOf(src, text2)
  <2> SUFFICES ASSUME src.chunker # "char" PROVE TextOf(src, text2)
    OBVIOUS
  <2>1. TextOf(src, part) /\ TextOf(src, before)
    BY <1>2, <1>3, PieceOf
  <2> QED
    BY <1>1, <1>3, <2>1, OfPart DEF TextOf
<1>8. Len(text2) <= Limit(src)
  <2>1. Len(part) \in Nat
    BY <1>3, TextIs
  <2> QED
    BY <1>2, <1>5, <2>1, LimitIs
<1>9. AreSplit(src, Append(rest, after), text2, list2)
  BY <1>3, <1>4, <1>5, <1>6, <1>7, <1>8, GoesToPart
<1> QED
  BY <1>1, <1>9

LEMMA MergeStep ==
    ASSUME NEW src, NEW rest, NEW top, NEW text, NEW list, NEW u, NEW w,
           Running(src, rest, top, text, list, u, w), src.chunker # "token", top.at = "parts",
           NEW sep, NEW first, NEW part, NEW after, IsPart(top, sep, first, part, after),
           Len(part) <= src.size, NEW x, IsChunk(src, x, text), NEW before,
           before = IF src.overlap > 0 THEN Suffix(text, src.overlap) \o sep ELSE <<>>
    PROVE  /\ AreSplit(src, Append(rest, after), WithPart(src.chunker, before, sep, part),
                       Append(list, x))
           /\ ~ Overflows(text, sep, part, src.size) =>
              AreSplit(src, Append(rest, after), WithPart(src.chunker, text, sep, part), list)
<1>1. PICK overlap, size : overlap = src.overlap /\ size = src.size
  OBVIOUS
<1>2. /\ size \in Nat \ {0} /\ overlap \in Nat /\ text \in Texts /\ list \in Seq(Chunk)
      /\ HeldCur(text, list, u, overlap)
      /\ src.chunker # "char" => TextOf(src, text) /\ AllFrom(src, list)
      /\ Len(text) <= Limit(src) /\ AllFit(src, list)
  BY <1>1 DEF Running
<1>3. IsSep(sep) /\ sep \in Texts /\ LettersIn(sep) = {} /\ part \in Texts
  BY DEF IsPart, IsSep
<1>4. PICK k \in Nat, l \in 1..2, m \in Nat : k = Len(text) /\ l = Len(sep) /\ m = Len(part)
  BY <1>2, <1>3, TextIs DEF IsSep
<1>5. /\ Limit(src) \in Nat /\ size <= Limit(src)
      /\ overlap # 0 => size + overlap + 4 = Limit(src)
  BY <1>1, <1>2, LimitIs
<1>6. x \in Chunk /\ x.text = text
  BY DEF IsChunk
<1>7. /\ Append(list, x) \in Seq(Chunk)
      /\ src.chunker # "char" => AllFrom(src, Append(list, x))
      /\ AllFit(src, Append(list, x))
  BY <1>2, ListWith
<1>8. ASSUME overlap = 0
      PROVE  AreSplit(src, Append(rest, after), WithPart(src.chunker, before, sep, part),
                      Append(list, x))
  <2>1. before = <<>>
    BY <1>1, <1>8
  <2>2. HeldCur(<<>>, Append(list, x), u, overlap)
    BY <1>2, <1>6, NoTail, HeldNext
  <2>3. /\ before \in Texts /\ HeldCur(before, Append(list, x), u, src.overlap)
        /\ TextOf(src, before)
        /\ before # <<>> => Len(before) + Len(sep) + Len(part) <= Limit(src)
    BY <1>1, <2>1, <2>2, EmptyOf
  <2>4. before = <<>> => Len(part) <= src.size
    OBVIOUS
  <2>5. AreSplit(src, Append(rest, after), WithPart(src.chunker, before, sep, part),
                 Append(list, x))
    BY <1>7, <2>3, <2>4, WrittenStep
  <2> QED
    BY <2>5
<1>9. ASSUME overlap # 0
      PROVE  AreSplit(src, Append(rest, after), WithPart(src.chunker, before, sep, part),
                      Append(list, x))
  <2>1. PICK tail : tail = Suffix(text, overlap) /\ before = tail \o sep
    <3>1. overlap > 0
      BY <1>2, <1>9
    <3>2. before = Suffix(text, overlap) \o sep
      BY <1>1, <3>1
    <3> QED
      BY <3>2
  <2>2. IsTail(tail, text) /\ Len(tail) <= overlap
    BY <1>2, <1>9, <2>1, SuffixIs
  <2>3. IsPiece(tail, text) /\ tail \in Texts
    BY <1>2, <2>2, TailIs, PieceType
  <2>4. HeldCur(tail, Append(list, x), u, overlap)
    BY <1>2, <1>6, <1>9, <2>2, HeldNext
  <2>5. HeldCur(before, Append(list, x), u, src.overlap)
    BY <1>1, <1>3, <2>1, <2>4, HeldBare
  <2>6. before \in Texts /\ Len(before) = Len(tail) + l /\ Len(tail) \in Nat
    <3>1. tail \o sep \in Texts /\ Len(tail \o sep) = Len(tail) + Len(sep)
      BY <1>3, <2>3, JoinIs
    <3>2. Len(tail) \in Nat
      BY <2>3, TextIs
    <3> QED
      BY <1>4, <2>1, <3>1, <3>2
  <2>7. before # <<>>
    <3>1. Len(before) # 0
      BY <2>6
    <3> QED
      BY <2>6, <3>1, TextIs
  <2>8. Len(before) + Len(sep) + Len(part) <= Limit(src)
    <3>1. PICK t \in Nat : t = Len(tail)
      BY <2>6
    <3>2. t <= overlap /\ Len(before) = t + l
      BY <2>2, <2>6, <3>1
    <3>3. m <= size
      BY <1>1, <1>4
    <3>4. PICK limit \in Nat : limit = Limit(src) /\ size + overlap + 4 = limit
      BY <1>5, <1>9
    <3>5. (t + l) + l + m <= limit
      BY <1>2, <3>2, <3>3, <3>4
    <3> QED
      BY <1>4, <3>2, <3>4, <3>5
  <2>9. src.chunker # "char" => TextOf(src, before)
    <3> SUFFICES ASSUME src.chunker # "char" PROVE TextOf(src, before)
      OBVIOUS
    <3>1. TextOf(src, tail)
      BY <1>2, <2>3, PieceOf
    <3> QED
      BY <1>3, <2>1, <3>1, OfSep DEF TextOf
  <2> QED
    BY <1>1, <1>7, <2>5, <2>6, <2>7, <2>8, <2>9, WrittenStep
<1>10. ASSUME ~ Overflows(text, sep, part, src.size)
       PROVE  AreSplit(src, Append(rest, after), WithPart(src.chunker, text, sep, part), list)
  <2>1. text # <<>> => Len(text) + Len(sep) + Len(part) <= size
    BY <1>1, <1>2, <1>4, <1>10 DEF Overflows
  <2>2. text # <<>> => Len(text) + Len(sep) + Len(part) <= Limit(src)
    BY <1>2, <1>4, <1>5, <2>1
  <2>3. /\ HeldCur(text, list, u, src.overlap) /\ text \in Texts /\ list \in Seq(Chunk)
        /\ src.chunker # "char" => TextOf(src, text) /\ AllFrom(src, list)
        /\ AllFit(src, list)
    BY <1>1, <1>2
  <2>4. text = <<>> => Len(part) <= src.size
    OBVIOUS
  <2> QED
    BY <2>2, <2>3, <2>4, WrittenStep
<1> QED
  BY <1>8, <1>9, <1>10, <1>2

\* What the builder holds is a chunk if it is anything.
FlushedWith(list, text, x) == IF text = <<>> THEN list ELSE Append(list, x)

LEMMA FlushIs ==
    ASSUME NEW src, NEW rest, NEW top, NEW text, NEW list, NEW u, NEW w,
           Running(src, rest, top, text, list, u, w), top.at # "call",
           NEW x, IsChunk(src, x, text)
    PROVE  /\ FlushedWith(list, text, x) \in Seq(Chunk)
           /\ HeldCur(<<>>, FlushedWith(list, text, x), u, src.overlap)
           /\ src.chunker # "char" => AllFrom(src, FlushedWith(list, text, x))
           /\ src.chunker # "token" => AllFit(src, FlushedWith(list, text, x))
<1>1. /\ list \in Seq(Chunk) /\ HeldCur(text, list, u, src.overlap)
      /\ src.chunker # "char" => TextOf(src, text) /\ AllFrom(src, list)
      /\ src.chunker # "token" => Len(text) <= Limit(src) /\ AllFit(src, list)
  BY DEF Running
<1>2. x \in Chunk /\ x.text = text
  BY DEF IsChunk
<1>3. /\ Append(list, x) \in Seq(Chunk)
      /\ src.chunker # "char" => AllFrom(src, Append(list, x))
      /\ src.chunker # "token" => AllFit(src, Append(list, x))
  BY <1>1, ListWith
<1>4. HeldCur(<<>>, FlushedWith(list, text, x), u, src.overlap)
  BY <1>1, <1>2, HeldFlush DEF FlushedWith
<1> QED
  BY <1>1, <1>3, <1>4 DEF FlushedWith

LEMMA EndStep ==
    ASSUME NEW src, NEW rest, NEW top, NEW text, NEW list, NEW u, NEW w,
           Running(src, rest, top, text, list, u, w), top.at = "end",
           NEW x, IsChunk(src, x, text)
    PROVE  AreSplit(src, rest, <<>>, FlushedWith(list, text, x))
<1>1. top.text = <<>> /\ IsRun(top.text, u, w)
  BY DEF Running, IsFrame
<1>2. u = w
  BY <1>1, RunEmpty
<1> QED
  BY <1>2, FlushIs, Returns

\* A part that does not fit is given to another call.
LEMMA CallStep ==
    ASSUME NEW src, NEW rest, NEW top, NEW text, NEW list, NEW u, NEW w,
           Running(src, rest, top, text, list, u, w), top.at = "parts",
           NEW sep, NEW first, NEW part, NEW after, IsPart(top, sep, first, part, after),
           NEW x, IsChunk(src, x, text)
    PROVE  AreSplit(src, Append(Append(rest, after), Call(part, top.depth + 1)), <<>>,
                    FlushedWith(list, text, x))
<1>1. PICK list2 : list2 = FlushedWith(list, text, x)
  OBVIOUS
<1>2. /\ list2 \in Seq(Chunk) /\ HeldCur(<<>>, list2, u, src.overlap)
      /\ src.chunker # "char" => AllFrom(src, list2)
      /\ src.chunker # "token" => AllFit(src, list2)
  BY <1>1, FlushIs
<1>3. /\ src.size \in Nat \ {0} /\ src.overlap \in Nat
      /\ IsStack(rest) /\ GoesOn(rest) /\ Waits(rest, w, Reached(src))
      /\ IsRun(top.text, u, w)
      /\ src.chunker # "char" => TextOf(src, top.text) /\ AllOf(src, rest)
  BY DEF Running
<1>4. /\ IsFrame(after) /\ after.at # "call" /\ IsPiece(after.text, top.text)
      /\ part \in Texts /\ IsPiece(part, top.text) /\ top.depth \in 1..8
  BY DEF IsPart
<1>5. PICK v : IsRun(part, u, v) /\ IsRun(after.text, v, w)
  BY <1>3 DEF IsPart
<1>6. PICK depth \in 1..9 : depth = top.depth + 1
  BY <1>4
<1>7. PICK on : on = [text |-> part, depth |-> depth, at |-> "call"]
  OBVIOUS
<1>8. /\ IsFrame(on) /\ on.at = "call" /\ on.text = part /\ on.depth = depth
      /\ on = Call(part, top.depth + 1)
  <2>1. on.at = "call" /\ on.text = part /\ on.depth = depth /\ on = Call(part, top.depth + 1)
    BY <1>6, <1>7 DEF Call
  <2>2. [text |-> part, depth |-> depth, at |-> "call"] \in Frames
    BY <1>4, <1>6 DEF Frames
  <2>3. on \in Frames
    BY <1>7, <2>2
  <2> QED
    BY <2>1, <2>3 DEF IsFrame
<1>9. PICK stack : /\ stack = Append(rest, after) /\ IsStack(stack) /\ GoesOn(stack)
                   /\ Waits(stack, v, Reached(src))
                   /\ src.chunker # "char" => AllOf(src, stack)
  <2>1. rest \in Seq(Frames) /\ after \in Frames
    BY <1>3, <1>4 DEF IsStack, IsFrame
  <2>2. /\ IsStack(Append(rest, after)) /\ Append(rest, after) # <<>>
        /\ Last(Append(rest, after)) = after
    BY <1>3, <1>4, StackPush
  <2>3. Waits(Append(rest, after), v, Reached(src))
    BY <1>3, <1>5, <2>1, WaitsPush
  <2>4. src.chunker # "char" => AllOf(src, Append(rest, after))
    BY <1>3, <1>4, <2>1, PushOf, PieceOf
  <2>5. GoesOn(Append(rest, after))
    BY <1>4, <2>2 DEF GoesOn
  <2> QED
    BY <2>2, <2>3, <2>4, <2>5
<1>10. HeldCall(on.text, on.depth, list2, u, src.size, src.overlap)
  BY <1>2, <1>3, <1>4, <1>8, HeldNew
<1>11. src.chunker # "char" => TextOf(src, on.text)
  BY <1>3, <1>4, <1>8, PieceOf
<1>12. IsRun(on.text, u, v)
  BY <1>5, <1>8
<1>13. AreSplit(src, Append(stack, on), <<>>, list2)
  BY <1>2, <1>3, <1>8, <1>9, <1>10, <1>11, <1>12, GoesToCall
<1> QED
  BY <1>1, <1>8, <1>9, <1>13

\* TokenChunker: a line is written after what the builder holds.
LEMMA LineStep ==
    ASSUME NEW src, NEW rest, NEW top, NEW text, NEW list, NEW u, NEW w,
           Running(src, rest, top, text, list, u, w), src.chunker = "token", top.at = "parts",
           NEW sep, NEW first, NEW part, NEW after, IsPart(top, sep, first, part, after),
           NEW x, IsChunk(src, x, text), NEW line, 
           line = first \o (IF after.at = "end" THEN <<>> ELSE sep)
    PROVE  /\ AreSplit(src, Append(rest, after), OverlapTail(text, src.overlap) \o line,
                       Append(list, x))
           /\ AreSplit(src, Append(rest, after), text \o line, list)
<1>1. PICK overlap : overlap = src.overlap
  OBVIOUS
<1>2. /\ overlap \in Nat /\ text \in Texts /\ list \in Seq(Chunk)
      /\ HeldCur(text, list, u, overlap) /\ IsRun(top.text, u, w)
      /\ TextOf(src, text) /\ AllFrom(src, list) /\ TextOf(src, top.text) /\ EndsBare(text)
  BY <1>1 DEF Running
<1>3. /\ IsFrame(after) /\ after.at \in {"parts", "end"} /\ IsPiece(after.text, top.text)
      /\ first \in Texts /\ IsPiece(first, top.text) /\ IsSep(sep)
  BY DEF IsPart
<1>4. PICK v : IsRun(first, u, v) /\ IsRun(after.text, v, w)
  BY <1>2 DEF IsPart
<1>5. PICK end \in Texts : /\ end = IF after.at = "end" THEN <<>> ELSE sep
                           /\ LettersIn(end) = {} /\ line = first \o end
                           /\ after.at = "parts" => end = sep
  <2>1. <<>> \in Texts /\ LettersIn(<<>>) = {}
    BY DEF Texts, LettersIn, ToSet
  <2>2. sep \in Texts /\ LettersIn(sep) = {}
    BY <1>3 DEF IsSep
  <2> QED
    BY <1>3, <2>1, <2>2
<1>6. line \in Texts /\ IsRun(line, u, v)
  <2>1. IsRun(end, v, v)
    BY <1>4, <1>5, RunBare DEF IsRun
  <2> QED
    BY <1>3, <1>4, <1>5, <2>1, RunJoin, JoinIs
<1>7. TextOf(src, line) /\ (after.at = "parts" => EndsBare(line))
  <2>1. TextOf(src, first)
    BY <1>2, <1>3, PieceOf
  <2>2. TextOf(src, first \o end)
    BY <1>5, <2>1, BareIs, OfJoin DEF TextOf
  <2>3. after.at = "parts" => EndsBare(first \o sep)
    BY <1>3, <2>1, OfSep DEF TextOf
  <2> QED
    BY <1>5, <2>2, <2>3
<1>8. ASSUME NEW before \in Texts, TextOf(src, before), EndsBare(before),
             NEW list2 \in Seq(Chunk), HeldCur(before, list2, u, overlap), AllFrom(src, list2)
      PROVE  AreSplit(src, Append(rest, after), before \o line, list2)
  <2>1. PICK text2 : text2 = before \o line
    OBVIOUS
  <2>2. text2 \in Texts /\ HeldCur(text2, list2, v, src.overlap)
    BY <1>1, <1>6, <1>8, <2>1, HeldOn, JoinIs
  <2>3. TextOf(src, text2)
    BY <1>7, <1>8, <2>1, OfJoin DEF TextOf
  <2>4. after.at = "parts" => EndsBare(text2)
    BY <1>6, <1>7, <1>8, <2>1, JoinEnds
  <2>5. AreSplit(src, Append(rest, after), text2, list2)
    BY <1>3, <1>4, <1>8, <2>2, <2>3, <2>4, GoesToPart
  <2> QED
    BY <2>1, <2>5
<1>9. AreSplit(src, Append(rest, after), text \o line, list)
  BY <1>2, <1>8
<1>10. AreSplit(src, Append(rest, after), OverlapTail(text, src.overlap) \o line,
                Append(list, x))
  <2>1. PICK tail : /\ tail = OverlapTail(text, overlap) /\ IsTail(tail, text)
                    /\ overlap = 0 => tail = <<>>
    BY <1>2, OverlapTailIs
  <2>2. IsPiece(tail, text) /\ tail \in Texts /\ EndsBare(tail)
    BY <1>2, <2>1, TailIs, PieceType, TailEnds
  <2>3. TextOf(src, tail)
    BY <1>2, <2>2, PieceOf
  <2>4. x \in Chunk /\ x.text = text
    BY DEF IsChunk
  <2>5. Append(list, x) \in Seq(Chunk) /\ AllFrom(src, Append(list, x))
    BY <1>2, ListWith
  <2>6. HeldCur(tail, Append(list, x), u, overlap)
    BY <1>2, <2>1, <2>4, HeldNext
  <2>7. AreSplit(src, Append(rest, after), tail \o line, Append(list, x))
    BY <1>8, <2>2, <2>3, <2>5, <2>6
  <2> QED
    BY <1>1, <2>1, <2>7
<1> QED
  BY <1>9, <1>10

-----------------------------------------------------------------------------
(* The actions of recursiveSplit and of TokenChunker.                      *)

LEMMA ReturnKeeps ==
    ASSUME DocType, Control, Types, SplitInv, ReturnText
    PROVE  Types' /\ SplitInv'
<1>1. /\ calls # <<>> /\ Top.at = "call" /\ UNCHANGED <<doc, config, pc, md, pdf, bodyNo>>
      /\ Len(Top.text) <= config.size
      /\ chunks' = Append(chunks, ChunkOf(Top.text, bodyNo))
      /\ calls' = Front(calls) /\ cur' = cur
  BY DEF ReturnText, At, With, Return
<1>2. PICK u, w : Running(Source, Front(calls), Top, cur, chunks, u, w)
  BY <1>1, RunningNow
<1>3. Top.text \in Texts /\ cur' = <<>>
  BY <1>1, RunningIs DEF IsFrame, Frames
<1>4. IsChunk(Source, ChunkOf(Top.text, bodyNo), Top.text) /\ Source.size = config.size
  BY <1>1, <1>3, RunningNow, SourceIs
<1>5. AreSplit(Source, Front(calls), <<>>, Append(chunks, ChunkOf(Top.text, bodyNo)))
  BY <1>1, <1>2, <1>4, ReturnStep
<1> QED
  BY <1>1, <1>3, <1>5, RunningOn

LEMMA ForceKeeps ==
    ASSUME DocType, Control, Types, SplitInv, ForceSplit
    PROVE  Types' /\ SplitInv'
<1>1. PICK piece, on :
        /\ piece = SubSeq(Top.text, 1, config.size)
        /\ on = [Top EXCEPT !.text = SubSeq(Top.text, Stride(config.size, config.overlap) + 1,
                                            Len(Top.text))]
  OBVIOUS
<1>2. /\ calls # <<>> /\ Top.at = "call" /\ UNCHANGED <<doc, config, pc, md, pdf, bodyNo>>
      /\ Len(Top.text) > config.size /\ Top.depth > Len(Separators)
      /\ chunks' = Append(chunks, ChunkOf(piece, bodyNo))
      /\ calls' = Append(Front(calls), on) /\ cur' = cur
  BY <1>1 DEF ForceSplit, At, With, GoOn
<1>3. PICK u, w : Running(Source, Front(calls), Top, cur, chunks, u, w)
  BY <1>2, RunningNow
<1>4. Top.text \in Texts /\ cur' = <<>>
  BY <1>2, RunningIs DEF IsFrame, Frames
<1>5. Source.size = config.size /\ Source.overlap = config.overlap /\ config.size \in Nat \ {0}
  BY SourceIs
<1>6. piece \in Texts
  <2>1. PICK n \in Nat, size \in Nat : n = Len(Top.text) /\ size = config.size /\ size <= n
    <3>1. Len(Top.text) \in Nat
      BY <1>4, TextIs
    <3>2. config.size \in Nat /\ config.size <= Len(Top.text)
      BY <1>2, <1>5, <3>1
    <3> QED
      BY <3>1, <3>2
  <2>2. size \in 0..n
    BY <2>1
  <2> QED
    BY <1>1, <1>4, <2>1, <2>2, FrontIs
<1>7. IsChunk(Source, ChunkOf(piece, bodyNo), piece)
  BY <1>2, <1>6, RunningNow
<1>8. Top.depth > 8
  BY <1>2 DEF Separators
<1>9. AreSplit(Source, Append(Front(calls), on), <<>>, Append(chunks, ChunkOf(piece, bodyNo)))
  <2>1. PICK src : src = Source
    OBVIOUS
  <2>2. /\ Len(Top.text) > src.size /\ IsChunk(src, ChunkOf(piece, bodyNo),
                                                SubSeq(Top.text, 1, src.size))
        /\ Running(src, Front(calls), Top, cur, chunks, u, w)
        /\ on = [Top EXCEPT !.text = SubSeq(Top.text, Stride(src.size, src.overlap) + 1,
                                            Len(Top.text))]
    BY <1>1, <1>2, <1>3, <1>5, <1>7, <2>1
  <2>3. AreSplit(src, Append(Front(calls), on), <<>>, Append(chunks, ChunkOf(piece, bodyNo)))
    BY <1>2, <1>8, <2>2, ForceStep
  <2> QED
    BY <2>1, <2>3
<1> QED
  BY <1>2, <1>4, <1>9, RunningOn

LEMMA FoundKeeps ==
    ASSUME DocType, Control, Types, SplitInv, SeparatorFound
    PROVE  Types' /\ SplitInv'
<1>1. PICK down, parts : /\ down = [Top EXCEPT !.depth = @ + 1]
                         /\ parts = [Top EXCEPT !.at = "parts"]
  OBVIOUS
<1>2. /\ calls # <<>> /\ Top.at = "call" /\ UNCHANGED <<doc, config, pc, md, pdf, bodyNo>>
      /\ Top.depth <= Len(Separators) /\ chunks' = chunks /\ cur' = cur
      /\ calls' = Append(Front(calls), down) \/ calls' = Append(Front(calls), parts)
  BY <1>1 DEF SeparatorFound, At, GoOn
<1>3. PICK u, w : Running(Source, Front(calls), Top, cur, chunks, u, w)
  BY <1>2, RunningNow
<1>4. cur' = <<>>
  BY <1>2, RunningIs
<1>5. Top.depth <= 8
  BY <1>2 DEF Separators
<1>6. /\ AreSplit(Source, Append(Front(calls), down), <<>>, chunks)
      /\ AreSplit(Source, Append(Front(calls), parts), <<>>, chunks)
  BY <1>1, <1>2, <1>3, <1>5, FoundStep
<1>7. AreSplit(Source, calls', cur', chunks')
  BY <1>2, <1>4, <1>6
<1> QED
  BY <1>2, <1>7, RunningOn

LEMMA SkipKeeps ==
    ASSUME DocType, Control, Types, SplitInv, SkipPart
    PROVE  Types' /\ SplitInv'
<1>1. /\ calls # <<>> /\ Top.at = "parts" /\ UNCHANGED <<doc, config, pc, md, pdf, bodyNo>>
      /\ doc.chunker # "token" /\ Part = <<>> /\ chunks' = chunks /\ cur' = cur
      /\ calls' = Append(Front(calls), AfterPart)
  BY DEF SkipPart, ReadingPart, At, GoOn
<1>2. PICK u, w : Running(Source, Front(calls), Top, cur, chunks, u, w)
  BY <1>1, RunningNow
<1>3. PICK sep, first, after :
        /\ sep = Sep /\ first = FirstPart /\ after = AfterPart
        /\ IsPart(Top, sep, first, <<>>, after)
  <2>1. IsPart(Top, Sep, FirstPart, Part, AfterPart)
    BY <1>1, RunningIs, PartIs
  <2> QED
    BY <1>1, <2>1
<1>4. Source.chunker # "token"
  BY <1>1, SourceIs
<1>5. AreSplit(Source, Append(Front(calls), after), cur, chunks)
  BY <1>1, <1>2, <1>3, <1>4, SkipStep
<1>6. AreSplit(Source, calls', cur', chunks')
  BY <1>1, <1>3, <1>5
<1> QED
  BY <1>1, <1>6, RunningOn

LEMMA MergeKeeps ==
    ASSUME DocType, Control, Types, SplitInv, MergePart
    PROVE  Types' /\ SplitInv'
<1>1. PICK sep, first, part, after, before, x :
        /\ sep = Sep /\ first = FirstPart /\ part = Part /\ after = AfterPart
        /\ before = MergeOverlap /\ x = ChunkOf(cur, bodyNo)
  OBVIOUS
<1>2. /\ calls # <<>> /\ Top.at = "parts" /\ UNCHANGED <<doc, config, pc, md, pdf, bodyNo>>
      /\ doc.chunker # "token" /\ Len(part) <= config.size
      /\ calls' = Append(Front(calls), after)
      /\ IF Overflows(cur, sep, part, config.size)
         THEN /\ chunks' = Append(chunks, x)
              /\ cur' = WithPart(doc.chunker, before, sep, part)
         ELSE /\ cur' = WithPart(doc.chunker, cur, sep, part)
              /\ chunks' = chunks
  BY <1>1 DEF MergePart, ReadingPart, At, GoOn, With
<1>3. PICK u, w : Running(Source, Front(calls), Top, cur, chunks, u, w)
  BY <1>2, RunningNow
<1>4. IsPart(Top, sep, first, part, after)
  BY <1>1, <1>2, RunningIs, PartIs
<1>5. PICK src : src = Source
  OBVIOUS
<1>6. src.chunker = doc.chunker /\ src.size = config.size /\ src.overlap = config.overlap
  BY <1>5, SourceIs
<1>7. IsChunk(src, x, cur)
  <2>1. cur \in Texts
    BY <1>2, RunningIs
  <2> QED
    BY <1>1, <1>2, <1>5, <2>1, RunningNow
<1>8. before = IF src.overlap > 0 THEN Suffix(cur, src.overlap) \o sep ELSE <<>>
  BY <1>1, <1>6 DEF MergeOverlap
<1>9. Running(src, Front(calls), Top, cur, chunks, u, w)
  BY <1>3, <1>5
<1>10. Len(part) <= src.size /\ src.chunker # "token"
  BY <1>2, <1>6
<1>11. /\ AreSplit(src, Append(Front(calls), after), WithPart(src.chunker, before, sep, part),
                   Append(chunks, x))
       /\ ~ Overflows(cur, sep, part, src.size) =>
          AreSplit(src, Append(Front(calls), after), WithPart(src.chunker, cur, sep, part),
                   chunks)
  BY <1>2, <1>4, <1>7, <1>8, <1>9, <1>10, MergeStep
<1>12. AreSplit(Source, calls', cur', chunks')
  BY <1>2, <1>5, <1>6, <1>11
<1> QED
  BY <1>2, <1>12, RunningOn

LEMMA FlushedIs ==
    ASSUME NEW x, x = ChunkOf(cur, bodyNo)
    PROVE  Flushed(chunks) = FlushedWith(chunks, cur, x)
BY DEF Flushed, FlushedWith, With

LEMMA CallKeeps ==
    ASSUME DocType, Control, Types, SplitInv, SplitPart
    PROVE  Types' /\ SplitInv'
<1>1. PICK sep, first, part, after, x :
        /\ sep = Sep /\ first = FirstPart /\ part = Part /\ after = AfterPart
        /\ x = ChunkOf(cur, bodyNo)
  OBVIOUS
<1>2. /\ calls # <<>> /\ Top.at = "parts" /\ UNCHANGED <<doc, config, pc, md, pdf, bodyNo>>
      /\ calls' = Append(Append(Front(calls), after), Call(part, Top.depth + 1))
      /\ chunks' = Flushed(chunks) /\ cur' = <<>>
  BY <1>1 DEF SplitPart, ReadingPart, At
<1>3. PICK u, w : Running(Source, Front(calls), Top, cur, chunks, u, w)
  BY <1>2, RunningNow
<1>4. IsPart(Top, sep, first, part, after)
  BY <1>1, <1>2, RunningIs, PartIs
<1>5. IsChunk(Source, x, cur)
  <2>1. cur \in Texts
    BY <1>2, RunningIs
  <2> QED
    BY <1>1, <1>2, <2>1, RunningNow
<1>6. AreSplit(Source, Append(Append(Front(calls), after), Call(part, Top.depth + 1)), <<>>,
               FlushedWith(chunks, cur, x))
  BY <1>2, <1>3, <1>4, <1>5, CallStep
<1>7. AreSplit(Source, calls', cur', chunks')
  BY <1>1, <1>2, <1>6, FlushedIs
<1> QED
  BY <1>2, <1>7, RunningOn

LEMMA EndKeeps ==
    ASSUME DocType, Control, Types, SplitInv, EndParts
    PROVE  Types' /\ SplitInv'
<1>1. PICK x : x = ChunkOf(cur, bodyNo)
  OBVIOUS
<1>2. /\ calls # <<>> /\ Top.at = "end" /\ UNCHANGED <<doc, config, pc, md, pdf, bodyNo>>
      /\ calls' = Front(calls) /\ chunks' = Flushed(chunks) /\ cur' = <<>>
  BY DEF EndParts, At, Return
<1>3. PICK u, w : Running(Source, Front(calls), Top, cur, chunks, u, w)
  BY <1>2, RunningNow
<1>4. IsChunk(Source, x, cur)
  <2>1. cur \in Texts
    BY <1>2, RunningIs
  <2> QED
    BY <1>1, <1>2, <2>1, RunningNow
<1>5. AreSplit(Source, Front(calls), <<>>, FlushedWith(chunks, cur, x))
  BY <1>2, <1>3, <1>4, EndStep
<1>6. AreSplit(Source, calls', cur', chunks')
  BY <1>1, <1>2, <1>5, FlushedIs
<1> QED
  BY <1>2, <1>6, RunningOn

LEMMA LineKeeps ==
    ASSUME DocType, Control, Types, SplitInv, TokenLine
    PROVE  Types' /\ SplitInv'
<1>1. PICK sep, first, part, after, x, line :
        /\ sep = Sep /\ first = FirstPart /\ part = Part /\ after = AfterPart
        /\ x = ChunkOf(cur, bodyNo)
        /\ line = FirstPart \o (IF Places(Top.text, Sep) = {} THEN <<>> ELSE Sep)
  OBVIOUS
<1>2. /\ calls # <<>> /\ Top.at = "parts" /\ UNCHANGED <<doc, config, pc, md, pdf, bodyNo>>
      /\ doc.chunker = "token"
      /\ calls' = Append(Front(calls), after)
      /\ \/ chunks' = Append(chunks, x) /\ cur' = OverlapTail(cur, config.overlap) \o line
         \/ chunks' = chunks /\ cur' = cur \o line
  BY <1>1 DEF TokenLine, At, GoOn, With
<1>3. PICK u, w : Running(Source, Front(calls), Top, cur, chunks, u, w)
  BY <1>2, RunningNow
<1>4. IsPart(Top, sep, first, part, after) /\ (after.at = "end" <=> Places(Top.text, Sep) = {})
  BY <1>1, <1>2, RunningIs, PartIs
<1>5. line = first \o (IF after.at = "end" THEN <<>> ELSE sep)
  BY <1>1, <1>4
<1>6. PICK src : src = Source
  OBVIOUS
<1>7. src.chunker = "token" /\ src.overlap = config.overlap
  BY <1>2, <1>6, SourceIs
<1>8. IsChunk(src, x, cur)
  <2>1. cur \in Texts
    BY <1>2, RunningIs
  <2> QED
    BY <1>1, <1>2, <1>6, <2>1, RunningNow
<1>9. Running(src, Front(calls), Top, cur, chunks, u, w)
  BY <1>3, <1>6
<1>10. /\ AreSplit(src, Append(Front(calls), after), OverlapTail(cur, src.overlap) \o line,
                   Append(chunks, x))
       /\ AreSplit(src, Append(Front(calls), after), cur \o line, chunks)
  BY <1>2, <1>4, <1>5, <1>7, <1>8, <1>9, LineStep
<1>11. AreSplit(Source, calls', cur', chunks')
  BY <1>2, <1>6, <1>7, <1>10
<1> QED
  BY <1>2, <1>11, RunningOn

LEMMA SplitKeeps ==
    ASSUME DocType, Control, Types, SplitInv,
           ReturnText \/ ForceSplit \/ SeparatorFound \/ SkipPart \/ MergePart
           \/ SplitPart \/ EndParts \/ TokenLine
    PROVE  Types' /\ SplitInv'
BY ReturnKeeps, ForceKeeps, FoundKeeps, SkipKeeps, MergeKeeps, CallKeeps, EndKeeps, LineKeeps

-----------------------------------------------------------------------------
(* The bodies hold the letters of their lines (RunsInv).                   *)

LEMMA ContentsAre ==
    ASSUME DocType
    PROVE  /\ AreOrdered(Contents, doc.letters)
           /\ \A i \in 1..Len(Contents) : ApartIn(Contents[i], doc.text)
<1>1. PICK contents : contents = Contents
  OBVIOUS
<1>2. contents \in Seq(Texts)
  <2>1. doc.lineTexts \in Seq(Texts) /\ doc.pages \in Seq(Texts) /\ doc.text \in Texts
    BY DEF DocType, Texts
  <2>2. <<doc.text>> \in Seq(Texts)
    BY <2>1
  <2> QED
    BY <1>1, <2>1, <2>2 DEF Contents
<1>3. DOMAIN contents = 1..Len(contents) /\ \A i \in 1..Len(contents) :
         contents[i] \in Texts /\ DOMAIN contents[i] = 1..Len(contents[i])
  BY <1>2, TextIs
<1>4. /\ \A i, j \in DOMAIN contents :
            /\ contents[i] = <<>> \/ Places(doc.text, contents[i]) # {}
            /\ \A k \in DOMAIN contents[i], l \in DOMAIN contents[j] :
                  /\ IsLetter(contents[i][k]) /\ IsLetter(contents[j][l])
                  /\ i < j \/ (i = j /\ k < l)
                  => contents[i][k] < contents[j][l]
      /\ UNION {LettersIn(contents[i]) : i \in DOMAIN contents} = 1..doc.letters
      /\ doc.letters \in Nat /\ doc.text \in Texts
  BY <1>1 DEF DocType, InOrder, Texts
<1>5. AreOrdered(contents, doc.letters)
  <2>1. \A i, j \in 1..Len(contents) :
          \A k \in 1..Len(contents[i]), l \in 1..Len(contents[j]) :
             /\ IsLetter(contents[i][k]) /\ IsLetter(contents[j][l])
             /\ i < j \/ (i = j /\ k < l)
             => contents[i][k] < contents[j][l]
    BY <1>3, <1>4
  <2>2. UNION {LettersIn(contents[i]) : i \in 1..Len(contents)} = 1..doc.letters
    BY <1>3, <1>4
  <2> QED
    BY <1>2, <1>4, <2>1, <2>2 DEF AreOrdered
<1>6. \A i \in 1..Len(contents) : ApartIn(contents[i], doc.text)
  BY <1>3, <1>4, PlaceApart
<1> QED
  BY <1>1, <1>5, <1>6

\* A text of the lines from one to another.
LinesIn(lines, whole, text, from, to) ==
    /\ text \in Texts /\ from \in 1..Len(lines) + 1 /\ to \in 0..Len(lines)
    /\ IsRun(text, LettersTo(lines, from - 1), LettersTo(lines, to))
    /\ ApartIn(text, whole)

BodiesRun(lines, whole, bodies) ==
    \A k \in 1..Len(bodies) : LinesIn(lines, whole, bodies[k].text, bodies[k].from, bodies[k].to)

RunsInv ==
    doc.chunker = "markdown" =>
       /\ BodiesRun(doc.lineTexts, doc.text, md.bodies)
       /\ pc = "start" => LinesIn(doc.lineTexts, doc.text, cur, md.first, md.i - 1)

LEMMA LineIn ==
    ASSUME DocType, doc.chunker = "markdown", NEW i \in 1..Len(doc.lines)
    PROVE  /\ LinesIn(doc.lineTexts, doc.text, doc.lineTexts[i], i, i)
           /\ doc.lineTexts[i] \in Texts
<1>1. Contents = doc.lineTexts /\ i \in 1..Len(doc.lineTexts)
  BY DEF Contents, DocType
<1>2. /\ IsRun(doc.lineTexts[i], LettersTo(doc.lineTexts, i - 1), LettersTo(doc.lineTexts, i))
      /\ ApartIn(doc.lineTexts[i], doc.text)
  BY <1>1, ContentsAre, LettersToIs
<1>3. doc.lineTexts[i] \in Texts
  BY <1>2 DEF IsRun
<1>4. i \in 1..Len(doc.lineTexts) + 1 /\ i \in 0..Len(doc.lineTexts)
  BY <1>1 DEF DocType
<1> QED
  BY <1>2, <1>3, <1>4 DEF LinesIn

\* One line more.
LEMMA LineMore ==
    ASSUME NEW lines, NEW whole, NEW text, NEW from, NEW i \in Nat, NEW line,
           LinesIn(lines, whole, text, from, i - 1), LinesIn(lines, whole, line, i, i)
    PROVE  LinesIn(lines, whole, text \o <<Newline>> \o line, from, i)
<1>1. PICK s : s = text \o <<Newline>>
  OBVIOUS
<1>2. IsSep(<<Newline>>)
  <2>1. PICK x : x = <<Newline>>
    OBVIOUS
  <2>2. x \in Texts /\ Len(x) = 1 /\ x[1] <= 0
    BY <2>1 DEF Texts, Newline
  <2>3. LettersIn(x) = {}
    BY <2>2, TextIs
  <2> QED
    BY <2>1, <2>2, <2>3 DEF IsSep
<1>3. IsOf(text, Int, whole) /\ IsOf(line, Int, whole)
  <2>1. \A t : t \in Texts => LettersIn(t) \subseteq Int
    BY TextIs
  <2> QED
    BY <2>1 DEF LinesIn, IsOf
<1>4. IsOf(s, Int, whole) /\ EndsBare(s) /\ s \in Texts
  BY <1>1, <1>2, <1>3, OfSep
<1>5. IsOf(s \o line, Int, whole)
  BY <1>3, <1>4, OfJoin
<1>6. PICK u, v, w : /\ u = LettersTo(lines, from - 1) /\ v = LettersTo(lines, i - 1)
                     /\ w = LettersTo(lines, i)
                     /\ IsRun(text, u, v) /\ IsRun(line, v, w)
  BY DEF LinesIn
<1>7. IsRun(<<Newline>>, v, v)
  <2>1. v \in Nat /\ <<Newline>> \in Texts /\ LettersIn(<<Newline>>) = {}
    BY <1>2, <1>6 DEF IsRun, IsSep
  <2> QED
    BY <2>1, RunBare
<1>8. IsRun(s, u, v)
  BY <1>1, <1>6, <1>7, RunJoin
<1>9. IsRun(s \o line, u, w)
  BY <1>6, <1>8, RunJoin
<1> QED
  BY <1>1, <1>5, <1>6, <1>9 DEF LinesIn, IsOf

\* One body more.
LEMMA BodyMore ==
    ASSUME NEW n \in Nat, NEW open, NEW lines, NEW whole,
           md.bodies \in Seq(Bodies), md.first \in 1..n + 1, cur \in Seq(Int),
           Headers(open, n), BodiesRun(lines, whole, md.bodies),
           LinesIn(lines, whole, cur, md.first, n)
    PROVE  BodiesRun(lines, whole, WithBody(md.bodies, n))
<1>1. CASE md.first > n
  BY <1>1 DEF WithBody
<1>2. CASE ~ (md.first > n)
  <2>1. PICK body : body = [from |-> md.first, to |-> n, headers |-> md.headers, text |-> cur]
    OBVIOUS
  <2>2. /\ body \in Bodies /\ LinesIn(lines, whole, body.text, body.from, body.to)
    <3>1. PICK a, b \in 0..n : md.headers = InForce(a, b)
      BY DEF Headers
    <3>2. md.headers \in Seq([level : Nat, line : Nat])
      BY <3>1, InForceType
    <3> QED
      BY <2>1, <3>2 DEF Bodies
  <2>3. PICK more : more = Append(md.bodies, body)
    OBVIOUS
  <2>4. \A k \in 1..Len(more) :
           (k \in 1..Len(md.bodies) /\ more[k] = md.bodies[k]) \/ more[k] = body
    BY <2>2, <2>3, AppendIs
  <2>5. BodiesRun(lines, whole, more)
    BY <2>2, <2>4 DEF BodiesRun
  <2>6. WithBody(md.bodies, n) = more
    BY <1>2, <2>1, <2>3 DEF WithBody
  <2> QED
    BY <2>5, <2>6
<1> QED
  BY <1>1, <1>2

LEMMA RunsInit == LoopsInit => RunsInv
<1> SUFFICES ASSUME LoopsInit, doc.chunker = "markdown" PROVE RunsInv
  BY DEF RunsInv
<1>1. DocType
  BY InitType
<1>2. /\ md.first - 1 = 0 /\ md.i - 1 = 0 /\ md.bodies = <<>> /\ cur = <<>> /\ md.first = 1
  BY DEF LoopsInit, BeforeLines
<1>3. 1 \in 1..Len(doc.lineTexts) + 1 /\ 0 \in 0..Len(doc.lineTexts)
  BY <1>1 DEF DocType
<1>4. LettersTo(doc.lineTexts, 0) = 0
  <2>1. Contents = doc.lineTexts
    BY DEF Contents
  <2> QED
    BY <1>1, <2>1, ContentsAre, LettersToIs
<1>5. LinesIn(doc.lineTexts, doc.text, <<>>, md.first, md.i - 1)
  <2>1. IsOf(<<>>, Int, doc.text)
    BY OfEmpty
  <2> QED
    BY <1>2, <1>4, <1>3, <2>1, RunEmpty DEF LinesIn, IsOf
<1> QED
  BY <1>2, <1>5 DEF RunsInv, BodiesRun

LEMMA RunsNext ==
    DocType /\ Control /\ LinesInv /\ RunsInv /\ [LoopsNext]_vars => RunsInv'
<1> SUFFICES ASSUME DocType, Control, LinesInv, RunsInv, [LoopsNext]_vars,
                    doc'.chunker = "markdown"
             PROVE  RunsInv'
  BY DEF RunsInv
<1>1. doc' = doc
  BY StepsAre, SplitsKeep DEF SplitLine, SplitHeader, ReadingLine, SplitEnd, AddPage,
                              EndPages, vars
<1>2. PICK lines, whole : lines = doc.lineTexts /\ whole = doc.text
  OBVIOUS
<1>3. BodiesRun(lines, whole, md.bodies)
  BY <1>1, <1>2 DEF RunsInv
<1>4. ASSUME BodiesRun(lines, whole, md'.bodies),
             pc' = "start" => LinesIn(lines, whole, cur', md'.first, md'.i - 1)
      PROVE  RunsInv'
  <2>1. BodiesRun(doc.lineTexts, doc.text, md.bodies)'
    BY <1>1, <1>2, <1>4 DEF BodiesRun, LinesIn
  <2>2. pc' = "start" => LinesIn(doc.lineTexts, doc.text, cur, md.first, md.i - 1)'
    BY <1>1, <1>2, <1>4 DEF LinesIn
  <2> QED
    BY <2>1, <2>2 DEF RunsInv
<1>5. ASSUME SplitLine \/ SplitHeader \/ SplitEnd
      PROVE  /\ pc = "start" /\ Reading /\ doc.chunker = "markdown"
             /\ LinesIn(lines, whole, cur, md.first, md.i - 1)
             /\ md \in Loops /\ cur \in Seq(Int) /\ md.bodies \in Seq(Bodies)
  <2>1. pc = "start" /\ doc.chunker = "markdown"
    BY <1>5 DEF SplitLine, SplitHeader, ReadingLine, SplitEnd
  <2>2. Reading /\ LinesIn(lines, whole, cur, md.first, md.i - 1)
    BY <1>2, <2>1 DEF LinesInv, RunsInv
  <2> QED
    BY <2>1, <2>2 DEF Reading, Loops
<1>6. CASE SplitLine
  <2> DEFINE line == doc.lineTexts[md.i]
  <2>1. PICK i \in Nat : i = md.i /\ i \in 1..Len(doc.lines)
    BY <1>5, <1>6, LineRead DEF SplitLine
  <2>2. LinesIn(lines, whole, line, i, i)
    BY <1>2, <1>5, <1>6, <2>1, LineIn
  <2> HIDE DEF line
  <2>3. LinesIn(lines, whole, cur, md.first, i - 1)
    BY <1>5, <1>6, <2>1
  <2>4. LinesIn(lines, whole, WithLine(line), md.first, i)
    <3>1. md.i = md.first => LinesIn(lines, whole, line, md.first, i)
      BY <2>1, <2>2
    <3>2. LinesIn(lines, whole, cur \o <<Newline>> \o line, md.first, i)
      BY <2>2, <2>3, LineMore
    <3> QED
      BY <3>1, <3>2 DEF WithLine
  <2>5. /\ cur' = WithLine(line) /\ md'.first = md.first /\ md'.i = i + 1
        /\ md'.bodies = md.bodies /\ (i + 1) - 1 = i
    BY <1>5, <1>6, <2>1 DEF SplitLine, Loops, line
  <2>6. LinesIn(lines, whole, cur', md'.first, md'.i - 1)
    BY <2>4, <2>5
  <2> QED
    BY <1>3, <1>4, <2>5, <2>6
<1>7. CASE SplitHeader
  <2> DEFINE line == doc.lineTexts[md.i]
  <2>1. PICK n \in Nat : /\ n = md.i - 1 /\ md.i = n + 1
                         /\ n + 1 \in 1..Len(doc.lines) /\ md.first \in 1..n + 1
    BY <1>5, <1>7, LineRead DEF SplitHeader
  <2>2. LinesIn(lines, whole, line, n + 1, n + 1)
    BY <1>2, <1>5, <1>7, <2>1, LineIn
  <2>3. PICK open : Headers(open, n)
    BY <1>5, <1>7, <2>1 DEF Reading
  <2>4. BodiesRun(lines, whole, WithBody(md.bodies, n))
    BY <1>3, <1>5, <1>7, <2>1, <2>3, BodyMore
  <2>5. /\ cur' = line /\ md'.first = n + 1 /\ md'.i = (n + 1) + 1
        /\ md'.bodies = WithBody(md.bodies, n) /\ ((n + 1) + 1) - 1 = n + 1
    BY <1>7, <2>1 DEF SplitHeader
  <2>6. LinesIn(lines, whole, cur', md'.first, md'.i - 1)
    BY <2>2, <2>5
  <2> QED
    BY <1>4, <2>4, <2>5, <2>6
<1>8. CASE SplitEnd
  <2>1. /\ md.i > Len(doc.lines) /\ pc' = "split"
        /\ md' = [md EXCEPT !.bodies = WithBody(@, Len(doc.lines))]
    BY <1>8 DEF SplitEnd
  <2>2. PICK n \in Nat : /\ n = Len(doc.lines) /\ n = md.i - 1 /\ md.first \in 1..n + 1
    <3>1. Len(doc.lines) \in Nat
      BY DEF DocType
    <3> QED
      BY <1>5, <1>8, <2>1, <3>1 DEF Reading
  <2>3. PICK open : Headers(open, n)
    BY <1>5, <1>8, <2>2 DEF Reading
  <2>4. BodiesRun(lines, whole, WithBody(md.bodies, n))
    BY <1>3, <1>5, <1>8, <2>2, <2>3, BodyMore
  <2>5. md'.bodies = WithBody(md.bodies, n)
    BY <1>5, <1>8, <2>1, <2>2 DEF Loops
  <2> QED
    BY <1>4, <2>1, <2>4, <2>5
<1>9. CASE Splits
  <2>1. md' = md /\ pc' # "start"
    BY <1>9, SplitsKeep
  <2> QED
    BY <1>3, <1>4, <2>1
<1>10. CASE AddPage \/ EndPages
  BY <1>1, <1>10 DEF AddPage, EndPages
<1>11. CASE UNCHANGED vars
  <2>1. md' = md /\ pc' = pc /\ cur' = cur
    BY <1>11 DEF vars
  <2>2. pc = "start" => LinesIn(lines, whole, cur, md.first, md.i - 1)
    BY <1>1, <1>2 DEF RunsInv
  <2> QED
    BY <1>3, <1>4, <2>1, <2>2
<1> QED
  BY <1>6, <1>7, <1>8, <1>9, <1>10, <1>11, StepsAre

-----------------------------------------------------------------------------
(* A text is given to recursiveSplit.                                      *)

\* It has nothing of the source in the builder, all that is read in the chunks.
LEMMA BeginStep ==
    ASSUME NEW src, src.size \in Nat \ {0}, src.overlap \in Nat,
           NEW list \in Seq(Chunk), NEW u, HeldCur(<<>>, list, u, src.overlap),
           NEW text \in Texts, IsRun(text, u, Reached(src)), NEW depth \in 1..9,
           src.chunker # "char" => TextOf(src, text) /\ AllFrom(src, list),
           src.chunker # "token" => AllFit(src, list)
    PROVE  /\ Running(src, <<>>, Call(text, depth), <<>>, list, u, Reached(src))
           /\ AreSplit(src, <<Call(text, depth)>>, <<>>, list)
<1>1. PICK w : w = Reached(src)
  OBVIOUS
<1>2. PICK on : on = [text |-> text, depth |-> depth, at |-> "call"]
  OBVIOUS
<1>3. /\ IsFrame(on) /\ on.at = "call" /\ on.text = text /\ on.depth = depth
      /\ on = Call(text, depth)
  BY <1>2 DEF IsFrame, Frames, Call
<1>4. IsStack(<<>>) /\ GoesOn(<<>>) /\ Waits(<<>>, w, Reached(src))
  <2>1. w \in Nat
    BY <1>1 DEF IsRun
  <2> QED
    BY <1>1, <2>1, NoStack, WaitsNone
<1>5. HeldCall(on.text, on.depth, list, u, src.size, src.overlap)
  BY <1>3, HeldNew
<1>6. AllOf(src, <<>>) /\ TextOf(src, <<>>) /\ <<>> \in Texts /\ EndsBare(<<>>)
  BY EmptyOf DEF AllOf
<1>7. Len(<<>>) <= Limit(src)
  BY EmptyOf, LimitIs
<1>8. Running(src, <<>>, on, <<>>, list, u, w)
  BY <1>1, <1>3, <1>4, <1>5, <1>6, <1>7 DEF Running
<1>9. AreSplit(src, Append(<<>>, on), <<>>, list)
  BY <1>1, <1>3, <1>4, <1>5, <1>6, GoesToCall
<1>10. Append(<<>>, on) = <<on>>
  BY AppendOne
<1> QED
  BY <1>1, <1>3, <1>8, <1>9, <1>10

LEMMA HeldNone == \A overlap : HeldCur(<<>>, <<>>, 0, overlap)
<1>1. IsRun(<<>>, 0, 0)
  BY RunEmpty
<1> QED
  BY <1>1, CoveredFirst DEF HeldCur

\* Nothing is read yet.
LEMMA NoneYet ==
    ASSUME NEW src, src.size \in Nat \ {0}, src.overlap \in Nat, Reached(src) = 0
    PROVE  AreSplit(src, <<>>, <<>>, <<>>)
<1>1. <<>> \in Texts /\ IsStack(<<>>) /\ <<>> \in Seq(Chunk) /\ TextOf(src, <<>>)
  BY EmptyOf, NoStack
<1>2. Holds(src, <<>>, <<>>, <<>>)
  <2>1. Waits(<<>>, 0, 0)
    BY WaitsNone
  <2> QED
    BY <2>1, HeldNone DEF Holds
<1>3. Takes(src, <<>>, <<>>, <<>>)
  BY <1>1 DEF Takes, AllOf, AllFrom
<1>4. Fits(src, <<>>, <<>>)
  BY EmptyOf, LimitIs DEF Fits, AllFit
<1> QED
  BY <1>1, <1>2, <1>3, <1>4 DEF AreSplit

\* The text of a document.
LEMMA TextStep ==
    ASSUME NEW src, src.size \in Nat \ {0}, src.overlap \in Nat, src.chunker # "markdown",
           NEW text \in Texts, IsRun(text, 0, src.letters), IsOf(text, Int, src.whole)
    PROVE  /\ AreSplit(src, <<Call(text, 1)>>, <<>>, <<>>)
           /\ AreSplit(src, <<[Call(text, 2) EXCEPT !.at = "parts"]>>, <<>>, <<>>)
           /\ text = <<>> => AreSplit(src, <<>>, <<>>, <<>>)
<1>1. Reached(src) = src.letters
  BY DEF Reached
<1>2. TextOf(src, text) /\ AllFrom(src, <<>>) /\ AllFit(src, <<>>) /\ <<>> \in Seq(Chunk)
  BY DEF TextOf, AllFrom, AllFit
<1>3. HeldCur(<<>>, <<>>, 0, src.overlap) /\ IsRun(text, 0, Reached(src))
  BY <1>1, HeldNone
<1>4. \A depth \in 1..9 : /\ Running(src, <<>>, Call(text, depth), <<>>, <<>>, 0, Reached(src))
                          /\ AreSplit(src, <<Call(text, depth)>>, <<>>, <<>>)
  BY <1>2, <1>3, BeginStep
<1>5. AreSplit(src, <<[Call(text, 2) EXCEPT !.at = "parts"]>>, <<>>, <<>>)
  <2>1. PICK on, parts : on = Call(text, 2) /\ parts = [Call(text, 2) EXCEPT !.at = "parts"]
    OBVIOUS
  <2>2. on.at = "call" /\ on.depth <= 8 /\ parts = [on EXCEPT !.at = "parts"]
    BY <2>1 DEF Call
  <2>3. 2 \in 1..9 /\ Running(src, <<>>, on, <<>>, <<>>, 0, Reached(src))
    BY <1>4, <2>1
  <2>4. AreSplit(src, Append(<<>>, parts), <<>>, <<>>)
    BY <2>2, <2>3, FoundStep
  <2>5. Append(<<>>, parts) = <<parts>>
    BY AppendOne
  <2> QED
    BY <2>1, <2>4, <2>5
<1>6. text = <<>> => AreSplit(src, <<>>, <<>>, <<>>)
  <2> SUFFICES ASSUME text = <<>> PROVE AreSplit(src, <<>>, <<>>, <<>>)
    OBVIOUS
  <2>1. Reached(src) = 0
    BY <1>1, RunEmpty
  <2> QED
    BY <2>1, NoneYet
<1> QED
  BY <1>4, <1>5, <1>6

LEMMA BeginTextKeeps ==
    ASSUME DocType, Control, Types, BeginText
    PROVE  Types' /\ SplitInv'
<1>1. PICK text : text = doc.text
  OBVIOUS
<1>2. /\ pc = "start" /\ IsPlain(doc.chunker) /\ pc' = "split"
      /\ UNCHANGED <<doc, config, md, pdf, bodyNo, cur, chunks>>
      /\ calls' = IF text = <<>> THEN <<>>
                  ELSE IF doc.chunker = "token" THEN <<[Call(text, 2) EXCEPT !.at = "parts"]>>
                  ELSE <<Call(text, 1)>>
  BY <1>1 DEF BeginText
<1>3. doc.chunker # "markdown" /\ doc.chunker # "pdf" /\ calls = <<>>
  BY <1>2 DEF IsPlain, Control
<1>4. cur = <<>> /\ chunks = <<>>
  BY <1>2, <1>3 DEF Types
<1>5. PICK src : src = Source
  OBVIOUS
<1>6. /\ src.size \in Nat \ {0} /\ src.overlap \in Nat /\ src.chunker # "markdown"
      /\ src.letters = doc.letters /\ src.whole = doc.text
  BY <1>3, <1>5, SourceIs DEF Source
<1>7. text \in Texts /\ IsRun(text, 0, src.letters) /\ IsOf(text, Int, src.whole)
  <2>1. PICK contents : contents = Contents /\ contents = <<text>>
    BY <1>1, <1>3 DEF Contents
  <2>2. AreOrdered(contents, doc.letters) /\ ApartIn(contents[1], doc.text)
    BY <2>1, ContentsAre
  <2>3. /\ LettersTo(contents, 0) = 0 /\ LettersTo(contents, 1) = doc.letters
        /\ IsRun(contents[1], LettersTo(contents, 0), LettersTo(contents, 1))
    <3>1. Len(contents) = 1
      BY <2>1
    <3>2. /\ LettersTo(contents, 0) = 0 /\ LettersTo(contents, Len(contents)) = doc.letters
          /\ \A i \in 1..Len(contents) :
                IsRun(contents[i], LettersTo(contents, i - 1), LettersTo(contents, i))
      BY <2>2, LettersToIs
    <3>3. 1 \in 1..Len(contents) /\ 1 - 1 = 0
      BY <3>1
    <3> QED
      BY <3>1, <3>2, <3>3
  <2>4. IsRun(text, 0, doc.letters) /\ ApartIn(text, doc.text)
    BY <2>1, <2>2, <2>3
  <2>5. text \in Texts /\ LettersIn(text) \subseteq Int
    BY <2>4, TextIs DEF IsRun
  <2> QED
    BY <1>6, <2>4, <2>5 DEF IsOf
<1>8. AreSplit(src, calls', <<>>, <<>>)
  BY <1>2, <1>6, <1>7, TextStep
<1>9. AreSplit(Source, calls', cur', chunks')
  BY <1>2, <1>4, <1>5, <1>8
<1>10. Types'
  BY <1>2, <1>3, <1>9 DEF Types, AreSplit
<1>11. Source' = Source
  BY <1>2 DEF Source
<1>12. SplitInv'
  BY <1>9, <1>11 DEF SplitInv, AreSplit
<1> QED
  BY <1>10, <1>12

\* The next body.
LEMMA BodyStep ==
    ASSUME NEW src, NEW src2, NEW n \in Nat, NEW text, NEW from, NEW to,
           src.chunker = "markdown" /\ src.n = n,
           src.size \in Nat \ {0} /\ src.overlap \in Nat,
           src2.chunker = "markdown" /\ src2.n = n + 1,
           src2.size = src.size /\ src2.overlap = src.overlap,
           src2.whole = src.whole /\ src2.lines = src.lines /\ src2.bodies = src.bodies,
           src.bodies[n + 1].from = from /\ src.bodies[n + 1].to = to,
           LinesIn(src.lines, src.whole, text, from, to),
           LettersTo(src.lines, from - 1) = Reached(src),
           NEW list, AreSplit(src, <<>>, <<>>, list)
    PROVE  /\ Running(src2, <<>>, Call(text, 1), <<>>, list, Reached(src), Reached(src2))
           /\ AreSplit(src2, <<Call(text, 1)>>, <<>>, list)
<1>1. /\ list \in Seq(Chunk) /\ Holds(src, <<>>, <<>>, list)
      /\ AllFrom(src, list) /\ AllFit(src, list)
  BY DEF AreSplit, Takes, Fits
<1>2. HeldCur(<<>>, list, Reached(src), src2.overlap)
  <2>1. PICK u : Waits(<<>>, u, Reached(src)) /\ HeldCur(<<>>, list, u, src.overlap)
    BY <1>1 DEF Holds
  <2>2. u = Reached(src)
    BY <2>1, WaitsNone
  <2> QED
    BY <2>1, <2>2
<1>3. Reached(src2) = LettersTo(src.lines, to)
  BY DEF Reached
<1>4. text \in Texts /\ IsRun(text, Reached(src), Reached(src2))
  BY <1>3 DEF LinesIn
<1>5. TextOf(src2, text)
  <2>1. BodyLetters(src2, src2.n) = Reached(src) + 1..Reached(src2)
    BY <1>3 DEF BodyLetters
  <2>2. LettersIn(text) = Reached(src) + 1..Reached(src2)
    BY <1>4 DEF IsRun
  <2> QED
    BY <1>4, <2>1, <2>2 DEF TextOf, IsOf, LinesIn
<1>6. AllFrom(src2, list)
  <2>1. \A k \in 1..n : k \in 1..n + 1
    OBVIOUS
  <2>2. \A k : BodyLetters(src2, k) = BodyLetters(src, k)
    BY DEF BodyLetters
  <2>3. \A x : ChunkFrom(src, x) => ChunkFrom(src2, x)
    BY <2>1, <2>2 DEF ChunkFrom
  <2> QED
    BY <1>1, <2>3 DEF AllFrom
<1>7. AllFit(src2, list)
  <2>1. Limit(src2) = Limit(src)
    BY DEF Limit
  <2> QED
    BY <1>1, <2>1 DEF AllFit
<1>8. src2.size \in Nat \ {0} /\ src2.overlap \in Nat /\ 1 \in 1..9
  OBVIOUS
<1> QED
  BY <1>1, <1>2, <1>4, <1>5, <1>6, <1>7, <1>8, BeginStep

\* Where the bodies are.
LEMMA BodyAt ==
    ASSUME DocType, Types, BodiesUnderHeaders, pc # "start", doc.chunker = "markdown"
    PROVE  /\ \A k \in 1..Len(md.bodies) :
                 /\ md.bodies[k].from = IF k = 1 THEN 1 ELSE md.bodies[k - 1].to + 1
                 /\ md.bodies[k].to \in Nat
           /\ Len(md.bodies) \in Nat \ {0} /\ md.bodies[Len(md.bodies)].to = Len(doc.lineTexts)
           /\ AreOrdered(doc.lineTexts, doc.letters)
<1>1. PICK bodies : bodies = md.bodies
  OBVIOUS
<1>2. /\ bodies \in Seq(Bodies) /\ bodies # <<>>
      /\ bodies[Len(bodies)].to = Len(doc.lines)
      /\ \A k \in DOMAIN bodies :
            bodies[k].from = IF k = 1 THEN 1 ELSE bodies[k - 1].to + 1
  BY <1>1 DEF BodiesUnderHeaders, Types
<1>3. Len(bodies) \in Nat \ {0} /\ DOMAIN bodies = 1..Len(bodies)
  BY <1>2
<1>4. \A k \in 1..Len(bodies) : bodies[k].to \in Nat
  <2>1. \A body \in Bodies : body.to \in Nat
    BY DEF Bodies
  <2> QED
    BY <1>2, <1>3, <2>1
<1>5. Contents = doc.lineTexts /\ Len(doc.lineTexts) = Len(doc.lines)
  BY DEF Contents, DocType
<1> QED
  BY <1>1, <1>2, <1>3, <1>4, <1>5, ContentsAre

\* What SplitInv says when nothing runs.
LEMMA SplitIs ==
    ASSUME Types, SplitInv, pc = "split", doc.chunker # "pdf"
    PROVE  AreSplit(Source, calls, cur, chunks)
BY DEF Types, SplitInv, AreSplit

LEMMA BeginBodyKeeps ==
    ASSUME DocType, Control, LinesInv, RunsInv, Types, SplitInv, BeginBody
    PROVE  Types' /\ SplitInv'
<1>1. /\ pc = "split" /\ calls = <<>> /\ bodyNo < Len(md.bodies) /\ bodyNo' = bodyNo + 1
      /\ UNCHANGED <<doc, config, pc, md, pdf, cur>>
  BY DEF BeginBody
<1>2. doc.chunker # "pdf" /\ doc.chunker = "markdown"
  <2>1. doc.chunker # "markdown" => Len(md.bodies) = 0 /\ bodyNo \in Nat
    BY DEF Types
  <2> QED
    BY <1>1, <2>1 DEF Control
<1>3. PICK n \in Nat : n = bodyNo /\ n + 1 \in 1..Len(md.bodies) /\ n \in 0..Len(md.bodies)
  BY <1>1 DEF Types
<1>4. PICK body : body = md.bodies[n + 1]
  OBVIOUS
<1>5. PICK text, x : text = body.text /\ x = ChunkOf(text, n + 1)
  OBVIOUS
<1>6. \/ /\ Len(text) > config.size /\ calls' = <<Call(text, 1)>> /\ chunks' = chunks
      \/ /\ Len(text) <= config.size /\ calls' = <<>> /\ chunks' = Append(chunks, x)
  <2>1. \/ /\ Len(text) > config.size /\ calls' = <<Call(text, 1)>> /\ chunks' = chunks
        \/ /\ ~ (Len(text) > config.size) /\ calls' = <<>> /\ chunks' = Append(chunks, x)
    BY <1>1, <1>3, <1>4, <1>5 DEF BeginBody
  <2>2. Len(text) \in Nat /\ config.size \in Nat
    <3>1. text \in Texts
      BY <1>2, <1>3, <1>4, <1>5 DEF RunsInv, BodiesRun, LinesIn
    <3> QED
      BY <3>1, TextIs DEF DocType
  <2> QED
    BY <2>1, <2>2
<1>7. cur = <<>> /\ cur' = <<>>
  BY <1>1, <1>2 DEF Types
<1>8. PICK src, src2 : src = Source /\ src2 = Source'
  OBVIOUS
<1>9. /\ src.chunker = "markdown" /\ src.n = n
      /\ src.size \in Nat \ {0} /\ src.overlap \in Nat
      /\ src2.chunker = "markdown" /\ src2.n = n + 1
      /\ src2.size = src.size /\ src2.overlap = src.overlap
      /\ src2.whole = src.whole /\ src2.lines = src.lines /\ src2.bodies = src.bodies
      /\ src.bodies = md.bodies /\ src.lines = doc.lineTexts /\ src.whole = doc.text
      /\ src.size = config.size
  BY <1>1, <1>2, <1>3, <1>8 DEF Source, DocType
<1>10. LinesIn(src.lines, src.whole, text, body.from, body.to)
  BY <1>2, <1>3, <1>4, <1>5, <1>9 DEF RunsInv, BodiesRun
<1>11. LettersTo(src.lines, body.from - 1) = Reached(src)
  <2>1. /\ body.from = IF n + 1 = 1 THEN 1 ELSE md.bodies[n + 1 - 1].to + 1
        /\ n # 0 => md.bodies[n].to \in Nat
        /\ AreOrdered(doc.lineTexts, doc.letters)
    <3>1. n # 0 => n \in 1..Len(md.bodies)
      BY <1>3
    <3> QED
      BY <1>1, <1>2, <1>3, <1>4, <3>1, BodyAt DEF LinesInv
  <2>2. CASE n = 0
    <3>1. body.from - 1 = 0 /\ Reached(src) = 0
      BY <1>9, <2>1, <2>2 DEF Reached
    <3> QED
      BY <1>9, <2>1, <3>1, LettersToIs
  <2>3. CASE n # 0
    <3>1. body.from - 1 = md.bodies[n].to
      <4>1. n + 1 # 1 /\ n + 1 - 1 = n
        BY <2>3
      <4> QED
        BY <2>1, <2>3, <4>1
    <3> QED
      BY <1>9, <2>3, <3>1 DEF Reached
  <2> QED
    BY <2>2, <2>3
<1>12. AreSplit(src, <<>>, <<>>, chunks)
  BY <1>1, <1>2, <1>7, <1>8, SplitIs
<1>13. /\ Running(src2, <<>>, Call(text, 1), <<>>, chunks, Reached(src), Reached(src2))
       /\ AreSplit(src2, <<Call(text, 1)>>, <<>>, chunks)
  <2>1. src.bodies[n + 1].from = body.from /\ src.bodies[n + 1].to = body.to
    BY <1>4, <1>9
  <2> QED
    BY <1>9, <1>10, <1>11, <1>12, <2>1, BodyStep
<1>14. IsChunk(src2, x, text)
  <2>1. text \in Texts
    BY <1>10 DEF LinesIn
  <2>2. /\ x \in Chunk /\ x.text = text
        /\ x.h2 = HeaderAt(src2.bodies[n + 1].headers, 2)
        /\ x.h3 = HeaderAt(src2.bodies[n + 1].headers, 3)
    BY <1>2, <1>3, <1>5, <1>9, <2>1, ChunkOfIs
  <2>3. n + 1 \in 1..src2.n
    BY <1>9
  <2> QED
    BY <1>9, <2>2, <2>3 DEF IsChunk, ChunkFrom, TextOf
<1>15. AreSplit(src2, calls', <<>>, chunks')
  <2>1. PICK on : on = Call(text, 1)
    OBVIOUS
  <2>2. on.at = "call" /\ on.text = text
    BY <2>1 DEF Call
  <2>3. Len(text) <= config.size => AreSplit(src2, <<>>, <<>>, Append(chunks, x))
    BY <1>9, <1>13, <1>14, <2>1, <2>2, ReturnStep
  <2> QED
    BY <1>6, <1>13, <2>3
<1>16. Types'
  <2>1. bodyNo' \in 0..Len(md.bodies) /\ bodyNo' # 0
    BY <1>1, <1>3
  <2> QED
    BY <1>1, <1>2, <1>7, <1>15, <2>1 DEF Types, AreSplit
<1>17. SplitInv'
  BY <1>7, <1>8, <1>15 DEF SplitInv, AreSplit
<1> QED
  BY <1>16, <1>17


\* What is so when all texts are split.
DoneInv ==
    pc = "done" /\ doc.chunker # "pdf" =>
       /\ Covered(chunks, doc.letters, doc.letters, config.overlap)
       /\ doc.chunker # "char" => AllFrom(Source, chunks)
       /\ doc.chunker # "token" => AllFit(Source, chunks)

LEMMA EndSplitKeeps ==
    ASSUME DocType, Control, LinesInv, Types, SplitInv, EndSplit
    PROVE  Types' /\ DoneInv'
<1>1. /\ pc = "split" /\ calls = <<>> /\ bodyNo = Len(md.bodies) /\ pc' = "done"
      /\ UNCHANGED <<doc, config, md, pdf, bodyNo, calls, cur, chunks>>
  BY DEF EndSplit
<1>2. doc.chunker # "pdf"
  BY <1>1 DEF Control
<1>3. cur = <<>>
  BY <1>1, <1>2 DEF Types
<1>4. Types'
  BY <1>1, <1>2 DEF Types
<1>5. Reached(Source) = doc.letters
  <2>1. CASE doc.chunker # "markdown"
    BY <2>1 DEF Reached, Source
  <2>2. CASE doc.chunker = "markdown"
    <3>1. PICK n \in Nat \ {0} : /\ n = Len(md.bodies)
                                 /\ md.bodies[n].to = Len(doc.lineTexts)
                                 /\ AreOrdered(doc.lineTexts, doc.letters)
      BY <1>1, <2>2, BodyAt DEF LinesInv
    <3>2. LettersTo(doc.lineTexts, Len(doc.lineTexts)) = doc.letters
      BY <3>1, LettersToIs
    <3> QED
      BY <1>1, <2>2, <3>1, <3>2 DEF Reached, Source
  <2> QED
    BY <2>1, <2>2
<1>6. PICK u : Waits(<<>>, u, Reached(Source)) /\ HeldCur(<<>>, chunks, u, config.overlap)
  BY <1>1, <1>3, SourceIs DEF SplitInv, Holds
<1>7. HeldCur(<<>>, chunks, doc.letters, config.overlap)
  BY <1>5, <1>6, WaitsNone
<1>8. Covered(chunks, doc.letters, doc.letters, config.overlap)
  <2>1. PICK a : /\ IsRun(<<>>, a, doc.letters)
                 /\ Covered(chunks, a, doc.letters, config.overlap)
    BY <1>7 DEF HeldCur
  <2> QED
    BY <2>1, RunEmpty
<1>9. /\ doc.chunker # "char" => AllFrom(Source, chunks)
      /\ doc.chunker # "token" => AllFit(Source, chunks)
  BY <1>1, SourceIs DEF SplitInv, Takes, Fits
<1>10. Source' = Source
  BY <1>1 DEF Source
<1>11. DoneInv'
  BY <1>1, <1>8, <1>9, <1>10 DEF DoneInv
<1> QED
  BY <1>4, <1>11

LEMMA ReadingKeeps ==
    ASSUME DocType, LinesInv, Types, SplitLine \/ SplitHeader
    PROVE  Types' /\ pc' = "start"
<1>1. /\ pc = "start" /\ pc' = "start" /\ doc.chunker = "markdown"
      /\ UNCHANGED <<doc, config, pc, pdf, bodyNo, calls, chunks>>
  BY DEF SplitLine, SplitHeader, ReadingLine
<1>2. Reading'
  BY <1>1, LineSplit, HeaderSplit DEF LinesInv
<1>3. cur' \in Texts /\ md'.bodies \in Seq(Bodies)
  BY <1>2 DEF Reading, Loops, Texts
<1>4. bodyNo = 0 /\ chunks = <<>> /\ IsStack(calls)
  BY <1>1 DEF Types
<1>5. /\ 0 \in 0..Len(md'.bodies)
  BY <1>3
<1>6. chunks' \in Seq(Chunk) /\ calls' = calls /\ IsStack(calls')
  BY <1>1, <1>4
<1>7. calls # <<>> => bodyNo # 0
  BY <1>1 DEF Types
<1> QED
  BY <1>1, <1>3, <1>4, <1>5, <1>6, <1>7 DEF Types

LEMMA SplitEndKeeps ==
    ASSUME DocType, Control, LinesInv, Types, SplitEnd
    PROVE  Types' /\ SplitInv'
<1>1. /\ pc = "start" /\ doc.chunker = "markdown" /\ pc' = "split" /\ cur' = <<>>
      /\ md.i > Len(doc.lines)
      /\ md' = [md EXCEPT !.bodies = WithBody(@, Len(doc.lines))]
      /\ UNCHANGED <<doc, config, pdf, bodyNo, calls, chunks>>
  BY DEF SplitEnd
<1>2. calls = <<>> /\ bodyNo = 0 /\ chunks = <<>>
  BY <1>1 DEF Control, Types
<1>3. md'.bodies \in Seq(Bodies)
  <2>1. PICK n \in Nat : n = Len(doc.lines) /\ n = md.i - 1 /\ md.first \in 1..n + 1
    <3>1. Len(doc.lines) \in Nat
      BY DEF DocType
    <3> QED
      BY <1>1, <3>1 DEF LinesInv, Reading
  <2>2. PICK open : Headers(open, n) /\ UnderTheirs(open, md.bodies)
    BY <1>1, <2>1 DEF LinesInv, Reading
  <2>3. /\ md \in Loops /\ md.bodies \in Seq(Bodies) /\ cur \in Seq(Int)
        /\ Tile(md.bodies, md.first - 1)
    BY <1>1 DEF LinesInv, Reading, Loops
  <2>4. WithBody(md.bodies, n) \in Seq(Bodies)
    BY <2>1, <2>2, <2>3, BodyDone
  <2> QED
    BY <1>1, <2>1, <2>3, <2>4 DEF Loops
<1>4. PICK src : src = Source'
  OBVIOUS
<1>5. Reached(src) = 0 /\ src.size \in Nat \ {0} /\ src.overlap \in Nat
  BY <1>1, <1>2, <1>4 DEF Reached, Source, DocType
<1>6. AreSplit(src, <<>>, <<>>, <<>>)
  BY <1>5, NoneYet
<1>7. AreSplit(src, calls', cur', chunks')
  BY <1>1, <1>2, <1>6
<1>8. Types'
  <2>1. 0 \in 0..Len(md'.bodies)
    BY <1>3
  <2> QED
    BY <1>1, <1>2, <1>3, <1>7, <2>1 DEF Types, AreSplit
<1>9. SplitInv'
  BY <1>4, <1>7 DEF SplitInv, AreSplit
<1> QED
  BY <1>8, <1>9

LEMMA PageKeeps ==
    ASSUME Control, Types, PagesInv', AddPage \/ EndPages
    PROVE  Types' /\ doc'.chunker = "pdf" /\ pc' # "split"
<1>1. /\ doc.chunker = "pdf" /\ doc' = doc /\ pc' \in {"start", "done"} /\ pc = "start"
      /\ UNCHANGED <<md, bodyNo, calls>>
  BY DEF AddPage, EndPages
<1>2. cur' \in Texts
  BY <1>1 DEF PagesInv, Texts
<1> QED
  BY <1>1, <1>2 DEF Types

TextsInv == Types /\ SplitInv /\ DoneInv

LEMMA TextsInit == LoopsInit => TextsInv
<1> SUFFICES ASSUME LoopsInit PROVE TextsInv
  OBVIOUS
<1>1. /\ pc = "start" /\ md.bodies = <<>> /\ bodyNo = 0 /\ calls = <<>> /\ cur = <<>>
      /\ chunks = <<>>
  BY DEF LoopsInit, BeforeLines
<1>2. Types
  <2>1. <<>> \in Texts /\ IsStack(<<>>) /\ <<>> \in Seq(Bodies) /\ <<>> \in Seq(Chunk)
    BY NoStack, EmptyOf
  <2>2. 0 \in 0..Len(<<>>)
    OBVIOUS
  <2> QED
    BY <1>1, <2>1, <2>2 DEF Types
<1> QED
  BY <1>1, <1>2 DEF TextsInv, SplitInv, DoneInv

LEMMA TextsNext ==
    /\ DocType /\ Control /\ LinesInv /\ RunsInv /\ PagesInv /\ TextsInv
    /\ [LoopsNext]_vars
    => TextsInv'
<1> SUFFICES ASSUME DocType, Control, LinesInv, RunsInv, PagesInv, TextsInv,
                    [LoopsNext]_vars
             PROVE  TextsInv'
  OBVIOUS
<1>1. Types /\ SplitInv /\ DoneInv
  BY DEF TextsInv
<1>2. ASSUME Types', SplitInv', pc' = "split" PROVE TextsInv'
  BY <1>2 DEF TextsInv, DoneInv
<1>3. CASE SplitLine \/ SplitHeader
  BY <1>1, <1>3, ReadingKeeps DEF TextsInv, SplitInv, DoneInv
<1>4. CASE SplitEnd
  <2>1. pc' = "split"
    BY <1>4 DEF SplitEnd
  <2> QED
    BY <1>1, <1>2, <1>4, <2>1, SplitEndKeeps
<1>5. CASE BeginText
  <2>1. pc' = "split"
    BY <1>5 DEF BeginText
  <2> QED
    BY <1>1, <1>2, <1>5, <2>1, BeginTextKeeps
<1>6. CASE BeginBody
  <2>1. pc' = "split"
    BY <1>6 DEF BeginBody
  <2> QED
    BY <1>1, <1>2, <1>6, <2>1, BeginBodyKeeps
<1>7. CASE EndSplit
  <2>1. pc' = "done"
    BY <1>7 DEF EndSplit
  <2> QED
    BY <1>1, <1>7, <2>1, EndSplitKeeps DEF TextsInv, SplitInv
<1>8. CASE ReturnText \/ ForceSplit \/ SeparatorFound \/ SkipPart \/ MergePart
           \/ SplitPart \/ EndParts \/ TokenLine
  <2>1. pc' = pc /\ pc = "split"
    <3>1. calls # <<>> /\ pc' = pc
      BY <1>8 DEF ReturnText, ForceSplit, SeparatorFound, SkipPart, MergePart,
                  SplitPart, EndParts, TokenLine, ReadingPart, At
    <3> QED
      BY <3>1 DEF Control
  <2> QED
    BY <1>1, <1>2, <1>8, <2>1, SplitKeeps
<1>9. CASE AddPage \/ EndPages
  <2>1. PagesInv'
    BY PagesNext
  <2> QED
    BY <1>1, <1>9, <2>1, PageKeeps DEF TextsInv, SplitInv, DoneInv
<1>10. CASE UNCHANGED vars
  <2>1. UNCHANGED <<doc, config, pc, md, pdf, bodyNo, calls, cur, chunks>>
    BY <1>10 DEF vars
  <2>2. Types'
    BY <1>1, <2>1 DEF Types
  <2>3. Source' = Source
    BY <2>1 DEF Source
  <2>4. SplitInv'
    BY <1>1, <2>1, <2>3 DEF SplitInv
  <2>5. DoneInv'
    BY <1>1, <2>1, <2>3 DEF DoneInv
  <2> QED
    BY <2>2, <2>4, <2>5 DEF TextsInv
<1> QED
  BY <1>3, <1>4, <1>5, <1>6, <1>7, <1>8, <1>9, <1>10 DEF LoopsNext

-----------------------------------------------------------------------------
(* The pages: the chunk that is being made ends with the page before the   *)
(* next, and begins no later than that page does (PdfInv).                 *)

AllOfText(list, whole) == \A c \in 1..Len(list) : IsOf(list[c].text, Int, whole)

\* The text of the builder after n pages.
PageHeld(text, list, n, whole, overlap) ==
    /\ IsOf(text, Int, whole) /\ EndsBare(text)
    /\ \E a : /\ IsRun(text, a, LettersTo(doc.pages, n))
              /\ Covered(list, a, LettersTo(doc.pages, n), overlap)
              /\ n > 0 => a <= LettersTo(doc.pages, n - 1)

PdfInv ==
    doc.chunker = "pdf" =>
       /\ AllOfText(chunks, doc.text)
       /\ pc = "start" => PageHeld(cur, chunks, pdf.i - 1, doc.text, config.overlap)
       /\ pc = "done" => Covered(chunks, doc.letters, doc.letters, config.overlap)

LEMMA PageEndIs == IsSep(PageEnd)
<1>1. PICK x : x = PageEnd
  OBVIOUS
<1>2. x \in Texts /\ Len(x) = 2 /\ x[1] <= 0 /\ x[2] <= 0
  BY <1>1 DEF PageEnd, Texts, Newline
<1>3. \A i \in 1..2 : i = 1 \/ i = 2
  OBVIOUS
<1>4. LettersIn(x) = {}
  BY <1>2, <1>3, TextIs
<1> QED
  BY <1>1, <1>2, <1>4 DEF IsSep

\* A page is written after what there is before it.
LEMMA PageWritten ==
    ASSUME NEW before, NEW page, NEW whole, NEW b, NEW u, NEW w,
           IsOf(before, Int, whole), EndsBare(before), IsRun(before, b, u),
           IsOf(page, Int, whole), IsRun(page, u, w)
    PROVE  /\ IsOf(before \o page \o PageEnd, Int, whole)
           /\ EndsBare(before \o page \o PageEnd)
           /\ IsRun(before \o page \o PageEnd, b, w)
<1>1. PICK s : s = before \o page
  OBVIOUS
<1>2. IsOf(s, Int, whole) /\ IsRun(s, b, w)
  BY <1>1, OfJoin, RunJoin
<1>3. IsOf(s \o PageEnd, Int, whole) /\ EndsBare(s \o PageEnd)
  BY <1>2, PageEndIs, OfSep
<1>4. IsRun(PageEnd, w, w)
  <2>1. w \in Nat
    BY <1>2 DEF IsRun
  <2> QED
    BY <2>1, PageEndIs, RunBare DEF IsSep
<1>5. IsRun(s \o PageEnd, b, w)
  BY <1>2, <1>4, RunJoin
<1> QED
  BY <1>1, <1>3, <1>5

LEMMA PageIs ==
    ASSUME DocType, doc.chunker = "pdf", NEW i \in 1..Len(doc.pages)
    PROVE  /\ IsOf(doc.pages[i], Int, doc.text)
           /\ IsRun(doc.pages[i], LettersTo(doc.pages, i - 1), LettersTo(doc.pages, i))
<1>1. Contents = doc.pages
  BY DEF Contents
<1>2. /\ IsRun(doc.pages[i], LettersTo(doc.pages, i - 1), LettersTo(doc.pages, i))
      /\ ApartIn(doc.pages[i], doc.text)
  BY <1>1, ContentsAre, LettersToIs
<1>3. doc.pages[i] \in Texts /\ LettersIn(doc.pages[i]) \subseteq Int
  BY <1>2, TextIs DEF IsRun
<1> QED
  BY <1>2, <1>3 DEF IsOf

LEMMA MoreOfText ==
    ASSUME NEW S, NEW list \in Seq(S), NEW whole, AllOfText(list, whole),
           NEW x \in S, IsOf(x.text, Int, whole)
    PROVE  AllOfText(Append(list, x), whole)
<1>1. PICK more : more = Append(list, x)
  OBVIOUS
<1>2. \A k \in 1..Len(more) : (k \in 1..Len(list) /\ more[k] = list[k]) \/ more[k] = x
  BY <1>1, AppendIs
<1>3. AllOfText(more, whole)
  BY <1>2 DEF AllOfText
<1> QED
  BY <1>1, <1>3

\* One page more, the one before the next being among the text or its end.
LEMMA PageOn ==
    ASSUME DocType, doc.chunker = "pdf", NEW i \in 1..Len(doc.pages),
           NEW before, IsOf(before, Int, doc.text), EndsBare(before), NEW list,
           NEW b, IsRun(before, b, LettersTo(doc.pages, i - 1)),
           Covered(list, b, LettersTo(doc.pages, i - 1), config.overlap)
    PROVE  PageHeld(before \o doc.pages[i] \o PageEnd, list, i, doc.text, config.overlap)
<1>1. PICK u, w, page : /\ u = LettersTo(doc.pages, i - 1) /\ w = LettersTo(doc.pages, i)
                        /\ page = doc.pages[i]
  OBVIOUS
<1>2. IsOf(page, Int, doc.text) /\ IsRun(page, u, w)
  BY <1>1, PageIs
<1>3. /\ IsOf(before \o page \o PageEnd, Int, doc.text)
      /\ EndsBare(before \o page \o PageEnd)
      /\ IsRun(before \o page \o PageEnd, b, w)
  BY <1>1, <1>2, PageWritten
<1>4. w \in Nat /\ u <= w /\ b <= u
  BY <1>1, <1>2 DEF IsRun
<1>5. Covered(list, b, w, config.overlap)
  BY <1>1, <1>4, CoveredOn
<1> QED
  BY <1>1, <1>3, <1>4, <1>5 DEF PageHeld

LEMMA PdfPage ==
    ASSUME DocType, PagesInv, PdfInv, AddPage
    PROVE  PdfInv'
<1>1. PICK i : i = pdf.i
  OBVIOUS
<1>2. /\ pc = "start" /\ pc' = "start" /\ doc.chunker = "pdf" /\ doc' = doc
      /\ i <= Len(doc.pages) /\ config' = config /\ pdf'.i = i + 1
      /\ chunks' = IF Full THEN Append(chunks, PageChunk) ELSE chunks
      /\ cur' = (IF Full THEN PageOverlap ELSE cur) \o doc.pages[i] \o PageEnd
  BY <1>1 DEF AddPage
<1>3. i \in 1..Len(doc.pages) /\ i \in Nat
  <2>1. i \in 1..Len(doc.pages) + 1 /\ Len(doc.pages) \in Nat
    BY <1>1, <1>2 DEF PagesInv, DocType
  <2> QED
    BY <1>2, <2>1
<1>4. PICK u : u = LettersTo(doc.pages, i - 1)
  OBVIOUS
<1>5. /\ AllOfText(chunks, doc.text) /\ IsOf(cur, Int, doc.text) /\ EndsBare(cur)
      /\ chunks \in Seq(PageChunks)
  BY <1>2 DEF PdfInv, PageHeld, PagesInv, PagesOf
<1>6. PICK a : /\ IsRun(cur, a, u) /\ Covered(chunks, a, u, config.overlap)
               /\ i - 1 > 0 => a <= LettersTo(doc.pages, i - 1 - 1)
  BY <1>1, <1>2, <1>4 DEF PdfInv, PageHeld
<1>7. AllOfText(chunks', doc.text)
      /\ PageHeld(cur', chunks', i, doc.text, config.overlap)
  <2>1. CASE ~ Full
    BY <1>2, <1>3, <1>4, <1>5, <1>6, <2>1, PageOn
  <2>2. CASE Full
    <3>1. i > 1 /\ i - 1 \in 1..Len(doc.pages)
      <4>1. i # 1
        BY <1>1, <1>2, <2>2 DEF Full, PagesInv
      <4> QED
        BY <1>3, <4>1
    <3>2. PICK x : x = PageChunk
      OBVIOUS
    <3>3. x \in PageChunks /\ x.text = cur
      <4>1. cur \in Seq(Int) /\ pdf.pages \in Seq(Nat) /\ pdf.pages # <<>>
        BY <1>1, <1>2, <3>1 DEF PagesInv
      <4> QED
        BY <3>2, <4>1 DEF PageChunk, PageChunks
    <3>4. PICK before : before = PageOverlap
      OBVIOUS
    <3>5. /\ IsOf(before, Int, doc.text) /\ EndsBare(before)
          /\ \E b \in a..u : /\ IsRun(before, b, u) /\ (config.overlap = 0 => b = u)
      <4>1. CASE config.overlap = 0
        <5>1. before = <<>>
          BY <3>4, <4>1 DEF PageOverlap
        <5>2. u \in a..u /\ u \in Nat
          BY <1>6 DEF IsRun
        <5> QED
          BY <5>1, <5>2, OfEmpty, EmptyOf, RunEmpty
      <4>2. CASE config.overlap # 0
        <5>1. PICK page, tail, first : /\ page = doc.pages[i - 1]
                                       /\ tail = Suffix(page, config.overlap)
                                       /\ first = LettersTo(doc.pages, i - 1 - 1)
          OBVIOUS
        <5>2. config.overlap \in Nat \ {0} /\ before = tail \o PageEnd
          <6>1. config.overlap \in Nat \ {0}
            BY <4>2 DEF DocType
          <6>2. config.overlap > 0 /\ pdf.i > 1
            BY <1>1, <3>1, <6>1
          <6>3. PageOverlap = Suffix(doc.pages[pdf.i - 1], config.overlap) \o PageEnd
            BY <6>2 DEF PageOverlap
          <6> QED
            BY <1>1, <3>4, <5>1, <6>1, <6>3
        <5>3. IsOf(page, Int, doc.text) /\ IsRun(page, first, u) /\ page \in Texts
          BY <1>2, <1>4, <3>1, <5>1, PageIs DEF IsOf
        <5>4. IsTail(tail, page) /\ IsPiece(tail, page)
          BY <5>1, <5>2, <5>3, SuffixIs, TailIs
        <5>5. PICK b \in first..u : IsRun(tail, b, u)
          BY <5>3, <5>4, RunTail
        <5>6. IsRun(before, b, u)
          <6>1. IsRun(PageEnd, u, u)
            <7>1. u \in Nat
              BY <5>3 DEF IsRun
            <7> QED
              BY <7>1, PageEndIs, RunBare DEF IsSep
          <6> QED
            BY <5>2, <5>5, <6>1, RunJoin
        <5>7. IsOf(before, Int, doc.text) /\ EndsBare(before)
          BY <5>2, <5>3, <5>4, OfPiece, OfSep, PageEndIs
        <5>8. b \in a..u
          <6>1. a <= first
            BY <1>3, <1>6, <3>1, <5>1
          <6>2. a \in Nat /\ first \in Nat /\ u \in Nat
            BY <1>6, <5>3 DEF IsRun
          <6> QED
            BY <5>5, <6>1, <6>2
        <5> QED
          BY <4>2, <5>6, <5>7, <5>8
      <4> QED
        BY <4>1, <4>2
    <3>6. PICK b \in a..u : IsRun(before, b, u) /\ (config.overlap = 0 => b = u)
      BY <3>5
    <3>7. PICK list : list = Append(chunks, x)
      OBVIOUS
    <3>8. Covered(list, b, u, config.overlap) /\ AllOfText(list, doc.text)
      BY <1>5, <1>6, <3>3, <3>6, <3>7, CoveredMore, MoreOfText
    <3>9. PageHeld(before \o doc.pages[i] \o PageEnd, list, i, doc.text, config.overlap)
      BY <1>2, <1>3, <1>4, <3>5, <3>6, <3>8, PageOn
    <3> QED
      BY <1>2, <2>2, <3>2, <3>4, <3>7, <3>8, <3>9
  <2> QED
    BY <2>1, <2>2
<1>8. pdf'.i - 1 = i
  BY <1>2, <1>3
<1>9. AllOfText(chunks', doc'.text)
  BY <1>2, <1>7
<1>10. PageHeld(cur, chunks, pdf.i - 1, doc.text, config.overlap)'
  BY <1>2, <1>7, <1>8 DEF PageHeld
<1>11. AllOfText(chunks, doc.text)'
  BY <1>9 DEF AllOfText
<1> QED
  BY <1>2, <1>10, <1>11 DEF PdfInv

LEMMA PdfEnd ==
    ASSUME DocType, PagesInv, PdfInv, EndPages
    PROVE  PdfInv'
<1>1. /\ pc = "start" /\ pc' = "done" /\ doc.chunker = "pdf" /\ pdf.i > Len(doc.pages)
      /\ UNCHANGED <<doc, config>>
      /\ chunks' = IF cur = <<>> THEN chunks ELSE Append(chunks, PageChunk)
  BY DEF EndPages
<1>2. PICK n : n = doc.letters
  OBVIOUS
<1>3. LettersTo(doc.pages, pdf.i - 1) = n /\ n \in Nat
  <2>1. pdf.i - 1 = Len(doc.pages)
    <3>1. pdf.i \in 1..Len(doc.pages) + 1 /\ Len(doc.pages) \in Nat
      BY <1>1 DEF PagesInv, DocType
    <3> QED
      BY <1>1, <3>1
  <2>2. AreOrdered(doc.pages, doc.letters)
    BY <1>1, ContentsAre DEF Contents
  <2> QED
    BY <1>2, <2>1, <2>2, LettersToIs DEF AreOrdered
<1>4. PICK a : IsRun(cur, a, n) /\ Covered(chunks, a, n, config.overlap)
  BY <1>1, <1>3 DEF PdfInv, PageHeld
<1>5. IsOf(cur, Int, doc.text) /\ AllOfText(chunks, doc.text) /\ chunks \in Seq(PageChunks)
  BY <1>1 DEF PdfInv, PageHeld, PagesInv, PagesOf
<1>6. AllOfText(chunks', doc.text) /\ Covered(chunks', n, n, config.overlap)
  <2>1. CASE cur = <<>>
    <3>1. a = n
      BY <1>4, <2>1, RunEmpty
    <3> QED
      BY <1>1, <1>4, <1>5, <2>1, <3>1
  <2>2. CASE cur # <<>>
    <3>1. PICK x : x = PageChunk
      OBVIOUS
    <3>2. x \in PageChunks /\ x.text = cur
      <4>1. pdf.i # 1
        BY <1>1, <2>2 DEF PagesInv
      <4>2. pdf.i > 1
        <5>1. pdf.i \in 1..Len(doc.pages) + 1 /\ Len(doc.pages) \in Nat
          BY <1>1 DEF PagesInv, DocType
        <5> QED
          BY <4>1, <5>1
      <4>3. cur \in Seq(Int) /\ pdf.pages \in Seq(Nat) /\ pdf.pages # <<>>
        BY <1>1, <4>2 DEF PagesInv
      <4> QED
        BY <3>1, <4>3 DEF PageChunk, PageChunks
    <3>3. n \in a..n
      BY <1>4 DEF IsRun
    <3>4. /\ Covered(Append(chunks, x), n, n, config.overlap)
          /\ AllOfText(Append(chunks, x), doc.text)
      BY <1>4, <1>5, <3>2, <3>3, CoveredMore, MoreOfText
    <3> QED
      BY <1>1, <2>2, <3>1, <3>4
  <2> QED
    BY <2>1, <2>2
<1>7. AllOfText(chunks, doc.text)'
  BY <1>1, <1>6 DEF AllOfText
<1>8. Covered(chunks', doc'.letters, doc'.letters, config'.overlap)
  BY <1>1, <1>2, <1>6
<1> QED
  BY <1>1, <1>7, <1>8 DEF PdfInv

LEMMA PdfInit == LoopsInit => PdfInv
<1> SUFFICES ASSUME LoopsInit, doc.chunker = "pdf" PROVE PdfInv
  BY DEF PdfInv
<1>1. DocType /\ pc = "start" /\ pdf.i = 1 /\ pdf.i - 1 = 0 /\ chunks = <<>> /\ cur = <<>>
  BY InitType DEF LoopsInit, BeforePages
<1>2. LettersTo(doc.pages, 0) = 0
  <2>1. Contents = doc.pages
    BY DEF Contents
  <2> QED
    BY <1>1, <2>1, ContentsAre, LettersToIs
<1>3. PageHeld(<<>>, <<>>, 0, doc.text, config.overlap)
  <2>1. IsRun(<<>>, 0, 0) /\ Covered(<<>>, 0, 0, config.overlap)
    BY RunEmpty, CoveredFirst
  <2>2. IsOf(<<>>, Int, doc.text) /\ EndsBare(<<>>)
    BY OfEmpty, EmptyOf
  <2> QED
    BY <1>2, <2>1, <2>2 DEF PageHeld
<1> QED
  BY <1>1, <1>3 DEF PdfInv, AllOfText

LEMMA PdfNext ==
    DocType /\ Control /\ PagesInv /\ PdfInv /\ [LoopsNext]_vars => PdfInv'
<1> SUFFICES ASSUME DocType, Control, PagesInv, PdfInv, [LoopsNext]_vars,
                    doc'.chunker = "pdf"
             PROVE  PdfInv'
  BY DEF PdfInv
<1>1. CASE AddPage
  BY <1>1, PdfPage
<1>2. CASE EndPages
  BY <1>2, PdfEnd
<1>3. CASE Splits
  <2>1. doc' = doc /\ doc.chunker # "pdf"
    BY <1>3, SplitsKeep
  <2> QED
    BY <2>1
<1>4. CASE SplitLine \/ SplitHeader \/ SplitEnd
  BY <1>4 DEF SplitLine, SplitHeader, ReadingLine, SplitEnd
<1>5. CASE UNCHANGED vars
  <2>1. UNCHANGED <<doc, config, pc, pdf, cur, chunks>>
    BY <1>5 DEF vars
  <2> QED
    BY <2>1 DEF PdfInv, PageHeld, AllOfText
<1> QED
  BY <1>1, <1>2, <1>3, <1>4, <1>5, StepsAre

-----------------------------------------------------------------------------
(* What the chunkers promise, for every document and every size.           *)

AllInv == DocType /\ Control /\ LinesInv /\ PagesInv /\ RunsInv /\ TextsInv /\ PdfInv

LEMMA AllHolds == LoopsSpec => []AllInv
<1>1. LoopsInit => AllInv
  BY InitType, LinesInit, PagesInit, RunsInit, TextsInit, PdfInit DEF AllInv
<1>2. AllInv /\ [LoopsNext]_vars => AllInv'
  <2> SUFFICES ASSUME AllInv, [LoopsNext]_vars PROVE AllInv'
    OBVIOUS
  <2>1. DocType /\ Control /\ LinesInv /\ PagesInv /\ RunsInv /\ TextsInv /\ PdfInv
    BY DEF AllInv
  <2>2. DocType' /\ Control'
    BY <2>1, NextType
  <2>3. LinesInv' /\ PagesInv'
    BY <2>1, LinesNext, PagesNext
  <2>4. RunsInv' /\ TextsInv' /\ PdfInv'
    BY <2>1, RunsNext, TextsNext, PdfNext
  <2> QED
    BY <2>2, <2>3, <2>4 DEF AllInv
<1> QED
  BY <1>1, <1>2, PTL DEF LoopsSpec

\* The chunks, when all is done.
LEMMA DoneIs ==
    ASSUME AllInv, Done
    PROVE  /\ Covered(chunks, doc.letters, doc.letters, config.overlap)
           /\ DOMAIN chunks = 1..Len(chunks)
           /\ doc.chunker # "char" => \A c \in DOMAIN chunks : ApartIn(chunks[c].text, doc.text)
           /\ doc.chunker \notin {"pdf", "char"} => AllFrom(Source, chunks)
           /\ doc.chunker \notin {"pdf", "token"} => AllFit(Source, chunks)
           /\ doc.chunker # "pdf" => chunks \in Seq(Chunk)
<1>1. CASE doc.chunker = "pdf"
  <2>1. chunks \in Seq(PageChunks) /\ AllOfText(chunks, doc.text)
        /\ Covered(chunks, doc.letters, doc.letters, config.overlap)
    BY <1>1 DEF AllInv, PagesInv, PagesOf, PdfInv, Done
  <2>2. DOMAIN chunks = 1..Len(chunks)
    BY <2>1
  <2>3. \A c \in DOMAIN chunks : ApartIn(chunks[c].text, doc.text)
    BY <2>1, <2>2 DEF AllOfText, IsOf
  <2> QED
    BY <1>1, <2>1, <2>2, <2>3
<1>2. CASE doc.chunker # "pdf"
  <2>1. /\ chunks \in Seq(Chunk)
        /\ Covered(chunks, doc.letters, doc.letters, config.overlap)
        /\ doc.chunker # "char" => AllFrom(Source, chunks)
        /\ doc.chunker # "token" => AllFit(Source, chunks)
    BY <1>2 DEF AllInv, TextsInv, Types, DoneInv, Done
  <2>2. DOMAIN chunks = 1..Len(chunks)
    BY <2>1
  <2>3. ASSUME doc.chunker # "char", NEW c \in DOMAIN chunks
        PROVE  ApartIn(chunks[c].text, doc.text)
    <3>1. ChunkFrom(Source, chunks[c]) /\ Source.whole = doc.text
      BY <2>1, <2>2, <2>3 DEF AllFrom, Source
    <3> QED
      BY <3>1 DEF ChunkFrom, IsOf
  <2> QED
    BY <1>2, <2>1, <2>2, <2>3
<1> QED
  BY <1>1, <1>2

(* Whatever the document, the chunker and the sizes: no letter of the text *)
(* is lost or moved, and one is repeated only where chunks overlap         *)
(* (recursiveSplit, mergeParts, forceSplitBySize, chunkMarkdownWithHeaders,*)
(* chunkPDFByPages and TokenChunker.Chunk).  A letter is a character that  *)
(* is neither white space nor the punctuation of a separator: those are    *)
(* cut out of the text, and not always written again.                      *)
THEOREM DocumentIsTiled == LoopsSpec => []ChunksTileDocument
<1>1. AllInv => ChunksTileDocument
  <2> SUFFICES ASSUME AllInv, Done PROVE ChunksTileDocument
    BY DEF ChunksTileDocument
  <2>1. PICK list, n, overlap : list = chunks /\ n = doc.letters /\ overlap = config.overlap
    OBVIOUS
  <2>2. Covered(list, n, n, overlap) /\ DOMAIN list = 1..Len(list)
    BY <2>1, DoneIs
  <2>3. Tiles(list, n, overlap)
    BY <2>2, CoveredAll
  <2>4. Tiles(chunks, doc.letters, config.overlap)
    BY <2>1, <2>3
  <2> QED
    BY <2>4, Zenon DEF Tiles, ChunksTileDocument
<1> QED
  BY <1>1, AllHolds, PTL

(* A chunk is no larger than ChunkSize, and with overlap no larger than    *)
(* ChunkSize, OverlapSize and two separators, whatever the text            *)
(* (recursiveSplit, mergeParts and forceSplitBySize).                      *)
THEOREM SizesAreBounded == LoopsSpec => []SizeBounded
<1>1. AllInv => SizeBounded
  <2> SUFFICES ASSUME AllInv, Done, doc.chunker \in {"rag", "char", "markdown"},
                      NEW c \in DOMAIN chunks
               PROVE  Len(chunks[c].text) <= config.size + (IF config.overlap = 0 THEN 0
                                                            ELSE config.overlap + 4)
    BY DEF SizeBounded
  <2>1. AllFit(Source, chunks) /\ c \in 1..Len(chunks)
    BY DoneIs
  <2>2. Len(chunks[c].text) <= Limit(Source)
    BY <2>1 DEF AllFit
  <2> QED
    BY <2>2 DEF Limit, Source
<1> QED
  BY <1>1, AllHolds, PTL

(* No chunker but CharChunker puts two letters side by side that are not   *)
(* so in the document, wherever it cuts, trims and merges (mergeParts,     *)
(* mdSplitter.Split, chunkPDFByPages, overlapTail).                        *)
THEOREM WordsAreApart == LoopsSpec => []WordsStayApart
<1>1. AllInv => WordsStayApart
  <2> SUFFICES ASSUME AllInv, Done, doc.chunker # "char", NEW c \in DOMAIN chunks
               PROVE  ApartIn(chunks[c].text, doc.text)
    BY DEF WordsStayApart, ApartIn
  <2> QED
    BY DoneIs
<1> QED
  BY <1>1, AllHolds, PTL

\* A letter of a body is in the lines of the body.
LEMMA LineOfLetter ==
    ASSUME NEW lines, NEW n, AreOrdered(lines, n), NEW l \in 1..Len(lines),
           NEW from \in 1..Len(lines) + 1, NEW to \in 0..Len(lines),
           NEW x \in LettersIn(lines[l]),
           x \in LettersTo(lines, from - 1) + 1..LettersTo(lines, to)
    PROVE  l \in from..to
<1>1. PICK len \in Nat : len = Len(lines)
  BY DEF AreOrdered
<1>2. from - 1 \in 0..len /\ l - 1 \in 0..len /\ l \in 0..len
  BY <1>1
<1>3. PICK f \in Nat, t \in Nat, u \in Nat, v \in Nat :
         /\ f = LettersTo(lines, from - 1) /\ t = LettersTo(lines, to)
         /\ u = LettersTo(lines, l - 1) /\ v = LettersTo(lines, l)
         /\ l <= from - 1 => v <= f
         /\ to <= l - 1 => t <= u
         /\ IsRun(lines[l], u, v)
  BY <1>1, <1>2, LettersToIs
<1>4. x \in u + 1..v /\ x \in f + 1..t
  BY <1>3 DEF IsRun
<1>5. ~ (l <= from - 1) /\ ~ (to <= l - 1)
  <2>1. ~ (v <= f) /\ ~ (t <= u)
    BY <1>4
  <2> QED
    BY <1>3, <2>1
<1> QED
  BY <1>1, <1>5

(* Each chunk of a markdown document names the headers that its lines are  *)
(* under, for every document, however its bodies are split                 *)
(* (chunkMarkdownWithHeaders).                                             *)
THEOREM ChunksNameHeaders == LoopsSpec => []HeadersInForce
<1>1. AllInv => HeadersInForce
  <2> SUFFICES ASSUME AllInv, Done, doc.chunker = "markdown" PROVE HeadersInForce
    BY DEF HeadersInForce
  <2>1. DocType /\ BodiesUnderHeaders /\ RunsInv /\ pc # "start" /\ Types
    BY DEF AllInv, LinesInv, Done, TextsInv
  <2>2. PICK open \in SUBSET DOMAIN doc.lines :
           /\ AreOpenings(open, Len(doc.lines))
           /\ UnderTheirs(open, md.bodies)
    BY <2>1 DEF BodiesUnderHeaders, UnderTheirs, Under
  <2>3. AreOrdered(doc.lineTexts, doc.letters)
    BY <2>1, BodyAt
  <2>4. ASSUME NEW c \in DOMAIN chunks, NEW line \in DOMAIN doc.lines,
               LettersIn(chunks[c].text) \cap LettersIn(doc.lineTexts[line]) # {}
        PROVE  Under(open, chunks[c].h2, chunks[c].h3, line)
    <3>1. ChunkFrom(Source, chunks[c]) /\ bodyNo \in 0..Len(md.bodies)
      BY <2>1, DoneIs DEF AllFrom, Types
    <3>2. PICK k \in 1..bodyNo :
             /\ chunks[c].h2 = HeaderAt(md.bodies[k].headers, 2)
             /\ chunks[c].h3 = HeaderAt(md.bodies[k].headers, 3)
             /\ LettersIn(chunks[c].text) \subseteq
                   LettersTo(doc.lineTexts, md.bodies[k].from - 1) + 1
                      ..LettersTo(doc.lineTexts, md.bodies[k].to)
      BY <3>1 DEF ChunkFrom, Source, IsOf, BodyLetters
    <3>3. k \in 1..Len(md.bodies) /\ k \in DOMAIN md.bodies
      <4>1. md.bodies \in Seq(Bodies)
        BY <2>1 DEF Types
      <4> QED
        BY <3>1, <4>1
    <3>4. PICK from \in 1..Len(doc.lineTexts) + 1, to \in 0..Len(doc.lineTexts) :
             from = md.bodies[k].from /\ to = md.bodies[k].to
      BY <2>1, <3>3 DEF RunsInv, BodiesRun, LinesIn
    <3>5. PICK x \in LettersIn(doc.lineTexts[line]) :
             x \in LettersTo(doc.lineTexts, from - 1) + 1..LettersTo(doc.lineTexts, to)
      BY <2>4, <3>2, <3>4
    <3>6. line \in 1..Len(doc.lineTexts)
      BY <2>1 DEF DocType
    <3>7. line \in from..to
      BY <2>3, <3>4, <3>5, <3>6, LineOfLetter
    <3> QED
      BY <2>2, <3>2, <3>3, <3>4, <3>7 DEF UnderTheirs
  <2> QED
    BY <2>2, <2>4 DEF HeadersInForce, Under
<1> QED
  BY <1>1, AllHolds, PTL
=============================================================================
