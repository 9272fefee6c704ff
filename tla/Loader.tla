------------------------------- MODULE Loader -------------------------------
(***************************************************************************)
(* FileLoader (loader.go, loader_text.go, loader_office.go,                *)
(* loader_bytes.go): the type of a file, its content and its pages, from   *)
(* its extension and from what the third-party reader of its format finds  *)
(* in it; and the way ChunkDocument takes what was loaded.                 *)
(*                                                                         *)
(* A text is a sequence, of characters or of lines: the module that        *)
(* instantiates this one chooses, and gives the fixed texts.  A file is    *)
(* [ext, bytes, text, pages]: its extension, normalized; whether there is  *)
(* nothing in it, or what no reader opens; its text, or the markdown that  *)
(* the reader of an office format makes of it; the text of its PDF pages.  *)
(* Names, times and line counts are left out.                              *)
(***************************************************************************)
EXTENDS Integers, SequencesExt

CONSTANTS FenceBefore, FenceAfter,  \* of the code block around a text
          NoContent,                \* of an office file with no content
          PdfTitle, PageTitle,      \* headings in the content of a PDF
          NoText,                   \* of a page whose text is blank
          PageBreak,
          Link,                     \* of an image, and of a video
          Blank(_)                  \* TrimSpace leaves nothing

\* One extension stands for the others of its kind in textExtensions,
\* imageExtensions and videoExtensions; "zip" is in none.
Extensions == {"pdf", "doc", "docx", "xls", "xlsx", "pptx", "txt", "", "md",
               "markdown", "go", "png", "mp4", "zip"}

\* detectFileType.
FileType(ext) ==
    CASE ext \in {"pdf", "doc", "docx", "pptx", "markdown"} -> ext
      [] ext = "md" -> "markdown"
      [] ext \in {"xls", "xlsx"} -> "xlsx"
      [] ext \in {"txt", "", "go"} -> "txt"
      [] ext = "png" -> "image"
      [] ext = "mp4" -> "video"
      [] OTHER -> "unsupported"

Failed == [ok |-> FALSE, fileType |-> "", content |-> <<>>, pages |-> <<>>]

Loaded(file, content, pages) ==
    [ok |-> TRUE, fileType |-> file.ext, content |-> content, pages |-> pages]

TextPage(text) == FenceBefore \o text \o FenceAfter

OrNoContent(markdown) == IF markdown = <<>> THEN NoContent ELSE markdown

PagesRead(pages) == [i \in DOMAIN pages |-> IF Blank(pages[i]) THEN NoText ELSE pages[i]]

\* Mutant: the loop that writes the content begins after the first page.
ExtractLaterPages(file) ==
    LET pages == PagesRead(file.pages)
    IN Loaded(file,
              PdfTitle \o FlattenSeq([i \in 1..Len(pages) - 1 |->
                                         PageTitle \o pages[i + 1] \o PageBreak]),
              pages)

\* extractPDFPages, of either entry point.
ExtractPages(file) ==
    LET pages == PagesRead(file.pages)
    IN Loaded(file,
              PdfTitle \o FlattenSeq([i \in DOMAIN pages |->
                                         PageTitle \o pages[i] \o PageBreak]),
              pages)

-----------------------------------------------------------------------------
(* LoadFile: a reader for each type, but for the one it detects as doc.    *)

LoadTextFile(file) == Loaded(file, TextPage(file.text), <<file.text>>)

LoadOfficeFile(file) ==
    IF file.bytes = "good"
    THEN Loaded(file, OrNoContent(file.text), <<OrNoContent(file.text)>>)
    ELSE Failed

LoadPDFFile(file) == IF file.bytes = "good" THEN ExtractPages(file) ELSE Failed

LoadMediaFile(file) == Loaded(file, Link, <<Link>>)

LoadContent(type, file) ==
    CASE type \in {"txt", "markdown"} -> LoadTextFile(file)
      [] type = "pdf" -> LoadPDFFile(file)
      [] type \in {"docx", "xlsx", "pptx"} -> LoadOfficeFile(file)
      [] type \in {"image", "video"} -> LoadMediaFile(file)
      [] OTHER -> Failed

LoadFile(file) == LoadContent(FileType(file.ext), file)

-----------------------------------------------------------------------------
(* LoadBytes, from memory, where nothing to load is an error.              *)

LoadBytes(file) ==
    LET type == FileType(file.ext)
    IN CASE file.bytes = "none" -> Failed
         [] file.bytes # "none" /\ type \in {"txt", "markdown"} ->
              Loaded(file, TextPage(file.text), <<file.text>>)
         [] file.bytes = "good" /\ type \in {"docx", "xlsx", "pptx"} ->
              Loaded(file, OrNoContent(file.text), <<OrNoContent(file.text)>>)
         [] file.bytes = "good" /\ type = "pdf" -> ExtractPages(file)
         [] file.bytes # "none" /\ type \in {"image", "video"} ->
              Loaded(file, Link, <<Link>>)
         [] OTHER -> Failed

-----------------------------------------------------------------------------
\* ChunkDocument goes by the extension, which a document has for its type:
\* those of "md", "xls" and "" are not among the types it knows.
ChunkerOf(loaded) ==
    CASE loaded.fileType = "pdf" /\ loaded.pages # <<>> -> "pdf"
      [] loaded.fileType \in {"docx", "pptx", "xlsx", "txt", "markdown"} -> "markdown"
      [] loaded.fileType = "pdf" /\ loaded.pages = <<>> -> "markdown"
      [] OTHER -> "rag"
=============================================================================
