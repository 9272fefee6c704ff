SPECIFICATION Spec
CONSTANTS
    MaxText = 7
    MaxSentence = 6
    MaxLines = 5
    MaxPages = 4
    Sizes = {2, 5}
    Overlaps = {0, 3}
CHECK_DEADLOCK FALSE
INVARIANT ChunksTileDocument
INVARIANT SizeBounded
INVARIANT WordsStayApart
INVARIANT PunctuationStays
INVARIANT HeadersInForce
INVARIANT PagesListedOnce
INVARIANT BodiesUnderHeaders
PROPERTY LoopsSpec
