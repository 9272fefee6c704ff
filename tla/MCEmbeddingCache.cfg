\* Three callers of every method, a cache smaller than a batch, entries that expire.
CONSTANTS
    Callers = {a, b, c}
    Texts = {t1, t2}
    Ops = {"Embed", "Stats", "HitRate", "Clear"}
    MaxSize = 1
    TTL = 1
    MaxTexts <- TextBound
    MaxCalls <- CallBound
    Busiest = a
    MaxTime = 1
    NoCaller = NoCaller

\* Stats may leave every caller stuck, see MCEmbeddingCacheLocks.
CHECK_DEADLOCK FALSE
SPECIFICATION FairSpec
INVARIANT TypeOK
INVARIANT CacheBounded
INVARIANT ResultsMatch
INVARIANT ResultsAreFresh
PROPERTY CallsReturn
