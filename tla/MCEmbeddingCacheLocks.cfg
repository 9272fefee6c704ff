\* Stats against the claim of concurrency safety: two callers of Embed, one of Stats.
CONSTANTS
    Callers = {a, b, c}
    Texts = {t1}
    Ops = {"Embed", "Stats"}
    MaxSize = 1
    TTL = 0
    MaxTexts <- TextBound
    MaxCalls <- CallBound
    Busiest = NoCaller
    MaxTime = 0
    NoCaller = NoCaller

SPECIFICATION Spec
INVARIANT NobodyIsStuck
