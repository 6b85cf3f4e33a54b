SPECIFICATION CacheSpec
CONSTANTS
    t1 = t1
    amy = amy  ben = ben
    Contexts <- Scopes
    Docs = {d1}
    Questions = {q1, q2}
    TTL = 2
    MaxEntries = 2
INVARIANTS CacheBounded OldestFirst
PROPERTY LiveAnswersStay
