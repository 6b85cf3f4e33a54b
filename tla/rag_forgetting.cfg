SPECIFICATION FairSpec
CONSTANTS
    t1 = t1  t2 = t2
    amy = amy  ben = ben  cat = cat
    Contexts <- OneOrg
    SharePayloads = {{}, {ben}}
    Docs = {d1}
    Questions = {q1}
    Hashes = {h1}
    TTL = 2
    MaxEntries = 2
    OpIds = {o1}
    ReqIds = {r1}
    NoObject = NoObject
INVARIANT SettledDeleteIsFinal
PROPERTY EventuallyForgotten
