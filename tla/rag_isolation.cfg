SPECIFICATION Spec
CONSTANTS
    t1 = t1  t2 = t2
    amy = amy  ben = ben  cat = cat
    Contexts <- TwoOrgs
    SharePayloads = {{ben}}
    Docs = {d1}
    Questions = {q1}
    Hashes = {h1}
    TTL = 1
    MaxEntries = 1
    OpIds = {o1, o2}
    ReqIds = {r1}
    NoObject = NoObject
SYMMETRY Symmetry
INVARIANTS TypeOK SourcesWereGranted
