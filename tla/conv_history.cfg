SPECIFICATION Spec
CONSTANTS
    Users = {amy, ben}
    Convs = {c1}
    AskIds = {a1, a2}
    MaxTurns = 4
    HistoryTurns = 1
    PageSize = 5
    None = None
SYMMETRY Symmetry
INVARIANTS OnlyTheOwner FoldedUnlessLossy NothingDropped
CHECK_DEADLOCK FALSE
