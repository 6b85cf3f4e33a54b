SPECIFICATION Spec
CONSTANTS
    Users = {amy}
    Convs = {c1}
    AskIds = {a1, a2}
    MaxTurns = 3
    HistoryTurns = 1
    PageSize = 8
    None = None
INVARIANT DeletedIsGone
CHECK_DEADLOCK FALSE
