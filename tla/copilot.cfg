SPECIFICATION FairSpec
CONSTANTS
    t1 = t1  t2 = t2
    amy = amy  ben = ben
    Asked = Asked  ASKED = ASKED  Other = Other  Blank = Blank
    None = None
    Edges <- TwoEdges
    MaxRuns = 3
    PageSize = 2
    Key <- Spelled
    Orgs <- TwoOrgs
    Users <- Colleagues
    Admins <- OneAdmin
    Org <- InOrg1
    Histories <- SomeHistories
    Endings <- FoundOrNot
    CallLists <- SomeCalls
    KbConfigured = TRUE
    MaxIterations = 2
    MaxTraces = 4
    MaxRatings = 1
    Members <- Colleagues
    Days = 14
    Weeks = 2
    Limit = 1
INVARIANTS AuditTellsEffects AnswerTellsEffects PanelsTellTheRuns GapsAreGaps
PROPERTIES RetriesStayHome TalksEnd
CHECK_DEADLOCK FALSE
