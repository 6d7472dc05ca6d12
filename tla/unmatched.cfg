SPECIFICATION SpecReconcile
CONSTANTS
    i1 = i1
    i2 = i2
    i3 = i3
    i4 = i4
    t1 = t1
    t2 = t2
    t3 = t3
    Milk = Milk
    MilkSoon = MilkSoon
    Quoted = Quoted
    IssueIds = {i1, i2, i3}
    TaskIds = {t1, t2}
    IssueOrder <- Issues3
    TaskOrder <- Tasks2
    IssuesAtStart = {i1}
    TasksAtStart = {t1}
    Names = {Milk}
    Score <- Scores
    Due <- Dues
    QuoteFirst = {}
    QuoteInside = {}
    match_threshold = 85
    match_due_window_days = 3
    limit = 3
    Hooks = {}
    Pollers = {p1}
    Fillers = {f1}
    MaxUserOps = 0
    MaxFaults = 0
    RowsAtStart <- NoRows
    MaxCommands = 2
    None = None
INVARIANTS PlannedLinksAreMade
CHECK_DEADLOCK FALSE
