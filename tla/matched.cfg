SPECIFICATION SpecReconcile
CONSTANTS
    i1 = i1
    i2 = i2
    i3 = i3
    i4 = i4
    t1 = t1
    t2 = t2
    t3 = t3
    Milk = Milk
    MilkSoon = MilkSoon
    Quoted = Quoted
    IssueIds = {i1, i2, i3, i4}
    TaskIds = {t1, t2, t3}
    IssueOrder <- Issues4
    TaskOrder <- Tasks3
    IssuesAtStart = {i1, i2}
    TasksAtStart = {t1, t2}
    Names = {Milk, MilkSoon, Quoted}
    Score <- Scores
    Due <- Dues
    QuoteFirst = {Quoted}
    QuoteInside = {}
    match_threshold = 85
    match_due_window_days = 3
    limit = 3
    Hooks = {}
    Pollers = {}
    Fillers = {}
    MaxUserOps = 1
    MaxFaults = 1
    RowsAtStart <- RowsOrNone
    MaxCommands = 4
    None = None
INVARIANTS TypeOKReconcile RowsAreMeant PlanIsStable FirstMatchIsMade CanceledIsOrphan
CHECK_DEADLOCK FALSE
