SPECIFICATION FairSpec
CONSTANTS
    i1 = i1
    i2 = i2
    IssueIds = {i1, i2}
    IssueOrder <- Issues2
    limit = 1
    TaskIds = {t1, t2}
    Hooks = {h1}
    Pollers = {p1}
    Fillers = {f1}
    MaxUserOps = 2
    MaxFaults = 1
    None = None
INVARIANTS TypeOK RowsJoinTwins
PROPERTIES IssuesLinked ListedIssuesLinked TasksLinked
CHECK_DEADLOCK FALSE
