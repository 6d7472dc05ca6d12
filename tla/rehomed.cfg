SPECIFICATION FairSpec
CONSTANTS
    Pairs = {A, B}
    A = A
    B = B
    ctxs <- InTurn
    i1 = i1
    t1 = t1
    IssueIds = {i1, i2, i3}
    TaskIds = {t1, t2, t3, t4}
    Linked <- OneLink
    Elsewhere = Elsewhere
    MovesInPlace = {TRUE, FALSE}
    Overlap = FALSE
    MaxUserOps <- EachOnce
    MaxFaults = 1
    None = None
INVARIANTS TypeOK TaskSurvives NeverFalselyCanceled DoneStaysDone
PROPERTIES Rehomed
CHECK_DEADLOCK FALSE
