SPECIFICATION Spec
CONSTANTS
    Pairs = {A, B}
    A = A
    B = B
    ctxs <- InTurn
    i1 = i1
    t1 = t1
    IssueIds = {i1, i2, i3}
    TaskIds = {t1, t2, t3, t4, t5}
    Linked <- OneLink
    Elsewhere = Elsewhere
    MovesInPlace = {FALSE}
    Overlap = TRUE
    MaxUserOps <- OneMove
    MaxFaults = 0
    None = None
INVARIANTS NeverFalselyCanceled
