SPECIFICATION FairSpec
CONSTANTS
    Pairs = {p1, p2}
    Day = 2
    Week = 4
    token_check_interval = 2
    Lifetimes = {0, 3, 8}
    MaxTime = 14
    MaxStarts = 2
    MaxTokens = 2
    MaxMisses = 1
    None = None
INVARIANTS TypeOK WarnedInTime
PROPERTIES PollsResume
CHECK_DEADLOCK FALSE
