SPECIFICATION Spec
CONSTANTS
    TeamStates <- Board
    LinearStates <- TodoFinished
    DelegatedColumns = {"boxed"}
    NoDue = NoDue
    DayShift = 0
    Titles = {t1}
    Bodies = {b1, b2}
    ItemLists = {i1}
    Columns = {"plain"}
    LinearPriorities = {1}
    TTPriorities = {4}
    Dates = {}
    Hooks = {h1}
    Pollers = {p1}
    Fillers = {}
    CliProcs = {}
    Instances = {"service"}
    InstanceOf <- MCInstanceOf
    UpdateIds = {d1, d2}
    RemoveId = rm
    UserOps = {"edit_issue", "edit_task"}
    NewPair = FALSE
    MaxEdits = 2
    MaxFaults = 0
    LosesDeliveries = TRUE
    BulkOmits = FALSE
    Prompt = FALSE
    None = None
INVARIANTS HashMeansInSync
