SPECIFICATION Spec
CONSTANTS
    TeamStates <- Board
    LinearStates <- TodoFinished
    DelegatedColumns = {"boxed"}
    NoDue = NoDue
    DayShift = 0
    Titles = {t1, t2}
    Bodies = {b1, b2}
    ItemLists = {i1}
    Columns = {"plain", "boxed"}
    LinearPriorities = {1}
    TTPriorities = {4}
    Dates = {1}
    Hooks = {h1, h2}
    Pollers = {p1}
    Fillers = {}
    CliProcs = {}
    Instances = {"service"}
    InstanceOf <- MCInstanceOf
    UpdateIds = {d1, d2}
    RemoveId = rm
    UserOps = {"edit_task"}
    NewPair = FALSE
    MaxEdits = 3
    MaxFaults = 0
    LosesDeliveries = TRUE
    BulkOmits = FALSE
    Prompt = TRUE
    None = None
PROPERTIES OnlyUserChangesTask
