SPECIFICATION Spec
CONSTANTS
    TeamStates <- Board
    LinearStates <- OnlyTodo
    DelegatedColumns = {"boxed"}
    NoDue = NoDue
    DayShift = 0
    Titles = {t1, t2}
    Bodies = {b1}
    ItemLists = {i1}
    Columns = {"plain"}
    LinearPriorities = {1}
    TTPriorities = {4}
    Dates = {}
    Hooks = {h1}
    Pollers = {p1}
    Fillers = {}
    CliProcs = {}
    Instances = {"service"}
    InstanceOf <- MCInstanceOf
    UpdateIds = {d1, d2}
    RemoveId = rm
    UserOps = {"edit_issue"}
    NewPair = FALSE
    MaxEdits = 1
    MaxFaults = 0
    LosesDeliveries = TRUE
    BulkOmits = FALSE
    Prompt = TRUE
    None = None
PROPERTIES OnlyUserChangesIssue
