SPECIFICATION FairSpec
CONSTANTS
    TeamStates <- Board
    LinearStates <- OnlyTodo
    DelegatedColumns = {"boxed"}
    NoDue = NoDue
    DayShift = 0
    Titles = {t1}
    Bodies = {b1}
    ItemLists = {i1}
    Columns = {"plain"}
    LinearPriorities = {1}
    TTPriorities = {4}
    Dates = {}
    Hooks = {h1}
    Pollers = {p1}
    Fillers = {f1}
    CliProcs = {}
    Instances = {"service"}
    InstanceOf <- MCInstanceOf
    UpdateIds = {d1}
    RemoveId = rm
    UserOps = {"delete_issue", "delete_task", "restore_task"}
    NewPair = FALSE
    MaxEdits = 2
    MaxFaults = 1
    LosesDeliveries = FALSE
    BulkOmits = TRUE
    Prompt = FALSE
    None = None
PROPERTIES DeletionDetected ReturnedTaskIsForgiven
