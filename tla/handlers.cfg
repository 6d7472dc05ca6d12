SPECIFICATION Spec
CONSTANTS
    TeamStates <- Board
    LinearStates <- TodoFinished
    DelegatedColumns = {"boxed"}
    NoDue = NoDue
    DayShift = 0
    Titles = {t1, t2}
    Bodies = {b1}
    ItemLists = {i1}
    Columns = {"plain"}
    LinearPriorities = {1}
    TTPriorities = {5}
    Dates = {}
    Hooks = {h1, h2}
    Pollers = {p1}
    Fillers = {}
    CliProcs = {p1}
    Instances = {"service", "cli"}
    InstanceOf <- MCInstanceOf
    UpdateIds = {d1}
    RemoveId = rm
    UserOps = {"edit_issue", "edit_task", "delete_issue", "delete_task"}
    NewPair = TRUE
    MaxEdits = 2
    MaxFaults = 1
    LosesDeliveries = TRUE
    BulkOmits = TRUE
    Prompt = FALSE
    None = None
INVARIANTS TypeOK OnceOnly HashedPairAgrees MissingTaskIsGone TombstonedPairIsBroken
SYMMETRY Symmetry
PROPERTIES ImplementsPairLife
