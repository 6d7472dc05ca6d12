----------------------------- MODULE Reconcile -----------------------------
(***************************************************************************)
(* The first matching: `match dry-run` plans which tasks and issues belong   *)
(* together, `match confirm` reads the plan back and applies it row by row   *)
(* (__main__.py, sync/reconcile.py).  The service of LinkTable, which shares *)
(* nothing but the link table with the command line, and the users go on    *)
(* meanwhile.  Every call is a step of its own; MaxCommands bounds how often *)
(* the command line is used.                                                *)
(***************************************************************************)
EXTENDS LinkTable, SequencesExt

CONSTANTS
    Names, Score, Due, QuoteFirst, QuoteInside, match_threshold, match_due_window_days,
    TaskOrder,              \* the order in which TickTick lists tasks
    IssuesAtStart, TasksAtStart,
    RowsAtStart,            \* what the link table may hold at the start
    MaxCommands

Plans == INSTANCE MatchPlan

ASSUME NamesAssumption ==
    /\ Score \in [Names \X Names -> 0..100] /\ Due \in [Names -> Nat \cup {None}]
    /\ match_threshold \in 50..100 /\ match_due_window_days \in 0..30
    /\ QuoteFirst \subseteq Names /\ QuoteInside \subseteq Names \ QuoteFirst

ASSUME ListsAssumption ==
    /\ TaskOrder \in Seq(TaskIds) /\ Range(TaskOrder) = TaskIds /\ IsInjective(TaskOrder)
    /\ IssuesAtStart \subseteq IssueIds /\ TasksAtStart \subseteq TaskIds
    /\ \A R \in RowsAtStart : R \subseteq IssuesAtStart \X TasksAtStart /\ Unique(R)
    /\ MaxCommands \in Nat

VARIABLES
    name,      \* of every item
    labelled,  \* issues with the sync label
    canceled,  \* issues the command line has canceled
    plan,      \* the last dry run's rows
    file,      \* and its file
    fresh,     \* the link table was empty when the plan was made
    meant,     \* the pairs that a confirmed plan links or a creation made
    misread,   \* a title of a confirmed file began with a lone quote
    cli, commands

matching == <<name, labelled, canceled, plan, file, fresh, meant, misread, cli, commands>>
allvars  == <<vars, matching>>

CliPCs == {"idle", "tasks", "planned", "confirm", "rows", "upsert", "applied"}

CliIdle == [pc |-> "idle", issues |-> <<>>, tasks |-> <<>>, labels |-> {},
            tasks_by_id |-> {}, todo |-> <<>>, new |-> None]

CliAt(pc) == cli.pc = pc

list_team_issues == Plans!Kept(IssueOrder, listed)

list_tasks == Plans!Kept(TaskOrder, tasks)

\* A command starts.
Command(pc) ==
    /\ cli.pc \in {"idle", "planned", "applied"}
    /\ commands < MaxCommands
    /\ commands' = commands + 1
    /\ cli' = [CliIdle EXCEPT !.pc = pc, !.issues = list_team_issues, !.labels = labelled]

----------------------------------------------------------------------------
(* match dry-run: the issues, the tasks, the plan *)

DryRun ==
    /\ Command("tasks")
    /\ UNCHANGED <<vars, name, labelled, canceled, plan, file, fresh, meant, misread>>

WritePlan ==
    /\ CliAt("tasks")
    /\ plan' = Plans!build_match_plan(name, list_tasks, cli.issues, cli.labels)
    /\ file' = Plans!write_plan_tsv(name, plan')
    /\ fresh' = (rows = {})
    /\ cli' = [cli EXCEPT !.pc = "planned", !.tasks = list_tasks]
    /\ UNCHANGED <<vars, name, labelled, canceled, meant, misread, commands>>

----------------------------------------------------------------------------
(* match confirm: the file, the issues, the tasks, then every row *)

Misquoted == \E line \in Range(file) : \E k \in DOMAIN line : line[k] \in QuoteFirst

PlannedLinks == {<<r.ident, r.ttid>> : r \in {row \in Range(plan) : row.action = "link"}}

\* A file that cannot be read ends the command.  Who confirms means the plan,
\* whatever is read.
Confirm ==
    /\ file # <<>>
    /\ Plans!Readable(file)
    /\ Command("confirm")
    /\ meant' = meant \cup PlannedLinks
    /\ misread' = (misread \/ Misquoted)
    /\ UNCHANGED <<vars, name, labelled, canceled, plan, file, fresh>>

ConfirmTasks ==
    /\ CliAt("confirm")
    /\ cli' = [cli EXCEPT !.pc = "rows", !.tasks_by_id = tasks,
                         !.todo = Plans!read_plan_tsv(file)]
    /\ UNCHANGED <<vars, name, labelled, canceled, plan, file, fresh, meant, misread, commands>>

Row == Head(cli.todo)

\* The row is done, or has raised, which is only counted.
NextRow == cli' = [cli EXCEPT !.pc = "rows", !.todo = Tail(@), !.new = None]

\* An action to be taken, on items found in the lists.
Does(action) ==
    /\ CliAt("rows") /\ cli.todo # <<>>
    /\ Row.action = action
    /\ action # "create_linear" => Row.ident \in Range(cli.issues)
    /\ action # "tombstone_linear" => Row.ttid \in cli.tasks_by_id

SkipRow ==
    /\ CliAt("rows") /\ cli.todo # <<>>
    /\ \A action \in {"link", "create_linear", "tombstone_linear"} : ~Does(action)
    /\ NextRow
    /\ UNCHANGED <<vars, name, labelled, canceled, plan, file, fresh, meant, misread, commands>>

\* Slip: the issue is looked up by its title.
LinkByTitle ==
    /\ Does("link")
    /\ Row.ident \in issues
    /\ \E i \in Range(cli.issues) \cap issues :
         /\ name[i] = name[Row.ident]
         /\ labelled' = labelled \cup {i}
         /\ inbox' = inbox \cup {i}
         /\ twins' = twins \cup {<<i, Row.ttid>>}
         /\ cli' = [cli EXCEPT !.pc = "upsert", !.new = i]
    /\ UNCHANGED <<issues, tasks, used, rows, loc, userops, faults,
                   name, canceled, plan, file, fresh, meant, misread, commands>>

\* _link_existing: update_issue with the label, which Linear announces.  What
\* the row says is joined, so the service may take the two for twins from now
\* on; whether anybody meant it is not known here.
LinkExisting ==
    /\ Does("link")
    /\ Row.ident \in issues
    /\ labelled' = labelled \cup {Row.ident}
    /\ inbox' = inbox \cup {Row.ident}
    /\ twins' = twins \cup {<<Row.ident, Row.ttid>>}
    /\ cli' = [cli EXCEPT !.pc = "upsert", !.new = Row.ident]
    /\ UNCHANGED <<issues, tasks, used, rows, loc, userops, faults,
                   name, canceled, plan, file, fresh, meant, misread, commands>>

\* _create_linear: like CreateIssue, and sent again like it.
CreateLinear ==
    /\ Does("create_linear")
    /\ \E i \in IssueIds \ used :
         /\ used' = used \cup {i}
         /\ issues' = issues \cup {i}
         /\ twins' = twins \cup {<<i, Row.ttid>>}
         /\ meant' = meant \cup {<<i, Row.ttid>>}
         /\ inbox' = inbox \cup {i}
         /\ labelled' = labelled \cup {i}
         /\ name' = [name EXCEPT ![i] = name[Row.ttid]]
         /\ \/ cli' = [cli EXCEPT !.pc = "upsert", !.new = i] /\ UNCHANGED faults
            \/ Fault /\ UNCHANGED cli
    /\ UNCHANGED <<tasks, rows, loc, userops, canceled, plan, file, fresh, misread, commands>>

\* upsert_link; find_issue_by_id before it changes nothing.
Upsert ==
    /\ CliAt("upsert")
    /\ Unique(upsert_link(cli.new, Row.ttid))
    /\ rows' = upsert_link(cli.new, Row.ttid)
    /\ NextRow
    /\ UNCHANGED <<stores, inbox, loc, userops, faults,
                   name, labelled, canceled, plan, file, fresh, meant, misread, commands>>

\* _tombstone_linear; what it adds to table tombstone is never read.
TombstoneLinear ==
    /\ Does("tombstone_linear")
    /\ Row.ident \in issues
    /\ canceled' = canceled \cup {Row.ident}
    /\ inbox' = inbox \cup {Row.ident}
    /\ NextRow
    /\ UNCHANGED <<stores, rows, loc, userops, faults,
                   name, labelled, plan, file, fresh, meant, misread, commands>>

\* A call fails, the issue is gone, or a unique constraint rejects the row.
RaiseRow ==
    /\ \/ (\E action \in {"link", "create_linear", "tombstone_linear"} : Does(action)) /\ Fault
       \/ CliAt("upsert") /\ Fault
       \/ /\ Does("link") \/ Does("tombstone_linear")
          /\ Row.ident \notin issues
          /\ UNCHANGED faults
       \/ CliAt("upsert") /\ ~Unique(upsert_link(cli.new, Row.ttid)) /\ UNCHANGED faults
    /\ NextRow
    /\ UNCHANGED <<stores, rows, inbox, loc, userops,
                   name, labelled, canceled, plan, file, fresh, meant, misread, commands>>

ConfirmEnds ==
    /\ CliAt("rows") /\ cli.todo = <<>>
    /\ cli' = [cli EXCEPT !.pc = "applied"]
    /\ UNCHANGED <<vars, name, labelled, canceled, plan, file, fresh, meant, misread, commands>>

\* The command is cut off, or a call of it fails that no row is about.
CommandDies ==
    /\ cli.pc \in {"tasks", "confirm", "rows", "upsert"}
    /\ Fault
    /\ cli' = CliIdle
    /\ UNCHANGED <<stores, rows, inbox, loc, userops,
                   name, labelled, canceled, plan, file, fresh, meant, misread, commands>>

----------------------------------------------------------------------------
(* The service and the users *)

\* What is created to mirror an item has its name, what a user creates any.
\* The service labels an issue before it stores the row.
Service ==
    /\ Next
    /\ LET new == used' \ used
           mirrors(x, y) == <<x, y>> \in twins' \/ <<y, x>> \in twins'
       IN  \E n \in IF new = {} THEN {None} ELSE Names :
             name' = [x \in DOMAIN name |->
                        IF x \notin new THEN name[x]
                        ELSE IF \E y \in used : mirrors(x, y)
                             THEN name[CHOOSE y \in used : mirrors(x, y)] ELSE n]
    /\ labelled' = labelled \cup {i \in issues' \ issues : \E t \in tasks : <<i, t>> \in twins'}
                            \cup {loc'[p].iss : p \in {q \in Procs : loc'[q].pc = "link"}}
    /\ meant' = meant \cup (twins' \ twins)
    /\ UNCHANGED <<canceled, plan, file, fresh, misread, cli, commands>>

InitReconcile ==
    /\ issues = IssuesAtStart /\ tasks = TasksAtStart
    /\ used = IssuesAtStart \cup TasksAtStart
    /\ rows \in RowsAtStart /\ twins = rows /\ inbox = {}
    /\ loc = [p \in Procs |-> Idle]
    /\ userops = 0 /\ faults = 0
    /\ name \in [IssueIds \cup TaskIds -> Names]
    /\ \A x \in (IssueIds \cup TaskIds) \ used : name[x] = CHOOSE n \in Names : TRUE
    /\ labelled \in SUBSET IssuesAtStart /\ \A r \in rows : r[1] \in labelled
    /\ canceled = {}
    /\ plan = <<>> /\ file = <<>> /\ fresh = FALSE
    /\ meant = rows /\ misread = FALSE
    /\ cli = CliIdle
    /\ commands = 0

CommandLine ==
    \/ DryRun \/ WritePlan \/ Confirm \/ ConfirmTasks
    \/ SkipRow \/ LinkExisting \/ CreateLinear \/ Upsert \/ TombstoneLinear
    \/ RaiseRow \/ ConfirmEnds \/ CommandDies

SpecReconcile == InitReconcile /\ [][CommandLine \/ Service]_allvars

----------------------------------------------------------------------------

TypeOKReconcile ==
    /\ TypeOK
    /\ name \in [IssueIds \cup TaskIds -> Names]
    /\ labelled \cup canceled \subseteq IssueIds
    /\ \A k \in DOMAIN plan :
         plan[k] \in [ ttid : TaskIds \cup {None}, ident : IssueIds \cup {None},
                       action : {"link", "create_linear", "tombstone_linear"} ]
    /\ Len(file) = Len(plan)
    /\ fresh \in BOOLEAN /\ misread \in BOOLEAN
    /\ meant \subseteq IssueIds \X TaskIds
    /\ cli.pc \in CliPCs /\ Range(cli.issues) \subseteq IssueIds /\ Range(cli.tasks) \subseteq TaskIds
    /\ cli.tasks_by_id \subseteq TaskIds
    /\ cli.new \in IssueIds \cup {None}
    /\ commands \in 0..MaxCommands

\* "For matched pairs: write Link" (sync/reconcile.py): the table joins only
\* what was created or, in a plan somebody confirmed, matched for each other.
RowsAreMatched == rows \subseteq meant

\* The table is a matching of such pairs, however the command line and the
\* service get in each other's way, but for what may come of a file with a title
\* that begins with a lone quote: two rows may be read back as one, of the first
\* one's task and the second one's issue.
RowsAreMeant == Unique(rows) /\ (misread \/ RowsAreMatched)

Has(t, i, action) == \E r \in Range(plan) : r.ttid = t /\ r.ident = i /\ r.action = action

\* Issue i suits task t better than j does.
Suits(t, i, j) ==
    \/ Score[name[t], name[i]] > Score[name[t], name[j]]
    \/ Score[name[t], name[i]] = Score[name[t], name[j]] /\ Before(i, j, cli.issues)

\* "best candidates above threshold", each used once (sync/reconcile.py): the
\* plan is stable.  If a task goes without a fitting issue, it has a better
\* one, or an earlier task has that issue; the rest of the tasks get new
\* issues, the rest of the labelled issues are tombstoned, each once.
PlanIsStable ==
    CliAt("planned") =>
        LET T == Range(cli.tasks)
            I == Range(cli.issues)
            Fits(t, i) == Plans!Fits(name[t], name[i])
        IN  /\ \A t \in T, i \in I :
                 IF Has(t, i, "link") THEN Fits(t, i)
                 ELSE Fits(t, i) =>
                        \/ \E j \in I : Has(t, j, "link") /\ Suits(t, j, i)
                        \/ \E s \in T : Has(s, i, "link") /\ Before(s, t, cli.tasks)
            /\ \A t \in T : Has(t, None, "create_linear") <=> \A i \in I : ~Has(t, i, "link")
            /\ \A i \in I : Has(None, i, "tombstone_linear")
                              <=> i \in cli.labels /\ \A t \in T : ~Has(t, i, "link")
            /\ \A r, s \in DOMAIN plan :
                 /\ plan[r].ttid = plan[s].ttid => r = s \/ plan[r].ttid = None
                 /\ plan[r].ident = plan[s].ident => r = s \/ plan[r].ident = None

\* "link existing pairs" (__main__.py): unless a call failed, what the plan
\* links is in the link table when confirm is done, if confirm's own lists hold
\* it (they are as short as the dry run's) and it still exists.
PlannedLinksAreMade ==
    CliAt("applied") /\ faults = 0 =>
        \A r \in Range(plan) :
            r.action = "link" /\ r.ttid \in tasks /\ r.ident \in issues \cap Range(cli.issues) =>
                <<r.ident, r.ttid>> \in rows

\* A first matching does all it planned: besides the links it makes an issue
\* for every other task.  Not so if a title begins with a lone quote.
FirstMatchIsMade ==
    fresh /\ ~Misquoted =>
        /\ PlannedLinksAreMade
        /\ CliAt("applied") /\ faults = 0 =>
             \A r \in Range(plan) : r.action = "create_linear" /\ r.ttid \in tasks =>
                 \E i \in IssueIds : <<i, r.ttid>> \in rows

\* "Linear-only issues already labelled ... but unmatched: tombstone"
\* (sync/reconcile.py): no issue that a first matching is to cancel, now or when
\* confirm is run again after a failure, has a row in the table.
CanceledIsOrphan ==
    fresh /\ ~Misquoted =>
        \A r \in rows : ~Has(None, r[1], "tombstone_linear")
=============================================================================
