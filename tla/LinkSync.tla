------------------------------ MODULE LinkSync ------------------------------
(***************************************************************************)
(* One linked pair: a Linear issue, the TickTick task it mirrors and the    *)
(* link row between them, worked on by the webhook handlers, the TickTick   *)
(* poll and the Linear backfill while both users go on editing.             *)
(*                                                                          *)
(* Every step between two awaits of the code is one action; a process that  *)
(* waits for an answer keeps in loc what it has read so far.  The bounds    *)
(* are MaxEdits, MaxFaults and the finite set UpdateIds.                    *)
(***************************************************************************)
EXTENDS Mappers, FiniteSets

CONSTANTS
    Titles, Bodies, ItemLists, Columns,
    LinearStates,       \* states a Linear user may choose
    LinearPriorities, TTPriorities, Dates,
    Hooks,              \* webhook requests being handled at one time
    Pollers,            \* poll jobs: the scheduler's, one started by the CLI
    Fillers,            \* the Linear backfill job
    Instances,          \* operating system processes
    InstanceOf,         \* the process each of the above runs in
    UpdateIds, RemoveId,\* delivery ids of create/update and of remove events
    UserOps,            \* what users do in this instance of the model
    NewPair,            \* the pair starts just created, or synced once
    MaxEdits, MaxFaults,
    LosesDeliveries,    \* Linear may give up on a delivery it could not make
    BulkOmits,          \* the first 250 issues may not include this one
    Prompt,             \* calls and deliveries end within the echo window
    None

Procs      == Hooks \cup Pollers \cup Fillers
Deliveries == UpdateIds \cup {RemoveId}

ASSUME ProcsAssumption ==
    /\ Hooks \cap Pollers = {} /\ Hooks \cap Fillers = {} /\ Pollers \cap Fillers = {}
    /\ InstanceOf \in [Procs -> Instances]
    /\ \A g, h \in Hooks : InstanceOf[g] = InstanceOf[h] \* one server
    /\ None \notin Procs
ASSUME DeliveriesAssumption == UpdateIds # {} /\ RemoveId \notin UpdateIds /\ None \notin Deliveries
ASSUME BoundsAssumption ==
    /\ MaxEdits \in Nat /\ MaxFaults \in Nat
    /\ NewPair \in BOOLEAN /\ LosesDeliveries \in BOOLEAN /\ BulkOmits \in BOOLEAN /\ Prompt \in BOOLEAN
ASSUME ContentAssumption ==
    /\ LinearStates \subseteq State
    /\ LinearPriorities \subseteq 0..4
    /\ TTPriorities \subseteq Int
    /\ Dates \subseteq Int

TT_MISS_THRESHOLD == 2
TombstonedLabel   == "tombstoned-from-ticktick"
LabelNames        == {"ticktick-sync", "Delegated", TombstonedLabel}
Dues              == Int \cup {NoDue}

Issues == [ title : Titles, description : [body : Bodies, items : ItemLists],
            state : State, priority : 0..4, due : Dues, labels : SUBSET LabelNames ]
Tasks  == [ title : Titles, content : Bodies, items : ItemLists, status : TTStatuses,
            priority : Int, due : Dues, all_day : BOOLEAN, column : Columns ]
Hashes == [ linear_title : Titles, rendered_description : [body : Bodies, items : ItemLists],
            state_type : StateTypes, priority : 0..4, linear_due_date : Dues,
            tt_title : Titles, tt_content : Bodies, tt_due_date : Dues,
            tt_column_id : Columns, tt_status : TTStatuses, tt_priority : Int,
            tt_items_signature : ItemLists ]
Links  == [ hash : Hashes \cup {None}, echo_l : BOOLEAN, echo_t : BOOLEAN,
            miss : 0..TT_MISS_THRESHOLD, tombstoned : BOOLEAN ]

ASSUME NoneAssumption == None \notin Issues /\ None \notin Tasks /\ None \notin Hashes

VARIABLES
    issue,      \* the issue as Linear stores it
    task,       \* the task as TickTick stores it
    live,       \* which of the two has not been deleted
    link,       \* the link row (hash None: never synced)
    tombstones, \* notes of the rows in table tombstone (never read back)
    seen,       \* webhook deliveries in table event_log
    inbox,      \* deliveries Linear still has to make
    lock,       \* the link's asyncio.Lock in each process: its holder
    loc,        \* where each process is and what it has read
    edits,      \* user operations so far
    faults      \* failures so far

vars == <<issue, task, live, link, tombstones, seen, inbox, lock, loc, edits, faults>>

PCs == { "idle", "find", "get", "sync", "update_issue", "complete", "update_task",
         "commit_l", "commit_t", "bulk", "probe_issue", "reset", "probe_task", "miss",
         "cancel_find", "cancel", "tombstone", "fill_link",
         "remove_get", "remove_write", "remove_commit" }

Locals == [ pc : PCs, iss : Issues \cup {None}, tsk : Tasks \cup {None},
            arg : Deliveries \cup {None}, listed : BOOLEAN ]

Idle == [pc |-> "idle", iss |-> None, tsk |-> None, arg |-> None, listed |-> FALSE]

TypeOK ==
    /\ issue \in Issues
    /\ task \in Tasks
    /\ live \subseteq {"issue", "task"}
    /\ link \in Links
    /\ tombstones \subseteq {"linear_missing", "tt_missing_2x", "linear_remove"}
    /\ seen \subseteq Deliveries
    /\ inbox \subseteq Deliveries
    /\ lock \in [Instances -> Procs \cup {None}]
    /\ loc \in [Procs -> Locals]
    /\ edits \in 0..MaxEdits
    /\ faults \in 0..MaxFaults

----------------------------------------------------------------------------
(* Steps of a process *)

At(p, pc) == loc[p].pc = pc

Goto(p, pc) == loc' = [loc EXCEPT ![p].pc = pc]

\* Once its task was in the list a poll still resets the miss counter.
Rest(p) == IF loc[p].listed THEN [Idle EXCEPT !.pc = "reset"] ELSE Idle
Done(p) == loc' = [loc EXCEPT ![p] = Rest(p)]

\* An external call fails, or answers with an error: bounded by MaxFaults.
Fault == faults < MaxFaults /\ faults' = faults + 1

\* Linear announces a change: a delivery with an id no request still carries.
\* If every id is in use, one of them has not been handled yet and will do.
Unused == {d \in UpdateIds : d \notin inbox /\ \A h \in Hooks : loc[h].arg # d}
Notify ==
    IF Unused = {} THEN UNCHANGED <<inbox, seen>>
    ELSE LET d == CHOOSE u \in Unused : TRUE
         IN  /\ inbox' = inbox \cup {d}
             /\ seen' = seen \ {d}

stores == <<issue, task, live, edits>>

\* find_issue_by_id answers None for a missing issue and for any LinearError.
FindsIssue   == "issue" \in live /\ UNCHANGED faults
AbsentFromBulkIsEnough == UNCHANGED faults \* slip: no direct fetch
FindsNoIssue == IF "issue" \in live THEN Fault ELSE UNCHANGED faults

----------------------------------------------------------------------------
(* The webhook handler *)

\* The idempotency check before anything else.
HookDuplicate(p, d) ==
    /\ At(p, "idle")
    /\ d \in inbox /\ d \in seen
    /\ inbox' = inbox \ {d}
    /\ UNCHANGED <<stores, link, tombstones, seen, lock, loc, faults>>

HookReceive(p, d) ==
    /\ At(p, "idle")
    /\ d \in inbox /\ d \notin seen
    /\ inbox' = inbox \ {d}
    /\ loc' = [loc EXCEPT ![p] = [Idle EXCEPT
                 !.pc = IF d = RemoveId THEN "remove_get" ELSE "find", !.arg = d]]
    /\ UNCHANGED <<stores, link, tombstones, seen, lock, faults>>

HookFind(p) ==
    /\ At(p, "find")
    /\ FindsIssue
    /\ loc' = [loc EXCEPT ![p].iss = issue, ![p].pc = "get"]
    /\ UNCHANGED <<stores, link, tombstones, seen, inbox, lock>>

\* "issue_gone": answered 200 without a trace, so Linear will not retry.
HookSkip(p) ==
    /\ At(p, "find")
    /\ FindsNoIssue
    /\ Done(p)
    /\ UNCHANGED <<stores, link, tombstones, seen, inbox, lock>>

\* get_task, by the webhook and by the backfill; no task: nothing to do.
GetTask(p) ==
    /\ At(p, "get")
    /\ IF "task" \in live
       THEN loc' = [loc EXCEPT ![p].tsk = task, ![p].pc = "sync"]
       ELSE Done(p)
    /\ UNCHANGED <<stores, link, tombstones, seen, inbox, lock, faults>>

----------------------------------------------------------------------------
(* sync_pair: the snapshots it is given were read before it takes the lock. *)

Inbound(p) == IF p \in Pollers THEN TT_TO_LINEAR ELSE LINEAR_TO_TT

Decision(p) == decide(link, canonical_hash(loc[p].iss, loc[p].tsk), Inbound(p))

\* Only webhook deliveries have an id worth logging.
CheckedOnReceiptOnly(p) == FALSE \* slip: no second look at event_log
AlreadyLogged(p) == p \in Hooks /\ loc[p].arg \in seen
LogEvent(p) == seen' = IF p \in Hooks THEN seen \cup {loc[p].arg} ELSE seen

CanLock(p) == At(p, "sync") /\ lock[InstanceOf[p]] = None

SyncDuplicate(p) ==
    /\ CanLock(p)
    /\ AlreadyLogged(p)
    /\ Done(p)
    /\ UNCHANGED <<stores, link, tombstones, seen, inbox, lock, faults>>

SyncNoop(p) ==
    /\ CanLock(p)
    /\ ~AlreadyLogged(p)
    /\ Decision(p) = NOOP
    /\ LogEvent(p)
    /\ Done(p)
    /\ UNCHANGED <<stores, link, tombstones, inbox, lock, faults>>

SyncWrite(p) ==
    /\ CanLock(p)
    /\ ~AlreadyLogged(p)
    /\ Decision(p) # NOOP
    /\ lock' = [lock EXCEPT ![InstanceOf[p]] = p]
    /\ Goto(p, IF Decision(p) = TT_TO_LINEAR THEN "update_issue"
               ELSE IF completes(loc[p].iss, loc[p].tsk) THEN "complete"
               ELSE "update_task")
    /\ UNCHANGED <<stores, link, tombstones, seen, inbox, faults>>

UpdateIssue(p) ==
    /\ At(p, "update_issue")
    /\ "issue" \in live
    /\ issue' = apply_tt_to_linear(issue, loc[p].iss, loc[p].tsk)
    /\ loc' = [loc EXCEPT ![p].iss = issue', ![p].pc = "commit_l"]
    /\ Notify
    /\ UNCHANGED <<task, live, link, tombstones, lock, edits, faults>>

CompleteTask(p) ==
    /\ At(p, "complete")
    /\ "task" \in live
    /\ task' = [task EXCEPT !.status = TT_COMPLETED]
    /\ Goto(p, "update_task")
    /\ UNCHANGED <<issue, live, link, tombstones, seen, inbox, lock, edits, faults>>

\* Slip: the hash is computed over the task as it was before the write.
UpdateTaskKeepingSnapshot(p) ==
    /\ At(p, "update_task")
    /\ "task" \in live
    /\ task' = apply_linear_to_tt(task, loc[p].iss, loc[p].tsk)
    /\ Goto(p, "commit_t")
    /\ UNCHANGED <<issue, live, link, tombstones, seen, inbox, lock, edits, faults>>

UpdateTask(p) ==
    /\ At(p, "update_task")
    /\ "task" \in live
    /\ task' = apply_linear_to_tt(task, loc[p].iss, loc[p].tsk)
    /\ loc' = [loc EXCEPT ![p].tsk = task', ![p].pc = "commit_t"]
    /\ UNCHANGED <<issue, live, link, tombstones, seen, inbox, lock, edits, faults>>

Unlock(p) == lock' = [lock EXCEPT ![InstanceOf[p]] = None]

\* Slip: only the echo window is opened.
MarkEchoOnly(l, new_hash, on_linear) ==
    [l EXCEPT !.echo_l = @ \/ on_linear, !.echo_t = @ \/ ~on_linear]

\* Slip: a write takes the link back into service.
MarkAndRevive(l, new_hash, on_linear) ==
    [l EXCEPT !.hash = new_hash, !.echo_l = @ \/ on_linear, !.echo_t = @ \/ ~on_linear,
              !.tombstoned = FALSE]

mark_synced(l, new_hash, on_linear) ==
    [l EXCEPT !.hash = new_hash, !.echo_l = @ \/ on_linear, !.echo_t = @ \/ ~on_linear]

\* mark_synced, record_event and the commit of the session.
Commit(p) ==
    /\ At(p, "commit_l") \/ At(p, "commit_t")
    /\ link' = mark_synced(link, canonical_hash(loc[p].iss, loc[p].tsk), At(p, "commit_l"))
    /\ LogEvent(p)
    /\ Unlock(p)
    /\ Done(p)
    /\ UNCHANGED <<stores, tombstones, inbox, faults>>

\* The object of a pending write was deleted under it: the write must fail.
TargetGone(p) ==
    \/ (At(p, "update_issue") \/ At(p, "cancel")) /\ "issue" \notin live
    \/ (At(p, "complete") \/ At(p, "update_task") \/ At(p, "remove_write"))
         /\ "task" \notin live

\* A call raises, after the retries of the client, possibly after it took
\* effect.  The session is rolled back, the lock released; a webhook is
\* answered 500 and delivered again, a poll goes on, a backfill gives up.
Raise(p) ==
    /\ loc[p].pc \notin {"idle", "sync", "reset", "miss", "tombstone"}
    /\ IF TargetGone(p) THEN UNCHANGED faults ELSE Fault
    /\ lock' = [i \in Instances |-> IF lock[i] = p THEN None ELSE lock[i]]
    /\ inbox' = IF p \in Hooks THEN inbox \cup {loc[p].arg} ELSE inbox
    /\ Done(p)
    /\ UNCHANGED <<stores, link, tombstones, seen>>

----------------------------------------------------------------------------
(* poll_once *)

\* /project/{id}/data lists open tasks only.
PollList(p) ==
    /\ At(p, "idle")
    /\ loc' = [loc EXCEPT ![p].pc = "bulk", ![p].tsk =
                 IF "task" \in live /\ task.status = TT_OPEN THEN task ELSE None]
    /\ UNCHANGED <<stores, link, tombstones, seen, inbox, lock, faults>>

\* The bulk set of issues.  With the task listed its issue decides what is
\* next; otherwise the link is looked at, if it is still active.
BulkIssue == {IF "issue" \in live THEN issue ELSE None} \cup
             (IF BulkOmits THEN {None} ELSE {})

PollBulk(p) ==
    /\ At(p, "bulk")
    /\ \E i \in BulkIssue :
         \/ /\ loc[p].tsk # None
            /\ loc' = [loc EXCEPT ![p].iss = i, ![p].listed = TRUE,
                         ![p].pc = IF i = None THEN "probe_issue" ELSE "sync"]
         \/ /\ loc[p].tsk = None
            /\ loc' = IF link.tombstoned THEN [loc EXCEPT ![p] = Idle]
                      ELSE [loc EXCEPT ![p].iss = i, ![p].pc = "probe_task"]
    /\ UNCHANGED <<stores, link, tombstones, seen, inbox, lock, faults>>

\* An issue outside the bulk set that still exists is out of the pair's scope.
PollSkip(p) ==
    /\ At(p, "probe_issue")
    /\ FindsIssue
    /\ Done(p)
    /\ UNCHANGED <<stores, link, tombstones, seen, inbox, lock>>

\* A tombstoned link is not active, so no reset follows.
PollIssueMissing(p) ==
    /\ At(p, "probe_issue")
    /\ FindsNoIssue
    /\ tombstones' = tombstones \cup {"linear_missing"}
    /\ link' = [link EXCEPT !.tombstoned = TRUE]
    /\ loc' = [loc EXCEPT ![p] = Idle]
    /\ UNCHANGED <<stores, seen, inbox, lock>>

\* Slip: the counter is left alone.
PollNoReset(p) ==
    /\ At(p, "reset")
    /\ loc' = [loc EXCEPT ![p] = Idle]
    /\ UNCHANGED <<stores, link, tombstones, seen, inbox, lock, faults>>

\* The listed task of an active link: its miss counter starts again.
PollReset(p) ==
    /\ At(p, "reset")
    /\ link' = IF link.tombstoned THEN link ELSE [link EXCEPT !.miss = 0]
    /\ loc' = [loc EXCEPT ![p] = Idle]
    /\ UNCHANGED <<stores, tombstones, seen, inbox, lock, faults>>

\* get_task for a link whose task was not listed: completed and wontDo tasks
\* are hidden but alive.
PollHidden(p) ==
    /\ At(p, "probe_task")
    /\ "task" \in live
    /\ link' = [link EXCEPT !.miss = 0]
    /\ loc' = IF loc[p].iss = None THEN [loc EXCEPT ![p] = Idle]
              ELSE [loc EXCEPT ![p].tsk = task, ![p].pc = "sync"]
    /\ UNCHANGED <<stores, tombstones, seen, inbox, lock, faults>>

\* Slip: not listed means missing, without asking for the task.
PollMissingUnprobed(p) ==
    /\ At(p, "probe_task")
    /\ Goto(p, "miss")
    /\ UNCHANGED <<stores, link, tombstones, seen, inbox, lock, faults>>

PollMissing(p) ==
    /\ At(p, "probe_task")
    /\ "task" \notin live
    /\ Goto(p, "miss")
    /\ UNCHANGED <<stores, link, tombstones, seen, inbox, lock, faults>>

\* Slip: the new count is not committed.
PollMissUnsaved(p) ==
    /\ At(p, "miss")
    /\ loc' = [loc EXCEPT ![p] = IF link.miss + 1 < TT_MISS_THRESHOLD THEN Idle
                                 ELSE [Idle EXCEPT !.pc = "cancel_find"]]
    /\ UNCHANGED <<stores, link, tombstones, seen, inbox, lock, faults>>

\* increment_tt_miss in a session of its own; the counter saturates here.
PollMiss(p) ==
    /\ At(p, "miss")
    /\ LET misses == link.miss + 1
       IN  /\ link' = [link EXCEPT !.miss =
                         IF misses < TT_MISS_THRESHOLD THEN misses ELSE TT_MISS_THRESHOLD]
           /\ loc' = [loc EXCEPT ![p] = IF misses < TT_MISS_THRESHOLD THEN Idle
                                        ELSE [Idle EXCEPT !.pc = "cancel_find"]]
    /\ UNCHANGED <<stores, tombstones, seen, inbox, lock, faults>>

CanceledStates == {i \in DOMAIN TeamStates : TeamStates[i].type = "canceled"}

\* _tombstone_linear_issue: find, then write; it gives up silently without an
\* issue or without a canceled state, and the link is tombstoned all the same.
PollCancelFind(p) ==
    /\ At(p, "cancel_find")
    /\ FindsIssue
    /\ loc' = [loc EXCEPT ![p].iss = issue,
                 ![p].pc = IF CanceledStates = {} THEN "tombstone" ELSE "cancel"]
    /\ UNCHANGED <<stores, link, tombstones, seen, inbox, lock>>

PollCancelSkip(p) ==
    /\ At(p, "cancel_find")
    /\ FindsNoIssue
    /\ Goto(p, "tombstone")
    /\ UNCHANGED <<stores, link, tombstones, seen, inbox, lock>>

PollCancel(p) ==
    /\ At(p, "cancel")
    /\ "issue" \in live
    /\ issue' = [issue EXCEPT !.state  = TeamStates[FirstOf(CanceledStates)],
                              !.labels = loc[p].iss.labels \cup {TombstonedLabel}]
    /\ Goto(p, "tombstone")
    /\ Notify
    /\ UNCHANGED <<task, live, link, tombstones, lock, edits, faults>>

PollTombstone(p) ==
    /\ At(p, "tombstone")
    /\ tombstones' = tombstones \cup {"tt_missing_2x"}
    /\ link' = [link EXCEPT !.tombstoned = TRUE]
    /\ loc' = [loc EXCEPT ![p] = Idle]
    /\ UNCHANGED <<stores, seen, inbox, lock, faults>>

----------------------------------------------------------------------------
(* _linear_backfill *)

FillList(p) ==
    /\ At(p, "idle")
    /\ "issue" \in live
    /\ loc' = [loc EXCEPT ![p].pc = "fill_link", ![p].iss = issue]
    /\ UNCHANGED <<stores, link, tombstones, seen, inbox, lock, faults>>

FillLink(p) ==
    /\ At(p, "fill_link")
    /\ IF link.tombstoned THEN Done(p) ELSE Goto(p, "get")
    /\ UNCHANGED <<stores, link, tombstones, seen, inbox, lock, faults>>

----------------------------------------------------------------------------
(* _handle_remove: one session, and no link lock. *)

RemoveGet(p) ==
    /\ At(p, "remove_get")
    /\ Goto(p, IF "task" \in live THEN "remove_write" ELSE "remove_commit")
    /\ UNCHANGED <<stores, link, tombstones, seen, inbox, lock, faults>>

RemoveWrite(p) ==
    /\ At(p, "remove_write")
    /\ "task" \in live
    /\ task' = [task EXCEPT !.status = TT_WONTDO]
    /\ Goto(p, "remove_commit")
    /\ UNCHANGED <<issue, live, link, tombstones, seen, inbox, lock, edits, faults>>

RemoveCommit(p) ==
    /\ At(p, "remove_commit")
    /\ loc[p].arg \notin seen
    /\ tombstones' = tombstones \cup {"linear_remove"}
    /\ link' = [link EXCEPT !.tombstoned = TRUE]
    /\ LogEvent(p)
    /\ Done(p)
    /\ UNCHANGED <<stores, inbox, lock, faults>>

\* The event row violates uq_event_source_delivery: everything is rolled back
\* and the delivery, answered 500, comes again.
RemoveRejected(p) ==
    /\ At(p, "remove_commit")
    /\ loc[p].arg \in seen
    /\ inbox' = inbox \cup {loc[p].arg}
    /\ Done(p)
    /\ UNCHANGED <<stores, link, tombstones, seen, lock, faults>>

----------------------------------------------------------------------------
(* The users, Linear's delivery of webhooks, time and crashes *)

EditedIssues ==
    ( {[issue EXCEPT !.title = x] : x \in Titles} \cup
      {[issue EXCEPT !.description.body = x] : x \in Bodies} \cup
      {[issue EXCEPT !.description.items = x] : x \in ItemLists} \cup
      {[issue EXCEPT !.state = x] : x \in LinearStates} \cup
      {[issue EXCEPT !.priority = x] : x \in LinearPriorities} \cup
      {[issue EXCEPT !.due = x] : x \in Dates \cup {NoDue}} ) \ {issue}

EditedTasks ==
    ( {[task EXCEPT !.title = x] : x \in Titles} \cup
      {[task EXCEPT !.content = x] : x \in Bodies} \cup
      {[task EXCEPT !.items = x] : x \in ItemLists} \cup
      {[task EXCEPT !.status = x] : x \in TTStatuses} \cup
      {[task EXCEPT !.priority = x] : x \in TTPriorities} \cup
      {[task EXCEPT !.due = x, !.all_day = TRUE] : x \in Dates} \cup
      {[task EXCEPT !.due = x, !.all_day = FALSE] : x \in Dates} \cup
      {[task EXCEPT !.due = NoDue]} \cup
      {[task EXCEPT !.column = x] : x \in Columns} ) \ {task}

UserMay(op) == op \in UserOps /\ edits < MaxEdits /\ edits' = edits + 1

UserEditsIssue ==
    /\ UserMay("edit_issue")
    /\ "issue" \in live
    /\ issue' \in EditedIssues
    /\ Notify
    /\ UNCHANGED <<task, live, link, tombstones, lock, loc, faults>>

UserEditsTask ==
    /\ UserMay("edit_task")
    /\ "task" \in live
    /\ task' \in EditedTasks
    /\ UNCHANGED <<issue, live, link, tombstones, seen, inbox, lock, loc, faults>>

UserDeletesIssue ==
    /\ UserMay("delete_issue")
    /\ "issue" \in live
    /\ live' = live \ {"issue"}
    /\ inbox' = inbox \cup {RemoveId}
    /\ UNCHANGED <<issue, task, link, tombstones, seen, lock, loc, faults>>

UserDeletesTask ==
    /\ UserMay("delete_task")
    /\ "task" \in live
    /\ live' = live \ {"task"}
    /\ UNCHANGED <<issue, task, link, tombstones, seen, inbox, lock, loc, faults>>

UserRestoresTask ==
    /\ UserMay("restore_task")
    /\ "task" \notin live
    /\ live' = live \cup {"task"}
    /\ UNCHANGED <<issue, task, link, tombstones, seen, inbox, lock, loc, faults>>

\* Linear gets no answer in time and delivers again, while the first request
\* is still being handled or after it was recorded.
Redeliver(d) ==
    /\ Fault
    /\ d \notin inbox
    /\ d \in seen \/ \E p \in Hooks : loc[p].arg = d
    /\ inbox' = inbox \cup {d}
    /\ UNCHANGED <<stores, link, tombstones, seen, lock, loc>>

\* The service was unreachable for all of Linear's attempts.
GiveUp(d) ==
    /\ LosesDeliveries
    /\ Fault
    /\ d \in inbox
    /\ inbox' = inbox \ {d}
    /\ UNCHANGED <<stores, link, tombstones, seen, lock, loc>>

Quiet == inbox = {} /\ \A p \in Procs : At(p, "idle")

\* The echo window on one side ends.
EchoEndsL ==
    /\ link.echo_l
    /\ Prompt => Quiet
    /\ link' = [link EXCEPT !.echo_l = FALSE]
    /\ UNCHANGED <<stores, tombstones, seen, inbox, lock, loc, faults>>

EchoEndsT ==
    /\ link.echo_t
    /\ Prompt => Quiet
    /\ link' = [link EXCEPT !.echo_t = FALSE]
    /\ UNCHANGED <<stores, tombstones, seen, inbox, lock, loc, faults>>

\* A process dies: what it had not committed is gone, and Linear delivers
\* again what it got no answer for.
Crash(i) ==
    /\ Fault
    /\ \E p \in Procs : InstanceOf[p] = i /\ ~At(p, "idle")
    /\ loc' = [p \in Procs |-> IF InstanceOf[p] = i THEN Idle ELSE loc[p]]
    /\ lock' = [lock EXCEPT ![i] = None]
    /\ inbox' = inbox \cup {loc[p].arg : p \in {h \in Hooks : InstanceOf[h] = i /\ ~At(h, "idle")}}
    /\ UNCHANGED <<stores, link, tombstones, seen>>

----------------------------------------------------------------------------

\* A pair the poll has just created, its create webhook still on the way; or
\* the same pair after a first sync.
NewTasks == [ title : Titles, content : Bodies, items : ItemLists, status : {TT_OPEN},
              priority : TTPriorities, due : Dates \cup {NoDue}, all_day : BOOLEAN,
              column : Columns ]

Init ==
    /\ task \in {t \in NewTasks : t.due = NoDue => t.all_day}
    /\ issue = linear_issue_for(task)
    /\ live = {"issue", "task"}
    /\ link = [ hash |-> IF NewPair THEN None ELSE canonical_hash(issue, task),
                echo_l |-> FALSE, echo_t |-> FALSE, miss |-> 0, tombstoned |-> FALSE ]
    /\ tombstones = {}
    /\ seen = {}
    /\ inbox = IF NewPair THEN {CHOOSE d \in UpdateIds : TRUE} ELSE {}
    /\ lock = [i \in Instances |-> None]
    /\ loc = [p \in Procs |-> Idle]
    /\ edits = 0
    /\ faults = 0

HookStep(p) ==
    \/ HookFind(p) \/ HookSkip(p)
    \/ RemoveGet(p) \/ RemoveWrite(p) \/ RemoveCommit(p) \/ RemoveRejected(p)

PollStep(p) ==
    \/ PollBulk(p) \/ PollSkip(p) \/ PollIssueMissing(p) \/ PollReset(p)
    \/ PollHidden(p) \/ PollMissing(p) \/ PollMiss(p)
    \/ PollCancelFind(p) \/ PollCancelSkip(p) \/ PollCancel(p) \/ PollTombstone(p)

SyncStart(p) == SyncDuplicate(p) \/ SyncNoop(p) \/ SyncWrite(p)

WriteStep(p) == UpdateIssue(p) \/ CompleteTask(p) \/ UpdateTask(p) \/ Commit(p)

Receive(p) == \E d \in Deliveries : HookDuplicate(p, d) \/ HookReceive(p, d)

UserStep ==
    \/ UserEditsIssue \/ UserEditsTask
    \/ UserDeletesIssue \/ UserDeletesTask \/ UserRestoresTask

Next ==
    \/ \E p \in Hooks : Receive(p) \/ HookStep(p)
    \/ \E p \in Pollers : PollList(p) \/ PollStep(p)
    \/ \E p \in Fillers : FillList(p) \/ FillLink(p)
    \/ \E p \in Procs : GetTask(p) \/ SyncStart(p) \/ WriteStep(p) \/ Raise(p)
    \/ UserStep
    \/ \E d \in Deliveries : Redeliver(d) \/ GiveUp(d)
    \/ EchoEndsL \/ EchoEndsT
    \/ \E i \in Instances : Crash(i)

Spec == Init /\ [][Next]_vars

\* Handlers and jobs keep running, asyncio.Lock serves its waiters in turn,
\* the scheduler starts every job again and the echo windows pass.
Fairness ==
    /\ \A p \in Hooks   : WF_vars(Receive(p)) /\ WF_vars(HookStep(p))
    /\ \A p \in Pollers : WF_vars(PollList(p)) /\ WF_vars(PollStep(p))
    /\ \A p \in Fillers : WF_vars(FillList(p)) /\ WF_vars(FillLink(p))
    /\ \A p \in Procs   : /\ WF_vars(GetTask(p)) /\ SF_vars(SyncStart(p))
                          /\ WF_vars(WriteStep(p))
                          /\ WF_vars(TargetGone(p) /\ Raise(p))
    /\ SF_vars(EchoEndsL) /\ SF_vars(EchoEndsT)

FairSpec == Spec /\ Fairness

----------------------------------------------------------------------------
(* Safety *)

\* A recorded hash is one of a pair whose titles are equal and whose
\* priorities correspond, whatever the users did while it was being computed
\* (compute_hash is taken over the answer to the write and a snapshot read
\* before the lock).
HashedPairAgrees ==
    link.hash # None =>
        /\ link.hash.linear_title = link.hash.tt_title
        /\ linear_priority_to_tt(link.hash.priority) = clamp_tt_priority(link.hash.tt_priority)

\* A webhook delivery that is in event_log is not written to TickTick a second
\* time, however often it is delivered and to however many handlers at once.
OnceOnly ==
    \A p \in Hooks :
        loc[p].pc \in {"complete", "update_task", "commit_t"} => loc[p].arg \notin seen

\* The poll never takes a task that is alive for a missing one, hidden though
\* completed tasks are, nor marks an issue whose task is alive.
MissingTaskIsGone ==
    "tt_missing_2x" \in tombstones \/ TombstonedLabel \in issue.labels => "task" \notin live

\* A link is tombstoned for good reason, unless some call has failed: an issue
\* outside the bulk set is not taken for a deleted one.
TombstonedPairIsBroken == link.tombstoned => live # {"issue", "task"} \/ faults > 0

\* The pair lives as PairLife says, if deleted tasks stay deleted: it is given
\* up for the reasons noted, and for good, and marked only once its task is gone.
Life == INSTANCE PairLife WITH
    halves  <- live,
    reasons <- tombstones,
    broken  <- link.tombstoned,
    marked  <- TombstonedLabel \in issue.labels,
    failed  <- faults > 0
ImplementsPairLife == Life!Spec

\* A task only its TickTick user edits is never changed by the service: the
\* webhooks about the service's own writes to Linear are not carried back.
OnlyUserChangesTask == [][edits' = edits => task' = task]_vars

\* The same for an issue that only its Linear user edits.
OnlyUserChangesIssue == [][edits' = edits => issue' = issue]_vars

\* A recorded hash means the pair is in sync: status and content agree too.
HashMeansInSync ==
    link.hash # None =>
        /\ linear_state_to_tt_status(link.hash.state_type) = link.hash.tt_status
        /\ link.hash.rendered_description.body = link.hash.tt_content

----------------------------------------------------------------------------
(* Liveness, of FairSpec *)

\* When the users stop, the pair comes to rest, its hash recorded.
Settles == <>[](link.hash = canonical_hash(issue, task))

\* Whichever half of the pair is deleted for good, the link is tombstoned.
DeletionDetected == <>[](live # {"issue", "task"}) => <>link.tombstoned

\* A task that is back for good starts from a clean counter, unless its link
\* was tombstoned before: only consecutive misses count.
ReturnedTaskIsForgiven ==
    <>[]("task" \in live) => <>[](link.miss = 0 \/ link.tombstoned)

=============================================================================
