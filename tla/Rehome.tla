------------------------------- MODULE Rehome -------------------------------
(***************************************************************************)
(* An issue is moved to another configured team, and the polls of the pairs  *)
(* bring its task to that pair's list: in place if TickTick lets them, else  *)
(* by a copy and the deletion of the old task, and in the end in the link    *)
(* table.  There is one poll job per pair; every call is a step of its own.  *)
(*                                                                          *)
(* What a poll does about contents, and about issues and tasks the users     *)
(* delete, is the subject of LinkSync: sync_pair leaves teams, lists and     *)
(* rows alone.  The webhook and the backfill look for a task in the list of  *)
(* the issue's present team only, so they too leave a moved one alone.       *)
(* MaxUserOps and MaxFaults bound what users do and what fails.              *)
(***************************************************************************)
EXTENDS Integers, Sequences

CONSTANTS
    Pairs,              \* the configured pairs: a team and its list
    IssueIds, TaskIds,
    Linked,             \* the rows at the start, as <<linear_id, ttid>>
    Elsewhere,          \* any team that is not configured
    MovesInPlace,       \* what TickTick may do with a new projectId: TRUE, obey
    Overlap,            \* polls of two pairs may run at the same time
    ctxs,               \* else the order in which they are polled, again and again
    MaxUserOps,         \* how often users may do what
    MaxFaults, None

ASSUME IdsAssumption ==
    /\ Linked \subseteq IssueIds \X TaskIds
    /\ \A k, l \in Linked : k[1] = l[1] \/ k[2] = l[2] => k = l
    /\ Elsewhere \notin Pairs
    /\ ctxs \in Seq(Pairs)
    /\ \A p \in Pairs : \E k \in DOMAIN ctxs : ctxs[k] = p
    /\ \A k, l \in DOMAIN ctxs : ctxs[k] = ctxs[l] => k = l
    /\ None \notin IssueIds \cup TaskIds \cup Pairs \cup {Elsewhere}
UserOps == {"move_issue", "move_task", "end_task"}

ASSUME BoundsAssumption ==
    /\ MaxUserOps \in [UserOps -> Nat] /\ MaxFaults \in Nat
    /\ MovesInPlace \subseteq BOOLEAN /\ Overlap \in BOOLEAN

TT_MISS_THRESHOLD == 2
TT_OPEN      == 0
TT_COMPLETED == 2
TT_WONTDO    == -1
Statuses     == {TT_OPEN, TT_COMPLETED, TT_WONTDO}

VARIABLES
    team,    \* of every issue (None: not created)
    list,    \* of every task (None: not created, or deleted)
    status,  \* of every task
    origin,  \* the task every task is a copy of, itself if of none (None: unused id)
    rows,    \* table link
    marked,  \* issues the poll has marked canceled
    loc,     \* where the poll of each pair is and what it has read
    turn,    \* the place in ctxs to be polled next, if polls do not overlap
    userops, faults

vars   == <<team, list, status, origin, rows, marked, loc, turn, userops, faults>>
stores == <<team, list, status, origin>>

Rows == [ linear : IssueIds, ttid : TaskIds, list : Pairs,
          miss : 0..TT_MISS_THRESHOLD, tombstoned : BOOLEAN ]

PCs == { "idle", "bulk", "tasks", "create", "upsert", "probe", "links", "get", "hidden",
         "gone", "miss", "cancel", "tombstone",
         "move", "check", "copy", "recomplete", "delete", "relocate" }

Locals == [ pc : PCs, seen : SUBSET TaskIds, bulk : SUBSET IssueIds,
            todo : SUBSET TaskIds, links : SUBSET (IssueIds \X TaskIds), listed : BOOLEAN,
            iss : IssueIds \cup {None}, tsk : TaskIds \cup {None}, stat : Statuses,
            to : Pairs \cup {None}, new : TaskIds \cup {None} ]

Idle == [ pc |-> "idle", seen |-> {}, bulk |-> {}, todo |-> {}, links |-> {}, listed |-> TRUE,
          iss |-> None, tsk |-> None, stat |-> TT_OPEN, to |-> None, new |-> None ]

TypeOK ==
    /\ team \in [IssueIds -> Pairs \cup {Elsewhere, None}]
    /\ list \in [TaskIds -> Pairs \cup {None}]
    /\ status \in [TaskIds -> Statuses]
    /\ origin \in [TaskIds -> TaskIds \cup {None}]
    /\ rows \subseteq Rows
    /\ marked \subseteq IssueIds
    /\ loc \in [Pairs -> Locals]
    /\ turn \in DOMAIN ctxs
    /\ userops \in [UserOps -> Nat]
    /\ faults \in 0..MaxFaults

Live       == {t \in TaskIds : list[t] # None}
At(p, pc)  == loc[p].pc = pc
Goto(p, pc) == loc' = [loc EXCEPT ![p].pc = pc]

\* A call raises: the poll goes on with the next task or link, as it does
\* when it is done with one.
NextItem(p) == [loc[p] EXCEPT !.pc = IF loc[p].listed THEN "tasks" ELSE "links",
                  !.iss = None, !.tsk = None, !.stat = TT_OPEN, !.to = None, !.new = None]
Done(p) == loc' = [loc EXCEPT ![p] = NextItem(p)]

Fault == faults < MaxFaults /\ faults' = faults + 1

RowOfTask(t)  == {r \in rows : r.ttid = t}
RowOfIssue(i) == {r \in rows : r.linear = i}

----------------------------------------------------------------------------
(* poll_once: the list, the bulk set, every task listed *)

\* for ctx in ctxs: poll_once(ctx, ctxs)
Following(k) == IF k = Len(ctxs) THEN 1 ELSE k + 1

\* The scheduler starts the pairs' jobs ten seconds apart, the command line
\* runs them in turn.
PollList(p) ==
    /\ At(p, "idle")
    /\ ~Overlap => p = ctxs[turn] /\ \A q \in Pairs : At(q, "idle")
    /\ turn' = IF Overlap THEN turn ELSE Following(turn)
    /\ LET open == {t \in Live : list[t] = p /\ status[t] = TT_OPEN}
       IN  loc' = [loc EXCEPT ![p].pc = "bulk", ![p].seen = open, ![p].todo = open]
    /\ UNCHANGED <<stores, rows, marked, userops, faults>>

PollBulk(p) ==
    /\ At(p, "bulk")
    /\ loc' = [loc EXCEPT ![p].pc = "tasks", ![p].bulk = {i \in IssueIds : team[i] = p}]
    /\ UNCHANGED <<stores, rows, marked, turn, userops, faults>>

\* _process_tt_task: no row, an issue of the pair, or one to be looked for.
PollTask(p, t) ==
    /\ At(p, "tasks")
    /\ t \in loc[p].todo
    /\ LET l == [loc[p] EXCEPT !.todo = @ \ {t}]
       IN  \/ /\ RowOfTask(t) = {}
              /\ loc' = [loc EXCEPT ![p] = [l EXCEPT !.pc = "create", !.tsk = t]]
           \/ \E r \in RowOfTask(t) :
                loc' = [loc EXCEPT ![p] =
                  IF r.linear \in l.bulk THEN l
                  ELSE [l EXCEPT !.pc = "probe", !.iss = r.linear, !.tsk = t]]
    /\ UNCHANGED <<stores, rows, marked, turn, userops, faults>>

CreateIssue(p) ==
    /\ At(p, "create")
    /\ \E i \in IssueIds :
         /\ team[i] = None
         /\ team' = [team EXCEPT ![i] = p]
         /\ loc' = [loc EXCEPT ![p].pc = "upsert", ![p].iss = i]
    /\ UNCHANGED <<list, status, origin, rows, marked, turn, userops, faults>>

\* Slip: the keys change places.
UpsertSwapped(p) ==
    /\ At(p, "upsert")
    /\ rows' = rows \cup {[linear |-> loc[p].tsk, ttid |-> loc[p].iss, list |-> p,
                           miss |-> 0, tombstoned |-> FALSE]}
    /\ Done(p)
    /\ UNCHANGED <<stores, marked, turn, userops, faults>>

\* upsert_link: a row that meanwhile has the task is given the new issue.
UpsertRow(p) ==
    /\ At(p, "upsert")
    /\ LET i == loc[p].iss
           t == loc[p].tsk
           new == [linear |-> i, ttid |-> t, list |-> p, miss |-> 0, tombstoned |-> FALSE]
       IN  rows' = IF RowOfTask(t) = {} THEN rows \cup {new}
                   ELSE (rows \ RowOfTask(t))
                        \cup {[r EXCEPT !.linear = i, !.list = p] : r \in RowOfTask(t)}
    /\ Done(p)
    /\ UNCHANGED <<stores, marked, turn, userops, faults>>

\* Slip: pairs know nothing of each other.
NeverMovedAway(p, i) == FALSE

\* ctx_for_issue of what find_issue_by_id answers, if it is another pair.
MovedAway(p, i) == team[i] \in Pairs \ {p}

StartRehome(p, st) ==
    loc' = [loc EXCEPT ![p].pc = "move", ![p].to = team[loc[p].iss], ![p].stat = st]

Probe(p) ==
    /\ At(p, "probe")
    /\ IF MovedAway(p, loc[p].iss) THEN StartRehome(p, TT_OPEN) ELSE Done(p)
    /\ UNCHANGED <<stores, rows, marked, turn, userops, faults>>

\* find_issue_by_id answers None for an error too: taken for a deleted issue.
Tombstoned(t) == (rows \ RowOfTask(t)) \cup {[r EXCEPT !.tombstoned = TRUE] : r \in RowOfTask(t)}

ProbeFails(p) ==
    /\ At(p, "probe")
    /\ Fault
    /\ rows' = Tombstoned(loc[p].tsk)
    /\ Done(p)
    /\ UNCHANGED <<stores, marked, turn, userops>>

----------------------------------------------------------------------------
(* ... and every active link of the pair *)

PollLinks(p) ==
    /\ At(p, "tasks")
    /\ loc[p].todo = {}
    /\ loc' = [loc EXCEPT ![p].pc = "links", ![p].listed = FALSE, ![p].links =
                 {<<r.linear, r.ttid>> : r \in {s \in rows : s.list = p /\ ~s.tombstoned}}]
    /\ UNCHANGED <<stores, rows, marked, turn, userops, faults>>

ResetMiss(t) == (rows \ RowOfTask(t)) \cup {[r EXCEPT !.miss = 0] : r \in RowOfTask(t)}

PollLink(p, k) ==
    /\ At(p, "links")
    /\ k \in loc[p].links
    /\ LET l == [loc[p] EXCEPT !.links = @ \ {k}]
       IN  IF k[2] \in l.seen
           THEN /\ rows' = ResetMiss(k[2])
                /\ loc' = [loc EXCEPT ![p] = l]
           ELSE /\ loc' = [loc EXCEPT ![p] = [l EXCEPT !.pc = "get", !.iss = k[1], !.tsk = k[2]]]
                /\ UNCHANGED rows
    /\ UNCHANGED <<stores, marked, turn, userops, faults>>

PollEnds(p) ==
    /\ At(p, "links")
    /\ loc[p].links = {}
    /\ loc' = [loc EXCEPT ![p] = Idle]
    /\ UNCHANGED <<stores, rows, marked, turn, userops, faults>>

\* get_task: alive in this list, and then hidden, or not in it.
GetTask(p) ==
    /\ At(p, "get")
    /\ LET t == loc[p].tsk
       IN  IF list[t] = p
           THEN /\ rows' = ResetMiss(t)
                /\ IF loc[p].iss \in loc[p].bulk THEN Done(p)
                   ELSE loc' = [loc EXCEPT ![p].pc = "hidden", ![p].stat = status[t]]
           ELSE Goto(p, "gone") /\ UNCHANGED rows
    /\ UNCHANGED <<stores, marked, turn, userops, faults>>

\* Slip: only open tasks follow their issue.
HiddenLeftAlone(p) ==
    /\ At(p, "hidden")
    /\ Done(p)
    /\ UNCHANGED <<stores, rows, marked, turn, userops, faults>>

Hidden(p) ==
    /\ At(p, "hidden")
    /\ IF MovedAway(p, loc[p].iss) THEN StartRehome(p, loc[p].stat) ELSE Done(p)
    /\ UNCHANGED <<stores, rows, marked, turn, userops, faults>>

relocate_link(r, new_ttid, new_list_id) ==
    [r EXCEPT !.ttid = new_ttid, !.list = new_list_id, !.miss = 0]

\* Not in this list: the row follows its issue, or the task is missed.
Gone(p) ==
    /\ At(p, "gone")
    /\ LET i == loc[p].iss
           R == RowOfIssue(i)
       IN  IF MovedAway(p, i)
           THEN /\ rows' = (rows \ R) \cup {relocate_link(r, r.ttid, team[i]) : r \in R}
                /\ Done(p)
           ELSE Goto(p, "miss") /\ UNCHANGED rows
    /\ UNCHANGED <<stores, marked, turn, userops, faults>>

GoneUnasked(p) ==
    /\ At(p, "gone")
    /\ Fault
    /\ Goto(p, "miss")
    /\ UNCHANGED <<stores, rows, marked, turn, userops>>

Miss(p) ==
    /\ At(p, "miss")
    /\ LET R == RowOfTask(loc[p].tsk)
           Counted(r) == IF r.miss < TT_MISS_THRESHOLD THEN r.miss + 1 ELSE r.miss
       IN  /\ rows' = (rows \ R) \cup {[r EXCEPT !.miss = Counted(r)] : r \in R}
           /\ IF \E r \in R : Counted(r) = TT_MISS_THRESHOLD THEN Goto(p, "cancel") ELSE Done(p)
    /\ UNCHANGED <<stores, marked, turn, userops, faults>>

\* _tombstone_linear_issue, which gives up silently if it gets no issue, then
\* the tombstone of the link.
Cancel(p) ==
    /\ At(p, "cancel")
    /\ \/ marked' = marked \cup {loc[p].iss} /\ UNCHANGED faults
       \/ Fault /\ UNCHANGED marked
    /\ Goto(p, "tombstone")
    /\ UNCHANGED <<stores, rows, turn, userops>>

TombstoneRow(p) ==
    /\ At(p, "tombstone")
    /\ rows' = Tombstoned(loc[p].tsk)
    /\ Done(p)
    /\ UNCHANGED <<stores, marked, turn, userops, faults>>

----------------------------------------------------------------------------
(* _rehome and _relocate_tt_task *)

\* Slip: a move that raised is taken for done, and the old task deleted.
MoveOrDelete(p) ==
    /\ At(p, "move")
    /\ \E obeys \in MovesInPlace :
         list' = IF obeys /\ loc[p].tsk \in Live THEN [list EXCEPT ![loc[p].tsk] = loc[p].to] ELSE list
    /\ \/ Goto(p, "check") /\ UNCHANGED faults
       \/ /\ Fault
          /\ loc' = [loc EXCEPT ![p].pc = "delete", ![p].new = loc[p].tsk]
    /\ UNCHANGED <<team, status, origin, rows, marked, turn, userops>>

\* update_task with the new projectId; it raises for a task that is gone, and
\* a call that raises may have taken effect.
MoveInPlace(p) ==
    /\ At(p, "move")
    /\ LET t == loc[p].tsk
       IN  \/ /\ t \in Live
              /\ \E obeys \in MovesInPlace :
                   list' = IF obeys THEN [list EXCEPT ![t] = loc[p].to] ELSE list
              /\ \/ Goto(p, "check") /\ UNCHANGED faults
                 \/ Goto(p, "copy") /\ Fault
           \/ /\ t \notin Live
              /\ Goto(p, "copy")
              /\ UNCHANGED <<list, faults>>
    /\ UNCHANGED <<team, status, origin, rows, marked, turn, userops>>

CheckMoved(p) ==
    /\ At(p, "check")
    /\ \/ /\ loc' = [loc EXCEPT ![p] =
                       IF list[loc[p].tsk] = loc[p].to
                       THEN [@ EXCEPT !.pc = "relocate", !.new = loc[p].tsk]
                       ELSE [@ EXCEPT !.pc = "copy"]]
          /\ UNCHANGED faults
       \/ Goto(p, "copy") /\ Fault
    /\ UNCHANGED <<stores, rows, marked, turn, userops>>

\* create_task makes an open task whatever status it is given, and makes
\* another one if the answer is lost and the client asks again.
Copy(p) ==
    /\ At(p, "copy")
    /\ \E c \in TaskIds :
         /\ origin[c] = None
         /\ origin' = [origin EXCEPT ![c] = origin[loc[p].tsk]]
         /\ list' = [list EXCEPT ![c] = loc[p].to]
         /\ status' = [status EXCEPT ![c] = TT_OPEN]
         /\ \/ /\ loc' = [loc EXCEPT ![p].new = c, ![p].pc =
                           IF loc[p].stat = TT_COMPLETED THEN "recomplete" ELSE "delete"]
               /\ UNCHANGED faults
            \/ Fault /\ UNCHANGED loc
    /\ UNCHANGED <<team, rows, marked, turn, userops>>

\* Slip: the status of the copy is left to create_task.
LeaveOpen(p) ==
    /\ At(p, "recomplete")
    /\ Goto(p, "delete")
    /\ UNCHANGED <<stores, rows, marked, turn, userops, faults>>

\* complete_task; an error is only logged.
Recomplete(p) ==
    /\ At(p, "recomplete")
    /\ \/ /\ status' = [status EXCEPT ![loc[p].new] = TT_COMPLETED]
          /\ UNCHANGED faults
       \/ Fault /\ UNCHANGED status
    /\ Goto(p, "delete")
    /\ UNCHANGED <<team, list, origin, rows, marked, turn, userops>>

\* delete_task, which needs the task to be in the old list; an error is only
\* logged.
DeleteOld(p) ==
    /\ At(p, "delete")
    /\ \/ /\ list' = IF list[loc[p].tsk] = p THEN [list EXCEPT ![loc[p].tsk] = None] ELSE list
          /\ UNCHANGED faults
       \/ Fault /\ UNCHANGED list
    /\ Goto(p, "relocate")
    /\ UNCHANGED <<team, status, origin, rows, marked, turn, userops>>

\* The row of the old task, or else of the issue, unless ttid, which is
\* unique, already has the new task: then everything is rolled back.
Relocate(p) ==
    /\ At(p, "relocate")
    /\ LET R == IF RowOfTask(loc[p].tsk) # {} THEN RowOfTask(loc[p].tsk)
                ELSE RowOfIssue(loc[p].iss)
       IN  rows' = IF RowOfTask(loc[p].new) \subseteq R
                   THEN (rows \ R) \cup {relocate_link(r, loc[p].new, loc[p].to) : r \in R}
                   ELSE rows
    /\ Done(p)
    /\ UNCHANGED <<stores, marked, turn, userops, faults>>

\* Any other call raises, before it took effect.
Raise(p) ==
    /\ loc[p].pc \in {"create", "probe", "get", "hidden", "gone", "cancel", "copy"}
    /\ Fault
    /\ Done(p)
    /\ UNCHANGED <<stores, rows, marked, turn, userops>>

----------------------------------------------------------------------------
(* The users, and the end of the process *)

UserMay(op) == userops[op] < MaxUserOps[op] /\ userops' = [userops EXCEPT ![op] = @ + 1]

UserMovesIssue ==
    /\ UserMay("move_issue")
    /\ \E i \in IssueIds, to \in Pairs \cup {Elsewhere} :
         /\ team[i] \notin {None, to}
         /\ team' = [team EXCEPT ![i] = to]
    /\ UNCHANGED <<list, status, origin, rows, marked, loc, turn, faults>>

UserMovesTask ==
    /\ UserMay("move_task")
    /\ \E t \in Live, to \in Pairs :
         /\ list[t] # to
         /\ list' = [list EXCEPT ![t] = to]
    /\ UNCHANGED <<team, status, origin, rows, marked, loc, turn, faults>>

UserEndsTask ==
    /\ UserMay("end_task")
    /\ \E t \in Live, s \in {TT_COMPLETED, TT_WONTDO} :
         /\ status[t] = TT_OPEN
         /\ status' = [status EXCEPT ![t] = s]
    /\ UNCHANGED <<team, list, origin, rows, marked, loc, turn, faults>>

Crash ==
    /\ Fault
    /\ \E p \in Pairs : ~At(p, "idle")
    /\ loc' = [p \in Pairs |-> Idle]
    /\ UNCHANGED <<stores, rows, marked, turn, userops>>

----------------------------------------------------------------------------

Init ==
    /\ \E first \in Pairs :
         /\ team = [i \in IssueIds |-> IF \E k \in Linked : k[1] = i THEN first ELSE None]
         /\ list = [t \in TaskIds |-> IF \E k \in Linked : k[2] = t THEN first ELSE None]
         /\ rows = {[linear |-> k[1], ttid |-> k[2], list |-> first,
                     miss |-> 0, tombstoned |-> FALSE] : k \in Linked}
    /\ status = [t \in TaskIds |-> TT_OPEN]
    /\ origin = [t \in TaskIds |-> IF \E k \in Linked : k[2] = t THEN t ELSE None]
    /\ marked = {}
    /\ loc = [p \in Pairs |-> Idle]
    /\ turn \in DOMAIN ctxs
    /\ userops = [op \in UserOps |-> 0]
    /\ faults = 0

Step(p) ==
    \/ PollBulk(p) \/ PollLinks(p) \/ PollEnds(p)
    \/ \E t \in TaskIds : PollTask(p, t)
    \/ \E k \in IssueIds \X TaskIds : PollLink(p, k)
    \/ CreateIssue(p) \/ UpsertRow(p) \/ Probe(p) \/ GetTask(p) \/ Hidden(p)
    \/ Gone(p) \/ Miss(p) \/ Cancel(p) \/ TombstoneRow(p)
    \/ MoveInPlace(p) \/ CheckMoved(p) \/ Copy(p) \/ Recomplete(p)
    \/ DeleteOld(p) \/ Relocate(p)

Next ==
    \/ \E p \in Pairs : PollList(p) \/ Step(p) \/ ProbeFails(p) \/ GoneUnasked(p) \/ Raise(p)
    \/ UserMovesIssue \/ UserMovesTask \/ UserEndsTask
    \/ Crash

Spec == Init /\ [][Next]_vars

\* The scheduler starts every pair's job again, and a job runs to its end.
FairSpec == Spec /\ \A p \in Pairs : SF_vars(PollList(p)) /\ WF_vars(Step(p))

----------------------------------------------------------------------------

\* The users delete nothing here, so of every linked task, or of its copies,
\* one is alive at all times, whatever fails, overlaps or is cut off.
TaskSurvives ==
    \A k \in Linked : \E t \in Live : origin[t] = k[2]

\* "re-home a task whose Linear issue has moved to another configured team
\* (instead of falsely tombstoning it)" (sync/poller.py): unless a call fails,
\* no issue is marked canceled.  The exception is a task its user moved to
\* another pair's list: the poll of that list brings it back, but not if it
\* is completed, and so in no list, or if its issue is in no configured team,
\* or if he has moved it on before that poll comes.  LostFromSight is coarser
\* than that: it asks only whether users have done such things, to whatever
\* task or issue and in whatever order.
LostFromSight ==
    /\ userops["move_task"] > 0
    /\ userops["end_task"] > 0 \/ userops["move_issue"] > 0 \/ userops["move_task"] > 1

NeverFalselyCanceled == marked # {} => faults > 0 \/ LostFromSight

\* A completed task is completed again before its row is moved to the copy,
\* unless the call that should do it failed.
DoneStaysDone ==
    \A p \in Pairs :
        At(p, "relocate") /\ loc[p].stat = TT_COMPLETED /\ faults = 0
            => status[loc[p].new] = TT_COMPLETED

\* When the users stop, every row is in the list of its issue's team and so is
\* its task, open or hidden; a link is given up only if a call failed or the
\* task is lost from sight (unless this instance is out of ids).
OutOfIds == (\A t \in TaskIds : origin[t] # None) \/ (\A i \in IssueIds : team[i] # None)

Homed(r) ==
    \/ r.tombstoned /\ (faults > 0 \/ LostFromSight)
    \/ team[r.linear] \notin Pairs
    \/ r.list = team[r.linear] /\ list[r.ttid] = r.list

Rehomed == <>[](OutOfIds \/ \A r \in rows : Homed(r))
=============================================================================
