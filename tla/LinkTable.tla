----------------------------- MODULE LinkTable -----------------------------
(***************************************************************************)
(* How unlinked items get a counterpart and a row in table link: webhook     *)
(* handlers and the backfill create tasks for issues (create_tt_for_linear), *)
(* the poll creates issues for tasks (_create_linear_for_tt), and each       *)
(* stores the row at the end (upsert_link).  None of them takes a lock.      *)
(*                                                                          *)
(* What happens to a pair once it is linked is the subject of LinkSync.      *)
(* Here a task that is completed or wontDo is as good as deleted: the list   *)
(* the poll reads does not have it.  Ids are finite sets; MaxUserOps and     *)
(* MaxFaults bound what users do and what fails.  Linear lists issues in an  *)
(* order of its own, and no more than limit of them.                         *)
(***************************************************************************)
EXTENDS Naturals, SequencesExt

CONSTANTS IssueIds, TaskIds,
          Hooks, Pollers, Fillers, \* webhook requests, poll jobs, the backfill
          IssueOrder, limit, \* the order of the list of issues, and where it is cut
          MaxUserOps, MaxFaults, None

Procs == Hooks \cup Pollers \cup Fillers

ASSUME ProcsAssumption ==
    Hooks \cap Pollers = {} /\ Hooks \cap Fillers = {} /\ Pollers \cap Fillers = {}
ASSUME IdsAssumption == None \notin IssueIds \cup TaskIds /\ IssueIds \cap TaskIds = {}
ASSUME BoundsAssumption == MaxUserOps \in Nat /\ MaxFaults \in Nat
ASSUME OrderAssumption ==
    /\ IssueOrder \in Seq(IssueIds) /\ Range(IssueOrder) = IssueIds /\ IsInjective(IssueOrder)
    /\ limit \in Nat

VARIABLES
    issues, tasks, \* what Linear and the TickTick list hold
    used,          \* ids given out so far
    twins,         \* <<issue, task>> of which one was created to mirror the other
    rows,          \* table link, as <<linear_id, ttid>>
    inbox,         \* issues Linear still has to make a delivery about
    loc, userops, faults

vars == <<issues, tasks, used, twins, rows, inbox, loc, userops, faults>>
stores == <<issues, tasks, used, twins>>

PCs == {"idle", "next", "check", "create_task", "mark", "create_issue", "link", "sync"}

Locals == [ pc : PCs, iss : IssueIds \cup {None}, tsk : TaskIds \cup {None},
            todo : SUBSET (IssueIds \cup TaskIds) ]

Idle == [pc |-> "idle", iss |-> None, tsk |-> None, todo |-> {}]

TypeOK ==
    /\ issues \subseteq IssueIds \cap used
    /\ tasks \subseteq TaskIds \cap used
    /\ used \subseteq IssueIds \cup TaskIds
    /\ twins \subseteq IssueIds \X TaskIds
    /\ rows \subseteq IssueIds \X TaskIds
    /\ inbox \subseteq IssueIds
    /\ loc \in [Procs -> Locals]
    /\ userops \in 0..MaxUserOps
    /\ faults \in 0..MaxFaults

At(p, pc) == loc[p].pc = pc

\* A handler is done; a job goes on to the next item of its list.
Finish(p) == loc' = [loc EXCEPT ![p] = IF p \in Hooks THEN Idle
                                       ELSE [Idle EXCEPT !.pc = "next", !.todo = loc[p].todo]]

Fault == faults < MaxFaults /\ faults' = faults + 1

IssueLinked(i) == \E r \in rows : r[1] = i
TaskLinked(t)  == \E r \in rows : r[2] = t

\* A linked item goes to sync_pair with the other half of its row, or is left
\* alone if that half is gone (or, by the poll, if it was not in the bulk set).
Visit(p, r, rest, found) ==
    \/ /\ found
       /\ loc' = [loc EXCEPT ![p] = [pc |-> "sync", iss |-> r[1], tsk |-> r[2], todo |-> rest]]
    \/ /\ found => p \in Pollers
       /\ loc' = [loc EXCEPT ![p] = IF p \in Hooks THEN Idle
                                    ELSE [Idle EXCEPT !.pc = "next", !.todo = rest]]

\* What a handler or the backfill does about an issue.
Mirror(p, i, rest) ==
    \/ \E r \in rows : r[1] = i /\ Visit(p, r, rest, r[2] \in tasks)
    \/ /\ ~IssueLinked(i)
       /\ loc' = [loc EXCEPT ![p] = [pc |-> "create_task", iss |-> i, tsk |-> None, todo |-> rest]]

----------------------------------------------------------------------------
(* The webhook handler, up to the creation *)

Receive(p, i) ==
    /\ At(p, "idle")
    /\ i \in inbox
    /\ inbox' = inbox \ {i}
    /\ loc' = [loc EXCEPT ![p].pc = "check", ![p].iss = i]
    /\ UNCHANGED <<stores, rows, userops, faults>>

\* find_issue_by_id, which also answers None for an error, then the link.
Check(p) ==
    /\ At(p, "check")
    /\ \/ /\ loc[p].iss \in issues
          /\ Mirror(p, loc[p].iss, {})
          /\ UNCHANGED faults
       \/ /\ IF loc[p].iss \in issues THEN Fault ELSE UNCHANGED faults
          /\ Finish(p)
    /\ UNCHANGED <<stores, rows, inbox, userops>>

----------------------------------------------------------------------------
(* The jobs go over a list they read at the start. *)

Before(x, y, seq) == \E j, k \in DOMAIN seq : j < k /\ seq[j] = x /\ seq[k] = y

\* The first page of the issues is all of the list: 250, in the code.
listed == {i \in issues : Cardinality({j \in issues : Before(j, i, IssueOrder)}) < limit}

FillList(p) ==
    /\ At(p, "idle")
    /\ loc' = [loc EXCEPT ![p].pc = "next", ![p].todo = listed]
    /\ UNCHANGED <<stores, rows, inbox, userops, faults>>

\* Slip: an issue without a row is left to the webhook.
FillNextLinkedOnly(p, i) ==
    /\ At(p, "next")
    /\ i \in loc[p].todo
    /\ loc' = [loc EXCEPT ![p].todo = @ \ {i}]
    /\ UNCHANGED <<stores, rows, inbox, userops, faults>>

FillNext(p, i) ==
    /\ At(p, "next")
    /\ i \in loc[p].todo
    /\ Mirror(p, i, loc[p].todo \ {i})
    /\ UNCHANGED <<stores, rows, inbox, userops, faults>>

\* Only create_tt_for_linear and sync_pair are in the try of the backfill's
\* loop: if the link cannot be read, or get_task fails, all of the job ends.
FillRaises(p) ==
    /\ At(p, "next")
    /\ loc[p].todo # {}
    /\ Fault
    /\ loc' = [loc EXCEPT ![p] = Idle]
    /\ UNCHANGED <<stores, rows, inbox, userops>>

PollList(p) ==
    /\ At(p, "idle")
    /\ loc' = [loc EXCEPT ![p].pc = "next", ![p].todo = tasks]
    /\ UNCHANGED <<stores, rows, inbox, userops, faults>>

\* Slip: a task without a row is passed over.
PollNextLinkedOnly(p, t) ==
    /\ At(p, "next")
    /\ t \in loc[p].todo
    /\ loc' = [loc EXCEPT ![p].todo = @ \ {t}]
    /\ UNCHANGED <<stores, rows, inbox, userops, faults>>

PollNext(p, t) ==
    /\ At(p, "next")
    /\ t \in loc[p].todo
    /\ \/ \E r \in rows : r[2] = t /\ Visit(p, r, loc[p].todo \ {t}, r[1] \in issues)
       \/ /\ ~TaskLinked(t)
          /\ loc' = [loc EXCEPT ![p] = [pc |-> "create_issue", iss |-> None, tsk |-> t,
                                        todo |-> loc[p].todo \ {t}]]
    /\ UNCHANGED <<stores, rows, inbox, userops, faults>>

JobEnds(p) ==
    /\ At(p, "next")
    /\ loc[p].todo = {}
    /\ loc' = [loc EXCEPT ![p] = Idle]
    /\ UNCHANGED <<stores, rows, inbox, userops, faults>>

----------------------------------------------------------------------------
(* Creation and the row *)

\* Slip: a task of the list that has no row yet is taken for the new one.
AdoptTask(p) ==
    /\ At(p, "create_task")
    /\ \E t \in tasks :
         /\ ~TaskLinked(t)
         /\ loc' = [loc EXCEPT ![p].tsk = t, ![p].pc = "mark"]
    /\ UNCHANGED <<stores, rows, inbox, userops, faults>>

\* A create whose answer is lost is sent again by the client's retry loop.
CreateTask(p) ==
    /\ At(p, "create_task")
    /\ \E t \in TaskIds \ used :
         /\ used' = used \cup {t}
         /\ tasks' = tasks \cup {t}
         /\ twins' = twins \cup {<<loc[p].iss, t>>}
         /\ \/ /\ loc' = [loc EXCEPT ![p].tsk = t, ![p].pc = "mark"]
               /\ UNCHANGED faults
            \/ Fault /\ UNCHANGED loc
    /\ UNCHANGED <<issues, rows, inbox, userops>>

\* update_issue with the label: Linear announces it.
MarkIssue(p) ==
    /\ At(p, "mark")
    /\ loc[p].iss \in issues
    /\ inbox' = inbox \cup {loc[p].iss}
    /\ loc' = [loc EXCEPT ![p].pc = "link"]
    /\ UNCHANGED <<stores, rows, userops, faults>>

CreateIssue(p) ==
    /\ At(p, "create_issue")
    /\ \E i \in IssueIds \ used :
         /\ used' = used \cup {i}
         /\ issues' = issues \cup {i}
         /\ twins' = twins \cup {<<i, loc[p].tsk>>}
         /\ inbox' = inbox \cup {i}
         /\ \/ /\ loc' = [loc EXCEPT ![p].iss = i, ![p].pc = "link"]
               /\ UNCHANGED faults
            \/ Fault /\ UNCHANGED loc
    /\ UNCHANGED <<tasks, rows, userops>>

\* The row of the issue, or else of the task, is rewritten; else one is added.
Found(i, t) ==
    IF IssueLinked(i) THEN {r \in rows : r[1] = i} ELSE {r \in rows : r[2] = t}

\* Slip: the keys change places.
UpsertSwapped(i, t) == (rows \ Found(i, t)) \cup {<<t, i>>}

upsert_link(i, t) == (rows \ Found(i, t)) \cup {<<i, t>>}

Unique(R) == \A r, s \in R : r[1] = s[1] \/ r[2] = s[2] => r = s

LinkRow(p) ==
    /\ At(p, "link")
    /\ Unique(upsert_link(loc[p].iss, loc[p].tsk))
    /\ rows' = upsert_link(loc[p].iss, loc[p].tsk)
    /\ Finish(p)
    /\ UNCHANGED <<stores, inbox, userops, faults>>

\* sync_pair adds the row again if its issue has none any more.
SyncPair(p) ==
    /\ At(p, "sync")
    /\ rows' = IF IssueLinked(loc[p].iss) THEN rows ELSE upsert_link(loc[p].iss, loc[p].tsk)
    /\ Finish(p)
    /\ UNCHANGED <<stores, inbox, userops, faults>>

Again(p) == inbox' = IF p \in Hooks THEN inbox \cup {loc[p].iss} ELSE inbox

\* A call fails, or the issue to be marked is gone, or a unique constraint
\* rejects the row: rolled back, and a webhook is answered 500.
Raise(p) ==
    /\ \/ loc[p].pc \in {"check", "create_task", "mark", "create_issue", "link", "sync"} /\ Fault
       \/ At(p, "mark") /\ loc[p].iss \notin issues /\ UNCHANGED faults
       \/ /\ At(p, "link")
          /\ ~Unique(upsert_link(loc[p].iss, loc[p].tsk))
          /\ UNCHANGED faults
    /\ Again(p)
    /\ Finish(p)
    /\ UNCHANGED <<stores, rows, userops>>

----------------------------------------------------------------------------
(* The users, and the end of the process with all that runs in it *)

UserMay == userops < MaxUserOps /\ userops' = userops + 1

UserCreatesIssue(i) ==
    /\ UserMay
    /\ i \notin used
    /\ used' = used \cup {i}
    /\ issues' = issues \cup {i}
    /\ inbox' = inbox \cup {i}
    /\ UNCHANGED <<tasks, twins, rows, loc, faults>>

UserCreatesTask(t) ==
    /\ UserMay
    /\ t \notin used
    /\ used' = used \cup {t}
    /\ tasks' = tasks \cup {t}
    /\ UNCHANGED <<issues, twins, rows, inbox, loc, faults>>

UserEditsIssue(i) ==
    /\ UserMay
    /\ i \in issues
    /\ inbox' = inbox \cup {i}
    /\ UNCHANGED <<stores, rows, loc, faults>>

UserDeletesIssue(i) ==
    /\ UserMay
    /\ i \in issues
    /\ issues' = issues \ {i}
    /\ UNCHANGED <<tasks, used, twins, rows, inbox, loc, faults>>

UserDeletesTask(t) ==
    /\ UserMay
    /\ t \in tasks
    /\ tasks' = tasks \ {t}
    /\ UNCHANGED <<issues, used, twins, rows, inbox, loc, faults>>

Crash ==
    /\ Fault
    /\ inbox' = inbox \cup {loc[p].iss : p \in {h \in Hooks : ~At(h, "idle")}}
    /\ loc' = [p \in Procs |-> Idle]
    /\ UNCHANGED <<stores, rows, userops>>

Init ==
    /\ issues = {} /\ tasks = {} /\ used = {} /\ twins = {} /\ rows = {} /\ inbox = {}
    /\ loc = [p \in Procs |-> Idle]
    /\ userops = 0
    /\ faults = 0

Step(p) ==
    \/ Check(p) \/ CreateTask(p) \/ MarkIssue(p) \/ CreateIssue(p)
    \/ LinkRow(p) \/ SyncPair(p)

Next ==
    \/ \E p \in Hooks, i \in IssueIds : Receive(p, i)
    \/ \E p \in Fillers : FillList(p) \/ FillRaises(p) \/ \E i \in IssueIds : FillNext(p, i)
    \/ \E p \in Pollers : PollList(p) \/ \E t \in TaskIds : PollNext(p, t)
    \/ \E p \in Procs : JobEnds(p) \/ Step(p) \/ Raise(p)
    \/ \E i \in IssueIds : UserCreatesIssue(i) \/ UserEditsIssue(i) \/ UserDeletesIssue(i)
    \/ \E t \in TaskIds : UserCreatesTask(t) \/ UserDeletesTask(t)
    \/ Crash

Spec == Init /\ [][Next]_vars

\* Handlers and jobs keep running, every delivery is handled, the scheduler
\* starts every job again.
FairSpec ==
    /\ Spec
    /\ \A p \in Hooks   : \A i \in IssueIds : WF_vars(Receive(p, i))
    /\ \A p \in Fillers : WF_vars(FillList(p) \/ JobEnds(p) \/ \E i \in IssueIds : FillNext(p, i))
    /\ \A p \in Pollers : WF_vars(PollList(p) \/ JobEnds(p) \/ \E t \in TaskIds : PollNext(p, t))
    /\ \A p \in Procs   : WF_vars(Step(p)) /\ WF_vars(Raise(p) /\ UNCHANGED faults)

----------------------------------------------------------------------------

\* The table only ever joins two items of which one was created to mirror the
\* other, though upsert_link moves rows from one item to another.
RowsJoinTwins == rows \subseteq twins

\* This instance has run out of ids, and somebody waits for one.
OutOfTasks  == TaskIds \subseteq used /\ \E p \in Procs : At(p, "create_task")
OutOfIssues == IssueIds \subseteq used /\ \E p \in Procs : At(p, "create_issue")

\* A task of issue i has another issue too (the poll makes one if it finds the
\* task before its row is stored), which is beyond the cut of the list.
Contested(i) ==
    \E j \in issues \ listed : \E t \in tasks : {<<i, t>>, <<j, t>>} \subseteq twins

\* An issue that is listed gets its row in the end and keeps it, whatever failed
\* on the way, and though a failure may end all of a backfill: the next one
\* makes up for a handler that gave up.  Not so beyond the cut, where an issue
\* has nothing but its deliveries.
IssuesLinked == <>[](OutOfTasks \/ \A i \in listed : IssueLinked(i) \/ Contested(i))

\* A contested issue gets its row too, but need not keep it: the other issue is
\* given no task of its own, and a poll and a backfill that were each sent to
\* sync_pair when their issue had the row may take it from each other for ever.
ListedIssuesLinked == []<>(OutOfTasks \/ \A i \in listed : IssueLinked(i))

\* The same for a task, which the poll sees to.
TasksLinked == <>[](OutOfIssues \/ \A t \in tasks : TaskLinked(t))
=============================================================================
