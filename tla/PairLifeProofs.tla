--------------------------- MODULE PairLifeProofs ---------------------------
(***************************************************************************)
(* LinkSync implements PairLife, as long as deleted tasks stay deleted:      *)
(* every step of a handler, a job or a user is a step in the life of the     *)
(* pair, or changes nothing of it.  First, that the poll then never takes a  *)
(* task that is alive for a missing one.                                     *)
(***************************************************************************)
EXTENDS LinkSyncProofs

\* Where a poll has made up its mind that the task is missing.
Missed == {"miss", "cancel_find", "cancel", "tombstone"}

Unmarked(i) == TombstonedLabel \notin i.labels

Clean(l) == l.pc \notin Missed /\ (l.iss # None => Unmarked(l.iss))

\* While the task lives nobody has noted, or is about to note, that it is gone,
\* and nobody holds a copy of the issue with the label of a vanished task:
\* a write computed from such a copy would bring the label back.
MissInv ==
    "task" \in live =>
        /\ "tt_missing_2x" \notin tombstones
        /\ Unmarked(issue)
        /\ \A p \in Procs : Clean(loc[p])

LEMMA MissFrame ==
    ASSUME LocalsOK, MissInv, "task" \in live, NEW p \in Procs, NEW l,
           loc' = [loc EXCEPT ![p] = l], Clean(l),
           "tt_missing_2x" \notin tombstones', Unmarked(issue')
    PROVE  MissInv'
<1>1. \A q \in Procs : loc'[q] = IF q = p THEN l ELSE loc[q]
  BY DEF LocalsOK
<1>2. \A q \in Procs : Clean(loc'[q])
  BY <1>1 DEF MissInv
<1>. QED BY <1>2 DEF MissInv, Clean, Unmarked

LEMMA RestIsClean == \A p : Clean(Rest(p)) /\ Clean(Idle)
BY DEF Clean, Rest, Idle, Missed

LEMMA GotoIsClean ==
    ASSUME LocalsOK, NEW p \in Procs, Clean(loc[p]), NEW pc \in PCs \ Missed, Goto(p, pc)
    PROVE  \E l : loc' = [loc EXCEPT ![p] = l] /\ Clean(l)
<1>. DEFINE l == [loc[p] EXCEPT !.pc = pc]
<1>1. loc' = [loc EXCEPT ![p] = l]
  BY DEF Goto
<1>2. l.pc = pc /\ l.iss = loc[p].iss
  BY DEF LocalsOK, Locals
<1>. QED BY <1>1, <1>2 DEF Clean

LEMMA HookMiss ==
    ASSUME TypeInv, MissInv, "task" \in live, NEW p \in Hooks, Receive(p) \/ HookStep(p)
    PROVE  MissInv'
<1>. p \in Procs /\ LocalsOK /\ loc[p] \in Locals
  BY DEF Procs, TypeInv, LocalsOK
<1>. Clean(loc[p]) /\ Unmarked(issue) /\ "tt_missing_2x" \notin tombstones
  BY DEF MissInv
<1>. USE DEF stores
<1>1. ASSUME NEW d \in Deliveries, HookDuplicate(p, d) PROVE MissInv'
  BY <1>1 DEF HookDuplicate, MissInv, Clean, Unmarked
<1>2. ASSUME NEW d \in Deliveries, HookReceive(p, d) PROVE MissInv'
  <2>. DEFINE l == [Idle EXCEPT !.pc = IF d = RemoveId THEN "remove_get" ELSE "find", !.arg = d]
  <2>1. Clean(l)
    BY DEF Idle, Clean, Missed
  <2>. QED BY <1>2, <2>1, MissFrame DEF HookReceive
<1>3. ASSUME HookFind(p) PROVE MissInv'
  <2>. DEFINE l == [loc[p] EXCEPT !.iss = issue, !.pc = "get"]
  <2>1. loc' = [loc EXCEPT ![p] = l] /\ l.pc = "get" /\ l.iss = issue
    BY <1>3 DEF HookFind, LocalsOK, Locals
  <2>2. Clean(l)
    BY <2>1 DEF Clean, Missed
  <2>. QED BY <1>3, <2>1, <2>2, MissFrame DEF HookFind
<1>4. ASSUME HookSkip(p) \/ RemoveRejected(p) \/ RemoveCommit(p) PROVE MissInv'
  <2>1. loc' = [loc EXCEPT ![p] = Rest(p)] /\ issue' = issue
        /\ "tt_missing_2x" \notin tombstones'
    BY <1>4 DEF HookSkip, RemoveRejected, RemoveCommit, Done
  <2>. QED BY <2>1, RestIsClean, MissFrame
<1>5. ASSUME RemoveGet(p) \/ RemoveWrite(p) PROVE MissInv'
  <2>1. PICK pc \in {"remove_write", "remove_commit"} : Goto(p, pc)
    BY <1>5 DEF RemoveGet, RemoveWrite
  <2>2. pc \in PCs \ Missed
    BY DEF PCs, Missed
  <2>. QED BY <1>5, <2>1, <2>2, GotoIsClean, MissFrame DEF RemoveGet, RemoveWrite
<1>. QED
  BY <1>1, <1>2, <1>3, <1>4, <1>5 DEF Receive, HookStep

\* The bulk set holds the issue as it is, or nothing.
LEMMA BulkIsClean ==
    ASSUME "task" \in live, MissInv, NEW i \in BulkIssue
    PROVE  i # None => Unmarked(i)
BY DEF BulkIssue, MissInv

LEMMA PollMissStep ==
    ASSUME TypeInv, MissInv, "task" \in live, NEW p \in Pollers, PollList(p) \/ PollStep(p)
    PROVE  MissInv'
<1>. p \in Procs /\ LocalsOK /\ loc[p] \in Locals
  BY DEF Procs, TypeInv, LocalsOK
<1>. Clean(loc[p]) /\ Unmarked(issue) /\ "tt_missing_2x" \notin tombstones
  BY DEF MissInv
<1>. USE DEF stores
<1>1. ASSUME PollList(p) PROVE MissInv'
  <2>. DEFINE l == [loc[p] EXCEPT !.pc = "bulk", !.tsk =
                      IF "task" \in live /\ task.status = TT_OPEN THEN task ELSE None]
  <2>1. loc' = [loc EXCEPT ![p] = l] /\ l.pc = "bulk" /\ l.iss = loc[p].iss
    BY <1>1 DEF PollList, Locals
  <2>2. Clean(l)
    BY <2>1 DEF Clean, Missed
  <2>. QED BY <1>1, <2>1, <2>2, MissFrame DEF PollList
<1>2. ASSUME PollBulk(p) PROVE MissInv'
  <2>1. PICK i \in BulkIssue :
         \/ loc' = [loc EXCEPT ![p].iss = i, ![p].listed = TRUE,
                         ![p].pc = IF i = None THEN "probe_issue" ELSE "sync"]
         \/ loc' = [loc EXCEPT ![p] = Idle]
         \/ loc' = [loc EXCEPT ![p].iss = i, ![p].pc = "probe_task"]
    BY <1>2 DEF PollBulk
  <2>. DEFINE l1 == [loc[p] EXCEPT !.iss = i, !.listed = TRUE,
                        !.pc = IF i = None THEN "probe_issue" ELSE "sync"]
              l2 == [loc[p] EXCEPT !.iss = i, !.pc = "probe_task"]
  <2>2. Clean(l1) /\ Clean(l2)
    BY BulkIsClean DEF Locals, Clean, Missed
  <2>3. \/ loc' = [loc EXCEPT ![p] = l1]
        \/ loc' = [loc EXCEPT ![p] = Idle]
        \/ loc' = [loc EXCEPT ![p] = l2]
    BY <2>1 DEF LocalsOK, Locals
  <2>4. issue' = issue /\ tombstones' = tombstones
    BY <1>2 DEF PollBulk
  <2>. HIDE DEF l1, l2
  <2>. QED BY <2>2, <2>3, <2>4, RestIsClean, MissFrame
<1>3. ASSUME PollSkip(p) \/ PollIssueMissing(p) \/ PollReset(p) PROVE MissInv'
  <2>1. loc' = [loc EXCEPT ![p] = Idle] \/ loc' = [loc EXCEPT ![p] = Rest(p)]
    BY <1>3 DEF PollSkip, PollIssueMissing, PollReset, Done
  <2>2. issue' = issue /\ "tt_missing_2x" \notin tombstones'
    BY <1>3 DEF PollSkip, PollIssueMissing, PollReset
  <2>. QED BY <2>1, <2>2, RestIsClean, MissFrame
<1>4. ASSUME PollHidden(p) PROVE MissInv'
  <2>. DEFINE l == [loc[p] EXCEPT !.tsk = task, !.pc = "sync"]
  <2>1. l.pc = "sync" /\ l.iss = loc[p].iss
    BY DEF Locals
  <2>2. Clean(l)
    BY <2>1 DEF Clean, Missed
  <2>3. loc' = [loc EXCEPT ![p] = Idle] \/ loc' = [loc EXCEPT ![p] = l]
    BY <1>4 DEF PollHidden, LocalsOK, Locals
  <2>4. issue' = issue /\ tombstones' = tombstones
    BY <1>4 DEF PollHidden
  <2>. HIDE DEF l
  <2>. QED BY <2>2, <2>3, <2>4, RestIsClean, MissFrame
\* The others are reached only once the task is gone.
<1>5. ~PollMissing(p)
  BY DEF PollMissing
<1>6. ~(PollMiss(p) \/ PollCancelFind(p) \/ PollCancelSkip(p) \/ PollCancel(p) \/ PollTombstone(p))
  BY DEF PollMiss, PollCancelFind, PollCancelSkip, PollCancel, PollTombstone, At, Clean, Missed
<1>. QED
  BY <1>1, <1>2, <1>3, <1>4, <1>5, <1>6 DEF PollStep

LEMMA FillMiss ==
    ASSUME TypeInv, MissInv, "task" \in live, NEW p \in Fillers, FillList(p) \/ FillLink(p)
    PROVE  MissInv'
<1>. p \in Procs /\ LocalsOK /\ loc[p] \in Locals
  BY DEF Procs, TypeInv, LocalsOK
<1>. Clean(loc[p]) /\ Unmarked(issue) /\ "tt_missing_2x" \notin tombstones
  BY DEF MissInv
<1>. USE DEF stores
<1>1. ASSUME FillList(p) PROVE MissInv'
  <2>. DEFINE l == [loc[p] EXCEPT !.pc = "fill_link", !.iss = issue]
  <2>1. loc' = [loc EXCEPT ![p] = l] /\ l.pc = "fill_link" /\ l.iss = issue
    BY <1>1 DEF FillList, LocalsOK, Locals
  <2>2. Clean(l)
    BY <2>1 DEF Clean, Missed
  <2>. QED BY <1>1, <2>1, <2>2, MissFrame DEF FillList
<1>2. ASSUME FillLink(p) PROVE MissInv'
  <2>1. "get" \in PCs \ Missed
    BY DEF PCs, Missed
  <2>. QED BY <1>2, <2>1, GotoIsClean, RestIsClean, MissFrame DEF FillLink, Done
<1>. QED
  BY <1>1, <1>2

LEMMA SyncMiss ==
    ASSUME TypeInv, MissInv, "task" \in live, NEW p \in Procs,
           GetTask(p) \/ SyncStart(p) \/ WriteStep(p) \/ Raise(p)
    PROVE  MissInv'
<1>. LocalsOK /\ loc[p] \in Locals /\ ReadingOK(p, loc[p])
  BY DEF TypeInv, LocalsOK
<1>. Clean(loc[p]) /\ Unmarked(issue) /\ "tt_missing_2x" \notin tombstones
  BY DEF MissInv
<1>. USE DEF stores
<1>1. ASSUME GetTask(p) PROVE MissInv'
  <2>. DEFINE l == [loc[p] EXCEPT !.tsk = task, !.pc = "sync"]
  <2>1. l.pc = "sync" /\ l.iss = loc[p].iss
    BY DEF Locals
  <2>2. Clean(l)
    BY <2>1 DEF Clean, Missed
  <2>3. loc' = [loc EXCEPT ![p] = Rest(p)] \/ loc' = [loc EXCEPT ![p] = l]
    BY <1>1 DEF GetTask, Done, LocalsOK, Locals
  <2>. HIDE DEF l
  <2>. QED BY <1>1, <2>2, <2>3, RestIsClean, MissFrame DEF GetTask
<1>2. ASSUME SyncDuplicate(p) \/ SyncNoop(p) \/ Commit(p) \/ Raise(p) PROVE MissInv'
  <2>1. /\ loc' = [loc EXCEPT ![p] = Rest(p)]
        /\ issue' = issue /\ tombstones' = tombstones
    BY <1>2 DEF SyncDuplicate, SyncNoop, Commit, Raise, Done
  <2>. QED BY <2>1, RestIsClean, MissFrame
<1>3. ASSUME SyncWrite(p) \/ CompleteTask(p) PROVE MissInv'
  <2>1. PICK pc \in {"update_issue", "complete", "update_task"} : Goto(p, pc)
    BY <1>3 DEF SyncWrite, CompleteTask
  <2>2. pc \in PCs \ Missed
    BY DEF PCs, Missed
  <2>. QED BY <1>3, <2>1, <2>2, GotoIsClean, MissFrame DEF SyncWrite, CompleteTask
<1>4. ASSUME UpdateIssue(p) PROVE MissInv'
  <2>. DEFINE l == [loc[p] EXCEPT !.iss = issue', !.pc = "commit_l"]
  <2>1. loc[p].iss \in Issues /\ issue \in Issues
    BY <1>4 DEF UpdateIssue, At, ReadingOK, HoldsIssue, TypeInv, StoresOK
  <2>2. Unmarked(loc[p].iss)
    BY <2>1, NoneAssumption DEF Clean
  <2>3. issue'.labels = labels_after_sync(loc[p].iss.labels, loc[p].tsk.column)
    BY <1>4, <2>1 DEF UpdateIssue, apply_tt_to_linear, Issues
  <2>4. Unmarked(issue')
    BY <2>2, <2>3 DEF Unmarked, labels_after_sync, TombstonedLabel
  <2>5. loc' = [loc EXCEPT ![p] = l] /\ l.iss = issue' /\ l.pc = "commit_l"
    BY <1>4 DEF UpdateIssue, LocalsOK, Locals
  <2>6. Clean(l)
    BY <2>4, <2>5 DEF Clean, Missed
  <2>. QED BY <1>4, <2>4, <2>5, <2>6, MissFrame DEF UpdateIssue
<1>5. ASSUME UpdateTask(p) PROVE MissInv'
  <2>. DEFINE l == [loc[p] EXCEPT !.tsk = task', !.pc = "commit_t"]
  <2>1. loc' = [loc EXCEPT ![p] = l] /\ l.iss = loc[p].iss /\ l.pc = "commit_t"
    BY <1>5 DEF UpdateTask, LocalsOK, Locals
  <2>2. Clean(l)
    BY <2>1 DEF Clean, Missed
  <2>. QED BY <1>5, <2>1, <2>2, MissFrame DEF UpdateTask
<1>. QED
  BY <1>1, <1>2, <1>3, <1>4, <1>5 DEF SyncStart, WriteStep

LEMMA WorldMiss ==
    ASSUME TypeInv, MissInv, "task" \in live, WorldStep
    PROVE  MissInv'
<1>. issue \in Issues /\ Unmarked(issue) /\ "tt_missing_2x" \notin tombstones
  BY DEF TypeInv, StoresOK, MissInv
<1>. USE DEF stores
<1>1. ASSUME UserEditsIssue PROVE MissInv'
  <2>1. issue'.labels = issue.labels
    BY <1>1 DEF UserEditsIssue, EditedIssues, Issues
  <2>. QED BY <1>1, <2>1 DEF UserEditsIssue, MissInv, Clean, Unmarked
<1>2. ASSUME \/ UserEditsTask \/ UserDeletesIssue \/ UserDeletesTask \/ UserRestoresTask
             \/ EchoEndsL \/ EchoEndsT
             \/ \E d \in Deliveries : Redeliver(d) \/ GiveUp(d)
      PROVE  MissInv'
  <2>1. UNCHANGED <<issue, tombstones, loc>>
    BY <1>2 DEF UserEditsTask, UserDeletesIssue, UserDeletesTask, UserRestoresTask,
       EchoEndsL, EchoEndsT, Redeliver, GiveUp
  <2>. QED BY <2>1 DEF MissInv, Clean, Unmarked
<1>3. ASSUME NEW i \in Instances, Crash(i) PROVE MissInv'
  <2>1. \A p \in Procs : loc'[p] = IF InstanceOf[p] = i THEN Idle ELSE loc[p]
    BY <1>3 DEF Crash
  <2>2. \A p \in Procs : Clean(loc'[p])
    BY <2>1, RestIsClean DEF MissInv
  <2>. QED BY <1>3, <2>2 DEF Crash, MissInv, Clean, Unmarked
<1>. QED
  BY <1>1, <1>2, <1>3 DEF WorldStep, UserStep

\* Nobody but the user who restores a task brings it back.
LEMMA GoneIsGone ==
    ASSUME "restore_task" \notin UserOps, TypeInv, [Next]_vars, "task" \in live'
    PROVE  "task" \in live
BY DEF Next, vars, stores, Receive, HookStep, PollStep, SyncStart, WriteStep, UserStep,
       HookDuplicate, HookReceive, HookFind, HookSkip, GetTask, SyncDuplicate, SyncNoop,
       SyncWrite, UpdateIssue, CompleteTask, UpdateTask, Commit, Raise, PollList, PollBulk,
       PollSkip, PollIssueMissing, PollReset, PollHidden, PollMissing, PollMiss,
       PollCancelFind, PollCancelSkip, PollCancel, PollTombstone, FillList, FillLink,
       RemoveGet, RemoveWrite, RemoveCommit, RemoveRejected, UserMay, UserEditsIssue,
       UserEditsTask, UserDeletesIssue, UserDeletesTask, UserRestoresTask, Redeliver,
       GiveUp, EchoEndsL, EchoEndsT, Crash

LEMMA MissAtFirst == Init => MissInv
BY DEF Init, MissInv, Unmarked, Clean, Idle, Missed, linear_issue_for, TombstonedLabel

LEMMA MissHolds ==
    ASSUME "restore_task" \notin UserOps
    PROVE  TypeInv /\ MissInv /\ [Next]_vars => MissInv'
<1>1. ASSUME TypeInv, MissInv, "task" \in live, Next PROVE MissInv'
  BY <1>1, HookMiss, PollMissStep, FillMiss, SyncMiss, WorldMiss DEF Next, WorldStep
<1>2. ASSUME MissInv, UNCHANGED vars PROVE MissInv'
  BY <1>2 DEF vars, MissInv, Clean, Unmarked
<1>3. "task" \notin live' => MissInv'
  BY DEF MissInv
<1>. QED BY <1>1, <1>2, <1>3, GoneIsGone

\* If deleted tasks stay deleted, the poll never marks an issue, nor notes
\* "tt_missing_2x", for a task that is still there, whatever fails and however
\* many polls overlap; completed and wontDo tasks, which the list hides,
\* are told apart by the direct probe.
THEOREM MissingIsGone ==
    ASSUME "restore_task" \notin UserOps
    PROVE  Spec => []MissingTaskIsGone
<1>1. MissInv => MissingTaskIsGone
  BY DEF MissInv, MissingTaskIsGone, Unmarked
<1>. QED
  BY <1>1, MissAtFirst, MissHolds, TypesHold, PTL DEF Spec

----------------------------------------------------------------------------
(* The life of the pair                                                      *)

Unremoved(l) == l.arg # RemoveId /\ l.pc \notin Removing

\* As long as the issue is there no removal is delivered, handled or logged.
RemoveInv ==
    "issue" \in live =>
        /\ RemoveId \notin inbox
        /\ RemoveId \notin seen
        /\ \A p \in Procs : Unremoved(loc[p])

----------------------------------------------------------------------------
(* RemoveInv is kept. *)

\* p goes to a place outside the handling of a removal, with the delivery it
\* had or with none.
Elsewhere(p) ==
    \E l : /\ loc' = [loc EXCEPT ![p] = l]
           /\ l.arg \in {loc[p].arg, None}
           /\ l.pc \notin Removing

\* Nothing is added to the queue or to the log but what is no removal.
NoneAdded ==
    RemoveId \notin inbox /\ RemoveId \notin seen => RemoveId \notin inbox' /\ RemoveId \notin seen'

LEMMA RemoveFrame ==
    ASSUME LocalsOK, RemoveInv, "issue" \in live, NEW p \in Procs, Elsewhere(p), NoneAdded
    PROVE  RemoveInv'
<1>1. None # RemoveId
  BY DeliveriesAssumption DEF Deliveries
<1>2. \A q \in Procs : Unremoved(loc'[q])
  BY <1>1 DEF Elsewhere, LocalsOK, RemoveInv, Unremoved
<1>. QED BY <1>2 DEF RemoveInv, NoneAdded

LEMMA RestIsElsewhere == \A p : Rest(p).arg = None /\ Rest(p).pc \notin Removing /\ Idle.arg = None /\ Idle.pc \notin Removing
BY DEF Rest, Idle, Removing

LEMMA NotifyAdds == Notify => NoneAdded
<1>. SUFFICES ASSUME Notify PROVE NoneAdded
  OBVIOUS
<1>1. CASE Unused = {}
  BY <1>1 DEF Notify, NoneAdded
<1>2. CASE Unused # {}
  <2>. DEFINE d == CHOOSE u \in Unused : TRUE
  <2>1. d \in UpdateIds
    BY <1>2 DEF Unused
  <2>2. inbox' = inbox \cup {d} /\ seen' = seen \ {d}
    BY <1>2 DEF Notify
  <2>. QED BY <2>1, <2>2, DeliveriesAssumption DEF NoneAdded
<1>. QED BY <1>1, <1>2

LEMMA LogAdds ==
    ASSUME NEW p \in Procs, Unremoved(loc[p]), LogEvent(p), inbox' = inbox
    PROVE  NoneAdded
BY DEF LogEvent, NoneAdded, Unremoved

LEMMA HookRemove ==
    ASSUME TypeInv, RemoveInv, "issue" \in live, NEW p \in Hooks, Receive(p) \/ HookStep(p)
    PROVE  RemoveInv'
<1>. p \in Procs /\ LocalsOK /\ loc[p] \in Locals /\ Unremoved(loc[p])
  BY DEF Procs, TypeInv, LocalsOK, RemoveInv
<1>1. ASSUME NEW d \in Deliveries, HookDuplicate(p, d) PROVE RemoveInv'
  BY <1>1 DEF HookDuplicate, RemoveInv, stores
<1>2. ASSUME NEW d \in Deliveries, HookReceive(p, d) PROVE RemoveInv'
  <2>. DEFINE l == [Idle EXCEPT !.pc = IF d = RemoveId THEN "remove_get" ELSE "find", !.arg = d]
  <2>1. d # RemoveId
    BY <1>2 DEF HookReceive, RemoveInv
  <2>2. l.arg = d /\ l.pc = "find"
    BY <2>1 DEF Idle
  <2>3. \A q \in Procs : Unremoved(loc'[q])
    BY <1>2, <2>1, <2>2 DEF HookReceive, RemoveInv, Unremoved, LocalsOK, Removing
  <2>. QED BY <1>2, <2>3 DEF HookReceive, RemoveInv, stores
<1>3. ASSUME HookFind(p) PROVE RemoveInv'
  <2>. DEFINE l == [loc[p] EXCEPT !.iss = issue, !.pc = "get"]
  <2>1. loc' = [loc EXCEPT ![p] = l] /\ l.pc = "get" /\ l.arg = loc[p].arg
    BY <1>3 DEF HookFind, LocalsOK, Locals
  <2>2. Elsewhere(p)
    BY <2>1 DEF Elsewhere, Removing
  <2>. QED BY <1>3, <2>2, RemoveFrame DEF HookFind, NoneAdded
<1>4. ASSUME HookSkip(p) PROVE RemoveInv'
  <2>1. Elsewhere(p)
    BY <1>4, RestIsElsewhere DEF HookSkip, Done, Elsewhere
  <2>. QED BY <1>4, <2>1, RemoveFrame DEF HookSkip, NoneAdded
<1>5. ~(RemoveGet(p) \/ RemoveWrite(p) \/ RemoveCommit(p) \/ RemoveRejected(p))
  BY DEF RemoveGet, RemoveWrite, RemoveCommit, RemoveRejected, At, Unremoved, Removing
<1>. QED
  BY <1>1, <1>2, <1>3, <1>4, <1>5 DEF Receive, HookStep

LEMMA GotoIsElsewhere ==
    ASSUME LocalsOK, NEW p \in Procs, NEW pc \in PCs \ Removing, Goto(p, pc)
    PROVE  Elsewhere(p)
<1>. DEFINE l == [loc[p] EXCEPT !.pc = pc]
<1>1. loc' = [loc EXCEPT ![p] = l]
  BY DEF Goto
<1>2. l.pc = pc /\ l.arg = loc[p].arg
  BY DEF LocalsOK, Locals
<1>. QED BY <1>1, <1>2 DEF Elsewhere

LEMMA PollRemove ==
    ASSUME TypeInv, RemoveInv, "issue" \in live, NEW p \in Pollers, PollList(p) \/ PollStep(p)
    PROVE  RemoveInv'
<1>. p \in Procs /\ LocalsOK /\ loc[p] \in Locals
  BY DEF Procs, TypeInv, LocalsOK
<1>1. ASSUME PollList(p) PROVE Elsewhere(p) /\ NoneAdded
  <2>. DEFINE l == [loc[p] EXCEPT !.pc = "bulk", !.tsk =
                      IF "task" \in live /\ task.status = TT_OPEN THEN task ELSE None]
  <2>1. loc' = [loc EXCEPT ![p] = l] /\ l.pc = "bulk" /\ l.arg = loc[p].arg
    BY <1>1 DEF PollList, LocalsOK, Locals
  <2>. HIDE DEF l
  <2>. QED BY <1>1, <2>1 DEF PollList, Elsewhere, NoneAdded, Removing
<1>2. ASSUME PollBulk(p) PROVE Elsewhere(p) /\ NoneAdded
  <2>1. PICK i \in BulkIssue :
         \/ loc' = [loc EXCEPT ![p].iss = i, ![p].listed = TRUE,
                         ![p].pc = IF i = None THEN "probe_issue" ELSE "sync"]
         \/ loc' = [loc EXCEPT ![p] = Idle]
         \/ loc' = [loc EXCEPT ![p].iss = i, ![p].pc = "probe_task"]
    BY <1>2 DEF PollBulk
  <2>. DEFINE l1 == [loc[p] EXCEPT !.iss = i, !.listed = TRUE,
                        !.pc = IF i = None THEN "probe_issue" ELSE "sync"]
              l2 == [loc[p] EXCEPT !.iss = i, !.pc = "probe_task"]
  <2>2. l1.arg = loc[p].arg /\ l1.pc \notin Removing /\ l2.arg = loc[p].arg /\ l2.pc \notin Removing
    BY DEF Locals, Removing
  <2>3. \/ loc' = [loc EXCEPT ![p] = l1]
        \/ loc' = [loc EXCEPT ![p] = Idle]
        \/ loc' = [loc EXCEPT ![p] = l2]
    BY <2>1 DEF LocalsOK, Locals
  <2>. HIDE DEF l1, l2
  <2>4. Elsewhere(p)
    BY <2>2, <2>3, RestIsElsewhere DEF Elsewhere
  <2>. QED BY <1>2, <2>4 DEF PollBulk, NoneAdded
<1>3. ASSUME PollSkip(p) \/ PollIssueMissing(p) \/ PollReset(p) \/ PollTombstone(p)
      PROVE  Elsewhere(p) /\ NoneAdded
  <2>1. loc' = [loc EXCEPT ![p] = Idle] \/ loc' = [loc EXCEPT ![p] = Rest(p)]
    BY <1>3 DEF PollSkip, PollIssueMissing, PollReset, PollTombstone, Done
  <2>2. UNCHANGED <<inbox, seen>>
    BY <1>3 DEF PollSkip, PollIssueMissing, PollReset, PollTombstone
  <2>. QED BY <2>1, <2>2, RestIsElsewhere DEF Elsewhere, NoneAdded
<1>4. ASSUME PollHidden(p) PROVE Elsewhere(p) /\ NoneAdded
  <2>. DEFINE l == [loc[p] EXCEPT !.tsk = task, !.pc = "sync"]
  <2>1. l.pc = "sync" /\ l.arg = loc[p].arg
    BY DEF Locals
  <2>2. loc' = [loc EXCEPT ![p] = Idle] \/ loc' = [loc EXCEPT ![p] = l]
    BY <1>4 DEF PollHidden, LocalsOK, Locals
  <2>. HIDE DEF l
  <2>. QED BY <1>4, <2>1, <2>2, RestIsElsewhere DEF PollHidden, Elsewhere, NoneAdded, Removing
<1>5. ASSUME PollMissing(p) \/ PollCancelSkip(p) \/ PollCancel(p) PROVE Elsewhere(p) /\ NoneAdded
  <2>1. PICK pc \in {"miss", "tombstone"} : Goto(p, pc)
    BY <1>5 DEF PollMissing, PollCancelSkip, PollCancel
  <2>2. pc \in PCs \ Removing
    BY DEF PCs, Removing
  <2>3. UNCHANGED <<inbox, seen>> \/ Notify
    BY <1>5 DEF PollMissing, PollCancelSkip, PollCancel
  <2>. QED BY <2>1, <2>2, <2>3, GotoIsElsewhere, NotifyAdds DEF NoneAdded
<1>6. ASSUME PollMiss(p) PROVE Elsewhere(p) /\ NoneAdded
  <2>. DEFINE l == [Idle EXCEPT !.pc = "cancel_find"]
  <2>1. l.pc = "cancel_find" /\ l.arg = None
    BY DEF Idle
  <2>2. loc' = [loc EXCEPT ![p] = Idle] \/ loc' = [loc EXCEPT ![p] = l]
    BY <1>6 DEF PollMiss
  <2>. HIDE DEF l
  <2>. QED BY <1>6, <2>1, <2>2, RestIsElsewhere DEF PollMiss, Elsewhere, NoneAdded, Removing
<1>7. ASSUME PollCancelFind(p) PROVE Elsewhere(p) /\ NoneAdded
  <2>. DEFINE l == [loc[p] EXCEPT !.iss = issue,
                      !.pc = IF CanceledStates = {} THEN "tombstone" ELSE "cancel"]
  <2>1. l.pc \in {"tombstone", "cancel"} /\ l.arg = loc[p].arg
    BY DEF Locals
  <2>2. loc' = [loc EXCEPT ![p] = l]
    BY <1>7 DEF PollCancelFind, LocalsOK, Locals
  <2>. HIDE DEF l
  <2>. QED BY <1>7, <2>1, <2>2 DEF PollCancelFind, Elsewhere, NoneAdded, Removing
<1>. QED
  BY <1>1, <1>2, <1>3, <1>4, <1>5, <1>6, <1>7, RemoveFrame DEF PollStep

LEMMA FillRemove ==
    ASSUME TypeInv, RemoveInv, "issue" \in live, NEW p \in Fillers, FillList(p) \/ FillLink(p)
    PROVE  RemoveInv'
<1>. p \in Procs /\ LocalsOK /\ loc[p] \in Locals
  BY DEF Procs, TypeInv, LocalsOK
<1>1. ASSUME FillList(p) PROVE Elsewhere(p) /\ NoneAdded
  <2>. DEFINE l == [loc[p] EXCEPT !.pc = "fill_link", !.iss = issue]
  <2>1. loc' = [loc EXCEPT ![p] = l] /\ l.pc = "fill_link" /\ l.arg = loc[p].arg
    BY <1>1 DEF FillList, LocalsOK, Locals
  <2>. QED BY <1>1, <2>1 DEF FillList, Elsewhere, NoneAdded, Removing
<1>2. ASSUME FillLink(p) PROVE Elsewhere(p) /\ NoneAdded
  <2>1. "get" \in PCs \ Removing
    BY DEF PCs, Removing
  <2>2. Elsewhere(p)
    BY <1>2, <2>1, GotoIsElsewhere, RestIsElsewhere DEF FillLink, Done, Elsewhere
  <2>. QED BY <1>2, <2>2 DEF FillLink, NoneAdded
<1>. QED BY <1>1, <1>2, RemoveFrame

LEMMA SyncRemove ==
    ASSUME TypeInv, RemoveInv, "issue" \in live, NEW p \in Procs,
           GetTask(p) \/ SyncStart(p) \/ WriteStep(p) \/ Raise(p)
    PROVE  RemoveInv'
<1>. LocalsOK /\ loc[p] \in Locals /\ Unremoved(loc[p])
  BY DEF TypeInv, LocalsOK, RemoveInv
<1>1. ASSUME GetTask(p) PROVE Elsewhere(p) /\ NoneAdded
  <2>. DEFINE l == [loc[p] EXCEPT !.tsk = task, !.pc = "sync"]
  <2>1. l.pc = "sync" /\ l.arg = loc[p].arg
    BY DEF Locals
  <2>2. loc' = [loc EXCEPT ![p] = Rest(p)] \/ loc' = [loc EXCEPT ![p] = l]
    BY <1>1 DEF GetTask, Done, LocalsOK, Locals
  <2>. HIDE DEF l
  <2>. QED BY <1>1, <2>1, <2>2, RestIsElsewhere DEF GetTask, Elsewhere, NoneAdded, Removing
<1>2. ASSUME SyncDuplicate(p) \/ SyncNoop(p) \/ Commit(p) \/ Raise(p)
      PROVE  Elsewhere(p) /\ NoneAdded
  <2>1. loc' = [loc EXCEPT ![p] = Rest(p)]
    BY <1>2 DEF SyncDuplicate, SyncNoop, Commit, Raise, Done
  <2>2. \/ UNCHANGED <<inbox, seen>>
        \/ LogEvent(p) /\ inbox' = inbox
        \/ seen' = seen /\ (inbox' = inbox \/ inbox' = inbox \cup {loc[p].arg})
    BY <1>2 DEF SyncDuplicate, SyncNoop, Commit, Raise
  <2>3. NoneAdded
    BY <2>2, LogAdds DEF NoneAdded, Unremoved
  <2>. QED BY <2>1, <2>3, RestIsElsewhere DEF Elsewhere
<1>3. ASSUME SyncWrite(p) \/ CompleteTask(p) PROVE Elsewhere(p) /\ NoneAdded
  <2>1. PICK pc \in {"update_issue", "complete", "update_task"} : Goto(p, pc)
    BY <1>3 DEF SyncWrite, CompleteTask
  <2>2. pc \in PCs \ Removing
    BY DEF PCs, Removing
  <2>3. UNCHANGED <<inbox, seen>>
    BY <1>3 DEF SyncWrite, CompleteTask
  <2>. QED BY <2>1, <2>2, <2>3, GotoIsElsewhere DEF NoneAdded
<1>4. ASSUME UpdateIssue(p) PROVE Elsewhere(p) /\ NoneAdded
  <2>. DEFINE l == [loc[p] EXCEPT !.iss = issue', !.pc = "commit_l"]
  <2>1. loc' = [loc EXCEPT ![p] = l] /\ l.arg = loc[p].arg /\ l.pc = "commit_l"
    BY <1>4 DEF UpdateIssue, LocalsOK, Locals
  <2>. QED BY <1>4, <2>1, NotifyAdds DEF UpdateIssue, Elsewhere, Removing
<1>5. ASSUME UpdateTask(p) PROVE Elsewhere(p) /\ NoneAdded
  <2>. DEFINE l == [loc[p] EXCEPT !.tsk = task', !.pc = "commit_t"]
  <2>1. loc' = [loc EXCEPT ![p] = l] /\ l.arg = loc[p].arg /\ l.pc = "commit_t"
    BY <1>5 DEF UpdateTask, LocalsOK, Locals
  <2>. QED BY <1>5, <2>1 DEF UpdateTask, Elsewhere, NoneAdded, Removing
<1>. QED
  BY <1>1, <1>2, <1>3, <1>4, <1>5, RemoveFrame DEF SyncStart, WriteStep

LEMMA WorldRemove ==
    ASSUME TypeInv, RemoveInv, "issue" \in live, "issue" \in live', WorldStep
    PROVE  RemoveInv'
<1>1. ASSUME UserEditsIssue PROVE RemoveInv'
  BY <1>1, NotifyAdds DEF UserEditsIssue, RemoveInv, NoneAdded
<1>2. ASSUME \/ UserEditsTask \/ UserDeletesTask \/ UserRestoresTask \/ EchoEndsL \/ EchoEndsT
             \/ \E d \in Deliveries : GiveUp(d)
      PROVE  RemoveInv'
  <2>1. UNCHANGED <<seen, loc>> /\ inbox' \subseteq inbox
    BY <1>2 DEF UserEditsTask, UserDeletesTask, UserRestoresTask, EchoEndsL, EchoEndsT, GiveUp
  <2>. QED BY <2>1 DEF RemoveInv
<1>3. ~UserDeletesIssue
  BY DEF UserDeletesIssue
<1>4. ASSUME NEW d \in Deliveries, Redeliver(d) PROVE RemoveInv'
  <2>1. d # RemoveId
    BY <1>4 DEF Redeliver, RemoveInv, Unremoved, Procs
  <2>. QED BY <1>4, <2>1 DEF Redeliver, RemoveInv
<1>5. ASSUME NEW i \in Instances, Crash(i) PROVE RemoveInv'
  <2>1. \A p \in Procs : Unremoved(Idle) /\ Unremoved(loc[p])
    BY RestIsElsewhere, DeliveriesAssumption DEF Unremoved, Deliveries, RemoveInv
  <2>2. \A p \in Procs : Unremoved(loc'[p])
    BY <1>5, <2>1 DEF Crash
  <2>3. RemoveId \notin {loc[p].arg : p \in {h \in Hooks : InstanceOf[h] = i /\ ~At(h, "idle")}}
    BY <2>1 DEF Unremoved, Procs
  <2>. QED BY <1>5, <2>2, <2>3 DEF Crash, RemoveInv
<1>. QED
  BY <1>1, <1>2, <1>3, <1>4, <1>5 DEF WorldStep, UserStep

\* Nobody brings a deleted issue back.
LEMMA IssueStaysGone ==
    ASSUME [Next]_vars, "issue" \in live'
    PROVE  "issue" \in live
<1>1. ASSUME WorldStep PROVE live' \subseteq live \cup {"task"}
  BY <1>1 DEF WorldStep, stores, UserStep, UserEditsIssue, UserEditsTask, UserDeletesIssue,
     UserDeletesTask, UserRestoresTask, Redeliver, GiveUp, EchoEndsL, EchoEndsT, Crash
<1>2. ASSUME NEW p \in Hooks, Receive(p) \/ HookStep(p) PROVE live' = live
  BY <1>2 DEF stores, Receive, HookStep, HookDuplicate, HookReceive, HookFind, HookSkip,
     RemoveGet, RemoveWrite, RemoveCommit, RemoveRejected
<1>3. ASSUME NEW p \in Pollers, PollList(p) \/ PollStep(p) PROVE live' = live
  BY <1>3 DEF stores, PollList, PollStep, PollBulk, PollSkip, PollIssueMissing, PollReset,
     PollHidden, PollMissing, PollMiss, PollCancelFind, PollCancelSkip, PollCancel, PollTombstone
<1>4. ASSUME NEW p \in Fillers, FillList(p) \/ FillLink(p) PROVE live' = live
  BY <1>4 DEF stores, FillList, FillLink
<1>5. ASSUME NEW p \in Procs, GetTask(p) \/ SyncStart(p) \/ WriteStep(p) \/ Raise(p)
      PROVE  live' = live
  BY <1>5 DEF stores, GetTask, SyncStart, WriteStep, SyncDuplicate, SyncNoop, SyncWrite,
     UpdateIssue, CompleteTask, UpdateTask, Commit, Raise
<1>. QED
  BY <1>1, <1>2, <1>3, <1>4, <1>5 DEF Next, WorldStep, vars

LEMMA RemoveHolds == TypeInv /\ RemoveInv /\ [Next]_vars => RemoveInv'
<1>. SUFFICES ASSUME TypeInv, RemoveInv, [Next]_vars, "issue" \in live' PROVE RemoveInv'
  BY DEF RemoveInv
<1>1. "issue" \in live
  BY IssueStaysGone
<1>2. ASSUME Next PROVE RemoveInv'
  BY <1>1, <1>2, HookRemove, PollRemove, FillRemove, SyncRemove, WorldRemove DEF Next, WorldStep
<1>3. ASSUME UNCHANGED vars PROVE RemoveInv'
  BY <1>3 DEF vars, RemoveInv
<1>. QED BY <1>2, <1>3

----------------------------------------------------------------------------
(* The steps in the life of the pair *)

Marked(i) == TombstonedLabel \in i.labels

\* Nothing of the pair's life changes, but a call may fail.
Uneventful ==
    /\ live' = live
    /\ tombstones' = tombstones
    /\ link'.tombstoned = link.tombstoned
    /\ Marked(issue') = Marked(issue)
    /\ Fault \/ faults' = faults

LEMMA FaultIsFailure ==
    ASSUME TypeInv, Fault \/ faults' = faults
    PROVE  (faults' > 0) = TRUE \/ (faults' > 0) = (faults > 0)
BY BoundsAssumption DEF TypeInv, CountsOK, Fault

LEMMA UneventfulStep ==
    ASSUME TypeInv, Uneventful
    PROVE  [Life!Next]_(Life!life)
<1>1. CASE faults' = faults
  BY <1>1 DEF Uneventful, Marked, Life!life
<1>2. CASE Fault
  <2>1. (faults' > 0) = TRUE
    BY <1>2, BoundsAssumption DEF TypeInv, CountsOK, Fault
  <2>2. Life!Fail
    BY <2>1 DEF Uneventful, Marked, Life!Fail
  <2>. QED BY <2>2 DEF Life!Next
<1>. QED BY <1>1, <1>2 DEF Uneventful

LEMMA BreakStep ==
    ASSUME TypeInv, live' = live, issue' = issue, Fault \/ faults' = faults,
           NEW r \in {"linear_missing", "tt_missing_2x", "linear_remove"},
           tombstones' = tombstones \cup {r}, link' = [link EXCEPT !.tombstoned = TRUE],
           Life!Justified(r)
    PROVE  Life!Next
<1>1. link'.tombstoned = TRUE
  BY DEF TypeInv, Links
<1>2. Life!Break(r)
  BY <1>1, FaultIsFailure DEF Life!Break
<1>. QED BY <1>2 DEF Life!Next, Life!Reason

LEMMA HookLives ==
    ASSUME TypeInv, RemoveInv, NEW p \in Hooks, Receive(p) \/ HookStep(p)
    PROVE  [Life!Next]_(Life!life)
<1>1. ASSUME \/ \E d \in Deliveries : HookDuplicate(p, d) \/ HookReceive(p, d)
             \/ HookFind(p) \/ HookSkip(p) \/ RemoveGet(p) \/ RemoveWrite(p) \/ RemoveRejected(p)
      PROVE  Uneventful
  BY <1>1 DEF HookDuplicate, HookReceive, HookFind, HookSkip, FindsIssue, FindsNoIssue,
     RemoveGet, RemoveWrite, RemoveRejected, Uneventful, stores
<1>2. ASSUME RemoveCommit(p) PROVE Life!Next
  <2>1. "issue" \notin live
    BY <1>2 DEF RemoveCommit, At, RemoveInv, Unremoved, Removing, Procs
  <2>2. Life!Justified("linear_remove")
    BY <2>1 DEF Life!Justified
  <2>. QED BY <1>2, <2>2, BreakStep DEF RemoveCommit, stores
<1>. QED BY <1>1, <1>2, UneventfulStep DEF Receive, HookStep

LEMMA PollLives ==
    ASSUME TypeInv, MissInv, NEW p \in Pollers, PollList(p) \/ PollStep(p)
    PROVE  [Life!Next]_(Life!life)
<1>. p \in Procs
  BY DEF Procs
<1>1. ASSUME \/ PollList(p) \/ PollBulk(p) \/ PollSkip(p) \/ PollMissing(p)
             \/ PollCancelFind(p) \/ PollCancelSkip(p)
      PROVE  Uneventful
  BY <1>1 DEF PollList, PollBulk, PollSkip, PollMissing, PollCancelFind, PollCancelSkip,
     FindsIssue, FindsNoIssue, Uneventful, stores
<1>2. ASSUME PollReset(p) \/ PollHidden(p) \/ PollMiss(p) PROVE Uneventful
  <2>1. link'.tombstoned = link.tombstoned
    BY <1>2 DEF PollReset, PollHidden, PollMiss, TypeInv, Links
  <2>. QED BY <1>2, <2>1 DEF PollReset, PollHidden, PollMiss, Uneventful, stores
<1>3. ASSUME PollIssueMissing(p) PROVE Life!Next
  <2>1. "issue" \notin live \/ faults' > 0
    BY <1>3, BoundsAssumption DEF PollIssueMissing, FindsNoIssue, Fault, TypeInv, CountsOK
  <2>2. Life!Justified("linear_missing")
    BY <2>1 DEF Life!Justified
  <2>. QED BY <1>3, <2>2, BreakStep DEF PollIssueMissing, FindsNoIssue, stores
<1>4. ASSUME PollTombstone(p) PROVE Life!Next
  <2>1. "task" \notin live
    BY <1>4 DEF PollTombstone, At, MissInv, Clean, Missed
  <2>2. Life!Justified("tt_missing_2x")
    BY <2>1 DEF Life!Justified
  <2>. QED BY <1>4, <2>2, BreakStep DEF PollTombstone, stores
<1>5. ASSUME PollCancel(p) PROVE Life!Next
  <2>1. "task" \notin live /\ "issue" \in live
    BY <1>5 DEF PollCancel, At, MissInv, Clean, Missed
  <2>2. Life!Relabel
    BY <1>5, <2>1 DEF PollCancel, Life!Relabel
  <2>. QED BY <2>2 DEF Life!Next
<1>. QED BY <1>1, <1>2, <1>3, <1>4, <1>5, UneventfulStep DEF PollStep

LEMMA FillLives ==
    ASSUME TypeInv, NEW p \in Fillers, FillList(p) \/ FillLink(p)
    PROVE  [Life!Next]_(Life!life)
<1>1. Uneventful
  BY DEF FillList, FillLink, Uneventful, stores
<1>. QED BY <1>1, UneventfulStep

LEMMA SyncLives ==
    ASSUME TypeInv, MissInv, NEW p \in Procs,
           GetTask(p) \/ SyncStart(p) \/ WriteStep(p) \/ Raise(p)
    PROVE  [Life!Next]_(Life!life)
<1>1. ASSUME \/ GetTask(p) \/ SyncStart(p) \/ CompleteTask(p) \/ UpdateTask(p) \/ Raise(p)
      PROVE  Uneventful
  BY <1>1 DEF GetTask, SyncStart, SyncDuplicate, SyncNoop, SyncWrite, CompleteTask, UpdateTask,
     Raise, Uneventful, stores
<1>2. ASSUME Commit(p) PROVE Uneventful
  <2>1. link'.tombstoned = link.tombstoned
    BY <1>2 DEF Commit, mark_synced, TypeInv, Links
  <2>. QED BY <1>2, <2>1 DEF Commit, Uneventful, stores
<1>3. ASSUME UpdateIssue(p), "task" \in live PROVE Uneventful
  <2>1. loc[p].iss \in Issues /\ issue \in Issues
    BY <1>3 DEF UpdateIssue, At, LocalsOK, ReadingOK, HoldsIssue, TypeInv, StoresOK
  <2>2. Unmarked(loc[p].iss) /\ Unmarked(issue)
    BY <1>3, <2>1, NoneAssumption DEF MissInv, Clean
  <2>3. issue'.labels = labels_after_sync(loc[p].iss.labels, loc[p].tsk.column)
    BY <1>3, <2>1 DEF UpdateIssue, apply_tt_to_linear, Issues
  <2>4. Unmarked(issue')
    BY <2>2, <2>3 DEF Unmarked, labels_after_sync, TombstonedLabel
  <2>. QED BY <1>3, <2>2, <2>4 DEF UpdateIssue, Uneventful, Marked, Unmarked
<1>4. ASSUME UpdateIssue(p), "task" \notin live PROVE Life!Next
  <2>1. Life!Relabel
    BY <1>4 DEF UpdateIssue, Life!Relabel
  <2>. QED BY <2>1 DEF Life!Next
<1>. QED BY <1>1, <1>2, <1>3, <1>4, UneventfulStep DEF WriteStep

LEMMA WorldLives ==
    ASSUME "restore_task" \notin UserOps, TypeInv, WorldStep
    PROVE  [Life!Next]_(Life!life)
<1>1. ASSUME UserEditsIssue PROVE Uneventful
  <2>1. issue'.labels = issue.labels
    BY <1>1 DEF UserEditsIssue, EditedIssues, Issues, TypeInv, StoresOK
  <2>. QED BY <1>1, <2>1 DEF UserEditsIssue, Uneventful, Marked
<1>2. ASSUME \/ UserEditsTask \/ \E d \in Deliveries : Redeliver(d) \/ GiveUp(d)
             \/ \E i \in Instances : Crash(i)
      PROVE  Uneventful
  BY <1>2 DEF UserEditsTask, Redeliver, GiveUp, Crash, Uneventful, stores
<1>3. ASSUME EchoEndsL \/ EchoEndsT PROVE Uneventful
  <2>1. link'.tombstoned = link.tombstoned
    BY <1>3 DEF EchoEndsL, EchoEndsT, TypeInv, Links
  <2>. QED BY <1>3, <2>1 DEF EchoEndsL, EchoEndsT, Uneventful, stores
<1>4. ASSUME NEW h \in {"issue", "task"}, h \in live, live' = live \ {h},
             UNCHANGED <<issue, link, tombstones, faults>>
      PROVE  Life!Next
  <2>1. Life!Lose(h)
    BY <1>4 DEF Life!Lose
  <2>. QED BY <1>4, <2>1 DEF Life!Next
<1>5. ASSUME UserDeletesIssue \/ UserDeletesTask PROVE Life!Next
  BY <1>4, <1>5 DEF UserDeletesIssue, UserDeletesTask
<1>6. ~UserRestoresTask
  BY DEF UserRestoresTask, UserMay
<1>. QED BY <1>1, <1>2, <1>3, <1>5, <1>6, UneventfulStep DEF WorldStep, UserStep

LEMMA StepLives ==
    ASSUME "restore_task" \notin UserOps, TypeInv, MissInv, RemoveInv, [Next]_vars
    PROVE  [Life!Next]_(Life!life)
<1>1. ASSUME Next PROVE [Life!Next]_(Life!life)
  BY <1>1, HookLives, PollLives, FillLives, SyncLives, WorldLives DEF Next, WorldStep
<1>2. ASSUME UNCHANGED vars PROVE [Life!Next]_(Life!life)
  BY <1>2 DEF vars, Life!life
<1>. QED BY <1>1, <1>2

LEMMA RemoveAtFirst == Init => RemoveInv
BY DeliveriesAssumption DEF Init, RemoveInv, Unremoved, Idle, Removing, Deliveries

LEMMA LivesAtFirst == Init => Life!Init
<1>. SUFFICES ASSUME Init PROVE Life!Init
  OBVIOUS
<1>1. ~link.tombstoned /\ link.tombstoned = FALSE /\ (faults > 0) = FALSE
  BY DEF Init
<1>2. (TombstonedLabel \in issue.labels) = FALSE
  BY DEF Init, linear_issue_for, TombstonedLabel
<1>. QED BY <1>1, <1>2 DEF Init, Life!Init

\* If deleted tasks stay deleted, every step of the handlers, the jobs and the
\* users is a step in the life of a pair as PairLife describes it: LinkSync
\* gives a pair up, and marks its issue, only with the reason it notes.
THEOREM ImplementsLife ==
    ASSUME "restore_task" \notin UserOps
    PROVE  Spec => ImplementsPairLife
BY LivesAtFirst, StepLives, TypesHold, MissAtFirst, MissHolds, RemoveAtFirst, RemoveHolds, PTL
   DEF Spec, ImplementsPairLife, Life!Spec

----------------------------------------------------------------------------
(* What PairLife keeps, LinkSync keeps. *)

LEMMA ReasonsAtFirst == Life!Init => Life!EachHasItsReason
BY DEF Life!Init, Life!EachHasItsReason

LEMMA ReasonsStep ==
    Life!EachHasItsReason /\ [Life!Next]_(Life!life) => Life!EachHasItsReason'
<1>. SUFFICES ASSUME Life!EachHasItsReason, [Life!Next]_(Life!life) PROVE Life!EachHasItsReason'
  OBVIOUS
<1>1. ASSUME NEW h \in live, Life!Lose(h) PROVE Life!EachHasItsReason'
  BY <1>1 DEF Life!Lose, Life!EachHasItsReason
<1>2. ASSUME Life!Fail PROVE Life!EachHasItsReason'
  BY <1>2 DEF Life!Fail, Life!EachHasItsReason
<1>3. ASSUME NEW r \in Life!Reason, Life!Break(r) PROVE Life!EachHasItsReason'
  BY <1>3 DEF Life!Break, Life!Justified, Life!Reason, Life!EachHasItsReason
<1>4. ASSUME Life!Relabel PROVE Life!EachHasItsReason'
  BY <1>4 DEF Life!Relabel, Life!EachHasItsReason
<1>5. ASSUME UNCHANGED Life!life PROVE Life!EachHasItsReason'
  BY <1>5 DEF Life!life, Life!EachHasItsReason
<1>. QED BY <1>1, <1>2, <1>3, <1>4, <1>5 DEF Life!Next

\* If deleted tasks stay deleted and no call fails, a link is tombstoned only
\* when one half of its pair is gone, whatever of it the poll's bulk set lacks.
THEOREM TombstonedIsBroken ==
    ASSUME "restore_task" \notin UserOps
    PROVE  Spec => []TombstonedPairIsBroken
<1>1. Life!EachHasItsReason => TombstonedPairIsBroken
  BY DEF Life!EachHasItsReason, Life!Reason, TombstonedPairIsBroken
<1>2. Life!Spec => []Life!EachHasItsReason
  BY ReasonsAtFirst, ReasonsStep, PTL DEF Life!Spec
<1>. QED
  BY <1>1, <1>2, ImplementsLife, PTL DEF ImplementsPairLife
=============================================================================
