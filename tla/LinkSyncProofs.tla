--------------------------- MODULE LinkSyncProofs ---------------------------
(***************************************************************************)
(* Invariants of LinkSync, for any number of handlers, polls, backfills and  *)
(* processes, any board of workflow states and any bounds.                   *)
(***************************************************************************)
EXTENDS LinkSync, MappersProofs

HoldsIssue == {"get", "sync", "update_issue", "complete", "update_task", "commit_l",
               "commit_t", "fill_link", "cancel"}
Writing    == {"update_issue", "complete", "update_task", "commit_l", "commit_t"}
HoldsBoth  == Writing \cup {"sync"}

\* What a process at each place has read.
ReadingOK(p, l) ==
    /\ l \in Locals
    /\ l.pc \in HoldsIssue => l.iss \in Issues
    /\ l.pc \in HoldsBoth => l.tsk \in Tasks
    /\ l.pc = "cancel" => CanceledStates # {}
    /\ p \in Hooks => ~l.listed
    /\ p \in Hooks /\ l.pc # "idle" => l.arg \in Deliveries

LocalsOK == loc \in [Procs -> Locals] /\ \A p \in Procs : ReadingOK(p, loc[p])

StoresOK == issue \in Issues /\ task \in Tasks /\ live \subseteq {"issue", "task"}
NotesOK  == tombstones \subseteq {"linear_missing", "tt_missing_2x", "linear_remove"}
QueuesOK == seen \subseteq Deliveries /\ inbox \subseteq Deliveries
LockOK   == lock \in [Instances -> Procs \cup {None}]
CountsOK == edits \in 0..MaxEdits /\ faults \in 0..MaxFaults

TypeInv == StoresOK /\ link \in Links /\ NotesOK /\ QueuesOK /\ LockOK /\ LocalsOK /\ CountsOK

----------------------------------------------------------------------------
(* The data the processes pass around *)

\* apply_tt_to_linear returns an issue with the title and the priority of the
\* task.
LEMMA IssueWrite ==
    ASSUME NEW server \in Issues, NEW i \in Issues, NEW t \in Tasks
    PROVE  LET w == apply_tt_to_linear(server, i, t)
           IN  /\ w \in Issues
               /\ w.title = t.title
               /\ linear_priority_to_tt(w.priority) = clamp_tt_priority(t.priority)
<1>. DEFINE st == pick_linear_state_from_tt(t.status, state_by_id(i.state))
            pr == tt_priority_to_linear(t.priority, i.priority)
            de == render_description(t)
            la == labels_after_sync(i.labels, t.column)
            du == IF t.due = NoDue THEN server.due ELSE tt_due_to_linear_date(t.due)
<1>1. st \in State
  BY LinearStateIsState
<1>2. pr \in 0..4 /\ linear_priority_to_tt(pr) = clamp_tt_priority(t.priority)
  BY PriorityRoundTrip DEF Tasks
<1>3. de \in [body : Bodies, items : ItemLists]
  BY DEF Tasks, render_description
<1>4. la \in SUBSET LabelNames
  BY DEF Issues, labels_after_sync, LabelNames
<1>5. du \in Dues
  BY DEF Issues, Tasks, tt_due_to_linear_date
<1>6. apply_tt_to_linear(server, i, t) =
        [server EXCEPT !.title = t.title, !.description = de, !.state = st,
                       !.priority = pr, !.labels = la, !.due = du]
  BY DEF apply_tt_to_linear
<1>. HIDE DEF st, pr, de, la, du
<1>. QED
  BY <1>1, <1>2, <1>3, <1>4, <1>5, <1>6 DEF Issues, Tasks

\* apply_linear_to_tt returns a task with the title and the priority of the
\* issue.
LEMMA TaskWrite ==
    ASSUME NEW server \in Tasks, NEW i \in Issues, NEW t \in Tasks
    PROVE  LET w == apply_linear_to_tt(server, i, t)
           IN  /\ w \in Tasks
               /\ w.title = i.title
               /\ linear_priority_to_tt(i.priority) = clamp_tt_priority(w.priority)
<1>. DEFINE body == split_linear_description(i.description)
            pr == linear_priority_to_tt(i.priority)
            co == IF body # t.content THEN body ELSE server.content
            ts == linear_state_to_tt_status(i.state.type)
            st == IF ts # t.status /\ ts # TT_COMPLETED THEN ts ELSE server.status
            du == IF due_differs(i, t) THEN tt_due_for(i, t) ELSE server.due
            ad == IF due_differs(i, t) /\ i.due # NoDue /\ ~keeps_time_of_day(t)
                  THEN TRUE ELSE server.all_day
<1>1. pr \in Int /\ clamp_tt_priority(pr) = pr
  BY SentPriorityIsBucket DEF Buckets
<1>2. co \in Bodies
  BY DEF Issues, Tasks, split_linear_description
<1>3. st \in TTStatuses
  BY DEF Tasks, linear_state_to_tt_status, TTStatuses
<1>4. du \in Dues
  <2>1. i.due \in Dues /\ server.due \in Dues
    BY DEF Issues, Tasks
  <2>2. i.due # NoDue => i.due + DayShift \in Dues
    BY <2>1, DateAssumption DEF Dues
  <2>. QED
    BY <2>1, <2>2 DEF tt_due_for, linear_date_to_tt_all_day_iso
<1>5. ad \in BOOLEAN
  BY DEF Tasks
<1>6. apply_linear_to_tt(server, i, t) =
        [server EXCEPT !.title = i.title, !.priority = pr, !.content = co,
                       !.status = st, !.due = du, !.all_day = ad]
  BY DEF apply_linear_to_tt
<1>. HIDE DEF body, pr, co, ts, st, du, ad
<1>7. apply_linear_to_tt(server, i, t).priority = pr
  BY <1>6 DEF Tasks
<1>. QED
  BY <1>1, <1>2, <1>3, <1>4, <1>5, <1>6, <1>7 DEF Issues, Tasks, pr

LEMMA HashIsHash ==
    ASSUME NEW i \in Issues, NEW t \in Tasks
    PROVE  canonical_hash(i, t) \in Hashes
BY DEF canonical_hash, Hashes, Issues, Tasks, State

\* A created issue has the title and the priority of its task.
LEMMA CreatedIssue ==
    ASSUME NEW t \in Tasks
    PROVE  /\ linear_issue_for(t) \in Issues
           /\ linear_issue_for(t).title = t.title
           /\ linear_priority_to_tt(linear_issue_for(t).priority) = clamp_tt_priority(t.priority)
<1>1. pick_linear_state_from_tt(t.status, NoState) \in State
  BY PickedStateIsKnown DEF pick_linear_state_from_tt, NoState
<1>2. /\ tt_priority_to_linear(t.priority, 0) \in 0..4
      /\ linear_priority_to_tt(tt_priority_to_linear(t.priority, 0)) = clamp_tt_priority(t.priority)
  BY PriorityRoundTrip DEF Tasks
<1>3. render_description(t) \in [body : Bodies, items : ItemLists]
  BY DEF Tasks, render_description
<1>4. {"ticktick-sync"} \cup (IF map_column_to_label(t.column) = "Delegated"
                              THEN {"Delegated"} ELSE {}) \in SUBSET LabelNames
  BY DEF LabelNames
<1>. QED
  BY <1>1, <1>2, <1>3, <1>4 DEF linear_issue_for, Issues, Tasks

----------------------------------------------------------------------------
(* How a step changes what the processes hold *)

LEMMA LocalStep ==
    ASSUME LocalsOK, NEW p \in Procs, NEW l, ReadingOK(p, l), loc' = [loc EXCEPT ![p] = l]
    PROVE  LocalsOK'
BY DEF LocalsOK, ReadingOK

LEMMA RestIsOK ==
    ASSUME LocalsOK, NEW p \in Procs
    PROVE  ReadingOK(p, Rest(p)) /\ ReadingOK(p, Idle)
BY DEF LocalsOK, ReadingOK, Rest, Idle, Locals, PCs, HoldsIssue, HoldsBoth, Writing

LEMMA GotoIsStep ==
    ASSUME LocalsOK, NEW p \in Procs, NEW pc \in PCs, Goto(p, pc),
           ReadingOK(p, [loc[p] EXCEPT !.pc = pc])
    PROVE  LocalsOK'
BY LocalStep DEF Goto, LocalsOK

LEMMA NotifyKeepsQueues ==
    ASSUME QueuesOK, Notify
    PROVE  QueuesOK'
<1>1. CASE Unused = {}
  BY <1>1 DEF Notify, QueuesOK
<1>2. CASE Unused # {}
  <2>. DEFINE d == CHOOSE u \in Unused : TRUE
  <2>1. d \in UpdateIds
    BY <1>2 DEF Unused
  <2>2. inbox' = inbox \cup {d} /\ seen' = seen \ {d}
    BY <1>2 DEF Notify
  <2>. QED BY <2>1, <2>2 DEF QueuesOK, Deliveries
<1>. QED BY <1>1, <1>2

LEMMA FaultKeepsCounts ==
    ASSUME CountsOK, UNCHANGED edits, Fault \/ UNCHANGED faults
    PROVE  CountsOK'
BY BoundsAssumption DEF CountsOK, Fault

LEMMA LogKeepsQueues ==
    ASSUME QueuesOK, LocalsOK, NEW p \in Procs, p \in Hooks => loc[p].pc # "idle",
           LogEvent(p), UNCHANGED inbox
    PROVE  QueuesOK'
BY DEF QueuesOK, LocalsOK, ReadingOK, LogEvent

----------------------------------------------------------------------------
(* Every step keeps the types. *)

LEMMA TypesAtFirst == Init => TypeInv
<1>. SUFFICES ASSUME Init PROVE TypeInv
  OBVIOUS
<1>1. task \in Tasks
  BY ContentAssumption DEF Init, NewTasks, Tasks, Dues, TTStatuses
<1>2. issue \in Issues
  BY <1>1, CreatedIssue DEF Init
<1>3. link \in Links
  BY <1>1, <1>2, HashIsHash DEF Init, Links, TT_MISS_THRESHOLD
<1>4. LocalsOK
  BY DEF Init, LocalsOK, ReadingOK, Idle, Locals, PCs, HoldsIssue, HoldsBoth, Writing
<1>5. QueuesOK
  <2>1. (CHOOSE d \in UpdateIds : TRUE) \in UpdateIds
    BY DeliveriesAssumption
  <2>. QED BY <2>1 DEF Init, QueuesOK, Deliveries
<1>. QED
  BY <1>1, <1>2, <1>3, <1>4, <1>5, BoundsAssumption
     DEF Init, TypeInv, StoresOK, NotesOK, LockOK, CountsOK

LEMMA HookKeepsTypes ==
    ASSUME TypeInv, NEW p \in Hooks, Receive(p) \/ HookStep(p)
    PROVE  TypeInv'
<1>. p \in Procs
  BY DEF Procs
<1>. USE DEF TypeInv, StoresOK, NotesOK, LockOK, stores
<1>a. loc[p].pc \in HoldsIssue => loc[p].iss \in Issues
  BY DEF LocalsOK, ReadingOK
<1>1. ASSUME NEW d \in Deliveries, HookDuplicate(p, d) PROVE TypeInv'
  BY <1>1 DEF HookDuplicate, QueuesOK, LocalsOK, CountsOK
<1>2. ASSUME NEW d \in Deliveries, HookReceive(p, d) PROVE TypeInv'
  <2>1. LocalsOK'
    <3>. DEFINE l == [Idle EXCEPT !.pc = IF d = RemoveId THEN "remove_get" ELSE "find",
                                  !.arg = d]
    <3>1. ReadingOK(p, l)
      BY DEF ReadingOK, Idle, Locals, PCs, HoldsIssue, HoldsBoth, Writing
    <3>. QED BY <1>2, <3>1, LocalStep DEF HookReceive
  <2>. QED BY <1>2, <2>1 DEF HookReceive, QueuesOK, CountsOK
<1>3. ASSUME HookFind(p) PROVE TypeInv'
  <2>1. LocalsOK'
    <3>. DEFINE l == [loc[p] EXCEPT !.iss = issue, !.pc = "get"]
    <3>1. ReadingOK(p, l)
      BY <1>3 DEF HookFind, At, LocalsOK, ReadingOK, Locals, PCs, HoldsIssue, HoldsBoth, Writing
    <3>2. loc' = [loc EXCEPT ![p] = l]
      BY <1>3 DEF HookFind, LocalsOK, Locals
    <3>. QED BY <3>1, <3>2, LocalStep
  <2>. QED BY <1>3, <2>1, FaultKeepsCounts DEF HookFind, FindsIssue, QueuesOK
<1>4. ASSUME HookSkip(p) PROVE TypeInv'
  <2>1. LocalsOK'
    BY <1>4, RestIsOK, LocalStep DEF HookSkip, Done
  <2>. QED BY <1>4, <2>1, FaultKeepsCounts DEF HookSkip, FindsNoIssue, QueuesOK
<1>5. ASSUME RemoveGet(p) PROVE TypeInv'
  <2>1. LocalsOK'
    <3>. DEFINE pc == IF "task" \in live THEN "remove_write" ELSE "remove_commit"
    <3>1. pc \in PCs /\ ReadingOK(p, [loc[p] EXCEPT !.pc = pc])
      BY <1>5 DEF RemoveGet, At, LocalsOK, ReadingOK, Locals, PCs, HoldsIssue, HoldsBoth, Writing
    <3>. QED BY <1>5, <3>1, GotoIsStep DEF RemoveGet
  <2>. QED BY <1>5, <2>1 DEF RemoveGet, QueuesOK, CountsOK
<1>6. ASSUME RemoveWrite(p) PROVE TypeInv'
  <2>1. LocalsOK'
    <3>1. "remove_commit" \in PCs /\ ReadingOK(p, [loc[p] EXCEPT !.pc = "remove_commit"])
      BY <1>6 DEF RemoveWrite, At, LocalsOK, ReadingOK, Locals, PCs, HoldsIssue, HoldsBoth, Writing
    <3>. QED BY <1>6, <3>1, GotoIsStep DEF RemoveWrite
  <2>2. task' \in Tasks
    BY <1>6 DEF RemoveWrite, Tasks, TTStatuses
  <2>. QED BY <1>6, <2>1, <2>2 DEF RemoveWrite, QueuesOK, CountsOK
<1>7. ASSUME RemoveCommit(p) PROVE TypeInv'
  <2>1. LocalsOK'
    BY <1>7, RestIsOK, LocalStep DEF RemoveCommit, Done
  <2>2. QueuesOK'
    BY <1>7, LogKeepsQueues DEF RemoveCommit, At
  <2>3. link' \in Links
    BY <1>7 DEF RemoveCommit, Links
  <2>. QED BY <1>7, <2>1, <2>2, <2>3 DEF RemoveCommit, CountsOK
<1>8. ASSUME RemoveRejected(p) PROVE TypeInv'
  <2>1. LocalsOK'
    BY <1>8, RestIsOK, LocalStep DEF RemoveRejected, Done
  <2>2. QueuesOK'
    BY <1>8 DEF RemoveRejected, At, QueuesOK, LocalsOK, ReadingOK
  <2>. QED BY <1>8, <2>1, <2>2 DEF RemoveRejected, CountsOK
<1>. QED
  BY <1>1, <1>2, <1>3, <1>4, <1>5, <1>6, <1>7, <1>8 DEF Receive, HookStep

LEMMA PollKeepsTypes ==
    ASSUME TypeInv, NEW p \in Pollers, PollList(p) \/ PollStep(p)
    PROVE  TypeInv'
<1>. p \in Procs /\ p \notin Hooks
  BY ProcsAssumption DEF Procs
<1>. USE DEF TypeInv, StoresOK, NotesOK, LockOK, stores
<1>1. ASSUME PollList(p) PROVE TypeInv'
  <2>. DEFINE t == IF "task" \in live /\ task.status = TT_OPEN THEN task ELSE None
              l == [loc[p] EXCEPT !.pc = "bulk", !.tsk = t]
  <2>1. ReadingOK(p, l)
    BY DEF LocalsOK, ReadingOK, Locals, PCs, HoldsIssue, HoldsBoth, Writing
  <2>2. loc' = [loc EXCEPT ![p] = l]
    BY <1>1 DEF PollList, LocalsOK, Locals
  <2>3. LocalsOK'
    BY <2>1, <2>2, LocalStep
  <2>. QED BY <1>1, <2>3 DEF PollList, QueuesOK, CountsOK
<1>2. ASSUME PollBulk(p) PROVE TypeInv'
  <2>1. PICK i \in BulkIssue :
         \/ /\ loc[p].tsk # None
            /\ loc' = [loc EXCEPT ![p].iss = i, ![p].listed = TRUE,
                         ![p].pc = IF i = None THEN "probe_issue" ELSE "sync"]
         \/ /\ loc[p].tsk = None
            /\ loc' = IF link.tombstoned THEN [loc EXCEPT ![p] = Idle]
                      ELSE [loc EXCEPT ![p].iss = i, ![p].pc = "probe_task"]
    BY <1>2 DEF PollBulk
  <2>2. i \in Issues \cup {None}
    BY DEF BulkIssue
  <2>. DEFINE l1 == [loc[p] EXCEPT !.iss = i, !.listed = TRUE,
                        !.pc = IF i = None THEN "probe_issue" ELSE "sync"]
              l2 == [loc[p] EXCEPT !.iss = i, !.pc = "probe_task"]
  <2>3. loc[p] \in Locals
    BY DEF LocalsOK
  <2>4. ReadingOK(p, l1) \/ loc[p].tsk = None
    <3>1. l1 \in Locals
      BY <2>2, <2>3 DEF Locals, PCs
    <3>2. loc[p].tsk # None => l1.tsk \in Tasks
      BY <2>3 DEF Locals
    <3>3. l1.pc = "sync" => l1.iss \in Issues
      BY <2>2, <2>3 DEF Locals
    <3>4. l1.pc \in {"probe_issue", "sync"}
      BY <2>3 DEF Locals
    <3>. QED BY <3>1, <3>2, <3>3, <3>4 DEF ReadingOK, HoldsIssue, HoldsBoth, Writing
  <2>5. ReadingOK(p, l2)
    BY <2>2, <2>3 DEF ReadingOK, Locals, PCs, HoldsIssue, HoldsBoth, Writing
  <2>6. \/ loc[p].tsk # None /\ loc' = [loc EXCEPT ![p] = l1]
        \/ loc' = [loc EXCEPT ![p] = Idle]
        \/ loc' = [loc EXCEPT ![p] = l2]
    BY <2>1 DEF LocalsOK, Locals
  <2>. HIDE DEF l1, l2
  <2>7. LocalsOK'
    BY <2>4, <2>5, <2>6, RestIsOK, LocalStep
  <2>. QED BY <1>2, <2>7 DEF PollBulk, QueuesOK, CountsOK
<1>3. ASSUME PollSkip(p) PROVE TypeInv'
  <2>1. LocalsOK'
    BY <1>3, RestIsOK, LocalStep DEF PollSkip, Done
  <2>. QED BY <1>3, <2>1, FaultKeepsCounts DEF PollSkip, FindsIssue, QueuesOK
<1>4. ASSUME PollIssueMissing(p) PROVE TypeInv'
  <2>1. LocalsOK'
    BY <1>4, RestIsOK, LocalStep DEF PollIssueMissing
  <2>2. link' \in Links
    BY <1>4 DEF PollIssueMissing, Links
  <2>. QED BY <1>4, <2>1, <2>2, FaultKeepsCounts DEF PollIssueMissing, FindsNoIssue, QueuesOK
<1>5. ASSUME PollReset(p) PROVE TypeInv'
  <2>1. LocalsOK'
    BY <1>5, RestIsOK, LocalStep DEF PollReset
  <2>2. link' \in Links
    BY <1>5 DEF PollReset, Links, TT_MISS_THRESHOLD
  <2>. QED BY <1>5, <2>1, <2>2 DEF PollReset, QueuesOK, CountsOK
<1>6. ASSUME PollHidden(p) PROVE TypeInv'
  <2>. DEFINE l == [loc[p] EXCEPT !.tsk = task, !.pc = "sync"]
  <2>1. loc[p] \in Locals
    BY DEF LocalsOK
  <2>2. loc[p].iss # None => ReadingOK(p, l)
    BY <2>1 DEF ReadingOK, Locals, PCs, HoldsIssue, HoldsBoth, Writing
  <2>3. \/ loc' = [loc EXCEPT ![p] = Idle]
        \/ loc[p].iss # None /\ loc' = [loc EXCEPT ![p] = l]
    BY <1>6 DEF PollHidden, LocalsOK, Locals
  <2>. HIDE DEF l
  <2>4. LocalsOK'
    BY <2>2, <2>3, RestIsOK, LocalStep
  <2>5. link' \in Links
    BY <1>6 DEF PollHidden, Links, TT_MISS_THRESHOLD
  <2>. QED BY <1>6, <2>4, <2>5 DEF PollHidden, QueuesOK, CountsOK
<1>7. ASSUME PollMissing(p) PROVE TypeInv'
  <2>1. "miss" \in PCs /\ ReadingOK(p, [loc[p] EXCEPT !.pc = "miss"])
    BY DEF LocalsOK, ReadingOK, Locals, PCs, HoldsIssue, HoldsBoth, Writing
  <2>2. LocalsOK'
    BY <1>7, <2>1, GotoIsStep DEF PollMissing
  <2>. QED BY <1>7, <2>2 DEF PollMissing, QueuesOK, CountsOK
<1>8. ASSUME PollMiss(p) PROVE TypeInv'
  <2>. DEFINE l == IF link.miss + 1 < TT_MISS_THRESHOLD THEN Idle
                   ELSE [Idle EXCEPT !.pc = "cancel_find"]
  <2>1. ReadingOK(p, l)
    BY DEF Idle, ReadingOK, Locals, PCs, HoldsIssue, HoldsBoth, Writing
  <2>2. LocalsOK'
    BY <1>8, <2>1, LocalStep DEF PollMiss
  <2>3. link' \in Links
    BY <1>8 DEF PollMiss, Links, TT_MISS_THRESHOLD
  <2>. QED BY <1>8, <2>2, <2>3 DEF PollMiss, QueuesOK, CountsOK
<1>9. ASSUME PollCancelFind(p) PROVE TypeInv'
  <2>. DEFINE l == [loc[p] EXCEPT !.iss = issue,
                       !.pc = IF CanceledStates = {} THEN "tombstone" ELSE "cancel"]
  <2>1. ReadingOK(p, l)
    BY DEF LocalsOK, ReadingOK, Locals, PCs, HoldsIssue, HoldsBoth, Writing
  <2>2. loc' = [loc EXCEPT ![p] = l]
    BY <1>9 DEF PollCancelFind, LocalsOK, Locals
  <2>3. LocalsOK'
    BY <2>1, <2>2, LocalStep
  <2>. QED BY <1>9, <2>3, FaultKeepsCounts DEF PollCancelFind, FindsIssue, QueuesOK
<1>10. ASSUME PollCancelSkip(p) PROVE TypeInv'
  <2>1. "tombstone" \in PCs /\ ReadingOK(p, [loc[p] EXCEPT !.pc = "tombstone"])
    BY DEF LocalsOK, ReadingOK, Locals, PCs, HoldsIssue, HoldsBoth, Writing
  <2>2. LocalsOK'
    BY <1>10, <2>1, GotoIsStep DEF PollCancelSkip
  <2>. QED BY <1>10, <2>2, FaultKeepsCounts DEF PollCancelSkip, FindsNoIssue, QueuesOK
<1>11. ASSUME PollCancel(p) PROVE TypeInv'
  <2>1. "tombstone" \in PCs /\ ReadingOK(p, [loc[p] EXCEPT !.pc = "tombstone"])
    BY DEF LocalsOK, ReadingOK, Locals, PCs, HoldsIssue, HoldsBoth, Writing
  <2>2. LocalsOK'
    BY <1>11, <2>1, GotoIsStep DEF PollCancel
  <2>3. CanceledStates # {} /\ loc[p].iss \in Issues
    BY <1>11 DEF PollCancel, At, LocalsOK, ReadingOK, HoldsIssue
  <2>4. TeamStates[FirstOf(CanceledStates)] \in State
    <3>1. DOMAIN TeamStates = 1..Len(TeamStates) /\ CanceledStates \in SUBSET Nat
      BY TeamStatesAssumption DEF CanceledStates
    <3>2. FirstOf(CanceledStates) \in CanceledStates
      BY <2>3, <3>1, FirstOfIsMember
    <3>. QED BY <3>1, <3>2, TeamStatesAssumption DEF CanceledStates
  <2>5. issue' \in Issues
    BY <1>11, <2>3, <2>4 DEF PollCancel, Issues, LabelNames
  <2>6. QueuesOK'
    BY <1>11, NotifyKeepsQueues DEF PollCancel
  <2>. QED BY <1>11, <2>2, <2>5, <2>6 DEF PollCancel, CountsOK
<1>12. ASSUME PollTombstone(p) PROVE TypeInv'
  <2>1. LocalsOK'
    BY <1>12, RestIsOK, LocalStep DEF PollTombstone
  <2>2. link' \in Links
    BY <1>12 DEF PollTombstone, Links
  <2>. QED BY <1>12, <2>1, <2>2 DEF PollTombstone, QueuesOK, CountsOK
<1>. QED
  BY <1>1, <1>2, <1>3, <1>4, <1>5, <1>6, <1>7, <1>8, <1>9, <1>10, <1>11, <1>12 DEF PollStep

LEMMA FillKeepsTypes ==
    ASSUME TypeInv, NEW p \in Fillers, FillList(p) \/ FillLink(p)
    PROVE  TypeInv'
<1>. p \in Procs /\ p \notin Hooks
  BY ProcsAssumption DEF Procs
<1>. USE DEF TypeInv, StoresOK, NotesOK, LockOK, stores
<1>1. ASSUME FillList(p) PROVE TypeInv'
  <2>. DEFINE l == [loc[p] EXCEPT !.pc = "fill_link", !.iss = issue]
  <2>1. ReadingOK(p, l)
    BY DEF LocalsOK, ReadingOK, Locals, PCs, HoldsIssue, HoldsBoth, Writing
  <2>2. loc' = [loc EXCEPT ![p] = l]
    BY <1>1 DEF FillList, LocalsOK, Locals
  <2>3. LocalsOK'
    BY <2>1, <2>2, LocalStep
  <2>. QED BY <1>1, <2>3 DEF FillList, QueuesOK, CountsOK
<1>2. ASSUME FillLink(p) PROVE TypeInv'
  <2>1. "get" \in PCs /\ ReadingOK(p, [loc[p] EXCEPT !.pc = "get"])
    BY <1>2 DEF FillLink, At, LocalsOK, ReadingOK, Locals, PCs, HoldsIssue, HoldsBoth, Writing
  <2>2. LocalsOK'
    BY <1>2, <2>1, RestIsOK, LocalStep, GotoIsStep DEF FillLink, Done
  <2>. QED BY <1>2, <2>2 DEF FillLink, QueuesOK, CountsOK
<1>. QED
  BY <1>1, <1>2

LEMMA SyncKeepsTypes ==
    ASSUME TypeInv, NEW p \in Procs, GetTask(p) \/ SyncStart(p) \/ WriteStep(p) \/ Raise(p)
    PROVE  TypeInv'
<1>. USE DEF TypeInv, StoresOK, NotesOK, LockOK, stores
<1>a. loc[p] \in Locals /\ ReadingOK(p, loc[p])
  BY DEF LocalsOK
<1>b. InstanceOf[p] \in Instances
  BY ProcsAssumption
<1>1. ASSUME GetTask(p) PROVE TypeInv'
  <2>. DEFINE l == [loc[p] EXCEPT !.tsk = task, !.pc = "sync"]
  <2>1. ReadingOK(p, l)
    BY <1>1, <1>a DEF GetTask, At, ReadingOK, Locals, PCs, HoldsIssue, HoldsBoth, Writing
  <2>2. Done(p) \/ loc' = [loc EXCEPT ![p] = l]
    BY <1>1 DEF GetTask, LocalsOK, Locals
  <2>. HIDE DEF l
  <2>3. LocalsOK'
    BY <2>1, <2>2, RestIsOK, LocalStep DEF Done
  <2>. QED BY <1>1, <2>3 DEF GetTask, QueuesOK, CountsOK
<1>2. ASSUME SyncDuplicate(p) PROVE TypeInv'
  <2>1. LocalsOK'
    BY <1>2, RestIsOK, LocalStep DEF SyncDuplicate, Done
  <2>. QED BY <1>2, <2>1 DEF SyncDuplicate, QueuesOK, CountsOK
<1>3. ASSUME SyncNoop(p) PROVE TypeInv'
  <2>1. LocalsOK'
    BY <1>3, RestIsOK, LocalStep DEF SyncNoop, Done
  <2>2. QueuesOK'
    BY <1>3, LogKeepsQueues DEF SyncNoop, CanLock, At
  <2>. QED BY <1>3, <2>1, <2>2 DEF SyncNoop, CountsOK
<1>4. ASSUME SyncWrite(p) PROVE TypeInv'
  <2>. DEFINE pc == IF Decision(p) = TT_TO_LINEAR THEN "update_issue"
                    ELSE IF completes(loc[p].iss, loc[p].tsk) THEN "complete"
                    ELSE "update_task"
  <2>1. pc \in {"update_issue", "complete", "update_task"} /\ Goto(p, pc) /\ At(p, "sync")
    BY <1>4 DEF SyncWrite, CanLock
  <2>. HIDE DEF pc
  <2>2. ReadingOK(p, [loc[p] EXCEPT !.pc = pc]) /\ pc \in PCs
    BY <1>a, <2>1 DEF At, ReadingOK, Locals, PCs, HoldsIssue, HoldsBoth, Writing
  <2>3. LocalsOK'
    BY <2>1, <2>2, GotoIsStep
  <2>4. lock' \in [Instances -> Procs \cup {None}]
    BY <1>4, <1>b DEF SyncWrite
  <2>. QED BY <1>4, <2>3, <2>4 DEF SyncWrite, QueuesOK, CountsOK
<1>5. ASSUME UpdateIssue(p) PROVE TypeInv'
  <2>1. loc[p].iss \in Issues /\ loc[p].tsk \in Tasks
    BY <1>5, <1>a DEF UpdateIssue, At, ReadingOK, HoldsIssue, HoldsBoth, Writing
  <2>2. issue' \in Issues
    BY <1>5, <2>1, IssueWrite DEF UpdateIssue
  <2>. DEFINE l == [loc[p] EXCEPT !.iss = issue', !.pc = "commit_l"]
  <2>3. ReadingOK(p, l)
    BY <1>5, <1>a, <2>1, <2>2
       DEF UpdateIssue, At, ReadingOK, Locals, PCs, HoldsIssue, HoldsBoth, Writing
  <2>4. loc' = [loc EXCEPT ![p] = l]
    BY <1>5 DEF UpdateIssue, LocalsOK, Locals
  <2>5. LocalsOK'
    BY <2>3, <2>4, LocalStep
  <2>6. QueuesOK'
    BY <1>5, NotifyKeepsQueues DEF UpdateIssue
  <2>. QED BY <1>5, <2>2, <2>5, <2>6 DEF UpdateIssue, CountsOK
<1>6. ASSUME CompleteTask(p) PROVE TypeInv'
  <2>1. "update_task" \in PCs /\ ReadingOK(p, [loc[p] EXCEPT !.pc = "update_task"])
    BY <1>6, <1>a DEF CompleteTask, At, ReadingOK, Locals, PCs, HoldsIssue, HoldsBoth, Writing
  <2>2. LocalsOK'
    BY <1>6, <2>1, GotoIsStep DEF CompleteTask
  <2>3. task' \in Tasks
    BY <1>6 DEF CompleteTask, Tasks, TTStatuses
  <2>. QED BY <1>6, <2>2, <2>3 DEF CompleteTask, QueuesOK, CountsOK
<1>7. ASSUME UpdateTask(p) PROVE TypeInv'
  <2>1. loc[p].iss \in Issues /\ loc[p].tsk \in Tasks
    BY <1>7, <1>a DEF UpdateTask, At, ReadingOK, HoldsIssue, HoldsBoth, Writing
  <2>2. task' \in Tasks
    BY <1>7, <2>1, TaskWrite DEF UpdateTask
  <2>. DEFINE l == [loc[p] EXCEPT !.tsk = task', !.pc = "commit_t"]
  <2>3. ReadingOK(p, l)
    BY <1>7, <1>a, <2>1, <2>2
       DEF UpdateTask, At, ReadingOK, Locals, PCs, HoldsIssue, HoldsBoth, Writing
  <2>4. loc' = [loc EXCEPT ![p] = l]
    BY <1>7 DEF UpdateTask, LocalsOK, Locals
  <2>5. LocalsOK'
    BY <2>3, <2>4, LocalStep
  <2>. QED BY <1>7, <2>2, <2>5 DEF UpdateTask, QueuesOK, CountsOK
<1>8. ASSUME Commit(p) PROVE TypeInv'
  <2>1. LocalsOK'
    BY <1>8, RestIsOK, LocalStep DEF Commit, Done
  <2>2. QueuesOK'
    BY <1>8, LogKeepsQueues DEF Commit, At
  <2>3. loc[p].iss \in Issues /\ loc[p].tsk \in Tasks
    BY <1>8, <1>a DEF Commit, At, ReadingOK, HoldsIssue, HoldsBoth, Writing
  <2>4. link' \in Links
    BY <1>8, <2>3, HashIsHash DEF Commit, At, Links, mark_synced
  <2>5. lock' \in [Instances -> Procs \cup {None}]
    BY <1>8, <1>b DEF Commit, Unlock
  <2>. QED BY <1>8, <2>1, <2>2, <2>4, <2>5 DEF Commit, CountsOK
<1>9. ASSUME Raise(p) PROVE TypeInv'
  <2>1. LocalsOK'
    BY <1>9, RestIsOK, LocalStep DEF Raise, Done
  <2>2. QueuesOK'
    BY <1>9, <1>a DEF Raise, QueuesOK, ReadingOK
  <2>3. lock' \in [Instances -> Procs \cup {None}]
    BY <1>9 DEF Raise
  <2>4. CountsOK'
    BY <1>9, FaultKeepsCounts DEF Raise
  <2>. QED BY <1>9, <2>1, <2>2, <2>3, <2>4 DEF Raise
<1>. QED
  BY <1>1, <1>2, <1>3, <1>4, <1>5, <1>6, <1>7, <1>8, <1>9 DEF SyncStart, WriteStep

\* The steps of the users, of Linear's deliveries, of time and of crashes.
WorldStep ==
    \/ UserStep
    \/ \E d \in Deliveries : Redeliver(d) \/ GiveUp(d)
    \/ EchoEndsL \/ EchoEndsT
    \/ \E i \in Instances : Crash(i)

LEMMA UserKeepsCounts ==
    ASSUME CountsOK, NEW op, UserMay(op), UNCHANGED faults
    PROVE  CountsOK'
BY BoundsAssumption DEF CountsOK, UserMay

LEMMA EditedIssuesAreIssues == ASSUME issue \in Issues PROVE EditedIssues \subseteq Issues
<1>. SUFFICES ASSUME NEW x \in EditedIssues PROVE x \in Issues
  OBVIOUS
<1>1. ASSUME NEW y \in Titles PROVE [issue EXCEPT !.title = y] \in Issues
  BY DEF Issues
<1>2. ASSUME NEW y \in Bodies PROVE [issue EXCEPT !.description.body = y] \in Issues
  BY DEF Issues
<1>3. ASSUME NEW y \in ItemLists PROVE [issue EXCEPT !.description.items = y] \in Issues
  BY DEF Issues
<1>4. ASSUME NEW y \in LinearStates PROVE [issue EXCEPT !.state = y] \in Issues
  BY ContentAssumption DEF Issues
<1>5. ASSUME NEW y \in LinearPriorities PROVE [issue EXCEPT !.priority = y] \in Issues
  BY ContentAssumption DEF Issues
<1>6. ASSUME NEW y \in Dates \cup {NoDue} PROVE [issue EXCEPT !.due = y] \in Issues
  BY ContentAssumption DEF Issues, Dues
<1>. QED
  BY <1>1, <1>2, <1>3, <1>4, <1>5, <1>6 DEF EditedIssues

LEMMA EditedTasksAreTasks == ASSUME task \in Tasks PROVE EditedTasks \subseteq Tasks
<1>. SUFFICES ASSUME NEW x \in EditedTasks PROVE x \in Tasks
  OBVIOUS
<1>1. ASSUME NEW y \in Titles PROVE [task EXCEPT !.title = y] \in Tasks
  BY DEF Tasks
<1>2. ASSUME NEW y \in Bodies PROVE [task EXCEPT !.content = y] \in Tasks
  BY DEF Tasks
<1>3. ASSUME NEW y \in ItemLists PROVE [task EXCEPT !.items = y] \in Tasks
  BY DEF Tasks
<1>4. ASSUME NEW y \in TTStatuses PROVE [task EXCEPT !.status = y] \in Tasks
  BY DEF Tasks
<1>5. ASSUME NEW y \in TTPriorities PROVE [task EXCEPT !.priority = y] \in Tasks
  BY ContentAssumption DEF Tasks
<1>6. ASSUME NEW y \in Dates, NEW z \in BOOLEAN
      PROVE  [task EXCEPT !.due = y, !.all_day = z] \in Tasks
  BY ContentAssumption DEF Tasks, Dues
<1>7. [task EXCEPT !.due = NoDue] \in Tasks
  BY DEF Tasks, Dues
<1>8. ASSUME NEW y \in Columns PROVE [task EXCEPT !.column = y] \in Tasks
  BY DEF Tasks
<1>. QED
  BY <1>1, <1>2, <1>3, <1>4, <1>5, <1>6, <1>7, <1>8 DEF EditedTasks

LEMMA WorldKeepsTypes ==
    ASSUME TypeInv, WorldStep
    PROVE  TypeInv'
<1>. USE DEF TypeInv, StoresOK, NotesOK, LockOK, stores
<1>1. ASSUME UserEditsIssue PROVE TypeInv'
  <2>1. issue' \in Issues
    BY <1>1, EditedIssuesAreIssues DEF UserEditsIssue
  <2>2. QueuesOK'
    BY <1>1, NotifyKeepsQueues DEF UserEditsIssue
  <2>3. CountsOK'
    BY <1>1, UserKeepsCounts DEF UserEditsIssue
  <2>. QED BY <1>1, <2>1, <2>2, <2>3 DEF UserEditsIssue, LocalsOK
<1>2. ASSUME UserEditsTask PROVE TypeInv'
  <2>1. task' \in Tasks
    BY <1>2, EditedTasksAreTasks DEF UserEditsTask
  <2>2. CountsOK'
    BY <1>2, UserKeepsCounts DEF UserEditsTask
  <2>. QED BY <1>2, <2>1, <2>2 DEF UserEditsTask, QueuesOK, LocalsOK
<1>3. ASSUME UserDeletesIssue PROVE TypeInv'
  <2>1. CountsOK'
    BY <1>3, UserKeepsCounts DEF UserDeletesIssue
  <2>. QED BY <1>3, <2>1 DEF UserDeletesIssue, QueuesOK, Deliveries, LocalsOK
<1>4. ASSUME UserDeletesTask \/ UserRestoresTask PROVE TypeInv'
  <2>1. CountsOK'
    BY <1>4, UserKeepsCounts DEF UserDeletesTask, UserRestoresTask
  <2>. QED BY <1>4, <2>1 DEF UserDeletesTask, UserRestoresTask, QueuesOK, LocalsOK
<1>5. ASSUME NEW d \in Deliveries, Redeliver(d) \/ GiveUp(d) PROVE TypeInv'
  <2>1. CountsOK'
    BY <1>5, FaultKeepsCounts DEF Redeliver, GiveUp
  <2>. QED BY <1>5, <2>1 DEF Redeliver, GiveUp, QueuesOK, LocalsOK
<1>6. ASSUME EchoEndsL \/ EchoEndsT PROVE TypeInv'
  <2>1. link' \in Links
    BY <1>6 DEF EchoEndsL, EchoEndsT, Links
  <2>. QED BY <1>6, <2>1 DEF EchoEndsL, EchoEndsT, QueuesOK, LocalsOK, CountsOK
<1>7. ASSUME NEW i \in Instances, Crash(i) PROVE TypeInv'
  <2>1. LocalsOK'
    <3>1. \A p \in Procs : ReadingOK(p, loc[p]) /\ ReadingOK(p, Idle)
      BY RestIsOK DEF LocalsOK
    <3>2. loc' \in [Procs -> Locals]
      BY <1>7, <3>1 DEF Crash, ReadingOK
    <3>. QED BY <1>7, <3>1, <3>2 DEF Crash, LocalsOK
  <2>2. inbox' \subseteq Deliveries
    <3>1. \A h \in Hooks : ~At(h, "idle") => loc[h].arg \in Deliveries
      BY DEF At, LocalsOK, ReadingOK, Procs
    <3>2. {loc[p].arg : p \in {h \in Hooks : InstanceOf[h] = i /\ ~At(h, "idle")}} \subseteq Deliveries
      BY <3>1
    <3>. QED BY <1>7, <3>2 DEF Crash, QueuesOK
  <2>3. lock' \in [Instances -> Procs \cup {None}]
    BY <1>7 DEF Crash
  <2>4. CountsOK'
    BY <1>7, FaultKeepsCounts DEF Crash
  <2>. QED BY <1>7, <2>1, <2>2, <2>3, <2>4 DEF Crash, QueuesOK
<1>. QED
  BY <1>1, <1>2, <1>3, <1>4, <1>5, <1>6, <1>7 DEF WorldStep, UserStep

LEMMA StepKeepsTypes == TypeInv /\ [Next]_vars => TypeInv'
<1>1. ASSUME TypeInv, Next PROVE TypeInv'
  BY <1>1, HookKeepsTypes, PollKeepsTypes, FillKeepsTypes, SyncKeepsTypes, WorldKeepsTypes
     DEF Next, WorldStep
<1>2. ASSUME TypeInv, UNCHANGED vars PROVE TypeInv'
  BY <1>2 DEF vars, TypeInv, StoresOK, NotesOK, QueuesOK, LockOK, LocalsOK, CountsOK
<1>. QED
  BY <1>1, <1>2

LEMMA TypesHold == Spec => []TypeInv
BY TypesAtFirst, StepKeepsTypes, PTL DEF Spec

\* Every variable keeps its type: the service never stores a value of another
\* shape, whatever the interleaving of its jobs, failures and crashes.
THEOREM TypeCorrect == Spec => []TypeOK
<1>1. TypeInv => TypeOK
  BY DEF TypeInv, StoresOK, NotesOK, QueuesOK, LockOK, LocalsOK, CountsOK, TypeOK
<1>. QED
  BY <1>1, TypesHold, PTL

----------------------------------------------------------------------------
(* Steps that write nothing through sync_pair *)

\* p moves to a place outside sync_pair's writes; hash and locks stay.
Quietly(p) ==
    /\ \E l : loc' = [loc EXCEPT ![p] = l] /\ l.pc \notin Writing
    /\ lock' = lock
    /\ seen' \subseteq seen
    /\ link'.hash = link.hash

LEMMA NotifyForgets == ASSUME Notify PROVE seen' \subseteq seen
BY DEF Notify

LEMMA IdleIsQuiet == \A p : Rest(p).pc \notin Writing /\ Idle.pc \notin Writing
BY DEF Rest, Idle, Writing

LEMMA GotoIsQuiet ==
    ASSUME LocalsOK, NEW p \in Procs, NEW pc \in PCs \ Writing, Goto(p, pc)
    PROVE  \E l : loc' = [loc EXCEPT ![p] = l] /\ l.pc \notin Writing
<1>. DEFINE l == [loc[p] EXCEPT !.pc = pc]
<1>1. loc' = [loc EXCEPT ![p] = l]
  BY DEF Goto
<1>2. l.pc = pc
  BY DEF LocalsOK, Locals
<1>. QED BY <1>1, <1>2

LEMMA JobIsQuiet ==
    ASSUME TypeInv, NEW p \in Pollers \cup Fillers,
           \/ p \in Pollers /\ (PollList(p) \/ PollStep(p))
           \/ p \in Fillers /\ (FillList(p) \/ FillLink(p))
    PROVE  Quietly(p)
<1>. p \in Procs
  BY DEF Procs
<1>. LocalsOK /\ link \in Links /\ loc[p] \in Locals
  BY DEF TypeInv, LocalsOK
<1>. USE DEF stores
<1>1. ASSUME PollList(p) PROVE Quietly(p)
  <2>. DEFINE l == [loc[p] EXCEPT !.pc = "bulk", !.tsk =
                      IF "task" \in live /\ task.status = TT_OPEN THEN task ELSE None]
  <2>1. loc' = [loc EXCEPT ![p] = l] /\ l.pc = "bulk"
    BY <1>1 DEF PollList, Locals
  <2>. QED BY <1>1, <2>1 DEF PollList, Quietly, Writing
<1>2. ASSUME PollBulk(p) PROVE Quietly(p)
  <2>1. PICK i \in BulkIssue :
         \/ loc' = [loc EXCEPT ![p].iss = i, ![p].listed = TRUE,
                         ![p].pc = IF i = None THEN "probe_issue" ELSE "sync"]
         \/ loc' = [loc EXCEPT ![p] = Idle]
         \/ loc' = [loc EXCEPT ![p].iss = i, ![p].pc = "probe_task"]
    BY <1>2 DEF PollBulk
  <2>. DEFINE l1 == [loc[p] EXCEPT !.iss = i, !.listed = TRUE,
                        !.pc = IF i = None THEN "probe_issue" ELSE "sync"]
              l2 == [loc[p] EXCEPT !.iss = i, !.pc = "probe_task"]
  <2>2. l1.pc \notin Writing /\ l2.pc \notin Writing
    BY DEF Locals, Writing
  <2>3. \/ loc' = [loc EXCEPT ![p] = l1]
        \/ loc' = [loc EXCEPT ![p] = Idle]
        \/ loc' = [loc EXCEPT ![p] = l2]
    BY <2>1 DEF LocalsOK, Locals
  <2>. QED BY <1>2, <2>2, <2>3, IdleIsQuiet DEF PollBulk, Quietly
<1>3. ASSUME \/ PollSkip(p) \/ PollIssueMissing(p) \/ PollReset(p) \/ PollTombstone(p)
      PROVE  Quietly(p)
  <2>1. loc' = [loc EXCEPT ![p] = Idle] \/ loc' = [loc EXCEPT ![p] = Rest(p)]
    BY <1>3 DEF PollSkip, PollIssueMissing, PollReset, PollTombstone, Done
  <2>2. link'.hash = link.hash
    BY <1>3 DEF PollSkip, PollIssueMissing, PollReset, PollTombstone, Links
  <2>. QED BY <1>3, <2>1, <2>2, IdleIsQuiet
           DEF PollSkip, PollIssueMissing, PollReset, PollTombstone, Quietly
<1>4. ASSUME PollHidden(p) PROVE Quietly(p)
  <2>. DEFINE l == [loc[p] EXCEPT !.tsk = task, !.pc = "sync"]
  <2>1. l.pc \notin Writing
    BY DEF Locals, Writing
  <2>2. loc' = [loc EXCEPT ![p] = Idle] \/ loc' = [loc EXCEPT ![p] = l]
    BY <1>4 DEF PollHidden, LocalsOK, Locals
  <2>3. link'.hash = link.hash
    BY <1>4 DEF PollHidden, Links
  <2>. QED BY <1>4, <2>1, <2>2, <2>3, IdleIsQuiet DEF PollHidden, Quietly
<1>5. ASSUME PollMiss(p) PROVE Quietly(p)
  <2>. DEFINE l == IF link.miss + 1 < TT_MISS_THRESHOLD THEN Idle
                   ELSE [Idle EXCEPT !.pc = "cancel_find"]
  <2>1. l.pc \notin Writing
    BY DEF Idle, Writing
  <2>2. loc' = [loc EXCEPT ![p] = l] /\ link'.hash = link.hash
    BY <1>5 DEF PollMiss, Links
  <2>. QED BY <1>5, <2>1, <2>2 DEF PollMiss, Quietly
<1>6. ASSUME PollCancelFind(p) PROVE Quietly(p)
  <2>. DEFINE l == [loc[p] EXCEPT !.iss = issue,
                       !.pc = IF CanceledStates = {} THEN "tombstone" ELSE "cancel"]
  <2>1. l.pc \notin Writing
    BY DEF Locals, Writing
  <2>2. loc' = [loc EXCEPT ![p] = l]
    BY <1>6 DEF PollCancelFind, LocalsOK, Locals
  <2>. QED BY <1>6, <2>1, <2>2 DEF PollCancelFind, Quietly
<1>7. ASSUME PollMissing(p) \/ PollCancelSkip(p) PROVE Quietly(p)
  <2>1. {"miss", "tombstone"} \subseteq PCs \ Writing
    BY DEF PCs, Writing
  <2>. QED BY <1>7, <2>1, GotoIsQuiet DEF PollMissing, PollCancelSkip, Quietly
<1>8. ASSUME PollCancel(p) PROVE Quietly(p)
  <2>1. "tombstone" \in PCs \ Writing
    BY DEF PCs, Writing
  <2>. QED BY <1>8, <2>1, GotoIsQuiet, NotifyForgets DEF PollCancel, Quietly
<1>9. ASSUME FillList(p) PROVE Quietly(p)
  <2>. DEFINE l == [loc[p] EXCEPT !.pc = "fill_link", !.iss = issue]
  <2>1. loc' = [loc EXCEPT ![p] = l] /\ l.pc = "fill_link"
    BY <1>9 DEF FillList, LocalsOK, Locals
  <2>. QED BY <1>9, <2>1 DEF FillList, Quietly, Writing
<1>10. ASSUME FillLink(p) PROVE Quietly(p)
  <2>1. "get" \in PCs \ Writing
    BY DEF PCs, Writing
  <2>. QED BY <1>10, <2>1, GotoIsQuiet, IdleIsQuiet DEF FillLink, Done, Quietly
<1>. QED
  BY <1>1, <1>2, <1>3, <1>4, <1>5, <1>6, <1>7, <1>8, <1>9, <1>10 DEF PollStep

----------------------------------------------------------------------------
(* A delivery is written once. *)

Removing == {"remove_get", "remove_write", "remove_commit"}

\* A handler works on the kind of delivery it was given.
HookArg(l) ==
    /\ l.pc \in HoldsIssue \cup {"find"} => l.arg \in UpdateIds
    /\ l.pc \in Removing => l.arg = RemoveId

\* Whoever writes holds the link's lock in its process, and a handler that
\* writes has a delivery that is not logged.
OnceInv ==
    /\ \A p \in Procs : loc[p].pc \in Writing => lock[InstanceOf[p]] = p
    /\ \A p \in Hooks : HookArg(loc[p])
    /\ \A p \in Hooks : loc[p].pc \in Writing => loc[p].arg \notin seen

LEMMA OnceFrame ==
    ASSUME LocalsOK, OnceInv, NEW p \in Procs, NEW l, loc' = [loc EXCEPT ![p] = l],
           l.pc \in Writing => lock'[InstanceOf[p]] = p /\ (p \in Hooks => l.arg \notin seen'),
           p \in Hooks => HookArg(l),
           \A q \in Procs \ {p} : loc[q].pc \in Writing =>
               /\ lock'[InstanceOf[q]] = q
               /\ q \in Hooks /\ loc[q].arg \in seen' => loc[q].arg \in seen
    PROVE  OnceInv'
<1>1. \A q \in Procs : loc'[q] = IF q = p THEN l ELSE loc[q]
  BY DEF LocalsOK
<1>2. \A q \in Procs : loc'[q].pc \in Writing => lock'[InstanceOf[q]] = q
  BY <1>1 DEF OnceInv
<1>3. \A q \in Hooks : q \in Procs
  BY DEF Procs
<1>4. \A q \in Hooks : HookArg(loc'[q])
  BY <1>1, <1>3 DEF OnceInv
<1>5. \A q \in Hooks : loc'[q].pc \in Writing => loc'[q].arg \notin seen'
  BY <1>1, <1>3 DEF OnceInv
<1>. QED
  BY <1>2, <1>4, <1>5 DEF OnceInv, HookArg

\* A step that keeps the locks and logs nothing.
LEMMA OnceQuietFrame ==
    ASSUME LocalsOK, OnceInv, NEW p \in Procs, NEW l, loc' = [loc EXCEPT ![p] = l],
           l.pc \notin Writing, p \in Hooks => HookArg(l), lock' = lock, seen' \subseteq seen
    PROVE  OnceInv'
BY OnceFrame DEF OnceInv

\* While p has the link's lock of its process, or may take it, no one else there
\* writes.
LEMMA OneWriter ==
    ASSUME OnceInv, NEW p \in Procs, NEW q \in Procs \ {p},
           InstanceOf[p] = InstanceOf[q], lock[InstanceOf[p]] \in {p, None}
    PROVE  loc[q].pc \notin Writing
BY ProcsAssumption DEF OnceInv

LEMMA RestHasNoArg == \A p : HookArg(Rest(p)) /\ HookArg(Idle)
BY DEF HookArg, Rest, Idle, HoldsIssue, Removing

LEMMA HookOnce ==
    ASSUME TypeInv, OnceInv, NEW p \in Hooks, Receive(p) \/ HookStep(p)
    PROVE  OnceInv'
<1>. p \in Procs /\ LocalsOK /\ loc[p] \in Locals /\ HookArg(loc[p])
  BY DEF Procs, TypeInv, LocalsOK, OnceInv
<1>. USE DEF stores
<1>1. ASSUME NEW d \in Deliveries, HookDuplicate(p, d) PROVE OnceInv'
  BY <1>1 DEF HookDuplicate, OnceInv, HookArg
<1>2. ASSUME NEW d \in Deliveries, HookReceive(p, d) PROVE OnceInv'
  <2>. DEFINE l == [Idle EXCEPT !.pc = IF d = RemoveId THEN "remove_get" ELSE "find", !.arg = d]
  <2>1. l.pc \notin Writing /\ HookArg(l)
    BY DEF Idle, Writing, HookArg, HoldsIssue, Removing, Deliveries
  <2>. QED BY <1>2, <2>1, OnceQuietFrame DEF HookReceive
<1>3. ASSUME HookFind(p) PROVE OnceInv'
  <2>. DEFINE l == [loc[p] EXCEPT !.iss = issue, !.pc = "get"]
  <2>1. l.pc \notin Writing /\ HookArg(l)
    BY <1>3 DEF HookFind, At, Locals, Writing, HookArg, HoldsIssue, Removing
  <2>2. loc' = [loc EXCEPT ![p] = l]
    BY <1>3 DEF HookFind, LocalsOK, Locals
  <2>. QED BY <1>3, <2>1, <2>2, OnceQuietFrame DEF HookFind
<1>4. ASSUME HookSkip(p) \/ RemoveRejected(p) PROVE OnceInv'
  BY <1>4, RestHasNoArg, IdleIsQuiet, OnceQuietFrame DEF HookSkip, RemoveRejected, Done
<1>5. ASSUME RemoveGet(p) \/ RemoveWrite(p) PROVE OnceInv'
  <2>1. loc[p].pc \in Removing /\ \E pc \in {"remove_write", "remove_commit"} : Goto(p, pc)
    BY <1>5 DEF RemoveGet, RemoveWrite, At, Removing
  <2>. PICK pc \in {"remove_write", "remove_commit"} : Goto(p, pc)
    BY <2>1
  <2>. DEFINE l == [loc[p] EXCEPT !.pc = pc]
  <2>2. l.pc = pc /\ l.arg = loc[p].arg
    BY DEF Locals
  <2>3. loc[p].arg = RemoveId
    BY <2>1 DEF HookArg
  <2>4. l.pc \notin Writing /\ HookArg(l)
    BY <2>2, <2>3 DEF Writing, HookArg, HoldsIssue, Removing
  <2>5. loc' = [loc EXCEPT ![p] = l]
    BY DEF Goto
  <2>. QED BY <1>5, <2>4, <2>5, OnceQuietFrame DEF RemoveGet, RemoveWrite
<1>6. ASSUME RemoveCommit(p) PROVE OnceInv'
  <2>1. loc[p].arg = RemoveId /\ seen' = seen \cup {RemoveId} /\ lock' = lock
    BY <1>6 DEF RemoveCommit, At, HookArg, Removing, LogEvent
  <2>2. ASSUME NEW q \in Procs \ {p}, loc[q].pc \in Writing
        PROVE  /\ lock'[InstanceOf[q]] = q
               /\ q \in Hooks /\ loc[q].arg \in seen' => loc[q].arg \in seen
    <3>1. q \in Hooks => loc[q].arg \in UpdateIds
      BY <2>2 DEF OnceInv, HookArg, Writing, HoldsIssue
    <3>. QED BY <2>1, <2>2, <3>1, DeliveriesAssumption DEF OnceInv
  <2>3. loc' = [loc EXCEPT ![p] = Rest(p)]
    BY <1>6 DEF RemoveCommit, Done
  <2>. QED BY <2>2, <2>3, RestHasNoArg, IdleIsQuiet, OnceFrame
<1>. QED
  BY <1>1, <1>2, <1>3, <1>4, <1>5, <1>6 DEF Receive, HookStep

LEMMA SyncOnce ==
    ASSUME TypeInv, OnceInv, NEW p \in Procs, GetTask(p) \/ SyncStart(p) \/ WriteStep(p) \/ Raise(p)
    PROVE  OnceInv'
<1>. LocalsOK /\ loc[p] \in Locals /\ (p \in Hooks => HookArg(loc[p]))
  BY DEF TypeInv, LocalsOK, OnceInv
<1>. InstanceOf[p] \in Instances /\ lock \in [Instances -> Procs \cup {None}]
  BY ProcsAssumption DEF TypeInv, LockOK
<1>. USE DEF stores
<1>a. ASSUME loc[p].pc \in HoldsIssue, NEW l, l.arg = loc[p].arg, l.pc \in Writing \cup {"sync"}
      PROVE  p \in Hooks => HookArg(l)
  BY <1>a DEF HookArg, Writing, HoldsIssue, Removing
<1>1. ASSUME GetTask(p) PROVE OnceInv'
  <2>. DEFINE l == [loc[p] EXCEPT !.tsk = task, !.pc = "sync"]
  <2>1. l.pc = "sync" /\ l.arg = loc[p].arg
    BY DEF Locals
  <2>2. p \in Hooks => HookArg(l)
    BY <1>1, <1>a, <2>1 DEF GetTask, At, HoldsIssue
  <2>3. loc' = [loc EXCEPT ![p] = Rest(p)] \/ loc' = [loc EXCEPT ![p] = l]
    BY <1>1 DEF GetTask, Done, LocalsOK, Locals
  <2>4. l.pc \notin Writing
    BY <2>1 DEF Writing
  <2>. HIDE DEF l
  <2>. QED BY <1>1, <2>2, <2>3, <2>4, RestHasNoArg, IdleIsQuiet, OnceQuietFrame DEF GetTask
<1>2. ASSUME SyncDuplicate(p) PROVE OnceInv'
  BY <1>2, RestHasNoArg, IdleIsQuiet, OnceQuietFrame DEF SyncDuplicate, Done
<1>3. ASSUME SyncNoop(p) \/ Commit(p) PROVE OnceInv'
  <2>1. lock[InstanceOf[p]] \in {p, None}
    BY <1>3 DEF SyncNoop, CanLock, Commit, At, OnceInv, Writing
  <2>2. ASSUME NEW q \in Procs \ {p}, loc[q].pc \in Writing
        PROVE  /\ lock'[InstanceOf[q]] = q
               /\ q \in Hooks /\ loc[q].arg \in seen' => loc[q].arg \in seen
    <3>1. InstanceOf[q] # InstanceOf[p]
      BY <2>1, <2>2, OneWriter
    <3>2. InstanceOf[q] \in Instances /\ lock[InstanceOf[q]] = q
      BY <2>2, ProcsAssumption DEF OnceInv
    <3>3. lock'[InstanceOf[q]] = q
      BY <1>3, <3>1, <3>2 DEF SyncNoop, Commit, Unlock
    <3>4. q \in Hooks => p \notin Hooks
      BY <3>1, ProcsAssumption
    <3>. QED BY <1>3, <3>3, <3>4 DEF SyncNoop, Commit, LogEvent
  <2>3. loc' = [loc EXCEPT ![p] = Rest(p)]
    BY <1>3 DEF SyncNoop, Commit, Done
  <2>. QED BY <2>2, <2>3, RestHasNoArg, IdleIsQuiet, OnceFrame
<1>4. ASSUME SyncWrite(p) PROVE OnceInv'
  <2>. DEFINE pc == IF Decision(p) = TT_TO_LINEAR THEN "update_issue"
                    ELSE IF completes(loc[p].iss, loc[p].tsk) THEN "complete"
                    ELSE "update_task"
              l == [loc[p] EXCEPT !.pc = pc]
  <2>1. pc \in Writing /\ At(p, "sync") /\ lock[InstanceOf[p]] = None
    BY <1>4 DEF SyncWrite, CanLock, Writing
  <2>2. loc' = [loc EXCEPT ![p] = l]
    BY <1>4 DEF SyncWrite, Goto
  <2>. HIDE DEF pc
  <2>3. l.pc = pc /\ l.arg = loc[p].arg
    BY DEF Locals
  <2>4. p \in Hooks => HookArg(l)
    BY <1>a, <2>1, <2>3 DEF At, HoldsIssue
  <2>5. lock'[InstanceOf[p]] = p /\ seen' = seen
    BY <1>4 DEF SyncWrite
  <2>6. p \in Hooks => l.arg \notin seen'
    BY <1>4, <2>3, <2>5 DEF SyncWrite, AlreadyLogged
  <2>7. ASSUME NEW q \in Procs \ {p}, loc[q].pc \in Writing PROVE lock'[InstanceOf[q]] = q
    <3>1. InstanceOf[q] # InstanceOf[p]
      BY <2>1, <2>7, OneWriter
    <3>. QED BY <1>4, <2>7, <3>1 DEF SyncWrite, OnceInv
  <2>. HIDE DEF l
  <2>. QED BY <2>2, <2>4, <2>5, <2>6, <2>7, OnceFrame
<1>5. ASSUME UpdateIssue(p) \/ CompleteTask(p) \/ UpdateTask(p) PROVE OnceInv'
  <2>1. loc[p].pc \in Writing /\ loc[p].pc \in HoldsIssue
    BY <1>5 DEF UpdateIssue, CompleteTask, UpdateTask, At, Writing, HoldsIssue
  <2>2. \E l : loc' = [loc EXCEPT ![p] = l] /\ l.arg = loc[p].arg /\ l.pc \in Writing
    <3>1. CASE UpdateIssue(p)
      <4>. DEFINE l == [loc[p] EXCEPT !.iss = issue', !.pc = "commit_l"]
      <4>1. loc' = [loc EXCEPT ![p] = l] /\ l.arg = loc[p].arg /\ l.pc = "commit_l"
        BY <3>1 DEF UpdateIssue, LocalsOK, Locals
      <4>. QED BY <4>1 DEF Writing
    <3>2. CASE CompleteTask(p)
      <4>. DEFINE l == [loc[p] EXCEPT !.pc = "update_task"]
      <4>1. loc' = [loc EXCEPT ![p] = l] /\ l.arg = loc[p].arg /\ l.pc = "update_task"
        BY <3>2 DEF CompleteTask, Goto, Locals
      <4>. QED BY <4>1 DEF Writing
    <3>3. CASE UpdateTask(p)
      <4>. DEFINE l == [loc[p] EXCEPT !.tsk = task', !.pc = "commit_t"]
      <4>1. loc' = [loc EXCEPT ![p] = l] /\ l.arg = loc[p].arg /\ l.pc = "commit_t"
        BY <3>3 DEF UpdateTask, LocalsOK, Locals
      <4>. QED BY <4>1 DEF Writing
    <3>. QED BY <1>5, <3>1, <3>2, <3>3
  <2>3. PICK l : loc' = [loc EXCEPT ![p] = l] /\ l.arg = loc[p].arg /\ l.pc \in Writing
    BY <2>2
  <2>4. lock' = lock /\ seen' \subseteq seen
    BY <1>5, NotifyForgets DEF UpdateIssue, CompleteTask, UpdateTask
  <2>5. p \in Hooks => HookArg(l)
    BY <1>a, <2>1, <2>3
  <2>6. lock'[InstanceOf[p]] = p /\ (p \in Hooks => l.arg \notin seen')
    BY <2>1, <2>3, <2>4 DEF OnceInv
  <2>7. \A q \in Procs \ {p} : loc[q].pc \in Writing => lock'[InstanceOf[q]] = q
    BY <2>4 DEF OnceInv
  <2>. QED BY <2>3, <2>4, <2>5, <2>6, <2>7, OnceFrame
<1>6. ASSUME Raise(p) PROVE OnceInv'
  <2>1. ASSUME NEW q \in Procs \ {p}, loc[q].pc \in Writing PROVE lock'[InstanceOf[q]] = q
    BY <1>6, <2>1, ProcsAssumption DEF Raise, OnceInv
  <2>2. loc' = [loc EXCEPT ![p] = Rest(p)] /\ seen' = seen
    BY <1>6 DEF Raise, Done
  <2>. QED BY <2>1, <2>2, RestHasNoArg, IdleIsQuiet, OnceFrame
<1>. QED
  BY <1>1, <1>2, <1>3, <1>4, <1>5, <1>6 DEF SyncStart, WriteStep

LEMMA WorldOnce ==
    ASSUME TypeInv, OnceInv, WorldStep
    PROVE  OnceInv'
<1>. USE DEF stores
<1>1. ASSUME UserStep \/ EchoEndsL \/ EchoEndsT PROVE OnceInv'
  <2>1. seen' \subseteq seen /\ lock' = lock /\ loc' = loc
    BY <1>1, NotifyForgets DEF UserStep, UserEditsIssue, UserEditsTask, UserDeletesIssue,
       UserDeletesTask, UserRestoresTask, EchoEndsL, EchoEndsT
  <2>. QED BY <2>1 DEF OnceInv, HookArg
<1>2. ASSUME NEW d \in Deliveries, Redeliver(d) \/ GiveUp(d) PROVE OnceInv'
  BY <1>2 DEF Redeliver, GiveUp, OnceInv, HookArg
<1>3. ASSUME NEW i \in Instances, Crash(i) PROVE OnceInv'
  <2>1. \A p \in Procs : loc'[p] = IF InstanceOf[p] = i THEN Idle ELSE loc[p]
    BY <1>3 DEF Crash
  <2>2. Idle.pc \notin Writing /\ HookArg(Idle)
    BY RestHasNoArg, IdleIsQuiet
  <2>3. \A p \in Procs : loc'[p].pc \in Writing => lock'[InstanceOf[p]] = p
    BY <1>3, <2>1, <2>2, ProcsAssumption DEF Crash, OnceInv, TypeInv, LockOK
  <2>4. \A p \in Hooks : p \in Procs
    BY DEF Procs
  <2>5. \A p \in Hooks : HookArg(loc'[p])
    BY <2>1, <2>2, <2>4 DEF OnceInv
  <2>6. \A p \in Hooks : loc'[p].pc \in Writing => loc'[p].arg \notin seen'
    BY <1>3, <2>1, <2>2, <2>4 DEF Crash, OnceInv
  <2>. QED BY <2>3, <2>5, <2>6 DEF OnceInv, HookArg
<1>. QED
  BY <1>1, <1>2, <1>3 DEF WorldStep

\* No delivery in event_log is being written to TickTick, however many handlers
\* were given it: the check under the lock makes the one before it safe.
THEOREM WrittenOnce == Spec => []OnceOnly
<1>1. Init => OnceInv
  BY ProcsAssumption DEF Init, OnceInv, HookArg, Idle, Writing, HoldsIssue, Removing, Procs
<1>2. TypeInv /\ OnceInv /\ [Next]_vars => OnceInv'
  <2>1. ASSUME TypeInv, OnceInv, NEW p \in Pollers \cup Fillers, Quietly(p) PROVE OnceInv'
    <3>1. p \in Procs /\ p \notin Hooks
      BY ProcsAssumption DEF Procs
    <3>. QED BY <2>1, <3>1, OnceQuietFrame DEF Quietly, TypeInv
  <2>2. ASSUME TypeInv, OnceInv, Next PROVE OnceInv'
    BY <2>1, <2>2, JobIsQuiet, HookOnce, SyncOnce, WorldOnce DEF Next, WorldStep
  <2>3. ASSUME OnceInv, UNCHANGED vars PROVE OnceInv'
    BY <2>3 DEF vars, OnceInv, HookArg
  <2>. QED BY <2>2, <2>3
<1>3. OnceInv => OnceOnly
  BY DEF OnceInv, OnceOnly, Writing
<1>. QED
  BY <1>1, <1>2, <1>3, TypesHold, PTL DEF Spec

----------------------------------------------------------------------------
(* A recorded hash is one of an agreeing pair. *)

Agree(i, t) ==
    /\ i.title = t.title
    /\ linear_priority_to_tt(i.priority) = clamp_tt_priority(t.priority)

\* What is about to be hashed agrees already: one half is the answer to the
\* write, the other the snapshot the write was computed from.
AgreeInv ==
    /\ \A p \in Procs : loc[p].pc \in {"commit_l", "commit_t"} => Agree(loc[p].iss, loc[p].tsk)
    /\ HashedPairAgrees

LEMMA HashOfAgreeing ==
    ASSUME NEW i, NEW t, Agree(i, t)
    PROVE  LET h == canonical_hash(i, t)
           IN  /\ h.linear_title = h.tt_title
               /\ linear_priority_to_tt(h.priority) = clamp_tt_priority(h.tt_priority)
BY DEF Agree, canonical_hash

\* A step of p to a place where it is not about to hash anything, or where what
\* it is about to hash agrees.
LEMMA AgreeFrame ==
    ASSUME LocalsOK, AgreeInv, NEW p \in Procs, NEW l, loc' = [loc EXCEPT ![p] = l],
           l.pc \in {"commit_l", "commit_t"} => Agree(l.iss, l.tsk),
           link'.hash = link.hash
    PROVE  AgreeInv'
<1>1. \A q \in Procs : loc'[q] = IF q = p THEN l ELSE loc[q]
  BY DEF LocalsOK
<1>2. \A q \in Procs : loc'[q].pc \in {"commit_l", "commit_t"} => Agree(loc'[q].iss, loc'[q].tsk)
  BY <1>1 DEF AgreeInv
<1>. QED
  BY <1>2 DEF AgreeInv, Agree, HashedPairAgrees

LEMMA HookAgree ==
    ASSUME TypeInv, AgreeInv, NEW p \in Hooks, Receive(p) \/ HookStep(p)
    PROVE  AgreeInv'
<1>. p \in Procs /\ LocalsOK /\ loc[p] \in Locals /\ link \in Links
  BY DEF Procs, TypeInv, LocalsOK
<1>. USE DEF stores
<1>1. ASSUME NEW d \in Deliveries, HookDuplicate(p, d) PROVE AgreeInv'
  BY <1>1 DEF HookDuplicate, AgreeInv, Agree, HashedPairAgrees
<1>2. ASSUME NEW d \in Deliveries, HookReceive(p, d) PROVE AgreeInv'
  <2>. DEFINE l == [Idle EXCEPT !.pc = IF d = RemoveId THEN "remove_get" ELSE "find", !.arg = d]
  <2>1. l.pc \notin {"commit_l", "commit_t"}
    BY DEF Idle
  <2>. QED BY <1>2, <2>1, AgreeFrame DEF HookReceive
<1>3. ASSUME HookFind(p) PROVE AgreeInv'
  <2>. DEFINE l == [loc[p] EXCEPT !.iss = issue, !.pc = "get"]
  <2>1. loc' = [loc EXCEPT ![p] = l] /\ l.pc = "get"
    BY <1>3 DEF HookFind, LocalsOK, Locals
  <2>. QED BY <1>3, <2>1, AgreeFrame DEF HookFind
<1>4. ASSUME HookSkip(p) \/ RemoveRejected(p) \/ RemoveCommit(p) PROVE AgreeInv'
  <2>1. loc' = [loc EXCEPT ![p] = Rest(p)] /\ link'.hash = link.hash
    BY <1>4 DEF HookSkip, RemoveRejected, RemoveCommit, Done, Links
  <2>. QED BY <2>1, IdleIsQuiet, AgreeFrame DEF Writing
<1>5. ASSUME RemoveGet(p) \/ RemoveWrite(p) PROVE AgreeInv'
  <2>1. PICK pc \in {"remove_write", "remove_commit"} : Goto(p, pc)
    BY <1>5 DEF RemoveGet, RemoveWrite
  <2>. DEFINE l == [loc[p] EXCEPT !.pc = pc]
  <2>2. loc' = [loc EXCEPT ![p] = l] /\ l.pc = pc
    BY <2>1 DEF Goto, Locals
  <2>. QED BY <1>5, <2>2, AgreeFrame DEF RemoveGet, RemoveWrite
<1>. QED
  BY <1>1, <1>2, <1>3, <1>4, <1>5 DEF Receive, HookStep

LEMMA SyncAgree ==
    ASSUME TypeInv, AgreeInv, NEW p \in Procs, GetTask(p) \/ SyncStart(p) \/ WriteStep(p) \/ Raise(p)
    PROVE  AgreeInv'
<1>. LocalsOK /\ loc[p] \in Locals /\ link \in Links /\ ReadingOK(p, loc[p])
  BY DEF TypeInv, LocalsOK
<1>. USE DEF stores
<1>1. ASSUME GetTask(p) PROVE AgreeInv'
  <2>. DEFINE l == [loc[p] EXCEPT !.tsk = task, !.pc = "sync"]
  <2>1. l.pc = "sync"
    BY DEF Locals
  <2>2. loc' = [loc EXCEPT ![p] = Rest(p)] \/ loc' = [loc EXCEPT ![p] = l]
    BY <1>1 DEF GetTask, Done, LocalsOK, Locals
  <2>. HIDE DEF l
  <2>. QED BY <1>1, <2>1, <2>2, IdleIsQuiet, AgreeFrame DEF GetTask, Writing
<1>2. ASSUME SyncDuplicate(p) \/ SyncNoop(p) \/ Raise(p) PROVE AgreeInv'
  <2>1. loc' = [loc EXCEPT ![p] = Rest(p)] /\ link' = link
    BY <1>2 DEF SyncDuplicate, SyncNoop, Raise, Done
  <2>. QED BY <2>1, IdleIsQuiet, AgreeFrame DEF Writing
<1>3. ASSUME SyncWrite(p) \/ CompleteTask(p) PROVE AgreeInv'
  <2>1. /\ \E pc \in {"update_issue", "complete", "update_task"} : Goto(p, pc)
        /\ link' = link
    BY <1>3 DEF SyncWrite, CompleteTask
  <2>2. PICK pc \in {"update_issue", "complete", "update_task"} : Goto(p, pc)
    BY <2>1
  <2>. DEFINE l == [loc[p] EXCEPT !.pc = pc]
  <2>3. loc' = [loc EXCEPT ![p] = l] /\ l.pc = pc
    BY <2>2 DEF Goto, Locals
  <2>. QED BY <2>1, <2>3, AgreeFrame
<1>4. ASSUME UpdateIssue(p) PROVE AgreeInv'
  <2>. DEFINE l == [loc[p] EXCEPT !.iss = issue', !.pc = "commit_l"]
  <2>1. loc[p].iss \in Issues /\ loc[p].tsk \in Tasks /\ issue \in Issues
    BY <1>4 DEF UpdateIssue, At, ReadingOK, HoldsIssue, HoldsBoth, Writing, TypeInv, StoresOK
  <2>2. issue'.title = loc[p].tsk.title
        /\ linear_priority_to_tt(issue'.priority) = clamp_tt_priority(loc[p].tsk.priority)
    BY <1>4, <2>1, IssueWrite DEF UpdateIssue
  <2>3. loc' = [loc EXCEPT ![p] = l] /\ l.iss = issue' /\ l.tsk = loc[p].tsk
    BY <1>4 DEF UpdateIssue, LocalsOK, Locals
  <2>4. Agree(l.iss, l.tsk)
    BY <2>2, <2>3 DEF Agree
  <2>. QED BY <1>4, <2>3, <2>4, AgreeFrame DEF UpdateIssue
<1>5. ASSUME UpdateTask(p) PROVE AgreeInv'
  <2>. DEFINE l == [loc[p] EXCEPT !.tsk = task', !.pc = "commit_t"]
  <2>1. loc[p].iss \in Issues /\ loc[p].tsk \in Tasks /\ task \in Tasks
    BY <1>5 DEF UpdateTask, At, ReadingOK, HoldsIssue, HoldsBoth, Writing, TypeInv, StoresOK
  <2>2. task'.title = loc[p].iss.title
        /\ linear_priority_to_tt(loc[p].iss.priority) = clamp_tt_priority(task'.priority)
    BY <1>5, <2>1, TaskWrite DEF UpdateTask
  <2>3. loc' = [loc EXCEPT ![p] = l] /\ l.tsk = task' /\ l.iss = loc[p].iss
    BY <1>5 DEF UpdateTask, LocalsOK, Locals
  <2>4. Agree(l.iss, l.tsk)
    BY <2>2, <2>3 DEF Agree
  <2>. QED BY <1>5, <2>3, <2>4, AgreeFrame DEF UpdateTask
<1>6. ASSUME Commit(p) PROVE AgreeInv'
  <2>1. Agree(loc[p].iss, loc[p].tsk)
    BY <1>6 DEF Commit, At, AgreeInv
  <2>2. link'.hash = canonical_hash(loc[p].iss, loc[p].tsk)
    BY <1>6 DEF Commit, Links, mark_synced
  <2>3. HashedPairAgrees'
    BY <2>1, <2>2, HashOfAgreeing DEF HashedPairAgrees
  <2>4. \A q \in Procs : loc'[q] = IF q = p THEN Rest(p) ELSE loc[q]
    BY <1>6 DEF Commit, Done, LocalsOK
  <2>5. Rest(p).pc \notin {"commit_l", "commit_t"}
    BY IdleIsQuiet DEF Writing
  <2>. QED BY <2>3, <2>4, <2>5 DEF AgreeInv, Agree
<1>. QED
  BY <1>1, <1>2, <1>3, <1>4, <1>5, <1>6 DEF SyncStart, WriteStep

LEMMA WorldAgree ==
    ASSUME TypeInv, AgreeInv, WorldStep
    PROVE  AgreeInv'
<1>. link \in Links
  BY DEF TypeInv
<1>. USE DEF stores
<1>1. ASSUME \/ UserStep \/ EchoEndsL \/ EchoEndsT
             \/ \E d \in Deliveries : Redeliver(d) \/ GiveUp(d)
      PROVE  AgreeInv'
  <2>1. loc' = loc /\ link'.hash = link.hash
    BY <1>1 DEF UserStep, UserEditsIssue, UserEditsTask, UserDeletesIssue, UserDeletesTask,
       UserRestoresTask, EchoEndsL, EchoEndsT, Redeliver, GiveUp, Links
  <2>. QED BY <2>1 DEF AgreeInv, Agree, HashedPairAgrees
<1>2. ASSUME NEW i \in Instances, Crash(i) PROVE AgreeInv'
  <2>1. \A p \in Procs : loc'[p] = IF InstanceOf[p] = i THEN Idle ELSE loc[p]
    BY <1>2 DEF Crash
  <2>2. Idle.pc \notin {"commit_l", "commit_t"}
    BY IdleIsQuiet DEF Writing
  <2>. QED BY <1>2, <2>1, <2>2 DEF Crash, AgreeInv, Agree, HashedPairAgrees
<1>. QED
  BY <1>1, <1>2 DEF WorldStep

\* Whatever the users do while a hash is being computed, the hash recorded is
\* of a pair with one title and corresponding priorities; so hash_match, which
\* stops all further writes, can only stop them for a pair that agrees.
THEOREM HashesAgree == Spec => []HashedPairAgrees
<1>1. Init => AgreeInv
  <2>. SUFFICES ASSUME Init PROVE AgreeInv
    OBVIOUS
  <2>1. task \in Tasks
    BY TypesAtFirst DEF TypeInv, StoresOK
  <2>2. Agree(issue, task)
    BY <2>1, CreatedIssue DEF Init, Agree
  <2>3. HashedPairAgrees
    BY <2>2, HashOfAgreeing DEF Init, HashedPairAgrees
  <2>4. \A p \in Procs : loc[p].pc \notin {"commit_l", "commit_t"}
    BY DEF Init, Idle
  <2>. QED BY <2>3, <2>4 DEF AgreeInv
<1>2. TypeInv /\ AgreeInv /\ [Next]_vars => AgreeInv'
  <2>1. ASSUME TypeInv, AgreeInv, NEW p \in Pollers \cup Fillers, Quietly(p) PROVE AgreeInv'
    <3>1. p \in Procs
      BY DEF Procs
    <3>. QED BY <2>1, <3>1, AgreeFrame DEF Quietly, TypeInv, Writing
  <2>2. ASSUME TypeInv, AgreeInv, Next PROVE AgreeInv'
    BY <2>1, <2>2, JobIsQuiet, HookAgree, SyncAgree, WorldAgree DEF Next, WorldStep
  <2>3. ASSUME AgreeInv, UNCHANGED vars PROVE AgreeInv'
    BY <2>3 DEF vars, AgreeInv, Agree, HashedPairAgrees
  <2>. QED BY <2>2, <2>3
<1>3. AgreeInv => HashedPairAgrees
  BY DEF AgreeInv
<1>. QED
  BY <1>1, <1>2, <1>3, TypesHold, PTL DEF Spec
=============================================================================
