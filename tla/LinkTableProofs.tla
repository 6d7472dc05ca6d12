--------------------------- MODULE LinkTableProofs ---------------------------
(***************************************************************************)
(* Proofs about LinkTable, for any sets of ids, handlers and jobs and any     *)
(* bounds: its type invariant, and that the table joins twins only.          *)
(***************************************************************************)
EXTENDS LinkTable, TLAPS

(***************************************************************************)
(* A process about to store, or to store again, a pair knows it from its own *)
(* create or from a row.  The other conjuncts say what it holds by then: a    *)
(* handler always has an issue to be delivered again.                        *)
(***************************************************************************)
KnowsTwins(p) ==
    /\ loc[p].pc \in {"check", "create_task"} => loc[p].iss \in IssueIds
    /\ loc[p].pc = "create_issue" => loc[p].tsk \in TaskIds
    /\ loc[p].pc \in {"mark", "link", "sync"} => <<loc[p].iss, loc[p].tsk>> \in twins
    /\ p \in Hooks => loc[p].pc \notin {"next", "create_issue"}

TwinInv == TypeOK /\ RowsJoinTwins /\ \A p \in Procs : KnowsTwins(p)

LEMMA InitTwin == Init => TwinInv
<1> SUFFICES ASSUME Init PROVE TwinInv
    OBVIOUS
<1>1. Idle \in Locals
    BY DEF Idle, Locals, PCs
<1>2. TypeOK
    BY <1>1, BoundsAssumption DEF Init, TypeOK
<1>3. RowsJoinTwins
    BY DEF Init, RowsJoinTwins
<1>4. \A p \in Procs : KnowsTwins(p)
    BY DEF Init, KnowsTwins, Idle
<1> QED BY <1>2, <1>3, <1>4 DEF TwinInv

(***************************************************************************)
(* A process in mid-course holds an issue, if it is a handler.               *)
(***************************************************************************)
LEMMA HandlerHasIssue ==
    ASSUME TwinInv, NEW p \in Hooks, loc[p].pc # "idle"
    PROVE  loc[p].iss \in IssueIds
<1> p \in Procs
    BY DEF Procs
<1>1. loc[p].pc \in {"check", "create_task", "mark", "link", "sync"}
    BY DEF TwinInv, TypeOK, Locals, PCs, KnowsTwins
<1>2. CASE loc[p].pc \in {"check", "create_task"}
    BY <1>2 DEF TwinInv, KnowsTwins
<1>3. CASE loc[p].pc \in {"mark", "link", "sync"}
    BY <1>3 DEF TwinInv, TypeOK, KnowsTwins
<1> QED BY <1>1, <1>2, <1>3

(***************************************************************************)
(* What one process may do to its own record, the rest being as it was.       *)
(***************************************************************************)
Holds(p, l, T) ==
    /\ l \in Locals
    /\ l.pc \in {"check", "create_task"} => l.iss \in IssueIds
    /\ l.pc = "create_issue" => l.tsk \in TaskIds
    /\ l.pc \in {"mark", "link", "sync"} => <<l.iss, l.tsk>> \in T
    /\ p \in Hooks => l.pc \notin {"next", "create_issue"}

LEMMA OneProcessMoves ==
    ASSUME TwinInv, twins \subseteq twins', NEW p \in Procs,
           NEW l, Holds(p, l, twins'), loc' = [loc EXCEPT ![p] = l]
    PROVE  loc' \in [Procs -> Locals] /\ \A q \in Procs : KnowsTwins(q)'
<1>1. loc' \in [Procs -> Locals]
    BY DEF TwinInv, TypeOK, Holds
<1>2. ASSUME NEW q \in Procs PROVE KnowsTwins(q)'
    <2>1. CASE q = p
        <3>1. loc'[q] = l
            BY <2>1 DEF TwinInv, TypeOK
        <3> QED BY <2>1, <3>1 DEF Holds, KnowsTwins
    <2>2. CASE q # p
        <3>1. loc'[q] = loc[q]
            BY <2>2 DEF TwinInv, TypeOK
        <3>2. KnowsTwins(q)
            BY DEF TwinInv
        <3> QED BY <3>1, <3>2 DEF KnowsTwins
    <2> QED BY <2>1, <2>2
<1> QED BY <1>1, <1>2

LEMMA FinishedHolds ==
    ASSUME TwinInv, NEW p \in Procs, Finish(p)
    PROVE  \E l : Holds(p, l, twins') /\ loc' = [loc EXCEPT ![p] = l]
<1> DEFINE l == IF p \in Hooks THEN Idle
                ELSE [Idle EXCEPT !.pc = "next", !.todo = loc[p].todo]
<1>1. loc[p].todo \in SUBSET (IssueIds \cup TaskIds)
    BY DEF TwinInv, TypeOK, Locals
<1>2. Holds(p, l, twins')
    BY <1>1 DEF Holds, Locals, PCs, Idle
<1> QED BY <1>2 DEF Finish

LEMMA VisitHolds ==
    ASSUME TwinInv, twins' = twins, NEW p \in Procs, NEW r \in rows,
           NEW rest \in SUBSET (IssueIds \cup TaskIds), NEW found,
           Visit(p, r, rest, found)
    PROVE  \E l : Holds(p, l, twins') /\ loc' = [loc EXCEPT ![p] = l]
<1>1. /\ <<r[1], r[2]>> \in twins
      /\ r[1] \in IssueIds /\ r[2] \in TaskIds
    BY DEF TwinInv, TypeOK, RowsJoinTwins
<1>2. CASE loc' = [loc EXCEPT ![p] = [pc |-> "sync", iss |-> r[1], tsk |-> r[2], todo |-> rest]]
    <2> DEFINE l == [pc |-> "sync", iss |-> r[1], tsk |-> r[2], todo |-> rest]
    <2>1. Holds(p, l, twins')
        BY <1>1 DEF Holds, Locals, PCs
    <2> QED BY <1>2, <2>1
<1>3. CASE loc' = [loc EXCEPT ![p] = IF p \in Hooks THEN Idle
                                     ELSE [Idle EXCEPT !.pc = "next", !.todo = rest]]
    <2> DEFINE l == IF p \in Hooks THEN Idle ELSE [Idle EXCEPT !.pc = "next", !.todo = rest]
    <2>1. Holds(p, l, twins')
        BY DEF Holds, Locals, PCs, Idle
    <2> QED BY <1>3, <2>1
<1> QED BY <1>2, <1>3 DEF Visit

LEMMA MirrorHolds ==
    ASSUME TwinInv, twins' = twins, NEW p \in Procs, NEW i \in IssueIds,
           NEW rest \in SUBSET (IssueIds \cup TaskIds), Mirror(p, i, rest)
    PROVE  \E l : Holds(p, l, twins') /\ loc' = [loc EXCEPT ![p] = l]
<1>1. CASE \E r \in rows : r[1] = i /\ Visit(p, r, rest, r[2] \in tasks)
    BY <1>1, VisitHolds
<1>2. CASE loc' = [loc EXCEPT ![p] = [pc |-> "create_task", iss |-> i, tsk |-> None, todo |-> rest]]
    <2> DEFINE l == [pc |-> "create_task", iss |-> i, tsk |-> None, todo |-> rest]
    <2>1. Holds(p, l, twins')
        BY DEF Holds, Locals, PCs
    <2> QED BY <1>2, <2>1
<1> QED BY <1>1, <1>2 DEF Mirror

(***************************************************************************)
(* The invariant without loc, which the lemmas above take care of.           *)
(***************************************************************************)
Stored ==
    /\ issues \subseteq IssueIds \cap used
    /\ tasks \subseteq TaskIds \cap used
    /\ used \subseteq IssueIds \cup TaskIds
    /\ twins \subseteq IssueIds \X TaskIds
    /\ rows \subseteq twins
    /\ inbox \subseteq IssueIds
    /\ userops \in 0..MaxUserOps
    /\ faults \in 0..MaxFaults

LEMMA TwinInvSplit ==
    TwinInv <=> Stored /\ loc \in [Procs -> Locals] /\ \A p \in Procs : KnowsTwins(p)
BY DEF TwinInv, TypeOK, Stored, RowsJoinTwins

(***************************************************************************)
(* A process step: the stores stay in order, and its record is one it holds. *)
(***************************************************************************)
LEMMA ProcessStep ==
    ASSUME TwinInv, Stored', twins \subseteq twins', NEW p \in Procs,
           \E l : Holds(p, l, twins') /\ loc' = [loc EXCEPT ![p] = l]
    PROVE  TwinInv'
<1>1. PICK l : Holds(p, l, twins') /\ loc' = [loc EXCEPT ![p] = l]
    OBVIOUS
<1>2. loc' \in [Procs -> Locals] /\ \A q \in Procs : KnowsTwins(q)'
    BY <1>1, OneProcessMoves
<1> QED BY <1>2 DEF TwinInv, TypeOK, Stored, RowsJoinTwins

LEMMA ReceiveKeeps ==
    ASSUME TwinInv, NEW p \in Hooks, NEW i \in IssueIds, Receive(p, i)
    PROVE  TwinInv'
<1> p \in Procs
    BY DEF Procs
<1> DEFINE l == [loc[p] EXCEPT !.pc = "check", !.iss = i]
<1>1. loc' = [loc EXCEPT ![p] = l]
    BY DEF Receive
<1>2. Holds(p, l, twins')
    BY DEF Holds, Locals, PCs, TwinInv, TypeOK
<1>3. Stored' /\ twins' = twins
    BY DEF Receive, stores, Stored, TwinInv, TypeOK, RowsJoinTwins
<1> QED BY <1>1, <1>2, <1>3, ProcessStep

LEMMA CheckKeeps ==
    ASSUME TwinInv, NEW p \in Procs, Check(p)
    PROVE  TwinInv'
<1>1. Stored' /\ twins' = twins
    BY BoundsAssumption DEF Check, Fault, stores, Stored, TwinInv, TypeOK, RowsJoinTwins
<1>2. loc[p].iss \in IssueIds
    BY DEF Check, At, TwinInv, KnowsTwins
<1>3. CASE Mirror(p, loc[p].iss, {})
    BY <1>1, <1>2, <1>3, MirrorHolds, ProcessStep
<1>4. CASE Finish(p)
    BY <1>1, <1>4, FinishedHolds, ProcessStep
<1> QED BY <1>3, <1>4 DEF Check

LEMMA ListKeeps ==
    ASSUME TwinInv, NEW p \in Procs, p \notin Hooks, FillList(p) \/ PollList(p)
    PROVE  TwinInv'
<1> DEFINE l == [loc[p] EXCEPT !.pc = "next", !.todo = loc'[p].todo]
<1>0. listed \subseteq issues
    BY DEF listed
<1>1. loc' = [loc EXCEPT ![p] = l] /\ loc'[p].todo \in {listed, tasks}
    BY DEF FillList, PollList, TwinInv, TypeOK, Locals
<1>2. Holds(p, l, twins')
    BY <1>0, <1>1 DEF Holds, Locals, PCs, TwinInv, TypeOK
<1>3. Stored' /\ twins' = twins
    BY DEF FillList, PollList, stores, Stored, TwinInv, TypeOK, RowsJoinTwins
<1> QED BY <1>1, <1>2, <1>3, ProcessStep

LEMMA NextKeeps ==
    ASSUME TwinInv, NEW p \in Procs, p \notin Hooks,
           \/ \E i \in IssueIds : FillNext(p, i)
           \/ \E t \in TaskIds : PollNext(p, t)
    PROVE  TwinInv'
<1>1. Stored' /\ twins' = twins
    BY DEF FillNext, PollNext, stores, Stored, TwinInv, TypeOK, RowsJoinTwins
<1>2. loc[p].todo \in SUBSET (IssueIds \cup TaskIds)
    BY DEF TwinInv, TypeOK, Locals
<1>3. CASE \E i \in IssueIds : FillNext(p, i)
    <2>1. PICK i \in IssueIds : Mirror(p, i, loc[p].todo \ {i})
        BY <1>3 DEF FillNext
    <2> QED BY <1>1, <1>2, <2>1, MirrorHolds, ProcessStep
<1>4. CASE \E t \in TaskIds : PollNext(p, t)
    <2>1. PICK t \in TaskIds : PollNext(p, t)
        BY <1>4
    <2> DEFINE l == [pc |-> "create_issue", iss |-> None, tsk |-> t, todo |-> loc[p].todo \ {t}]
    <2>2. CASE \E r \in rows : r[2] = t /\ Visit(p, r, loc[p].todo \ {t}, r[1] \in issues)
        BY <1>1, <1>2, <2>2, VisitHolds, ProcessStep
    <2>3. CASE loc' = [loc EXCEPT ![p] = l]
        <3>1. Holds(p, l, twins')
            BY <1>2 DEF Holds, Locals, PCs
        <3> QED BY <1>1, <2>3, <3>1, ProcessStep
    <2> QED BY <2>1, <2>2, <2>3 DEF PollNext
<1> QED BY <1>3, <1>4

LEMMA EndKeeps ==
    ASSUME TwinInv, NEW p \in Procs, JobEnds(p) \/ FillRaises(p)
    PROVE  TwinInv'
<1>1. Stored' /\ twins' = twins
    BY BoundsAssumption DEF JobEnds, FillRaises, Fault, stores, Stored, TwinInv, TypeOK, RowsJoinTwins
<1>2. Holds(p, Idle, twins')
    BY DEF Holds, Idle, Locals, PCs
<1>3. loc' = [loc EXCEPT ![p] = Idle]
    BY DEF JobEnds, FillRaises
<1> QED BY <1>1, <1>2, <1>3, ProcessStep

LEMMA CreateTaskKeeps ==
    ASSUME TwinInv, NEW p \in Procs, CreateTask(p)
    PROVE  TwinInv'
<1>1. loc[p].iss \in IssueIds /\ loc[p] \in Locals /\ loc[p].pc = "create_task"
    BY DEF CreateTask, At, TwinInv, TypeOK, KnowsTwins
<1>2. PICK t \in TaskIds \ used :
        /\ used' = used \cup {t}
        /\ tasks' = tasks \cup {t}
        /\ twins' = twins \cup {<<loc[p].iss, t>>}
        /\ \/ loc' = [loc EXCEPT ![p].tsk = t, ![p].pc = "mark"] /\ UNCHANGED faults
           \/ Fault /\ UNCHANGED loc
    BY DEF CreateTask
<1>3. Stored' /\ twins \subseteq twins'
    <2>1. UNCHANGED <<issues, rows, inbox, userops>>
        BY DEF CreateTask
    <2>2. faults' \in 0..MaxFaults
        BY <1>2, BoundsAssumption DEF Fault, TwinInv, TypeOK
    <2> QED BY <1>1, <1>2, <2>1, <2>2 DEF Stored, TwinInv, TypeOK, RowsJoinTwins
<1>4. CASE loc' = [loc EXCEPT ![p].tsk = t, ![p].pc = "mark"]
    <2> DEFINE l == [loc[p] EXCEPT !.tsk = t, !.pc = "mark"]
    <2>1. loc' = [loc EXCEPT ![p] = l]
        BY <1>4
    <2>2. Holds(p, l, twins')
        BY <1>1, <1>2 DEF Holds, Locals, PCs
    <2> QED BY <1>3, <2>1, <2>2, ProcessStep
<1>5. CASE UNCHANGED loc
    BY <1>3, <1>5, TwinInvSplit DEF TwinInv, TypeOK, Stored, RowsJoinTwins, KnowsTwins
<1> QED BY <1>2, <1>4, <1>5

LEMMA CreateIssueKeeps ==
    ASSUME TwinInv, NEW p \in Procs, CreateIssue(p)
    PROVE  TwinInv'
<1>1. loc[p].tsk \in TaskIds /\ loc[p] \in Locals /\ loc[p].pc = "create_issue"
    BY DEF CreateIssue, At, TwinInv, TypeOK, KnowsTwins
<1>2. PICK i \in IssueIds \ used :
        /\ used' = used \cup {i}
        /\ issues' = issues \cup {i}
        /\ twins' = twins \cup {<<i, loc[p].tsk>>}
        /\ inbox' = inbox \cup {i}
        /\ \/ loc' = [loc EXCEPT ![p].iss = i, ![p].pc = "link"] /\ UNCHANGED faults
           \/ Fault /\ UNCHANGED loc
    BY DEF CreateIssue
<1>3. Stored' /\ twins \subseteq twins'
    <2>1. UNCHANGED <<tasks, rows, userops>>
        BY DEF CreateIssue
    <2>2. faults' \in 0..MaxFaults
        BY <1>2, BoundsAssumption DEF Fault, TwinInv, TypeOK
    <2> QED BY <1>1, <1>2, <2>1, <2>2 DEF Stored, TwinInv, TypeOK, RowsJoinTwins
<1>4. CASE loc' = [loc EXCEPT ![p].iss = i, ![p].pc = "link"]
    <2> DEFINE l == [loc[p] EXCEPT !.iss = i, !.pc = "link"]
    <2>1. loc' = [loc EXCEPT ![p] = l]
        BY <1>4
    <2>2. Holds(p, l, twins')
        BY <1>1, <1>2 DEF Holds, Locals, PCs
    <2> QED BY <1>3, <2>1, <2>2, ProcessStep
<1>5. CASE UNCHANGED loc
    BY <1>3, <1>5, TwinInvSplit DEF TwinInv, TypeOK, Stored, RowsJoinTwins, KnowsTwins
<1> QED BY <1>2, <1>4, <1>5

LEMMA MarkKeeps ==
    ASSUME TwinInv, NEW p \in Procs, MarkIssue(p)
    PROVE  TwinInv'
<1> DEFINE l == [loc[p] EXCEPT !.pc = "link"]
<1>1. loc' = [loc EXCEPT ![p] = l]
    BY DEF MarkIssue
<1>2. Holds(p, l, twins')
    BY DEF MarkIssue, At, stores, Holds, Locals, PCs, TwinInv, TypeOK, KnowsTwins
<1>3. Stored' /\ twins' = twins
    BY DEF MarkIssue, stores, Stored, TwinInv, TypeOK, RowsJoinTwins
<1> QED BY <1>1, <1>2, <1>3, ProcessStep

(***************************************************************************)
(* Both ways to store a row store the pair the process knows.                *)
(***************************************************************************)
LEMMA RowKeeps ==
    ASSUME TwinInv, NEW p \in Procs, LinkRow(p) \/ SyncPair(p)
    PROVE  TwinInv'
<1>1. <<loc[p].iss, loc[p].tsk>> \in twins
    BY DEF LinkRow, SyncPair, At, TwinInv, KnowsTwins
<1>2. rows' = rows \/ rows' = upsert_link(loc[p].iss, loc[p].tsk)
    BY DEF LinkRow, SyncPair
<1>3. rows' \subseteq twins
    BY <1>1, <1>2 DEF upsert_link, TwinInv, RowsJoinTwins
<1>4. UNCHANGED <<stores, inbox, userops, faults>> /\ Finish(p)
    BY DEF LinkRow, SyncPair
<1>5. Stored' /\ twins' = twins
    BY <1>3, <1>4 DEF stores, Stored, TwinInv, TypeOK
<1> QED BY <1>4, <1>5, FinishedHolds, ProcessStep

LEMMA RaiseKeeps ==
    ASSUME TwinInv, NEW p \in Procs, Raise(p)
    PROVE  TwinInv'
<1>1. loc[p].pc # "idle" /\ Finish(p) /\ Again(p) /\ UNCHANGED <<stores, rows, userops>>
    BY DEF Raise, At
<1>2. inbox' \subseteq IssueIds
    BY <1>1, HandlerHasIssue DEF Again, TwinInv, TypeOK
<1>3. faults' \in 0..MaxFaults
    BY BoundsAssumption DEF Raise, Fault, TwinInv, TypeOK
<1>4. Stored' /\ twins' = twins
    BY <1>1, <1>2, <1>3 DEF stores, Stored, TwinInv, TypeOK, RowsJoinTwins
<1> QED BY <1>1, <1>4, FinishedHolds, ProcessStep

UserStep ==
    \/ \E i \in IssueIds : UserCreatesIssue(i) \/ UserEditsIssue(i) \/ UserDeletesIssue(i)
    \/ \E t \in TaskIds : UserCreatesTask(t) \/ UserDeletesTask(t)

LEMMA UserKeeps ==
    ASSUME TwinInv, UserStep
    PROVE  TwinInv'
<1>1. UNCHANGED <<twins, rows, loc, faults>> /\ userops' \in 0..MaxUserOps
    BY BoundsAssumption
    DEF UserStep, UserMay, UserCreatesIssue, UserEditsIssue, UserDeletesIssue,
        UserCreatesTask, UserDeletesTask, stores, TwinInv, TypeOK
<1>2. /\ issues' \subseteq IssueIds \cap used'
      /\ tasks' \subseteq TaskIds \cap used'
      /\ used' \subseteq IssueIds \cup TaskIds
      /\ inbox' \subseteq IssueIds
    BY DEF UserStep, UserCreatesIssue, UserEditsIssue, UserDeletesIssue,
           UserCreatesTask, UserDeletesTask, stores, TwinInv, TypeOK
<1> QED BY <1>1, <1>2 DEF TwinInv, TypeOK, RowsJoinTwins, KnowsTwins

LEMMA CrashKeeps ==
    ASSUME TwinInv, Crash
    PROVE  TwinInv'
<1>1. inbox' \subseteq IssueIds
    BY HandlerHasIssue DEF Crash, At, TwinInv, TypeOK
<1>2. faults' \in 0..MaxFaults
    BY BoundsAssumption DEF Crash, Fault, TwinInv, TypeOK
<1>3. Stored'
    BY <1>1, <1>2 DEF Crash, stores, Stored, TwinInv, TypeOK, RowsJoinTwins
<1>4. loc' \in [Procs -> Locals] /\ \A p \in Procs : KnowsTwins(p)'
    BY DEF Crash, Idle, Locals, PCs, KnowsTwins
<1> QED BY <1>3, <1>4 DEF TwinInv, TypeOK, Stored, RowsJoinTwins

LEMMA StepKeepsTwins == TwinInv /\ [Next]_vars => TwinInv'
<1> SUFFICES ASSUME TwinInv, [Next]_vars PROVE TwinInv'
    OBVIOUS
<1> Hooks \subseteq Procs /\ Fillers \subseteq Procs /\ Pollers \subseteq Procs
    BY DEF Procs
<1>1. CASE \E p \in Hooks, i \in IssueIds : Receive(p, i)
    BY <1>1, ReceiveKeeps
<1>2. CASE \E p \in Fillers : FillList(p) \/ FillRaises(p) \/ \E i \in IssueIds : FillNext(p, i)
    BY <1>2, ProcsAssumption, ListKeeps, NextKeeps, EndKeeps
<1>3. CASE \E p \in Pollers : PollList(p) \/ \E t \in TaskIds : PollNext(p, t)
    BY <1>3, ProcsAssumption, ListKeeps, NextKeeps
<1>4. CASE \E p \in Procs : JobEnds(p) \/ Step(p) \/ Raise(p)
    BY <1>4, EndKeeps, CheckKeeps, CreateTaskKeeps, MarkKeeps, CreateIssueKeeps,
       RowKeeps, RaiseKeeps DEF Step
<1>5. CASE UserStep
    BY <1>5, UserKeeps
<1>6. CASE Crash
    BY <1>6, CrashKeeps
<1>7. CASE UNCHANGED vars
    BY <1>7 DEF vars, TwinInv, TypeOK, RowsJoinTwins, KnowsTwins
<1> QED BY <1>1, <1>2, <1>3, <1>4, <1>5, <1>6, <1>7 DEF Next, UserStep

(***************************************************************************)
(* Every variable of LinkTable keeps its type: no key of a row, no id in a    *)
(* request or in a job's list is ever of the other kind.                     *)
(***************************************************************************)
THEOREM TableTypeCorrect == Spec => []TypeOK
<1>1. TwinInv => TypeOK
    BY DEF TwinInv
<1> QED BY <1>1, InitTwin, StepKeepsTwins, PTL DEF Spec

(***************************************************************************)
(* Table link joins an issue and a task only if one of them was created to    *)
(* mirror the other, however creations, retries, crashes and the rewriting    *)
(* of rows by upsert_link interleave.                                        *)
(***************************************************************************)
THEOREM TableJoinsTwins == Spec => []RowsJoinTwins
<1>1. TwinInv => RowsJoinTwins
    BY DEF TwinInv
<1> QED BY <1>1, InitTwin, StepKeepsTwins, PTL DEF Spec
=============================================================================
