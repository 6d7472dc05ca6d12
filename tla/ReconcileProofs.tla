-------------------------- MODULE ReconcileProofs --------------------------
(***************************************************************************)
(* The link table under the command line and the service together, for any *)
(* sets of ids, titles, handlers and jobs.  That the service keeps TwinInv *)
(* is LinkTableProofs' result; it holds whatever the file of the plan says. *)
(* Then what match plans: a stable matching of the two lists, which comes   *)
(* back from its file unless a title spoils the file, so that the table     *)
(* only joins what was planned or created; and, with nothing else running,  *)
(* what match --confirm makes of the plan, row by row, to the end of the    *)
(* first confirmation.                                                      *)
(***************************************************************************)
EXTENDS Reconcile, LinkTableProofs, WellFoundedInduction

\* What confirm is about to store is joined already.
CliRecord(c) ==
    c \in [ pc : {c.pc}, issues : {c.issues}, tasks : {c.tasks}, labels : {c.labels},
            tasks_by_id : SUBSET TaskIds, todo : {c.todo}, new : {c.new} ]

CliKnowsTwins ==
    /\ CliRecord(cli)
    /\ CliAt("upsert") => <<cli.new, Row.ttid>> \in twins

TableInv == TwinInv /\ CliKnowsTwins /\ Unique(rows)

LEMMA InitTable == InitReconcile => TableInv
<1>. SUFFICES ASSUME InitReconcile PROVE TableInv
  OBVIOUS
<1>. USE DEF InitReconcile
<1>1. rows \subseteq IssueIds \X TaskIds /\ rows \subseteq twins /\ Unique(rows)
  BY ListsAssumption
<1>2. Stored
  BY <1>1, ListsAssumption, BoundsAssumption DEF Stored
<1>3. Idle \in Locals
  BY DEF Idle, Locals, PCs
<1>4. loc \in [Procs -> Locals] /\ \A p \in Procs : KnowsTwins(p)
  BY <1>3 DEF KnowsTwins, Idle
<1>5. CliKnowsTwins
  BY DEF CliKnowsTwins, CliRecord, CliIdle, CliAt
<1>. QED BY <1>1, <1>2, <1>4, <1>5, TwinInvSplit DEF TableInv

\* A row that is not in the table yet may be added, if its issue has none.
LEMMA UpsertUnlinked ==
    ASSUME Unique(rows), NEW i, NEW t, ~IssueLinked(i)
    PROVE  Unique(upsert_link(i, t))
BY DEF Unique, upsert_link, Found, IssueLinked

LEMMA ServiceKeepsUnique ==
    ASSUME Unique(rows), Next
    PROVE  Unique(rows')
<1>1. CASE \E p \in Procs : LinkRow(p)
  BY <1>1 DEF LinkRow
<1>2. CASE \E p \in Procs : SyncPair(p)
  <2>1. PICK p \in Procs : SyncPair(p)
    BY <1>2
  <2>. QED BY <2>1, UpsertUnlinked DEF SyncPair
<1>3. ASSUME ~(\E p \in Procs : LinkRow(p)), ~(\E p \in Procs : SyncPair(p)) PROVE rows' = rows
  BY <1>3 DEF Next, Step, Receive, Check, FillList, FillNext, FillRaises, PollList, PollNext, JobEnds,
     CreateTask, MarkIssue, CreateIssue, Raise, UserCreatesIssue, UserCreatesTask,
     UserEditsIssue, UserDeletesIssue, UserDeletesTask, Crash, stores
<1>. QED BY <1>1, <1>2, <1>3

\* The command line leaves the service's processes alone, and only adds twins.
LEMMA TwinInvGrows ==
    ASSUME TwinInv, Stored', loc' = loc, twins \subseteq twins'
    PROVE  TwinInv'
<1>1. \A p \in Procs : KnowsTwins(p)'
  BY DEF TwinInv, KnowsTwins
<1>2. loc' \in [Procs -> Locals]
  BY DEF TwinInv, TypeOK
<1>. QED BY <1>1, <1>2 DEF TwinInv, TypeOK, Stored, RowsJoinTwins

LEMMA FaultCounts == ASSUME TwinInv, UNCHANGED faults \/ Fault PROVE faults' \in 0..MaxFaults
BY BoundsAssumption DEF TwinInv, TypeOK, Fault

LEMMA CommandLineKeeps ==
    ASSUME TableInv, CommandLine
    PROVE  TableInv'
<1>. USE DEF stores
<1>0. TwinInv /\ CliKnowsTwins /\ Unique(rows) /\ Stored
  BY TwinInvSplit DEF TableInv
<1>1. ASSUME UNCHANGED <<issues, tasks, used, twins, rows, loc, userops>>,
             inbox' \subseteq IssueIds, UNCHANGED faults \/ Fault,
             CliRecord(cli'), cli'.pc # "upsert"
      PROVE  TableInv'
  <2>1. Stored'
    BY <1>0, <1>1, FaultCounts DEF Stored
  <2>2. CliKnowsTwins'
    BY <1>1 DEF CliKnowsTwins, CliAt
  <2>. QED BY <1>0, <1>1, <2>1, <2>2, TwinInvGrows DEF TableInv
<1>2. CASE DryRun \/ WritePlan \/ Confirm \/ ConfirmTasks \/ ConfirmEnds
  <2>1. UNCHANGED vars
    BY <1>2 DEF DryRun, WritePlan, Confirm, ConfirmTasks, ConfirmEnds
  <2>2. CliRecord(cli') /\ cli'.pc # "upsert"
    <3>1. ASSUME NEW pc \in CliPCs, pc # "upsert", Command(pc) PROVE CliRecord(cli') /\ cli'.pc # "upsert"
      <4>1. cli' = [CliIdle EXCEPT !.pc = pc, !.issues = list_team_issues, !.labels = labelled]
        BY <3>1 DEF Command
      <4>. QED BY <3>1, <4>1 DEF CliIdle, CliRecord
    <3>2. CASE DryRun \/ Confirm
      BY <3>1, <3>2 DEF DryRun, Confirm, CliPCs
    <3>3. CASE WritePlan
      <4>1. cli' = [cli EXCEPT !.pc = "planned", !.tasks = list_tasks]
        BY <3>3 DEF WritePlan
      <4>. QED BY <1>0, <4>1 DEF CliKnowsTwins, CliRecord
    <3>4. CASE ConfirmTasks
      <4>1. cli' = [cli EXCEPT !.pc = "rows", !.tasks_by_id = tasks, !.todo = Plans!read_plan_tsv(file)]
        BY <3>4 DEF ConfirmTasks
      <4>2. tasks \subseteq TaskIds
        BY <1>0 DEF Stored
      <4>. QED BY <1>0, <4>1, <4>2 DEF CliKnowsTwins, CliRecord
    <3>5. CASE ConfirmEnds
      <4>1. cli' = [cli EXCEPT !.pc = "applied"]
        BY <3>5 DEF ConfirmEnds
      <4>. QED BY <1>0, <4>1 DEF CliKnowsTwins, CliRecord
    <3>. QED BY <1>2, <3>2, <3>3, <3>4, <3>5
  <2>. QED BY <1>0, <1>1, <2>1, <2>2 DEF vars, Stored
<1>3. CASE SkipRow \/ TombstoneLinear \/ RaiseRow \/ CommandDies
  <2>1. UNCHANGED <<issues, tasks, used, twins, rows, loc, userops>>
    BY <1>3 DEF SkipRow, TombstoneLinear, RaiseRow, CommandDies, vars
  <2>2. inbox' \subseteq IssueIds /\ (UNCHANGED faults \/ Fault)
    BY <1>0, <1>3 DEF SkipRow, TombstoneLinear, RaiseRow, CommandDies, Stored, vars
  <2>3. NextRow \/ cli' = CliIdle
    BY <1>3 DEF SkipRow, TombstoneLinear, RaiseRow, CommandDies
  <2>4. CliRecord(cli') /\ cli'.pc # "upsert"
    <3>1. CASE NextRow
      <4>. DEFINE rest == Tail(cli.todo)
      <4>1. cli' = [cli EXCEPT !.pc = "rows", !.todo = rest, !.new = None]
        BY <3>1 DEF NextRow
      <4>. HIDE DEF rest
      <4>. QED BY <1>0, <4>1 DEF CliKnowsTwins, CliRecord
    <3>2. CASE cli' = CliIdle
      BY <3>2 DEF CliIdle, CliRecord
    <3>. QED BY <2>3, <3>1, <3>2
  <2>. QED BY <1>1, <2>1, <2>2, <2>4
<1>4. CASE LinkExisting
  <2>1. Row.ident \in IssueIds /\ Row.ttid \in TaskIds
    BY <1>0, <1>4 DEF LinkExisting, Does, Stored, CliKnowsTwins, CliRecord
  <2>2. Stored' /\ twins \subseteq twins' /\ loc' = loc /\ rows' = rows
    BY <1>0, <1>4, <2>1 DEF LinkExisting, Stored
  <2>3. cli'.new = Row.ident /\ Row' = Row /\ CliRecord(cli')
    BY <1>0, <1>4 DEF LinkExisting, Row, CliKnowsTwins, CliRecord
  <2>4. CliKnowsTwins'
    BY <1>0, <1>4, <2>3 DEF LinkExisting, CliKnowsTwins
  <2>. QED BY <1>0, <2>2, <2>4, TwinInvGrows DEF TableInv
<1>5. CASE CreateLinear
  <2>1. Row.ttid \in TaskIds
    BY <1>0, <1>5 DEF CreateLinear, Does, CliKnowsTwins, CliRecord
  <2>2. PICK i \in IssueIds \ used :
          /\ used' = used \cup {i} /\ issues' = issues \cup {i}
          /\ twins' = twins \cup {<<i, Row.ttid>>} /\ inbox' = inbox \cup {i}
          /\ cli' = [cli EXCEPT !.pc = "upsert", !.new = i] \/ cli' = cli
          /\ UNCHANGED faults \/ Fault
    BY <1>5 DEF CreateLinear
  <2>3. UNCHANGED <<tasks, rows, loc, userops>> /\ twins \subseteq twins'
    BY <1>5, <2>2 DEF CreateLinear
  <2>4. Stored'
    BY <1>0, <2>1, <2>2, <2>3, FaultCounts DEF Stored
  <2>5. CliKnowsTwins'
    <3>1. CASE cli' = cli
      BY <1>0, <2>2, <3>1 DEF CliKnowsTwins, CliAt, Row
    <3>2. CASE cli' = [cli EXCEPT !.pc = "upsert", !.new = i]
      <4>1. CliAt("rows")
        BY <1>5 DEF CreateLinear, Does
      <4>2. Row' = Row /\ CliRecord(cli')
        BY <1>0, <3>2 DEF Row, CliKnowsTwins, CliRecord
      <4>3. cli'.pc = "upsert" => cli'.new = i
        BY <3>2, <4>1 DEF CliAt
      <4>. QED BY <1>0, <2>2, <4>2, <4>3 DEF CliKnowsTwins, CliAt
    <3>. QED BY <2>2, <3>1, <3>2
  <2>. QED BY <1>0, <2>3, <2>4, <2>5, TwinInvGrows DEF TableInv
<1>6. CASE Upsert
  <2>1. UNCHANGED <<issues, tasks, used, twins, inbox, loc, userops, faults>> /\ Unique(rows')
    BY <1>6 DEF Upsert
  <2>2. rows' \subseteq twins
    BY <1>0, <1>6 DEF Upsert, upsert_link, CliKnowsTwins, Stored
  <2>3. Stored'
    BY <1>0, <2>1, <2>2 DEF Stored
  <2>4. CliKnowsTwins'
    BY <1>0, <1>6 DEF Upsert, NextRow, CliKnowsTwins, CliRecord, CliAt
  <2>. QED BY <1>0, <2>1, <2>3, <2>4, TwinInvGrows DEF TableInv
<1>. QED BY <1>2, <1>3, <1>4, <1>5, <1>6 DEF CommandLine

LEMMA TableKept == TableInv /\ [CommandLine \/ Service]_allvars => TableInv'
<1>1. ASSUME TableInv, Service PROVE TableInv'
  <2>1. TwinInv'
    BY <1>1, StepKeepsTwins DEF Service, TableInv
  <2>2. Unique(rows')
    BY <1>1, ServiceKeepsUnique DEF Service, TableInv
  <2>3. twins \subseteq twins'
    BY <1>1 DEF Service, Next, Step, Receive, Check, FillList, FillNext, FillRaises, PollList, PollNext, JobEnds,
       CreateTask, MarkIssue, CreateIssue, Raise, LinkRow, SyncPair, UserCreatesIssue,
       UserCreatesTask, UserEditsIssue, UserDeletesIssue, UserDeletesTask, Crash, stores
  <2>4. CliKnowsTwins'
    BY <1>1, <2>3 DEF Service, TableInv, CliKnowsTwins, CliAt, Row
  <2>. QED BY <2>1, <2>2, <2>4 DEF TableInv
<1>2. ASSUME TableInv, UNCHANGED allvars PROVE TableInv'
  <2>1. TwinInv'
    BY <1>2, StepKeepsTwins DEF allvars, TableInv
  <2>. QED BY <1>2, <2>1 DEF allvars, vars, matching, TableInv, CliKnowsTwins, CliAt, Row, Unique
<1>. QED BY <1>1, <1>2, CommandLineKeeps

----------------------------------------------------------------------------
(* Loops over a list.  What holds when a loop starts and is kept by every     *)
(* round holds at its end (UpTo), and there is a function that goes through   *)
(* the rounds (LoopRuns), which is what a recursive definition needs.         *)

LEMMA LeastNumber ==
    ASSUME NEW T \in SUBSET Nat, T # {}
    PROVE  \E x \in T : \A y \in T : ~(y < x)
<1>1. \E x \in T : \A y \in T : ~(<<y, x>> \in OpToRel(<, Nat))
  BY NatLessThanWellFounded, WFMin
<1>. QED BY <1>1 DEF OpToRel

LEMMA UpTo ==
    ASSUME NEW n \in Nat, NEW S, 0 \in S, \A k \in 1..n : k - 1 \in S => k \in S
    PROVE  0..n \subseteq S
<1>. DEFINE T == 0..n \ S
<1>. SUFFICES ASSUME T # {} PROVE FALSE
  OBVIOUS
<1>1. T \in SUBSET Nat
  OBVIOUS
<1>2. PICK x \in T : \A y \in T : ~(y < x)
  <2>. HIDE DEF T
  <2>. QED BY <1>1, LeastNumber
<1>3. x \in 1..n /\ x - 1 \in 0..n /\ x - 1 < x
  BY <1>2
<1>. QED BY <1>2, <1>3

\* at goes from start through the n steps of a loop.
Runs(at, n, start, step) ==
    /\ at[0] = start
    /\ \A k \in 1..n : at[k] = step[<<at[k - 1], k>>]

LEMMA LoopRuns ==
    ASSUME NEW X, NEW n \in Nat, NEW start \in X, NEW step \in [X \X (1..n) -> X]
    PROVE  \E at \in [0..n -> X] : Runs(at, n, start, step)
<1>. DEFINE S == {m \in 0..n : \E at \in [0..m -> X] : Runs(at, m, start, step)}
<1>1. 0 \in S
  <2>. DEFINE at == [k \in 0..0 |-> start]
  <2>1. at \in [0..0 -> X] /\ Runs(at, 0, start, step)
    BY DEF Runs
  <2>2. \E f \in [0..0 -> X] : Runs(f, 0, start, step)
    <3>. HIDE DEF at
    <3>. QED BY <2>1
  <2>. QED BY <2>2
<1>2. ASSUME NEW k \in 1..n, k - 1 \in S PROVE k \in S
  <2>1. PICK at \in [0..(k - 1) -> X] : Runs(at, k - 1, start, step)
    BY <1>2
  <2>. DEFINE x == step[<<at[k - 1], k>>]
              on == [j \in 0..k |-> IF j = k THEN x ELSE at[j]]
  <2>2. x \in X
    BY <2>1
  <2>. HIDE DEF x
  <2>3. on \in [0..k -> X]
    BY <2>1, <2>2
  <2>4. on[k] = x /\ on[k - 1] = at[k - 1] /\ on[0] = at[0]
    OBVIOUS
  <2>5. ASSUME NEW j \in 1..(k - 1) PROVE on[j] = at[j] /\ on[j - 1] = at[j - 1]
    <3>1. j \in 0..k /\ j - 1 \in 0..k /\ j # k /\ j - 1 # k
      OBVIOUS
    <3>. QED BY <3>1
  <2>. HIDE DEF on
  <2>6. ASSUME NEW j \in 1..k PROVE on[j] = step[<<on[j - 1], j>>]
    <3>1. CASE j = k
      BY <3>1, <2>4 DEF x
    <3>2. CASE j # k
      <4>1. j \in 1..(k - 1)
        BY <3>2
      <4>2. at[j] = step[<<at[j - 1], j>>]
        BY <4>1, <2>1 DEF Runs
      <4>. QED BY <4>1, <4>2, <2>5
    <3>. QED BY <3>1, <3>2
  <2>7. Runs(on, k, start, step)
    BY <2>4, <2>6, <2>1 DEF Runs
  <2>. QED BY <2>3, <2>7
<1>. HIDE DEF S
<1>3. n \in S
  BY <1>1, <1>2, UpTo
<1>. QED BY <1>3 DEF S

LEMMA KeptLoop ==
    ASSUME NEW X, NEW seq \in Seq(X), NEW S
    PROVE  \E at :
             /\ at[0] = <<>>
             /\ \A k \in 1..Len(seq) :
                  at[k] = IF seq[k] \in S THEN Append(at[k - 1], seq[k]) ELSE at[k - 1]
             /\ Plans!Kept(seq, S) = at[Len(seq)]
<1>. DEFINE n == Len(seq)
            step == [p \in Seq(X) \X (1..n) |->
                       IF seq[p[2]] \in S THEN Append(p[1], seq[p[2]]) ELSE p[1]]
            Loop(at) == at = [k \in 0..n |-> IF k = 0 THEN <<>>
                                             ELSE IF seq[k] \in S THEN Append(at[k - 1], seq[k])
                                             ELSE at[k - 1]]
            kept == CHOOSE at : Loop(at)
<1>1. Plans!Kept(seq, S) = kept[n]
  BY DEF Plans!Kept, Plans!For
<1>2. n \in Nat /\ \A k \in 1..n : k - 1 \in 0..n /\ seq[k] \in X
  OBVIOUS
<1>3. <<>> \in Seq(X) /\ step \in [Seq(X) \X (1..n) -> Seq(X)]
  OBVIOUS
<1>4. PICK at \in [0..n -> Seq(X)] : Runs(at, n, <<>>, step)
  <2>. HIDE DEF n, step
  <2>. QED BY <1>2, <1>3, LoopRuns
<1>. HIDE DEF n
<1>5. ASSUME NEW k \in 1..n
      PROVE  at[k] = IF seq[k] \in S THEN Append(at[k - 1], seq[k]) ELSE at[k - 1]
  <2>1. <<at[k - 1], k>> \in Seq(X) \X (1..n)
    BY <1>2
  <2>. QED BY <1>4, <2>1 DEF Runs
<1>. HIDE DEF step
<1>6. Loop(at)
  <2>1. ASSUME NEW k \in 0..n
        PROVE  at[k] = IF k = 0 THEN <<>>
                       ELSE IF seq[k] \in S THEN Append(at[k - 1], seq[k]) ELSE at[k - 1]
    <3>1. CASE k = 0
      BY <3>1, <1>4 DEF Runs
    <3>2. CASE k # 0
      <4>1. k \in 1..n
        BY <3>2, <1>2
      <4>. QED BY <3>2, <4>1, <1>5
    <3>. QED BY <3>1, <3>2
  <2>. QED BY <2>1
<1>7. Loop(kept)
  <2>. HIDE DEF Loop
  <2>. QED BY <1>6
<1>8. kept[0] = <<>> /\ \A k \in 1..n :
        kept[k] = IF seq[k] \in S THEN Append(kept[k - 1], seq[k]) ELSE kept[k - 1]
  <2>. HIDE DEF kept
  <2>1. 0 \in 0..n /\ \A k \in 1..n : k \in 0..n /\ k # 0
    BY <1>2
  <2>2. kept[0] = <<>>
    BY <1>7, <2>1
  <2>3. ASSUME NEW k \in 1..n
        PROVE  kept[k] = IF seq[k] \in S THEN Append(kept[k - 1], seq[k]) ELSE kept[k - 1]
    BY <1>7, <2>1
  <2>. QED BY <2>2, <2>3
<1>. HIDE DEF kept
<1>. QED BY <1>1, <1>8 DEF n

\* kept is what of the first k elements is in S, in their order.
Keeps(kept, X, seq, S, k) ==
    /\ kept \in Seq(X)
    /\ \A a \in DOMAIN kept : kept[a] \in S /\ \E c \in 1..k : seq[c] = kept[a]
    /\ \A c \in 1..k : seq[c] \in S => \E a \in DOMAIN kept : kept[a] = seq[c]
    /\ \A a, b \in DOMAIN kept : a < b =>
         \E c, d \in 1..k : c < d /\ seq[c] = kept[a] /\ seq[d] = kept[b]

LEMMA KeepsOn ==
    ASSUME NEW X, NEW seq \in Seq(X), NEW S, NEW k \in 1..Len(seq), NEW kept, Keeps(kept, X, seq, S, k - 1)
    PROVE  Keeps(IF seq[k] \in S THEN Append(kept, seq[k]) ELSE kept, X, seq, S, k)
<1>0. kept \in Seq(X) /\ seq[k] \in X /\ 1..(k - 1) \subseteq 1..k /\ k \in 1..k
      /\ \A c \in 1..k : c = k \/ c \in 1..(k - 1)
  BY DEF Keeps
<1>1. CASE seq[k] \notin S
  <2>1. \A c \in 1..k : seq[c] \in S => \E a \in DOMAIN kept : kept[a] = seq[c]
    BY <1>0, <1>1 DEF Keeps
  <2>. QED BY <1>0, <1>1, <2>1 DEF Keeps
<1>2. CASE seq[k] \in S
  <2>. DEFINE more == Append(kept, seq[k])
              L == Len(kept)
  <2>1. more \in Seq(X) /\ L \in Nat /\ DOMAIN kept = 1..L /\ DOMAIN more = 1..(L + 1) /\ more[L + 1] = seq[k]
        /\ \A a \in DOMAIN kept : more[a] = kept[a] /\ a \in DOMAIN more
    BY <1>0
  <2>2. \A a \in DOMAIN more : a = L + 1 \/ a \in DOMAIN kept
    BY <2>1
  <2>3. \A a \in DOMAIN more : more[a] \in S /\ \E c \in 1..k : seq[c] = more[a]
    BY <1>0, <1>2, <2>1, <2>2 DEF Keeps
  <2>4. \A c \in 1..k : seq[c] \in S => \E a \in DOMAIN more : more[a] = seq[c]
    <3>1. L + 1 \in DOMAIN more
      BY <2>1
    <3>. HIDE DEF more, L
    <3>2. ASSUME NEW c \in 1..(k - 1), seq[c] \in S PROVE \E a \in DOMAIN more : more[a] = seq[c]
      <4>1. PICK a \in DOMAIN kept : kept[a] = seq[c]
        BY <3>2 DEF Keeps
      <4>. QED BY <4>1, <2>1
    <3>. QED BY <1>0, <2>1, <3>1, <3>2
  <2>5. ASSUME NEW a \in DOMAIN more, NEW b \in DOMAIN more, a < b
        PROVE  \E c, d \in 1..k : c < d /\ seq[c] = more[a] /\ seq[d] = more[b]
    <3>1. a \in DOMAIN kept
      BY <2>5, <2>1, <2>2
    <3>. HIDE DEF more, L
    <3>2. CASE b \in DOMAIN kept
      <4>1. PICK c, d \in 1..(k - 1) : c < d /\ seq[c] = kept[a] /\ seq[d] = kept[b]
        BY <2>5, <3>1, <3>2 DEF Keeps
      <4>. QED BY <3>1, <3>2, <4>1, <1>0, <2>1
    <3>3. CASE b = L + 1
      <4>1. PICK c \in 1..(k - 1) : seq[c] = kept[a]
        BY <3>1 DEF Keeps
      <4>2. c \in 1..k /\ k \in 1..k /\ c < k
        OBVIOUS
      <4>. QED BY <3>1, <3>3, <4>1, <4>2, <2>1
    <3>. QED BY <2>2, <3>2, <3>3
  <2>. HIDE DEF more
  <2>6. Keeps(more, X, seq, S, k)
    BY <2>1, <2>3, <2>4, <2>5 DEF Keeps
  <2>. QED BY <2>6, <1>2 DEF more
<1>. QED BY <1>1, <1>2

LEMMA KeptIs ==
    ASSUME NEW X, NEW seq \in Seq(X), NEW S
    PROVE  Keeps(Plans!Kept(seq, S), X, seq, S, Len(seq))
<1>. DEFINE n == Len(seq)
<1>1. PICK at :
        /\ at[0] = <<>>
        /\ \A k \in 1..n : at[k] = IF seq[k] \in S THEN Append(at[k - 1], seq[k]) ELSE at[k - 1]
        /\ Plans!Kept(seq, S) = at[n]
  BY KeptLoop
<1>. DEFINE T == {k \in 0..n : Keeps(at[k], X, seq, S, k)}
<1>2. Keeps(<<>>, X, seq, S, 0)
  BY DEF Keeps
<1>3. 0 \in T
  BY <1>1, <1>2
<1>4. ASSUME NEW k \in 1..n, k - 1 \in T PROVE k \in T
  <2>1. Keeps(at[k - 1], X, seq, S, k - 1)
    BY <1>4
  <2>2. Keeps(at[k], X, seq, S, k)
    BY <1>1, <2>1, KeepsOn
  <2>. QED BY <2>2
<1>. HIDE DEF T
<1>5. n \in Nat
  OBVIOUS
<1>6. n \in T
  <2>. HIDE DEF n
  <2>1. 0..n \subseteq T
    BY <1>3, <1>4, <1>5, UpTo
  <2>. QED BY <1>5, <2>1
<1>. QED BY <1>1, <1>6 DEF T

LEMMA KeptRange ==
    ASSUME NEW X, NEW seq \in Seq(X), NEW S
    PROVE  /\ Plans!Kept(seq, S) \in Seq(X)
           /\ Range(Plans!Kept(seq, S)) = Range(seq) \cap S
<1>. DEFINE kept == Plans!Kept(seq, S)
<1>1. Keeps(kept, X, seq, S, Len(seq)) /\ DOMAIN seq = 1..Len(seq)
  BY KeptIs
<1>. HIDE DEF kept
<1>2. Range(kept) \subseteq Range(seq) \cap S
  BY <1>1 DEF Keeps, Range
<1>3. Range(seq) \cap S \subseteq Range(kept)
  BY <1>1 DEF Keeps, Range
<1>4. kept \in Seq(X) /\ Range(kept) = Range(seq) \cap S
  BY <1>1, <1>2, <1>3 DEF Keeps
<1>. QED BY <1>4 DEF kept

LEMMA KeptOnce ==
    ASSUME NEW X, NEW seq \in Seq(X), NEW S, IsInjective(seq)
    PROVE  IsInjective(Plans!Kept(seq, S))
<1>. DEFINE kept == Plans!Kept(seq, S)
<1>1. Keeps(kept, X, seq, S, Len(seq))
  BY KeptIs
<1>. HIDE DEF kept
<1>2. ASSUME NEW a \in DOMAIN kept, NEW b \in DOMAIN kept, a < b PROVE kept[a] # kept[b]
  <2>1. PICK c, d \in 1..Len(seq) : c < d /\ seq[c] = kept[a] /\ seq[d] = kept[b]
    BY <1>1, <1>2 DEF Keeps
  <2>2. c \in DOMAIN seq /\ d \in DOMAIN seq /\ c # d
    BY <2>1
  <2>. QED BY <2>1, <2>2 DEF IsInjective
<1>3. \A a, b \in DOMAIN kept : a = b \/ a < b \/ b < a
  BY <1>1 DEF Keeps
<1>4. IsInjective(kept)
  BY <1>2, <1>3 DEF IsInjective
<1>. QED BY <1>4 DEF kept

----------------------------------------------------------------------------
(* The plan: a task gets the first of the free issues most like it, every     *)
(* task in its turn, and no issue twice.                                      *)

Naming == [IssueIds \cup TaskIds -> Names]

\* What BestIssue tells issues apart by: whether they fit, and how well.
FitFor(nm, t) == {i \in IssueIds : Plans!Fits(nm[t], nm[i])}
Alike(nm, t) == [i \in IssueIds |-> Score[nm[t], nm[i]]]

LEMMA AlikeIs ==
    ASSUME NEW nm \in Naming, NEW t \in TaskIds
    PROVE  /\ Alike(nm, t) \in [IssueIds -> Nat]
           /\ \A i \in IssueIds : Alike(nm, t)[i] = Score[nm[t], nm[i]]
<1>1. \A i \in IssueIds : <<nm[t], nm[i]>> \in Names \X Names
  BY DEF Naming
<1>2. ASSUME NEW i \in IssueIds PROVE Score[<<nm[t], nm[i]>>] \in Nat
  <2>1. Score \in [Names \X Names -> 0..100]
    BY NamesAssumption
  <2>2. <<nm[t], nm[i]>> \in Names \X Names
    BY <1>1
  <2>3. Score[<<nm[t], nm[i]>>] \in 0..100
    BY <2>1, <2>2
  <2>. QED BY <2>3
<1>3. \A i \in IssueIds : Score[<<nm[t], nm[i]>>] = Score[nm[t], nm[i]]
  OBVIOUS
<1>. QED BY <1>2, <1>3 DEF Alike

Betters(best, i, F, sc) == i \in F /\ (best = None \/ sc[i] > sc[best])

LEMMA BestLoop ==
    ASSUME NEW nm \in Naming, NEW t \in TaskIds, NEW free \in Seq(IssueIds)
    PROVE  \E at \in [0..Len(free) -> IssueIds \cup {None}] :
             /\ at[0] = None
             /\ \A k \in 1..Len(free) :
                  at[k] = IF Betters(at[k - 1], free[k], FitFor(nm, t), Alike(nm, t))
                          THEN free[k] ELSE at[k - 1]
             /\ Plans!BestIssue(nm, t, free) = at[Len(free)]
<1>. DEFINE n == Len(free)
            Z == IssueIds \cup {None}
            F == FitFor(nm, t)
            sc == Alike(nm, t)
            step == [p \in Z \X (1..n) |-> IF Betters(p[1], free[p[2]], F, sc) THEN free[p[2]] ELSE p[1]]
            Loop(at) == at = [k \in 0..n |->
                IF k = 0 THEN None
                ELSE IF /\ Plans!Fits(nm[t], nm[free[k]])
                        /\ at[k - 1] = None \/ Score[nm[t], nm[free[k]]] > Score[nm[t], nm[at[k - 1]]]
                     THEN free[k] ELSE at[k - 1]]
            best == CHOOSE at : Loop(at)
<1>1. Plans!BestIssue(nm, t, free) = best[n]
  BY DEF Plans!BestIssue, Plans!For
<1>2. n \in Nat /\ \A k \in 1..n : k - 1 \in 0..n /\ free[k] \in IssueIds
  OBVIOUS
<1>. HIDE DEF n
<1>3. None \in Z /\ step \in [Z \X (1..n) -> Z]
  BY <1>2
<1>4. PICK at \in [0..n -> Z] : Runs(at, n, None, step)
  <2>. HIDE DEF step, Z
  <2>. QED BY <1>2, <1>3, LoopRuns
<1>5. ASSUME NEW k \in 1..n
      PROVE  at[k] = IF Betters(at[k - 1], free[k], F, sc) THEN free[k] ELSE at[k - 1]
  <2>1. <<at[k - 1], k>> \in Z \X (1..n)
    BY <1>2
  <2>. QED BY <1>4, <2>1 DEF Runs
<1>. HIDE DEF step
<1>6. ASSUME NEW i \in IssueIds, NEW b \in Z
      PROVE  Betters(b, i, F, sc) <=> /\ Plans!Fits(nm[t], nm[i])
                                      /\ b = None \/ Score[nm[t], nm[i]] > Score[nm[t], nm[b]]
  <2>1. i \in F <=> Plans!Fits(nm[t], nm[i])
    BY DEF FitFor
  <2>2. sc[i] = Score[nm[t], nm[i]] /\ (b # None => sc[b] = Score[nm[t], nm[b]])
    BY AlikeIs
  <2>. HIDE DEF F, sc
  <2>. QED BY <2>1, <2>2 DEF Betters
<1>. DEFINE Raw(b, i) == /\ Plans!Fits(nm[t], nm[i])
                         /\ b = None \/ Score[nm[t], nm[i]] > Score[nm[t], nm[b]]
<1>7. Loop(at)
  <2>1. ASSUME NEW k \in 0..n
        PROVE  at[k] = IF k = 0 THEN None ELSE IF Raw(at[k - 1], free[k]) THEN free[k] ELSE at[k - 1]
    <3>1. CASE k = 0
      <4>. HIDE DEF Raw
      <4>. QED BY <3>1, <1>4 DEF Runs
    <3>2. CASE k # 0
      <4>1. k \in 1..n /\ free[k] \in IssueIds /\ k - 1 \in 0..n
        BY <3>2, <1>2
      <4>2. at[k - 1] \in Z
        BY <4>1
      <4>3. Raw(at[k - 1], free[k]) <=> Betters(at[k - 1], free[k], F, sc)
        BY <4>1, <4>2, <1>6
      <4>. HIDE DEF Raw
      <4>. QED BY <3>2, <4>1, <4>3, <1>5
    <3>. QED BY <3>1, <3>2
  <2>. HIDE DEF Raw
  <2>2. at = [k \in 0..n |-> IF k = 0 THEN None ELSE IF Raw(at[k - 1], free[k]) THEN free[k] ELSE at[k - 1]]
    BY <2>1
  <2>. QED BY <2>2 DEF Raw
<1>8. Loop(best)
  <2>. HIDE DEF Loop
  <2>. QED BY <1>7
<1>. HIDE DEF best
<1>9. best = [k \in 0..n |-> IF k = 0 THEN None ELSE IF Raw(best[k - 1], free[k]) THEN free[k] ELSE best[k - 1]]
  BY <1>8
<1>. HIDE DEF Raw
<1>10. best[0] = None /\ \A k \in 1..n : best[k] = IF Raw(best[k - 1], free[k]) THEN free[k] ELSE best[k - 1]
  <2>1. 0 \in 0..n /\ \A k \in 1..n : k \in 0..n /\ k # 0
    BY <1>2
  <2>2. best[0] = None
    BY <1>9, <2>1
  <2>3. ASSUME NEW k \in 1..n PROVE best[k] = IF Raw(best[k - 1], free[k]) THEN free[k] ELSE best[k - 1]
    BY <1>9, <2>1
  <2>. QED BY <2>2, <2>3
<1>11. \A k \in 0..n : best[k] \in Z
  <2>. DEFINE T == {k \in 0..n : best[k] \in Z}
  <2>1. 0 \in T
    BY <1>2, <1>10
  <2>2. \A k \in 1..n : k - 1 \in T => k \in T
    BY <1>2, <1>10
  <2>. HIDE DEF T
  <2>3. 0..n \subseteq T
    BY <1>2, <2>1, <2>2, UpTo
  <2>. QED BY <2>3 DEF T
<1>12. best \in [0..n -> Z]
  BY <1>9, <1>11
<1>13. ASSUME NEW k \in 1..n
       PROVE  best[k] = IF Betters(best[k - 1], free[k], F, sc) THEN free[k] ELSE best[k - 1]
  <2>1. free[k] \in IssueIds /\ best[k - 1] \in Z
    BY <1>2, <1>11
  <2>2. Raw(best[k - 1], free[k]) <=> Betters(best[k - 1], free[k], F, sc)
    BY <2>1, <1>6 DEF Raw
  <2>. QED BY <1>10, <2>2
<1>. QED BY <1>1, <1>10, <1>12, <1>13 DEF n

\* b is the first of the issues in F most alike among the first k.
Bests(b, free, k, F, sc) ==
    \/ b = None /\ \A j \in 1..k : free[j] \notin F
    \/ \E m \in 1..k :
         /\ b = free[m] /\ b \in F
         /\ \A j \in 1..k : free[j] \in F => \/ sc[b] > sc[free[j]]
                                             \/ sc[b] = sc[free[j]] /\ m <= j

LEMMA BestsOn ==
    ASSUME NEW free \in Seq(IssueIds), NEW F, NEW sc \in [IssueIds -> Nat],
           NEW k \in 1..Len(free), NEW b, Bests(b, free, k - 1, F, sc)
    PROVE  Bests(IF Betters(b, free[k], F, sc) THEN free[k] ELSE b, free, k, F, sc)
<1>. DEFINE i == free[k]
<1>1. /\ k \in 1..k /\ 1..(k - 1) \subseteq 1..k /\ \A j \in 1..k : j \in 1..(k - 1) \/ j = k
      /\ \A j \in 1..k : free[j] \in IssueIds /\ free[j] # None /\ sc[free[j]] \in Nat
      /\ \A j \in 1..(k - 1) : j <= k
  BY IdsAssumption
<1>2. CASE b = None
  <2>1. \A j \in 1..(k - 1) : free[j] \notin F
    BY <1>1, <1>2 DEF Bests
  <2>2. CASE i \in F
    <3>1. Betters(b, i, F, sc)
      BY <1>2, <2>2 DEF Betters
    <3>2. \A j \in 1..k : free[j] \in F => sc[i] = sc[free[j]] /\ k <= j
      BY <1>1, <2>1
    <3>3. Bests(i, free, k, F, sc)
      BY <1>1, <2>2, <3>2 DEF Bests
    <3>. QED BY <3>1, <3>3
  <2>3. CASE i \notin F
    <3>1. ~Betters(b, i, F, sc)
      BY <2>3 DEF Betters
    <3>2. Bests(b, free, k, F, sc)
      BY <1>1, <1>2, <2>1, <2>3 DEF Bests
    <3>. QED BY <3>1, <3>2
  <2>. QED BY <2>2, <2>3
<1>3. CASE b # None
  <2>1. PICK m \in 1..(k - 1) :
          /\ b = free[m] /\ b \in F
          /\ \A j \in 1..(k - 1) : free[j] \in F => \/ sc[b] > sc[free[j]]
                                                    \/ sc[b] = sc[free[j]] /\ m <= j
    BY <1>3 DEF Bests
  <2>2. m \in 1..k /\ m <= k /\ sc[b] \in Nat /\ sc[i] \in Nat
    BY <1>1, <2>1
  <2>3. CASE Betters(b, i, F, sc)
    <3>1. i \in F /\ sc[i] > sc[b]
      BY <1>3, <2>3 DEF Betters
    <3>2. ASSUME NEW j \in 1..k, free[j] \in F PROVE sc[i] > sc[free[j]] \/ (sc[i] = sc[free[j]] /\ k <= j)
      <4>1. CASE j = k
        BY <4>1, <1>1
      <4>2. CASE j \in 1..(k - 1)
        <5>1. sc[b] > sc[free[j]] \/ sc[b] = sc[free[j]]
          BY <2>1, <3>2, <4>2
        <5>2. sc[free[j]] \in Nat
          BY <1>1
        <5>. QED BY <2>2, <3>1, <5>1, <5>2
      <4>. QED BY <1>1, <4>1, <4>2
    <3>3. Bests(i, free, k, F, sc)
      BY <1>1, <3>1, <3>2 DEF Bests
    <3>. QED BY <2>3, <3>3
  <2>4. CASE ~Betters(b, i, F, sc)
    <3>1. i \in F => sc[b] > sc[i] \/ sc[b] = sc[i]
      BY <1>3, <2>2, <2>4 DEF Betters
    <3>2. ASSUME NEW j \in 1..k, free[j] \in F PROVE sc[b] > sc[free[j]] \/ (sc[b] = sc[free[j]] /\ m <= j)
      <4>1. CASE j = k
        BY <4>1, <2>2, <3>1, <3>2
      <4>2. CASE j \in 1..(k - 1)
        BY <2>1, <3>2, <4>2
      <4>. QED BY <1>1, <4>1, <4>2
    <3>3. Bests(b, free, k, F, sc)
      BY <2>1, <2>2, <3>2 DEF Bests
    <3>. QED BY <2>4, <3>3
  <2>. QED BY <2>3, <2>4
<1>. QED BY <1>2, <1>3

LEMMA BestIs ==
    ASSUME NEW nm \in Naming, NEW t \in TaskIds, NEW free \in Seq(IssueIds)
    PROVE  Bests(Plans!BestIssue(nm, t, free), free, Len(free), FitFor(nm, t), Alike(nm, t))
<1>. DEFINE n == Len(free)
            F == FitFor(nm, t)
            sc == Alike(nm, t)
<1>1. PICK at :
        /\ at[0] = None
        /\ \A k \in 1..n : at[k] = IF Betters(at[k - 1], free[k], F, sc) THEN free[k] ELSE at[k - 1]
        /\ Plans!BestIssue(nm, t, free) = at[n]
  BY BestLoop
<1>. HIDE DEF F
<1>2. n \in Nat /\ sc \in [IssueIds -> Nat]
  <2>1. sc \in [IssueIds -> Nat]
    <3>. HIDE DEF n
    <3>. QED BY AlikeIs
  <2>. QED BY <2>1
<1>. HIDE DEF F, sc
<1>. DEFINE T == {k \in 0..n : Bests(at[k], free, k, F, sc)}
<1>3. 0 \in T
  <2>1. Bests(None, free, 0, F, sc)
    BY DEF Bests
  <2>. QED BY <1>1, <2>1
<1>4. ASSUME NEW k \in 1..n, k - 1 \in T PROVE k \in T
  <2>1. Bests(at[k - 1], free, k - 1, F, sc)
    BY <1>4
  <2>2. Bests(at[k], free, k, F, sc)
    BY <1>1, <1>2, <2>1, BestsOn
  <2>. QED BY <2>2
<1>. HIDE DEF T
<1>5. n \in T
  <2>. HIDE DEF n
  <2>1. 0..n \subseteq T
    BY <1>2, <1>3, <1>4, UpTo
  <2>. QED BY <1>2, <2>1
<1>6. Bests(at[n], free, n, F, sc)
  BY <1>5 DEF T
<1>. QED BY <1>1, <1>6 DEF F, sc

Link == [ttid : TaskIds, ident : IssueIds, action : {"link"}]

FreeOf(pl, is) == Plans!Kept(is, {i \in Plans!Range(is) : ~Plans!Planned(pl, None, i)})

\* The pl once task t has had its turn.
Linked(nm, pl, t, is) ==
    LET i == Plans!BestIssue(nm, t, FreeOf(pl, is))
    IN  IF i = None THEN pl ELSE Append(pl, Plans!PlanRow(t, i, "link"))

LEMMA FreeIs ==
    ASSUME NEW pl, NEW is \in Seq(IssueIds)
    PROVE  /\ FreeOf(pl, is) \in Seq(IssueIds)
           /\ Range(FreeOf(pl, is)) = {i \in Range(is) : ~Plans!Planned(pl, None, i)}
<1>. DEFINE S == {i \in Plans!Range(is) : ~Plans!Planned(pl, None, i)}
<1>1. Plans!Range(is) = Range(is)
  BY DEF Range, Plans!Range
<1>2. S = Range(is) \cap S
  BY <1>1
<1>3. FreeOf(pl, is) = Plans!Kept(is, S)
  BY DEF FreeOf
<1>4. S = {i \in Range(is) : ~Plans!Planned(pl, None, i)}
  BY <1>1
<1>. HIDE DEF S
<1>5. FreeOf(pl, is) \in Seq(IssueIds) /\ Range(FreeOf(pl, is)) = S
  <2>1. Plans!Kept(is, S) \in Seq(IssueIds) /\ Range(Plans!Kept(is, S)) = Range(is) \cap S
    BY KeptRange
  <2>. QED BY <1>2, <1>3, <2>1
<1>. QED BY <1>4, <1>5

LEMMA BestTyped ==
    ASSUME NEW nm \in Naming, NEW t \in TaskIds, NEW free \in Seq(IssueIds)
    PROVE  /\ Plans!BestIssue(nm, t, free) \in Range(free) \cup {None}
           /\ Range(free) \subseteq IssueIds
<1>. DEFINE b == Plans!BestIssue(nm, t, free)
<1>1. Bests(b, free, Len(free), FitFor(nm, t), Alike(nm, t)) /\ DOMAIN free = 1..Len(free)
  BY BestIs
<1>. HIDE DEF b
<1>2. b \in Range(free) \cup {None}
  BY <1>1 DEF Bests, Range
<1>3. Range(free) \subseteq IssueIds
  BY DEF Range
<1>. QED BY <1>2, <1>3 DEF b

LEMMA LinkedTyped ==
    ASSUME NEW nm \in Naming, NEW pl \in Seq(Link), NEW t \in TaskIds, NEW is \in Seq(IssueIds)
    PROVE  Linked(nm, pl, t, is) \in Seq(Link)
<1>. DEFINE i == Plans!BestIssue(nm, t, FreeOf(pl, is))
<1>1. i \in IssueIds \cup {None}
  BY FreeIs, BestTyped
<1>. HIDE DEF i
<1>2. CASE i = None
  BY <1>2 DEF Linked, i
<1>3. CASE i # None
  <2>1. Plans!PlanRow(t, i, "link") \in Link
    BY <1>1, <1>3 DEF Plans!PlanRow, Link
  <2>2. Linked(nm, pl, t, is) = Append(pl, Plans!PlanRow(t, i, "link"))
    BY <1>3 DEF Linked, i
  <2>. QED BY <2>1, <2>2
<1>. QED BY <1>2, <1>3

LEMMA LinkLoop ==
    ASSUME NEW nm \in Naming, NEW ts \in Seq(TaskIds), NEW is \in Seq(IssueIds)
    PROVE  \E at :
             /\ at[0] = <<>>
             /\ \A k \in 1..Len(ts) : at[k] = Linked(nm, at[k - 1], ts[k], is)
             /\ Plans!LinkRows(nm, ts, is) = at[Len(ts)]
<1>. DEFINE n == Len(ts)
            X == Seq(Link)
            step == [p \in X \X (1..n) |-> Linked(nm, p[1], ts[p[2]], is)]
            Loop(at) == at = [k \in 0..n |-> IF k = 0 THEN <<>> ELSE Linked(nm, at[k - 1], ts[k], is)]
            links == CHOOSE at : Loop(at)
<1>1. Plans!LinkRows(nm, ts, is) = links[n]
  BY DEF Plans!LinkRows, Plans!For, Linked, FreeOf
<1>2. n \in Nat /\ \A k \in 1..n : k - 1 \in 0..n /\ ts[k] \in TaskIds
  OBVIOUS
<1>3. <<>> \in X
  OBVIOUS
<1>. HIDE DEF n, X
<1>4. step \in [X \X (1..n) -> X]
  BY <1>2, LinkedTyped DEF X
<1>5. PICK at \in [0..n -> X] : Runs(at, n, <<>>, step)
  <2>. HIDE DEF step
  <2>. QED BY <1>2, <1>3, <1>4, LoopRuns
<1>6. ASSUME NEW k \in 1..n PROVE at[k] = Linked(nm, at[k - 1], ts[k], is)
  <2>1. <<at[k - 1], k>> \in X \X (1..n)
    BY <1>2
  <2>. QED BY <1>5, <2>1 DEF Runs
<1>. HIDE DEF step
<1>7. Loop(at)
  <2>1. ASSUME NEW k \in 0..n
        PROVE  at[k] = IF k = 0 THEN <<>> ELSE Linked(nm, at[k - 1], ts[k], is)
    <3>1. CASE k = 0
      BY <3>1, <1>5 DEF Runs
    <3>2. CASE k # 0
      <4>1. k \in 1..n
        BY <3>2, <1>2
      <4>. QED BY <3>2, <4>1, <1>6
    <3>. QED BY <3>1, <3>2
  <2>. QED BY <2>1
<1>8. Loop(links)
  <2>. HIDE DEF Loop
  <2>. QED BY <1>7
<1>9. links[0] = <<>> /\ \A k \in 1..n : links[k] = Linked(nm, links[k - 1], ts[k], is)
  <2>. HIDE DEF links
  <2>1. 0 \in 0..n /\ \A k \in 1..n : k \in 0..n /\ k # 0
    BY <1>2
  <2>2. links[0] = <<>>
    BY <1>8, <2>1
  <2>3. ASSUME NEW k \in 1..n PROVE links[k] = Linked(nm, links[k - 1], ts[k], is)
    BY <1>8, <2>1
  <2>. QED BY <2>2, <2>3
<1>. HIDE DEF links
<1>. QED BY <1>1, <1>9 DEF n

\* Issue i is better for task t than j is, or as good and listed first.
Prefers(nm, t, i, j, is) ==
    \/ Alike(nm, t)[i] > Alike(nm, t)[j]
    \/ Alike(nm, t)[i] = Alike(nm, t)[j] /\ Before(i, j, is)

\* The k-th task has what it likes best of what the tasks before it left.
Content(nm, pl, ts, c, is, i) ==
    \/ \E r \in DOMAIN pl : /\ pl[r].ttid = ts[c]
                              /\ (pl[r].ident = i \/ Prefers(nm, ts[c], pl[r].ident, i, is))
    \/ \E r \in DOMAIN pl : /\ pl[r].ident = i
                              /\ \E e \in 1..(c - 1) : pl[r].ttid = ts[e]

Matched(nm, pl, ts, k, is) ==
    /\ pl \in Seq(Link)
    /\ \A r \in DOMAIN pl : /\ \E c \in 1..k : pl[r].ttid = ts[c]
                              /\ pl[r].ident \in FitFor(nm, pl[r].ttid) \cap Range(is)
    /\ \A r, s \in DOMAIN pl :
         pl[r].ttid = pl[s].ttid \/ pl[r].ident = pl[s].ident => r = s
    /\ \A c \in 1..k, i \in Range(is) : i \in FitFor(nm, ts[c]) => Content(nm, pl, ts, c, is, i)

LEMMA MatchedOn ==
    ASSUME NEW nm \in Naming, NEW ts \in Seq(TaskIds), NEW is \in Seq(IssueIds), IsInjective(ts),
           NEW k \in 1..Len(ts), NEW pl, Matched(nm, pl, ts, k - 1, is)
    PROVE  Matched(nm, Linked(nm, pl, ts[k], is), ts, k, is)
<1>. DEFINE t == ts[k]
            free == FreeOf(pl, is)
            b == Plans!BestIssue(nm, t, free)
            F == FitFor(nm, t)
            sc == Alike(nm, t)
            now == Linked(nm, pl, t, is)
<1>1. /\ t \in TaskIds /\ pl \in Seq(Link) /\ k \in 1..k
      /\ \A c \in 1..k : ts[c] \in TaskIds /\ (c \in 1..(k - 1) \/ c = k)
      /\ \A c \in 1..(k - 1) : c \in 1..k /\ ts[c] # t
  BY DEF Matched, IsInjective
<1>2. free \in Seq(IssueIds) /\ Range(free) = {i \in Range(is) : ~Plans!Planned(pl, None, i)}
  BY FreeIs
<1>3. \A i : Plans!Planned(pl, None, i) <=> \E r \in DOMAIN pl : pl[r].ident = i
  <2>0. \A r \in DOMAIN pl : pl[r] \in Link
    BY <1>1
  <2>1. \A r \in DOMAIN pl : pl[r].ttid # None
    BY <2>0, IdsAssumption DEF Link
  <2>. QED BY <2>1 DEF Plans!Planned, Plans!Range
<1>4. Bests(b, free, Len(free), F, sc) /\ b \in Range(free) \cup {None} /\ Range(free) \subseteq IssueIds
  BY <1>1, <1>2, BestIs, BestTyped
<1>5. ASSUME NEW x \in Range(free), NEW y \in Range(free), NEW m \in DOMAIN free, NEW j \in DOMAIN free,
             m < j, free[m] = x, free[j] = y
      PROVE  Before(x, y, is)
  <2>1. Keeps(free, IssueIds, is, {i \in Plans!Range(is) : ~Plans!Planned(pl, None, i)}, Len(is))
    BY KeptIs DEF FreeOf
  <2>. HIDE DEF free
  <2>2. PICK c, d \in 1..Len(is) : c < d /\ is[c] = x /\ is[d] = y
    BY <1>5, <2>1 DEF Keeps
  <2>. QED BY <2>2 DEF Before
<1>6. now = IF b = None THEN pl ELSE Append(pl, Plans!PlanRow(t, b, "link"))
  BY DEF Linked
<1>. HIDE DEF free, b, F, sc, now
<1>7. ASSUME NEW i \in Range(free), i \in F
      PROVE  b # None /\ (b = i \/ Prefers(nm, t, b, i, is))
  <2>1. PICK j \in 1..Len(free) : free[j] = i
    BY <1>2 DEF Range
  <2>2. PICK m \in 1..Len(free) :
          /\ b = free[m] /\ b \in F
          /\ \A l \in 1..Len(free) : free[l] \in F =>
               sc[b] > sc[free[l]] \/ (sc[b] = sc[free[l]] /\ m <= l)
    BY <1>4, <1>7, <2>1 DEF Bests
  <2>3. /\ j \in DOMAIN free /\ m \in DOMAIN free /\ (m <= j => m < j \/ m = j)
        /\ b # None /\ b \in Range(free)
    BY <1>2, <1>4, <2>2, IdsAssumption DEF Range
  <2>4. sc[b] > sc[i] \/ (sc[b] = sc[i] /\ m <= j)
    BY <1>7, <2>1, <2>2
  <2>5. sc[b] > sc[i] => Prefers(nm, t, b, i, is)
    BY DEF Prefers, sc
  <2>6. sc[b] = sc[i] /\ m < j => Prefers(nm, t, b, i, is)
    BY <1>5, <1>7, <2>1, <2>2, <2>3 DEF Prefers, sc
  <2>. QED BY <2>1, <2>2, <2>3, <2>4, <2>5, <2>6
<1>8. ASSUME NEW c \in 1..(k - 1), NEW i \in Range(is), i \in FitFor(nm, ts[c])
      PROVE  Content(nm, pl, ts, c, is, i)
  BY <1>8 DEF Matched
<1>9. CASE b = None
  <2>1. ASSUME NEW i \in Range(is), i \in F PROVE Content(nm, pl, ts, k, is, i)
    <3>1. PICK r \in DOMAIN pl : pl[r].ident = i
      BY <1>2, <1>3, <1>7, <1>9, <2>1
    <3>2. \E e \in 1..(k - 1) : pl[r].ttid = ts[e]
      BY DEF Matched
    <3>. QED BY <3>1, <3>2 DEF Content
  <2>2. \A c \in 1..k, i \in Range(is) : i \in FitFor(nm, ts[c]) => Content(nm, pl, ts, c, is, i)
    BY <1>1, <1>8, <2>1 DEF F
  <2>3. Matched(nm, pl, ts, k, is)
    BY <1>1, <2>2 DEF Matched
  <2>. QED BY <1>6, <1>9, <2>3 DEF now
<1>10. CASE b # None
  <2>. DEFINE L == Len(pl)
              row == Plans!PlanRow(t, b, "link")
  <2>1. row \in Link /\ row.ttid = t /\ row.ident = b
    BY <1>1, <1>4, <1>10 DEF Link, Plans!PlanRow
  <2>. HIDE DEF row
  <2>2. /\ now = Append(pl, row) /\ now \in Seq(Link) /\ L + 1 \in DOMAIN now /\ now[L + 1] = row
        /\ \A r \in DOMAIN pl : r \in DOMAIN now /\ now[r] = pl[r]
        /\ \A r \in DOMAIN now : r \in DOMAIN pl \/ r = L + 1
    BY <1>1, <1>6, <1>10, <2>1 DEF row
  <2>. HIDE DEF L
  <2>3. b \in F /\ b \in Range(is) /\ \A r \in DOMAIN pl : pl[r].ident # b
    <3>1. b \in F
      BY <1>4, <1>10 DEF Bests
    <3>2. b \in Range(free)
      BY <1>4, <1>10
    <3>. QED BY <1>2, <1>3, <3>1, <3>2
  <2>4. \A r \in DOMAIN pl : \E c \in 1..(k - 1) : pl[r].ttid = ts[c]
    BY DEF Matched
  <2>5. \A r \in DOMAIN pl : pl[r].ttid # t
    BY <1>1, <2>4
  <2>6. ASSUME NEW r \in DOMAIN now
        PROVE  /\ \E c \in 1..k : now[r].ttid = ts[c]
               /\ now[r].ident \in FitFor(nm, now[r].ttid) \cap Range(is)
    <3>1. CASE r \in DOMAIN pl
      <4>1. pl[r].ident \in FitFor(nm, pl[r].ttid) \cap Range(is)
        BY <3>1 DEF Matched
      <4>. QED BY <1>1, <2>2, <2>4, <3>1, <4>1
    <3>2. CASE r = L + 1
      BY <1>1, <2>1, <2>2, <2>3, <3>2 DEF F
    <3>. QED BY <2>2, <3>1, <3>2
  <2>7. ASSUME NEW r \in DOMAIN now, NEW s \in DOMAIN now,
               now[r].ttid = now[s].ttid \/ now[r].ident = now[s].ident
        PROVE  r = s
    <3>1. CASE r \in DOMAIN pl /\ s \in DOMAIN pl
      BY <2>2, <2>7, <3>1 DEF Matched
    <3>2. CASE r = L + 1 \/ s = L + 1
      BY <2>1, <2>2, <2>3, <2>5, <2>7, <3>2
    <3>. QED BY <2>2, <3>1, <3>2
  <2>8. ASSUME NEW c \in 1..k, NEW i \in Range(is), i \in FitFor(nm, ts[c])
        PROVE  Content(nm, now, ts, c, is, i)
    <3>1. CASE c \in 1..(k - 1)
      <4>1. Content(nm, pl, ts, c, is, i)
        BY <1>8, <2>8, <3>1
      <4>2. CASE \E r \in DOMAIN pl : /\ pl[r].ttid = ts[c]
                                      /\ (pl[r].ident = i \/ Prefers(nm, ts[c], pl[r].ident, i, is))
        BY <2>2, <4>2 DEF Content
      <4>3. CASE \E r \in DOMAIN pl : /\ pl[r].ident = i
                                      /\ \E e \in 1..(c - 1) : pl[r].ttid = ts[e]
        BY <2>2, <4>3 DEF Content
      <4>. QED BY <4>1, <4>2, <4>3 DEF Content
    <3>2. CASE c = k /\ i \in Range(free)
      <4>1. b = i \/ Prefers(nm, t, b, i, is)
        BY <1>7, <2>8, <3>2 DEF F
      <4>. QED BY <2>1, <2>2, <3>2, <4>1 DEF Content
    <3>3. CASE c = k /\ i \notin Range(free)
      <4>1. PICK r \in DOMAIN pl : pl[r].ident = i
        BY <1>2, <1>3, <3>3
      <4>2. \E e \in 1..(k - 1) : pl[r].ttid = ts[e]
        BY <2>4
      <4>. QED BY <2>2, <3>3, <4>1, <4>2 DEF Content
    <3>. QED BY <1>1, <3>1, <3>2, <3>3
  <2>9. Matched(nm, now, ts, k, is)
    BY <2>2, <2>6, <2>7, <2>8 DEF Matched
  <2>. QED BY <2>9 DEF now
<1>. QED BY <1>9, <1>10

LEMMA LinksMatch ==
    ASSUME NEW nm \in Naming, NEW ts \in Seq(TaskIds), NEW is \in Seq(IssueIds), IsInjective(ts)
    PROVE  Matched(nm, Plans!LinkRows(nm, ts, is), ts, Len(ts), is)
<1>. DEFINE n == Len(ts)
<1>1. PICK at :
        /\ at[0] = <<>>
        /\ \A k \in 1..n : at[k] = Linked(nm, at[k - 1], ts[k], is)
        /\ Plans!LinkRows(nm, ts, is) = at[n]
  BY LinkLoop
<1>2. n \in Nat
  OBVIOUS
<1>. DEFINE T == {k \in 0..n : Matched(nm, at[k], ts, k, is)}
<1>3. 0 \in T
  <2>1. Matched(nm, <<>>, ts, 0, is)
    BY DEF Matched
  <2>. QED BY <1>1, <1>2, <2>1
<1>4. ASSUME NEW k \in 1..n, k - 1 \in T PROVE k \in T
  <2>1. Matched(nm, at[k - 1], ts, k - 1, is)
    BY <1>4
  <2>2. Matched(nm, at[k], ts, k, is)
    BY <1>1, <2>1, MatchedOn
  <2>. QED BY <2>2
<1>. HIDE DEF T
<1>5. n \in T
  <2>. HIDE DEF n
  <2>1. 0..n \subseteq T
    BY <1>2, <1>3, <1>4, UpTo
  <2>. QED BY <1>2, <2>1
<1>6. Matched(nm, at[n], ts, n, is)
  BY <1>5 DEF T
<1>. QED BY <1>1, <1>6

PlanRows == [ ttid : TaskIds \cup {None}, ident : IssueIds \cup {None},
              action : {"link", "create_linear", "tombstone_linear"} ]

LEMMA ThreeParts ==
    ASSUME NEW X, NEW a \in Seq(X), NEW b \in Seq(X), NEW c \in Seq(X)
    PROVE  LET s == a \o b \o c
           IN  /\ s \in Seq(X)
               /\ \A r \in DOMAIN s :
                    \/ r \in DOMAIN a /\ s[r] = a[r]
                    \/ r > Len(a) /\ r - Len(a) \in DOMAIN b /\ s[r] = b[r - Len(a)]
                    \/ /\ r > Len(a) + Len(b) /\ r - Len(a) - Len(b) \in DOMAIN c
                       /\ s[r] = c[r - Len(a) - Len(b)]
               /\ Range(s) = Range(a) \cup Range(b) \cup Range(c)
<1>. DEFINE s == a \o b \o c
            l == Len(a)
            m == Len(b)
            n == Len(c)
<1>1. l \in Nat /\ m \in Nat /\ n \in Nat /\ DOMAIN a = 1..l /\ DOMAIN b = 1..m /\ DOMAIN c = 1..n
  OBVIOUS
<1>2. s \in Seq(X) /\ DOMAIN s = 1..(l + m + n)
  OBVIOUS
<1>3. \A r \in 1..l : s[r] = a[r]
  OBVIOUS
<1>4. \A r \in 1..m : s[l + r] = b[r]
  OBVIOUS
<1>5. \A r \in 1..n : s[l + m + r] = c[r]
  OBVIOUS
<1>. HIDE DEF s, l, m, n
<1>6. ASSUME NEW r \in DOMAIN s
      PROVE  \/ r \in DOMAIN a /\ s[r] = a[r]
             \/ r > l /\ r - l \in DOMAIN b /\ s[r] = b[r - l]
             \/ r > l + m /\ r - l - m \in DOMAIN c /\ s[r] = c[r - l - m]
  <2>1. r \in Int /\ r >= 1 /\ r <= l + m + n
    BY <1>1, <1>2
  <2>2. CASE r <= l
    BY <1>1, <1>3, <2>1, <2>2
  <2>3. CASE r > l /\ r <= l + m
    <3>1. r - l \in 1..m /\ l + (r - l) = r
      BY <1>1, <2>1, <2>3
    <3>. QED BY <1>1, <1>4, <2>3, <3>1
  <2>4. CASE r > l + m
    <3>1. r - l - m \in 1..n /\ l + m + (r - l - m) = r
      BY <1>1, <2>1, <2>4
    <3>. QED BY <1>1, <1>5, <2>4, <3>1
  <2>. QED BY <1>1, <2>1, <2>2, <2>3, <2>4
<1>7. Range(s) = Range(a) \cup Range(b) \cup Range(c)
  <2>1. Range(s) \subseteq Range(a) \cup Range(b) \cup Range(c)
    BY <1>6 DEF Range
  <2>2. \A r \in 1..l : r \in DOMAIN s
    BY <1>1, <1>2
  <2>3. \A r \in 1..m : l + r \in DOMAIN s
    BY <1>1, <1>2
  <2>4. \A r \in 1..n : l + m + r \in DOMAIN s
    BY <1>1, <1>2
  <2>5. Range(a) \subseteq Range(s)
    BY <1>1, <1>3, <2>2 DEF Range
  <2>6. Range(b) \subseteq Range(s)
    BY <1>1, <1>4, <2>3 DEF Range
  <2>7. Range(c) \subseteq Range(s)
    BY <1>1, <1>5, <2>4 DEF Range
  <2>. QED BY <2>1, <2>5, <2>6, <2>7
<1>. QED BY <1>2, <1>6, <1>7 DEF s, l, m, n

PlanHas(pl, t, i, action) ==
    \E r \in Range(pl) : r.ttid = t /\ r.ident = i /\ r.action = action

OncePlanned(pl) ==
    \A r, s \in DOMAIN pl :
      /\ pl[r].ttid = pl[s].ttid => r = s \/ pl[r].ttid = None
      /\ pl[r].ident = pl[s].ident => r = s \/ pl[r].ident = None

StableLinks(nm, pl, ts, is) ==
    \A t \in Range(ts), i \in Range(is) :
      IF PlanHas(pl, t, i, "link") THEN i \in FitFor(nm, t)
      ELSE i \in FitFor(nm, t) =>
             \/ \E j \in Range(is) : PlanHas(pl, t, j, "link") /\ Prefers(nm, t, j, i, is)
             \/ \E s \in Range(ts) : PlanHas(pl, s, i, "link") /\ Before(s, t, ts)

RestPlanned(pl, ts, is, labels) ==
    /\ \A t \in Range(ts) : PlanHas(pl, t, None, "create_linear")
                              <=> \A i \in Range(is) : ~PlanHas(pl, t, i, "link")
    /\ \A i \in Range(is) : PlanHas(pl, None, i, "tombstone_linear")
                              <=> i \in labels /\ \A t \in Range(ts) : ~PlanHas(pl, t, i, "link")

\* The rows of a plan over the tasks T and the issues I.
RowsOver(pl, T, I) ==
    \A r \in Range(pl) :
      \/ r.action = "link" /\ r.ttid \in T /\ r.ident \in I
      \/ r.action = "create_linear" /\ r.ttid \in T /\ r.ident = None
      \/ r.action = "tombstone_linear" /\ r.ttid = None /\ r.ident \in I

LEMMA PlanIs ==
    ASSUME NEW nm \in Naming, NEW ts \in Seq(TaskIds), NEW is \in Seq(IssueIds), NEW labels,
           IsInjective(ts), IsInjective(is)
    PROVE  LET pl == Plans!build_match_plan(nm, ts, is, labels)
           IN  /\ pl \in Seq(PlanRows)
               /\ OncePlanned(pl)
               /\ StableLinks(nm, pl, ts, is)
               /\ RestPlanned(pl, ts, is, labels)
               /\ RowsOver(pl, Range(ts), Range(is))
<1>. DEFINE links == Plans!LinkRows(nm, ts, is)
            alone == Plans!Kept(ts, {t \in Plans!Range(ts) : ~Plans!Planned(links, t, None)})
            orphans == Plans!Kept(is, {i \in labels : ~Plans!Planned(links, None, i)})
            A == [k \in DOMAIN alone |-> Plans!PlanRow(alone[k], None, "create_linear")]
            O == [k \in DOMAIN orphans |-> Plans!PlanRow(None, orphans[k], "tombstone_linear")]
            pl == Plans!build_match_plan(nm, ts, is, labels)
<1>1. pl = links \o A \o O
  BY DEF Plans!build_match_plan, Plans!Rows
<1>2. Matched(nm, links, ts, Len(ts), is)
  BY LinksMatch
<1>3. Plans!Range(ts) = Range(ts)
  BY DEF Range, Plans!Range
<1>4. /\ alone \in Seq(TaskIds) /\ IsInjective(alone)
      /\ Range(alone) = {t \in Range(ts) : ~Plans!Planned(links, t, None)}
  <2>. HIDE DEF links
  <2>1. alone \in Seq(TaskIds) /\ IsInjective(alone)
    BY KeptRange, KeptOnce
  <2>2. Range(alone) = Range(ts) \cap {t \in Plans!Range(ts) : ~Plans!Planned(links, t, None)}
    BY KeptRange
  <2>3. Range(alone) = {t \in Range(ts) : ~Plans!Planned(links, t, None)}
    BY <2>2, <1>3
  <2>. QED BY <2>1, <2>3
<1>5. /\ orphans \in Seq(IssueIds) /\ IsInjective(orphans)
      /\ Range(orphans) = Range(is) \cap {i \in labels : ~Plans!Planned(links, None, i)}
  <2>. HIDE DEF links
  <2>. QED BY KeptRange, KeptOnce
<1>. HIDE DEF links, alone, orphans, pl
<1>6. links \in Seq(Link) /\ Link \subseteq PlanRows /\ DOMAIN ts = 1..Len(ts)
      /\ (\A r \in DOMAIN links : links[r] \in Link)
  <2>1. links \in Seq(Link)
    BY <1>2 DEF Matched
  <2>2. Link \subseteq PlanRows
    BY DEF Link, PlanRows
  <2>. QED BY <2>1, <2>2
<1>7. /\ A \in Seq(PlanRows) /\ DOMAIN A = DOMAIN alone
      /\ \A k \in DOMAIN A : A[k].ttid = alone[k] /\ A[k].ident = None /\ A[k].action = "create_linear"
  <2>1. \A k \in DOMAIN alone : alone[k] \in TaskIds
    BY <1>4
  <2>2. \A t \in TaskIds : Plans!PlanRow(t, None, "create_linear") \in PlanRows
    BY DEF PlanRows, Plans!PlanRow
  <2>3. DOMAIN A = 1..Len(alone) /\ DOMAIN alone = 1..Len(alone) /\ Len(alone) \in Nat
    BY <1>4
  <2>4. \A k \in DOMAIN A : A[k] = Plans!PlanRow(alone[k], None, "create_linear")
    OBVIOUS
  <2>. HIDE DEF A
  <2>5. \A k \in DOMAIN A : A[k] \in PlanRows
    BY <2>1, <2>2, <2>3, <2>4
  <2>6. A \in Seq(PlanRows)
    <3>1. A = [k \in 1..Len(alone) |-> A[k]]
      BY <2>3 DEF A
    <3>. QED BY <2>3, <2>5, <3>1
  <2>. QED BY <2>3, <2>4, <2>6 DEF Plans!PlanRow
<1>8. /\ O \in Seq(PlanRows) /\ DOMAIN O = DOMAIN orphans
      /\ \A k \in DOMAIN O : O[k].ttid = None /\ O[k].ident = orphans[k] /\ O[k].action = "tombstone_linear"
  <2>1. \A k \in DOMAIN orphans : orphans[k] \in IssueIds
    BY <1>5
  <2>2. \A i \in IssueIds : Plans!PlanRow(None, i, "tombstone_linear") \in PlanRows
    BY DEF PlanRows, Plans!PlanRow
  <2>3. DOMAIN O = 1..Len(orphans) /\ DOMAIN orphans = 1..Len(orphans) /\ Len(orphans) \in Nat
    BY <1>5
  <2>4. \A k \in DOMAIN O : O[k] = Plans!PlanRow(None, orphans[k], "tombstone_linear")
    OBVIOUS
  <2>. HIDE DEF O
  <2>5. \A k \in DOMAIN O : O[k] \in PlanRows
    BY <2>1, <2>2, <2>3, <2>4
  <2>6. O \in Seq(PlanRows)
    <3>1. O = [k \in 1..Len(orphans) |-> O[k]]
      BY <2>3 DEF O
    <3>. QED BY <2>3, <2>5, <3>1
  <2>. QED BY <2>3, <2>4, <2>6 DEF Plans!PlanRow
<1>. HIDE DEF A, O
<1>9. pl \in Seq(PlanRows) /\ Range(pl) = Range(links) \cup Range(A) \cup Range(O)
  BY <1>1, <1>6, <1>7, <1>8, ThreeParts
<1>10. \A r \in DOMAIN pl :
         \/ r \in DOMAIN links /\ pl[r] = links[r]
         \/ r > Len(links) /\ r - Len(links) \in DOMAIN A /\ pl[r] = A[r - Len(links)]
         \/ /\ r > Len(links) + Len(A) /\ r - Len(links) - Len(A) \in DOMAIN O
            /\ pl[r] = O[r - Len(links) - Len(A)]
  BY <1>1, <1>6, <1>7, <1>8, ThreeParts
<1>11. /\ \A t \in TaskIds : Plans!Planned(links, t, None) <=> \E r \in DOMAIN links : links[r].ttid = t
       /\ \A i \in IssueIds : Plans!Planned(links, None, i) <=> \E r \in DOMAIN links : links[r].ident = i
  <2>1. \A r \in DOMAIN links : links[r].ttid # None /\ links[r].ident # None
    BY <1>6, IdsAssumption DEF Link
  <2>. QED BY <2>1 DEF Plans!Planned, Plans!Range
<1>12. /\ \A r \in Range(links) : r.action = "link"
       /\ \A r \in Range(A) : r.action = "create_linear"
       /\ \A r \in Range(O) : r.action = "tombstone_linear"
  BY <1>6, <1>7, <1>8 DEF Range, Link
<1>13. /\ \A t, i : PlanHas(pl, t, i, "link") <=> \E r \in DOMAIN links : links[r].ttid = t /\ links[r].ident = i
       /\ \A t : PlanHas(pl, t, None, "create_linear") <=> t \in Range(alone)
       /\ \A i : PlanHas(pl, None, i, "tombstone_linear") <=> i \in Range(orphans)
  <2>1. ASSUME NEW t, NEW i
        PROVE  PlanHas(pl, t, i, "link") <=> \E r \in DOMAIN links : links[r].ttid = t /\ links[r].ident = i
    <3>1. PlanHas(pl, t, i, "link") <=> \E r \in Range(links) : r.ttid = t /\ r.ident = i
      BY <1>9, <1>12 DEF PlanHas
    <3>. QED BY <3>1 DEF Range
  <2>2. ASSUME NEW t PROVE PlanHas(pl, t, None, "create_linear") <=> t \in Range(alone)
    <3>1. PlanHas(pl, t, None, "create_linear") <=> \E r \in Range(A) : r.ttid = t /\ r.ident = None
      BY <1>9, <1>12 DEF PlanHas
    <3>. QED BY <3>1, <1>7 DEF Range
  <2>3. ASSUME NEW i PROVE PlanHas(pl, None, i, "tombstone_linear") <=> i \in Range(orphans)
    <3>1. PlanHas(pl, None, i, "tombstone_linear") <=> \E r \in Range(O) : r.ttid = None /\ r.ident = i
      BY <1>9, <1>12 DEF PlanHas
    <3>. QED BY <3>1, <1>8 DEF Range
  <2>. QED BY <2>1, <2>2, <2>3
<1>14. Range(ts) \subseteq TaskIds /\ Range(is) \subseteq IssueIds
  BY DEF Range
<1>15. \A r \in DOMAIN links : links[r].ttid \in Range(ts) /\ links[r].ident \in Range(is)
                               /\ links[r].ident \in FitFor(nm, links[r].ttid)
  BY <1>2, <1>6 DEF Matched, Range
<1>16. RestPlanned(pl, ts, is, labels)
  <2>1. ASSUME NEW t \in Range(ts)
        PROVE  t \in Range(alone) <=> \A i \in Range(is) : ~PlanHas(pl, t, i, "link")
    BY <1>4, <1>11, <1>13, <1>14, <1>15
  <2>2. ASSUME NEW i \in Range(is)
        PROVE  i \in Range(orphans) <=> i \in labels /\ \A t \in Range(ts) : ~PlanHas(pl, t, i, "link")
    BY <1>5, <1>11, <1>13, <1>14, <1>15
  <2>. QED BY <1>13, <2>1, <2>2 DEF RestPlanned
<1>17. StableLinks(nm, pl, ts, is)
  <2>1. ASSUME NEW t \in Range(ts), NEW i \in Range(is), PlanHas(pl, t, i, "link") PROVE i \in FitFor(nm, t)
    BY <1>13, <1>15, <2>1
  <2>2. ASSUME NEW t \in Range(ts), NEW i \in Range(is), ~PlanHas(pl, t, i, "link"), i \in FitFor(nm, t)
        PROVE  \/ \E j \in Range(is) : PlanHas(pl, t, j, "link") /\ Prefers(nm, t, j, i, is)
               \/ \E s \in Range(ts) : PlanHas(pl, s, i, "link") /\ Before(s, t, ts)
    <3>1. PICK c \in 1..Len(ts) : ts[c] = t
      BY <1>6 DEF Range
    <3>2. Content(nm, links, ts, c, is, i)
      BY <1>2, <2>2, <3>1 DEF Matched
    <3>3. CASE \E r \in DOMAIN links : /\ links[r].ttid = t
                                       /\ (links[r].ident = i \/ Prefers(nm, t, links[r].ident, i, is))
      BY <1>13, <1>15, <2>2, <3>3
    <3>4. CASE \E r \in DOMAIN links : /\ links[r].ident = i
                                       /\ \E e \in 1..(c - 1) : links[r].ttid = ts[e]
      <4>1. PICK r \in DOMAIN links, e \in 1..(c - 1) : links[r].ident = i /\ links[r].ttid = ts[e]
        BY <3>4
      <4>2. e \in DOMAIN ts /\ c \in DOMAIN ts /\ e < c
        BY <1>6, <3>1
      <4>3. Before(ts[e], t, ts)
        BY <3>1, <4>2 DEF Before
      <4>4. ts[e] \in Range(ts) /\ PlanHas(pl, ts[e], i, "link")
        BY <1>13, <4>1, <4>2 DEF Range
      <4>. QED BY <4>3, <4>4
    <3>. QED BY <3>1, <3>2, <3>3, <3>4 DEF Content
  <2>. QED BY <2>1, <2>2 DEF StableLinks
<1>18. OncePlanned(pl)
  <2>1. Len(links) \in Nat /\ Len(A) \in Nat /\ DOMAIN pl \subseteq Int
    BY <1>6, <1>7, <1>9
  <2>2. /\ \A j, k \in DOMAIN A : A[j].ttid = A[k].ttid => j = k
        /\ \A j, k \in DOMAIN O : O[j].ident = O[k].ident => j = k
    BY <1>4, <1>5, <1>7, <1>8 DEF IsInjective
  <2>3. /\ \A r \in DOMAIN links, k \in DOMAIN A : links[r].ttid # A[k].ttid
        /\ \A r \in DOMAIN links, k \in DOMAIN O : links[r].ident # O[k].ident
    <3>1. ASSUME NEW r \in DOMAIN links, NEW k \in DOMAIN A PROVE links[r].ttid # A[k].ttid
      <4>1. alone[k] \in Range(alone) /\ A[k].ttid = alone[k]
        BY <1>7 DEF Range
      <4>2. alone[k] \in TaskIds /\ ~Plans!Planned(links, alone[k], None)
        BY <1>4, <1>14, <4>1
      <4>. QED BY <1>11, <4>1, <4>2
    <3>2. ASSUME NEW r \in DOMAIN links, NEW k \in DOMAIN O PROVE links[r].ident # O[k].ident
      <4>1. orphans[k] \in Range(orphans) /\ O[k].ident = orphans[k]
        BY <1>8 DEF Range
      <4>2. orphans[k] \in IssueIds /\ ~Plans!Planned(links, None, orphans[k])
        BY <1>5, <1>14, <4>1
      <4>. QED BY <1>11, <4>1, <4>2
    <3>. QED BY <3>1, <3>2
  <2>4. \A r, s \in DOMAIN links : links[r].ttid = links[s].ttid \/ links[r].ident = links[s].ident => r = s
    BY <1>2 DEF Matched
  <2>5. ASSUME NEW r \in DOMAIN pl, NEW s \in DOMAIN pl, pl[r].ttid = pl[s].ttid, pl[r].ttid # None
        PROVE  r = s
    <3>1. \/ r \in DOMAIN links /\ pl[r] = links[r]
          \/ r - Len(links) \in DOMAIN A /\ pl[r] = A[r - Len(links)]
      BY <1>8, <1>10, <2>5
    <3>2. \/ s \in DOMAIN links /\ pl[s] = links[s]
          \/ s - Len(links) \in DOMAIN A /\ pl[s] = A[s - Len(links)]
      BY <1>8, <1>10, <2>5
    <3>3. r - Len(links) = s - Len(links) => r = s
      BY <2>1
    <3>. QED BY <2>2, <2>3, <2>4, <2>5, <3>1, <3>2, <3>3
  <2>6. ASSUME NEW r \in DOMAIN pl, NEW s \in DOMAIN pl, pl[r].ident = pl[s].ident, pl[r].ident # None
        PROVE  r = s
    <3>1. \/ r \in DOMAIN links /\ pl[r] = links[r]
          \/ r - Len(links) - Len(A) \in DOMAIN O /\ pl[r] = O[r - Len(links) - Len(A)]
      BY <1>7, <1>10, <2>6
    <3>2. \/ s \in DOMAIN links /\ pl[s] = links[s]
          \/ s - Len(links) - Len(A) \in DOMAIN O /\ pl[s] = O[s - Len(links) - Len(A)]
      BY <1>7, <1>10, <2>6
    <3>3. r - Len(links) - Len(A) = s - Len(links) - Len(A) => r = s
      BY <2>1
    <3>. QED BY <2>2, <2>3, <2>4, <2>6, <3>1, <3>2, <3>3
  <2>. QED BY <2>5, <2>6 DEF OncePlanned
<1>19. RowsOver(pl, Range(ts), Range(is))
  <2>1. \A r \in Range(links) : r.ttid \in Range(ts) /\ r.ident \in Range(is)
    BY <1>15 DEF Range
  <2>2. \A r \in Range(A) : r.ttid \in Range(ts) /\ r.ident = None
    <3>1. \A k \in DOMAIN alone : alone[k] \in Range(alone)
      BY DEF Range
    <3>2. Range(alone) \subseteq Range(ts)
      BY <1>4
    <3>3. \A k \in DOMAIN A : A[k].ttid \in Range(ts) /\ A[k].ident = None
      BY <1>7, <3>1, <3>2
    <3>. QED BY <3>3 DEF Range
  <2>3. \A r \in Range(O) : r.ttid = None /\ r.ident \in Range(is)
    <3>1. \A k \in DOMAIN orphans : orphans[k] \in Range(orphans)
      BY DEF Range
    <3>2. Range(orphans) \subseteq Range(is)
      BY <1>5
    <3>3. \A k \in DOMAIN O : O[k].ttid = None /\ O[k].ident \in Range(is)
      BY <1>8, <3>1, <3>2
    <3>. QED BY <3>3 DEF Range
  <2>. QED BY <1>9, <1>12, <2>1, <2>2, <2>3 DEF RowsOver
<1>. QED BY <1>9, <1>16, <1>17, <1>18, <1>19 DEF pl

----------------------------------------------------------------------------
(* The plan in the life of the commands: it stays as good as it was made      *)
(* while it is the last thing the command line did.                           *)

Once(list, S) == list \in Seq(S) /\ IsInjective(list)

ListsInv ==
    /\ cli.pc \in CliPCs
    /\ Once(cli.issues, IssueIds) /\ Range(cli.issues) \subseteq used
    /\ Once(cli.tasks, TaskIds) /\ Range(cli.tasks) \subseteq used
    /\ cli.tasks_by_id \subseteq TaskIds
    /\ cli.new \in IssueIds \cup {None}

PlanInv ==
    /\ name \in Naming
    /\ labelled \subseteq IssueIds /\ canceled \subseteq IssueIds
    /\ plan \in Seq(PlanRows) /\ file \in Seq(Range(file)) /\ Len(file) = Len(plan)
    /\ fresh \in BOOLEAN /\ misread \in BOOLEAN
    /\ meant \subseteq IssueIds \X TaskIds /\ PlannedLinks \subseteq IssueIds \X TaskIds
    /\ commands \in 0..MaxCommands
    /\ cli.pc = "planned" => /\ OncePlanned(plan)
                             /\ StableLinks(name, plan, cli.tasks, cli.issues)
                             /\ RestPlanned(plan, cli.tasks, cli.issues, cli.labels)

MatchInv == TableInv /\ ListsInv /\ PlanInv

LEMMA ListedOnce ==
    ASSUME TableInv
    PROVE  /\ Once(list_team_issues, IssueIds) /\ Range(list_team_issues) \subseteq used
           /\ Once(list_tasks, TaskIds) /\ Range(list_tasks) \subseteq used
<1>1. issues \subseteq IssueIds \cap used /\ tasks \subseteq TaskIds \cap used
  BY DEF TableInv, TwinInv, TypeOK
<1>2. Once(list_tasks, TaskIds) /\ Range(list_tasks) \subseteq used
  BY <1>1, KeptRange, KeptOnce, ListsAssumption DEF list_tasks, Once
<1>3. listed \subseteq issues
  BY DEF listed
<1>4. Once(list_team_issues, IssueIds) /\ Range(list_team_issues) \subseteq used
  BY <1>1, <1>3, KeptRange, KeptOnce, OrderAssumption DEF list_team_issues, Once
<1>. QED BY <1>2, <1>4

LEMMA InitMatch == InitReconcile => MatchInv
<1>. SUFFICES ASSUME InitReconcile PROVE MatchInv
  OBVIOUS
<1>1. TableInv
  BY InitTable
<1>2. Once(<<>>, IssueIds) /\ Once(<<>>, TaskIds) /\ Range(<<>>) = {}
  BY DEF Once, IsInjective, Range
<1>3. ListsInv
  BY <1>2 DEF InitReconcile, ListsInv, CliIdle, CliPCs
<1>4. PlanInv
  <2>1. name \in Naming /\ labelled \subseteq IssueIds /\ canceled \subseteq IssueIds
    BY ListsAssumption DEF InitReconcile, Naming
  <2>2. plan \in Seq(PlanRows) /\ file \in Seq(Range(file)) /\ Len(file) = Len(plan)
    BY DEF InitReconcile
  <2>3. commands \in 0..MaxCommands /\ cli.pc # "planned"
    BY ListsAssumption DEF InitReconcile, CliIdle
  <2>4. /\ fresh \in BOOLEAN /\ misread \in BOOLEAN
        /\ meant \subseteq IssueIds \X TaskIds /\ PlannedLinks = {}
    <3>1. Range(plan) = {}
      BY DEF InitReconcile, Range
    <3>2. rows \subseteq IssueIds \X TaskIds
      BY <1>1 DEF TableInv, TwinInv, TypeOK
    <3>. QED BY <3>1, <3>2 DEF InitReconcile, PlannedLinks
  <2>. QED BY <2>1, <2>2, <2>3, <2>4 DEF PlanInv
<1>. QED BY <1>1, <1>3, <1>4 DEF MatchInv

\* What the plan says of the listed items stays true while they keep their names.
LEMMA StableWhileNamed ==
    ASSUME NEW nm \in Naming, NEW on \in Naming, NEW ts \in Seq(TaskIds), NEW is \in Seq(IssueIds), NEW pl,
           \A x \in Range(ts) \cup Range(is) : on[x] = nm[x], StableLinks(nm, pl, ts, is)
    PROVE  StableLinks(on, pl, ts, is)
<1>1. \A t \in Range(ts), i \in Range(is) : t \in TaskIds /\ i \in IssueIds
  BY DEF Range
<1>2. \A t \in Range(ts), i \in Range(is) : i \in FitFor(on, t) <=> i \in FitFor(nm, t)
  BY <1>1 DEF FitFor
<1>3. \A t \in Range(ts), i \in Range(is) : Alike(on, t)[i] = Alike(nm, t)[i]
  <2>1. ASSUME NEW t \in Range(ts), NEW i \in Range(is) PROVE Alike(on, t)[i] = Alike(nm, t)[i]
    <3>1. t \in TaskIds /\ i \in IssueIds /\ on[t] = nm[t] /\ on[i] = nm[i]
      BY <1>1
    <3>2. Alike(on, t)[i] = Score[on[t], on[i]]
      BY <3>1, AlikeIs
    <3>3. Alike(nm, t)[i] = Score[nm[t], nm[i]]
      BY <3>1, AlikeIs
    <3>. QED BY <3>1, <3>2, <3>3
  <2>. QED BY <2>1
<1>4. \A t \in Range(ts), i, j \in Range(is) : Prefers(on, t, i, j, is) <=> Prefers(nm, t, i, j, is)
  BY <1>3 DEF Prefers
<1>. QED BY <1>2, <1>4 DEF StableLinks

LEMMA InvImplied == MatchInv => TypeOKReconcile /\ PlanIsStable
<1>. SUFFICES ASSUME MatchInv PROVE TypeOKReconcile /\ PlanIsStable
  OBVIOUS
<1>. USE DEF MatchInv
<1>1. Range(cli.issues) \subseteq IssueIds /\ Range(cli.tasks) \subseteq TaskIds
  BY DEF ListsInv, Once, Range
<1>2. TypeOKReconcile
  <2>1. \A k \in DOMAIN plan : plan[k] \in PlanRows
    BY DEF PlanInv
  <2>2. TypeOK
    BY DEF TableInv, TwinInv
  <2>. QED BY <1>1, <2>1, <2>2 DEF TypeOKReconcile, ListsInv, PlanInv, PlanRows, Naming
<1>3. ASSUME cli.pc = "planned" PROVE PlanIsStable
  <2>. DEFINE T == Range(cli.tasks)
              I == Range(cli.issues)
  <2>1. \A t \in T, i \in I : i \in FitFor(name, t) <=> Plans!Fits(name[t], name[i])
    BY <1>1 DEF FitFor
  <2>2. \A t \in T, i, j \in I : Prefers(name, t, i, j, cli.issues) <=> Suits(t, i, j)
    <3>1. ASSUME NEW t \in T, NEW i \in I PROVE Alike(name, t)[i] = Score[name[t], name[i]]
      BY <1>1, AlikeIs DEF PlanInv
    <3>. QED BY <3>1 DEF Prefers, Suits
  <2>3. \A t, i, action : PlanHas(plan, t, i, action) <=> Has(t, i, action)
    BY DEF PlanHas, Has
  <2>4. StableLinks(name, plan, cli.tasks, cli.issues)
    BY <1>3 DEF PlanInv
  <2>5. RestPlanned(plan, cli.tasks, cli.issues, cli.labels) /\ OncePlanned(plan)
    BY <1>3 DEF PlanInv
  <2>6. \A t \in T, i \in I :
          IF Has(t, i, "link") THEN Plans!Fits(name[t], name[i])
          ELSE Plans!Fits(name[t], name[i]) =>
                 \/ \E j \in I : Has(t, j, "link") /\ Suits(t, j, i)
                 \/ \E s \in T : Has(s, i, "link") /\ Before(s, t, cli.tasks)
    BY <2>1, <2>2, <2>3, <2>4 DEF StableLinks
  <2>7. /\ \A t \in T : Has(t, None, "create_linear") <=> \A i \in I : ~Has(t, i, "link")
        /\ \A i \in I : Has(None, i, "tombstone_linear")
                          <=> i \in cli.labels /\ \A t \in T : ~Has(t, i, "link")
    BY <2>3, <2>5 DEF RestPlanned
  <2>. QED BY <2>5, <2>6, <2>7 DEF PlanIsStable, OncePlanned
<1>. QED BY <1>2, <1>3 DEF PlanIsStable, CliAt

\* Ids are given out for good, and what has one keeps its name.
LEMMA UsedGrows ==
    ASSUME TableInv, CommandLine \/ Service
    PROVE  used \subseteq used'
<1>1. CASE CommandLine
  BY <1>1 DEF CommandLine, DryRun, WritePlan, Confirm, ConfirmTasks, SkipRow, LinkExisting, CreateLinear,
     Upsert, TombstoneLinear, RaiseRow, ConfirmEnds, CommandDies, stores, vars
<1>2. CASE Service
  BY <1>2 DEF Service, Next, Step, Receive, Check, FillList, FillNext, FillRaises, PollList, PollNext, JobEnds,
     CreateTask, MarkIssue, CreateIssue, Raise, LinkRow, SyncPair, UserCreatesIssue,
     UserCreatesTask, UserEditsIssue, UserDeletesIssue, UserDeletesTask, Crash, stores
<1>. QED BY <1>1, <1>2

\* What the actions of the command line do to its own record.
LEMMA CliSteps ==
    ASSUME TableInv, CommandLine
    PROVE  \/ \E pc \in {"tasks", "confirm"} : Command(pc)
           \/ cli' = [cli EXCEPT !.pc = "planned", !.tasks = list_tasks] /\ WritePlan
           \/ /\ commands' = commands /\ plan' = plan
              /\ \/ cli' = [cli EXCEPT !.pc = "rows", !.tasks_by_id = tasks, !.todo = Plans!read_plan_tsv(file)]
                 \/ \E i \in IssueIds : cli' = [cli EXCEPT !.pc = "upsert", !.new = i]
                 \/ NextRow
                 \/ cli' = [cli EXCEPT !.pc = "applied"]
                 \/ cli' = CliIdle
                 \/ cli' = cli /\ CliAt("rows")
<1>1. issues \subseteq IssueIds
  BY DEF TableInv, TwinInv, TypeOK
<1>. QED BY <1>1 DEF CommandLine, DryRun, WritePlan, Confirm, ConfirmTasks, SkipRow, LinkExisting, CreateLinear,
     Upsert, TombstoneLinear, RaiseRow, ConfirmEnds, CommandDies, Does

LEMMA ListsKept ==
    ASSUME MatchInv, CommandLine
    PROVE  ListsInv'
<1>1. ListsInv /\ CliRecord(cli) /\ used \subseteq used' /\ tasks \subseteq TaskIds
  BY UsedGrows DEF MatchInv, TableInv, CliKnowsTwins, TwinInv, TypeOK
<1>2. Once(<<>>, IssueIds) /\ Once(<<>>, TaskIds) /\ Range(<<>>) = {}
  BY DEF Once, IsInjective, Range
<1>3. /\ Once(list_team_issues, IssueIds) /\ Range(list_team_issues) \subseteq used
      /\ Once(list_tasks, TaskIds) /\ Range(list_tasks) \subseteq used
  BY ListedOnce DEF MatchInv
<1>4. ASSUME NEW pc \in {"tasks", "confirm"}, Command(pc) PROVE ListsInv'
  <2>. DEFINE found == list_team_issues
  <2>1. cli' = [CliIdle EXCEPT !.pc = pc, !.issues = found, !.labels = labelled]
    BY <1>4 DEF Command
  <2>. HIDE DEF found
  <2>2. /\ cli'.pc = pc /\ cli'.issues = found /\ cli'.tasks = <<>> /\ cli'.tasks_by_id = {}
        /\ cli'.new = None
    BY <2>1 DEF CliIdle
  <2>3. Once(found, IssueIds) /\ Range(found) \subseteq used
    BY <1>3 DEF found
  <2>. QED BY <1>1, <1>2, <2>2, <2>3 DEF ListsInv, CliPCs
<1>5. CASE cli' = [cli EXCEPT !.pc = "planned", !.tasks = list_tasks]
  <2>. DEFINE found == list_tasks
  <2>. HIDE DEF found
  <2>1. /\ cli'.pc = "planned" /\ cli'.issues = cli.issues /\ cli'.tasks = found
        /\ cli'.tasks_by_id = cli.tasks_by_id /\ cli'.new = cli.new
    BY <1>1, <1>5 DEF CliRecord, found
  <2>2. Once(found, TaskIds) /\ Range(found) \subseteq used
    BY <1>3 DEF found
  <2>. QED BY <1>1, <2>1, <2>2 DEF ListsInv, CliPCs
<1>6. CASE cli' = CliIdle
  <2>1. /\ cli'.pc = "idle" /\ cli'.issues = <<>> /\ cli'.tasks = <<>> /\ cli'.tasks_by_id = {}
        /\ cli'.new = None
    BY <1>6 DEF CliIdle
  <2>. QED BY <1>2, <2>1 DEF ListsInv, CliPCs
<1>7. ASSUME cli'.pc \in CliPCs, cli'.issues = cli.issues, cli'.tasks = cli.tasks,
             cli'.tasks_by_id \subseteq TaskIds, cli'.new \in IssueIds \cup {None}
      PROVE  ListsInv'
  BY <1>1, <1>7 DEF ListsInv
<1>8. CASE \/ cli' = [cli EXCEPT !.pc = "rows", !.tasks_by_id = tasks, !.todo = Plans!read_plan_tsv(file)]
           \/ NextRow
  <2>. DEFINE rest == IF NextRow THEN Tail(cli.todo) ELSE Plans!read_plan_tsv(file)
  <2>1. \/ cli' = [cli EXCEPT !.pc = "rows", !.tasks_by_id = tasks, !.todo = rest]
        \/ cli' = [cli EXCEPT !.pc = "rows", !.todo = rest, !.new = None]
    BY <1>8 DEF NextRow
  <2>. HIDE DEF rest
  <2>. QED BY <1>1, <1>7, <2>1 DEF ListsInv, CliRecord, CliPCs
<1>9. CASE \/ \E i \in IssueIds : cli' = [cli EXCEPT !.pc = "upsert", !.new = i]
           \/ cli' = [cli EXCEPT !.pc = "applied"]
           \/ cli' = cli
  BY <1>1, <1>7, <1>9 DEF ListsInv, CliRecord, CliPCs
<1>. QED BY <1>4, <1>5, <1>6, <1>8, <1>9, CliSteps DEF MatchInv

LEMMA RowIsListed ==
    ASSUME TableInv, NEW action, Does(action)
    PROVE  /\ action # "tombstone_linear" => Row.ttid \in TaskIds
           /\ CliAt("rows")
BY DEF Does, TableInv, CliKnowsTwins, CliRecord

LEMMA WriteKeepsPlan ==
    ASSUME MatchInv, WritePlan
    PROVE  PlanInv'
<1>. DEFINE ts == list_tasks
            is == cli.issues
            new == Plans!build_match_plan(name, ts, is, cli.labels)
<1>1. ListsInv /\ PlanInv /\ CliRecord(cli)
  BY DEF MatchInv, TableInv, CliKnowsTwins
<1>2. ts \in Seq(TaskIds) /\ IsInjective(ts) /\ is \in Seq(IssueIds) /\ IsInjective(is)
  BY <1>1, ListedOnce DEF MatchInv, ListsInv, Once
<1>3. /\ new \in Seq(PlanRows) /\ OncePlanned(new)
      /\ StableLinks(name, new, ts, is) /\ RestPlanned(new, ts, is, cli.labels)
      /\ RowsOver(new, Range(ts), Range(is))
  <2>. HIDE DEF ts, is
  <2>. QED BY <1>1, <1>2, PlanIs DEF PlanInv
<1>4. /\ plan' = new /\ file' = Plans!write_plan_tsv(name, new)
      /\ cli' = [cli EXCEPT !.pc = "planned", !.tasks = ts]
      /\ UNCHANGED <<name, labelled, canceled, meant, misread, commands>> /\ fresh' \in BOOLEAN
  BY DEF WritePlan
<1>. HIDE DEF new
<1>5. file' \in Seq(Range(file')) /\ Len(file') = Len(plan')
  <2>1. DOMAIN file' = 1..Len(new) /\ Len(new) \in Nat /\ file' = [k \in 1..Len(new) |-> file'[k]]
    BY <1>3, <1>4 DEF Plans!write_plan_tsv, Plans!Rows
  <2>2. \A k \in 1..Len(new) : file'[k] \in Range(file')
    BY <2>1 DEF Range
  <2>. QED BY <1>4, <2>1, <2>2
<1>. HIDE DEF ts
<1>6. cli'.tasks = ts /\ cli'.issues = is /\ cli'.labels = cli.labels
  BY <1>1, <1>4 DEF CliRecord
<1>7. /\ OncePlanned(plan') /\ StableLinks(name', plan', cli'.tasks, cli'.issues)
      /\ RestPlanned(plan', cli'.tasks, cli'.issues, cli'.labels)
  BY <1>3, <1>4, <1>6
<1>8. PlannedLinks' \subseteq IssueIds \X TaskIds
  <2>1. Range(ts) \subseteq TaskIds /\ Range(is) \subseteq IssueIds
    BY <1>2 DEF Range
  <2>. QED BY <1>3, <1>4, <2>1 DEF PlannedLinks, RowsOver
<1>. QED BY <1>1, <1>3, <1>4, <1>5, <1>7, <1>8 DEF PlanInv

LEMMA CommandLineKeepsPlan ==
    ASSUME MatchInv, CommandLine, ~WritePlan
    PROVE  PlanInv'
<1>1. ListsInv /\ PlanInv /\ CliRecord(cli)
  BY DEF MatchInv, TableInv, CliKnowsTwins
<1>2. plan' = plan /\ file' = file /\ fresh' = fresh
  BY DEF CommandLine, DryRun, Confirm, ConfirmTasks, SkipRow, LinkExisting, CreateLinear, Upsert,
     TombstoneLinear, RaiseRow, ConfirmEnds, CommandDies
<1>3. cli'.pc # "planned"
  <2>1. ASSUME NEW pc \in {"tasks", "confirm"}, Command(pc) PROVE cli'.pc # "planned"
    <3>. DEFINE found == list_team_issues
    <3>1. cli' = [CliIdle EXCEPT !.pc = pc, !.issues = found, !.labels = labelled]
      BY <2>1 DEF Command
    <3>. HIDE DEF found
    <3>. QED BY <3>1 DEF CliIdle
  <2>2. CASE \/ \E i \in IssueIds : cli' = [cli EXCEPT !.pc = "upsert", !.new = i]
             \/ cli' = [cli EXCEPT !.pc = "applied"]
             \/ cli' = CliIdle
             \/ cli' = cli /\ CliAt("rows")
    <3>1. CASE \/ \E i \in IssueIds : cli' = [cli EXCEPT !.pc = "upsert", !.new = i]
               \/ cli' = [cli EXCEPT !.pc = "applied"]
      BY <1>1, <3>1 DEF CliRecord
    <3>2. CASE cli' = CliIdle
      BY <3>2 DEF CliIdle
    <3>3. CASE cli' = cli /\ CliAt("rows")
      BY <3>3 DEF CliAt
    <3>. QED BY <2>2, <3>1, <3>2, <3>3
  <2>3. CASE \/ cli' = [cli EXCEPT !.pc = "rows", !.tasks_by_id = tasks, !.todo = Plans!read_plan_tsv(file)]
             \/ NextRow
    <3>. DEFINE rest == IF NextRow THEN Tail(cli.todo) ELSE Plans!read_plan_tsv(file)
    <3>1. \/ cli' = [cli EXCEPT !.pc = "rows", !.tasks_by_id = tasks, !.todo = rest]
          \/ cli' = [cli EXCEPT !.pc = "rows", !.todo = rest, !.new = None]
      BY <2>3 DEF NextRow
    <3>. HIDE DEF rest
    <3>. QED BY <1>1, <3>1 DEF CliRecord
  <2>. QED BY <2>1, <2>2, <2>3, CliSteps DEF MatchInv
<1>4. commands' \in 0..MaxCommands
  <2>1. commands \in 0..MaxCommands /\ MaxCommands \in Nat
    BY <1>1, ListsAssumption DEF PlanInv
  <2>2. ASSUME NEW pc \in {"tasks", "confirm"}, Command(pc) PROVE commands' \in 0..MaxCommands
    BY <2>1, <2>2 DEF Command
  <2>3. commands' = commands => commands' \in 0..MaxCommands
    BY <2>1
  <2>. QED BY <2>2, <2>3, CliSteps DEF MatchInv
<1>5. issues \subseteq IssueIds
  BY DEF MatchInv, TableInv, TwinInv, TypeOK
<1>6. labelled' \subseteq IssueIds /\ canceled' \subseteq IssueIds
  BY <1>1, <1>5 DEF PlanInv, CommandLine, DryRun, WritePlan, Confirm, ConfirmTasks, SkipRow,
     LinkExisting, CreateLinear, Upsert, TombstoneLinear, RaiseRow, ConfirmEnds, CommandDies
<1>7. name' \in Naming
  <2>1. CASE CreateLinear
    <3>1. Row.ttid \in TaskIds
      BY <2>1, RowIsListed DEF CreateLinear, MatchInv
    <3>. QED BY <1>1, <2>1, <3>1 DEF CreateLinear, PlanInv, Naming
  <2>2. CASE ~CreateLinear
    <3>1. name' = name
      BY <2>2 DEF CommandLine, DryRun, WritePlan, Confirm, ConfirmTasks, SkipRow,
         LinkExisting, Upsert, TombstoneLinear, RaiseRow, ConfirmEnds, CommandDies
    <3>. QED BY <1>1, <3>1 DEF PlanInv
  <2>. QED BY <2>1, <2>2
<1>8. /\ misread' \in BOOLEAN /\ meant' \subseteq IssueIds \X TaskIds
      /\ PlannedLinks' = PlannedLinks
  <2>1. PlannedLinks' = PlannedLinks
    BY <1>2 DEF PlannedLinks
  <2>2. CASE CreateLinear
    <3>1. Row.ttid \in TaskIds
      BY <2>2, RowIsListed DEF CreateLinear, MatchInv
    <3>. QED BY <1>1, <2>1, <2>2, <3>1 DEF CreateLinear, PlanInv
  <2>3. CASE Confirm
    BY <1>1, <2>1, <2>3 DEF Confirm, PlanInv
  <2>4. CASE ~CreateLinear /\ ~Confirm
    <3>1. UNCHANGED <<meant, misread>>
      BY <2>4 DEF CommandLine, DryRun, WritePlan, ConfirmTasks, SkipRow, LinkExisting,
         Upsert, TombstoneLinear, RaiseRow, ConfirmEnds, CommandDies
    <3>. QED BY <1>1, <2>1, <3>1 DEF PlanInv
  <2>. QED BY <2>2, <2>3, <2>4
<1>. QED BY <1>1, <1>2, <1>3, <1>4, <1>6, <1>7, <1>8 DEF PlanInv

LEMMA ServiceKeepsPlan ==
    ASSUME MatchInv, Service
    PROVE  ListsInv' /\ PlanInv'
<1>1. ListsInv /\ PlanInv /\ TableInv /\ TwinInv' /\ used \subseteq used'
  BY StepKeepsTwins, UsedGrows DEF MatchInv, TableInv, Service
<1>2. UNCHANGED <<canceled, plan, file, fresh, misread, cli, commands>>
  BY DEF Service
<1>3. ListsInv'
  BY <1>1, <1>2 DEF ListsInv
<1>4. labelled' \subseteq IssueIds
  <2>1. issues' \subseteq IssueIds
    BY <1>1 DEF TwinInv, TypeOK
  <2>2. ASSUME NEW q \in Procs, loc'[q].pc = "link" PROVE loc'[q].iss \in IssueIds
    BY <1>1, <2>2 DEF TwinInv, KnowsTwins, TypeOK
  <2>3. labelled \subseteq IssueIds
    BY <1>1 DEF PlanInv
  <2>. QED BY <2>1, <2>2, <2>3 DEF Service
<1>5. name' \in Naming /\ \A x \in used : name'[x] = name[x]
  <2>. DEFINE new == used' \ used
              mirrors(x, y) == <<x, y>> \in twins' \/ <<y, x>> \in twins'
  <2>1. PICK n \in (IF new = {} THEN {None} ELSE Names) :
          name' = [x \in DOMAIN name |->
                     IF x \notin new THEN name[x]
                     ELSE IF \E y \in used : mirrors(x, y)
                          THEN name[CHOOSE y \in used : mirrors(x, y)] ELSE n]
    BY DEF Service
  <2>2. name \in [IssueIds \cup TaskIds -> Names] /\ used \subseteq IssueIds \cup TaskIds
    BY <1>1 DEF PlanInv, Naming, TwinInv, TypeOK, TableInv
  <2>. DEFINE like(x) == CHOOSE y \in used : mirrors(x, y)
  <2>3. \A x : (\E y \in used : mirrors(x, y)) => like(x) \in used
    OBVIOUS
  <2>4. name' = [x \in DOMAIN name |->
                   IF x \notin new THEN name[x]
                   ELSE IF \E y \in used : mirrors(x, y) THEN name[like(x)] ELSE n]
    BY <2>1
  <2>5. \A x \in used : x \notin new
    OBVIOUS
  <2>6. new # {} => n \in Names
    BY <2>1
  <2>. HIDE DEF like, mirrors, new
  <2>7. ASSUME NEW x \in IssueIds \cup TaskIds PROVE name'[x] \in Names
    <3>1. CASE x \notin new
      BY <2>2, <2>4, <3>1
    <3>2. CASE x \in new /\ \E y \in used : mirrors(x, y)
      BY <2>2, <2>3, <2>4, <3>2
    <3>3. CASE x \in new /\ ~(\E y \in used : mirrors(x, y))
      BY <2>2, <2>4, <2>6, <3>3
    <3>. QED BY <3>1, <3>2, <3>3
  <2>8. name' \in Naming
    BY <2>2, <2>4, <2>7 DEF Naming
  <2>9. \A x \in used : name'[x] = name[x]
    BY <2>2, <2>4, <2>5
  <2>. QED BY <2>8, <2>9
<1>6. cli.pc = "planned" => StableLinks(name', plan, cli.tasks, cli.issues)
  <2>1. Range(cli.tasks) \cup Range(cli.issues) \subseteq used
    BY <1>1 DEF ListsInv
  <2>2. cli.tasks \in Seq(TaskIds) /\ cli.issues \in Seq(IssueIds) /\ name \in Naming
    BY <1>1 DEF ListsInv, Once, PlanInv
  <2>3. \A x \in Range(cli.tasks) \cup Range(cli.issues) : name'[x] = name[x]
    BY <1>5, <2>1
  <2>4. name' \in Naming
    BY <1>5
  <2>5. cli.pc = "planned" => StableLinks(name, plan, cli.tasks, cli.issues)
    BY <1>1 DEF PlanInv
  <2>. QED BY <2>2, <2>3, <2>4, <2>5, StableWhileNamed
<1>7. meant' \subseteq IssueIds \X TaskIds /\ PlannedLinks' = PlannedLinks
  BY <1>1, <1>2 DEF Service, PlanInv, PlannedLinks, TwinInv, TypeOK
<1>8. PlanInv'
  BY <1>1, <1>2, <1>4, <1>5, <1>6, <1>7 DEF PlanInv
<1>. QED BY <1>3, <1>8

LEMMA MatchKept == MatchInv /\ [CommandLine \/ Service]_allvars => MatchInv'
<1>1. ASSUME MatchInv, CommandLine PROVE MatchInv'
  BY <1>1, TableKept, ListsKept, WriteKeepsPlan, CommandLineKeepsPlan DEF MatchInv
<1>2. ASSUME MatchInv, Service PROVE MatchInv'
  BY <1>2, TableKept, ServiceKeepsPlan DEF MatchInv
<1>3. ASSUME MatchInv, UNCHANGED allvars PROVE MatchInv'
  <2>1. TableInv'
    BY <1>3, TableKept DEF MatchInv
  <2>2. ListsInv'
    BY <1>3 DEF MatchInv, ListsInv, allvars, vars, matching
  <2>3. PlanInv'
    BY <1>3 DEF MatchInv, PlanInv, PlannedLinks, allvars, vars, matching
  <2>. QED BY <2>1, <2>2, <2>3 DEF MatchInv
<1>. QED BY <1>1, <1>2, <1>3

\* What the commands read, plan and do keeps its type, whatever the tables, the
\* lists and the service: the plan has rows of the three kinds only.
THEOREM MatchTypeCorrect == SpecReconcile => []TypeOKReconcile
BY InitMatch, MatchKept, InvImplied, PTL DEF SpecReconcile

\* The plan of a dry run (build_match_plan) is a stable matching of the tasks
\* and issues it has listed, for any number of them, any scores, due days,
\* thresholds and list orders, and every item of the lists comes up once.
THEOREM PlanStaysStable == SpecReconcile => []PlanIsStable
BY InitMatch, MatchKept, InvImplied, PTL DEF SpecReconcile

----------------------------------------------------------------------------
(* The file.  A plan none of whose titles begins with a lone quote is read     *)
(* back as it was written.                                                    *)

\* The fields of the reader's record, set two at a time.
LEMMA SetRec ==
    ASSUME NEW a, NEW b, NEW c
    PROVE  [[recs |-> a, rec |-> b, quoted |-> FALSE] EXCEPT !.rec = c, !.quoted = FALSE]
             = [recs |-> a, rec |-> c, quoted |-> FALSE]
<1>. DEFINE r == [recs |-> a, rec |-> b, quoted |-> FALSE]
            s == [r EXCEPT !.rec = c, !.quoted = FALSE]
<1>1. r \in [recs : {a}, rec : {b}, quoted : {FALSE}]
  OBVIOUS
<1>. HIDE DEF r
<1>2. s \in [recs : {a}, rec : {c}, quoted : {FALSE}]
  BY <1>1
<1>. HIDE DEF s
<1>3. s = [recs |-> a, rec |-> c, quoted |-> FALSE]
  BY <1>2
<1>. QED BY <1>3 DEF s, r

LEMMA EndLine ==
    ASSUME NEW a, NEW b, NEW c
    PROVE  [[recs |-> a, rec |-> b, quoted |-> FALSE] EXCEPT !.recs = c, !.rec = <<>>]
             = [recs |-> c, rec |-> <<>>, quoted |-> FALSE]
<1>. DEFINE r == [recs |-> a, rec |-> b, quoted |-> FALSE]
            s == [r EXCEPT !.recs = c, !.rec = <<>>]
<1>1. r \in [recs : {a}, rec : {b}, quoted : {FALSE}]
  OBVIOUS
<1>. HIDE DEF r
<1>2. s \in [recs : {c}, rec : {<<>>}, quoted : {FALSE}]
  BY <1>1
<1>. HIDE DEF s
<1>3. s = [recs |-> c, rec |-> <<>>, quoted |-> FALSE]
  BY <1>2
<1>. QED BY <1>3 DEF s, r

\* Fields that do not begin with a quote are read one by one.
LEMMA LineRead ==
    ASSUME NEW V, NEW line \in Seq(V), NEW recs, \A k \in DOMAIN line : line[k] \notin QuoteFirst
    PROVE  Plans!For(line, [recs |-> recs, rec |-> <<>>, quoted |-> FALSE], Plans!ReadField)
             = [recs |-> recs, rec |-> line, quoted |-> FALSE]
<1>. DEFINE n == Len(line)
            start == [recs |-> recs, rec |-> <<>>, quoted |-> FALSE]
            Loop(at) == at = [k \in 0..n |-> IF k = 0 THEN start
                                             ELSE Plans!ReadField(at[k - 1], line[k])]
            read == CHOOSE at : Loop(at)
            upto(k) == [recs |-> recs, rec |-> SubSeq(line, 1, k), quoted |-> FALSE]
            w == [k \in 0..n |-> upto(k)]
<1>1. Plans!For(line, start, Plans!ReadField) = read[n]
  BY DEF Plans!For
<1>2. n \in Nat /\ DOMAIN line = 1..n
  OBVIOUS
<1>3. upto(0) = start /\ upto(n) = [recs |-> recs, rec |-> line, quoted |-> FALSE]
  <2>1. SubSeq(line, 1, 0) = <<>> /\ SubSeq(line, 1, n) = line
    OBVIOUS
  <2>. QED BY <2>1
<1>. HIDE DEF n
<1>4. ASSUME NEW k \in 1..n PROVE Plans!ReadField(upto(k - 1), line[k]) = upto(k)
  <2>1. Append(SubSeq(line, 1, k - 1), line[k]) = SubSeq(line, 1, k)
    BY DEF n
  <2>2. line[k] \notin QuoteFirst
    BY <1>2
  <2>. DEFINE s == SubSeq(line, 1, k - 1)
              s2 == SubSeq(line, 1, k)
              f == line[k]
  <2>. HIDE DEF s, s2, f
  <2>. DEFINE acc == [recs |-> recs, rec |-> s, quoted |-> FALSE]
              q == f \in QuoteFirst
  <2>3. acc.quoted = FALSE /\ acc.rec = s /\ acc.recs = recs
    OBVIOUS
  <2>4. q = FALSE
    BY <2>2 DEF f
  <2>5. Plans!ReadField(acc, f) = [acc EXCEPT !.rec = Append(@, f), !.quoted = q]
    <3>. HIDE DEF acc
    <3>. QED BY <2>3 DEF Plans!ReadField
  <2>6. [acc EXCEPT !.rec = Append(@, f), !.quoted = FALSE] = [recs |-> recs, rec |-> s2, quoted |-> FALSE]
    <3>1. Append(s, f) = s2
      BY <2>1 DEF s, s2, f
    <3>. DEFINE t == Append(s, f)
    <3>. HIDE DEF t
    <3>2. [acc EXCEPT !.rec = t, !.quoted = FALSE] = [recs |-> recs, rec |-> t, quoted |-> FALSE]
      BY SetRec
    <3>3. [acc EXCEPT !.rec = Append(@, f), !.quoted = FALSE] = [acc EXCEPT !.rec = t, !.quoted = FALSE]
      <4>. HIDE DEF acc
      <4>. QED BY <2>3 DEF t
    <3>. QED BY <3>1, <3>2, <3>3 DEF t
  <2>. HIDE DEF q
  <2>7. Plans!ReadField(acc, f) = [recs |-> recs, rec |-> s2, quoted |-> FALSE]
    BY <2>4, <2>5, <2>6
  <2>. QED BY <2>7 DEF s, s2, f
<1>. HIDE DEF upto, start
<1>5. Loop(w)
  <2>1. ASSUME NEW k \in 0..n
        PROVE  w[k] = IF k = 0 THEN start ELSE Plans!ReadField(w[k - 1], line[k])
    <3>1. CASE k = 0
      BY <1>3, <3>1
    <3>2. CASE k # 0
      <4>1. k \in 1..n /\ k - 1 \in 0..n
        BY <1>2, <3>2
      <4>. QED BY <1>4, <3>2, <4>1
    <3>. QED BY <3>1, <3>2
  <2>. HIDE DEF w
  <2>2. w = [k \in 0..n |-> w[k]]
    BY DEF w
  <2>. QED BY <2>1, <2>2
<1>6. Loop(read)
  <2>. HIDE DEF Loop, w
  <2>. QED BY <1>5
<1>. HIDE DEF read
<1>7. read[0] = start /\ \A k \in 1..n : read[k] = Plans!ReadField(read[k - 1], line[k])
  <2>1. 0 \in 0..n /\ \A k \in 1..n : k \in 0..n /\ k # 0
    BY <1>2
  <2>. QED BY <1>6, <2>1
<1>. DEFINE T == {k \in 0..n : read[k] = upto(k)}
<1>8. 0 \in T
  BY <1>2, <1>3, <1>7
<1>9. ASSUME NEW k \in 1..n, k - 1 \in T PROVE k \in T
  BY <1>2, <1>4, <1>7, <1>9
<1>. HIDE DEF T
<1>10. n \in T
  <2>1. 0..n \subseteq T
    BY <1>2, <1>8, <1>9, UpTo
  <2>. QED BY <1>2, <2>1
<1>11. read[n] = upto(n)
  BY <1>10 DEF T
<1>. QED BY <1>1, <1>3, <1>11 DEF start

\* And so are lines.
LEMMA LinesRead ==
    ASSUME NEW V, NEW lines \in Seq(Seq(V)),
           \A l \in DOMAIN lines : \A k \in DOMAIN lines[l] : lines[l][k] \notin QuoteFirst
    PROVE  Plans!Records(lines) = lines
<1>. DEFINE n == Len(lines)
            start == [recs |-> <<>>, rec |-> <<>>, quoted |-> FALSE]
            Loop(at) == at = [k \in 0..n |-> IF k = 0 THEN start
                                             ELSE Plans!ReadLine(at[k - 1], lines[k])]
            read == CHOOSE at : Loop(at)
            upto(k) == [recs |-> SubSeq(lines, 1, k), rec |-> <<>>, quoted |-> FALSE]
            w == [k \in 0..n |-> upto(k)]
<1>1. Plans!For(lines, start, Plans!ReadLine) = read[n]
  BY DEF Plans!For
<1>2. n \in Nat /\ DOMAIN lines = 1..n
  OBVIOUS
<1>3. upto(0) = start /\ upto(n) = [recs |-> lines, rec |-> <<>>, quoted |-> FALSE]
  <2>1. SubSeq(lines, 1, 0) = <<>> /\ SubSeq(lines, 1, n) = lines
    OBVIOUS
  <2>. QED BY <2>1
<1>. HIDE DEF n
<1>4. ASSUME NEW k \in 1..n PROVE Plans!ReadLine(upto(k - 1), lines[k]) = upto(k)
  <2>1. Append(SubSeq(lines, 1, k - 1), lines[k]) = SubSeq(lines, 1, k)
    BY DEF n
  <2>. DEFINE done == SubSeq(lines, 1, k - 1)
              line == lines[k]
              acc == [recs |-> done, rec |-> <<>>, quoted |-> FALSE]
              end == [recs |-> done, rec |-> line, quoted |-> FALSE]
  <2>2. Plans!For(line, acc, Plans!ReadField) = end
    <3>1. line \in Seq(V)
      BY <1>2
    <3>2. \A j \in DOMAIN line : line[j] \notin QuoteFirst
      BY <1>2
    <3>. HIDE DEF line, done
    <3>. QED BY <3>1, <3>2, LineRead
  <2>. HIDE DEF done, line, acc
  <2>3. Plans!ReadLine(acc, line) = [end EXCEPT !.recs = Append(@, end.rec), !.rec = <<>>]
    <3>1. end.quoted = FALSE
      OBVIOUS
    <3>. HIDE DEF end
    <3>. QED BY <2>2, <3>1 DEF Plans!ReadLine
  <2>4. end.recs = done /\ end.rec = line
    OBVIOUS
  <2>. DEFINE more == Append(done, line)
  <2>. HIDE DEF more
  <2>5. [end EXCEPT !.recs = Append(@, end.rec), !.rec = <<>>] = [end EXCEPT !.recs = more, !.rec = <<>>]
    <3>. HIDE DEF end
    <3>. QED BY <2>4 DEF more
  <2>6. [end EXCEPT !.recs = more, !.rec = <<>>] = [recs |-> more, rec |-> <<>>, quoted |-> FALSE]
    BY EndLine
  <2>7. Plans!ReadLine(acc, line) = [recs |-> more, rec |-> <<>>, quoted |-> FALSE]
    BY <2>3, <2>5, <2>6
  <2>8. more = SubSeq(lines, 1, k)
    BY <2>1 DEF more, done, line
  <2>. QED BY <2>7, <2>8 DEF acc, done, line
<1>. HIDE DEF upto, start
<1>5. Loop(w)
  <2>1. ASSUME NEW k \in 0..n
        PROVE  w[k] = IF k = 0 THEN start ELSE Plans!ReadLine(w[k - 1], lines[k])
    <3>1. CASE k = 0
      BY <1>3, <3>1
    <3>2. CASE k # 0
      <4>1. k \in 1..n /\ k - 1 \in 0..n
        BY <1>2, <3>2
      <4>. QED BY <1>4, <3>2, <4>1
    <3>. QED BY <3>1, <3>2
  <2>. HIDE DEF w
  <2>2. w = [k \in 0..n |-> w[k]]
    BY DEF w
  <2>. QED BY <2>1, <2>2
<1>6. Loop(read)
  <2>. HIDE DEF Loop, w
  <2>. QED BY <1>5
<1>. HIDE DEF read
<1>7. read[0] = start /\ \A k \in 1..n : read[k] = Plans!ReadLine(read[k - 1], lines[k])
  <2>1. 0 \in 0..n /\ \A k \in 1..n : k \in 0..n /\ k # 0
    BY <1>2
  <2>. QED BY <1>6, <2>1
<1>. DEFINE T == {k \in 0..n : read[k] = upto(k)}
<1>8. 0 \in T
  BY <1>2, <1>3, <1>7
<1>9. ASSUME NEW k \in 1..n, k - 1 \in T PROVE k \in T
  <2>1. k \in 0..n /\ k - 1 \in 0..n /\ read[k - 1] = upto(k - 1)
    BY <1>2, <1>9
  <2>2. read[k] = Plans!ReadLine(upto(k - 1), lines[k])
    BY <1>7, <2>1
  <2>. QED BY <1>4, <2>1, <2>2
<1>. HIDE DEF T
<1>10. n \in T
  <2>1. 0..n \subseteq T
    BY <1>2, <1>8, <1>9, UpTo
  <2>. QED BY <1>2, <2>1
<1>11. read[n] = [recs |-> lines, rec |-> <<>>, quoted |-> FALSE]
  BY <1>3, <1>10 DEF T
<1>12. Plans!For(lines, start, Plans!ReadLine) = [recs |-> lines, rec |-> <<>>, quoted |-> FALSE]
  BY <1>1, <1>11
<1>. HIDE DEF Loop
<1>. QED BY <1>12 DEF Plans!Records, start

\* The columns that are read are the ones that were written.
LEMMA PlanReadBack ==
    ASSUME NEW nm \in Naming, NEW pl \in Seq(PlanRows),
           \A l \in DOMAIN pl : \A k \in 1..7 : Plans!to_tsv(nm, pl[l])[k] \notin QuoteFirst
    PROVE  Plans!read_plan_tsv(Plans!write_plan_tsv(nm, pl)) = pl
<1>. DEFINE lines == Plans!write_plan_tsv(nm, pl)
            Line(r) == Plans!to_tsv(nm, r)
            V == UNION {{Line(pl[l])[k] : k \in 1..7} : l \in DOMAIN pl}
<1>1. ASSUME NEW l \in DOMAIN pl
      PROVE  /\ Line(pl[l]) \in Seq(V) /\ Len(Line(pl[l])) = 7 /\ DOMAIN Line(pl[l]) = 1..7
             /\ Line(pl[l])[1] = pl[l].ttid /\ Line(pl[l])[3] = pl[l].ident
             /\ Line(pl[l])[7] = pl[l].action
  <2>1. PICK a, b, c, d, e, f, g : Line(pl[l]) = <<a, b, c, d, e, f, g>> /\ a = pl[l].ttid
             /\ c = pl[l].ident /\ g = pl[l].action
    BY DEF Plans!to_tsv
  <2>. HIDE DEF Line
  <2>2. Len(Line(pl[l])) = 7 /\ DOMAIN Line(pl[l]) = 1..7
    BY <2>1
  <2>3. Line(pl[l])[1] = pl[l].ttid /\ Line(pl[l])[3] = pl[l].ident /\ Line(pl[l])[7] = pl[l].action
    BY <2>1
  <2>4. \A k \in 1..7 : Line(pl[l])[k] \in V
    BY <1>1
  <2>. HIDE DEF V
  <2>5. {a, b, c, d, e, f, g} \subseteq V
    <3>1. 1 \in 1..7 /\ 2 \in 1..7 /\ 3 \in 1..7 /\ 4 \in 1..7 /\ 5 \in 1..7 /\ 6 \in 1..7 /\ 7 \in 1..7
      OBVIOUS
    <3>2. /\ Line(pl[l])[1] = a /\ Line(pl[l])[2] = b /\ Line(pl[l])[3] = c /\ Line(pl[l])[4] = d
          /\ Line(pl[l])[5] = e /\ Line(pl[l])[6] = f /\ Line(pl[l])[7] = g
      BY <2>1
    <3>. QED BY <2>4, <3>1, <3>2
  <2>6. <<a, b, c, d, e, f, g>> \in Seq(V)
    BY <2>5
  <2>. QED BY <2>1, <2>2, <2>3, <2>6
<1>2. lines = [k \in DOMAIN pl |-> Line(pl[k])]
  BY DEF Plans!write_plan_tsv, Plans!Rows
<1>3. lines \in Seq(Seq(V))
  <2>. HIDE DEF Line, V
  <2>1. \A l \in DOMAIN pl : Line(pl[l]) \in Seq(V)
    BY <1>1
  <2>. HIDE DEF lines
  <2>. QED BY <1>2, <2>1
<1>4. ASSUME NEW l \in DOMAIN lines, NEW k \in DOMAIN lines[l] PROVE lines[l][k] \notin QuoteFirst
  <2>. HIDE DEF lines
  <2>1. l \in DOMAIN pl /\ lines[l] = Line(pl[l])
    BY <1>2, <1>4
  <2>2. k \in 1..7
    BY <1>1, <1>4, <2>1
  <2>. QED BY <2>1, <2>2
<1>5. Plans!Records(lines) = lines
  <2>. HIDE DEF lines, V
  <2>. QED BY <1>3, <1>4, LinesRead
<1>6. ASSUME NEW l \in DOMAIN pl
      PROVE  Plans!PlanRow(Plans!Field(lines[l], 1), Plans!Field(lines[l], 3), Plans!Field(lines[l], 7)) = pl[l]
  <2>1. lines[l] = Line(pl[l])
    <3>. HIDE DEF lines
    <3>. QED BY <1>2
  <2>. HIDE DEF lines, Line
  <2>2. /\ Plans!Field(lines[l], 1) = pl[l].ttid /\ Plans!Field(lines[l], 3) = pl[l].ident
        /\ Plans!Field(lines[l], 7) = pl[l].action
    <3>1. Len(lines[l]) = 7
      BY <1>1, <2>1
    <3>2. /\ lines[l][1] = pl[l].ttid /\ lines[l][3] = pl[l].ident
          /\ lines[l][7] = pl[l].action
      BY <1>1, <2>1
    <3>. QED BY <3>1, <3>2 DEF Plans!Field
  <2>3. pl[l] \in PlanRows
    OBVIOUS
  <2>. QED BY <2>2, <2>3 DEF Plans!PlanRow, PlanRows
<1>. DEFINE Back(rec) == Plans!PlanRow(Plans!Field(rec, 1), Plans!Field(rec, 3), Plans!Field(rec, 7))
<1>7. Plans!read_plan_tsv(lines) = [k \in DOMAIN lines |-> Back(lines[k])]
  <2>. HIDE DEF lines
  <2>. QED BY <1>5 DEF Plans!read_plan_tsv, Plans!Rows
<1>8. DOMAIN lines = DOMAIN pl
  <2>. HIDE DEF lines
  <2>. QED BY <1>2
<1>9. pl = [k \in DOMAIN pl |-> pl[k]]
  OBVIOUS
<1>. HIDE DEF lines
<1>. QED BY <1>6, <1>7, <1>8, <1>9 DEF lines

ReadBack == ~Misquoted => Plans!read_plan_tsv(file) = plan

LEMMA MisquotedStays == ASSUME file' = file PROVE Misquoted' <=> Misquoted
BY DEF Misquoted

\* A new plan is what its file says, if no title begins with a quote.
LEMMA FileReadBack ==
    ASSUME MatchInv, WritePlan
    PROVE  ReadBack'
<1>. DEFINE ts == list_tasks
            is == cli.issues
            new == Plans!build_match_plan(name, ts, is, cli.labels)
<1>1. ListsInv /\ PlanInv /\ TableInv
  BY DEF MatchInv
<1>2. ts \in Seq(TaskIds) /\ IsInjective(ts) /\ is \in Seq(IssueIds) /\ IsInjective(is)
  BY <1>1, ListedOnce DEF ListsInv, Once
<1>3. new \in Seq(PlanRows)
  <2>. HIDE DEF ts, is
  <2>. QED BY <1>1, <1>2, PlanIs DEF PlanInv
<1>4. plan' = new /\ file' = Plans!write_plan_tsv(name, new)
  BY DEF WritePlan
<1>. HIDE DEF new
<1>5. ASSUME ~Misquoted' PROVE Plans!read_plan_tsv(file') = plan'
  <2>1. ASSUME NEW l \in DOMAIN new, NEW k \in 1..7 PROVE Plans!to_tsv(name, new[l])[k] \notin QuoteFirst
    <3>1. file' = [a \in DOMAIN new |-> Plans!to_tsv(name, new[a])]
      BY <1>4 DEF Plans!write_plan_tsv, Plans!Rows
    <3>. DEFINE line == Plans!to_tsv(name, new[l])
    <3>2. DOMAIN line = 1..7
      BY DEF Plans!to_tsv
    <3>. HIDE DEF line
    <3>3. line \in Range(file')
      BY <3>1 DEF Range, line
    <3>4. line[k] \notin QuoteFirst
      BY <1>5, <3>2, <3>3 DEF Misquoted
    <3>. QED BY <3>4 DEF line
  <2>2. name \in Naming
    BY <1>1 DEF PlanInv
  <2>. QED BY <1>3, <1>4, <2>1, <2>2, PlanReadBack
<1>. QED BY <1>5 DEF ReadBack

----------------------------------------------------------------------------
(* What is joined was created or planned.  Unless a file misled it, confirm    *)
(* has nothing to link but what the plan it was given links, and the service   *)
(* joins nothing but what it creates.                                          *)

\* Every link that is still to be made is one somebody meant.
TodoMeant ==
    /\ cli.todo \in Seq(PlanRows)
    /\ \A k \in DOMAIN cli.todo :
         cli.todo[k].action = "link" => <<cli.todo[k].ident, cli.todo[k].ttid>> \in meant

MeantInv ==
    /\ ReadBack
    /\ ~misread => /\ twins \subseteq meant
                   /\ CliAt("confirm") => ~Misquoted /\ PlannedLinks \subseteq meant
                   /\ cli.pc \in {"rows", "upsert"} => TodoMeant
                   /\ CliAt("upsert") => cli.todo # <<>>

LEMMA InitMeant == InitReconcile => MeantInv
<1>. SUFFICES ASSUME InitReconcile PROVE MeantInv
  OBVIOUS
<1>1. twins = meant /\ cli.pc = "idle"
  BY DEF InitReconcile, CliIdle
<1>2. ReadBack
  <2>1. file = <<>> /\ plan = <<>> /\ name \in Naming
    BY ListsAssumption DEF InitReconcile, Naming
  <2>2. plan \in Seq(PlanRows) /\ Plans!write_plan_tsv(name, plan) = file
    BY <2>1 DEF Plans!write_plan_tsv, Plans!Rows
  <2>3. \A l \in DOMAIN plan : FALSE
    BY <2>1
  <2>. QED BY <2>1, <2>2, <2>3, PlanReadBack DEF ReadBack
<1>. QED BY <1>1, <1>2 DEF MeantInv, CliAt

LEMMA ConfirmMeans ==
    ASSUME MatchInv, MeantInv, Confirm \/ ConfirmTasks
    PROVE  MeantInv'
<1>1. CliRecord(cli) /\ plan \in Seq(PlanRows) /\ twins' = twins /\ plan' = plan /\ file' = file
  BY DEF MatchInv, PlanInv, TableInv, CliKnowsTwins, Confirm, ConfirmTasks, vars
<1>2. ReadBack' /\ PlannedLinks' = PlannedLinks
  BY <1>1, MisquotedStays DEF MeantInv, ReadBack, PlannedLinks
<1>3. CASE Confirm
  <2>1. cli'.pc = "confirm"
    <3>. DEFINE found == list_team_issues
    <3>1. cli' = [CliIdle EXCEPT !.pc = "confirm", !.issues = found, !.labels = labelled]
      BY <1>3 DEF Confirm, Command
    <3>. HIDE DEF found
    <3>. QED BY <3>1 DEF CliIdle
  <2>2. meant' = meant \cup PlannedLinks /\ misread' = (misread \/ Misquoted)
    BY <1>3 DEF Confirm
  <2>. QED BY <1>1, <1>2, <2>1, <2>2, MisquotedStays DEF MeantInv, CliAt
<1>4. CASE ConfirmTasks
  <2>1. cli.pc = "confirm" /\ UNCHANGED <<meant, misread>>
    BY <1>4 DEF ConfirmTasks, CliAt
  <2>2. cli'.pc = "rows" /\ cli'.todo = Plans!read_plan_tsv(file)
    <3>. DEFINE rest == Plans!read_plan_tsv(file)
    <3>1. cli' = [cli EXCEPT !.pc = "rows", !.tasks_by_id = tasks, !.todo = rest]
      BY <1>4 DEF ConfirmTasks
    <3>. HIDE DEF rest
    <3>. QED BY <1>1, <3>1 DEF CliRecord, rest
  <2>3. ASSUME ~misread PROVE TodoMeant'
    <3>1. PlannedLinks \subseteq meant /\ cli'.todo = plan
      BY <2>1, <2>2, <2>3 DEF MeantInv, ReadBack, CliAt
    <3>2. \A k \in DOMAIN plan : plan[k].action = "link" => <<plan[k].ident, plan[k].ttid>> \in PlannedLinks
      BY DEF PlannedLinks, Range
    <3>. QED BY <1>1, <2>1, <3>1, <3>2 DEF TodoMeant
  <2>. QED BY <1>1, <1>2, <2>1, <2>2, <2>3 DEF MeantInv, CliAt
<1>. QED BY <1>3, <1>4

\* A row is done: the rest of the list is as it was.
LEMMA RowDone ==
    ASSUME MatchInv, MeantInv, SkipRow \/ Upsert \/ TombstoneLinear \/ RaiseRow
    PROVE  MeantInv'
<1>1. CliRecord(cli) /\ NextRow /\ UNCHANGED <<twins, plan, file, meant, misread>>
  BY DEF MatchInv, TableInv, CliKnowsTwins, SkipRow, Upsert, TombstoneLinear, RaiseRow, vars, stores
<1>2. ReadBack'
  BY <1>1, MisquotedStays DEF MeantInv, ReadBack
<1>3. cli'.pc = "rows" /\ cli'.todo = Tail(cli.todo)
  <2>. DEFINE rest == Tail(cli.todo)
  <2>1. cli' = [cli EXCEPT !.pc = "rows", !.todo = rest, !.new = None]
    BY <1>1 DEF NextRow
  <2>. HIDE DEF rest
  <2>. QED BY <1>1, <2>1 DEF CliRecord, rest
<1>4. ASSUME ~misread PROVE TodoMeant'
  <2>1. cli.pc \in {"rows", "upsert"} /\ cli.todo # <<>>
    BY <1>4 DEF SkipRow, Upsert, TombstoneLinear, RaiseRow, Does, CliAt, MeantInv
  <2>2. TodoMeant
    BY <1>4, <2>1 DEF MeantInv
  <2>3. /\ Tail(cli.todo) \in Seq(PlanRows)
        /\ \A k \in DOMAIN Tail(cli.todo) : k + 1 \in DOMAIN cli.todo /\ Tail(cli.todo)[k] = cli.todo[k + 1]
    BY <2>1, <2>2 DEF TodoMeant
  <2>. QED BY <1>1, <1>3, <2>2, <2>3 DEF TodoMeant
<1>. QED BY <1>1, <1>2, <1>3, <1>4 DEF MeantInv, CliAt

\* A row is under way: a link is meant, and an issue created for a task is.
LEMMA RowJoins ==
    ASSUME MatchInv, MeantInv, LinkExisting \/ CreateLinear
    PROVE  MeantInv'
<1>1. /\ CliRecord(cli) /\ UNCHANGED <<plan, file, misread>> /\ meant \subseteq meant'
      /\ cli.pc = "rows" /\ cli.todo # <<>>
  BY DEF MatchInv, TableInv, CliKnowsTwins, LinkExisting, CreateLinear, Does, CliAt
<1>2. ReadBack'
  BY <1>1, MisquotedStays DEF MeantInv, ReadBack
<1>3. cli'.todo = cli.todo /\ cli'.pc \in {"rows", "upsert"}
  <2>1. CASE LinkExisting
    <3>. DEFINE new == Row.ident
    <3>1. cli' = [cli EXCEPT !.pc = "upsert", !.new = new]
      BY <2>1 DEF LinkExisting
    <3>. HIDE DEF new
    <3>. QED BY <1>1, <3>1 DEF CliRecord
  <2>2. CASE CreateLinear
    <3>1. PICK i \in IssueIds : cli' = [cli EXCEPT !.pc = "upsert", !.new = i] \/ cli' = cli
      BY <2>2 DEF CreateLinear
    <3>. QED BY <1>1, <3>1 DEF CliRecord
  <2>. QED BY <2>1, <2>2
<1>4. ASSUME ~misread PROVE TodoMeant' /\ twins' \subseteq meant'
  <2>1. TodoMeant /\ twins \subseteq meant
    BY <1>1, <1>4 DEF MeantInv
  <2>2. TodoMeant'
    BY <1>1, <1>3, <2>1 DEF TodoMeant
  <2>3. CASE LinkExisting
    <3>1. 1 \in DOMAIN cli.todo /\ Row = cli.todo[1]
      BY <1>1, <2>1 DEF TodoMeant, Row
    <3>2. <<Row.ident, Row.ttid>> \in meant
      BY <2>1, <2>3, <3>1 DEF TodoMeant, LinkExisting, Does
    <3>. QED BY <2>1, <2>2, <2>3, <3>2 DEF LinkExisting
  <2>4. CASE CreateLinear
    BY <2>1, <2>2, <2>4 DEF CreateLinear
  <2>. QED BY <2>3, <2>4
<1>. QED BY <1>1, <1>2, <1>3, <1>4 DEF MeantInv, CliAt

LEMMA MeantKept == MatchInv /\ MeantInv /\ [CommandLine \/ Service]_allvars => MeantInv'
<1>1. ASSUME MatchInv, MeantInv, WritePlan PROVE MeantInv'
  <2>1. cli'.pc = "planned"
    <3>. DEFINE found == list_tasks
    <3>1. cli' = [cli EXCEPT !.pc = "planned", !.tasks = found] /\ CliRecord(cli)
      BY <1>1 DEF WritePlan, MatchInv, TableInv, CliKnowsTwins
    <3>. HIDE DEF found
    <3>. QED BY <3>1 DEF CliRecord
  <2>. QED BY <1>1, <2>1, FileReadBack DEF WritePlan, MeantInv, CliAt, vars
<1>2. ASSUME MatchInv, MeantInv, DryRun \/ ConfirmEnds \/ CommandDies PROVE MeantInv'
  <2>1. UNCHANGED <<twins, plan, file, meant, misread>>
    BY <1>2 DEF DryRun, ConfirmEnds, CommandDies, vars, stores
  <2>2. cli'.pc \in {"tasks", "applied", "idle"}
    <3>1. CASE DryRun
      <4>. DEFINE found == list_team_issues
      <4>1. cli' = [CliIdle EXCEPT !.pc = "tasks", !.issues = found, !.labels = labelled]
        BY <3>1 DEF DryRun, Command
      <4>. HIDE DEF found
      <4>. QED BY <4>1 DEF CliIdle
    <3>2. CASE ConfirmEnds
      BY <1>2, <3>2 DEF ConfirmEnds, MatchInv, TableInv, CliKnowsTwins, CliRecord
    <3>3. CASE CommandDies
      BY <3>3 DEF CommandDies, CliIdle
    <3>. QED BY <1>2, <3>1, <3>2, <3>3
  <2>. QED BY <1>2, <2>1, <2>2, MisquotedStays DEF MeantInv, ReadBack, CliAt
<1>3. ASSUME MatchInv, MeantInv, Service PROVE MeantInv'
  <2>1. UNCHANGED <<plan, file, misread, cli>> /\ meant' = meant \cup (twins' \ twins)
    BY <1>3 DEF Service
  <2>. QED BY <1>3, <2>1, MisquotedStays DEF MeantInv, ReadBack, CliAt, TodoMeant, PlannedLinks
<1>4. ASSUME MatchInv, MeantInv, UNCHANGED allvars PROVE MeantInv'
  <2>1. UNCHANGED <<twins, plan, file, meant, misread, cli>>
    BY <1>4 DEF allvars, vars, matching
  <2>. QED BY <1>4, <2>1, MisquotedStays DEF MeantInv, ReadBack, CliAt, TodoMeant, PlannedLinks
<1>. QED BY <1>1, <1>2, <1>3, <1>4, ConfirmMeans, RowDone, RowJoins DEF CommandLine

\* Whatever the service does meanwhile, the link table stays a matching; and
\* unless somebody confirmed a file with a title that begins with a lone quote,
\* it joins only an issue and a task of which one was created for the other, or
\* that build_match_plan had matched when the plan was made.
THEOREM TableIsMeant == SpecReconcile => []RowsAreMeant
<1>1. MatchInv /\ MeantInv => RowsAreMeant
  BY DEF MatchInv, MeantInv, TableInv, TwinInv, RowsJoinTwins, RowsAreMeant, RowsAreMatched
<1>. QED BY <1>1, InitMatch, MatchKept, InitMeant, MeantKept, PTL DEF SpecReconcile

----------------------------------------------------------------------------
(* A first match, without the service.  What is in the table was linked or     *)
(* created by the plan, and confirm has made what it has gone through: the    *)
(* rows still to do are the rest of the plan.                                 *)

First == fresh /\ ~Misquoted

\* Nothing in the plan is about issue i.
NotPlanned(i) == \A r \in Range(plan) : r.ident # i

\* A plan has every item once, and only items that have been given out.
PlanSound == OncePlanned(plan) /\ RowsOver(plan, TaskIds \cap used, IssueIds \cap used)

\* Where the rows of the table come from.
FreshRows ==
    First => \A r \in rows : /\ r[1] \in used
                             /\ \/ Has(r[2], r[1], "link")
                                \/ Has(r[2], None, "create_linear") /\ NotPlanned(r[1])

\* What confirm owes a row of the plan.
Made(r) ==
    /\ r.action = "link" /\ r.ttid \in tasks /\ r.ident \in issues \cap Range(cli.issues) =>
         <<r.ident, r.ttid>> \in rows
    /\ r.action = "create_linear" /\ r.ttid \in tasks => \E i \in IssueIds : <<i, r.ttid>> \in rows

\* Confirm is through with the first d rows.
Through(d) ==
    /\ cli.todo = SubSeq(plan, d + 1, Len(plan))
    /\ faults = 0 => \A k \in 1..d : Made(plan[k])
    /\ CliAt("applied") => d = Len(plan)

\* Confirm is about to store the row that is up.
Upserting ==
    /\ cli.todo # <<>> /\ cli.new \in used
    /\ \/ Row.action = "link" /\ cli.new = Row.ident
       \/ Row.action = "create_linear" /\ NotPlanned(cli.new) /\ ~IssueLinked(cli.new)

Confirming ==
    First /\ cli.pc \in {"rows", "upsert", "applied"} =>
      /\ \A r \in Range(plan) : r.ttid \in tasks => r.ttid \in cli.tasks_by_id
      /\ \E d \in 0..Len(plan) : Through(d)
      /\ CliAt("upsert") => Upserting

MadeInv == PlanSound /\ ReadBack /\ FreshRows /\ Confirming

LEMMA MadeImplies ==
    ASSUME MatchInv, MadeInv
    PROVE  FirstMatchIsMade /\ CanceledIsOrphan
<1>1. plan \in Seq(PlanRows) /\ DOMAIN plan = 1..Len(plan)
  BY DEF MatchInv, PlanInv
<1>2. ASSUME First, CliAt("applied"), faults = 0, NEW r \in Range(plan) PROVE Made(r)
  <2>1. PICK d \in 0..Len(plan) : Through(d)
    BY <1>2 DEF MadeInv, Confirming, CliAt
  <2>2. d = Len(plan) /\ \A k \in 1..d : Made(plan[k])
    BY <1>2, <2>1 DEF Through
  <2>. QED BY <1>1, <2>2 DEF Range
<1>3. FirstMatchIsMade
  BY <1>2 DEF FirstMatchIsMade, PlannedLinksAreMade, First, Made
<1>4. ASSUME First, NEW r \in rows, Has(None, r[1], "tombstone_linear") PROVE FALSE
  <2>1. PICK a \in DOMAIN plan : plan[a].ttid = None /\ plan[a].ident = r[1] /\ plan[a].action = "tombstone_linear"
    BY <1>4 DEF Has, Range
  <2>2. plan[a] \in Range(plan)
    BY <2>1 DEF Range
  <2>3. Has(r[2], r[1], "link")
    BY <1>4, <2>1, <2>2 DEF MadeInv, FreshRows, NotPlanned
  <2>4. PICK b \in DOMAIN plan : plan[b].ident = r[1] /\ plan[b].action = "link"
    BY <2>3 DEF Has, Range
  <2>5. r[1] # None
    <3>1. plan[b] \in Range(plan) /\ plan[b].ident \in IssueIds
      BY <2>4 DEF Range, MadeInv, PlanSound, RowsOver
    <3>. QED BY <2>4, <3>1, IdsAssumption
  <2>6. a = b
    BY <2>1, <2>4, <2>5 DEF MadeInv, PlanSound, OncePlanned
  <2>. QED BY <2>1, <2>4, <2>6
<1>. QED BY <1>3, <1>4 DEF CanceledIsOrphan, First

\* What is left of a list after its first d elements.
LEMMA RestOf ==
    ASSUME NEW X, NEW s \in Seq(X), NEW d \in 0..Len(s)
    PROVE  LET rest == SubSeq(s, d + 1, Len(s))
           IN  /\ rest \in Seq(X)
               /\ rest = <<>> => d = Len(s)
               /\ rest # <<>> => /\ d + 1 \in 1..Len(s) /\ Head(rest) = s[d + 1]
                                 /\ Tail(rest) = SubSeq(s, d + 2, Len(s))
<1>. DEFINE n == Len(s)
            rest == SubSeq(s, d + 1, n)
<1>1. n \in Nat /\ DOMAIN s = 1..n
  OBVIOUS
<1>2. rest \in Seq(X) /\ Len(rest) = n - d /\ \A k \in 1..(n - d) : rest[k] = s[d + k]
  OBVIOUS
<1>3. rest = <<>> <=> d = n
  <2>. HIDE DEF rest
  <2>1. rest = <<>> <=> Len(rest) = 0
    BY <1>2
  <2>2. Len(rest) = n - d
    BY <1>2
  <2>. HIDE DEF n
  <2>. QED BY <1>1, <2>1, <2>2
<1>4. ASSUME d < n PROVE Head(rest) = s[d + 1] /\ Tail(rest) = SubSeq(s, d + 2, n)
  <2>1. Head(rest) = s[d + 1]
    <3>. HIDE DEF rest
    <3>. QED BY <1>1, <1>2, <1>4
  <2>2. /\ Tail(rest) \in Seq(X) /\ Len(Tail(rest)) = n - d - 1
        /\ \A k \in 1..(n - d - 1) : Tail(rest)[k] = rest[k + 1]
    <3>. DEFINE m == Len(rest)
    <3>1. rest \in Seq(X) /\ rest # <<>>
      BY <1>2, <1>3, <1>4
    <3>. HIDE DEF rest
    <3>2. Tail(rest) \in Seq(X) /\ Len(Tail(rest)) = m - 1 /\ \A k \in 1..(m - 1) : Tail(rest)[k] = rest[k + 1]
      BY <3>1
    <3>. QED BY <1>1, <1>2, <3>2
  <2>3. /\ SubSeq(s, d + 2, n) \in Seq(X) /\ Len(SubSeq(s, d + 2, n)) = n - d - 1
        /\ \A k \in 1..(n - d - 1) : SubSeq(s, d + 2, n)[k] = s[d + 1 + k]
    <3>1. n \in Nat /\ d \in 0..n /\ d < n
      BY <1>1, <1>4
    <3>2. \A k \in (d + 2)..n : s[k] \in X
      BY <1>1
    <3>. DEFINE e == d + 2
                v == SubSeq(s, e, n)
    <3>3. e \in 1..(n + 1) /\ n - e + 1 = n - d - 1
      BY <3>1
    <3>. HIDE DEF e
    <3>4. v \in Seq(X) /\ Len(v) = n - e + 1
      <4>. HIDE DEF n
      <4>. QED BY <1>1, <3>1, <3>2, <3>3 DEF n
    <3>5. \A k \in 1..(n - e + 1) : v[k] = s[e + k - 1]
      BY <1>1, <3>3
    <3>6. \A k \in 1..(n - d - 1) : e + k - 1 = d + 1 + k
      BY <3>1 DEF e
    <3>. QED BY <3>3, <3>4, <3>5, <3>6 DEF e
  <2>4. \A k \in 1..(n - d - 1) : rest[k + 1] = s[d + 1 + k]
    <3>. HIDE DEF rest
    <3>1. ASSUME NEW k \in 1..(n - d - 1) PROVE rest[k + 1] = s[d + 1 + k]
      <4>1. k + 1 \in 1..(n - d) /\ d + (k + 1) = d + 1 + k
        BY <1>1
      <4>. QED BY <1>2, <4>1
    <3>. QED BY <3>1
  <2>. HIDE DEF rest
  <2>5. Tail(rest) = SubSeq(s, d + 2, n)
    <3>. DEFINE u == Tail(rest)
                v == SubSeq(s, d + 2, n)
    <3>1. u \in Seq(X) /\ v \in Seq(X) /\ Len(u) = Len(v) /\ \A k \in 1..Len(u) : u[k] = v[k]
      BY <2>2, <2>3, <2>4
    <3>. HIDE DEF u, v
    <3>2. u = v
      BY <3>1
    <3>. QED BY <3>2 DEF u, v
  <2>. QED BY <2>1, <2>5
<1>. HIDE DEF rest
<1>5. ASSUME d # n PROVE d < n /\ d + 1 \in 1..n
  <2>1. n \in Nat /\ d \in 0..n
    BY <1>1
  <2>. HIDE DEF n
  <2>. QED BY <1>5, <2>1
<1>6. rest # <<>> => d # n
  BY <1>3
<1>. QED BY <1>2, <1>3, <1>4, <1>5, <1>6 DEF rest

\* What is there was there before, or is new.
LEMMA ItemsStay ==
    ASSUME TableInv, CommandLine \/ Service
    PROVE  \A x \in used : (x \in issues' => x \in issues) /\ (x \in tasks' => x \in tasks)
<1>1. CASE CommandLine
  BY <1>1 DEF CommandLine, DryRun, WritePlan, Confirm, ConfirmTasks, SkipRow, LinkExisting, CreateLinear,
     Upsert, TombstoneLinear, RaiseRow, ConfirmEnds, CommandDies, stores, vars
<1>2. CASE Service
  BY <1>2 DEF Service, Next, Step, Receive, Check, FillList, FillNext, FillRaises, PollList, PollNext, JobEnds,
     CreateTask, MarkIssue, CreateIssue, Raise, LinkRow, SyncPair, UserCreatesIssue,
     UserCreatesTask, UserEditsIssue, UserDeletesIssue, UserDeletesTask, Crash, stores
<1>. QED BY <1>1, <1>2

LEMMA InitMade == InitReconcile => MadeInv
<1>. SUFFICES ASSUME InitReconcile PROVE MadeInv
  OBVIOUS
<1>1. plan = <<>> /\ file = <<>> /\ fresh = FALSE
  BY DEF InitReconcile
<1>2. PlanSound
  BY <1>1 DEF PlanSound, OncePlanned, RowsOver, Range
<1>3. Plans!read_plan_tsv(<<>>) = <<>>
  <2>1. Plans!Records(<<>>) = <<>>
    <3>1. <<>> \in Seq(Seq({})) /\ DOMAIN <<>> = {}
      OBVIOUS
    <3>. QED BY <3>1, LinesRead
  <2>. DEFINE back == Plans!read_plan_tsv(<<>>)
  <2>2. DOMAIN back = {} /\ back = [k \in DOMAIN back |-> back[k]]
    BY <2>1 DEF Plans!read_plan_tsv, Plans!Rows
  <2>. HIDE DEF back
  <2>3. back = [k \in 1..0 |-> back[k]]
    BY <2>2
  <2>4. back \in Seq({}) /\ Len(back) = 0
    BY <2>3
  <2>5. back = <<>>
    BY <2>4
  <2>. QED BY <2>5 DEF back
<1>. QED BY <1>1, <1>2, <1>3 DEF MadeInv, ReadBack, FreshRows, Confirming, First

\* A plan's row that is made stays made, if nobody takes its row away.
LEMMA MadeStays ==
    ASSUME TableInv, CommandLine \/ Service, PlanSound, NEW r \in Range(plan), cli'.issues = cli.issues,
           \A i \in IssueIds : <<i, r.ttid>> \in rows => <<i, r.ttid>> \in rows',
           Made(r)
    PROVE  Made(r)'
<1>1. r.action = "link" => r.ttid \in used /\ r.ident \in used /\ r.ident \in IssueIds
  BY DEF PlanSound, RowsOver
<1>2. r.action = "create_linear" => r.ttid \in used
  BY DEF PlanSound, RowsOver
<1>3. ASSUME r.action = "link", r.ttid \in tasks', r.ident \in issues' \cap Range(cli'.issues)
      PROVE  <<r.ident, r.ttid>> \in rows'
  <2>1. r.ttid \in tasks /\ r.ident \in issues \cap Range(cli.issues)
    BY <1>1, <1>3, ItemsStay
  <2>. QED BY <1>1, <1>3, <2>1 DEF Made
<1>4. ASSUME r.action = "create_linear", r.ttid \in tasks' PROVE \E i \in IssueIds : <<i, r.ttid>> \in rows'
  BY <1>2, <1>4, ItemsStay DEF Made
<1>. QED BY <1>3, <1>4 DEF Made

\* A step that leaves the plan and the table alone, and what the command has
\* still to do.
LEMMA Quiet ==
    ASSUME MatchInv, MadeInv, CommandLine \/ Service, UNCHANGED <<plan, file, fresh, rows>>,
           faults' = 0 => faults = 0,
           \/ cli'.pc \notin {"rows", "upsert", "applied"}
           \/ /\ cli.pc \in {"rows", "upsert", "applied"} /\ cli'.todo = cli.todo
              /\ cli'.issues = cli.issues /\ cli'.tasks_by_id = cli.tasks_by_id
              /\ cli'.pc = "applied" => cli.pc = "applied" \/ cli.todo = <<>>
              /\ First /\ cli'.pc = "upsert" => Upserting'
    PROVE  MadeInv'
<1>1. used \subseteq used' /\ TableInv /\ plan \in Seq(PlanRows) /\ Len(plan) \in Nat
  BY UsedGrows DEF MatchInv, PlanInv
<1>2. First' <=> First
  BY MisquotedStays DEF First
<1>3. PlanSound'
  BY <1>1 DEF MadeInv, PlanSound, RowsOver
<1>4. ReadBack'
  BY MisquotedStays DEF MadeInv, ReadBack
<1>5. FreshRows'
  BY <1>1, <1>2 DEF MadeInv, FreshRows, Has, NotPlanned
<1>6. ASSUME First, cli.pc \in {"rows", "upsert", "applied"}, cli'.todo = cli.todo, cli'.issues = cli.issues,
             cli'.pc = "applied" => cli.pc = "applied" \/ cli.todo = <<>>
      PROVE  /\ \A r \in Range(plan) : r.ttid \in tasks' => r.ttid \in cli.tasks_by_id
             /\ \E d \in 0..Len(plan) : Through(d)'
  <2>0. Confirming
    BY DEF MadeInv
  <2>1. \A r \in Range(plan) : r.ttid \in tasks' => r.ttid \in cli.tasks_by_id
    <3>1. \A r \in Range(plan) : r.ttid \in used \/ r.ttid = None
      BY DEF MadeInv, PlanSound, RowsOver
    <3>2. None \notin tasks'
      <4>1. TableInv'
        BY <1>1, TableKept
      <4>. QED BY <4>1, IdsAssumption DEF TableInv, TwinInv, TypeOK
    <3>. QED BY <1>1, <1>6, <2>0, <3>1, <3>2, ItemsStay DEF Confirming
  <2>2. PICK d \in 0..Len(plan) : Through(d)
    BY <1>6, <2>0 DEF Confirming
  <2>3. ASSUME faults' = 0, NEW k \in 1..d PROVE Made(plan[k])'
    <3>1. PICK r \in Range(plan) : r = plan[k]
      BY <1>1 DEF Range
    <3>2. Made(r)
      <4>1. Made(plan[k])
        BY <2>2, <2>3 DEF Through
      <4>. QED BY <3>1, <4>1
    <3>3. PlanSound /\ cli'.issues = cli.issues /\ rows' = rows
      BY <1>6 DEF MadeInv
    <3>4. Made(r)'
      BY <1>1, <3>2, <3>3, MadeStays
    <3>5. plan'[k] = r
      BY <3>1
    <3>. QED BY <3>4, <3>5
  <2>4. cli'.pc = "applied" => d = Len(plan)
    <3>1. cli.todo = SubSeq(plan, d + 1, Len(plan))
      BY <2>2 DEF Through
    <3>2. cli.todo = <<>> => d = Len(plan)
      BY <1>1, <3>1, RestOf
    <3>3. cli.pc = "applied" => d = Len(plan)
      BY <2>2 DEF Through, CliAt
    <3>. QED BY <1>6, <3>2, <3>3
  <2>5. Through(d)'
    BY <1>6, <2>2, <2>3, <2>4 DEF Through, CliAt
  <2>. QED BY <2>1, <2>5
<1>7. CASE cli'.pc \notin {"rows", "upsert", "applied"}
  BY <1>3, <1>4, <1>5, <1>7 DEF MadeInv, Confirming
<1>8. CASE /\ cli.pc \in {"rows", "upsert", "applied"} /\ cli'.todo = cli.todo
           /\ cli'.issues = cli.issues /\ cli'.tasks_by_id = cli.tasks_by_id
           /\ cli'.pc = "applied" => cli.pc = "applied" \/ cli.todo = <<>>
           /\ First /\ cli'.pc = "upsert" => Upserting'
  <2>1. Confirming'
    BY <1>2, <1>6, <1>8 DEF Confirming, CliAt
  <2>. QED BY <1>3, <1>4, <1>5, <2>1 DEF MadeInv
<1>. QED BY <1>7, <1>8

\* The same, if the command has not gone on.
LEMMA Waiting ==
    ASSUME MatchInv, MadeInv, CommandLine \/ Service, UNCHANGED <<plan, file, fresh, rows, cli>>,
           faults' = 0 => faults = 0
    PROVE  MadeInv'
<1>1. ASSUME First, cli'.pc = "upsert" PROVE Upserting'
  <2>1. Upserting /\ used \subseteq used'
    BY <1>1, UsedGrows DEF MatchInv, MadeInv, Confirming, CliAt
  <2>. QED BY <2>1 DEF Upserting, Row, NotPlanned, IssueLinked
<1>. QED BY <1>1, Quiet

\* The step is done with a row: the next one is up.
LEMMA RowOver ==
    ASSUME MatchInv, MadeInv, CommandLine, UNCHANGED <<plan, file, fresh>>, NextRow,
           cli.pc \in {"rows", "upsert"}, First => cli.todo # <<>>, faults' = 0 => faults = 0,
           NEW over, over = Row, First /\ faults' = 0 => Made(over)',
           First => \A r \in Range(plan) : r # over =>
                      \A i \in IssueIds : <<i, r.ttid>> \in rows => <<i, r.ttid>> \in rows',
           FreshRows'
    PROVE  MadeInv'
<1>1. used \subseteq used' /\ TableInv /\ plan \in Seq(PlanRows) /\ Len(plan) \in Nat /\ CliRecord(cli)
  BY UsedGrows DEF MatchInv, PlanInv, TableInv, CliKnowsTwins
<1>2. First' <=> First
  BY MisquotedStays DEF First
<1>3. PlanSound'
  BY <1>1 DEF MadeInv, PlanSound, RowsOver
<1>4. ReadBack'
  BY MisquotedStays DEF MadeInv, ReadBack
<1>5. /\ cli'.pc = "rows" /\ cli'.issues = cli.issues /\ cli'.tasks_by_id = cli.tasks_by_id
      /\ cli'.todo = Tail(cli.todo)
  <2>. DEFINE rest == Tail(cli.todo)
  <2>1. cli' = [cli EXCEPT !.pc = "rows", !.todo = rest, !.new = None]
    BY DEF NextRow
  <2>. HIDE DEF rest
  <2>. QED BY <1>1, <2>1 DEF CliRecord, rest
<1>6. ASSUME First
      PROVE  /\ \A r \in Range(plan) : r.ttid \in tasks' => r.ttid \in cli.tasks_by_id
             /\ \E d \in 0..Len(plan) : Through(d)'
  <2>0. Confirming /\ PlanSound
    BY DEF MadeInv
  <2>1. \A r \in Range(plan) : r.ttid \in tasks' => r.ttid \in cli.tasks_by_id
    <3>1. \A r \in Range(plan) : r.ttid \in used \/ r.ttid = None
      BY <2>0 DEF PlanSound, RowsOver
    <3>2. None \notin tasks'
      <4>1. TableInv'
        BY <1>1, TableKept
      <4>. QED BY <4>1, IdsAssumption DEF TableInv, TwinInv, TypeOK
    <3>. QED BY <1>1, <1>6, <2>0, <3>1, <3>2, ItemsStay DEF Confirming
  <2>2. PICK d \in 0..Len(plan) : Through(d)
    BY <1>6, <2>0 DEF Confirming
  <2>3. /\ d + 1 \in 1..Len(plan) /\ over = plan[d + 1]
        /\ cli'.todo = SubSeq(plan, d + 2, Len(plan))
    <3>1. cli.todo = SubSeq(plan, d + 1, Len(plan))
      BY <2>2 DEF Through
    <3>. QED BY <1>1, <1>5, <1>6, <3>1, RestOf DEF Row
  <2>4. Through(d + 1)'
    <3>1. ASSUME faults' = 0, NEW k \in 1..(d + 1) PROVE Made(plan[k])'
      <4>1. CASE k = d + 1
        <5>1. Made(over)'
          BY <1>6, <3>1
        <5>2. plan'[k] = over
          BY <2>3, <4>1
        <5>. QED BY <5>1, <5>2
      <4>2. CASE k # d + 1
        <5>1. k \in 1..d /\ k \in DOMAIN plan /\ d + 1 \in DOMAIN plan
          BY <1>1, <2>3, <4>2
        <5>2. PICK r \in Range(plan) : r = plan[k]
          BY <5>1 DEF Range
        <5>3. Made(r)
          <6>1. Made(plan[k])
            BY <2>2, <3>1, <5>1 DEF Through
          <6>. QED BY <5>2, <6>1
        <5>4. r # over
          <6>1. r.ttid # None \/ r.ident # None
            BY <2>0, IdsAssumption DEF PlanSound, RowsOver
          <6>. QED BY <2>0, <2>3, <4>2, <5>1, <5>2, <6>1 DEF PlanSound, OncePlanned
        <5>5. \A i \in IssueIds : <<i, r.ttid>> \in rows => <<i, r.ttid>> \in rows'
          BY <1>6, <5>4
        <5>6. Made(r)'
          BY <1>1, <1>5, <2>0, <5>3, <5>5, MadeStays
        <5>7. plan'[k] = r
          BY <5>2
        <5>. QED BY <5>6, <5>7
      <4>. QED BY <4>1, <4>2
    <3>2. (d + 1) + 1 = d + 2
      BY <1>1
    <3>. QED BY <1>5, <2>3, <3>1, <3>2 DEF Through, CliAt
  <2>. QED BY <1>5, <2>1, <2>3, <2>4
<1>7. Confirming'
  BY <1>2, <1>5, <1>6 DEF Confirming, CliAt
<1>. QED BY <1>3, <1>4, <1>7 DEF MadeInv

\* confirm starts with the plan as it was read back, of which nothing is done.
LEMMA ConfirmStarts ==
    ASSUME MatchInv, MadeInv, ConfirmTasks
    PROVE  MadeInv'
<1>1. TableInv /\ plan \in Seq(PlanRows) /\ Len(plan) \in Nat /\ CliRecord(cli)
  BY DEF MatchInv, PlanInv, TableInv, CliKnowsTwins
<1>2. UNCHANGED <<plan, file, fresh, rows, used, issues, tasks, faults>>
  BY DEF ConfirmTasks, vars
<1>3. /\ cli'.pc = "rows" /\ cli'.tasks_by_id = tasks /\ cli'.todo = Plans!read_plan_tsv(file)
  <2>. DEFINE rest == Plans!read_plan_tsv(file)
  <2>1. cli' = [cli EXCEPT !.pc = "rows", !.tasks_by_id = tasks, !.todo = rest]
    BY DEF ConfirmTasks
  <2>. HIDE DEF rest
  <2>. QED BY <1>1, <2>1 DEF CliRecord, rest
<1>4. First' <=> First
  BY <1>2, MisquotedStays DEF First
<1>5. PlanSound' /\ ReadBack' /\ FreshRows'
  BY <1>2, <1>4, MisquotedStays DEF MadeInv, PlanSound, RowsOver, ReadBack, FreshRows, Has, NotPlanned
<1>6. ASSUME First PROVE Through(0)'
  <2>1. cli'.todo = SubSeq(plan, 1, Len(plan))
    <3>1. cli'.todo = plan
      BY <1>3, <1>6 DEF MadeInv, ReadBack, First
    <3>. QED BY <1>1, <3>1
  <2>2. \A k \in 1..0 : FALSE
    OBVIOUS
  <2>. QED BY <1>2, <1>3, <2>1, <2>2 DEF Through, CliAt
<1>7. Confirming'
  <2>1. 0 \in 0..Len(plan)
    BY <1>1
  <2>. QED BY <1>2, <1>3, <1>4, <1>6, <2>1 DEF Confirming, CliAt
<1>. QED BY <1>5, <1>7 DEF MadeInv

\* A new plan is sound, and if no title begins with a quote its file says it.
LEMMA PlanStarts ==
    ASSUME MatchInv, MadeInv, WritePlan
    PROVE  MadeInv'
<1>. DEFINE ts == list_tasks
            is == cli.issues
            new == Plans!build_match_plan(name, ts, is, cli.labels)
<1>1. ListsInv /\ PlanInv /\ TableInv /\ CliRecord(cli)
  BY DEF MatchInv, TableInv, CliKnowsTwins
<1>2. /\ ts \in Seq(TaskIds) /\ IsInjective(ts) /\ is \in Seq(IssueIds) /\ IsInjective(is)
      /\ Range(ts) \subseteq used /\ Range(is) \subseteq used
  BY <1>1, ListedOnce DEF ListsInv, Once
<1>3. /\ new \in Seq(PlanRows) /\ OncePlanned(new) /\ RowsOver(new, Range(ts), Range(is))
  <2>. HIDE DEF ts, is
  <2>. QED BY <1>1, <1>2, PlanIs DEF PlanInv
<1>4. /\ plan' = new /\ file' = Plans!write_plan_tsv(name, new) /\ fresh' = (rows = {})
      /\ cli' = [cli EXCEPT !.pc = "planned", !.tasks = ts] /\ used' = used /\ rows' = rows
  BY DEF WritePlan, vars
<1>. HIDE DEF new
<1>5. PlanSound'
  <2>1. Range(ts) \subseteq TaskIds \cap used /\ Range(is) \subseteq IssueIds \cap used
    BY <1>2 DEF Range
  <2>2. RowsOver(new, TaskIds \cap used, IssueIds \cap used)
    BY <1>3, <2>1 DEF RowsOver
  <2>. QED BY <1>3, <1>4, <2>2 DEF PlanSound
<1>6. ReadBack'
  BY FileReadBack
<1>7. FreshRows'
  BY <1>4 DEF FreshRows, First
<1>8. cli'.pc = "planned"
  <2>. HIDE DEF ts
  <2>. QED BY <1>1, <1>4 DEF CliRecord
<1>. QED BY <1>5, <1>6, <1>7, <1>8 DEF MadeInv, Confirming

LEMMA FaultIsLate == ASSUME MatchInv, Fault PROVE faults' # 0
BY BoundsAssumption DEF MatchInv, TableInv, TwinInv, TypeOK, Fault

LEMMA CommandWaits ==
    ASSUME MatchInv, MadeInv, DryRun \/ Confirm \/ CommandDies \/ ConfirmEnds
    PROVE  MadeInv'
<1>1. CliRecord(cli) /\ CommandLine /\ UNCHANGED <<plan, file, fresh, rows>> /\ (UNCHANGED faults \/ Fault)
  BY DEF MatchInv, TableInv, CliKnowsTwins, CommandLine, DryRun, Confirm, CommandDies, ConfirmEnds, vars
<1>2. faults' = 0 => faults = 0
  BY <1>1, FaultIsLate
<1>3. ASSUME NEW pc \in {"tasks", "confirm"}, Command(pc) PROVE cli'.pc \notin {"rows", "upsert", "applied"}
  <2>. DEFINE found == list_team_issues
  <2>1. cli' = [CliIdle EXCEPT !.pc = pc, !.issues = found, !.labels = labelled]
    BY <1>3 DEF Command
  <2>. HIDE DEF found
  <2>. QED BY <2>1 DEF CliIdle
<1>4. CASE CommandDies
  <2>1. cli'.pc = "idle"
    BY <1>4 DEF CommandDies, CliIdle
  <2>. QED BY <1>1, <1>2, <2>1, Quiet
<1>5. CASE ConfirmEnds
  <2>1. cli' = [cli EXCEPT !.pc = "applied"] /\ cli.pc = "rows" /\ cli.todo = <<>>
    BY <1>5 DEF ConfirmEnds, CliAt
  <2>2. /\ cli'.pc = "applied" /\ cli'.todo = cli.todo /\ cli'.issues = cli.issues
        /\ cli'.tasks_by_id = cli.tasks_by_id
    BY <1>1, <2>1 DEF CliRecord
  <2>. QED BY <1>1, <1>2, <2>1, <2>2, Quiet
<1>6. CASE DryRun \/ Confirm
  <2>1. cli'.pc \notin {"rows", "upsert", "applied"}
    BY <1>3, <1>6 DEF DryRun, Confirm
  <2>. QED BY <1>1, <1>2, <2>1, Quiet
<1>. QED BY <1>4, <1>5, <1>6

\* The plan's row that is up.
LEMMA RowIsPlanned ==
    ASSUME MatchInv, MadeInv, First, cli.pc \in {"rows", "upsert"}, cli.todo # <<>>
    PROVE  Row \in Range(plan)
<1>1. plan \in Seq(PlanRows) /\ DOMAIN plan = 1..Len(plan)
  BY DEF MatchInv, PlanInv
<1>2. PICK d \in 0..Len(plan) : Through(d)
  BY DEF MadeInv, Confirming
<1>3. cli.todo = SubSeq(plan, d + 1, Len(plan))
  BY <1>2 DEF Through
<1>4. d + 1 \in 1..Len(plan) /\ Row = plan[d + 1]
  BY <1>1, <1>3, RestOf DEF Row
<1>. QED BY <1>1, <1>4 DEF Range

\* What confirm is about to store is planned, or new.
LEMMA AboutToStore ==
    ASSUME MatchInv, MadeInv, LinkExisting \/ CreateLinear
    PROVE  MadeInv'
<1>1. /\ CliRecord(cli) /\ CommandLine /\ UNCHANGED <<plan, file, fresh, rows>>
      /\ cli.pc = "rows" /\ cli.todo # <<>>
  BY DEF MatchInv, TableInv, CliKnowsTwins, CommandLine, LinkExisting, CreateLinear, Does, CliAt
<1>2. issues \subseteq used /\ used \subseteq used'
  BY <1>1, UsedGrows DEF MatchInv, TableInv, TwinInv, TypeOK
<1>3. ASSUME NEW i, cli' = [cli EXCEPT !.pc = "upsert", !.new = i], UNCHANGED faults, i \in used',
             First => \/ Row.action = "link" /\ i = Row.ident
                      \/ Row.action = "create_linear" /\ NotPlanned(i) /\ ~IssueLinked(i)
      PROVE  MadeInv'
  <2>1. /\ cli'.pc = "upsert" /\ cli'.todo = cli.todo /\ cli'.issues = cli.issues
        /\ cli'.tasks_by_id = cli.tasks_by_id /\ cli'.new = i
    BY <1>1, <1>3 DEF CliRecord
  <2>2. First => Upserting'
    <3>1. Row' = Row
      BY <2>1 DEF Row
    <3>. QED BY <1>1, <1>3, <2>1, <3>1 DEF Upserting, NotPlanned, IssueLinked
  <2>. QED BY <1>1, <1>3, <2>1, <2>2, Quiet
<1>4. CASE LinkExisting
  <2>. DEFINE i == Row.ident
  <2>1. cli' = [cli EXCEPT !.pc = "upsert", !.new = i] /\ UNCHANGED faults /\ i \in issues /\ Row.action = "link"
    BY <1>4 DEF LinkExisting, Does
  <2>. HIDE DEF i
  <2>2. i = Row.ident
    BY DEF i
  <2>. QED BY <1>2, <1>3, <2>1, <2>2
<1>5. CASE CreateLinear
  <2>1. PICK i \in IssueIds \ used :
          /\ used' = used \cup {i}
          /\ \/ cli' = [cli EXCEPT !.pc = "upsert", !.new = i] /\ UNCHANGED faults
             \/ Fault /\ UNCHANGED cli
    BY <1>5 DEF CreateLinear
  <2>2. Row.action = "create_linear"
    BY <1>5 DEF CreateLinear, Does
  <2>3. ASSUME First PROVE NotPlanned(i) /\ ~IssueLinked(i)
    <3>1. NotPlanned(i)
      BY <2>1, IdsAssumption DEF MadeInv, PlanSound, RowsOver, NotPlanned
    <3>2. ~IssueLinked(i)
      BY <2>1, <2>3 DEF MadeInv, FreshRows, IssueLinked
    <3>. QED BY <3>1, <3>2
  <2>4. CASE cli' = [cli EXCEPT !.pc = "upsert", !.new = i] /\ UNCHANGED faults
    BY <1>3, <2>1, <2>2, <2>3, <2>4
  <2>5. CASE Fault /\ UNCHANGED cli
    <3>1. faults' # 0
      BY <2>5, FaultIsLate
    <3>. QED BY <1>1, <2>5, <3>1, Waiting
  <2>. QED BY <2>1, <2>4, <2>5
<1>. QED BY <1>4, <1>5

\* A row of the plan is passed over, or canceled, or has raised.
LEMMA PassedOver ==
    ASSUME MatchInv, MadeInv, SkipRow \/ TombstoneLinear \/ RaiseRow,
           First /\ CliAt("upsert") => Unique(upsert_link(cli.new, Row.ttid))
    PROVE  MadeInv'
<1>. DEFINE over == Row
<1>1. /\ CliRecord(cli) /\ CommandLine /\ UNCHANGED <<plan, file, fresh, rows, used, issues, tasks>> /\ NextRow
      /\ (UNCHANGED faults \/ Fault)
  BY DEF MatchInv, TableInv, CliKnowsTwins, CommandLine, SkipRow, TombstoneLinear, RaiseRow, vars, stores
<1>2. faults' = 0 => faults = 0
  BY <1>1, FaultIsLate
<1>3. cli.pc \in {"rows", "upsert"} /\ (First => cli.todo # <<>>)
  <2>1. CASE CliAt("upsert")
    <3>1. First => Upserting
      BY <2>1 DEF MadeInv, Confirming, CliAt
    <3>. QED BY <2>1, <3>1 DEF CliAt, Upserting
  <2>2. CASE ~CliAt("upsert")
    BY <2>2 DEF SkipRow, TombstoneLinear, RaiseRow, Does, CliAt
  <2>. QED BY <2>1, <2>2
<1>4. FreshRows'
  BY <1>1, MisquotedStays DEF MadeInv, FreshRows, Has, NotPlanned, First
<1>5. cli'.issues = cli.issues
  <2>. DEFINE rest == Tail(cli.todo)
  <2>1. cli' = [cli EXCEPT !.pc = "rows", !.todo = rest, !.new = None]
    BY <1>1 DEF NextRow
  <2>. HIDE DEF rest
  <2>. QED BY <1>1, <2>1 DEF CliRecord
<1>. HIDE DEF over
<1>6. ASSUME First, faults' = 0, NEW r, r = Row PROVE Made(r)'
  <2>1. r \in Range(plan)
    BY <1>3, <1>6, RowIsPlanned
  <2>2. r.ttid \in tasks => r.ttid \in cli.tasks_by_id
    BY <1>3, <1>6, <2>1 DEF MadeInv, Confirming
  <2>3. CASE SkipRow
    <3>1. ~Does("link") /\ ~Does("create_linear") /\ CliAt("rows") /\ cli.todo # <<>>
      BY <2>3 DEF SkipRow
    <3>. QED BY <1>1, <1>5, <1>6, <2>2, <3>1 DEF Does, Made
  <2>4. CASE TombstoneLinear
    BY <1>6, <2>4 DEF TombstoneLinear, Does, Made
  <2>5. CASE RaiseRow
    <3>1. ~Fault
      BY <1>6, FaultIsLate
    <3>2. (Does("link") \/ Does("tombstone_linear")) /\ Row.ident \notin issues
      BY <1>6, <2>5, <3>1 DEF RaiseRow
    <3>. QED BY <1>1, <1>6, <3>2 DEF Does, Made
  <2>. QED BY <2>3, <2>4, <2>5
<1>7. over = Row
  BY DEF over
<1>8. PICK r : r = Row
  OBVIOUS
<1>. QED BY <1>1, <1>2, <1>3, <1>4, <1>6, <1>8, RowOver

\* Two rows of a plan share nothing.
LEMMA OneRowEach ==
    ASSUME PlanSound, NEW r \in Range(plan), NEW s \in Range(plan),
           (r.ttid = s.ttid /\ r.ttid # None) \/ (r.ident = s.ident /\ r.ident # None)
    PROVE  r = s
BY DEF PlanSound, OncePlanned, Range

\* The row to be stored fits into the table: nobody else has its issue or its
\* task, though upsert_link may find the row itself.
LEMMA RowFits ==
    ASSUME MatchInv, MadeInv, First, CliAt("upsert")
    PROVE  LET t == Row.ttid
               new == cli.new
           IN  /\ Upserting /\ Row \in Range(plan) /\ t \in TaskIds
               /\ \A r \in rows : r[1] = new => r = <<new, t>>
               /\ Unique(upsert_link(new, t))
               /\ \A r \in Range(plan) : r # Row =>
                    \A i \in IssueIds : <<i, r.ttid>> \in rows => <<i, r.ttid>> \in upsert_link(new, t)
<1>. DEFINE t == Row.ttid
            new == cli.new
<1>1. Upserting /\ PlanSound
  BY DEF MadeInv, Confirming, CliAt
<1>2. Row \in Range(plan)
  BY <1>1, RowIsPlanned DEF Upserting, CliAt
<1>3. t \in TaskIds
  BY <1>1, <1>2 DEF Upserting, PlanSound, RowsOver
<1>4. rows \subseteq IssueIds \X TaskIds /\ Unique(rows)
  BY DEF MatchInv, TableInv, TwinInv, TypeOK
<1>5. ASSUME NEW r \in rows, r[1] = new PROVE r = <<new, t>>
  <2>1. Row.action = "link" /\ new = Row.ident
    BY <1>1, <1>5 DEF Upserting, IssueLinked
  <2>2. PICK s \in Range(plan) : s.ttid = r[2] /\ s.ident = new
    BY <1>2, <1>5, <2>1 DEF MadeInv, FreshRows, NotPlanned, Has
  <2>3. new # None
    BY <1>4, <1>5, IdsAssumption
  <2>4. s = Row
    BY <1>1, <1>2, <2>1, <2>2, <2>3, OneRowEach
  <2>5. r[2] = t
    BY <2>2, <2>4
  <2>. QED BY <1>4, <1>5, <2>5
<1>6. Unique(upsert_link(new, t))
  <2>1. CASE IssueLinked(new)
    <3>1. <<new, t>> \in rows
      BY <1>5, <2>1 DEF IssueLinked
    <3>2. upsert_link(new, t) = rows
      BY <1>5, <2>1, <3>1 DEF upsert_link, Found
    <3>. QED BY <1>4, <3>2
  <2>2. CASE ~IssueLinked(new)
    BY <1>4, <2>2, UpsertUnlinked
  <2>. QED BY <2>1, <2>2
<1>7. ASSUME NEW r \in Range(plan), r # Row, NEW i \in IssueIds, <<i, r.ttid>> \in rows
      PROVE  <<i, r.ttid>> \in upsert_link(new, t)
  <2>1. r.ttid # t
    BY <1>1, <1>2, <1>3, <1>7, OneRowEach, IdsAssumption
  <2>2. i # new
    BY <1>5, <1>7, <2>1
  <2>. QED BY <1>7, <2>1, <2>2 DEF upsert_link, Found
<1>. QED BY <1>1, <1>2, <1>3, <1>5, <1>6, <1>7

LEMMA RowStored ==
    ASSUME MatchInv, MadeInv, Upsert
    PROVE  MadeInv'
<1>1. /\ CliRecord(cli) /\ CommandLine /\ UNCHANGED <<plan, file, fresh, used, issues, tasks, faults>> /\ NextRow
      /\ CliAt("upsert") /\ cli.pc = "upsert" /\ rows' = upsert_link(cli.new, Row.ttid)
  BY DEF MatchInv, TableInv, CliKnowsTwins, CommandLine, Upsert, stores, CliAt
<1>2. First' <=> First
  BY <1>1, MisquotedStays DEF First
<1>3. First => cli.todo # <<>>
  BY <1>1, RowFits DEF Upserting
<1>4. ASSUME First PROVE <<cli.new, Row.ttid>> \in rows' /\ cli.new \in IssueIds
  <2>1. cli.new \in used /\ cli.new \in IssueIds \cup {None}
    BY <1>1, <1>4, RowFits DEF Upserting, MatchInv, ListsInv
  <2>2. None \notin used
    BY IdsAssumption DEF MatchInv, TableInv, TwinInv, TypeOK
  <2>. QED BY <1>1, <2>1, <2>2 DEF upsert_link
<1>5. FreshRows'
  <2>1. ASSUME First, NEW r \in rows'
        PROVE  /\ r[1] \in used
               /\ \/ Has(r[2], r[1], "link")
                  \/ Has(r[2], None, "create_linear") /\ NotPlanned(r[1])
    <3>1. CASE r \in rows
      BY <2>1, <3>1 DEF MadeInv, FreshRows
    <3>2. CASE r = <<cli.new, Row.ttid>>
      <4>1. Upserting /\ Row \in Range(plan) /\ PlanSound
        BY <1>1, <2>1, RowFits DEF MadeInv
      <4>2. Row.action = "create_linear" => Row.ident = None
        BY <4>1 DEF PlanSound, RowsOver
      <4>. QED BY <3>2, <4>1, <4>2 DEF Upserting, Has
    <3>. QED BY <1>1, <2>1, <3>1, <3>2 DEF upsert_link
  <2>. QED BY <1>1, <1>2, <2>1 DEF FreshRows, Has, NotPlanned
<1>6. ASSUME First, NEW r, r = Row PROVE Made(r)'
  <2>1. Upserting
    BY <1>1, <1>6, RowFits
  <2>. QED BY <1>4, <1>6, <2>1 DEF Made, Upserting
<1>7. ASSUME First, NEW s, s = Row, NEW r \in Range(plan), r # s, NEW i \in IssueIds, <<i, r.ttid>> \in rows
      PROVE  <<i, r.ttid>> \in rows'
  BY <1>1, <1>7, RowFits
<1>8. PICK r : r = Row
  OBVIOUS
<1>. QED BY <1>1, <1>3, <1>5, <1>6, <1>7, <1>8, RowOver

\* Without the service only users, and the crash of nothing, come in between.
LEMMA UsersWait ==
    ASSUME Procs = {}, MatchInv, MadeInv, Service
    PROVE  MadeInv'
<1>1. UNCHANGED <<plan, file, fresh, cli>> /\ Next
  BY DEF Service
<1>2. Hooks = {} /\ Pollers = {} /\ Fillers = {}
  BY DEF Procs
<1>3. rows' = rows /\ (UNCHANGED faults \/ Fault)
  BY <1>1, <1>2 DEF Procs, Next, UserCreatesIssue, UserCreatesTask, UserEditsIssue, UserDeletesIssue,
     UserDeletesTask, Crash, stores
<1>. QED BY <1>1, <1>3, FaultIsLate, Waiting

LEMMA MadeKept ==
    ASSUME Procs = {}
    PROVE  MatchInv /\ MadeInv /\ [CommandLine \/ Service]_allvars => MadeInv'
<1>1. ASSUME MatchInv, MadeInv, CommandLine PROVE MadeInv'
  <2>1. First /\ CliAt("upsert") => Unique(upsert_link(cli.new, Row.ttid))
    BY <1>1, RowFits
  <2>. QED BY <1>1, <2>1, CommandWaits, PlanStarts, ConfirmStarts, AboutToStore, PassedOver, RowStored
       DEF CommandLine
<1>2. ASSUME MatchInv, MadeInv, Service PROVE MadeInv'
  BY <1>2, UsersWait
<1>3. ASSUME MadeInv, UNCHANGED allvars PROVE MadeInv'
  BY <1>3 DEF allvars, vars, matching, MadeInv, PlanSound, RowsOver, ReadBack, FreshRows, Confirming,
     First, Misquoted, Has, NotPlanned, Through, Made, Upserting, CliAt, Row, IssueLinked
<1>. QED BY <1>1, <1>2, <1>3

\* While the service is stopped, a first confirm makes every link and every
\* issue of its plan, however the tables, the lists and the users' edits are.
THEOREM FirstMatchMade == ASSUME Procs = {} PROVE SpecReconcile => []FirstMatchIsMade
<1>1. SpecReconcile => [](MatchInv /\ MadeInv)
  BY InitMatch, InitMade, MatchKept, MadeKept, PTL DEF SpecReconcile
<1>. QED BY <1>1, MadeImplies, PTL

\* While the service is stopped, no issue that a first match cancels has a row.
THEOREM CanceledAreOrphans == ASSUME Procs = {} PROVE SpecReconcile => []CanceledIsOrphan
<1>1. SpecReconcile => [](MatchInv /\ MadeInv)
  BY InitMatch, InitMade, MatchKept, MadeKept, PTL DEF SpecReconcile
<1>. QED BY <1>1, MadeImplies, PTL
=============================================================================
