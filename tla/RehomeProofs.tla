---------------------------- MODULE RehomeProofs ----------------------------
(***************************************************************************)
(* Invariants of Rehome, for any number of pairs, issues, tasks and links,   *)
(* polls that overlap or take turns, and any bounds.                         *)
(***************************************************************************)
EXTENDS Rehome, TLAPS

Asking   == {"upsert", "probe", "get", "hidden", "gone", "miss", "cancel", "tombstone"}
Moving   == {"move", "check", "copy", "recomplete", "delete", "relocate"}
Deleting == {"recomplete", "delete"}
Copied   == {"recomplete", "delete", "relocate"}

\* What a poll holds at each place; every task it knows of has been created.
Sound(l, o) ==
    /\ l \in Locals
    /\ l.pc \in {"create"} \cup Asking \cup Moving => l.tsk \in TaskIds
    /\ l.pc \in Asking \cup Moving => l.iss \in IssueIds
    /\ l.pc \in Moving => l.to \in Pairs
    /\ l.pc \in Copied => l.new \in TaskIds
    /\ l.tsk # None => o[l.tsk] # None
    /\ l.new # None => o[l.new] # None
    /\ \A t \in l.todo : o[t] # None
    /\ \A k \in l.links : o[k[2]] # None

LocalsSound == loc \in [Pairs -> Locals] /\ \A p \in Pairs : Sound(loc[p], origin)

RowsSound == rows \subseteq Rows /\ \A r \in rows : origin[r.ttid] # None

StoresOK ==
    /\ team \in [IssueIds -> Pairs \cup {Elsewhere, None}]
    /\ list \in [TaskIds -> Pairs \cup {None}]
    /\ status \in [TaskIds -> Statuses]
    /\ origin \in [TaskIds -> TaskIds \cup {None}]
    /\ \A t \in TaskIds : list[t] # None => origin[t] # None

CountsOK == /\ marked \subseteq IssueIds /\ turn \in DOMAIN ctxs
            /\ userops \in [UserOps -> Nat] /\ faults \in 0..MaxFaults

TypeInv == StoresOK /\ RowsSound /\ LocalsSound /\ CountsOK

LEMMA TypeInvIsType == TypeInv => TypeOK
BY DEF TypeInv, TypeOK, StoresOK, RowsSound, LocalsSound, CountsOK

\* Ids once given out stay so.
Grows == \A t \in TaskIds : origin[t] # None => origin'[t] # None

LEMMA OnePollMoves ==
    ASSUME TypeInv, Grows, NEW p \in Pairs, NEW l, Sound(l, origin'),
           loc' = [loc EXCEPT ![p] = l]
    PROVE  LocalsSound'
<1>1. \A q \in Pairs : loc'[q] = IF q = p THEN l ELSE loc[q]
  BY DEF TypeInv, LocalsSound
<1>2. loc' \in [Pairs -> Locals]
  BY DEF TypeInv, LocalsSound, Sound
<1>3. ASSUME NEW q \in Pairs, q # p PROVE Sound(loc[q], origin')
  <2>1. Sound(loc[q], origin)
    BY DEF TypeInv, LocalsSound
  <2>2. loc[q] \in Locals
    BY <2>1 DEF Sound
  <2>3. /\ loc[q].tsk \in TaskIds \cup {None} /\ loc[q].new \in TaskIds \cup {None}
        /\ loc[q].todo \subseteq TaskIds
        /\ \A k \in loc[q].links : k[2] \in TaskIds
    BY <2>2 DEF Locals
  <2>. QED BY <2>1, <2>3 DEF Sound, Grows
<1>. QED BY <1>1, <1>2, <1>3 DEF LocalsSound

LEMMA NextInTurn == ASSUME NEW k \in DOMAIN ctxs PROVE Following(k) \in DOMAIN ctxs
<1>1. ctxs \in Seq(Pairs) /\ DOMAIN ctxs = 1..Len(ctxs) /\ Len(ctxs) \in Nat
  BY IdsAssumption
<1>. QED BY <1>1 DEF Following

LEMMA IdleIsSound == \A o : Sound(Idle, o)
BY IdsAssumption DEF Sound, Idle, Locals, PCs, Asking, Moving, Copied, Statuses

LEMMA NextIsSound ==
    ASSUME TypeInv, NEW p \in Pairs
    PROVE  Sound(NextItem(p), origin)
<1>1. Sound(loc[p], origin) /\ loc[p] \in Locals
  BY DEF TypeInv, LocalsSound
<1>. DEFINE l == NextItem(p)
<1>2. /\ l \in Locals /\ l.pc \in {"tasks", "links"} /\ l.tsk = None /\ l.new = None
      /\ l.todo = loc[p].todo /\ l.links = loc[p].links
  BY <1>1 DEF NextItem, Locals, PCs, Statuses
<1>. QED BY <1>1, <1>2 DEF Sound, Asking, Moving, Copied

LEMMA GotoIsSound ==
    ASSUME TypeInv, NEW p \in Pairs, NEW pc \in PCs, Goto(p, pc),
           \/ pc \in {"create"} \cup Asking /\ loc[p].pc \in Asking
           \/ pc \in Asking \cup (Moving \ Copied) /\ loc[p].pc \in Moving
           \/ pc \in Copied /\ loc[p].pc \in Copied
    PROVE  \E l : loc' = [loc EXCEPT ![p] = l] /\ Sound(l, origin) /\ l.pc = pc /\ l.tsk = loc[p].tsk
<1>1. Sound(loc[p], origin) /\ loc[p] \in Locals
  BY DEF TypeInv, LocalsSound
<1>. DEFINE l == [loc[p] EXCEPT !.pc = pc]
<1>2. /\ l \in Locals /\ l.pc = pc /\ l.tsk = loc[p].tsk /\ l.iss = loc[p].iss
      /\ l.new = loc[p].new /\ l.to = loc[p].to /\ l.todo = loc[p].todo /\ l.links = loc[p].links
  BY <1>1 DEF Locals
<1>3. Sound(l, origin)
  BY <1>1, <1>2 DEF Sound, Asking, Moving, Copied
<1>. QED BY <1>2, <1>3 DEF Goto

LEMMA RowsOfAreRows ==
    ASSUME TypeInv
    PROVE  /\ \A t : RowOfTask(t) \subseteq rows /\ \A i : RowOfIssue(i) \subseteq rows
           /\ \A r \in rows : /\ r \in Rows /\ r.ttid \in TaskIds /\ r.linear \in IssueIds
                              /\ origin[r.ttid] # None
BY DEF TypeInv, RowsSound, RowOfTask, RowOfIssue, Rows

LEMMA FaultIsCounted == ASSUME TypeInv, UNCHANGED faults \/ Fault PROVE faults' \in 0..MaxFaults
BY BoundsAssumption DEF TypeInv, CountsOK, Fault

LEMMA MissResetSound == ASSUME TypeInv, NEW t, rows' = ResetMiss(t), origin' = origin PROVE RowsSound'
<1>1. \A r \in Rows : [r EXCEPT !.miss = 0] \in Rows /\ [r EXCEPT !.miss = 0].ttid = r.ttid
  BY DEF Rows, TT_MISS_THRESHOLD
<1>2. \A x \in rows' : x \in rows \/ \E r \in rows : x = [r EXCEPT !.miss = 0]
  BY RowsOfAreRows DEF ResetMiss
<1>3. ASSUME NEW x \in rows' PROVE x \in Rows /\ origin[x.ttid] # None
  <2>1. CASE x \in rows
    BY <2>1, RowsOfAreRows
  <2>2. ASSUME NEW r \in rows, x = [r EXCEPT !.miss = 0] PROVE x \in Rows /\ origin[x.ttid] # None
    BY <1>1, <2>2, RowsOfAreRows
  <2>. QED BY <1>2, <2>1, <2>2
<1>. QED BY <1>3 DEF RowsSound

LEMMA TombstonedSound == ASSUME TypeInv, NEW t, rows' = Tombstoned(t), origin' = origin PROVE RowsSound'
<1>1. \A r \in Rows : [r EXCEPT !.tombstoned = TRUE] \in Rows
                      /\ [r EXCEPT !.tombstoned = TRUE].ttid = r.ttid
  BY DEF Rows
<1>2. \A x \in rows' : x \in rows \/ \E r \in rows : x = [r EXCEPT !.tombstoned = TRUE]
  BY RowsOfAreRows DEF Tombstoned
<1>3. ASSUME NEW x \in rows' PROVE x \in Rows /\ origin[x.ttid] # None
  <2>1. CASE x \in rows
    BY <2>1, RowsOfAreRows
  <2>2. ASSUME NEW r \in rows, x = [r EXCEPT !.tombstoned = TRUE] PROVE x \in Rows /\ origin[x.ttid] # None
    BY <1>1, <2>2, RowsOfAreRows
  <2>. QED BY <1>2, <2>1, <2>2
<1>. QED BY <1>3 DEF RowsSound

----------------------------------------------------------------------------
(* Where nothing is created, moved or deleted the polls only read, and       *)
(* rewrite rows.                                                             *)

\* Nothing is created or deleted, and no poll sets about deleting anything.
Harmless ==
    /\ origin' = origin
    /\ \A t \in TaskIds : list[t] # None => list'[t] # None
    /\ \A q \in Pairs : loc'[q].pc \in Deleting =>
                          loc[q].pc \in Deleting /\ loc'[q].tsk = loc[q].tsk

MovesOn(p) == \E l : loc' = [loc EXCEPT ![p] = l] /\ Sound(l, origin) /\ l.pc \notin Deleting

LEMMA HarmlessMove ==
    ASSUME TypeInv, NEW p \in Pairs, NEW l, loc' = [loc EXCEPT ![p] = l], l.pc \notin Deleting,
           origin' = origin, \A t \in TaskIds : list[t] # None => list'[t] # None
    PROVE  Harmless
BY DEF TypeInv, LocalsSound, Harmless

LEMMA ReadSteps ==
    ASSUME TypeInv, NEW p \in Pairs,
           \/ PollList(p) \/ PollBulk(p) \/ PollLinks(p) \/ PollEnds(p) \/ Probe(p) \/ Hidden(p)
           \/ GoneUnasked(p) \/ Raise(p) \/ \E t \in TaskIds : PollTask(p, t)
    PROVE  TypeInv' /\ Harmless
<1>. USE DEF stores
<1>0. Sound(loc[p], origin) /\ loc[p] \in Locals /\ StoresOK /\ RowsSound
  BY DEF TypeInv, LocalsSound
<1>1. UNCHANGED <<team, list, status, origin, rows, marked, userops>>
  BY DEF PollList, PollBulk, PollLinks, PollEnds, Probe, Hidden, GoneUnasked, Raise, PollTask
<1>2. turn' \in DOMAIN ctxs
  <2>1. CASE PollList(p)
    BY <2>1, NextInTurn DEF TypeInv, CountsOK, PollList
  <2>2. CASE ~PollList(p)
    <3>1. turn' = turn
      BY <2>2 DEF PollBulk, PollLinks, PollEnds, Probe, Hidden, GoneUnasked, Raise, PollTask
    <3>. QED BY <3>1 DEF TypeInv, CountsOK
  <2>. QED BY <2>1, <2>2
<1>3. faults' \in 0..MaxFaults
  <2>1. UNCHANGED faults \/ Fault
    BY DEF PollList, PollBulk, PollLinks, PollEnds, Probe, Hidden, GoneUnasked, Raise, PollTask
  <2>. QED BY <2>1, FaultIsCounted
<1>4. Grows
  BY <1>1 DEF Grows
<1>. USE DEF MovesOn
<1>5. MovesOn(p)
  <2>1. ASSUME PollList(p) PROVE MovesOn(p)
    <3>. DEFINE open == {t \in Live : list[t] = p /\ status[t] = TT_OPEN}
                l == [loc[p] EXCEPT !.pc = "bulk", !.seen = open, !.todo = open]
    <3>1. loc' = [loc EXCEPT ![p] = l]
      BY <2>1 DEF PollList, TypeInv, LocalsSound
    <3>2. open \subseteq TaskIds /\ \A t \in open : origin[t] # None
      BY <1>0 DEF Live, StoresOK
    <3>. HIDE DEF open
    <3>3. /\ l \in Locals /\ l.pc = "bulk" /\ l.todo = open /\ l.links = loc[p].links
          /\ l.tsk = loc[p].tsk /\ l.new = loc[p].new
      BY <1>0, <3>2 DEF Locals, PCs
    <3>4. Sound(l, origin)
      BY <1>0, <3>2, <3>3 DEF Sound, Asking, Moving, Copied
    <3>. QED BY <3>1, <3>3, <3>4 DEF Deleting
  <2>2. ASSUME PollBulk(p) PROVE MovesOn(p)
    <3>. DEFINE b == {i \in IssueIds : team[i] = p}
                l == [loc[p] EXCEPT !.pc = "tasks", !.bulk = b]
    <3>1. loc' = [loc EXCEPT ![p] = l]
      BY <2>2 DEF PollBulk, TypeInv, LocalsSound
    <3>2. b \subseteq IssueIds
      OBVIOUS
    <3>. HIDE DEF b
    <3>3. /\ l \in Locals /\ l.pc = "tasks" /\ l.todo = loc[p].todo /\ l.links = loc[p].links
          /\ l.tsk = loc[p].tsk /\ l.new = loc[p].new
      BY <1>0, <3>2 DEF Locals, PCs
    <3>4. Sound(l, origin)
      BY <1>0, <3>3 DEF Sound, Asking, Moving, Copied
    <3>. QED BY <3>1, <3>3, <3>4 DEF Deleting
  <2>3. ASSUME PollLinks(p) PROVE MovesOn(p)
    <3>. DEFINE k == {<<r.linear, r.ttid>> : r \in {s \in rows : s.list = p /\ ~s.tombstoned}}
                l == [loc[p] EXCEPT !.pc = "links", !.listed = FALSE, !.links = k]
    <3>1. loc' = [loc EXCEPT ![p] = l]
      BY <2>3 DEF PollLinks, TypeInv, LocalsSound
    <3>2. k \subseteq IssueIds \X TaskIds /\ \A e \in k : origin[e[2]] # None
      BY RowsOfAreRows
    <3>. HIDE DEF k
    <3>3. /\ l \in Locals /\ l.pc = "links" /\ l.todo = loc[p].todo /\ l.links = k
          /\ l.tsk = loc[p].tsk /\ l.new = loc[p].new
      BY <1>0, <3>2 DEF Locals, PCs
    <3>4. Sound(l, origin)
      BY <1>0, <3>2, <3>3 DEF Sound, Asking, Moving, Copied
    <3>. QED BY <3>1, <3>3, <3>4 DEF Deleting
  <2>4. ASSUME PollEnds(p) PROVE MovesOn(p)
    <3>1. Idle.pc \notin Deleting
      BY DEF Idle, Deleting
    <3>. QED BY <2>4, <3>1, IdleIsSound DEF PollEnds
  <2>5. ASSUME Done(p) PROVE MovesOn(p)
    <3>1. NextItem(p).pc \notin Deleting
      BY <1>0 DEF NextItem, Locals, Deleting
    <3>. QED BY <2>5, <3>1, NextIsSound DEF Done
  <2>6. ASSUME NEW st \in Statuses, loc[p].pc \in {"probe", "hidden"},
               MovedAway(p, loc[p].iss), StartRehome(p, st)
        PROVE  MovesOn(p)
    <3>. DEFINE l == [loc[p] EXCEPT !.pc = "move", !.to = team[loc[p].iss], !.stat = st]
    <3>1. loc' = [loc EXCEPT ![p] = l]
      BY <2>6 DEF StartRehome, TypeInv, LocalsSound
    <3>2. team[loc[p].iss] \in Pairs
      BY <2>6 DEF MovedAway
    <3>3. /\ l \in Locals /\ l.pc = "move" /\ l.todo = loc[p].todo /\ l.links = loc[p].links
          /\ l.tsk = loc[p].tsk /\ l.new = loc[p].new /\ l.to \in Pairs /\ l.iss = loc[p].iss
      BY <1>0, <2>6, <3>2 DEF Locals, PCs
    <3>4. Sound(l, origin)
      BY <1>0, <2>6, <3>3 DEF Sound, Asking, Moving, Copied
    <3>. QED BY <3>1, <3>3, <3>4 DEF Deleting
  <2>7. ASSUME Probe(p) \/ Hidden(p) PROVE MovesOn(p)
    <3>1. TT_OPEN \in Statuses /\ loc[p].stat \in Statuses
      BY <1>0 DEF Locals, Statuses
    <3>. QED BY <2>5, <2>6, <2>7, <3>1 DEF Probe, Hidden, At
  <2>8. ASSUME GoneUnasked(p) PROVE MovesOn(p)
    <3>1. Goto(p, "miss") /\ loc[p].pc \in Asking /\ "miss" \in PCs /\ "miss" \in Asking
      BY <2>8 DEF GoneUnasked, At, Asking, PCs
    <3>. QED BY <3>1, GotoIsSound DEF Deleting
  <2>9. ASSUME Raise(p) PROVE MovesOn(p)
    BY <2>5, <2>9 DEF Raise
  <2>10. ASSUME NEW t \in TaskIds, PollTask(p, t) PROVE MovesOn(p)
    <3>. DEFINE l == [loc[p] EXCEPT !.todo = @ \ {t}]
                l1 == [l EXCEPT !.pc = "create", !.tsk = t]
                l2(r) == [l EXCEPT !.pc = "probe", !.iss = r.linear, !.tsk = t]
    <3>1. /\ l \in Locals /\ l.pc = "tasks" /\ l.todo = loc[p].todo \ {t}
          /\ l.links = loc[p].links /\ l.tsk = loc[p].tsk /\ l.new = loc[p].new
          /\ t \in loc[p].todo
      BY <1>0, <2>10 DEF PollTask, At, Locals
    <3>2. \/ loc' = [loc EXCEPT ![p] = l1]
          \/ \E r \in RowOfTask(t) : loc' = [loc EXCEPT ![p] = IF r.linear \in l.bulk THEN l ELSE l2(r)]
      BY <2>10 DEF PollTask
    <3>. HIDE DEF l
    <3>3. Sound(l, origin) /\ origin[t] # None
      BY <1>0, <3>1 DEF Sound, Asking, Moving, Copied
    <3>4. /\ l1 \in Locals /\ l1.pc = "create" /\ l1.tsk = t /\ l1.new = l.new
          /\ l1.todo = l.todo /\ l1.links = l.links
      BY <3>1 DEF Locals, PCs
    <3>5. Sound(l1, origin)
      BY <3>3, <3>4 DEF Sound, Asking, Moving, Copied
    <3>6. ASSUME NEW r \in RowOfTask(t) PROVE Sound(l2(r), origin) /\ l2(r).pc = "probe"
      <4>1. r.linear \in IssueIds
        BY RowsOfAreRows
      <4>2. /\ l2(r) \in Locals /\ l2(r).pc = "probe" /\ l2(r).tsk = t /\ l2(r).new = l.new
            /\ l2(r).iss \in IssueIds /\ l2(r).todo = l.todo /\ l2(r).links = l.links
        BY <3>1, <4>1 DEF Locals, PCs
      <4>. QED BY <3>3, <4>2 DEF Sound, Asking, Moving, Copied
    <3>. HIDE DEF l1, l2
    <3>. QED BY <3>1, <3>2, <3>3, <3>4, <3>5, <3>6 DEF Deleting
  <2>. QED BY <2>1, <2>2, <2>3, <2>4, <2>7, <2>8, <2>9, <2>10
<1>6. LocalsSound' /\ Harmless
  BY <1>1, <1>4, <1>5, OnePollMoves, HarmlessMove
<1>. QED BY <1>0, <1>1, <1>2, <1>3, <1>6 DEF TypeInv, CountsOK, StoresOK, RowsSound

LEMMA DoneMovesOn == ASSUME TypeInv, NEW p \in Pairs, Done(p) PROVE MovesOn(p)
<1>1. NextItem(p).pc \notin Deleting
  BY DEF TypeInv, LocalsSound, NextItem, Locals, Deleting
<1>. QED BY <1>1, NextIsSound DEF Done, MovesOn

LEMMA AskingMovesOn ==
    ASSUME TypeInv, NEW p \in Pairs, NEW pc \in Asking, loc[p].pc \in Asking, Goto(p, pc)
    PROVE  MovesOn(p)
<1>1. pc \in PCs /\ pc \notin Deleting
  BY DEF Asking, PCs, Deleting
<1>. QED BY <1>1, GotoIsSound DEF MovesOn

\* What is left to show of a step of one poll once its own record is known to
\* be sound.
LEMMA PollFrame ==
    ASSUME TypeInv, NEW p \in Pairs, MovesOn(p), RowsSound', marked' \subseteq IssueIds,
           UNCHANGED <<list, status, origin, turn, userops>>,
           team' \in [IssueIds -> Pairs \cup {Elsewhere, None}],
           UNCHANGED faults \/ Fault
    PROVE  TypeInv' /\ Harmless
<1>1. Grows
  BY DEF Grows
<1>2. LocalsSound' /\ Harmless
  BY <1>1, OnePollMoves, HarmlessMove DEF MovesOn
<1>3. faults' \in 0..MaxFaults
  BY FaultIsCounted
<1>. QED BY <1>2, <1>3 DEF TypeInv, CountsOK, StoresOK

\* A relocated row is a row, of the task it was given.
LEMMA RelocatedRow ==
    ASSUME NEW r \in Rows, NEW t \in TaskIds, NEW to \in Pairs
    PROVE  relocate_link(r, t, to) \in Rows /\ relocate_link(r, t, to).ttid = t
<1>1. ASSUME NEW z \in 0..TT_MISS_THRESHOLD
      PROVE  /\ [r EXCEPT !.ttid = t, !.list = to, !.miss = z] \in Rows
             /\ [r EXCEPT !.ttid = t, !.list = to, !.miss = z].ttid = t
  BY DEF Rows
<1>2. 0 \in 0..TT_MISS_THRESHOLD
  BY DEF TT_MISS_THRESHOLD
<1>. QED BY <1>1, <1>2 DEF relocate_link

LEMMA RowSteps ==
    ASSUME TypeInv, NEW p \in Pairs,
           \/ CreateIssue(p) \/ UpsertRow(p) \/ ProbeFails(p) \/ GetTask(p) \/ Gone(p)
           \/ Miss(p) \/ Cancel(p) \/ TombstoneRow(p) \/ \E k \in IssueIds \X TaskIds : PollLink(p, k)
    PROVE  TypeInv' /\ Harmless
<1>. USE DEF stores
<1>0. Sound(loc[p], origin) /\ loc[p] \in Locals /\ StoresOK /\ RowsSound
      /\ marked \subseteq IssueIds
  BY DEF TypeInv, LocalsSound, CountsOK
<1>1. ASSUME CreateIssue(p) PROVE TypeInv' /\ Harmless
  <2>1. PICK i \in IssueIds : /\ team' = [team EXCEPT ![i] = p]
                              /\ loc' = [loc EXCEPT ![p].pc = "upsert", ![p].iss = i]
    BY <1>1 DEF CreateIssue
  <2>. DEFINE l == [loc[p] EXCEPT !.pc = "upsert", !.iss = i]
  <2>2. loc' = [loc EXCEPT ![p] = l]
    BY <2>1 DEF TypeInv, LocalsSound
  <2>3. /\ l \in Locals /\ l.pc = "upsert" /\ l.todo = loc[p].todo /\ l.links = loc[p].links
        /\ l.tsk = loc[p].tsk /\ l.new = loc[p].new /\ l.iss = i
    BY <1>0 DEF Locals, PCs
  <2>4. Sound(l, origin) /\ l.pc \notin Deleting
    BY <1>0, <1>1, <2>3 DEF CreateIssue, At, Sound, Asking, Moving, Copied, Deleting
  <2>5. MovesOn(p)
    BY <2>2, <2>4 DEF MovesOn
  <2>6. team' \in [IssueIds -> Pairs \cup {Elsewhere, None}]
    BY <1>0, <2>1 DEF StoresOK
  <2>. QED BY <1>0, <1>1, <2>5, <2>6, PollFrame DEF CreateIssue, RowsSound
<1>2. ASSUME UpsertRow(p) PROVE TypeInv' /\ Harmless
  <2>. DEFINE i == loc[p].iss
              t == loc[p].tsk
              new == [linear |-> i, ttid |-> t, list |-> p, miss |-> 0, tombstoned |-> FALSE]
  <2>1. i \in IssueIds /\ t \in TaskIds /\ origin[t] # None
    BY <1>0, <1>2, IdsAssumption DEF UpsertRow, At, Sound, Asking
  <2>2. new \in Rows /\ new.ttid = t
    BY <2>1 DEF Rows, TT_MISS_THRESHOLD
  <2>3. \A x \in rows' : \/ x \in rows \/ x = new
                         \/ \E r \in RowOfTask(t) : x = [r EXCEPT !.linear = i, !.list = p]
    BY <1>2 DEF UpsertRow
  <2>4. ASSUME NEW r \in RowOfTask(t)
        PROVE  [r EXCEPT !.linear = i, !.list = p] \in Rows
               /\ [r EXCEPT !.linear = i, !.list = p].ttid = r.ttid
    <3>1. r \in Rows
      BY RowsOfAreRows
    <3>. QED BY <2>1, <3>1 DEF Rows
  <2>. HIDE DEF i, t, new
  <2>5. \A r \in RowOfTask(t) : r \in rows /\ origin[r.ttid] # None
    BY RowsOfAreRows
  <2>6. RowsSound'
    <3>1. origin' = origin
      BY <1>2 DEF UpsertRow
    <3>2. ASSUME NEW x \in rows' PROVE x \in Rows /\ origin[x.ttid] # None
      <4>1. CASE x \in rows
        BY <4>1, RowsOfAreRows
      <4>2. CASE x = new
        BY <4>2, <2>1, <2>2
      <4>3. ASSUME NEW r \in RowOfTask(t), x = [r EXCEPT !.linear = i, !.list = p]
            PROVE  x \in Rows /\ origin[x.ttid] # None
        BY <4>3, <2>4, <2>5
      <4>. QED BY <2>3, <4>1, <4>2, <4>3
    <3>. QED BY <3>1, <3>2 DEF RowsSound
  <2>. QED BY <1>0, <1>2, <2>6, DoneMovesOn, PollFrame DEF UpsertRow, StoresOK
<1>3. ASSUME ProbeFails(p) \/ TombstoneRow(p) PROVE TypeInv' /\ Harmless
  <2>1. RowsSound'
    BY <1>3, TombstonedSound DEF ProbeFails, TombstoneRow
  <2>. QED BY <1>0, <1>3, <2>1, DoneMovesOn, PollFrame DEF ProbeFails, TombstoneRow, StoresOK
<1>4. ASSUME NEW k \in IssueIds \X TaskIds, PollLink(p, k) PROVE TypeInv' /\ Harmless
  <2>. DEFINE l == [loc[p] EXCEPT !.links = @ \ {k}]
              g == [l EXCEPT !.pc = "get", !.iss = k[1], !.tsk = k[2]]
  <2>1. /\ l \in Locals /\ l.pc = "links" /\ l.todo = loc[p].todo /\ l.links = loc[p].links \ {k}
        /\ l.tsk = loc[p].tsk /\ l.new = loc[p].new /\ origin[k[2]] # None
    BY <1>0, <1>4 DEF PollLink, At, Locals, Sound
  <2>2. \/ rows' = ResetMiss(k[2]) /\ loc' = [loc EXCEPT ![p] = l]
        \/ rows' = rows /\ loc' = [loc EXCEPT ![p] = g]
    BY <1>4 DEF PollLink
  <2>. HIDE DEF l
  <2>3. Sound(l, origin) /\ l.pc \notin Deleting
    BY <1>0, <2>1 DEF Sound, Asking, Moving, Copied, Deleting
  <2>4. /\ g \in Locals /\ g.pc = "get" /\ g.todo = l.todo /\ g.links = l.links
        /\ g.tsk = k[2] /\ g.new = l.new /\ g.iss = k[1]
    BY <2>1 DEF Locals, PCs
  <2>5. Sound(g, origin) /\ g.pc \notin Deleting
    BY <2>1, <2>3, <2>4 DEF Sound, Asking, Moving, Copied, Deleting
  <2>. HIDE DEF g
  <2>6. MovesOn(p)
    BY <2>2, <2>3, <2>5 DEF MovesOn
  <2>7. RowsSound'
    BY <1>0, <1>4, <2>2, MissResetSound DEF PollLink, RowsSound
  <2>. QED BY <1>0, <1>4, <2>6, <2>7, PollFrame DEF PollLink, StoresOK
<1>5. ASSUME GetTask(p) PROVE TypeInv' /\ Harmless
  <2>1. RowsSound'
    BY <1>0, <1>5, MissResetSound DEF GetTask, RowsSound
  <2>2. loc[p].tsk \in TaskIds /\ loc[p].pc \in Asking
    BY <1>0, <1>5 DEF GetTask, At, Sound, Asking
  <2>3. CASE Done(p) \/ Goto(p, "gone")
    <3>1. MovesOn(p)
      BY <2>2, <2>3, DoneMovesOn, AskingMovesOn DEF Asking
    <3>. QED BY <1>0, <1>5, <2>1, <3>1, PollFrame DEF GetTask, StoresOK
  <2>4. CASE loc' = [loc EXCEPT ![p].pc = "hidden", ![p].stat = status[loc[p].tsk]]
    <3>. DEFINE l == [loc[p] EXCEPT !.pc = "hidden", !.stat = status[loc[p].tsk]]
    <3>1. loc' = [loc EXCEPT ![p] = l]
      BY <2>4 DEF TypeInv, LocalsSound
    <3>2. status[loc[p].tsk] \in Statuses
      BY <1>0, <2>2 DEF StoresOK
    <3>3. /\ l \in Locals /\ l.pc = "hidden" /\ l.todo = loc[p].todo /\ l.links = loc[p].links
          /\ l.tsk = loc[p].tsk /\ l.new = loc[p].new /\ l.iss = loc[p].iss
      BY <1>0, <3>2 DEF Locals, PCs
    <3>4. Sound(l, origin) /\ l.pc \notin Deleting
      BY <1>0, <2>2, <3>3 DEF Sound, Asking, Moving, Copied, Deleting
    <3>5. MovesOn(p)
      BY <3>1, <3>4 DEF MovesOn
    <3>. QED BY <1>0, <1>5, <2>1, <3>5, PollFrame DEF GetTask, StoresOK
  <2>. QED BY <1>5, <2>3, <2>4 DEF GetTask
<1>6. ASSUME Gone(p) PROVE TypeInv' /\ Harmless
  <2>. DEFINE i == loc[p].iss
  <2>1. loc[p].pc \in Asking /\ i \in IssueIds /\ "miss" \in Asking
    BY <1>0, <1>6 DEF Gone, At, Sound, Asking
  <2>2. MovesOn(p)
    BY <1>6, <2>1, DoneMovesOn, AskingMovesOn DEF Gone
  <2>3. ASSUME NEW x \in rows' PROVE x \in Rows /\ origin[x.ttid] # None
    <3>1. CASE x \in rows
      BY <3>1, RowsOfAreRows
    <3>2. ASSUME MovedAway(p, i), NEW r \in RowOfIssue(i), x = relocate_link(r, r.ttid, team[i])
          PROVE  x \in Rows /\ origin[x.ttid] # None
      <4>1. r \in Rows /\ r.ttid \in TaskIds /\ origin[r.ttid] # None /\ team[i] \in Pairs
        BY <3>2, RowsOfAreRows DEF MovedAway
      <4>. QED BY <3>2, <4>1, RelocatedRow
    <3>. QED BY <1>6, <3>1, <3>2 DEF Gone
  <2>. QED BY <1>0, <1>6, <2>2, <2>3, PollFrame DEF Gone, RowsSound, StoresOK
<1>7. ASSUME Miss(p) PROVE TypeInv' /\ Harmless
  <2>1. loc[p].pc \in Asking /\ "cancel" \in Asking
    BY <1>7 DEF Miss, At, Asking
  <2>2. MovesOn(p)
    BY <1>7, <2>1, DoneMovesOn, AskingMovesOn DEF Miss
  <2>3. ASSUME NEW x \in rows' PROVE x \in Rows /\ origin[x.ttid] # None
    <3>1. \/ x \in rows
          \/ \E r \in rows : x = [r EXCEPT !.miss = IF r.miss < TT_MISS_THRESHOLD
                                                    THEN r.miss + 1 ELSE r.miss]
      BY <1>7, RowsOfAreRows DEF Miss
    <3>2. ASSUME NEW r \in rows, x = [r EXCEPT !.miss = IF r.miss < TT_MISS_THRESHOLD
                                                        THEN r.miss + 1 ELSE r.miss]
          PROVE  x \in Rows /\ x.ttid = r.ttid
      <4>1. r \in Rows
        BY RowsOfAreRows
      <4>. QED BY <3>2, <4>1 DEF Rows, TT_MISS_THRESHOLD
    <3>. QED BY <3>1, <3>2, RowsOfAreRows
  <2>. QED BY <1>0, <1>7, <2>2, <2>3, PollFrame DEF Miss, RowsSound, StoresOK
<1>8. ASSUME Cancel(p) PROVE TypeInv' /\ Harmless
  <2>1. loc[p].pc \in Asking /\ loc[p].iss \in IssueIds /\ "tombstone" \in Asking
    BY <1>0, <1>8 DEF Cancel, At, Sound, Asking
  <2>2. MovesOn(p)
    BY <1>8, <2>1, AskingMovesOn DEF Cancel
  <2>. QED BY <1>0, <1>8, <2>1, <2>2, PollFrame DEF Cancel, RowsSound, StoresOK
<1>. QED BY <1>1, <1>2, <1>3, <1>4, <1>5, <1>6, <1>7, <1>8

----------------------------------------------------------------------------
(* Moving a task: one step creates, one deletes.                             *)

LEMMA MovingState ==
    ASSUME TypeInv, NEW p \in Pairs, loc[p].pc \in Moving
    PROVE  /\ loc[p] \in Locals /\ Sound(loc[p], origin)
           /\ loc[p].tsk \in TaskIds /\ loc[p].iss \in IssueIds /\ loc[p].to \in Pairs
           /\ origin[loc[p].tsk] # None
BY IdsAssumption DEF TypeInv, LocalsSound, Sound

LEMMA MovingGoto ==
    ASSUME TypeInv, NEW p \in Pairs, NEW pc \in Moving, loc[p].pc \in Moving, Goto(p, pc),
           pc \notin Copied \/ loc[p].pc \in Copied, origin' = origin
    PROVE  /\ LocalsSound'
           /\ \A q \in Pairs : loc'[q].tsk = loc[q].tsk
           /\ \A q \in Pairs : loc'[q].pc = IF q = p THEN pc ELSE loc[q].pc
<1>1. pc \in PCs
  BY DEF Moving, PCs
<1>2. PICK l : loc' = [loc EXCEPT ![p] = l] /\ Sound(l, origin) /\ l.pc = pc /\ l.tsk = loc[p].tsk
  BY <1>1, GotoIsSound
<1>3. Grows
  BY DEF Grows
<1>. QED BY <1>2, <1>3, OnePollMoves DEF TypeInv, LocalsSound

NewlyDeleting ==
    \A q \in Pairs : loc'[q].pc \in Deleting => loc[q].pc \in Deleting /\ loc'[q].tsk = loc[q].tsk

LEMMA MoveSteps ==
    ASSUME TypeInv, NEW p \in Pairs, MoveInPlace(p) \/ CheckMoved(p) \/ Recomplete(p)
    PROVE  TypeInv' /\ Harmless
<1>. USE DEF stores
<1>1. loc[p].pc \in Moving
  BY DEF MoveInPlace, CheckMoved, Recomplete, At, Moving
<1>. DEFINE t == loc[p].tsk
<1>2. /\ loc[p] \in Locals /\ Sound(loc[p], origin) /\ t \in TaskIds
      /\ loc[p].to \in Pairs /\ loc[p].to # None /\ origin[t] # None
  BY <1>1, MovingState, IdsAssumption
<1>3. StoresOK /\ RowsSound /\ CountsOK
  BY DEF TypeInv
<1>4. faults' \in 0..MaxFaults
  <2>1. UNCHANGED faults \/ Fault
    BY DEF MoveInPlace, CheckMoved, Recomplete
  <2>. QED BY <2>1, FaultIsCounted
<1>5. /\ list' \in [TaskIds -> Pairs \cup {None}] /\ status' \in [TaskIds -> Statuses]
      /\ \A c \in TaskIds : list'[c] # None <=> list[c] # None
  <2>1. CASE MoveInPlace(p)
    <3>1. list' = list \/ (t \in Live /\ list' = [list EXCEPT ![t] = loc[p].to])
      BY <2>1 DEF MoveInPlace
    <3>. HIDE DEF t
    <3>. QED BY <1>2, <1>3, <2>1, <3>1 DEF StoresOK, MoveInPlace, Live
  <2>2. CASE CheckMoved(p)
    BY <1>3, <2>2 DEF CheckMoved, StoresOK
  <2>3. CASE Recomplete(p)
    BY <1>3, <2>3 DEF Recomplete, StoresOK, Statuses
  <2>. QED BY <2>1, <2>2, <2>3
<1>6. UNCHANGED <<team, origin, rows, marked, turn, userops>>
  BY DEF MoveInPlace, CheckMoved, Recomplete
<1>7. LocalsSound' /\ NewlyDeleting
  <2>1. ASSUME NEW pc \in {"check", "copy"}, Goto(p, pc) PROVE LocalsSound' /\ NewlyDeleting
    <3>1. pc \in Moving /\ pc \notin Copied /\ pc \notin Deleting
      BY DEF Moving, Copied, Deleting
    <3>. QED BY <1>1, <1>6, <2>1, <3>1, MovingGoto DEF NewlyDeleting
  <2>2. CASE Recomplete(p)
    <3>1. Goto(p, "delete") /\ loc[p].pc \in Deleting
      BY <2>2 DEF Recomplete, At, Deleting
    <3>2. "delete" \in Moving /\ "delete" \in Deleting /\ loc[p].pc \in Copied
      BY <3>1 DEF Moving, Deleting, Copied
    <3>. QED BY <1>1, <1>6, <3>1, <3>2, MovingGoto DEF NewlyDeleting
  <2>3. CASE MoveInPlace(p)
    BY <2>1, <2>3 DEF MoveInPlace
  <2>4. CASE CheckMoved(p)
    <3>. DEFINE m == [loc[p] EXCEPT !.pc = "relocate", !.new = t]
                k == [loc[p] EXCEPT !.pc = "copy"]
    <3>1. \/ loc' = [loc EXCEPT ![p] = m] \/ loc' = [loc EXCEPT ![p] = k] \/ Goto(p, "copy")
      BY <2>4 DEF CheckMoved
    <3>2. /\ m \in Locals /\ m.pc = "relocate" /\ m.todo = loc[p].todo /\ m.links = loc[p].links
          /\ m.tsk = t /\ m.new = t /\ m.iss = loc[p].iss /\ m.to = loc[p].to
      BY <1>2 DEF Locals, PCs
    <3>3. /\ k \in Locals /\ k.pc = "copy" /\ k.todo = loc[p].todo /\ k.links = loc[p].links
          /\ k.tsk = t /\ k.new = loc[p].new /\ k.iss = loc[p].iss /\ k.to = loc[p].to
      BY <1>2 DEF Locals, PCs
    <3>4. Sound(m, origin) /\ m.pc \notin Deleting
      BY <1>1, <1>2, <3>2 DEF Sound, Asking, Moving, Copied, Deleting
    <3>5. Sound(k, origin) /\ k.pc \notin Deleting
      BY <1>1, <1>2, <3>3 DEF Sound, Asking, Moving, Copied, Deleting
    <3>6. Grows /\ \A c \in TaskIds : list[c] # None => list'[c] # None
      BY <1>5, <1>6 DEF Grows
    <3>. HIDE DEF m, k
    <3>7. ASSUME NEW l, loc' = [loc EXCEPT ![p] = l], Sound(l, origin), l.pc \notin Deleting
          PROVE  LocalsSound' /\ NewlyDeleting
      BY <1>6, <3>6, <3>7, OnePollMoves, HarmlessMove DEF Harmless, NewlyDeleting
    <3>. QED BY <2>1, <3>1, <3>4, <3>5, <3>7
  <2>. QED BY <2>2, <2>3, <2>4
<1>. QED BY <1>3, <1>4, <1>5, <1>6, <1>7 DEF TypeInv, StoresOK, RowsSound, CountsOK, Harmless,
         NewlyDeleting

LEMMA CopyStep ==
    ASSUME TypeInv, NEW p \in Pairs, Copy(p)
    PROVE  /\ TypeInv'
           /\ \E c \in TaskIds :
                /\ origin[c] = None /\ list'[c] # None /\ origin'[c] = origin[loc[p].tsk]
                /\ \A t \in TaskIds \ {c} : list'[t] = list[t] /\ origin'[t] = origin[t]
           /\ \A q \in Pairs : /\ loc'[q].tsk = loc[q].tsk
                               /\ q # p => loc'[q].pc = loc[q].pc
<1>. USE DEF stores
<1>1. loc[p].pc \in Moving
  BY DEF Copy, At, Moving
<1>2. /\ loc[p] \in Locals /\ Sound(loc[p], origin) /\ loc[p].tsk \in TaskIds
      /\ loc[p].to \in Pairs /\ loc[p].to # None /\ origin[loc[p].tsk] # None
      /\ loc[p].iss \in IssueIds
  BY <1>1, MovingState, IdsAssumption
<1>3. StoresOK /\ RowsSound /\ CountsOK
  BY DEF TypeInv
<1>4. PICK c \in TaskIds :
        /\ origin[c] = None
        /\ origin' = [origin EXCEPT ![c] = origin[loc[p].tsk]]
        /\ list' = [list EXCEPT ![c] = loc[p].to]
        /\ status' = [status EXCEPT ![c] = TT_OPEN]
        /\ \/ loc' = [loc EXCEPT ![p].new = c, ![p].pc =
                          IF loc[p].stat = TT_COMPLETED THEN "recomplete" ELSE "delete"]
           \/ loc' = loc
  BY DEF Copy
<1>5. /\ origin' \in [TaskIds -> TaskIds \cup {None}] /\ origin'[c] = origin[loc[p].tsk]
      /\ \A t \in TaskIds \ {c} : list'[t] = list[t] /\ origin'[t] = origin[t]
      /\ list' \in [TaskIds -> Pairs \cup {None}] /\ list'[c] # None
      /\ status' \in [TaskIds -> Statuses]
  BY <1>2, <1>3, <1>4 DEF StoresOK, Statuses
<1>6. Grows
  BY <1>4, <1>5 DEF Grows
<1>7. faults' \in 0..MaxFaults
  <2>1. UNCHANGED faults \/ Fault
    BY DEF Copy
  <2>. QED BY <2>1, FaultIsCounted
<1>8. UNCHANGED <<team, rows, marked, turn, userops>>
  BY DEF Copy
<1>9. RowsSound'
  BY <1>3, <1>6, <1>8, RowsOfAreRows DEF RowsSound, Grows
<1>10. LocalsSound' /\ \A q \in Pairs : loc'[q].tsk = loc[q].tsk /\ (q # p => loc'[q].pc = loc[q].pc)
  <2>. DEFINE pc == IF loc[p].stat = TT_COMPLETED THEN "recomplete" ELSE "delete"
              l == [loc[p] EXCEPT !.new = c, !.pc = pc]
  <2>1. loc' = [loc EXCEPT ![p] = l] \/ loc' = [loc EXCEPT ![p] = loc[p]]
    BY <1>4 DEF TypeInv, LocalsSound
  <2>2. pc \in Copied /\ pc \in PCs
    BY DEF Copied, PCs
  <2>. HIDE DEF pc
  <2>3. /\ l \in Locals /\ l.pc = pc /\ l.todo = loc[p].todo /\ l.links = loc[p].links
        /\ l.tsk = loc[p].tsk /\ l.new = c /\ l.iss = loc[p].iss /\ l.to = loc[p].to
    BY <1>2, <2>2 DEF Locals
  <2>. HIDE DEF l
  <2>4. /\ origin'[loc[p].tsk] # None /\ origin'[c] # None
        /\ \A t \in loc[p].todo : origin'[t] # None
        /\ \A k \in loc[p].links : origin'[k[2]] # None
        /\ loc[p].new # None => origin'[loc[p].new] # None
    BY <1>2, <1>5, <1>6 DEF Sound, Grows, Locals
  <2>5. Sound(l, origin')
    BY <1>2, <2>2, <2>3, <2>4 DEF Sound, Asking, Moving, Copied
  <2>6. Sound(loc[p], origin')
    BY <1>2, <2>4 DEF Sound
  <2>7. LocalsSound'
    BY <1>6, <2>1, <2>5, <2>6, OnePollMoves
  <2>. QED BY <2>1, <2>3, <2>7 DEF TypeInv, LocalsSound
<1>11. \A t \in TaskIds : list'[t] # None => origin'[t] # None
  BY <1>2, <1>3, <1>5 DEF StoresOK
<1>. QED BY <1>3, <1>4, <1>5, <1>7, <1>8, <1>9, <1>10, <1>11 DEF TypeInv, StoresOK, CountsOK

LEMMA DeleteStep ==
    ASSUME TypeInv, NEW p \in Pairs, DeleteOld(p)
    PROVE  /\ TypeInv' /\ origin' = origin
           /\ \A t \in TaskIds : t # loc[p].tsk => list'[t] = list[t]
           /\ NewlyDeleting /\ loc[p].pc \in Deleting
<1>. USE DEF stores
<1>1. loc[p].pc \in Moving /\ loc[p].pc \in Copied /\ loc[p].pc \in Deleting
  BY DEF DeleteOld, At, Moving, Copied, Deleting
<1>2. loc[p].tsk \in TaskIds /\ StoresOK /\ RowsSound /\ CountsOK
  BY <1>1, MovingState DEF TypeInv
<1>3. list' = list \/ list' = [list EXCEPT ![loc[p].tsk] = None]
  BY DEF DeleteOld
<1>4. /\ list' \in [TaskIds -> Pairs \cup {None}]
      /\ \A t \in TaskIds : t # loc[p].tsk => list'[t] = list[t]
      /\ \A t \in TaskIds : list'[t] # None => list[t] # None
  BY <1>2, <1>3 DEF StoresOK
<1>5. faults' \in 0..MaxFaults
  <2>1. UNCHANGED faults \/ Fault
    BY DEF DeleteOld
  <2>. QED BY <2>1, FaultIsCounted
<1>6. Goto(p, "relocate") /\ UNCHANGED <<team, status, origin, rows, marked, turn, userops>>
  BY DEF DeleteOld
<1>7. "relocate" \in Moving /\ "relocate" \notin Deleting
  BY DEF Moving, Deleting
<1>8. LocalsSound' /\ NewlyDeleting
  BY <1>1, <1>6, <1>7, MovingGoto DEF NewlyDeleting
<1>. QED BY <1>1, <1>2, <1>4, <1>5, <1>6, <1>8 DEF TypeInv, StoresOK, RowsSound, CountsOK

LEMMA RelocateStep ==
    ASSUME TypeInv, NEW p \in Pairs, Relocate(p)
    PROVE  TypeInv' /\ Harmless
<1>. USE DEF stores
<1>1. loc[p].pc \in Moving /\ loc[p].pc \in Copied
  BY DEF Relocate, At, Moving, Copied
<1>2. loc[p].new \in TaskIds /\ loc[p].to \in Pairs /\ origin[loc[p].new] # None
  BY <1>1, MovingState, IdsAssumption DEF Sound
<1>. DEFINE R == IF RowOfTask(loc[p].tsk) # {} THEN RowOfTask(loc[p].tsk)
                 ELSE RowOfIssue(loc[p].iss)
<1>3. R \subseteq rows
  BY RowsOfAreRows
<1>4. \/ rows' = rows
      \/ rows' = (rows \ R) \cup {relocate_link(r, loc[p].new, loc[p].to) : r \in R}
  BY DEF Relocate
<1>. HIDE DEF R
<1>5. ASSUME NEW x \in rows' PROVE x \in Rows /\ origin[x.ttid] # None
  <2>1. CASE x \in rows
    BY <2>1, RowsOfAreRows
  <2>2. ASSUME NEW r \in R, x = relocate_link(r, loc[p].new, loc[p].to)
        PROVE  x \in Rows /\ origin[x.ttid] # None
    BY <1>2, <1>3, <2>2, RowsOfAreRows, RelocatedRow
  <2>. QED BY <1>4, <2>1, <2>2
<1>6. RowsSound'
  BY <1>5 DEF Relocate, RowsSound
<1>. QED BY <1>6, DoneMovesOn, PollFrame DEF Relocate, TypeInv, StoresOK, CountsOK

LEMMA WorldSteps ==
    ASSUME TypeInv, UserMovesIssue \/ UserMovesTask \/ UserEndsTask \/ Crash
    PROVE  TypeInv' /\ Harmless
<1>. USE DEF stores
<1>1. StoresOK /\ RowsSound /\ CountsOK /\ LocalsSound
  BY DEF TypeInv
<1>2. \A op \in UserOps : UserMay(op) => userops' \in [UserOps -> Nat]
  BY <1>1 DEF UserMay, CountsOK
<1>3. ASSUME UserMovesIssue PROVE TypeInv' /\ Harmless
  <2>1. team' \in [IssueIds -> Pairs \cup {Elsewhere, None}]
    BY <1>1, <1>3 DEF UserMovesIssue, StoresOK
  <2>. QED BY <1>1, <1>2, <1>3, <2>1 DEF UserMovesIssue, UserOps, TypeInv, StoresOK, RowsSound,
           CountsOK, LocalsSound, Harmless
<1>4. ASSUME UserMovesTask PROVE TypeInv' /\ Harmless
  <2>1. /\ list' \in [TaskIds -> Pairs \cup {None}]
        /\ \A t \in TaskIds : list'[t] # None <=> list[t] # None
    BY <1>1, <1>4, IdsAssumption DEF UserMovesTask, StoresOK, Live
  <2>. QED BY <1>1, <1>2, <1>4, <2>1 DEF UserMovesTask, UserOps, TypeInv, StoresOK, RowsSound,
           CountsOK, LocalsSound, Harmless
<1>5. ASSUME UserEndsTask PROVE TypeInv' /\ Harmless
  <2>1. status' \in [TaskIds -> Statuses]
    BY <1>1, <1>5 DEF UserEndsTask, StoresOK, Live, Statuses
  <2>. QED BY <1>1, <1>2, <1>5, <2>1 DEF UserEndsTask, UserOps, TypeInv, StoresOK, RowsSound,
           CountsOK, LocalsSound, Harmless
<1>6. ASSUME Crash PROVE TypeInv' /\ Harmless
  <2>1. /\ loc' = [q \in Pairs |-> Idle] /\ \A q \in Pairs : loc'[q] = Idle
        /\ Idle.pc \notin Deleting /\ Idle \in Locals
    BY <1>6, IdleIsSound DEF Crash, Idle, Deleting, Sound
  <2>2. faults' \in 0..MaxFaults
    BY <1>6, FaultIsCounted DEF Crash
  <2>3. LocalsSound'
    BY <2>1, IdleIsSound DEF LocalsSound
  <2>. QED BY <1>1, <1>6, <2>1, <2>2, <2>3 DEF Crash, TypeInv, StoresOK, RowsSound, CountsOK, Harmless
<1>. QED BY <1>3, <1>4, <1>5, <1>6

----------------------------------------------------------------------------
(* The theorems                                                              *)

\* Of every linked task a copy is alive that no poll is about to delete.
SafeCopy ==
    \A k \in Linked : \E t \in TaskIds :
        /\ list[t] # None /\ origin[t] = k[2]
        /\ \A p \in Pairs : loc[p].pc \in Deleting => loc[p].tsk # t

LEMMA HarmlessIsSafe == ASSUME SafeCopy, Harmless PROVE SafeCopy'
<1>1. ASSUME NEW k \in Linked
      PROVE  \E t \in TaskIds : /\ list'[t] # None /\ origin'[t] = k[2]
                               /\ \A p \in Pairs : loc'[p].pc \in Deleting => loc'[p].tsk # t
  <2>1. PICK t \in TaskIds : /\ list[t] # None /\ origin[t] = k[2]
                             /\ \A p \in Pairs : loc[p].pc \in Deleting => loc[p].tsk # t
    BY DEF SafeCopy
  <2>. QED BY <2>1 DEF Harmless
<1>. QED BY <1>1 DEF SafeCopy

LEMMA CopyIsSafe ==
    ASSUME TypeInv, SafeCopy, NEW p \in Pairs, Copy(p)
    PROVE  SafeCopy'
<1>1. PICK c \in TaskIds :
        /\ origin[c] = None /\ list'[c] # None /\ origin'[c] = origin[loc[p].tsk]
        /\ \A t \in TaskIds \ {c} : list'[t] = list[t] /\ origin'[t] = origin[t]
  BY CopyStep
<1>2. \A q \in Pairs : loc'[q].tsk = loc[q].tsk /\ (q # p => loc'[q].pc = loc[q].pc)
  BY CopyStep
<1>3. \A q \in Pairs : loc[q].tsk # None => origin[loc[q].tsk] # None
  BY DEF TypeInv, LocalsSound, Sound
<1>4. ASSUME NEW k \in Linked
      PROVE  \E t \in TaskIds : /\ list'[t] # None /\ origin'[t] = k[2]
                               /\ \A q \in Pairs : loc'[q].pc \in Deleting => loc'[q].tsk # t
  <2>1. CASE origin[loc[p].tsk] = k[2]
    <3>1. \A q \in Pairs : loc'[q].tsk # c
      BY <1>1, <1>2, <1>3, IdsAssumption
    <3>. QED BY <1>1, <2>1, <3>1
  <2>2. CASE origin[loc[p].tsk] # k[2]
    <3>1. PICK t \in TaskIds : /\ list[t] # None /\ origin[t] = k[2]
                               /\ \A q \in Pairs : loc[q].pc \in Deleting => loc[q].tsk # t
      BY DEF SafeCopy
    <3>2. k[2] \in TaskIds /\ None \notin TaskIds
      BY IdsAssumption
    <3>3. t # c /\ t # loc[p].tsk
      BY <1>1, <2>2, <3>1, <3>2
    <3>. QED BY <1>1, <1>2, <3>1, <3>3
  <2>. QED BY <2>1, <2>2
<1>. QED BY <1>4 DEF SafeCopy

LEMMA DeleteIsSafe ==
    ASSUME TypeInv, SafeCopy, NEW p \in Pairs, DeleteOld(p)
    PROVE  SafeCopy'
<1>1. ASSUME NEW k \in Linked
      PROVE  \E t \in TaskIds : /\ list'[t] # None /\ origin'[t] = k[2]
                               /\ \A q \in Pairs : loc'[q].pc \in Deleting => loc'[q].tsk # t
  <2>1. PICK t \in TaskIds : /\ list[t] # None /\ origin[t] = k[2]
                             /\ \A q \in Pairs : loc[q].pc \in Deleting => loc[q].tsk # t
    BY DEF SafeCopy
  <2>2. t # loc[p].tsk /\ origin' = origin /\ list'[t] = list[t] /\ NewlyDeleting
    BY <2>1, DeleteStep
  <2>. QED BY <2>1, <2>2 DEF NewlyDeleting
<1>. QED BY <1>1 DEF SafeCopy

Inv == TypeInv /\ SafeCopy

LEMMA InitInv == Init => Inv
<1>. SUFFICES ASSUME Init PROVE Inv
  OBVIOUS
<1>. USE DEF Init
<1>1. PICK first \in Pairs :
        /\ team = [i \in IssueIds |-> IF \E k \in Linked : k[1] = i THEN first ELSE None]
        /\ list = [t \in TaskIds |-> IF \E k \in Linked : k[2] = t THEN first ELSE None]
        /\ rows = {[linear |-> k[1], ttid |-> k[2], list |-> first,
                    miss |-> 0, tombstoned |-> FALSE] : k \in Linked}
  OBVIOUS
<1>2. \A k \in Linked : k[1] \in IssueIds /\ k[2] \in TaskIds /\ origin[k[2]] # None
                        /\ origin[k[2]] = k[2] /\ list[k[2]] # None
  BY <1>1, IdsAssumption
<1>3. StoresOK
  BY <1>1, IdsAssumption DEF StoresOK, Statuses
<1>4. RowsSound
  <2>1. ASSUME NEW r \in rows PROVE r \in Rows /\ origin[r.ttid] # None
    <3>1. PICK k \in Linked : r = [linear |-> k[1], ttid |-> k[2], list |-> first,
                                  miss |-> 0, tombstoned |-> FALSE]
      BY <1>1, <2>1
    <3>. HIDE DEF Init
    <3>. QED BY <1>2, <3>1 DEF Rows, TT_MISS_THRESHOLD
  <2>. QED BY <2>1 DEF RowsSound
<1>5. LocalsSound
  BY IdleIsSound DEF LocalsSound, Sound
<1>6. CountsOK
  BY BoundsAssumption DEF CountsOK
<1>7. SafeCopy
  BY <1>2 DEF SafeCopy, Idle, Deleting
<1>. QED BY <1>3, <1>4, <1>5, <1>6, <1>7 DEF Inv, TypeInv

LEMMA NextInv == Inv /\ [Next]_vars => Inv'
<1>. SUFFICES ASSUME Inv, [Next]_vars PROVE Inv'
  OBVIOUS
<1>0. TypeInv /\ SafeCopy
  BY DEF Inv
<1>1. ASSUME TypeInv', Harmless PROVE Inv'
  BY <1>0, <1>1, HarmlessIsSafe DEF Inv
<1>2. ASSUME NEW p \in Pairs, PollList(p) \/ Step(p) \/ ProbeFails(p) \/ GoneUnasked(p) \/ Raise(p)
      PROVE  Inv'
  <2>1. CASE Copy(p)
    BY <1>0, <2>1, CopyStep, CopyIsSafe DEF Inv
  <2>2. CASE DeleteOld(p)
    BY <1>0, <2>2, DeleteStep, DeleteIsSafe DEF Inv
  <2>3. CASE \/ PollList(p) \/ PollBulk(p) \/ PollLinks(p) \/ PollEnds(p) \/ Probe(p) \/ Hidden(p)
             \/ GoneUnasked(p) \/ Raise(p) \/ \E t \in TaskIds : PollTask(p, t)
    BY <1>0, <1>1, <2>3, ReadSteps
  <2>4. CASE MoveInPlace(p) \/ CheckMoved(p) \/ Recomplete(p)
    BY <1>0, <1>1, <2>4, MoveSteps
  <2>5. CASE Relocate(p)
    BY <1>0, <1>1, <2>5, RelocateStep
  <2>6. CASE \/ CreateIssue(p) \/ UpsertRow(p) \/ ProbeFails(p) \/ TombstoneRow(p) \/ GetTask(p)
             \/ Gone(p) \/ Miss(p) \/ Cancel(p) \/ \E k \in IssueIds \X TaskIds : PollLink(p, k)
    BY <1>0, <1>1, <2>6, RowSteps
  <2>. QED BY <1>2, <2>1, <2>2, <2>3, <2>4, <2>5, <2>6 DEF Step
<1>3. CASE UserMovesIssue \/ UserMovesTask \/ UserEndsTask \/ Crash
  BY <1>0, <1>1, <1>3, WorldSteps
<1>4. CASE UNCHANGED vars
  BY <1>0, <1>4 DEF vars, stores, Inv, TypeInv, StoresOK, RowsSound, LocalsSound, CountsOK, SafeCopy
<1>. QED BY <1>2, <1>3, <1>4 DEF Next

\* Every poll always holds the ids its place in poll_once needs, and every
\* task a row or a poll speaks of has been created at some time.
THEOREM TypeCorrect == Spec => []TypeOK
<1>1. Inv => TypeOK
  BY TypeInvIsType DEF Inv
<1>. QED BY <1>1, InitInv, NextInv, PTL DEF Spec

\* Re-homing loses no task: a linked task, or a copy of it, is alive at all
\* times, however many polls move it about at once, and whatever call fails.
THEOREM TasksSurvive == Spec => []TaskSurvives
<1>1. Inv => TaskSurvives
  BY DEF Inv, SafeCopy, TaskSurvives, Live
<1>. QED BY <1>1, InitInv, NextInv, PTL DEF Spec

----------------------------------------------------------------------------
(* A completed task stays completed.                                         *)

ByPoll(p) == PollList(p) \/ Step(p) \/ ProbeFails(p) \/ GoneUnasked(p) \/ Raise(p)

LEMMA OthersWait ==
    ASSUME TypeInv, NEW p \in Pairs, ByPoll(p)
    PROVE  \A q \in Pairs \ {p} : loc'[q] = loc[q]
<1>1. loc \in [Pairs -> Locals]
  BY DEF TypeInv, LocalsSound
<1>2. CASE PollList(p) \/ PollBulk(p) \/ PollLinks(p) \/ PollEnds(p) \/ \E t \in TaskIds : PollTask(p, t)
  BY <1>1, <1>2 DEF PollList, PollBulk, PollLinks, PollEnds, PollTask
<1>3. CASE CreateIssue(p) \/ UpsertRow(p) \/ Probe(p) \/ ProbeFails(p) \/ Hidden(p) \/ Raise(p)
  BY <1>1, <1>3 DEF CreateIssue, UpsertRow, Probe, ProbeFails, Hidden, Raise, StartRehome, Done
<1>4. CASE GetTask(p) \/ \E k \in IssueIds \X TaskIds : PollLink(p, k)
  BY <1>1, <1>4 DEF GetTask, PollLink, Done, Goto
<1>5. CASE Gone(p) \/ GoneUnasked(p) \/ Miss(p) \/ Cancel(p) \/ TombstoneRow(p)
  BY <1>1, <1>5 DEF Gone, GoneUnasked, Miss, Cancel, TombstoneRow, Done, Goto
<1>6. CASE MoveInPlace(p) \/ CheckMoved(p) \/ Copy(p) \/ Recomplete(p) \/ DeleteOld(p) \/ Relocate(p)
  BY <1>1, <1>6 DEF MoveInPlace, CheckMoved, Copy, Recomplete, DeleteOld, Relocate, Done, Goto
<1>. QED BY <1>2, <1>3, <1>4, <1>5, <1>6 DEF ByPoll, Step

\* No status but that of a new task is ever reset, and a poll knows of none
\* that is yet to be made; a call that failed is never forgotten.
LEMMA StatusKept ==
    ASSUME TypeInv, Next
    PROVE  /\ \A t \in TaskIds : origin[t] # None /\ status[t] = TT_COMPLETED => status'[t] = TT_COMPLETED
           /\ faults' = 0 => faults = 0
<1>1. status \in [TaskIds -> Statuses] /\ faults \in Nat
  BY BoundsAssumption DEF TypeInv, StoresOK, CountsOK
<1>2. UNCHANGED faults \/ Fault
  BY DEF Next, Step, PollList, ProbeFails, GoneUnasked, Raise, UserMovesIssue, UserMovesTask,
         UserEndsTask, Crash, PollBulk, PollLinks, PollEnds, PollTask, PollLink, CreateIssue, UpsertRow,
         Probe, GetTask, Hidden, Gone, Miss, Cancel, TombstoneRow, MoveInPlace, CheckMoved, Copy,
         Recomplete, DeleteOld, Relocate
<1>3. \/ UNCHANGED status
      \/ UserEndsTask
      \/ \E p \in Pairs : Copy(p) \/ Recomplete(p)
  BY DEF stores, Next, Step, PollList, ProbeFails, GoneUnasked, Raise, UserMovesIssue, UserMovesTask,
         Crash, PollBulk, PollLinks, PollEnds, PollTask, PollLink, CreateIssue, UpsertRow,
         Probe, GetTask, Hidden, Gone, Miss, Cancel, TombstoneRow, MoveInPlace, CheckMoved,
         DeleteOld, Relocate
<1>4. CASE UserEndsTask
  BY <1>1, <1>4 DEF UserEndsTask, TT_OPEN, TT_COMPLETED
<1>5. ASSUME NEW p \in Pairs, Copy(p) \/ Recomplete(p)
      PROVE  \A t \in TaskIds : origin[t] # None /\ status[t] = TT_COMPLETED => status'[t] = TT_COMPLETED
  BY <1>1, <1>5 DEF Copy, Recomplete
<1>. QED BY <1>1, <1>2, <1>3, <1>4, <1>5 DEF Fault

\* What the poll remembers as completed is so, and so is the copy it has made
\* unless a call failed.
Completed(l, st, f) ==
    /\ l.pc \in {"hidden", "move", "check", "copy"} /\ l.stat = TT_COMPLETED
         => st[l.tsk] = TT_COMPLETED
    /\ l.pc \in {"delete", "relocate"} /\ l.stat = TT_COMPLETED /\ f = 0
         => st[l.new] = TT_COMPLETED

DoneKept == \A p \in Pairs : Completed(loc[p], status, faults)

LEMMA CompletedKept ==
    ASSUME TypeInv, Next, NEW q \in Pairs, Completed(loc[q], status, faults)
    PROVE  Completed(loc[q], status', faults')
<1>1. Sound(loc[q], origin) /\ loc[q] \in Locals
  BY DEF TypeInv, LocalsSound
<1>2. /\ loc[q].pc \in {"hidden", "move", "check", "copy"} =>
           loc[q].tsk \in TaskIds /\ origin[loc[q].tsk] # None
      /\ loc[q].pc \in {"delete", "relocate"} =>
           loc[q].new \in TaskIds /\ origin[loc[q].new] # None
  BY <1>1, IdsAssumption DEF Sound, Asking, Moving, Copied
<1>. QED BY <1>2, StatusKept DEF Completed

LEMMA DoneStep ==
    ASSUME TypeInv, DoneKept, NEW p \in Pairs, ByPoll(p)
    PROVE  Completed(loc'[p], status', faults')
<1>. USE DEF stores
<1>0. Next
  BY DEF ByPoll, Next
<1>1. loc \in [Pairs -> Locals] /\ loc[p] \in Locals /\ Sound(loc[p], origin)
      /\ Completed(loc[p], status, faults) /\ Completed(loc[p], status', faults')
  BY <1>0, CompletedKept DEF TypeInv, LocalsSound, DoneKept
<1>2. ASSUME loc'[p].pc \notin {"hidden", "move", "check", "copy", "delete", "relocate"}
      PROVE  Completed(loc'[p], status', faults')
  BY <1>2 DEF Completed
<1>3. ASSUME Done(p) PROVE Completed(loc'[p], status', faults')
  <2>1. loc'[p].pc \in {"tasks", "links"}
    BY <1>1, <1>3 DEF Done, NextItem, Locals
  <2>. QED BY <1>2, <2>1
<1>4. CASE PollList(p) \/ PollBulk(p) \/ PollLinks(p) \/ PollEnds(p)
  <2>1. loc'[p].pc \in {"bulk", "tasks", "links", "idle"}
    <3>1. CASE PollList(p)
      BY <1>1, <3>1 DEF PollList, Locals
    <3>2. CASE PollBulk(p)
      BY <1>1, <3>2 DEF PollBulk, Locals
    <3>3. CASE PollLinks(p)
      BY <1>1, <3>3 DEF PollLinks, Locals
    <3>4. CASE PollEnds(p)
      BY <1>1, <3>4 DEF PollEnds, Idle
    <3>. QED BY <1>4, <3>1, <3>2, <3>3, <3>4
  <2>. QED BY <1>2, <2>1
<1>5. ASSUME NEW t \in TaskIds, PollTask(p, t) PROVE Completed(loc'[p], status', faults')
  <2>. DEFINE l == [loc[p] EXCEPT !.todo = @ \ {t}]
  <2>1. /\ l.pc = "tasks" /\ l \in Locals
        /\ \/ loc'[p] = [l EXCEPT !.pc = "create", !.tsk = t]
           \/ loc'[p] = l
           \/ \E r \in rows : loc'[p] = [l EXCEPT !.pc = "probe", !.iss = r.linear, !.tsk = t]
    BY <1>1, <1>5 DEF PollTask, At, Locals, RowOfTask
  <2>. HIDE DEF l
  <2>2. loc'[p].pc \in {"create", "tasks", "probe"}
    BY <2>1 DEF Locals
  <2>. QED BY <1>2, <2>2
<1>6. ASSUME NEW k \in IssueIds \X TaskIds, PollLink(p, k) PROVE Completed(loc'[p], status', faults')
  <2>. DEFINE l == [loc[p] EXCEPT !.links = @ \ {k}]
  <2>1. /\ l.pc = "links" /\ l \in Locals
        /\ loc'[p] = l \/ loc'[p] = [l EXCEPT !.pc = "get", !.iss = k[1], !.tsk = k[2]]
    BY <1>1, <1>6 DEF PollLink, At, Locals
  <2>. HIDE DEF l
  <2>2. loc'[p].pc \in {"links", "get"}
    BY <2>1 DEF Locals
  <2>. QED BY <1>2, <2>2
<1>7. CASE CreateIssue(p) \/ GoneUnasked(p) \/ Cancel(p) \/ Gone(p) \/ Miss(p)
  <2>1. Done(p) \/ loc'[p].pc \in {"upsert", "miss", "tombstone", "cancel"}
    BY <1>1, <1>7 DEF CreateIssue, GoneUnasked, Cancel, Gone, Miss, Goto, Locals
  <2>. QED BY <1>2, <1>3, <2>1
<1>8. CASE UpsertRow(p) \/ ProbeFails(p) \/ TombstoneRow(p) \/ Relocate(p) \/ Raise(p)
  BY <1>3, <1>8 DEF UpsertRow, ProbeFails, TombstoneRow, Relocate, Raise
<1>9. CASE Probe(p)
  <2>1. Done(p) \/ (loc'[p].stat = TT_OPEN /\ loc'[p].pc = "move")
    BY <1>1, <1>9 DEF Probe, StartRehome, Locals
  <2>. QED BY <1>3, <2>1 DEF Completed, TT_OPEN, TT_COMPLETED
<1>10. CASE GetTask(p)
  <2>1. \/ Done(p) \/ loc'[p].pc = "gone"
        \/ loc'[p].pc = "hidden" /\ loc'[p].stat = status'[loc[p].tsk] /\ loc'[p].tsk = loc[p].tsk
    BY <1>1, <1>10 DEF GetTask, Goto, Locals
  <2>. QED BY <1>2, <1>3, <2>1 DEF Completed
<1>11. CASE Hidden(p)
  <2>1. \/ Done(p)
        \/ loc'[p].pc = "move" /\ loc'[p].stat = loc[p].stat /\ loc'[p].tsk = loc[p].tsk
    BY <1>1, <1>11 DEF Hidden, StartRehome, Locals
  <2>. QED BY <1>1, <1>3, <1>11, <2>1 DEF Completed, Hidden, At
<1>12. CASE MoveInPlace(p)
  <2>1. loc'[p].pc \in {"check", "copy"} /\ loc'[p].stat = loc[p].stat /\ loc'[p].tsk = loc[p].tsk
    BY <1>1, <1>12 DEF MoveInPlace, Goto, Locals
  <2>. QED BY <1>1, <1>12, <2>1 DEF Completed, MoveInPlace, At
<1>13. CASE CheckMoved(p)
  <2>1. /\ loc'[p].stat = loc[p].stat /\ loc'[p].tsk = loc[p].tsk
        /\ \/ loc'[p].pc = "copy"
           \/ loc'[p].pc = "relocate" /\ loc'[p].new = loc[p].tsk
    BY <1>1, <1>13 DEF CheckMoved, Goto, Locals
  <2>. QED BY <1>1, <1>13, <2>1 DEF Completed, CheckMoved, At
<1>14. CASE Copy(p)
  <2>1. \/ loc'[p] = loc[p]
        \/ loc'[p].pc = "recomplete"
        \/ loc'[p].pc = "delete" /\ loc'[p].stat # TT_COMPLETED
    BY <1>1, <1>14 DEF Copy, Locals
  <2>. QED BY <1>1, <1>2, <2>1 DEF Completed
<1>15. CASE Recomplete(p)
  <2>1. loc'[p].pc = "delete" /\ loc'[p].new = loc[p].new /\ loc[p].new \in TaskIds
    BY <1>1, <1>15, IdsAssumption DEF Recomplete, At, Goto, Locals, Sound, Copied
  <2>2. faults' = 0 => status'[loc[p].new] = TT_COMPLETED
    BY <1>15, <2>1, BoundsAssumption DEF Recomplete, Fault, TypeInv, StoresOK, CountsOK
  <2>. QED BY <2>1, <2>2 DEF Completed
<1>16. CASE DeleteOld(p)
  <2>1. loc'[p].pc = "relocate" /\ loc'[p].new = loc[p].new /\ loc'[p].stat = loc[p].stat
    BY <1>1, <1>16 DEF DeleteOld, Goto, Locals
  <2>. QED BY <1>1, <1>16, <2>1 DEF Completed, DeleteOld, At
<1>. QED BY <1>4, <1>5, <1>6, <1>7, <1>8, <1>9, <1>10, <1>11, <1>12, <1>13, <1>14, <1>15, <1>16
         DEF ByPoll, Step

LEMMA NextDone == Inv /\ DoneKept /\ [Next]_vars => DoneKept'
<1>. SUFFICES ASSUME Inv, DoneKept, [Next]_vars PROVE DoneKept'
  OBVIOUS
<1>0. TypeInv
  BY DEF Inv
<1>1. ASSUME NEW p \in Pairs, ByPoll(p) PROVE DoneKept'
  <2>1. ASSUME NEW q \in Pairs PROVE Completed(loc'[q], status', faults')
    <3>1. CASE q = p
      BY <1>0, <1>1, <3>1, DoneStep
    <3>2. CASE q # p
      BY <1>0, <1>1, <3>2, OthersWait, CompletedKept DEF DoneKept, ByPoll, Next
    <3>. QED BY <3>1, <3>2
  <2>. QED BY <2>1 DEF DoneKept
<1>2. CASE UserMovesIssue \/ UserMovesTask \/ UserEndsTask
  <2>1. loc' = loc
    BY <1>2 DEF UserMovesIssue, UserMovesTask, UserEndsTask
  <2>. QED BY <1>0, <1>2, <2>1, CompletedKept DEF DoneKept, Next
<1>3. CASE Crash
  BY <1>3 DEF Crash, DoneKept, Completed, Idle
<1>4. CASE UNCHANGED vars
  BY <1>4 DEF vars, stores, DoneKept
<1>. QED BY <1>1, <1>2, <1>3, <1>4 DEF Next, ByPoll

\* The copy made of a completed task is completed before the link is given
\* to it, whatever overlaps, if the call that should complete it succeeds.
THEOREM CopiesStayDone == Spec => []DoneStaysDone
<1>1. Init => DoneKept
  <2>1. SUFFICES ASSUME Init, NEW p \in Pairs PROVE Completed(loc[p], status, faults)
    BY DEF DoneKept
  <2>2. loc[p].pc = "idle"
    BY <2>1 DEF Init, Idle
  <2>. QED BY <2>2 DEF Completed
<1>2. DoneKept => DoneStaysDone
  BY DEF DoneKept, Completed, DoneStaysDone, At
<1>. QED BY <1>1, <1>2, InitInv, NextInv, NextDone, PTL DEF Spec
=============================================================================
