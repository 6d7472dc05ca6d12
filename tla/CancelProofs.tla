---------------------------- MODULE CancelProofs ----------------------------
(***************************************************************************)
(* That no issue of Rehome is marked canceled for nothing, if the polls take *)
(* turns: for any number of pairs, in any order, and any number of issues,   *)
(* tasks and links.                                                          *)
(*                                                                          *)
(* While no user has moved a task, every task is in the list of its row and  *)
(* is never missed (Home).  A task that was moved once is missed once by the *)
(* poll of its row's list at most: before that list's turn comes again comes *)
(* that of the list the task is in now, and its poll brings it back (Still). *)
(***************************************************************************)
EXTENDS RehomeProofs

HasRow(rs, i, t) == \E r \in rs : r.linear = i /\ r.ttid = t
NoRow(rs, t)     == \A r \in rs : r.ttid # t
Keyed(rs)        == \A r, s \in rs : r.ttid = s.ttid => r = s

Listing   == {"bulk", "tasks", "create", "upsert", "probe"}
Unlisting == {"links", "get", "hidden", "gone", "miss", "cancel", "tombstone"}
Between2  == {"idle", "bulk", "tasks", "links"}
OfARow    == {"probe"} \cup (Unlisting \ {"links"}) \cup Moving

\* What a poll has in hand belongs to rows, and to no row twice, as long as
\* nobody else changes them.
Held(l, rs) ==
    /\ l.pc \in Listing => l.listed
    /\ l.pc \in Unlisting => ~l.listed
    /\ IF l.listed THEN l.links = {} ELSE l.todo = {}
    /\ l.pc \in Between2 => l.tsk = None
    /\ l.tsk \notin l.todo
    /\ \A k \in l.links : k[2] # l.tsk /\ HasRow(rs, k[1], k[2])
    /\ \A k, m \in l.links : k[2] = m[2] => k = m
    /\ l.pc \in {"create", "upsert"} => NoRow(rs, l.tsk)
    /\ l.pc \in OfARow => HasRow(rs, l.iss, l.tsk)
    /\ l.pc \in Copied => l.new = l.tsk \/ NoRow(rs, l.new)
    /\ l.pc \in Deleting => l.new # l.tsk

Kept(p) ==
    /\ Keyed(rows)
    /\ At(p, "idle") => loc[p] = Idle
    /\ ~At(p, "idle") => \A k \in DOMAIN ctxs : ctxs[k] = p => turn = Following(k)
    /\ Held(loc[p], rows)

Flies(p, t) == loc[p].pc \in Moving /\ loc[p].tsk = t

\* No task was moved by its user: every task is in the list of its row, but
\* for the one that is being moved.
Home(p) ==
    /\ marked = {}
    /\ \A r \in rows : list[r.ttid] = r.list \/ Flies(p, r.ttid)
    /\ loc[p].pc \notin {"gone", "miss", "cancel", "tombstone"}
    /\ \A t \in loc[p].todo : list[t] = p
    /\ \A k \in loc[p].links : list[k[2]] = p
    /\ loc[p].pc \in {"create", "upsert", "get"} => list[loc[p].tsk] = p
    /\ loc[p].pc \in Copied => list[loc[p].new] = loc[p].to

\* From a to q, going round: t comes after a, and not after q.
Between(a, t, q) == IF a < q THEN a < t /\ t <= q ELSE t > a \/ t <= q

\* The poll is about to move the task of r ...
Afoot(p, r) ==
    \/ r.ttid \in loc[p].todo /\ list[r.ttid] = p
    \/ At(p, "probe") /\ loc[p].tsk = r.ttid /\ list[r.ttid] = p
    \/ Flies(p, r.ttid)
\* ... or one will be, before the poll of its row's list comes round.
Ahead(r) ==
    \A j, k \in DOMAIN ctxs :
        ctxs[j] = r.list /\ ctxs[k] = list[r.ttid] => Between(j, turn, k)

StillRow(p, r) ==
    /\ team[r.linear] = r.list
    /\ list[r.ttid] \in Pairs \/ Flies(p, r.ttid)
    /\ r.miss \in {0, 1}
    /\ r.miss = 1 /\ list[r.ttid] # r.list => Afoot(p, r) \/ Ahead(r)

NotMissed(t) == \A r \in rows : r.ttid = t => r.miss = 0

\* One task was moved, once, and no issue, and all tasks are open: the row
\* that was counted as missed once is not when its list is polled again.
StillLoc(p) ==
    /\ loc[p].pc \notin {"cancel", "tombstone", "recomplete"}
    /\ loc[p].stat = TT_OPEN
    /\ \A i \in loc[p].bulk : team[i] = p
    /\ loc[p].pc \in {"upsert", "get", "hidden", "gone", "miss"} => team[loc[p].iss] = p
    /\ \A k \in loc[p].links : team[k[1]] = p
    /\ loc[p].pc \in Moving => loc[p].to = team[loc[p].iss]
    /\ loc[p].pc \in Copied => list[loc[p].new] = loc[p].to
    /\ \A t \in loc[p].todo : list[t] # None
    /\ loc[p].pc \in {"create", "upsert"} => list[loc[p].tsk] # None
    /\ ~At(p, "idle") /\ loc[p].listed =>
         \A r \in rows : r.list = p => r.ttid \in loc[p].seen \/ r.miss = 0
    /\ \A k \in loc[p].links : k[2] \in loc[p].seen \/ NotMissed(k[2])
    /\ loc[p].pc \in {"get", "gone", "miss"} => NotMissed(loc[p].tsk)

Unmoved(p) ==
    /\ \A r \in rows : r.miss = 0
    /\ loc[p].pc \notin Moving \cup {"gone", "miss"}
    /\ At(p, "probe") => team[loc[p].iss] = p

Still(p) ==
    /\ marked = {}
    /\ \A t \in TaskIds : status[t] = TT_OPEN
    /\ \A r \in rows : StillRow(p, r)
    /\ StillLoc(p)
    /\ userops["move_task"] = 0 => Unmoved(p)

Untouched == faults = 0 /\ userops["move_task"] = 0
MovedOnce == /\ faults = 0 /\ userops["move_task"] <= 1
             /\ userops["move_issue"] = 0 /\ userops["end_task"] = 0

\* The poll of p runs, or none does.
Turn(p) ==
    /\ \A q \in Pairs \ {p} : loc[q] = Idle
    /\ Kept(p)
    /\ Untouched => Home(p)
    /\ MovedOnce => Still(p)

TurnInv == \E p \in Pairs : Turn(p)
----------------------------------------------------------------------------
(* What a step changes in the record of its poll, and in the rows            *)

Carries(p) == /\ loc'[p].seen = loc[p].seen /\ loc'[p].bulk = loc[p].bulk
              /\ loc'[p].todo = loc[p].todo /\ loc'[p].links = loc[p].links
              /\ loc'[p].listed = loc[p].listed
Handles(p) == /\ loc'[p].iss = loc[p].iss /\ loc'[p].tsk = loc[p].tsk
              /\ loc'[p].stat = loc[p].stat /\ loc'[p].to = loc[p].to
              /\ loc'[p].new = loc[p].new

LEMMA LocTypes ==
    ASSUME TypeInv, NEW p \in Pairs
    PROVE  /\ loc \in [Pairs -> Locals] /\ loc[p] \in Locals /\ Sound(loc[p], origin)
           /\ loc[p].todo \subseteq TaskIds /\ loc[p].links \subseteq IssueIds \X TaskIds
           /\ \A k \in loc[p].links : k[2] \in TaskIds /\ k[1] \in IssueIds
           /\ loc[p].bulk \subseteq IssueIds
           /\ loc[p].iss \in IssueIds \cup {None} /\ loc[p].tsk \in TaskIds \cup {None}
           /\ None \notin IssueIds /\ None \notin TaskIds /\ None \notin Pairs
BY IdsAssumption DEF TypeInv, LocalsSound, Locals

LEMMA GotoDoes ==
    ASSUME TypeInv, NEW p \in Pairs, NEW pc, Goto(p, pc)
    PROVE  loc'[p].pc = pc /\ Carries(p) /\ Handles(p)
BY LocTypes DEF Goto, Locals, Carries, Handles

LEMMA DoneDoes ==
    ASSUME TypeInv, NEW p \in Pairs, Done(p)
    PROVE  /\ loc'[p].pc = IF loc[p].listed THEN "tasks" ELSE "links"
           /\ Carries(p) /\ loc'[p].tsk = None /\ loc'[p].stat = TT_OPEN
<1>1. loc'[p] = NextItem(p)
  BY LocTypes DEF Done
<1>. QED BY <1>1, LocTypes DEF NextItem, Locals, Carries

LEMMA StartRehomeDoes ==
    ASSUME TypeInv, NEW p \in Pairs, NEW st, StartRehome(p, st)
    PROVE  /\ loc'[p].pc = "move" /\ loc'[p].to = team[loc[p].iss] /\ loc'[p].stat = st
           /\ loc'[p].iss = loc[p].iss /\ loc'[p].tsk = loc[p].tsk /\ Carries(p)
BY LocTypes DEF StartRehome, Locals, Carries

\* The row of what a poll has in hand, and how little rewriting it changes.
LEMMA TheRow ==
    ASSUME TypeInv, Keyed(rows), NEW i, NEW t, HasRow(rows, i, t)
    PROVE  \E r \in rows : RowOfTask(t) = {r} /\ r.linear = i /\ r.ttid = t /\ r \in Rows
<1>1. PICK r \in rows : r.linear = i /\ r.ttid = t
  BY DEF HasRow
<1>2. \A s \in rows : s.ttid = t => s = r
  BY <1>1 DEF Keyed
<1>. QED BY <1>1, <1>2, RowsOfAreRows DEF RowOfTask

LEMMA Rewritten ==
    ASSUME NEW rs, Keyed(rs), NEW r \in rs, NEW x, x.ttid = r.ttid, x.linear = r.linear
    PROVE  LET rs2 == (rs \ {r}) \cup {x}
           IN  /\ Keyed(rs2)
               /\ \A i, t : HasRow(rs, i, t) => HasRow(rs2, i, t)
               /\ \A t : NoRow(rs, t) => NoRow(rs2, t)
BY DEF Keyed, HasRow, NoRow

LEMMA Rekeyed ==
    ASSUME NEW rs, Keyed(rs), NEW r \in rs, NEW x, x.ttid = r.ttid \/ NoRow(rs, x.ttid)
    PROVE  LET rs2 == (rs \ {r}) \cup {x}
           IN  /\ Keyed(rs2)
               /\ \A i, t : t # r.ttid /\ HasRow(rs, i, t) => HasRow(rs2, i, t)
BY DEF Keyed, HasRow, NoRow

----------------------------------------------------------------------------
(* What a poll has in hand stays in the table                                *)

SameKeys == /\ Keyed(rows')
            /\ \A i, t : HasRow(rows, i, t) => HasRow(rows', i, t)
            /\ \A t : NoRow(rows, t) => NoRow(rows', t)

LEMMA Unwritten == ASSUME Keyed(rows), rows' = rows PROVE SameKeys
BY DEF SameKeys

\* The poll is done with one thing.
LEMMA KeptDone ==
    ASSUME TypeInv, NEW p \in Pairs, Kept(p), ~At(p, "idle"), Done(p), turn' = turn, Keyed(rows'),
           \A i, t : t # loc[p].tsk /\ HasRow(rows, i, t) => HasRow(rows', i, t)
    PROVE  Kept(p)'
<1>1. Held(loc[p], rows)
  BY DEF Kept
<1>2. /\ loc'[p].pc = IF loc[p].listed THEN "tasks" ELSE "links"
      /\ loc'[p].todo = loc[p].todo /\ loc'[p].links = loc[p].links
      /\ loc'[p].listed = loc[p].listed /\ loc'[p].tsk = None
  BY DoneDoes DEF Carries
<1>3. None \notin loc[p].todo /\ \A k \in loc[p].links : k[2] # None
  BY LocTypes
<1>4. Held(loc'[p], rows')
  BY <1>1, <1>2, <1>3 DEF Held, Listing, Unlisting, Between2, OfARow, Moving, Copied, Deleting
<1>. QED BY <1>2, <1>4 DEF Kept, At

\* It goes on with what it has in hand.
LEMMA KeptGoto ==
    ASSUME TypeInv, NEW p \in Pairs, Kept(p), ~At(p, "idle"), SameKeys, turn' = turn,
           Carries(p), loc'[p].tsk = loc[p].tsk, loc'[p].iss = loc[p].iss,
           \/ loc[p].pc \in OfARow \ Moving /\ loc'[p].pc \in OfARow \ (Copied \cup {"probe"})
                /\ (loc'[p].pc \in Unlisting => ~loc[p].listed)
           \/ loc[p].pc \in Moving /\ loc'[p].pc \in {"move", "check", "copy"}
           \/ loc[p].pc \in Copied /\ loc'[p].pc \in {"delete", "relocate"} /\ loc'[p].new = loc[p].new
                /\ (loc'[p].pc = "delete" => loc[p].pc = "recomplete")
    PROVE  Kept(p)'
<1>1. Held(loc[p], rows)
  BY DEF Kept
<1>2. Held(loc'[p], rows')
  BY <1>1 DEF Held, Listing, Unlisting, Between2, OfARow, Moving, Copied, Deleting, Carries, SameKeys
<1>3. loc'[p].pc # "idle"
  BY DEF OfARow, Unlisting, Moving, Copied
<1>. QED BY <1>2, <1>3 DEF Kept, At, SameKeys

----------------------------------------------------------------------------
(* The steps of the poll of p, one by one.  A step that only reads leaves    *)
(* rows and stores as they are.                                              *)

StepOK(p) ==
    /\ Kept(p)'
    /\ Untouched /\ Home(p) /\ faults' = 0 => Home(p)'
    /\ MovedOnce /\ Still(p) /\ (Untouched => Home(p)) /\ faults' = 0 => Still(p)'

Reads == UNCHANGED <<rows, marked, turn, userops>> /\ UNCHANGED stores

\* Of the rows nothing is lost from Still if no task in motion is let go.
LEMMA RowsStill ==
    ASSUME NEW p \in Pairs, Reads, \A r \in rows : StillRow(p, r),
           \A r \in rows : Flies(p, r.ttid) => Flies(p, r.ttid)',
           \A r \in rows : r.miss = 1 /\ list[r.ttid] # r.list /\ Afoot(p, r) => Afoot(p, r)'
    PROVE  \A r \in rows' : StillRow(p, r)'
BY DEF Reads, stores, StillRow, Ahead

LEMMA BulkStep ==
    ASSUME TypeInv, NEW p \in Pairs, Kept(p), PollBulk(p)
    PROVE  StepOK(p)
<1>0. Reads /\ At(p, "bulk") /\ Held(loc[p], rows) /\ rows' = rows
  BY DEF PollBulk, Reads, Kept
<1>. DEFINE b == {i \in IssueIds : team[i] = p}
<1>1. /\ loc'[p].pc = "tasks" /\ loc'[p].bulk = b /\ loc'[p].listed = loc[p].listed
      /\ loc'[p].todo = loc[p].todo /\ loc'[p].links = loc[p].links /\ loc'[p].seen = loc[p].seen
      /\ loc'[p].tsk = loc[p].tsk /\ loc'[p].stat = loc[p].stat
  BY LocTypes DEF PollBulk, Locals
<1>2. Kept(p)'
  <2>1. Held(loc'[p], rows)
    BY <1>0, <1>1 DEF Held, At, Listing, Unlisting, Between2, OfARow, Moving, Copied, Deleting
  <2>. QED BY <1>0, <1>1, <2>1 DEF Kept, At, Reads
<1>3. ASSUME Home(p) PROVE Home(p)'
  BY <1>0, <1>1, <1>3 DEF Home, At, Reads, stores, Flies, Moving, Copied
<1>4. ASSUME Still(p) PROVE Still(p)'
  <2>2. \A r \in rows' : StillRow(p, r)'
    <3>1. \A r \in rows : ~Flies(p, r.ttid)
      BY <1>0 DEF Flies, At, Moving
    <3>2. \A r \in rows : Afoot(p, r) => Afoot(p, r)'
      BY <1>0, <1>1, <3>1 DEF Afoot, At, Reads, stores
    <3>. QED BY <1>0, <1>4, <3>1, <3>2, RowsStill DEF Still
  <2>3. StillLoc(p)'
    BY <1>0, <1>1, <1>4 DEF Still, StillLoc, At, Reads, stores, NotMissed, Moving, Copied
  <2>4. Unmoved(p) => Unmoved(p)'
    BY <1>0, <1>1 DEF Unmoved, At, Reads, stores, Moving
  <2>. QED BY <1>0, <1>4, <2>2, <2>3, <2>4 DEF Still, Reads, stores
<1>. QED BY <1>2, <1>3, <1>4 DEF StepOK

LEMMA LinksStep ==
    ASSUME TypeInv, NEW p \in Pairs, Kept(p), PollLinks(p)
    PROVE  StepOK(p)
<1>0. Reads /\ At(p, "tasks") /\ Held(loc[p], rows) /\ loc[p].todo = {} /\ rows' = rows
      /\ loc[p].listed /\ loc[p].tsk = None
  BY DEF PollLinks, Reads, Kept, Held, Listing, Between2, At
<1>. DEFINE K == {<<r.linear, r.ttid>> : r \in {s \in rows : s.list = p /\ ~s.tombstoned}}
<1>1. /\ loc'[p].pc = "links" /\ loc'[p].bulk = loc[p].bulk /\ loc'[p].listed = FALSE
      /\ loc'[p].todo = {} /\ loc'[p].links = K /\ loc'[p].seen = loc[p].seen
      /\ loc'[p].tsk = None /\ loc'[p].stat = loc[p].stat
  BY <1>0, LocTypes DEF PollLinks, Locals
<1>2. \A k \in K : \E r \in rows : k[1] = r.linear /\ k[2] = r.ttid /\ r.list = p /\ k = <<r.linear, r.ttid>>
  OBVIOUS
<1>. HIDE DEF K
<1>3. Kept(p)'
  <2>1. \A k \in K : k[2] # None /\ HasRow(rows, k[1], k[2])
    BY <1>2, RowsOfAreRows, LocTypes DEF HasRow
  <2>2. \A k, m \in K : k[2] = m[2] => k = m
    BY <1>2 DEF Kept, Keyed
  <2>3. Held(loc'[p], rows)
    BY <1>0, <1>1, <2>1, <2>2 DEF Held, At, Listing, Unlisting, Between2, OfARow, Moving, Copied, Deleting
  <2>. QED BY <1>0, <1>1, <2>3 DEF Kept, At, Reads
<1>4. \A r \in rows : ~Flies(p, r.ttid) /\ ~Flies(p, r.ttid)'
  BY <1>0, <1>1 DEF Flies, At, Moving
<1>5. ASSUME Home(p) PROVE Home(p)'
  <2>1. \A k \in K : list[k[2]] = p
    BY <1>2, <1>4, <1>5 DEF Home
  <2>. QED BY <1>0, <1>1, <1>4, <1>5, <2>1 DEF Home, At, Reads, stores, Moving, Copied
<1>6. ASSUME Still(p) PROVE Still(p)'
  <2>1. \A r \in rows : ~Afoot(p, r)
    BY <1>0, <1>4 DEF Afoot, At
  <2>2. \A r \in rows' : StillRow(p, r)'
    BY <1>0, <1>4, <1>6, <2>1, RowsStill DEF Still
  <2>3. StillLoc(p)'
    <3>1. \A k \in K : team[k[1]] = p
      BY <1>2, <1>6 DEF Still, StillRow
    <3>2. ASSUME NEW k \in K PROVE k[2] \in loc[p].seen \/ NotMissed(k[2])
      <4>1. PICK r \in rows : k[2] = r.ttid /\ r.list = p
        BY <1>2
      <4>2. r.ttid \in loc[p].seen \/ r.miss = 0
        BY <1>0, <1>6, <4>1 DEF Still, StillLoc, At
      <4>3. \A s \in rows : s.ttid = r.ttid => s = r
        BY <4>1 DEF Kept, Keyed
      <4>. QED BY <4>1, <4>2, <4>3 DEF NotMissed
    <3>. QED BY <1>0, <1>1, <1>6, <3>1, <3>2 DEF Still, StillLoc, At, Reads, stores, NotMissed, Moving, Copied
  <2>4. Unmoved(p) => Unmoved(p)'
    BY <1>0, <1>1 DEF Unmoved, At, Reads, stores, Moving
  <2>. QED BY <1>0, <1>6, <2>2, <2>3, <2>4 DEF Still, Reads, stores
<1>. QED BY <1>3, <1>5, <1>6 DEF StepOK

LEMMA EndsStep ==
    ASSUME TypeInv, NEW p \in Pairs, Kept(p), PollEnds(p)
    PROVE  StepOK(p)
<1>0. Reads /\ At(p, "links") /\ Held(loc[p], rows) /\ rows' = rows /\ ~loc[p].listed
      /\ loc[p].todo = {} /\ loc'[p] = Idle
  BY LocTypes DEF PollEnds, Reads, Kept, Held, Unlisting, At
<1>1. /\ Idle.pc = "idle" /\ Idle.bulk = {} /\ Idle.listed = TRUE
      /\ Idle.todo = {} /\ Idle.links = {} /\ Idle.tsk = None /\ Idle.stat = TT_OPEN
  BY DEF Idle
<1>2. Kept(p)'
  <2>1. Held(Idle, rows)
    BY <1>1 DEF Held, Listing, Unlisting, Between2, OfARow, Moving, Copied, Deleting
  <2>. QED BY <1>0, <1>1, <2>1 DEF Kept, At, Reads
<1>3. \A r \in rows : ~Flies(p, r.ttid) /\ ~Flies(p, r.ttid)' /\ ~Afoot(p, r)
  BY <1>0, <1>1 DEF Flies, At, Moving, Afoot
<1>4. ASSUME Home(p) PROVE Home(p)'
  BY <1>0, <1>1, <1>3, <1>4 DEF Home, At, Reads, stores, Moving, Copied
<1>5. ASSUME Still(p) PROVE Still(p)'
  <2>1. \A r \in rows' : StillRow(p, r)'
    BY <1>0, <1>3, <1>5, RowsStill DEF Still
  <2>2. StillLoc(p)'
    BY <1>0, <1>1, <1>5 DEF Still, StillLoc, At, Reads, stores, Moving, Copied
  <2>3. Unmoved(p) => Unmoved(p)'
    BY <1>0, <1>1 DEF Unmoved, At, Reads, stores, Moving
  <2>. QED BY <1>0, <1>5, <2>1, <2>2, <2>3 DEF Still, Reads, stores
<1>. QED BY <1>2, <1>4, <1>5 DEF StepOK

\* What PollTask finds out about a task listed.
TaskTaken(p, t) ==
    \/ loc'[p].pc = "create" /\ loc'[p].tsk = t /\ NoRow(rows, t)
    \/ \E r \in rows :
         /\ r.ttid = t
         /\ IF r.linear \in loc[p].bulk
            THEN loc'[p].pc = "tasks" /\ loc'[p].tsk = None
            ELSE loc'[p].pc = "probe" /\ loc'[p].tsk = t /\ loc'[p].iss = r.linear

LEMMA TaskStep ==
    ASSUME TypeInv, NEW p \in Pairs, Kept(p), NEW t \in TaskIds, PollTask(p, t)
    PROVE  StepOK(p)
<1>0. /\ Reads /\ At(p, "tasks") /\ Held(loc[p], rows) /\ rows' = rows /\ loc[p].listed
      /\ loc[p].links = {} /\ loc[p].tsk = None /\ t \in loc[p].todo /\ Keyed(rows) /\ t # None
  BY LocTypes DEF PollTask, Reads, Kept, Held, Listing, Between2, At
<1>1. /\ loc'[p].bulk = loc[p].bulk /\ loc'[p].listed = TRUE /\ loc'[p].seen = loc[p].seen
      /\ loc'[p].todo = loc[p].todo \ {t} /\ loc'[p].links = {} /\ loc'[p].stat = loc[p].stat
      /\ TaskTaken(p, t)
  <2>. DEFINE l == [loc[p] EXCEPT !.todo = @ \ {t}]
  <2>1. /\ l.pc = "tasks" /\ l.todo = loc[p].todo \ {t} /\ l.bulk = loc[p].bulk /\ l.tsk = None
        /\ l.listed = TRUE /\ l.seen = loc[p].seen /\ l.links = {} /\ l.stat = loc[p].stat
        /\ l \in Locals
    BY <1>0, LocTypes DEF Locals, At
  <2>2. \/ RowOfTask(t) = {} /\ loc'[p] = [l EXCEPT !.pc = "create", !.tsk = t]
        \/ \E r \in RowOfTask(t) :
              loc'[p] = IF r.linear \in l.bulk THEN l
                        ELSE [l EXCEPT !.pc = "probe", !.iss = r.linear, !.tsk = t]
    BY LocTypes DEF PollTask
  <2>. HIDE DEF l
  <2>3. CASE RowOfTask(t) = {} /\ loc'[p] = [l EXCEPT !.pc = "create", !.tsk = t]
    <3>1. NoRow(rows, t)
      BY <2>3 DEF NoRow, RowOfTask
    <3>. QED BY <2>1, <2>3, <3>1 DEF Locals, TaskTaken
  <2>4. ASSUME NEW r \in RowOfTask(t),
               loc'[p] = IF r.linear \in l.bulk THEN l
                         ELSE [l EXCEPT !.pc = "probe", !.iss = r.linear, !.tsk = t]
        PROVE  /\ loc'[p].bulk = loc[p].bulk /\ loc'[p].listed = TRUE /\ loc'[p].seen = loc[p].seen
               /\ loc'[p].todo = loc[p].todo \ {t} /\ loc'[p].links = {} /\ loc'[p].stat = loc[p].stat
               /\ TaskTaken(p, t)
    <3>1. r \in rows /\ r.ttid = t
      BY DEF RowOfTask
    <3>2. CASE r.linear \in l.bulk
      BY <2>1, <2>4, <3>1, <3>2 DEF TaskTaken
    <3>3. CASE r.linear \notin l.bulk
      <4>1. /\ loc'[p].pc = "probe" /\ loc'[p].tsk = t /\ loc'[p].iss = r.linear
            /\ loc'[p].bulk = l.bulk /\ loc'[p].listed = l.listed /\ loc'[p].seen = l.seen
            /\ loc'[p].todo = l.todo /\ loc'[p].links = l.links /\ loc'[p].stat = l.stat
        BY <2>1, <2>4, <3>3 DEF Locals
      <4>. QED BY <2>1, <3>1, <3>3, <4>1 DEF TaskTaken
    <3>. QED BY <3>2, <3>3
  <2>. QED BY <2>2, <2>3, <2>4
<1>2. Kept(p)'
  <2>1. Held(loc'[p], rows)
    BY <1>0, <1>1 DEF Held, At, Listing, Unlisting, Between2, OfARow, Moving, Copied, Deleting, HasRow, TaskTaken
  <2>. QED BY <1>0, <1>1, <2>1 DEF Kept, At, Reads, TaskTaken
<1>3. \A r \in rows : ~Flies(p, r.ttid) /\ ~Flies(p, r.ttid)'
  BY <1>0, <1>1 DEF TaskTaken, Flies, At, Moving
<1>4. ASSUME Home(p) PROVE Home(p)'
  BY <1>0, <1>1, <1>3, <1>4 DEF Home, At, Reads, stores, Moving, Copied, TaskTaken
<1>5. ASSUME Still(p), MovedOnce, Untouched => Home(p) PROVE Still(p)'
  <2>1. \A r \in rows' : StillRow(p, r)'
    <3>1. ASSUME NEW r \in rows, list[r.ttid] # r.list, Afoot(p, r) PROVE Afoot(p, r)'
      <4>1. r.ttid \in loc[p].todo /\ list[r.ttid] = p
        BY <1>0, <1>3, <3>1 DEF Afoot, At
      <4>2. CASE r.ttid # t
        BY <1>0, <1>1, <4>1, <4>2 DEF Afoot, Reads, stores
      <4>3. CASE r.ttid = t
        <5>1. r.linear \notin loc[p].bulk
          BY <1>5, <3>1, <4>1 DEF Still, StillRow, StillLoc
        <5>2. loc'[p].pc = "probe" /\ loc'[p].tsk = t
          BY <1>0, <1>1, <4>3, <5>1 DEF NoRow, Keyed, TaskTaken
        <5>. QED BY <1>0, <4>1, <4>3, <5>2 DEF Afoot, At, Reads, stores
      <4>. QED BY <4>2, <4>3
    <3>. QED BY <1>0, <1>3, <1>5, <3>1, RowsStill DEF Still
  <2>2. StillLoc(p)'
    BY <1>0, <1>1, <1>5 DEF Still, StillLoc, At, Reads, stores, NotMissed, Moving, Copied, TaskTaken
  <2>3. userops["move_task"] = 0 => Unmoved(p)'
    <3>1. SUFFICES ASSUME userops["move_task"] = 0, Unmoved(p) PROVE Unmoved(p)'
      BY <1>5 DEF Still
    <3>2. CASE loc'[p].pc # "probe"
      BY <1>0, <1>1, <3>1, <3>2 DEF Unmoved, At, Reads, stores, Moving, TaskTaken
    <3>3. CASE loc'[p].pc = "probe"
      <4>1. PICK r \in rows : r.ttid = t /\ loc'[p].iss = r.linear
        BY <1>0, <1>1, <3>3 DEF TaskTaken
      <4>2. team[r.linear] = r.list
        BY <1>5 DEF Still, StillRow
      <4>. QED BY <1>0, <1>1, <1>3, <1>5, <3>1, <3>3, <4>1, <4>2
               DEF Unmoved, At, Reads, stores, Moving, Home, Untouched, MovedOnce
    <3>. QED BY <3>2, <3>3
  <2>. QED BY <1>0, <1>5, <2>1, <2>2, <2>3 DEF Still, Reads, stores
<1>. QED BY <1>2, <1>4, <1>5 DEF StepOK

LEMMA CreateStep ==
    ASSUME TypeInv, NEW p \in Pairs, Kept(p), CreateIssue(p)
    PROVE  StepOK(p)
<1>0. /\ UNCHANGED <<list, status, rows, marked, turn, userops>> /\ At(p, "create")
      /\ Held(loc[p], rows) /\ loc[p].listed /\ NoRow(rows, loc[p].tsk) /\ loc[p].links = {}
  BY DEF CreateIssue, Kept, Held, Listing, At
<1>1. PICK i \in IssueIds : /\ team[i] = None /\ team' = [team EXCEPT ![i] = p]
                            /\ loc' = [loc EXCEPT ![p].pc = "upsert", ![p].iss = i]
  BY DEF CreateIssue
<1>2. /\ loc'[p].pc = "upsert" /\ loc'[p].iss = i /\ Carries(p) /\ loc'[p].tsk = loc[p].tsk
      /\ loc'[p].stat = loc[p].stat
  BY <1>1, LocTypes DEF Locals, Carries
<1>3. team'[i] = p /\ \A j \in IssueIds : team[j] # None => team'[j] = team[j]
  BY <1>1 DEF TypeInv, StoresOK
<1>4. Kept(p)'
  <2>1. Held(loc'[p], rows)
    BY <1>0, <1>2 DEF Held, At, Listing, Unlisting, Between2, OfARow, Moving, Copied, Deleting, Carries
  <2>. QED BY <1>0, <1>2, <2>1 DEF Kept, At
<1>5. \A r \in rows : ~Flies(p, r.ttid) /\ ~Flies(p, r.ttid)'
  BY <1>0, <1>2 DEF Flies, At, Moving
<1>6. ASSUME Home(p) PROVE Home(p)'
  BY <1>0, <1>2, <1>5, <1>6 DEF Home, At, Moving, Copied, Carries
<1>7. ASSUME Still(p) PROVE Still(p)'
  <2>1. \A r \in rows' : StillRow(p, r)'
    <3>1. \A r \in rows : Afoot(p, r) => Afoot(p, r)'
      BY <1>0, <1>2, <1>5 DEF Afoot, At, Carries
    <3>2. \A r \in rows : team'[r.linear] = r.list
      BY <1>3, <1>7, RowsOfAreRows, LocTypes DEF Still, StillRow, Rows
    <3>. QED BY <1>0, <1>5, <1>7, <3>1, <3>2 DEF Still, StillRow, Ahead
  <2>2. StillLoc(p)'
    <3>1. \A j \in loc[p].bulk : team'[j] = p
      BY <1>3, <1>7, LocTypes DEF Still, StillLoc
    <3>. QED BY <1>0, <1>2, <1>3, <1>7, <3>1
             DEF Still, StillLoc, At, NotMissed, Moving, Copied, Carries
  <2>3. Unmoved(p) => Unmoved(p)'
    BY <1>0, <1>2 DEF Unmoved, At, Moving
  <2>. QED BY <1>0, <1>7, <2>1, <2>2, <2>3 DEF Still
<1>. QED BY <1>4, <1>6, <1>7 DEF StepOK

LEMMA UpsertStep ==
    ASSUME TypeInv, NEW p \in Pairs, Kept(p), UpsertRow(p)
    PROVE  StepOK(p)
<1>a. PICK i, t, x : /\ i = loc[p].iss /\ t = loc[p].tsk
                     /\ x = [linear |-> i, ttid |-> t, list |-> p, miss |-> 0, tombstoned |-> FALSE]
  OBVIOUS
<1>0. /\ UNCHANGED <<team, list, status, marked, turn, userops>> /\ At(p, "upsert")
      /\ Held(loc[p], rows) /\ loc[p].listed /\ NoRow(rows, t) /\ Keyed(rows)
      /\ Done(p) /\ ~At(p, "idle") /\ loc[p].links = {}
  BY <1>a DEF UpsertRow, Kept, Held, Listing, At, stores
<1>1. /\ loc'[p].pc = "tasks" /\ Carries(p) /\ loc'[p].tsk = None /\ loc'[p].stat = TT_OPEN
      /\ loc'[p].listed
  BY <1>0, DoneDoes DEF Carries
<1>2. rows' = rows \cup {x}
  <2>1. RowOfTask(t) = {}
    BY <1>0 DEF RowOfTask, NoRow
  <2>. QED BY <1>a, <2>1 DEF UpsertRow
<1>3. x.ttid = t /\ x.linear = i /\ x.list = p /\ x.miss = 0
  BY <1>a
<1>4. Kept(p)'
  <2>1. Keyed(rows') /\ \A j, u : HasRow(rows, j, u) => HasRow(rows', j, u)
    BY <1>0, <1>2, <1>3 DEF Keyed, HasRow, NoRow
  <2>. QED BY <1>0, <1>a, <2>1, KeptDone
<1>5. \A u : ~Flies(p, u) /\ ~Flies(p, u)'
  BY <1>0, <1>1 DEF Flies, At, Moving
<1>6. ASSUME Home(p) PROVE Home(p)'
  BY <1>a, <1>0, <1>1, <1>2, <1>3, <1>5, <1>6 DEF Home, At, Moving, Copied, Carries
<1>7. ASSUME Still(p) PROVE Still(p)'
  <2>1. StillRow(p, x)'
    <3>1. team[i] = p /\ list[t] # None /\ list[t] \in Pairs \cup {None}
      BY <1>a, <1>0, <1>7, LocTypes DEF Still, StillLoc, At, TypeInv, StoresOK, Sound, Asking
    <3>. QED BY <1>0, <1>3, <3>1 DEF StillRow
  <2>2. \A r \in rows : StillRow(p, r)'
    <3>1. \A r \in rows : Afoot(p, r) => Afoot(p, r)'
      BY <1>0, <1>1, <1>5 DEF Afoot, At, Carries
    <3>. QED BY <1>0, <1>5, <1>7, <3>1 DEF Still, StillRow, Ahead
  <2>3. StillLoc(p)'
    BY <1>a, <1>0, <1>1, <1>2, <1>3, <1>7
       DEF Still, StillLoc, At, NotMissed, Moving, Copied, Carries
  <2>4. Unmoved(p) => Unmoved(p)'
    BY <1>a, <1>0, <1>1, <1>2, <1>3 DEF Unmoved, At, Moving
  <2>. QED BY <1>0, <1>2, <1>7, <2>1, <2>2, <2>3, <2>4 DEF Still
<1>. QED BY <1>4, <1>6, <1>7 DEF StepOK

LEMMA ProbeStep ==
    ASSUME TypeInv, NEW p \in Pairs, Kept(p), Probe(p)
    PROVE  StepOK(p)
<1>0. /\ Reads /\ At(p, "probe") /\ Held(loc[p], rows) /\ rows' = rows /\ loc[p].listed
      /\ loc[p].links = {} /\ HasRow(rows, loc[p].iss, loc[p].tsk) /\ ~At(p, "idle") /\ Keyed(rows)
      /\ \A r \in rows : ~Flies(p, r.ttid)
  BY DEF Probe, Reads, Kept, Held, Listing, OfARow, At, Flies, Moving
<1>1. PICK r \in rows : r.linear = loc[p].iss /\ r.ttid = loc[p].tsk
  BY <1>0 DEF HasRow
<1>2. CASE MovedAway(p, loc[p].iss)
  <2>1. /\ loc'[p].pc = "move" /\ Carries(p) /\ loc'[p].to = team[loc[p].iss]
        /\ loc'[p].iss = loc[p].iss /\ loc'[p].tsk = loc[p].tsk /\ loc'[p].stat = TT_OPEN
    BY <1>2, StartRehomeDoes DEF Probe
  <2>2. Kept(p)'
    <3>1. Held(loc'[p], rows)
      BY <1>0, <2>1 DEF Held, At, Listing, Unlisting, Between2, OfARow, Moving, Copied, Deleting, Carries
    <3>. QED BY <1>0, <2>1, <3>1 DEF Kept, At, Reads
  <2>3. ASSUME Home(p) PROVE Home(p)'
    BY <1>0, <2>1, <2>3 DEF Home, At, Reads, stores, Copied, Carries
  <2>4. ASSUME Still(p) PROVE Still(p)'
    <3>1. \A s \in rows' : StillRow(p, s)'
      <4>1. \A s \in rows : Afoot(p, s) => Afoot(p, s)'
        BY <1>0, <2>1 DEF Afoot, At, Reads, stores, Carries, Flies, Moving
      <4>. QED BY <1>0, <2>4, <4>1, RowsStill DEF Still
    <3>2. StillLoc(p)'
      BY <1>0, <2>1, <2>4 DEF Still, StillLoc, At, Reads, stores, NotMissed, Copied, Carries
    <3>3. ~Unmoved(p)
      BY <1>0, <1>2 DEF Unmoved, MovedAway
    <3>. QED BY <1>0, <2>4, <3>1, <3>2, <3>3 DEF Still, Reads, stores
  <2>. QED BY <2>2, <2>3, <2>4 DEF StepOK
<1>3. CASE ~MovedAway(p, loc[p].iss)
  <2>1. Done(p)
    BY <1>3 DEF Probe
  <2>2. /\ loc'[p].pc = "tasks" /\ Carries(p) /\ loc'[p].tsk = None /\ loc'[p].stat = TT_OPEN
    BY <1>0, <2>1, DoneDoes
  <2>3. Kept(p)'
    BY <1>0, <2>1, KeptDone DEF Reads
  <2>4. ASSUME Home(p) PROVE Home(p)'
    BY <1>0, <2>2, <2>4 DEF Home, At, Reads, stores, Copied, Carries
  <2>5. ASSUME Still(p) PROVE Still(p)'
    <3>1. \A s \in rows' : StillRow(p, s)'
      <4>1. ASSUME NEW s \in rows, list[s.ttid] # s.list, Afoot(p, s) PROVE Afoot(p, s)'
        <5>1. CASE s.ttid \in loc[p].todo /\ list[s.ttid] = p
          BY <1>0, <2>2, <5>1 DEF Afoot, Reads, stores, Carries
        <5>2. CASE loc[p].tsk = s.ttid /\ list[s.ttid] = p
          <6>1. s = r
            BY <1>0, <1>1, <5>2 DEF Keyed
          <6>2. s.list = team[s.linear] /\ s.list \in Pairs
            BY <2>5, RowsOfAreRows DEF Still, StillRow, Rows
          <6>. QED BY <1>1, <1>3, <4>1, <5>2, <6>1, <6>2 DEF MovedAway
        <5>. QED BY <1>0, <4>1, <5>1, <5>2 DEF Afoot
      <4>. QED BY <1>0, <2>5, <4>1, RowsStill DEF Still
    <3>2. StillLoc(p)'
      BY <1>0, <2>2, <2>5 DEF Still, StillLoc, At, Reads, stores, NotMissed, Moving, Copied, Carries
    <3>3. Unmoved(p) => Unmoved(p)'
      BY <1>0, <2>2 DEF Unmoved, At, Reads, stores, Moving
    <3>. QED BY <1>0, <2>5, <3>1, <3>2, <3>3 DEF Still, Reads, stores
  <2>. QED BY <2>3, <2>4, <2>5 DEF StepOK
<1>. QED BY <1>2, <1>3

LEMMA HiddenStep ==
    ASSUME TypeInv, NEW p \in Pairs, Kept(p), Hidden(p)
    PROVE  StepOK(p)
<1>0. /\ Reads /\ At(p, "hidden") /\ Held(loc[p], rows) /\ rows' = rows /\ ~loc[p].listed
      /\ loc[p].todo = {} /\ HasRow(rows, loc[p].iss, loc[p].tsk) /\ ~At(p, "idle") /\ Keyed(rows)
      /\ \A r \in rows : ~Flies(p, r.ttid)
  BY DEF Hidden, Reads, Kept, Held, Unlisting, OfARow, At, Flies, Moving
<1>1. CASE MovedAway(p, loc[p].iss)
  <2>1. /\ loc'[p].pc = "move" /\ Carries(p) /\ loc'[p].to = team[loc[p].iss]
        /\ loc'[p].iss = loc[p].iss /\ loc'[p].tsk = loc[p].tsk /\ loc'[p].stat = loc[p].stat
    BY <1>1, StartRehomeDoes DEF Hidden
  <2>2. Kept(p)'
    <3>1. Held(loc'[p], rows)
      BY <1>0, <2>1 DEF Held, At, Listing, Unlisting, Between2, OfARow, Moving, Copied, Deleting, Carries
    <3>. QED BY <1>0, <2>1, <3>1 DEF Kept, At, Reads
  <2>3. ASSUME Home(p) PROVE Home(p)'
    BY <1>0, <2>1, <2>3 DEF Home, At, Reads, stores, Copied, Carries
  <2>4. ~Still(p)
    BY <1>0, <1>1 DEF Still, StillLoc, At, MovedAway
  <2>. QED BY <2>2, <2>3, <2>4 DEF StepOK
<1>2. CASE ~MovedAway(p, loc[p].iss)
  <2>1. Done(p)
    BY <1>2 DEF Hidden
  <2>2. /\ loc'[p].pc = "links" /\ Carries(p) /\ loc'[p].tsk = None /\ loc'[p].stat = TT_OPEN
    BY <1>0, <2>1, DoneDoes
  <2>3. Kept(p)'
    BY <1>0, <2>1, KeptDone DEF Reads
  <2>4. ASSUME Home(p) PROVE Home(p)'
    BY <1>0, <2>2, <2>4 DEF Home, At, Reads, stores, Copied, Carries
  <2>5. ASSUME Still(p) PROVE Still(p)'
    <3>1. \A s \in rows' : StillRow(p, s)'
      <4>1. \A s \in rows : ~Afoot(p, s)
        BY <1>0 DEF Afoot, At
      <4>. QED BY <1>0, <2>5, <4>1, RowsStill DEF Still
    <3>2. StillLoc(p)'
      BY <1>0, <2>2, <2>5 DEF Still, StillLoc, At, Reads, stores, NotMissed, Moving, Copied, Carries
    <3>3. Unmoved(p) => Unmoved(p)'
      BY <1>0, <2>2 DEF Unmoved, At, Reads, stores, Moving
    <3>. QED BY <1>0, <2>5, <3>1, <3>2, <3>3 DEF Still, Reads, stores
  <2>. QED BY <2>3, <2>4, <2>5 DEF StepOK
<1>. QED BY <1>1, <1>2

\* The miss count of t is set to 0.
LEMMA ResetIsOne ==
    ASSUME TypeInv, Keyed(rows), NEW i, NEW t, HasRow(rows, i, t), rows' = ResetMiss(t)
    PROVE  /\ SameKeys
           /\ \A x \in rows' : \E r \in rows : /\ x.ttid = r.ttid /\ x.linear = r.linear /\ x.list = r.list
                                              /\ x.miss = (IF r.ttid = t THEN 0 ELSE r.miss)
<1>1. PICK r \in rows : RowOfTask(t) = {r} /\ r.ttid = t /\ r \in Rows
  BY TheRow
<1>. DEFINE f(s) == [s EXCEPT !.miss = 0]
            x == f(r)
<1>2. x.ttid = r.ttid /\ x.linear = r.linear /\ x.list = r.list /\ x.miss = 0
  BY <1>1 DEF Rows
<1>3. rows' = (rows \ {r}) \cup {x}
  BY <1>1 DEF ResetMiss
<1>. HIDE DEF x
<1>4. SameKeys
  BY <1>2, <1>3, Rewritten DEF SameKeys
<1>5. \A s \in rows : s.ttid = t => s = r
  BY <1>1 DEF Keyed
<1>. QED BY <1>1, <1>2, <1>3, <1>4, <1>5

\* Rows whose miss counts are reset, if anything, are as good as before.
LEMMA ResetStill ==
    ASSUME NEW p \in Pairs, UNCHANGED <<stores, turn>>, \A r \in rows : StillRow(p, r),
           \A r \in rows : Flies(p, r.ttid) => Flies(p, r.ttid)',
           \A r \in rows : Afoot(p, r) => Afoot(p, r)',
           \A x \in rows' : \E r \in rows : /\ x.ttid = r.ttid /\ x.linear = r.linear /\ x.list = r.list
                                           /\ (x.miss = 0 \/ x.miss = r.miss)
    PROVE  \A x \in rows' : StillRow(p, x)'
<1>1. ASSUME NEW x \in rows' PROVE StillRow(p, x)'
  <2>1. PICK r \in rows : /\ x.ttid = r.ttid /\ x.linear = r.linear /\ x.list = r.list
                          /\ (x.miss = 0 \/ x.miss = r.miss)
    OBVIOUS
  <2>2. StillRow(p, r) /\ (Flies(p, r.ttid) => Flies(p, r.ttid)') /\ (Afoot(p, r) => Afoot(p, r)')
    OBVIOUS
  <2>3. Afoot(p, r)' => Afoot(p, x)'
    BY <2>1 DEF Afoot
  <2>. QED BY <2>1, <2>2, <2>3 DEF StillRow, Ahead, stores
<1>. QED BY <1>1

LEMMA LinkStep ==
    ASSUME TypeInv, NEW p \in Pairs, Kept(p), NEW k \in IssueIds \X TaskIds, PollLink(p, k)
    PROVE  StepOK(p)
<1>0. /\ UNCHANGED <<marked, turn, userops>> /\ UNCHANGED stores /\ At(p, "links")
      /\ Held(loc[p], rows) /\ ~loc[p].listed /\ loc[p].todo = {} /\ Keyed(rows)
      /\ k \in loc[p].links /\ HasRow(rows, k[1], k[2]) /\ loc[p].tsk = None /\ k[2] # None
  BY LocTypes DEF PollLink, Kept, Held, Unlisting, Between2, At
<1>1. /\ loc'[p].bulk = loc[p].bulk /\ ~loc'[p].listed /\ loc'[p].seen = loc[p].seen
      /\ loc'[p].todo = {} /\ loc'[p].links = loc[p].links \ {k} /\ loc'[p].stat = loc[p].stat
      /\ \/ /\ k[2] \in loc[p].seen /\ rows' = ResetMiss(k[2])
            /\ loc'[p].pc = "links" /\ loc'[p].tsk = None
         \/ /\ k[2] \notin loc[p].seen /\ rows' = rows
            /\ loc'[p].pc = "get" /\ loc'[p].tsk = k[2] /\ loc'[p].iss = k[1]
  <2>. DEFINE l == [loc[p] EXCEPT !.links = @ \ {k}]
  <2>1. /\ l.pc = "links" /\ l.todo = {} /\ l.bulk = loc[p].bulk /\ l.tsk = None /\ ~l.listed
        /\ l.seen = loc[p].seen /\ l.links = loc[p].links \ {k} /\ l.stat = loc[p].stat
        /\ l \in Locals
    BY <1>0, LocTypes DEF Locals, At
  <2>2. \/ l.seen = loc[p].seen /\ k[2] \in loc[p].seen /\ rows' = ResetMiss(k[2]) /\ loc'[p] = l
        \/ k[2] \notin loc[p].seen /\ rows' = rows
             /\ loc'[p] = [l EXCEPT !.pc = "get", !.iss = k[1], !.tsk = k[2]]
    BY <2>1, LocTypes DEF PollLink
  <2>. HIDE DEF l
  <2>. QED BY <2>1, <2>2 DEF Locals
<1>2. /\ SameKeys
      /\ \A x \in rows' : \E r \in rows : /\ x.ttid = r.ttid /\ x.linear = r.linear /\ x.list = r.list
                                         /\ (x.miss = 0 \/ x.miss = r.miss)
  BY <1>0, <1>1, ResetIsOne, Unwritten
<1>3. Kept(p)'
  <2>1. Held(loc'[p], rows')
    BY <1>0, <1>1, <1>2
       DEF Held, At, Listing, Unlisting, Between2, OfARow, Moving, Copied, Deleting, SameKeys
  <2>. QED BY <1>0, <1>1, <1>2, <2>1 DEF Kept, At, SameKeys
<1>4. \A u : ~Flies(p, u) /\ ~Flies(p, u)'
  BY <1>0, <1>1 DEF Flies, At, Moving
<1>5. ASSUME Home(p) PROVE Home(p)'
  <2>1. \A x \in rows' : list[x.ttid] = x.list
    BY <1>2, <1>4, <1>5 DEF Home
  <2>. QED BY <1>0, <1>1, <1>4, <1>5, <2>1 DEF Home, At, stores, Moving, Copied
<1>6. ASSUME Still(p) PROVE Still(p)'
  <2>1. \A x \in rows' : StillRow(p, x)'
    <3>1. \A r \in rows : ~Afoot(p, r)
      BY <1>0, <1>4 DEF Afoot, At
    <3>. QED BY <1>0, <1>2, <1>4, <1>6, <3>1, ResetStill DEF Still
  <2>2. \A u : NotMissed(u) => NotMissed(u)'
    BY <1>2 DEF NotMissed
  <2>3. StillLoc(p)'
    BY <1>0, <1>1, <1>6, <2>2 DEF Still, StillLoc, At, stores, Moving, Copied
  <2>4. Unmoved(p) => Unmoved(p)'
    BY <1>0, <1>1, <1>2 DEF Unmoved, At, stores, Moving
  <2>. QED BY <1>0, <1>6, <2>1, <2>3, <2>4 DEF Still, stores
<1>. QED BY <1>3, <1>5, <1>6 DEF StepOK

LEMMA GetStep ==
    ASSUME TypeInv, NEW p \in Pairs, Kept(p), GetTask(p)
    PROVE  StepOK(p)
<1>0. /\ UNCHANGED <<marked, turn, userops>> /\ UNCHANGED stores /\ At(p, "get")
      /\ Held(loc[p], rows) /\ ~loc[p].listed /\ loc[p].todo = {} /\ Keyed(rows)
      /\ HasRow(rows, loc[p].iss, loc[p].tsk) /\ loc[p].pc \in OfARow /\ loc[p].pc \notin Moving
      /\ ~At(p, "idle") /\ loc[p].tsk \in TaskIds
  BY LocTypes DEF GetTask, Kept, Held, Unlisting, OfARow, Moving, At, Sound, Asking
<1>1. /\ Carries(p)
      /\ \/ loc'[p].pc = "links" /\ loc'[p].tsk = None /\ loc'[p].stat = TT_OPEN /\ Done(p)
              /\ list[loc[p].tsk] = p
         \/ /\ list[loc[p].tsk] = p /\ loc'[p].pc = "hidden" /\ loc'[p].tsk = loc[p].tsk
            /\ loc'[p].iss = loc[p].iss /\ loc'[p].stat = status[loc[p].tsk]
         \/ /\ list[loc[p].tsk] # p /\ loc'[p].pc = "gone" /\ loc'[p].tsk = loc[p].tsk
            /\ loc'[p].iss = loc[p].iss /\ loc'[p].stat = loc[p].stat
  <2>1. CASE Done(p) /\ list[loc[p].tsk] = p
    BY <1>0, <2>1, DoneDoes
  <2>2. CASE Goto(p, "gone") /\ list[loc[p].tsk] # p
    BY <2>2, GotoDoes DEF Handles
  <2>3. CASE list[loc[p].tsk] = p
             /\ loc' = [loc EXCEPT ![p].pc = "hidden", ![p].stat = status[loc[p].tsk]]
    BY <2>3, LocTypes DEF Locals, Carries
  <2>. QED BY <2>1, <2>2, <2>3 DEF GetTask
<1>2. /\ SameKeys
      /\ \A x \in rows' : \E r \in rows : /\ x.ttid = r.ttid /\ x.linear = r.linear /\ x.list = r.list
                                         /\ (x.miss = 0 \/ x.miss = r.miss)
  <2>1. rows' = ResetMiss(loc[p].tsk) \/ rows' = rows
    BY DEF GetTask
  <2>. QED BY <1>0, <2>1, ResetIsOne, Unwritten
<1>3. Kept(p)'
  <2>1. CASE Done(p)
    BY <1>0, <1>2, <2>1, KeptDone DEF SameKeys
  <2>2. CASE loc'[p].pc \in {"hidden", "gone"} /\ loc'[p].tsk = loc[p].tsk /\ loc'[p].iss = loc[p].iss
    BY <1>0, <1>1, <1>2, <2>2, KeptGoto DEF OfARow, Unlisting, Moving, Copied
  <2>. QED BY <1>1, <2>1, <2>2
<1>4. \A u : ~Flies(p, u) /\ ~Flies(p, u)'
  BY <1>0, <1>1 DEF Flies, Moving
<1>5. ASSUME Home(p) PROVE Home(p)'
  <2>1. \A x \in rows' : list[x.ttid] = x.list
    BY <1>2, <1>4, <1>5 DEF Home
  <2>. QED BY <1>0, <1>1, <1>4, <1>5, <2>1 DEF Home, At, stores, Moving, Copied, Carries
<1>6. ASSUME Still(p), MovedOnce, Untouched => Home(p) PROVE Still(p)'
  <2>1. \A x \in rows' : StillRow(p, x)'
    <3>1. \A r \in rows : ~Afoot(p, r)
      BY <1>0, <1>4 DEF Afoot, At
    <3>. QED BY <1>0, <1>2, <1>4, <1>6, <3>1, ResetStill DEF Still
  <2>2. \A u : NotMissed(u) => NotMissed(u)'
    BY <1>2 DEF NotMissed
  <2>3. StillLoc(p)'
    BY <1>0, <1>1, <1>6, <2>2 DEF Still, StillLoc, At, stores, Moving, Copied, Carries
  <2>4. userops["move_task"] = 0 => Unmoved(p)'
    <3>1. SUFFICES ASSUME userops["move_task"] = 0, Unmoved(p) PROVE Unmoved(p)'
      BY <1>6 DEF Still
    <3>2. list[loc[p].tsk] = p
      BY <1>0, <1>6, <3>1 DEF MovedOnce, Untouched, Home, At
    <3>. QED BY <1>0, <1>1, <1>2, <3>1, <3>2 DEF Unmoved, At, stores, Moving
  <2>. QED BY <1>0, <1>6, <2>1, <2>3, <2>4 DEF Still, stores
<1>. QED BY <1>3, <1>5, <1>6 DEF StepOK

LEMMA GoneStep ==
    ASSUME TypeInv, NEW p \in Pairs, Kept(p), Gone(p)
    PROVE  StepOK(p)
<1>0. /\ UNCHANGED <<marked, turn, userops>> /\ UNCHANGED stores /\ At(p, "gone")
      /\ Held(loc[p], rows) /\ ~loc[p].listed /\ loc[p].todo = {} /\ Keyed(rows)
      /\ loc[p].pc \in OfARow /\ loc[p].pc \notin Moving /\ ~At(p, "idle")
  BY DEF Gone, Kept, Held, Unlisting, OfARow, Moving, At
<1>1. ~Home(p)
  BY <1>0 DEF Home, At
<1>2. CASE MovedAway(p, loc[p].iss)
  <2>. DEFINE to == team[loc[p].iss]
              R == RowOfIssue(loc[p].iss)
              f(r) == relocate_link(r, r.ttid, to)
  <2>1. rows' = (rows \ R) \cup {f(r) : r \in R} /\ Done(p) /\ R \subseteq rows /\ to \in Pairs
    BY <1>2, RowsOfAreRows DEF Gone, MovedAway
  <2>2. \A r \in rows : f(r).ttid = r.ttid /\ f(r).linear = r.linear
    BY RowsOfAreRows DEF relocate_link, Rows
  <2>. HIDE DEF R, f
  <2>3. Keyed(rows') /\ \A i, t : HasRow(rows, i, t) => HasRow(rows', i, t)
    BY <1>0, <2>1, <2>2 DEF Keyed, HasRow
  <2>4. Kept(p)'
    BY <1>0, <2>1, <2>3, KeptDone
  <2>5. ~Still(p)
    BY <1>0, <1>2 DEF Still, StillLoc, At, MovedAway
  <2>. QED BY <1>1, <2>4, <2>5 DEF StepOK
<1>3. CASE ~MovedAway(p, loc[p].iss)
  <2>1. rows' = rows /\ loc'[p].pc = "miss" /\ Carries(p) /\ Handles(p)
    BY <1>3, GotoDoes DEF Gone
  <2>2. Kept(p)'
    BY <1>0, <2>1, KeptGoto, Unwritten DEF Handles, OfARow, Unlisting, Moving, Copied
  <2>3. ASSUME Still(p) PROVE Still(p)'
    <3>1. Reads /\ \A r \in rows : ~Flies(p, r.ttid) /\ ~Afoot(p, r)
      BY <1>0, <2>1 DEF Reads, Flies, Afoot, At, Moving
    <3>2. \A r \in rows' : StillRow(p, r)'
      BY <2>3, <3>1, RowsStill DEF Still
    <3>3. StillLoc(p)'
      BY <1>0, <2>1, <2>3
         DEF Still, StillLoc, At, stores, NotMissed, Moving, Copied, Carries, Handles
    <3>. QED BY <1>0, <2>3, <3>2, <3>3 DEF Still, stores, Unmoved, At
  <2>. QED BY <1>1, <2>2, <2>3 DEF StepOK
<1>. QED BY <1>2, <1>3

LEMMA MissStep ==
    ASSUME TypeInv, NEW p \in Pairs, Kept(p), Miss(p)
    PROVE  StepOK(p)
<1>0. /\ UNCHANGED <<marked, turn, userops>> /\ UNCHANGED stores /\ At(p, "miss")
      /\ Held(loc[p], rows) /\ ~loc[p].listed /\ loc[p].todo = {} /\ Keyed(rows)
      /\ loc[p].pc \in OfARow /\ loc[p].pc \notin Moving /\ ~At(p, "idle")
      /\ HasRow(rows, loc[p].iss, loc[p].tsk)
  BY DEF Miss, Kept, Held, Unlisting, OfARow, Moving, At
<1>1. ~Home(p) /\ ~Unmoved(p)
  BY <1>0 DEF Home, Unmoved, At
<1>2. PICK r \in rows : /\ RowOfTask(loc[p].tsk) = {r} /\ r.linear = loc[p].iss
                        /\ r.ttid = loc[p].tsk /\ r \in Rows
  BY <1>0, TheRow
<1>a. PICK z : z = IF r.miss < TT_MISS_THRESHOLD THEN r.miss + 1 ELSE r.miss
  OBVIOUS
<1>b. PICK x : x = [r EXCEPT !.miss = z]
  OBVIOUS
<1>3. /\ rows' = (rows \ {r}) \cup {x}
      /\ IF z = TT_MISS_THRESHOLD THEN Goto(p, "cancel") ELSE Done(p)
  <2>. DEFINE R == RowOfTask(loc[p].tsk)
              Counted(s) == IF s.miss < TT_MISS_THRESHOLD THEN s.miss + 1 ELSE s.miss
  <2>1. /\ rows' = (rows \ R) \cup {[s EXCEPT !.miss = Counted(s)] : s \in R}
        /\ IF \E s \in R : Counted(s) = TT_MISS_THRESHOLD THEN Goto(p, "cancel") ELSE Done(p)
    BY DEF Miss
  <2>2. R = {r}
    BY <1>2
  <2>. HIDE DEF R
  <2>3. {[s EXCEPT !.miss = Counted(s)] : s \in R} = {[r EXCEPT !.miss = Counted(r)]}
    BY <2>2
  <2>4. z = Counted(r) /\ x = [r EXCEPT !.miss = Counted(r)]
    BY <1>a, <1>b
  <2>. HIDE DEF Counted
  <2>. QED BY <2>1, <2>2, <2>3, <2>4
<1>4. x.ttid = r.ttid /\ x.linear = r.linear /\ x.list = r.list /\ x.miss = z
  BY <1>2, <1>b DEF Rows
<1>5. SameKeys
  BY <1>0, <1>3, <1>4, Rewritten DEF SameKeys
<1>6. Kept(p)'
  <2>1. CASE Done(p)
    BY <1>0, <1>5, <2>1, KeptDone DEF SameKeys
  <2>2. CASE Goto(p, "cancel")
    BY <1>0, <1>5, <2>2, GotoDoes, KeptGoto DEF Handles, OfARow, Unlisting, Moving, Copied
  <2>. QED BY <1>3, <2>1, <2>2
<1>7. ASSUME Still(p) PROVE Still(p)'
  <2>1. z = 1 /\ Done(p)
    BY <1>a, <1>0, <1>2, <1>3, <1>7 DEF Still, StillLoc, NotMissed, At, TT_MISS_THRESHOLD
  <2>2. /\ loc'[p].pc = "links" /\ Carries(p) /\ loc'[p].tsk = None /\ loc'[p].stat = TT_OPEN
    BY <1>0, <2>1, DoneDoes
  <2>3. \A s : ~Flies(p, s.ttid) /\ ~Flies(p, s.ttid)' /\ ~Afoot(p, s)
    BY <1>0, <2>2 DEF Flies, Afoot, At, Moving
  <2>4. \A s \in rows : StillRow(p, s)'
    BY <1>0, <1>7, <2>3 DEF Still, StillRow, Ahead, stores
  <2>5. StillRow(p, x)'
    <3>1. StillRow(p, r)'
      BY <2>4
    <3>2. list[r.ttid] # r.list => Ahead(x)'
      <4>1. r.list = p
        BY <1>0, <1>2, <1>7 DEF Still, StillRow, StillLoc, At
      <4>2. \A j \in DOMAIN ctxs : ctxs[j] = p => turn = Following(j)
        BY <1>0 DEF Kept
      <4>3. ASSUME list[r.ttid] # r.list, NEW j \in DOMAIN ctxs, NEW k \in DOMAIN ctxs,
                   ctxs[j] = p, ctxs[k] = list[r.ttid]
            PROVE  Between(j, turn, k)
        <5>1. j # k /\ turn = Following(j)
          BY <4>1, <4>2, <4>3
        <5>2. DOMAIN ctxs = 1..Len(ctxs) /\ Len(ctxs) \in Nat
          BY IdsAssumption
        <5>. QED BY <5>1, <5>2 DEF Between, Following
      <4>. QED BY <1>0, <1>4, <4>1, <4>3 DEF Ahead, stores
    <3>. QED BY <1>0, <1>4, <2>1, <2>3, <3>1, <3>2 DEF StillRow, stores
  <2>6. StillLoc(p)'
    <3>1. ASSUME NEW k \in loc[p].links, NotMissed(k[2]) PROVE NotMissed(k[2])'
      <4>1. k[2] # r.ttid
        BY <1>0, <1>2 DEF Held
      <4>. QED BY <1>3, <1>4, <3>1, <4>1 DEF NotMissed
    <3>. QED BY <1>0, <1>7, <2>2, <3>1 DEF Still, StillLoc, At, stores, Moving, Copied, Carries
  <2>7. \A s \in rows' : StillRow(p, s)'
    BY <1>3, <2>4, <2>5
  <2>. QED BY <1>0, <1>1, <1>7, <2>6, <2>7 DEF Still, stores
<1>. QED BY <1>1, <1>6, <1>7 DEF StepOK

\* What follows a second miss, and what a failed call ends: neither happens at
\* home or to a task that was moved once.
LEMMA EndStep ==
    ASSUME TypeInv, NEW p \in Pairs, Kept(p), Cancel(p) \/ TombstoneRow(p)
    PROVE  StepOK(p)
<1>0. /\ turn' = turn /\ loc[p].pc \in {"cancel", "tombstone"} /\ Keyed(rows)
      /\ Held(loc[p], rows) /\ ~loc[p].listed /\ ~At(p, "idle")
      /\ HasRow(rows, loc[p].iss, loc[p].tsk)
  BY DEF Cancel, TombstoneRow, Kept, Held, Unlisting, OfARow, At
<1>1. ~Home(p) /\ ~Still(p)
  BY <1>0 DEF Home, Still, StillLoc
<1>2. CASE Cancel(p)
  <2>1. rows' = rows /\ Goto(p, "tombstone")
    BY <1>2 DEF Cancel
  <2>2. Kept(p)'
    BY <1>0, <2>1, GotoDoes, KeptGoto, Unwritten DEF Handles, OfARow, Unlisting, Moving, Copied
  <2>. QED BY <1>1, <2>2 DEF StepOK
<1>3. CASE TombstoneRow(p)
  <2>1. PICK r \in rows : RowOfTask(loc[p].tsk) = {r} /\ r \in Rows
    BY <1>0, TheRow
  <2>2. Done(p) /\ rows' = (rows \ {r}) \cup {[r EXCEPT !.tombstoned = TRUE]}
    BY <1>3, <2>1 DEF TombstoneRow, Tombstoned
  <2>3. [r EXCEPT !.tombstoned = TRUE].ttid = r.ttid /\ [r EXCEPT !.tombstoned = TRUE].linear = r.linear
    BY <2>1 DEF Rows
  <2>4. SameKeys
    BY <1>0, <2>2, <2>3, Rewritten DEF SameKeys
  <2>5. Kept(p)'
    BY <1>0, <2>2, <2>4, KeptDone DEF SameKeys
  <2>. QED BY <1>1, <2>5 DEF StepOK
<1>. QED BY <1>2, <1>3

LEMMA FaultyStep ==
    ASSUME TypeInv, NEW p \in Pairs, Kept(p), ProbeFails(p) \/ GoneUnasked(p) \/ Raise(p)
    PROVE  StepOK(p)
<1>0. /\ turn' = turn /\ Keyed(rows) /\ Held(loc[p], rows) /\ ~At(p, "idle")
      /\ (loc[p].pc \in {"probe", "gone"} => HasRow(rows, loc[p].iss, loc[p].tsk))
  BY DEF ProbeFails, GoneUnasked, Raise, Kept, Held, Unlisting, OfARow, At
<1>1. faults' # 0
  BY BoundsAssumption DEF ProbeFails, GoneUnasked, Raise, Fault, TypeInv, CountsOK
<1>2. CASE ProbeFails(p)
  <2>1. PICK r \in rows : RowOfTask(loc[p].tsk) = {r} /\ r \in Rows
    BY <1>0, <1>2, TheRow DEF ProbeFails, At
  <2>2. Done(p) /\ rows' = (rows \ {r}) \cup {[r EXCEPT !.tombstoned = TRUE]}
    BY <1>2, <2>1 DEF ProbeFails, Tombstoned
  <2>3. [r EXCEPT !.tombstoned = TRUE].ttid = r.ttid /\ [r EXCEPT !.tombstoned = TRUE].linear = r.linear
    BY <2>1 DEF Rows
  <2>4. SameKeys
    BY <1>0, <2>2, <2>3, Rewritten DEF SameKeys
  <2>5. Kept(p)'
    BY <1>0, <2>2, <2>4, KeptDone DEF SameKeys
  <2>. QED BY <1>1, <2>5 DEF StepOK
<1>3. CASE GoneUnasked(p)
  <2>1. rows' = rows /\ Goto(p, "miss") /\ loc[p].pc = "gone" /\ ~loc[p].listed
    BY <1>0, <1>3 DEF GoneUnasked, At, Held, Unlisting
  <2>2. Kept(p)'
    BY <1>0, <2>1, GotoDoes, KeptGoto, Unwritten DEF Handles, OfARow, Unlisting, Moving, Copied
  <2>. QED BY <1>1, <2>2 DEF StepOK
<1>4. CASE Raise(p)
  <2>1. Kept(p)'
    BY <1>0, <1>4, KeptDone DEF Raise
  <2>. QED BY <1>1, <2>1 DEF StepOK
<1>. QED BY <1>2, <1>3, <1>4

\* A poll that moves a task goes on: only that task, and tasks no row and no
\* poll knows of, are touched.
LEMMA MovingOn ==
    ASSUME TypeInv, NEW p \in Pairs, Kept(p), loc[p].pc \in Moving, loc'[p].pc \in Moving \ {"recomplete"},
           Carries(p), loc'[p].tsk = loc[p].tsk, loc'[p].iss = loc[p].iss,
           loc'[p].to = loc[p].to, loc'[p].stat = loc[p].stat,
           UNCHANGED <<team, rows, marked, turn, userops>>,
           \A t \in TaskIds : t # loc[p].tsk /\ origin[t] # None => list'[t] = list[t],
           (Home(p) \/ Still(p)) /\ loc'[p].pc \in Copied => list'[loc'[p].new] = loc[p].to,
           Still(p) => \A t \in TaskIds : status'[t] = TT_OPEN
    PROVE  (Home(p) => Home(p)') /\ (Still(p) => Still(p)')
<1>0. /\ Held(loc[p], rows) /\ loc[p].tsk \notin loc[p].todo
      /\ loc'[p].pc \notin Listing \cup Unlisting \cup {"idle"}
      /\ ~At(p, "idle") /\ ~At(p, "probe") /\ rows' = rows
  BY DEF Kept, Held, At, Moving, Listing, Unlisting
<1>1. /\ \A r \in rows : r.ttid # loc[p].tsk => list'[r.ttid] = list[r.ttid]
      /\ \A t \in loc[p].todo : list'[t] = list[t]
      /\ \A k \in loc[p].links : list'[k[2]] = list[k[2]]
  <2>1. \A r \in rows : r.ttid \in TaskIds /\ origin[r.ttid] # None
    BY RowsOfAreRows
  <2>2. /\ \A t \in loc[p].todo : t \in TaskIds /\ origin[t] # None
        /\ \A k \in loc[p].links : k[2] \in TaskIds /\ origin[k[2]] # None /\ k[2] # loc[p].tsk
    BY <1>0, LocTypes DEF Sound, Held
  <2>. QED BY <1>0, <2>1, <2>2
<1>2. \A u : (Flies(p, u) <=> u = loc[p].tsk) /\ (Flies(p, u)' <=> u = loc[p].tsk)
  BY DEF Flies
<1>3. ASSUME Home(p) PROVE Home(p)'
  BY <1>0, <1>1, <1>2, <1>3 DEF Home, Carries, Listing, Unlisting, Moving
<1>4. ASSUME Still(p) PROVE Still(p)'
  <2>1. ASSUME NEW r \in rows PROVE StillRow(p, r)'
    <3>1. StillRow(p, r)
      BY <1>4 DEF Still
    <3>2. CASE r.ttid = loc[p].tsk
      BY <1>2, <3>1, <3>2 DEF StillRow, Afoot
    <3>3. CASE r.ttid # loc[p].tsk
      <4>1. Afoot(p, r) => Afoot(p, r)'
        BY <1>0, <1>1, <1>2, <3>3 DEF Afoot, Carries
      <4>. QED BY <1>1, <1>2, <3>1, <3>3, <4>1 DEF StillRow, Ahead
    <3>. QED BY <3>2, <3>3
  <2>2. StillLoc(p)'
    <3>1. \A t \in loc[p].todo : list'[t] # None
      BY <1>1, <1>4 DEF Still, StillLoc
    <3>2. \A u : NotMissed(u)' = NotMissed(u)
      BY DEF NotMissed
    <3>. QED BY <1>0, <1>4, <3>1, <3>2 DEF Still, StillLoc, At, Carries, Listing, Unlisting, Moving
  <2>3. userops'["move_task"] # 0
    BY <1>4 DEF Still, Unmoved
  <2>. QED BY <1>0, <1>4, <2>1, <2>2, <2>3 DEF Still
<1>. QED BY <1>3, <1>4

LEMMA MoveStep ==
    ASSUME TypeInv, NEW p \in Pairs, Kept(p), MoveInPlace(p)
    PROVE  StepOK(p)
<1>0. /\ UNCHANGED <<team, status, rows, marked, turn, userops>> /\ At(p, "move") /\ Keyed(rows)
      /\ loc[p].pc \in Moving /\ ~At(p, "idle") /\ rows' = rows
  BY DEF MoveInPlace, At, Moving, Kept
<1>1. loc'[p].pc \in {"check", "copy"} /\ Carries(p) /\ Handles(p)
  <2>1. Goto(p, "check") \/ Goto(p, "copy")
    BY DEF MoveInPlace
  <2>. QED BY <2>1, GotoDoes
<1>2. \A t \in TaskIds : t # loc[p].tsk => list'[t] = list[t]
  BY DEF MoveInPlace, TypeInv, StoresOK
<1>3. Kept(p)'
  BY <1>0, <1>1, KeptGoto, Unwritten DEF Handles, Moving
<1>4. (Home(p) => Home(p)') /\ (Still(p) => Still(p)')
  BY <1>0, <1>1, <1>2, MovingOn DEF Handles, Still, Moving, Copied
<1>. QED BY <1>3, <1>4 DEF StepOK

LEMMA CheckStep ==
    ASSUME TypeInv, NEW p \in Pairs, Kept(p), CheckMoved(p)
    PROVE  StepOK(p)
<1>0. /\ Reads /\ At(p, "check") /\ Keyed(rows) /\ Held(loc[p], rows)
      /\ loc[p].pc \in Moving /\ ~At(p, "idle") /\ rows' = rows
  BY DEF CheckMoved, Reads, At, Moving, Kept
<1>1. /\ Carries(p) /\ loc'[p].tsk = loc[p].tsk /\ loc'[p].iss = loc[p].iss
      /\ loc'[p].to = loc[p].to /\ loc'[p].stat = loc[p].stat
      /\ \/ loc'[p].pc = "copy"
         \/ loc'[p].pc = "relocate" /\ loc'[p].new = loc[p].tsk /\ list[loc[p].tsk] = loc[p].to
  <2>1. CASE Goto(p, "copy")
    BY <2>1, GotoDoes DEF Handles
  <2>2. CASE loc' = [loc EXCEPT ![p] = IF list[loc[p].tsk] = loc[p].to
                                       THEN [@ EXCEPT !.pc = "relocate", !.new = loc[p].tsk]
                                       ELSE [@ EXCEPT !.pc = "copy"]]
    BY <2>2, LocTypes DEF Locals, Carries
  <2>. QED BY <2>1, <2>2 DEF CheckMoved
<1>2. Kept(p)'
  <2>1. Held(loc'[p], rows)
    BY <1>0, <1>1 DEF Held, At, Listing, Unlisting, Between2, OfARow, Moving, Copied, Deleting, Carries
  <2>. QED BY <1>0, <1>1, <2>1 DEF Kept, At, Reads
<1>3. (Home(p) => Home(p)') /\ (Still(p) => Still(p)')
  BY <1>0, <1>1, MovingOn DEF Reads, stores, Still, Moving, Copied
<1>. QED BY <1>2, <1>3 DEF StepOK

LEMMA CopyingStep ==
    ASSUME TypeInv, NEW p \in Pairs, Kept(p), Copy(p)
    PROVE  StepOK(p)
<1>0. /\ UNCHANGED <<team, rows, marked, turn, userops>> /\ At(p, "copy") /\ Keyed(rows)
      /\ Held(loc[p], rows) /\ loc[p].pc \in Moving /\ ~At(p, "idle") /\ rows' = rows
  BY DEF Copy, At, Moving, Kept
<1>1. loc[p].tsk \in TaskIds /\ origin[loc[p].tsk] # None
  BY <1>0, MovingState
<1>2. PICK c \in TaskIds :
        /\ origin[c] = None
        /\ list' = [list EXCEPT ![c] = loc[p].to]
        /\ status' = [status EXCEPT ![c] = TT_OPEN]
        /\ \/ loc' = [loc EXCEPT ![p].new = c, ![p].pc =
                          IF loc[p].stat = TT_COMPLETED THEN "recomplete" ELSE "delete"]
           \/ loc' = loc /\ Fault
  BY DEF Copy
<1>3. CASE loc' = loc /\ Fault
  <2>1. faults' # 0
    BY <1>3, BoundsAssumption DEF Fault, TypeInv, CountsOK
  <2>2. Kept(p)'
    BY <1>0, <1>3 DEF Kept, At
  <2>. QED BY <2>1, <2>2 DEF StepOK
<1>4. CASE loc' = [loc EXCEPT ![p].new = c, ![p].pc =
                       IF loc[p].stat = TT_COMPLETED THEN "recomplete" ELSE "delete"]
  <2>1. /\ loc'[p].new = c /\ Carries(p) /\ loc'[p].tsk = loc[p].tsk /\ loc'[p].iss = loc[p].iss
        /\ loc'[p].to = loc[p].to /\ loc'[p].stat = loc[p].stat
        /\ loc'[p].pc = IF loc[p].stat = TT_COMPLETED THEN "recomplete" ELSE "delete"
    BY <1>4, LocTypes DEF Locals, Carries
  <2>2. c # loc[p].tsk /\ NoRow(rows, c)
    BY <1>1, <1>2, RowsOfAreRows DEF NoRow
  <2>3. Kept(p)'
    <3>1. Held(loc'[p], rows)
      BY <1>0, <2>1, <2>2
         DEF Held, At, Listing, Unlisting, Between2, OfARow, Moving, Copied, Deleting, Carries
    <3>. QED BY <1>0, <2>1, <3>1 DEF Kept, At
  <2>4. /\ \A t \in TaskIds : origin[t] # None => list'[t] = list[t]
        /\ list'[c] = loc[p].to
        /\ (\A t \in TaskIds : status[t] = TT_OPEN) => \A t \in TaskIds : status'[t] = TT_OPEN
    BY <1>2 DEF TypeInv, StoresOK
  <2>5. ASSUME loc[p].stat # TT_COMPLETED PROVE (Home(p) => Home(p)') /\ (Still(p) => Still(p)')
    BY <1>0, <2>1, <2>4, <2>5, MovingOn DEF Still, Moving, Copied
  <2>6. Still(p) => loc[p].stat # TT_COMPLETED
    BY DEF Still, StillLoc, TT_OPEN, TT_COMPLETED
  <2>7. ASSUME loc[p].stat = TT_COMPLETED, Home(p) PROVE Home(p)'
    <3>1. \A r \in rows : r.ttid \in TaskIds /\ origin[r.ttid] # None
      BY RowsOfAreRows
    <3>2. /\ \A t \in loc[p].todo : t \in TaskIds /\ origin[t] # None
          /\ \A k \in loc[p].links : k[2] \in TaskIds /\ origin[k[2]] # None
      BY LocTypes DEF Sound
    <3>3. \A r \in rows : Flies(p, r.ttid) => Flies(p, r.ttid)'
      BY <2>1, <2>7 DEF Flies, Moving
    <3>. QED BY <1>0, <2>1, <2>4, <2>7, <3>1, <3>2, <3>3 DEF Home, Carries, Moving, Copied
  <2>. QED BY <2>3, <2>5, <2>6, <2>7 DEF StepOK
<1>. QED BY <1>2, <1>3, <1>4

LEMMA RecompleteStep ==
    ASSUME TypeInv, NEW p \in Pairs, Kept(p), Recomplete(p)
    PROVE  StepOK(p)
<1>0. /\ UNCHANGED <<team, list, rows, marked, turn, userops>> /\ At(p, "recomplete") /\ Keyed(rows)
      /\ loc[p].pc \in Moving /\ loc[p].pc \in Copied /\ ~At(p, "idle") /\ rows' = rows
  BY DEF Recomplete, At, Moving, Copied, Kept
<1>1. loc'[p].pc = "delete" /\ Carries(p) /\ Handles(p)
  BY GotoDoes DEF Recomplete
<1>2. Kept(p)'
  BY <1>0, <1>1, KeptGoto, Unwritten DEF Handles, At, Moving
<1>3. ~Still(p)
  BY <1>0 DEF Still, StillLoc, At
<1>4. Home(p) => Home(p)'
  BY <1>0, <1>1, <1>3, MovingOn DEF Handles, Home, Moving, Copied
<1>. QED BY <1>2, <1>3, <1>4 DEF StepOK

LEMMA DeletingStep ==
    ASSUME TypeInv, NEW p \in Pairs, Kept(p), DeleteOld(p)
    PROVE  StepOK(p)
<1>0. /\ UNCHANGED <<team, status, rows, marked, turn, userops>> /\ At(p, "delete") /\ Keyed(rows)
      /\ Held(loc[p], rows) /\ loc[p].new # loc[p].tsk
      /\ loc[p].pc \in Moving /\ loc[p].pc \in Copied /\ ~At(p, "idle") /\ rows' = rows
  BY DEF DeleteOld, At, Moving, Copied, Deleting, Kept, Held
<1>1. loc'[p].pc = "relocate" /\ Carries(p) /\ Handles(p)
  BY GotoDoes DEF DeleteOld
<1>2. Kept(p)'
  BY <1>0, <1>1, KeptGoto, Unwritten DEF Handles, Moving
<1>3. loc[p].new \in TaskIds
  BY <1>0, LocTypes DEF Sound
<1>4. \A t \in TaskIds : t # loc[p].tsk => list'[t] = list[t]
  BY DEF DeleteOld, TypeInv, StoresOK
<1>5. Home(p) \/ Still(p) => list[loc[p].new] = loc[p].to
  BY <1>0 DEF Home, Still, StillLoc
<1>6. (Home(p) => Home(p)') /\ (Still(p) => Still(p)')
  BY <1>0, <1>1, <1>3, <1>4, <1>5, MovingOn DEF Handles, Still, Moving
<1>. QED BY <1>2, <1>6 DEF StepOK

LEMMA RelocatingStep ==
    ASSUME TypeInv, NEW p \in Pairs, Kept(p), Relocate(p)
    PROVE  StepOK(p)
<1>0. /\ UNCHANGED <<team, list, status, marked, turn, userops>> /\ At(p, "relocate") /\ Keyed(rows)
      /\ Held(loc[p], rows) /\ HasRow(rows, loc[p].iss, loc[p].tsk)
      /\ loc[p].new = loc[p].tsk \/ NoRow(rows, loc[p].new)
      /\ loc[p].pc \in Moving /\ loc[p].pc \in Copied /\ ~At(p, "idle") /\ Done(p)
      /\ loc[p].to \in Pairs /\ loc[p].to # None
  BY MovingState, LocTypes DEF Relocate, At, Moving, Copied, OfARow, Kept, Held, stores
<1>1. /\ loc'[p].pc \in {"tasks", "links"} /\ Carries(p) /\ loc'[p].tsk = None
      /\ loc'[p].stat = TT_OPEN
      /\ loc'[p].pc = "tasks" <=> loc[p].listed
  BY <1>0, DoneDoes
<1>2. PICK r \in rows : /\ RowOfTask(loc[p].tsk) = {r} /\ r.linear = loc[p].iss
                        /\ r.ttid = loc[p].tsk /\ r \in Rows
  BY <1>0, TheRow
<1>3. PICK x : x = relocate_link(r, loc[p].new, loc[p].to)
  OBVIOUS
<1>4. x.ttid = loc[p].new /\ x.linear = r.linear /\ x.list = loc[p].to /\ x.miss = 0
  BY <1>2, <1>3 DEF relocate_link, Rows
<1>5. rows' = (rows \ {r}) \cup {x}
  <2>. DEFINE R == IF RowOfTask(loc[p].tsk) # {} THEN RowOfTask(loc[p].tsk)
                   ELSE RowOfIssue(loc[p].iss)
  <2>1. rows' = IF RowOfTask(loc[p].new) \subseteq R
                THEN (rows \ R) \cup {relocate_link(s, loc[p].new, loc[p].to) : s \in R}
                ELSE rows
    BY DEF Relocate
  <2>2. R = {r} /\ RowOfTask(loc[p].new) \subseteq R
    BY <1>0, <1>2 DEF RowOfTask, NoRow
  <2>. HIDE DEF R
  <2>3. {relocate_link(s, loc[p].new, loc[p].to) : s \in R} = {x}
    BY <1>3, <2>2
  <2>. QED BY <2>1, <2>2, <2>3
<1>6. Kept(p)'
  <2>1. x.ttid = r.ttid \/ NoRow(rows, x.ttid)
    BY <1>0, <1>2, <1>4
  <2>2. Keyed(rows') /\ \A i, t : t # r.ttid /\ HasRow(rows, i, t) => HasRow(rows', i, t)
    BY <1>0, <1>5, <2>1, Rekeyed
  <2>. QED BY <1>0, <1>2, <2>2, KeptDone
<1>7. /\ \A u : ~Flies(p, u)' /\ (Flies(p, u) <=> u = r.ttid)
      /\ \A s \in rows \ {r} : s.ttid # r.ttid
  BY <1>0, <1>1, <1>2 DEF Flies, Moving, Keyed
<1>8. ASSUME Home(p) PROVE Home(p)'
  <2>1. \A s \in rows' : list[s.ttid] = s.list
    BY <1>0, <1>4, <1>5, <1>7, <1>8 DEF Home
  <2>. QED BY <1>0, <1>1, <1>8, <2>1 DEF Home, Copied, Carries
<1>9. ASSUME Still(p) PROVE Still(p)'
  <2>1. list[loc[p].new] = loc[p].to /\ loc[p].to = team[loc[p].iss]
    BY <1>0, <1>9 DEF Still, StillLoc
  <2>2. StillRow(p, x)'
    BY <1>0, <1>2, <1>4, <2>1 DEF StillRow
  <2>3. ASSUME NEW s \in rows \ {r} PROVE StillRow(p, s)'
    <3>1. StillRow(p, s) /\ ~Flies(p, s.ttid)
      BY <1>7, <1>9 DEF Still
    <3>2. Afoot(p, s) => Afoot(p, s)'
      BY <1>0, <1>1, <3>1 DEF Afoot, At, Carries
    <3>. QED BY <1>0, <3>1, <3>2 DEF StillRow, Ahead
  <2>4. StillLoc(p)'
    <3>1. \A u : NotMissed(u) => NotMissed(u)'
      BY <1>4, <1>5 DEF NotMissed
    <3>. QED BY <1>0, <1>1, <1>4, <1>5, <1>9, <3>1 DEF Still, StillLoc, At, Moving, Copied, Carries
  <2>5. userops["move_task"] # 0
    BY <1>0, <1>9 DEF Still, Unmoved
  <2>. QED BY <1>0, <1>5, <1>9, <2>2, <2>3, <2>4, <2>5 DEF Still
<1>. QED BY <1>6, <1>8, <1>9 DEF StepOK

----------------------------------------------------------------------------
(* Whose turn it is                                                          *)

LEMMA Positions ==
    /\ ctxs \in Seq(Pairs) /\ Len(ctxs) \in Nat /\ DOMAIN ctxs = 1..Len(ctxs)
    /\ \A p \in Pairs : \E k \in DOMAIN ctxs : ctxs[k] = p
    /\ \A k, l \in DOMAIN ctxs : ctxs[k] = ctxs[l] => k = l
BY IdsAssumption

\* Going round, t either has come to q or comes to it before it passes a again.
LEMMA GoingRound ==
    ASSUME NEW a \in DOMAIN ctxs, NEW t \in DOMAIN ctxs, NEW q \in DOMAIN ctxs, a # q
    PROVE  /\ Between(a, t, q) /\ t # q => Between(a, Following(t), q)
           /\ ~Between(a, a, q)
BY Positions DEF Between, Following

LEMMA IdleFields ==
    /\ Idle.pc = "idle" /\ Idle.listed = TRUE /\ Idle.todo = {} /\ Idle.links = {}
    /\ Idle.bulk = {} /\ Idle.tsk = None /\ Idle.stat = TT_OPEN
BY DEF Idle

LEMMA IdleHolds == \A rs : Held(Idle, rs)
BY IdleFields DEF Held, Listing, Unlisting, Between2, OfARow, Moving, Copied, Deleting

\* When none runs it may be anyone's turn.
LEMMA AnyTurn ==
    ASSUME TurnInv, \A q \in Pairs : At(q, "idle"), NEW p \in Pairs
    PROVE  Turn(p) /\ loc[p] = Idle
<1>1. PICK o \in Pairs : Turn(o)
  BY DEF TurnInv
<1>2. \A q \in Pairs : loc[q] = Idle
  BY <1>1 DEF Turn, Kept
<1>3. Kept(p)
  BY <1>1, <1>2, IdleFields, IdleHolds DEF Turn, Kept, At
<1>4. \A u : ~Flies(o, u) /\ ~Flies(p, u)
  BY <1>2, IdleFields DEF Flies, Moving
<1>5. Home(o) => Home(p)
  BY <1>2, <1>4, IdleFields DEF Home, Copied
<1>6. Still(o) => Still(p)
  <2>1. \A r \in rows : StillRow(o, r) => StillRow(p, r)
    BY <1>2, <1>4, IdleFields DEF StillRow, Afoot, At
  <2>2. StillLoc(p)
    BY <1>2, IdleFields DEF StillLoc, At, Moving, Copied
  <2>3. Unmoved(o) => Unmoved(p)
    BY <1>2, IdleFields DEF Unmoved, At, Moving
  <2>. QED BY <2>1, <2>2, <2>3 DEF Still
<1>. QED BY <1>1, <1>2, <1>3, <1>5, <1>6 DEF Turn

LEMMA ListStep ==
    ASSUME TypeInv, ~Overlap, NEW p \in Pairs, Kept(p), loc[p] = Idle, PollList(p)
    PROVE  StepOK(p)
<1>. DEFINE open == {t \in Live : list[t] = p /\ status[t] = TT_OPEN}
<1>0. /\ UNCHANGED <<rows, marked, userops>> /\ UNCHANGED stores /\ Keyed(rows)
      /\ p = ctxs[turn] /\ turn' = Following(turn) /\ turn \in DOMAIN ctxs
  BY DEF PollList, Kept, TypeInv, CountsOK
<1>1. /\ loc'[p].pc = "bulk" /\ loc'[p].seen = open /\ loc'[p].todo = open /\ loc'[p].links = {}
      /\ loc'[p].listed = TRUE /\ loc'[p].tsk = None /\ loc'[p].stat = TT_OPEN /\ loc'[p].bulk = {}
  <2>1. loc'[p] = [loc[p] EXCEPT !.pc = "bulk", !.seen = open, !.todo = open]
    BY LocTypes DEF PollList
  <2>. HIDE DEF open
  <2>. QED BY <2>1, LocTypes, IdleFields DEF Locals
<1>2. \A t \in TaskIds : t \in open <=> list[t] = p /\ status[t] = TT_OPEN
  BY LocTypes DEF Live
<1>3. open \subseteq TaskIds
  BY DEF Live
<1>. HIDE DEF open
<1>4. Kept(p)'
  <2>1. Held(loc'[p], rows)
    BY <1>1, <1>3, LocTypes
       DEF Held, Listing, Unlisting, Between2, OfARow, Moving, Copied, Deleting
  <2>. QED BY <1>0, <1>1, <2>1, Positions DEF Kept, At
<1>5. \A u : ~Flies(p, u) /\ ~Flies(p, u)'
  BY <1>1, IdleFields DEF Flies, Moving
<1>6. ASSUME Home(p) PROVE Home(p)'
  BY <1>0, <1>1, <1>2, <1>3, <1>5, <1>6 DEF Home, stores, Copied
<1>7. ASSUME Still(p) PROVE Still(p)'
  <2>1. ASSUME NEW r \in rows
        PROVE  /\ StillRow(p, r) /\ list[r.ttid] \in Pairs /\ r.list \in Pairs
               /\ r.miss = 1 /\ list[r.ttid] # r.list => Ahead(r)
               /\ list[r.ttid] = p <=> r.ttid \in open
    BY <1>2, <1>5, <1>7, IdleFields, RowsOfAreRows DEF Still, StillRow, Afoot, At, Rows
  <2>2. ASSUME NEW r \in rows PROVE StillRow(p, r)'
    <3>1. ASSUME r.miss = 1, list[r.ttid] # r.list, list[r.ttid] # p PROVE Ahead(r)'
      <4>1. Ahead(r)
        BY <2>1, <3>1
      <4>. QED BY <1>0, <3>1, <4>1, GoingRound DEF Ahead, stores
    <3>2. list[r.ttid] = p => Afoot(p, r)'
      BY <1>0, <1>1, <2>1 DEF Afoot, stores
    <3>. QED BY <1>0, <2>1, <3>1, <3>2 DEF StillRow, stores
  <2>3. ASSUME NEW r \in rows, r.list = p PROVE r.ttid \in open \/ r.miss = 0
    <3>1. SUFFICES ASSUME r.miss = 1, list[r.ttid] # p PROVE FALSE
      BY <2>1 DEF StillRow
    <3>2. PICK k \in DOMAIN ctxs : ctxs[k] = list[r.ttid]
      BY <2>1, Positions
    <3>3. Between(turn, turn, k) /\ k # turn
      BY <1>0, <2>1, <2>3, <3>1, <3>2 DEF Ahead
    <3>. QED BY <1>0, <3>3, GoingRound
  <2>4. StillLoc(p)'
    BY <1>0, <1>1, <1>2, <1>3, <2>3, LocTypes DEF StillLoc, At, stores, Moving, Copied
  <2>5. Unmoved(p) => Unmoved(p)'
    BY <1>0, <1>1 DEF Unmoved, At, Moving
  <2>. QED BY <1>0, <1>7, <2>2, <2>4, <2>5 DEF Still, stores
<1>. QED BY <1>4, <1>6, <1>7 DEF StepOK

\* A step of the poll whose turn it is.
LEMMA StepTurn ==
    ASSUME TypeInv, NEW p \in Pairs, Turn(p), ByPoll(p), StepOK(p)
    PROVE  Turn(p)'
<1>1. \A q \in Pairs \ {p} : loc'[q] = Idle
  BY OthersWait DEF Turn
<1>2. Next
  BY DEF Next, ByPoll
<1>3. faults' = 0 => faults = 0
  BY <1>2, StatusKept
<1>4. userops' = userops
  BY DEF ByPoll, Step, PollList, ProbeFails, GoneUnasked, Raise, PollBulk, PollLinks, PollEnds,
         PollTask, PollLink, CreateIssue, UpsertRow, Probe, GetTask, Hidden, Gone, Miss, Cancel,
         TombstoneRow, MoveInPlace, CheckMoved, Copy, Recomplete, DeleteOld, Relocate
<1>. QED BY <1>1, <1>3, <1>4 DEF Turn, StepOK, Untouched, MovedOnce

LEMMA PollTurn ==
    ASSUME TypeInv, ~Overlap, TurnInv, NEW p \in Pairs, ByPoll(p)
    PROVE  TurnInv'
<1>1. CASE PollList(p)
  <2>1. Turn(p) /\ loc[p] = Idle
    BY <1>1, AnyTurn DEF PollList
  <2>2. StepOK(p)
    BY <1>1, <2>1, ListStep DEF Turn
  <2>. QED BY <2>1, <2>2, StepTurn DEF TurnInv
<1>2. CASE ~PollList(p)
  <2>1. loc[p].pc # "idle"
    BY <1>2 DEF ByPoll, Step, ProbeFails, GoneUnasked, Raise, PollBulk, PollLinks, PollEnds, At,
         PollTask, PollLink, CreateIssue, UpsertRow, Probe, GetTask, Hidden, Gone, Miss, Cancel,
         TombstoneRow, MoveInPlace, CheckMoved, Copy, Recomplete, DeleteOld, Relocate
  <2>2. Turn(p) /\ Kept(p)
    BY <2>1, IdleFields DEF TurnInv, Turn
  <2>3. StepOK(p)
    BY <1>2, <2>2, BulkStep, LinksStep, EndsStep, TaskStep, LinkStep, CreateStep, UpsertStep, ProbeStep,
       GetStep, HiddenStep, GoneStep, MissStep, EndStep, FaultyStep, MoveStep, CheckStep, CopyingStep,
       RecompleteStep, DeletingStep, RelocatingStep DEF ByPoll, Step
  <2>. QED BY <2>2, <2>3, StepTurn DEF TurnInv
<1>. QED BY <1>1, <1>2

\* The one move of a task that Still allows for finds everything at home.
LEMMA UserTurn ==
    ASSUME TypeInv, NEW p \in Pairs, Turn(p), UserMovesIssue \/ UserMovesTask \/ UserEndsTask
    PROVE  Turn(p)'
<1>0. /\ UNCHANGED <<rows, marked, loc, turn, faults>> /\ userops \in [UserOps -> Nat]
      /\ StoresOK
  BY DEF UserMovesIssue, UserMovesTask, UserEndsTask, TypeInv, CountsOK
<1>1. Kept(p)'
  BY <1>0 DEF Turn, Kept, At
<1>2. CASE UserMovesIssue
  <2>1. userops' = [userops EXCEPT !["move_issue"] = @ + 1] /\ list' = list
    BY <1>2 DEF UserMovesIssue, UserMay
  <2>2. userops'["move_issue"] # 0 /\ userops'["move_task"] = userops["move_task"]
    BY <1>0, <2>1 DEF UserOps
  <2>. QED BY <1>0, <1>1, <2>1, <2>2 DEF Turn, Untouched, MovedOnce, Home, Flies
<1>3. CASE UserEndsTask
  <2>1. userops' = [userops EXCEPT !["end_task"] = @ + 1] /\ list' = list
    BY <1>3 DEF UserEndsTask, UserMay
  <2>2. userops'["end_task"] # 0 /\ userops'["move_task"] = userops["move_task"]
    BY <1>0, <2>1 DEF UserOps
  <2>. QED BY <1>0, <1>1, <2>1, <2>2 DEF Turn, Untouched, MovedOnce, Home, Flies
<1>4. CASE UserMovesTask
  <2>1. PICK t \in TaskIds, to \in Pairs : list' = [list EXCEPT ![t] = to]
    BY <1>4 DEF UserMovesTask, Live
  <2>2. userops' = [userops EXCEPT !["move_task"] = @ + 1] /\ UNCHANGED <<team, status>>
    BY <1>4 DEF UserMovesTask, UserMay
  <2>3. /\ userops'["move_task"] = userops["move_task"] + 1 /\ userops["move_task"] \in Nat
        /\ userops'["move_issue"] = userops["move_issue"]
        /\ userops'["end_task"] = userops["end_task"]
    BY <1>0, <2>2 DEF UserOps
  <2>4. ~Untouched'
    BY <2>3 DEF Untouched
  <2>5. ASSUME MovedOnce' PROVE Still(p)'
    <3>1. userops["move_task"] = 0 /\ faults = 0 /\ MovedOnce
      BY <1>0, <2>3, <2>5 DEF MovedOnce
    <3>2. Still(p) /\ Unmoved(p)
      BY <3>1 DEF Turn, Still
    <3>3. \A u \in TaskIds : list[u] # None => list'[u] # None /\ (list[u] \in Pairs => list'[u] \in Pairs)
      BY <1>0, <2>1, LocTypes DEF StoresOK
    <3>4. ASSUME NEW r \in rows PROVE StillRow(p, r)'
      <4>1. StillRow(p, r) /\ r.miss = 0 /\ ~Flies(p, r.ttid) /\ r.ttid \in TaskIds
        BY <3>2, RowsOfAreRows DEF Still, Unmoved, Flies
      <4>2. list'[r.ttid] \in Pairs
        BY <3>3, <4>1, LocTypes DEF StillRow
      <4>. QED BY <1>0, <2>2, <4>1, <4>2 DEF StillRow
    <3>5. StillLoc(p)'
      <4>1. loc[p].pc \in {"create", "upsert"} => loc[p].tsk \in TaskIds
        BY LocTypes DEF Sound, Asking
      <4>2. loc[p].pc \notin Copied
        BY <3>2 DEF Unmoved, Moving, Copied
      <4>. QED BY <1>0, <2>2, <3>2, <3>3, <4>1, <4>2, LocTypes DEF Still, StillLoc, At, NotMissed
    <3>. QED BY <1>0, <2>2, <2>3, <3>2, <3>4, <3>5 DEF Still
  <2>. QED BY <1>0, <1>1, <2>4, <2>5 DEF Turn
<1>. QED BY <1>2, <1>3, <1>4

LEMMA InitTurn == Init => TurnInv
<1>. SUFFICES ASSUME Init PROVE TurnInv
  OBVIOUS
<1>1. PICK p \in Pairs :
        /\ team = [i \in IssueIds |-> IF \E k \in Linked : k[1] = i THEN p ELSE None]
        /\ list = [t \in TaskIds |-> IF \E k \in Linked : k[2] = t THEN p ELSE None]
        /\ rows = {[linear |-> k[1], ttid |-> k[2], list |-> p,
                    miss |-> 0, tombstoned |-> FALSE] : k \in Linked}
  BY DEF Init
<1>2. /\ marked = {} /\ \A q \in Pairs : loc[q] = Idle /\ status = [t \in TaskIds |-> TT_OPEN]
  BY DEF Init
<1>3. \A r \in rows : /\ \E k \in Linked : r.linear = k[1] /\ r.ttid = k[2]
                                          /\ r = [linear |-> k[1], ttid |-> k[2], list |-> p,
                                                  miss |-> 0, tombstoned |-> FALSE]
                      /\ r.list = p /\ r.miss = 0
  BY <1>1
<1>4. \A r \in rows : team[r.linear] = p /\ list[r.ttid] = p
  BY <1>1, <1>3, IdsAssumption
<1>5. Keyed(rows)
  <2>1. SUFFICES ASSUME NEW r \in rows, NEW s \in rows, r.ttid = s.ttid PROVE r = s
    BY DEF Keyed
  <2>2. PICK k \in Linked : r.ttid = k[2] /\ r = [linear |-> k[1], ttid |-> k[2], list |-> p,
                                                miss |-> 0, tombstoned |-> FALSE]
    BY <1>3
  <2>3. PICK l \in Linked : s.ttid = l[2] /\ s = [linear |-> l[1], ttid |-> l[2], list |-> p,
                                                miss |-> 0, tombstoned |-> FALSE]
    BY <1>3
  <2>4. k = l
    BY <2>1, <2>2, <2>3, IdsAssumption
  <2>. QED BY <2>2, <2>3, <2>4
<1>6. Kept(p)
  BY <1>2, <1>5, IdleFields, IdleHolds DEF Kept, At
<1>7. Home(p)
  BY <1>2, <1>3, <1>4, IdleFields DEF Home, Copied
<1>8. Still(p)
  <2>1. \A r \in rows : StillRow(p, r)
    BY <1>3, <1>4 DEF StillRow
  <2>2. StillLoc(p)
    BY <1>2, IdleFields DEF StillLoc, At, Moving, Copied
  <2>3. Unmoved(p)
    BY <1>2, <1>3, IdleFields DEF Unmoved, At, Moving
  <2>. QED BY <1>2, <2>1, <2>2, <2>3 DEF Still
<1>. QED BY <1>2, <1>6, <1>7, <1>8 DEF TurnInv, Turn

LEMMA NextTurn == ASSUME ~Overlap PROVE Inv /\ TurnInv /\ [Next]_vars => TurnInv'
<1>. SUFFICES ASSUME TypeInv, TurnInv, [Next]_vars PROVE TurnInv'
  BY DEF Inv
<1>1. ASSUME NEW p \in Pairs, ByPoll(p) PROVE TurnInv'
  BY <1>1, PollTurn
<1>2. CASE UserMovesIssue \/ UserMovesTask \/ UserEndsTask
  BY <1>2, UserTurn DEF TurnInv
<1>3. CASE Crash
  <2>1. PICK p \in Pairs : Kept(p)
    BY DEF TurnInv, Turn
  <2>2. loc' = [q \in Pairs |-> Idle] /\ rows' = rows /\ faults' # 0
    BY <1>3, BoundsAssumption DEF Crash, Fault, TypeInv, CountsOK
  <2>3. Kept(p)'
    BY <2>1, <2>2, IdleFields, IdleHolds DEF Kept, At
  <2>. QED BY <2>2, <2>3 DEF TurnInv, Turn, Untouched, MovedOnce
<1>4. CASE UNCHANGED vars
  BY <1>4 DEF vars, stores, TurnInv, Turn, Kept, Home, Still, StillRow, StillLoc, Unmoved, Untouched,
     MovedOnce, At, Flies, Afoot, Ahead, NotMissed
<1>. QED BY <1>1, <1>2, <1>3, <1>4 DEF Next, ByPoll

\* If the polls take turns no issue is marked canceled because the issue was
\* moved to another team, or the task to another list and back by the polls:
\* only a call that failed, or a user who keeps the task out of sight of the
\* poll that should bring it back, can have a link given up.
THEOREM NoFalseCancel == ASSUME ~Overlap PROVE Spec => []NeverFalselyCanceled
<1>1. Inv /\ TurnInv => NeverFalselyCanceled
  <2>1. SUFFICES ASSUME TypeInv, TurnInv, marked # {}, faults = 0 PROVE LostFromSight
    BY BoundsAssumption DEF Inv, NeverFalselyCanceled, TypeInv, CountsOK
  <2>2. ~Untouched /\ ~MovedOnce
    BY <2>1 DEF TurnInv, Turn, Home, Still
  <2>3. /\ userops["move_task"] \in Nat /\ userops["move_issue"] \in Nat
        /\ userops["end_task"] \in Nat
    BY <2>1 DEF TypeInv, CountsOK, UserOps
  <2>. QED BY <2>1, <2>2, <2>3 DEF Untouched, MovedOnce, LostFromSight
<1>. QED BY <1>1, InitInv, NextInv, InitTurn, NextTurn, PTL DEF Spec
=============================================================================
