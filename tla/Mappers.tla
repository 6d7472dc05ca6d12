------------------------------ MODULE Mappers ------------------------------
(***************************************************************************)
(* The pure field mappings between a Linear issue and a TickTick task       *)
(* (sync/mappers.py), the two field writes built from them (sync/engine.py) *)
(* and the choice of a direction (sync/conflict.py).                        *)
(*                                                                          *)
(* Texts are opaque values: a Linear description is the pair of its body    *)
(* and its "## Subtasks" section, a checklist is one value.  A date is a    *)
(* day number; of a TickTick timestamp the day in its first ten characters  *)
(* is kept, the only part the service ever compares.                        *)
(***************************************************************************)
EXTENDS Integers, Sequences

CONSTANTS
    TeamStates,       \* the team's workflow states in API order, as cached at start-up
    DelegatedColumns, \* names of TickTick columns that begin with the delegation mark
    NoDue,            \* the absent due date
    DayShift          \* -1 if TickTick reports a local midnight as the UTC day before, else 0

TT_OPEN      == 0
TT_COMPLETED == 2
TT_WONTDO    == -1
TTStatuses   == {TT_OPEN, TT_COMPLETED, TT_WONTDO}

StateTypes == {"triage", "backlog", "unstarted", "started", "completed", "canceled"}
State      == [name : STRING, type : StateTypes]

\* What the code relies on: a team has at least one workflow state.
ASSUME TeamStatesAssumption ==
    /\ TeamStates \in Seq(State)
    /\ Len(TeamStates) > 0
ASSUME DateAssumption == NoDue \notin Int /\ DayShift \in {-1, 0}

KnownStates == {TeamStates[i] : i \in DOMAIN TeamStates}

\* No state of the cached team has the issue's state id.
NoState == [name |-> "", type |-> "none"]

----------------------------------------------------------------------------
(* Status *)

linear_state_to_tt_status(type) ==
    IF type = "completed" THEN TT_COMPLETED
    ELSE IF type = "canceled" THEN TT_WONTDO
    ELSE TT_OPEN

FirstOf(I) == CHOOSE i \in I : \A j \in I : i <= j

pick_state_by_type(type, prefer_name) ==
    LET candidates == {i \in DOMAIN TeamStates : TeamStates[i].type = type}
        preferred  == {i \in candidates : TeamStates[i].name = prefer_name}
    IN  TeamStates[IF candidates = {} THEN 1
                   ELSE FirstOf(IF preferred = {} THEN candidates ELSE preferred)]

state_by_id(state) == IF state \in KnownStates THEN state ELSE NoState

pick_linear_state_from_tt(tt_status, current) ==
    IF tt_status = TT_COMPLETED THEN pick_state_by_type("completed", "Done")
    ELSE IF tt_status = TT_WONTDO THEN pick_state_by_type("canceled", "Noted")
    ELSE IF current.type \in {"backlog", "unstarted", "started"} THEN current
    ELSE pick_state_by_type("unstarted", "Todo")

----------------------------------------------------------------------------
(* Priority: Linear 1 is Urgent, 0 is none; TickTick 5 is high. *)

Buckets == {0, 1, 3, 5}

Distance(a, b) == IF a < b THEN b - a ELSE a - b

\* min() keeps the first of two equally near buckets, the smaller one.
clamp_tt_priority(p) ==
    CHOOSE b \in Buckets : \A c \in Buckets :
        \/ Distance(b, p) < Distance(c, p)
        \/ Distance(b, p) = Distance(c, p) /\ b <= c

TT_TO_LINEAR_PRIORITY ==
    [b \in Buckets |-> IF b = 0 THEN 0 ELSE IF b = 1 THEN 4 ELSE IF b = 3 THEN 3 ELSE 2]

PriorityUnmapped(tt_priority, current_linear_priority) == tt_priority \* slip

tt_priority_to_linear(tt_priority, current_linear_priority) ==
    LET p == clamp_tt_priority(tt_priority)
    IN  IF p = 5 /\ current_linear_priority = 1 THEN 1 \* keeps Urgent
        ELSE TT_TO_LINEAR_PRIORITY[p]

linear_priority_to_tt(linear_priority) ==
    IF linear_priority \in {1, 2} THEN 5
    ELSE IF linear_priority = 3 THEN 3
    ELSE IF linear_priority = 4 THEN 1
    ELSE 0

----------------------------------------------------------------------------
(* Description, labels, dates *)

render_description(t) == [body |-> t.content, items |-> t.items]

split_linear_description(description) == description.body

map_column_to_label(name) ==
    IF name \in DelegatedColumns THEN "Delegated" ELSE "none"

\* The engine has no column names at hand: it always answers None.
column_name(column) == "none"

labels_after_sync(labels, column) ==
    LET carried == labels \cup {"ticktick-sync"}
    IN  IF map_column_to_label(column_name(column)) = "Delegated"
        THEN carried \cup {"Delegated"}
        ELSE carried \ {"Delegated"}

tt_due_to_linear_date(due) == due

linear_date_to_tt_all_day_iso(due) == due + DayShift

----------------------------------------------------------------------------
(* The canonical hash: an injective image of the fields it is computed over. *)

canonical_hash(i, t) ==
    [ linear_title         |-> i.title,
      rendered_description |-> i.description,
      state_type           |-> i.state.type,
      priority             |-> i.priority,
      linear_due_date      |-> i.due,
      tt_title             |-> t.title,
      tt_content           |-> t.content,
      tt_due_date          |-> t.due,
      tt_column_id         |-> t.column,
      tt_status            |-> t.status,
      tt_priority          |-> t.priority,
      tt_items_signature   |-> t.items ]

LINEAR_TO_TT == "linear_to_tt"
TT_TO_LINEAR == "tt_to_linear"
NOOP         == "noop"

\* Slip: webhooks about the service's own writes are not dropped.
DecideWithoutEchoL(link, new_hash, inbound) ==
    IF link.hash = new_hash \/ (inbound = TT_TO_LINEAR /\ link.echo_t)
    THEN NOOP
    ELSE inbound

\* Every caller passes the side that reported the change, so the timestamp
\* comparison at the end of decide() is never reached.
decide(link, new_hash, inbound) ==
    IF \/ link.hash = new_hash
       \/ inbound = LINEAR_TO_TT /\ link.echo_l
       \/ inbound = TT_TO_LINEAR /\ link.echo_t
    THEN NOOP
    ELSE inbound

----------------------------------------------------------------------------
(* The two writes.  `server` is the object as the service finds it stored;   *)
(* i and t are the snapshots the request was computed from.                  *)

\* issueUpdate: every field but the due date, which is sent only if present.
apply_tt_to_linear(server, i, t) ==
    [server EXCEPT
        !.title       = t.title,
        !.description = render_description(t),
        !.state       = pick_linear_state_from_tt(t.status, state_by_id(i.state)),
        !.priority    = tt_priority_to_linear(t.priority, i.priority),
        !.labels      = labels_after_sync(i.labels, t.column),
        !.due         = IF t.due = NoDue THEN @ ELSE tt_due_to_linear_date(t.due)]

due_differs(i, t) == i.due # tt_due_to_linear_date(t.due)

\* A task with a time of day keeps it: only the day is swapped.
keeps_time_of_day(t) == t.due # NoDue /\ ~t.all_day

tt_due_for(i, t) ==
    IF i.due = NoDue \/ keeps_time_of_day(t)
    THEN i.due
    ELSE linear_date_to_tt_all_day_iso(i.due)

completes(i, t) ==
    /\ linear_state_to_tt_status(i.state.type) = TT_COMPLETED
    /\ t.status # TT_COMPLETED

\* The payload always has title and priority; the other fields only when the
\* snapshots differ; completion went through its own endpoint before.
apply_linear_to_tt(server, i, t) ==
    LET target == linear_state_to_tt_status(i.state.type)
        body   == split_linear_description(i.description)
    IN  [server EXCEPT
           !.title    = i.title,
           !.priority = linear_priority_to_tt(i.priority),
           !.content  = IF body # t.content THEN body ELSE @,
           !.status   = IF target # t.status /\ target # TT_COMPLETED THEN target ELSE @,
           !.due      = IF due_differs(i, t) THEN tt_due_for(i, t) ELSE @,
           !.all_day  = IF due_differs(i, t) /\ i.due # NoDue /\ ~keeps_time_of_day(t)
                        THEN TRUE ELSE @]

----------------------------------------------------------------------------
(* Creation of the missing half of a pair. *)

\* The issue the poller creates for a task that has no link.
linear_issue_for(t) ==
    [ title       |-> t.title,
      description |-> render_description(t),
      state       |-> pick_linear_state_from_tt(t.status, NoState),
      priority    |-> tt_priority_to_linear(t.priority, 0),
      due         |-> t.due,
      labels      |-> {"ticktick-sync"} \cup
                      (IF map_column_to_label(t.column) = "Delegated"
                       THEN {"Delegated"} ELSE {}) ]
=============================================================================
