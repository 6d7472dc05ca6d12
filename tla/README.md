# lt-sync in TLA+

`lt_sync` keeps Linear issues and TickTick tasks in step: a webhook endpoint
receives what changes in Linear, a poll job reads TickTick, and a table `link`
remembers which issue belongs to which task and what both looked like when they
were last the same. This directory holds TLA+ models of that program, the TLC
configurations that check them on small instances, and TLAPS proofs of the
results that hold for every instance.

Paths below are relative to `src/src/lt_sync/`.

## 1. The system

| component | state | operations | talks to |
|---|---|---|---|
| webhook handler (`webhook.py`) | none between requests | verify, idempotency check, fetch issue, `sync_pair` / `create_tt_for_linear` / `_handle_remove` | Linear (deliveries, reads), TickTick, tables |
| TickTick poll (`sync/poller.py`) | none between runs | list open tasks, bulk list of issues, `_process_tt_task`, `_reconcile_missing_link`, `_create_linear_for_tt`, `_tombstone_linear_issue`, `_rehome` | both services, tables |
| Linear backfill (`scheduler.py`) | none between runs | list issues, `sync_pair` or `create_tt_for_linear` for each | both services, tables |
| sync engine (`sync/engine.py`) | start-up cache of states and labels | `sync_pair`, `compute_hash`, `_apply_*` | clients, tables, link lock |
| direction decision (`sync/conflict.py`) | none (pure) | `decide` | engine |
| field mappings (`sync/mappers.py`) | none (pure) | status, priority, description, dates, labels, `canonical_hash` | engine, poll |
| creation of tasks (`sync/linear_to_tt.py`) | none | create task, label issue, store row | clients, tables |
| tables (`state/models.py`, `state/repo.py`, `state/db.py`) | `link`, `event_log`, `tombstone`, token row; `_link_locks` in memory | `upsert_link`, `mark_synced`, `increment_tt_miss`, `reset_tt_miss`, `mark_tombstone`, `event_seen`, `record_event`; one transaction per `session_scope` | engine, handlers, jobs |
| Linear client (`linear/client.py`) | rate limiter | find, list (250, no paging), create, update, with retries | Linear |
| TickTick client (`ticktick/client.py`) | rate limiter, token provider | list, get, create, update, complete, delete, with retries | TickTick |
| re-homing (`_rehome`, `_relocate_tt_task`, `relocate_link`) | none between runs | move a task in place, or copy and delete it, and move its row | TickTick, `link` |
| initial matching (`sync/reconcile.py`, `match` in `__main__.py`) | the plan's TSV file | `dry-run`: list, match by title and due date, write the file; `confirm`: link, create or cancel row by row | both services, `link` |
| OAuth and token (`ticktick/oauth.py`, `token_provider.py`) | token row | exchange a code, hand out the token while it is valid | TickTick |
| start-up (`app.py`, `sync/setup.py`), jobs (`scheduler.py`) | scheduler, pairs that could be built | build each pair, start the scheduler if there is a token, warn of its expiry | all |
| command line, configuration, logging, notifications | settings | one-shot | all |

The three writers of a pair (webhook request, poll, backfill) run as tasks of
one asyncio loop; `poll-once` and `match` are started from the command line, in a
second operating system process. They share the two services, the
database and, inside one process, a lock per link. They never talk to each
other directly: a poll that writes to Linear causes a webhook.

What is hard about it:

* everything `sync_pair` is given was read before it takes the lock;
* Linear announces the service's own writes; only a 30 s *echo window* keeps
  them from being taken for a user's edits;
* deliveries are duplicated, delayed, lost; a handler may die or fail between
  the write to the other side and the commit of the hash;
* "the task is not in the list" and "the issue is not in the first 250" do not
  mean deletion, but sometimes it *is* deletion;
* a counterpart is created in three awaits without a lock, while the update it
  causes is announced to another handler;
* the lock of one process means nothing to the other;
* each pair of team and list has a poll of its own. A task on its way from one to
  another exists twice, or has no row, and the other pair's poll sees it then;
* the plan of a matching is a file that waits between two commands, while users
  and the service change what it is about;
* TickTick's token ends while the scheduler runs, and there is no refresh.

What makes each part correct:

* *handlers and engine*: a logged delivery is not written twice; a recorded hash
  is of a pair that agrees; own writes do not come back; edits come to rest;
* *deletion*: an unbroken pair is never tombstoned, a living task never taken
  for missing, a broken pair always noticed, a returned task forgiven;
* *creation and table*: a row joins an item to its own counterpart only; every
  item gets a row; no item gets two counterparts;
* *re-homing*: a task is never lost on the way, keeps its status, ends up where its
  issue is, and its issue is not canceled for having moved;
* *matching*: the plan is a stable matching; confirming it makes the links it
  announced and cancels no issue that has a task;
* *life of the service*: no token ends without a warning, and polls resume after an
  authorization;
* *mappings*: a value carried over and back is the value that was carried.

`PROJECT.json` lists every hazard with its line and the properties that cover it.

## 2. The modules

| module | models |
|---|---|
| `Mappers` | the pure part: status, priority, label, date and description mappings, `canonical_hash`, `decide`, and what the two `_apply_*` functions send |
| `LinkSync` | **one linked pair**: `linear_webhook`, `sync_pair`, `_handle_remove`, `poll_once`, `_reconcile_missing_link`, `_tombstone_linear_issue`, `_linear_backfill`, the users, Linear's deliveries, failures and crashes |
| `LinkTable` | **many unlinked items**: creation of tasks by handler and backfill, of issues by the poll, and `upsert_link` |
| `PairLife` | the **abstract specification of a pair's life**: halves, tombstones and their reasons; `LinkSync` implements it |
| `Rehome` | **two or more pairs**: the whole poll of each, with `_rehome`, `_relocate_tt_task` and `relocate_link` call by call |
| `MatchPlan` | the pure part of `sync/reconcile.py`: the plan, its file, and what is read back from the file |
| `Reconcile` | `match dry-run` and `match confirm` beside the service of `LinkTable` (extends it) |
| `Lifecycle` | starts, pairs, scheduler, token and its warnings |
| `MCLinkSync`, `MCLinkTable`, `MCRehome`, `MCReconcile` | values of the constants for TLC, symmetry |
| `MappersProofs`, `LinkSyncProofs`, `PairLifeProofs`, `LinkTableProofs`, `RehomeProofs`, `CancelProofs`, `ReconcileProofs`, `LifecycleProofs` | theorems |

`LinkSync` is about what happens to a pair once it has a row, `LinkTable` about
how a row comes to be; each leaves to the other what is its subject (in
`LinkTable` a linked item is merely visited, and its `sync_pair` only keeps the
part of the code that adds a missing row). `Rehome` is about where a task is: it
has the whole control of the poll, but of contents only the status, which a copy
may lose.

A definition whose comment begins with "Slip:" is no part of any specification. It
is a mutated form of the definition after it, and `PROJECT.json` says which property
breaks if the code were so.

### LinkSync and the code

One action is what the code does between two awaits. `loc[p]` is a coroutine:
`pc` names the await it is at, `iss` and `tsk` the snapshots its local variables
hold, `arg` the delivery, `listed` whether the poll must still run
`reset_tt_miss` for the task. So a snapshot may be stale by the time it is used,
exactly where it may be in the code.

* `issue`, `task`, `live`: what the two services hold. `link`: the row; its
  `hash` is the tuple `canonical_hash` digests, so two hashes are equal when the
  digests are (collisions aside). `echo_l` and `echo_t` say that the echo window
  after a write to that side is open (`mark_synced` to `decide`).
* `seen` is `event_log`, `inbox` what Linear still has to deliver, `lock` the
  `asyncio.Lock` of the link in each process, `tombstones` the rows of that name.
* Lock acquisition, the second idempotency check, the re-read of the link and
  `decide` happen without an external await in between and are one action each:
  `SyncDuplicate`, `SyncNoop`, `SyncWrite`, by outcome. The write is `UpdateIssue`, or
  `CompleteTask` then `UpdateTask`; `Commit` is `mark_synced`, `record_event` and
  the commit of the session.
* `Raise` is any failing call: the session is rolled back (nothing was committed)
  and the lock released. A write that reached the other service before its answer
  was lost is the write followed by `Raise` from `commit_*`.
* The poll: `PollList` (open tasks), `PollBulk` (first 250 issues), then for a
  listed task sync or a direct fetch (`PollSkip`, `PollIssueMissing`), then
  `PollReset`; for a link whose task was not listed `PollHidden` or
  `PollMissing`, `PollMiss`, and at the threshold `PollCancel*`, `PollTombstone`.
* `_handle_remove` takes no link lock, and nor do its actions. Its event row may
  violate the unique key after the task was written: `RemoveRejected`.

Data is abstracted to what the properties tell apart: titles, bodies, item
lists and columns are model values; the checklist of a description is one value
(`items`); a state keeps its name and type because the choice of a state depends
on both; due dates are day numbers.

### LinkTable and the code

`issues` and `tasks` are what the services hold, `twins` a history variable: the
pairs of which one was created to mirror the other. A client whose `create` was
answered too late sends it again, so `CreateTask` and `CreateIssue` may leave an
item behind and run again. `listed` is what `list_team_issues` answers: the first `limit`
issues (250 in the code) in Linear's order, `IssueOrder`; there is no second page. In the
backfill only the creation and the sync are in a `try`: `FillRaises` is a failure of
anything else, which ends the job with all that was left of its list. `upsert_link` is translated with its search order
(issue first, then task); a row that would break a unique key makes the step a
`Raise`.

### LinkSync as a PairLife

`Life` in `LinkSync` is `PairLife` with `halves` for what is `live`, `reasons` for
`tombstones`, `broken` for the row's `tombstoned`, `marked` for the label on the issue,
and `failed` for `faults > 0`; `ImplementsPairLife` is its specification. A sync, a
poll that finds nothing and a miss that is counted are stutters. A tombstone is
`Break`, allowed only for a reason that holds: the task is gone, the issue is gone,
or a call has failed, because `find_issue_by_id` answers an error like a missing issue.

### Rehome and the code

`team` is the issue's team, `list` the list that holds the task, `rows` the link
table, `marked` the issues `_tombstone_linear_issue` has canceled. `origin` is a history
variable: the task of which another one is a copy. One action is one call; what a
poll has read is in `loc[p]` (the listed tasks, the bulk set, the links), as stale as
in the code.

* With `Overlap` the polls of different pairs may be interleaved, as the scheduler's
  jobs may: they start ten seconds apart and work for longer. Without it they run in
  turn, in the order of the sequence `ctxs` and round again, as those of `poll-once` do.
* `MovesInPlace` says what TickTick may do with a new `projectId`; the code
  itself tries, checks, and copies if the task did not move. Each attempt may differ.
* `Copy` may leave a copy behind and run again, like every `create` whose answer is
  lost. A failed `move` may have taken effect.
* The webhook and the backfill look for a task only in the list of the issue's
  present team. They find no task that has to be moved, and are left out.
* Users move an issue to any team, configured or not, move a task to another list, and
  complete a task or give it up.

### MatchPlan, Reconcile and the code

A name is a title with a due date; how alike two titles are (`rapidfuzz`) is the
constant `Score`. The plan is computed as in `build_match_plan`: for each task in turn
the best issue that is free, ties to the first. The file keeps its fields in order
and what Python's `csv` reader does to them: a title that *begins* with a lone quote
(`QuoteFirst`) takes in what follows, across fields and lines, up to the next quote.
The loops of the code are `For`, a fold written as a recursive function of the place
reached in the list, and `Kept` what a loop that skips some items goes through: the
library's `FoldLeft` and `SelectSeq` say the same, but their recursion is hidden from
the proofs.

`confirm` has one action per call and row; an exception ends its row and is counted, no
more. Its writes go to Linear's inbox like all others, and `Service` is the whole of
`LinkTable`'s `Next` beside it. `fresh` says that the table was empty when the plan was
made, i.e. that this is the *initial* matching; the lists are cut as in `LinkTable`.

Two history variables are there for `RowsAreMeant`. `meant` are the pairs somebody
meant to join: the links of a plan that was confirmed (`PlannedLinks`, taken from the
plan itself, not from what is read back from its file), and each creation with what it
mirrors. `misread` says that a confirmed file had a title that begins with a lone quote
(`Misquoted`), so that its rows may be other rows than the plan's. `twins`, in this
module, also has whatever `confirm` joins, because the service then goes by that.

### Lifecycle and the code

`sync_ctxs` are the pairs `lifespan` could build; it skips the others. `jobs` are those
polled, all or none. `expires_at` is of the token row; `Authorize` is the OAuth callback,
which starts no scheduler. `Poll` succeeds if the provider has a token. Time is
discrete: `Tick` is not possible while a check is due, so `next_check` is met on time
unless `MissCheck` says otherwise (the loop was busy for longer than APScheduler's
grace time, or Pushover did not answer). `since` is when the user last could expect no
warning yet.

## 3. What is checked

Every passing run explores its whole state space.

| run | instance | shows |
|---|---|---|
| `handlers` | 2 handlers of the service, `poll-once` in a second process; new pair; 2 edits or deletions of either side, 1 failure, 1 reusable delivery id and that of the removal (1.3 million states) | `TypeOK`; `OnceOnly`: a delivery in `event_log` is never written again; `HashedPairAgrees`: every recorded hash is of a pair with one title and corresponding priorities; `MissingTaskIsGone`: a hidden or living task is never taken for missing; `TombstonedPairIsBroken`; `ImplementsPairLife` |
| `tt_user` | 2 handlers, a poll; 3 TickTick edits of any field; prompt (3.3 million) | `OnlyUserChangesTask`: the service's own writes to Linear are never carried back |
| `settles` | handler, poll; edits on both sides; 1 failure; prompt; fair | `Settles`: the pair comes to rest with its hash recorded |
| `detects` | handler, poll, backfill; deletions and restorations; 1 failure, no lost deliveries; fair (63 thousand) | `DeletionDetected`: a broken pair ends up tombstoned; `ReturnedTaskIsForgiven`: no miss count is left once the task is back |
| `linked` | handler, poll, backfill; 2 issues, of which the first is listed, 2 tasks; 2 user operations, 1 failure; fair (883 thousand) | `TypeOK`; `RowsJoinTwins`: rows join counterparts only; `IssuesLinked`: a listed issue gets its row and keeps it; `ListedIssuesLinked`: at least, it always gets it back; `TasksLinked`: no task stays without a row |
| `rehomed` | 2 pairs polled in turn, 1 link, 3 issues, 4 tasks; one move of the issue, one of the task, one task ended; 1 failure; TickTick moves in place or not; fair (530 thousand) | `TypeOK`; `TaskSurvives`: of every linked task there is always a live copy; `NeverFalselyCanceled`: no issue is canceled because it moved; `DoneStaysDone`: a completed task is completed again; `Rehomed`: in the end row and task are in the list of the issue's team |
| `matched` | up to 4 commands; 4 issues, 3 tasks, 3 names (Milk is like two others, one of them with a quote), a list cut off after 3, a table with no or two rows; 1 user operation, 1 failure (1.8 million) | `TypeOKReconcile`; `RowsAreMeant`: the table is a matching of items that a confirmed plan or a creation joined, unless a file was misread; `PlanIsStable`; `FirstMatchIsMade`: a first `confirm` does all it planned; `CanceledIsOrphan`: no issue that a first plan cancels ever has a row, though `confirm` be repeated |
| `lifecycle` | 2 pairs, 2 starts, 2 tokens of three lifetimes, 1 missed check, time up to 14; fair (79 thousand) | `TypeOK`; `WarnedInTime`: a token in its last week or day is warned of by the next check; `PollsResume`: an authorization lets the polls of a running scheduler succeed |
| `poll_reverts`, `stale_hash`, `recopied`, `unmatched` | expected to be violated | section 4 |

**Bounds.** `MaxEdits`/`MaxUserOps` limit what users do, `MaxFaults` what fails
(failed calls, duplicate or lost deliveries, crashes), `UpdateIds` the
deliveries of one issue under way at a time, `TaskIds`/`IssueIds` the items. The
miss counter saturates at its threshold of two, above which the code treats all
counts alike. Two edits and one failure are enough for every
hazard listed: each needs one edit (to make a snapshot stale), one more (to have
something to lose) and one failure between a write and its commit. Two handlers
are what it takes for one delivery to pass the first check twice; a single poll and a
single backfill is what `max_instances=1` allows. An id may be used again
once its delivery is answered, and a new event with it is not a duplicate; with
every id in use a further change is reported by one of the deliveries that are
still to be handled, which read the issue when they run.

In `Rehome` two pairs suffice for a task to be where its row is not, and four task ids
for a re-homing, one repeated `create` and a second re-homing. In `Reconcile`
four commands are a dry run, a confirm, and both of them again, over the table the
first confirm has left. Three names give an
exact, an alike but differently dated, and a misquoted title, which is like the first, so
that two link rows may come to be glued together. In `linked` one of two issues may be
beyond the list; while there is only one, or the first is deleted, nothing is cut off. In `Lifecycle` a day is
two units and a week four: all that matters is day < week and whether the interval
between checks, here as long as a day, and a lifetime are shorter or longer than either.

The content sets have the sizes at which two users can disagree: two titles, two
statuses and, in `tt_user`, two bodies, a due date and a delegated column.
`DayShift`, by which a date read from a TickTick timestamp may be off by the time
zone, is 0 in the runs (see hazards). Hooks and titles are
interchangeable in the models; symmetry is used only in a run without liveness
properties.

**Deadlock.** In `LinkSync` jobs start again for ever and deadlock is checked. In the
runs of the other modules TLC is told not to: the ids, the commands or
the clock run out; that is the end of the instance and not of the
program. Where this could hide something the properties exempt it by name: `OutOfTasks`
and `OutOfIssues` in `LinkTable`, `OutOfIds` in `Rehome`.

**Exemptions.** Some properties name a case in which the code does not keep them, and
that case is a finding or a hazard. `LostFromSight` (a task its user moved and then
completed, or moved again, or whose issue then moved too; it asks only whether users have done such things) and `faults` in
`Rehome`; `Contested` (an issue of whose task a second issue is beyond the list) in `LinkTable`; `misread`, `Misquoted` and `fresh` in
`Reconcile`; `faults` in `PairLife`. `WarnedInTime` allows the warning the delay of one
interval, which in the default setting is all of the token's last day. A planned link
of an issue that has left the 250 listed by the time of `confirm` is not made either
(`PlannedLinksAreMade` asks for the others).

**Prompt.** With `Prompt` an echo window closes only when no delivery and no
process is under way: calls and announcements take less than the 30 s of the
window. `tt_user` and `settles` need this. Without it a delayed announcement
is taken for a user's edit, in the code as in the model.

**Fairness.** Weak fairness for the steps of handlers, polls and backfills: the
event loop runs every task that is ready, HTTP calls have timeouts and a bounded
number of retries, and the scheduler (`scheduler.py`) starts each job again, whatever
became of the last run. Strong fairness for entering `sync_pair`, because
`asyncio.Lock` serves its waiters first come first served. Strong fairness for
the end of an echo window: time passes. `Receive` is weakly fair: Linear
delivers what it did not give up on. Nothing is assumed of users, failures,
crashes, redeliveries or lost deliveries, except that in `Raise` the error for an object that is
gone does come (`TargetGone`). In `Rehome` a poll that has begun goes on (weak
fairness) and each pair's job starts again and again (strong fairness, because it
waits for the others). In `Lifecycle` only `Poll` is fair; nothing is assumed of
starts, authorizations or checks.

## 4. Where the code and what is said of it differ

Four runs check a sentence of the documentation and TLC finds it violated.

* `poll_reverts` (`OnlyUserChangesIssue`). `decide` trusts the side that
  reported, and the poll reports `TT_TO_LINEAR` for every pair whose hash
  differs. If it meets a Linear edit before its webhook does, it writes
  the *unchanged* task over the edit. `README.md:6` promises "last-writer-wins by
  `updatedAt`"; the timestamps are never compared, since every caller names its side.
* `stale_hash` (`HashMeansInSync`). The hash is taken over the answer to the
  write and the snapshot read before the lock, and unchanged fields are left out
  of the write. The recorded hash can be of a pair whose status or content
  differ, and `decide` then calls the pair in sync.
* `recopied` (`NeverFalselyCanceled`, with `Overlap`). Two polls run at once, and a copy
  has no row until `_rehome` is done. The poll of the new list takes it for a new task,
  creates an issue for it and stores a row; `relocate_link` then breaks the unique `ttid`,
  the moved issue keeps the row of a task that is deleted, is missed twice, and is
  canceled. `sync/poller.py:5` says that a task is re-homed "instead of falsely
  tombstoning it".
* `unmatched` (`PlannedLinksAreMade`, with the service running). Between `dry-run` and
  `confirm` the poll and the backfill create counterparts for the very items the plan
  wants to link; the link is then rejected by a unique key, or takes a row away from the
  counterpart. `__main__.py:139` says "link existing pairs", and the steps of the
  repository's README start the service (step 4) before they match (step 5).

The models also show the following; they have no run of their own and appear as
hazards, or as exemptions in the properties.

*A pair.* The backfill reports every differing pair as changed in Linear and so
writes an unchanged issue over a newer TickTick edit (`scheduler.py:92`). A due
date cleared in TickTick stays in Linear, because `update_issue` leaves out a
`None` (`linear/client.py:269`), and the hash is recorded all the same.
`_column_name` always answers `None`, so the first sync takes the Delegated label
off again (`sync/engine.py:142`). A lost remove delivery leaves the task open
(`sync/poller.py:138`). An open sub-state set between the poll's read and its
write is set back (`sync/engine.py:99`). One error answer is taken for a deleted
issue (`linear/client.py:125`). The issue of a vanished task gets the first
state of type canceled, whether or not it is called Noted (`sync/poller.py:347`). A
write from Linear to TickTick under way when `_handle_remove` runs, which takes no
lock, opens the task again (`webhook.py:131`, against `README.md:74`). Labelling an issue
makes Linear announce an update before the row is stored, and the handler of that
announcement creates a second task (`sync/linear_to_tt.py:44`).

*Re-homing.* A task moved to another pair's list and completed there, or moved on before
that list is polled, or whose issue then leaves the configured teams, is in no list the
poll of its row looks at: it is missed twice and the issue canceled. A copy of a task given up (wontDo) is open again,
though the comment at `sync/poller.py:273` names that status. The status a copy gets was
read before the move; what the user does in between is undone. A task deleted between
the list and the copy comes back.

*Creation.* An issue beyond the first 250 has nothing but its deliveries: if the one that
could create its task is answered "not found" on an error (`linear/client.py:125`), it never
gets a row. A task that was found by the poll before its row was stored has two issues. If one
of them is beyond the list it is given no task of its own, and poll and backfill, each in a
`sync_pair` that was begun when its issue had the row, can take it from each other for ever
(`sync/engine.py:241`). A link that cannot be read or a `get_task` that fails ends the whole
backfill (`scheduler.py:81`).

*Matching.* The file takes out tabs, but a title that begins with a lone quote makes Python's
`csv` reader go on to the next quote, across lines. Two link rows whose task titles begin like
that come back as one: the id of the first task, the issue of the second, and `confirm` links
these two (`RowsAreMatched` alone, without `misread`, is violated in `matched`). Other rows
disappear, or the file is unreadable. `dry-run` is described as without writes, but
the set-up it runs creates labels and lists. Run again over a table that is not empty,
`match` can cancel the issue of a row, and it does so for every completed task, since those
are not listed. Issues are listed whatever their state, so a later plan may link a new task to
an issue that an earlier `confirm` has canceled. Repeating `confirm` repeats what it creates. `upsert_link` keeps the tombstone,
the hash and the miss count of a row it uses again. Only the first 250 issues take part.
Of due dates `sync/reconcile.py:6` says "or both null"; one null is enough. The
number of rows "linked" counts those that were skipped.

*Life of the service.* A scheduler that was not started for want of a token is not
started by the authorization either; only a restart does that. With a check interval
of a day or more, a token may end without the "ASAP" warning (`WarnedInTime` allows it the
next check). A check later than a second is skipped, and a warning that cannot be
pushed is not repeated before the next one. An absent `expires_in` is taken for one
day. `/healthz` answers "ok" without a scheduler. `backfill_on_start` is read by nobody.

## 5. What is proved

For every value of the constants that meets the assumptions: any numbers of
handlers, polls, backfills, processes, pairs, items, edits, commands, tokens and
failures, any board.

| theorem | module | statement |
|---|---|---|
| `PriorityRoundTrip` | `MappersProofs` | a TickTick priority, any integer, mapped to Linear and back is its own bucket |
| `StatusRoundTrip` | `MappersProofs` | a status mapped to Linear and back is the same, on every board that has the three kinds of state it needs |
| `TypeCorrect` | `LinkSyncProofs` | `Spec => []TypeOK` |
| `WrittenOnce` | `LinkSyncProofs` | `Spec => []OnceOnly` |
| `HashesAgree` | `LinkSyncProofs` | `Spec => []HashedPairAgrees` |
| `MissingIsGone` | `PairLifeProofs` | `Spec => []MissingTaskIsGone` if nobody restores a deleted task |
| `ImplementsLife` | `PairLifeProofs` | `Spec => ImplementsPairLife` if nobody restores a deleted task: every step of `LinkSync` is one of `PairLife` or a stutter |
| `TombstonedIsBroken` | `PairLifeProofs` | `Spec => []TombstonedPairIsBroken`, from the refinement, under the same condition |
| `TableTypeCorrect` | `LinkTableProofs` | `Spec => []TypeOK` |
| `TableJoinsTwins` | `LinkTableProofs` | `Spec => []RowsJoinTwins` |
| `TypeCorrect` | `RehomeProofs` | `Spec => []TypeOK`, with overlapping polls too |
| `TasksSurvive` | `RehomeProofs` | `Spec => []TaskSurvives`, with overlapping polls, failures and crashes |
| `CopiesStayDone` | `RehomeProofs` | `Spec => []DoneStaysDone`, with overlapping polls and crashes |
| `NoFalseCancel` | `CancelProofs` | `Spec => []NeverFalselyCanceled` if the polls take turns (`~Overlap`) |
| `TableIsMeant` | `ReconcileProofs` | `SpecReconcile => []RowsAreMeant`: the table is always a matching, and joins only what a confirmed plan or a creation joined unless a misquoted file was confirmed |
| `MatchTypeCorrect` | `ReconcileProofs` | `SpecReconcile => []TypeOKReconcile` |
| `PlanStaysStable` | `ReconcileProofs` | `SpecReconcile => []PlanIsStable`, for any lists, scores, due days and thresholds |
| `FirstMatchMade` | `ReconcileProofs` | `SpecReconcile => []FirstMatchIsMade` while the service is stopped (`Procs = {}`) |
| `CanceledAreOrphans` | `ReconcileProofs` | `SpecReconcile => []CanceledIsOrphan` while the service is stopped |
| `TypeCorrect` | `LifecycleProofs` | `Spec => []TypeOK` |
| `TokenWarning` | `LifecycleProofs` | `Spec => []WarnedInTime`, whatever the lifetimes and the interval |

**Assumptions** are the named `ASSUME`s of `Mappers`, `LinkSync`, `LinkTable`,
`Rehome`, `Reconcile` and `Lifecycle`:
the sets of processes are disjoint, the handlers live in one process (one server
answers the webhooks), the remove delivery has an id of its own, the bounds are
numbers, `None` is none of the values, priorities are numbers, Linear's
from 0 to 4, dates are day numbers, and the board is a non-empty sequence of states. The rows at the
start are a matching, and no configured pair is the team elsewhere; a day is no longer
than a week; scores are from 0 to 100; `ctxs` has every pair once, and the orders of
issues (`OrderAssumption`) and tasks every item once (an API lists nothing twice). `ImplementsLife`, like `MissingIsGone`, assumes
that no user restores a deleted task: with restorations a task may be back by the time
the poll that has missed it twice writes its tombstone. `NoFalseCancel` is about polls
that take turns, those of `poll-once`; the scheduler's jobs of two pairs may overlap,
and then the property fails (run `recopied`). `FirstMatchMade` and `CanceledAreOrphans` are
about a service that is stopped while the tables are matched; if it runs, they fail
(run `unmatched`). Users and failures come in between in either case.

**Arguments.** None of these invariants is inductive by itself.

* `TypeInv` strengthens `TypeOK` with what a process must have read by the time
  it is at a step (`ReadingOK`): at `sync` it holds an issue and a task, at
  `cancel` the board has a canceled state, a handler that is not idle has a
  delivery, and only polls have a task to reset. Without this an action such as
  `UpdateIssue` could read a field of `None`.
* `OnceInv` adds to `OnceOnly` the reason for it: whoever writes holds the lock
  of its process, hence at most one handler does, and a new entry of
  `event_log` made by the holder is its own. It is here that one server for all
  webhooks is needed. `RemoveCommit` writes without the lock, but has an
  id no writing handler has.
* `AgreeInv` adds what a process holds while its write is not yet committed: the
  answer to a write and the snapshot it was computed from agree on title and
  priority (lemmas `IssueWrite`, `TaskWrite`, from `PriorityRoundTrip`). What
  the users do meanwhile does not matter, because the hash is not taken over
  what the services hold then. That is also why the property says nothing of
  status and content, where the code does leave fields out (`stale_hash`).
* `MissInv`: while the task lives, nobody is past the probe, the issue is
  unmarked, *and no process holds a copy of the issue with the mark*: a write
  computed from such a copy would bring the label back. `live` only shrinks
  without restorations, so a process that once saw the task missing was right
  for good.
* `TwinInv`: a process about to store a row, or to visit one, holds a pair that
  is in `twins`, and a process about to create holds the item it mirrors. `twins`
  only grows, so what one process knows no other can undo.

* *Step simulation.* `ImplementsLife` maps each action of `LinkSync` to a step of
  `PairLife`: most to a stutter, deletions to `Lose`, and each way to a tombstone to the
  `Break` whose reason it has. That the reason holds needs `MissInv` for the
  poll and `RemoveInv` for the webhook: while the issue lives, no removal is under way,
  being handled or logged. `EachHasItsReason`, inductive in `PairLife`, then gives
  `TombstonedIsBroken` for the detailed pair at once.
* `SafeCopy` strengthens `TaskSurvives`: of every linked task some copy lives *that no
  poll means to delete*. A poll means to delete the task it has copied and nothing
  else, and only once it has made the copy, which is new, so that no poll means to
  delete it yet.
* `TableInv`, whatever the file holds: the table is a matching, the row under way on the command
  line is of `twins` (`CliKnowsTwins`), and `TwinInv` stays true for the service beside it.
  That alone says nothing of who meant a row. `MeantInv` does: until a file was
  misread, `twins` is within `meant`, and so is every link row that `confirm` has still to do
  (`TodoMeant`), because a file without such a title is read back as the plan it was written
  from (`FileReadBack`, from `PlanReadBack` below) and `Confirm` adds that plan's links
  (`ConfirmMeans`). A row that is glued together is what `TodoMeant` would fail on.
* `DoneKept`: until a poll makes its copy, a task it read as completed still is, since users may
  complete a task but do not open it again; once the copy is made, a poll that read the task as
  completed has a completed copy in hand, or some call has failed. The copy is new and has no
  row, so no other poll has it in hand.
* `TurnInv` for `NoFalseCancel`: at most one poll runs, what it has in hand belongs to a row,
  and to none twice. While no user has moved a task, every task is in the list of its row or
  in the hands of the poll that is moving it, so nothing is ever missed (`Home`). If one
  task was moved, once, and nothing else, it may be missed once, by the poll of its
  row's list; then, going round in `ctxs`, the turn of the list it is in now comes before that of
  its row again (`Between`), and that poll brings it back and resets the count (`Still`).
  What is not covered by either is `LostFromSight`.
* *Loops.* `LoopRuns` shows that there is a function which goes through the rounds of
  a loop (so the recursive definition is one), `UpTo` that what holds at the start and is kept
  by each round holds at the end; both come from the well-foundedness of the numbers. With them
  `KeptIs` says what a loop that skips items goes through, `BestIs` that
  `BestIssue` finds the first of the best fitting issues, and `LinksMatch`, by an
  invariant over the tasks matched so far (`Matched`: each pair fits, nobody is used
  twice, and every task so far is `Content`), that no task and issue prefer each other.
* `MatchInv` adds to `TableInv` that the command line has listed nothing twice and nothing
  that was not there (`ListsInv`), and that a plan just made is stable for the names its items
  have (`PlanInv`): items that have a name keep it, and new ones are not in the lists.
* `MadeInv` for a first match. A plan without a leading quote is read back as it was
  written (`PlanReadBack`, again by loops). Every row of the table is then one the plan
  links, or of a task the plan creates an issue for and an issue the plan says nothing
  of (`FreshRows`); that is why no row is of an issue to be canceled, and
  why a row to be stored never meets a foreign one (`RowFits`). What `confirm` has still to
  do is the rest of the plan, and it has made all before that (`Through`), unless a call failed.
* `CheckInTime`: the next check comes no later than one interval after the token's last
  week, or day, has begun, or after `since`, unless the user is warned already.

**Model-checked only.** All liveness and its fairness (`Settles`,
`DeletionDetected`, `ReturnedTaskIsForgiven`, `IssuesLinked`, `ListedIssuesLinked`,
`TasksLinked`, `Rehomed`,
`PollsResume`) is outside what the proof system does. `OnlyUserChangesTask` is the one
safety property of a passing run without a theorem: it rests on deliveries and calls being prompt,
i.e. on what is under way in every process at once, and is checked for two handlers and a poll.
`matched` has the service stopped; that `RowsAreMeant` holds beside it too, for any handlers, polls
and backfills, is what `TableIsMeant` proves.
`NeverFalselyCanceled` does not hold for overlapping polls (`recopied`), and `FirstMatchIsMade` and
`CanceledIsOrphan` are not claimed beside a running service, which may link an issue or a task
itself between the plan and its confirmation.

## 6. What is not modelled

* *Rate limiters* of the two clients: a delay before each call, no change of state. The
  retries are modelled where they can do a thing twice, at every `create`.
* *Webhook verification*: a pure check before any change of state.
* *A board that changes*: states and labels are cached at start-up; the models
  take the cache to be right.
* *Set-up*: what creates a team's labels and TickTick's list; a pair is there or could
  not be built (`Lifecycle`).
* *The OAuth exchange*: the authorize URL, the `state` parameter and the HTTP request; only
  its outcome, a token row, is modelled.
* *`setup` and `token-status`*, which print; configuration, logging, text of
  notifications: no state that a property could be about.
* In `Mappers`, the removal of an old description format and a payload for
  creating tasks that nothing calls.

## 7. What could follow

1. An abstract table (each item unlinked, being linked, linked) which `LinkTable`
   and `Rehome` refine, as `LinkSync` does `PairLife`.
2. Boards and labels that change while the service runs; a non-zero `DayShift`.
3. Proofs: `OnlyUserChangesTask`; that the miss counter reaches its
   threshold only over consecutive misses, as an action property;
   `ImplementsLife` with restorations, for an abstract pair whose halves may come back.
4. The rate limiters and the retry loops of the clients as a module of their own.
