----------------------------- MODULE MatchPlan -----------------------------
(***************************************************************************)
(* The plan `match dry-run` makes of the tasks and issues it finds, and the  *)
(* file that takes it to `match confirm` (sync/reconcile.py).  A name stands *)
(* for a title and a due date; how alike two titles are is rapidfuzz's       *)
(* affair, and given.                                                       *)
(***************************************************************************)
EXTENDS Integers, SequencesExt

CONSTANTS
    Names,
    Score,                  \* token_set_ratio of two titles
    Due,                    \* the day, or None
    QuoteFirst, QuoteInside,           \* titles that begin with a lone quote, or have one inside
    match_threshold, match_due_window_days, None

due_diff_days(n, m) ==
    IF Due[n] = None \/ Due[m] = None THEN None
    ELSE IF Due[n] < Due[m] THEN Due[m] - Due[n] ELSE Due[n] - Due[m]

Fits(n, m) ==
    /\ Score[n, m] >= match_threshold
    /\ due_diff_days(n, m) = None \/ due_diff_days(n, m) <= match_due_window_days

\* A loop over a list: FoldLeft as a recursive function of the place reached.
For(seq, start, Step(_, _)) ==
    LET at[k \in 0..Len(seq)] == IF k = 0 THEN start ELSE Step(at[k - 1], seq[k])
    IN  at[Len(seq)]

\* What a loop that skips the others goes through.
Kept(seq, S) == For(seq, <<>>, LAMBDA kept, x : IF x \in S THEN Append(kept, x) ELSE kept)

\* Slip: of issues as much alike the last one is taken.
LastBestIssue(name, t, free) ==
    LET Better(best, i) ==
            IF /\ Fits(name[t], name[i])
               /\ best = None \/ Score[name[t], name[i]] >= Score[name[t], name[best]]
            THEN i ELSE best
    IN  For(free, None, Better)

\* The first of the issues most like the task.
BestIssue(name, t, free) ==
    LET Better(best, i) ==
            IF /\ Fits(name[t], name[i])
               /\ best = None \/ Score[name[t], name[i]] > Score[name[t], name[best]]
            THEN i ELSE best
    IN  For(free, None, Better)

PlanRow(t, i, action) == [ttid |-> t, ident |-> i, action |-> action]

Planned(plan, t, i) == \E r \in Range(plan) : r.ttid = t \/ r.ident = i

\* Slip: an issue that is matched stays free for the next task.
LinkRowsUnmarked(name, tasks, issues) ==
    LET Match(plan, t) ==
            LET i == BestIssue(name, t, issues)
            IN  IF i = None THEN plan ELSE Append(plan, PlanRow(t, i, "link"))
    IN  For(tasks, <<>>, Match)

LinkRows(name, tasks, issues) ==
    LET Match(plan, t) ==
            LET free == Kept(issues, {i \in Range(issues) : ~Planned(plan, None, i)})
                i    == BestIssue(name, t, free)
            IN  IF i = None THEN plan ELSE Append(plan, PlanRow(t, i, "link"))
    IN  For(tasks, <<>>, Match)

Rows(seq, Row(_)) == [k \in DOMAIN seq |-> Row(seq[k])]

\* Slip: every labelled issue is taken for an orphan.
PlanCancelsLabelled(name, tasks, issues, labelled) ==
    LET links == LinkRows(name, tasks, issues)
        alone == Kept(tasks, {t \in Range(tasks) : ~Planned(links, t, None)})
        orphans == Kept(issues, labelled)
    IN  links \o Rows(alone, LAMBDA t : PlanRow(t, None, "create_linear"))
              \o Rows(orphans, LAMBDA i : PlanRow(None, i, "tombstone_linear"))

\* What is matched, then what is left of the tasks, then of the labelled issues.
build_match_plan(name, tasks, issues, labelled) ==
    LET links == LinkRows(name, tasks, issues)
        alone == Kept(tasks, {t \in Range(tasks) : ~Planned(links, t, None)})
        orphans == Kept(issues, {i \in labelled : ~Planned(links, None, i)})
    IN  links \o Rows(alone, LAMBDA t : PlanRow(t, None, "create_linear"))
              \o Rows(orphans, LAMBDA i : PlanRow(None, i, "tombstone_linear"))

----------------------------------------------------------------------------
(* The file: one line a row, seven fields a line; None is the empty field and *)
(* "num" any number.                                                         *)

to_tsv(name, r) ==
    LET Title(x) == IF x = None THEN None ELSE name[x]
        days == IF r.ttid = None \/ r.ident = None THEN None
                ELSE due_diff_days(name[r.ttid], name[r.ident])
    IN  << r.ttid, Title(r.ttid), r.ident, Title(r.ident), "num",
           IF days = None THEN None ELSE "num", r.action >>

write_plan_tsv(name, plan) == Rows(plan, LAMBDA r : to_tsv(name, r))

\* csv's reader: a field that begins with a quote takes in what follows, tabs
\* and line ends too, up to the next quote, and then the rest of that field.
ReadField(acc, f) ==
    IF acc.quoted
    THEN [acc EXCEPT !.rec = Append(Front(@), "text"), !.quoted = f \notin QuoteFirst \cup QuoteInside]
    ELSE [acc EXCEPT !.rec = Append(@, f), !.quoted = f \in QuoteFirst]

ReadLine(acc, line) ==
    LET end == For(line, acc, ReadField)
    IN  IF end.quoted THEN end
        ELSE [end EXCEPT !.recs = Append(@, end.rec), !.rec = <<>>]

Records(lines) ==
    LET end == For(lines, [recs |-> <<>>, rec |-> <<>>, quoted |-> FALSE], ReadLine)
    IN  IF end.rec = <<>> THEN end.recs ELSE Append(end.recs, end.rec)

Field(rec, k) == IF k <= Len(rec) THEN rec[k] ELSE None

IsNumber(f) == f \in {None, "num"}

\* One score or difference that is no number, and nothing is read.
Readable(lines) ==
    \A rec \in Range(Records(lines)) : IsNumber(Field(rec, 5)) /\ IsNumber(Field(rec, 6))

read_plan_tsv(lines) ==
    Rows(Records(lines), LAMBDA rec : PlanRow(Field(rec, 1), Field(rec, 3), Field(rec, 7)))
=============================================================================
