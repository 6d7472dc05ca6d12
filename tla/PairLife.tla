------------------------------ MODULE PairLife ------------------------------
(***************************************************************************)
(* What the service promises about the life of a linked pair, whatever it   *)
(* does in between: a pair that is whole is never given up or marked as      *)
(* given up, each tombstone has its reason, and what is given up stays so.   *)
(* LinkSync implements it.                                                  *)
(***************************************************************************)

VARIABLES
    halves,  \* what the users have not deleted
    reasons, \* tombstones of the pair
    broken,  \* the pair is given up
    marked,  \* the issue carries the label of a vanished task
    failed   \* some call of the service has failed

life == <<halves, reasons, broken, marked, failed>>

Reason == {"linear_missing", "tt_missing_2x", "linear_remove"}

\* A loss of either half, or a failure, may come at any time.
Lose(h) ==
    /\ halves' = halves \ {h}
    /\ UNCHANGED <<reasons, broken, marked, failed>>

Fail ==
    /\ failed' = TRUE
    /\ UNCHANGED <<halves, reasons, broken, marked>>

\* The task is gone; only an issue that looks missing may be there after all,
\* as a failed call looks just like that (find_issue_by_id).
Justified(r) ==
    CASE r = "tt_missing_2x"  -> "task" \notin halves
      [] r = "linear_remove"  -> "issue" \notin halves
      [] r = "linear_missing" -> "issue" \notin halves \/ failed'

Break(r) ==
    /\ failed' \in {failed, TRUE}
    /\ Justified(r)
    /\ reasons' = reasons \cup {r}
    /\ broken' = TRUE
    /\ UNCHANGED <<halves, marked>>

\* The label is written, or lost in a write that was computed before.
Relabel ==
    /\ "issue" \in halves /\ "task" \notin halves
    /\ marked' \in BOOLEAN
    /\ UNCHANGED <<halves, reasons, broken, failed>>

Init ==
    /\ halves = {"issue", "task"}
    /\ reasons = {}
    /\ broken = FALSE /\ marked = FALSE /\ failed = FALSE

Next ==
    \/ \E h \in halves : Lose(h)
    \/ Fail
    \/ \E r \in Reason : Break(r)
    \/ Relabel

Spec == Init /\ [][Next]_life

\* A pair that is given up has lost a half, or has seen a call fail, and its
\* tombstones say which; its issue is marked only if the task is gone.
EachHasItsReason ==
    /\ reasons \subseteq Reason
    /\ broken => reasons # {}
    /\ "tt_missing_2x" \in reasons \/ marked => "task" \notin halves
    /\ "linear_remove" \in reasons => "issue" \notin halves
    /\ "linear_missing" \in reasons => "issue" \notin halves \/ failed
=============================================================================
