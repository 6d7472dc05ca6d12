----------------------------- MODULE MCLinkSync -----------------------------
(***************************************************************************)
(* Values for the constants of LinkSync: one workflow board, and processes   *)
(* of the service and of a `poll-once` run beside it.                      *)
(***************************************************************************)
EXTENDS LinkSync, TLC

CONSTANT CliProcs  \* polls the command line started

Backlog  == [name |-> "Later",       type |-> "backlog"]
Todo     == [name |-> "Todo",        type |-> "unstarted"]
Doing    == [name |-> "In Progress", type |-> "started"]
Finished == [name |-> "Done",        type |-> "completed"]
Canceled == [name |-> "Canceled",    type |-> "canceled"]
Noted    == [name |-> "Noted",       type |-> "canceled"]

Board == <<Backlog, Todo, Doing, Finished, Canceled, Noted>>

OnlyTodo     == {Todo}
OpenStates   == {Todo, Doing}
TodoFinished == {Todo, Finished}

MCInstanceOf == [p \in Procs |-> IF p \in CliProcs THEN "cli" ELSE "service"]

Symmetry == Permutations(Hooks) \cup Permutations(Titles)
=============================================================================
