------------------------------ MODULE MCRehome ------------------------------
(***************************************************************************)
(* Rehome for TLC: two pairs, one task linked at the start.                 *)
(***************************************************************************)
EXTENDS Rehome

CONSTANTS i1, t1, A, B

OneLink == {<<i1, t1>>}

InTurn == <<A, B>>

EachOnce  == [op \in UserOps |-> 1]
OneMove   == [op \in UserOps |-> IF op = "move_issue" THEN 1 ELSE 0]
=============================================================================
