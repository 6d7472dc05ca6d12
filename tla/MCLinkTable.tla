---------------------------- MODULE MCLinkTable ----------------------------
(***************************************************************************)
(* LinkTable for TLC: Linear lists i1 before i2.                            *)
(***************************************************************************)
EXTENDS LinkTable

CONSTANTS i1, i2

Issues2 == <<i1, i2>>
=============================================================================
