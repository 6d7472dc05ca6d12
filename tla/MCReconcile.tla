---------------------------- MODULE MCReconcile ----------------------------
(***************************************************************************)
(* Reconcile for TLC: three titles with due dates.  Milk is like MilkSoon,    *)
(* due three days later, and like Quoted, which begins with a lone quote.     *)
(***************************************************************************)
EXTENDS Reconcile

CONSTANTS i1, i2, i3, i4, t1, t2, t3, Milk, MilkSoon, Quoted

Issues3 == <<i1, i2, i3>>
Issues4 == <<i1, i2, i3, i4>>
Tasks2  == <<t1, t2>>
Tasks3  == <<t1, t2, t3>>

NoRows     == {{}}
RowsOrNone == {{}, {<<i1, t1>>, <<i2, t2>>}}

Scores == [n \in Names \X Names |-> IF n[1] = n[2] THEN 100
                                    ELSE IF Milk \in {n[1], n[2]} THEN 90 ELSE 40]
Dues == [n \in Names |-> IF n = Milk THEN 3 ELSE IF n = MilkSoon THEN 6 ELSE None]
=============================================================================
