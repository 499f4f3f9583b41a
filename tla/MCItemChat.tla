----------------------------- MODULE MCItemChat -----------------------------
(* A small instance of ItemChat for TLC: a planned purchase and a Task with a    *)
(* message each.                                                                 *)
EXTENDS ItemChat, Calendar, TLC

CONSTANTS p1, t1, m1, m2

PurchaseAndTask == {(p1 :> "planned") @@ (t1 :> "task")}
OneEach         == (m1 :> p1) @@ (m2 :> t1)
Keep            == [k \in Kinds |-> IF k = "task" THEN 1 ELSE 2]

\* The month button on 31 January of a leap year.
LastOfJanuary == [year |-> 2024, month |-> 1, day |-> 31]
MonthButton   == {Ordinal(AddCalendarMonth(LastOfJanuary)) - Ordinal(LastOfJanuary)}
=============================================================================
