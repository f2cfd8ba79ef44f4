------------------------------ MODULE MCBilling ------------------------------
(* Values for TLC: a month of one day and two of two. *)
EXTENDS Billing, TLC

ShortThenLong == <<1, 2, 4, 6>>
NothingFree == [k \in Counters |-> 0]
APlan(day, timing, fee) == [day |-> day, timing |-> timing, fee |-> fee]
EachPlan == {APlan(1, "PREPAID", FALSE), APlan(1, "POSTPAID", FALSE), APlan(2, "POSTPAID", FALSE),
             APlan(1, "PREPAID", TRUE)}
ColorOrNone == {n \in Counts : n["color"] \in IF n["black"] = 1 THEN {1, None} ELSE {0}}
RowSymmetry == Permutations(Readings)
=============================================================================
