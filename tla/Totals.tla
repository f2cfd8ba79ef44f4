------------------------------- MODULE Totals -------------------------------
(***************************************************************************)
(* Adding up a column: what SUM does in the triggers of finance and reduce *)
(* in its services.                                                        *)
(***************************************************************************)
EXTENDS Integers, Folds

Total(f) == MapThenFoldSet(+, 0, LAMBDA x : f[x], LAMBDA S : CHOOSE x \in S : TRUE, DOMAIN f)
=============================================================================
