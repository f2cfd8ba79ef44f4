----------------------------- MODULE MCSettlement -----------------------------
(* Values for TLC. *)
EXTENDS Settlement, TLC

SomeBillAmounts == {2}
AllRequests == RequestKinds
RowSymmetry == Permutations(Payments) \cup Permutations(Refunds) \cup Permutations(Clients)
=============================================================================
