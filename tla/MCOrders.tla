------------------------------ MODULE MCOrders ------------------------------
(* Values for TLC. *)
EXTENDS Orders, TLC

AllRequests == RequestKinds
RowSymmetry == Permutations(Orders) \cup Permutations(Lines)
                 \cup Permutations(Clients)
=============================================================================
