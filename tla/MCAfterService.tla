---------------------------- MODULE MCAfterService ----------------------------
(* Values for TLC. *)
EXTENDS AfterService, TLC

AllOperations == OperationKinds
RowSymmetry == Permutations(Visits) \cup Permutations(Clients)
=============================================================================
