-------------------------- MODULE MCRentalContracts --------------------------
(* Values for TLC: which requests staff send in each instance. *)
EXTENDS RentalContracts, TLC

ItemRequests == {"create", "activate", "end", "cancel", "addItem", "removeItem", "replace", "return"}
IsolatedRequests == ItemRequests \cup {"cancelOrder"}
OverlapRequests == ItemRequests \ {"return"}
LiveRequests == {"create", "activate", "extend", "update", "schedule", "replace", "return",
                 "setStatus", "softDelete", "cancel"}
OrderRequests == {"create", "activate", "cancelOrder"}
DeleteRequests == {"create", "activate", "softDelete"}

RowSymmetry == Permutations(Contracts) \cup Permutations(Items) \cup Permutations(Assets) \cup Permutations(Clients)
=============================================================================
