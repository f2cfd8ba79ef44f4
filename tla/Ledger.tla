------------------------------- MODULE Ledger -------------------------------
(***************************************************************************)
(* What the finance module promises about money, with no rows, no          *)
(* transactions and no triggers: for each invoice the money placed on it,  *)
(* the part of it that refunds lay claim to, and the part given back.      *)
(* Settlement implements it.                                               *)
(***************************************************************************)
EXTENDS Naturals

CONSTANT Accounts     \* the invoices

VARIABLES
    placed,    \* [Accounts -> Nat], allocated by payments that stand
    claimed,   \* [Accounts -> Nat], by refunds that are not canceled
    returned   \* [Accounts -> Nat], by refunds that are completed

ledgerVars == <<placed, claimed, returned>>
Covered == \A v \in Accounts : claimed[v] <= placed[v]

Init ==
    /\ placed = [v \in Accounts |-> 0]
    /\ claimed = [v \in Accounts |-> 0]
    /\ returned = [v \in Accounts |-> 0]

\* A payment pays any number of invoices at once.
Receive ==
    /\ placed' # placed
    /\ \A v \in Accounts : placed[v] <= placed'[v]
    /\ UNCHANGED <<claimed, returned>>

\* A payment is taken back from all of them, as far as no refund rests on it.
Withdraw ==
    /\ placed' # placed
    /\ \A v \in Accounts : placed'[v] <= placed[v]
    /\ Covered'
    /\ UNCHANGED <<claimed, returned>>

Claim(v) ==
    /\ claimed[v] < claimed'[v] /\ claimed'[v] <= placed[v]
    /\ claimed' = [claimed EXCEPT ![v] = claimed'[v]]
    /\ UNCHANGED <<placed, returned>>

Release(v) ==
    /\ claimed'[v] < claimed[v] /\ returned[v] <= claimed'[v]
    /\ claimed' = [claimed EXCEPT ![v] = claimed'[v]]
    /\ UNCHANGED <<placed, returned>>

\* Money that was given back stays given back.
Return(v) ==
    /\ returned[v] < returned'[v] /\ returned'[v] <= claimed[v]
    /\ returned' = [returned EXCEPT ![v] = returned'[v]]
    /\ UNCHANGED <<placed, claimed>>

Next ==
    \/ Receive \/ Withdraw
    \/ \E v \in Accounts : Claim(v) \/ Release(v) \/ Return(v)

Spec == Init /\ [][Next]_ledgerVars
=============================================================================
