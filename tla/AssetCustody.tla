----------------------------- MODULE AssetCustody -----------------------------
(***************************************************************************)
(* What the rental system promises about the custody of its assets,        *)
(* whatever requests overlap: an asset is in the custody of at most one    *)
(* contract item; it never passes straight from one item to another, only  *)
(* by coming back first; and an item's custody is one uninterrupted term.  *)
(***************************************************************************)
CONSTANTS Items, Assets, None

VARIABLES
    holder,  \* [Assets -> Items \cup {None}], the item an asset is out with
    spent    \* items whose term is over, or that will never have one

vars == <<holder, spent>>

Holding == {holder[a] : a \in Assets} \ {None}

Init == holder = [a \in Assets |-> None] /\ spent = {}

\* Some assets come back, others go out to items that never had one before.
Next ==
    /\ holder' \in [Assets -> Items \cup {None}]
    /\ \A a \in Assets :
         holder'[a] # holder[a] =>
            \/ holder'[a] = None
            \/ holder[a] = None /\ holder'[a] \notin spent \cup Holding
    /\ spent \cup (Holding \ Holding') \subseteq spent'
    /\ spent' \cap Holding' = {}

Spec == Init /\ [][Next]_vars
=============================================================================
