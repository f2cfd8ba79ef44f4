--------------------------- MODULE RentalContracts ---------------------------
(***************************************************************************)
(* The rental contract lifecycle of apps/api: contracts, their items and   *)
(* the assets the items occupy, as changed by RentalContractService, by    *)
(* the nightly RentalContractExpiryCron, by AssetService (manual status    *)
(* change, soft delete), by OrderService (an order is canceled) and by     *)
(* MaintenanceScheduleService.                                             *)
(*                                                                         *)
(* The service reads rows, decides, and then writes in a transaction at    *)
(* PostgreSQL's READ COMMITTED level.  Nothing it read is locked or        *)
(* versioned, so every request is a read step (XxxBegin, XxxCheck..) that  *)
(* remembers what it saw in req[w], and a write step (XxxCommit) that acts *)
(* on what it remembers.  All the writes of a transaction address rows by  *)
(* primary key, hold their row locks to the end, and are checked by        *)
(* triggers and indexes against the CURRENT row: the write step is         *)
(* therefore one atomic action whose guard is those database checks.  The  *)
(* one statement that selects its rows itself (the updateMany of a         *)
(* cancellation) is split from its commit, see CancelScan.                 *)
(***************************************************************************)
EXTENDS Naturals, FiniteSets

CONSTANTS
    Contracts,     \* contract rows; contract c belongs to rental order c (unique index)
    Items,         \* contract item ids, each used at most once
    Assets,        \* registered assets
    Clients,       \* requests served concurrently on behalf of staff
    Cron,          \* the expiry job
    None,          \* no contract, no item, no asset
    Requests,      \* the kinds of request staff send in this instance
    ManualTargets, \* the asset statuses staff set by hand
    Expirable,     \* the contracts whose end date this instance lets pass
    Overlap        \* "any": requests overlap freely, as deployed;
                   \* "perContract": never two at once for one contract

Workers == Clients \cup {Cron}

RequestKinds == {"create", "update", "extend", "activate", "end", "cancel",
                 "addItem", "removeItem", "replace", "return", "setStatus",
                 "softDelete", "cancelOrder", "schedule"}

ContractStatus == {"NONE", "DRAFT", "ACTIVE", "ENDED", "CANCELED"}
ItemStatus == {"NONE", "PENDING", "ACTIVE", "RETURNED", "REPLACED", "CANCELED", "DELETED"}
AssetStatus == {"INCOMING", "AVAILABLE", "RENTED", "REPAIR", "UNAVAILABLE",
                "LOST", "SOLD", "DISPOSED"}

ASSUME ConstantsAssumption ==
    /\ Cron \notin Clients
    /\ None \notin Contracts \cup Items \cup Assets
    /\ Requests \subseteq RequestKinds
    /\ ManualTargets \subseteq AssetStatus
    /\ Expirable \subseteq Contracts
    /\ Overlap \in {"any", "perContract"}

VARIABLES
    contract,      \* [Contracts -> ContractStatus], "NONE" before creation
    expired,       \* contract c's endDate lies before the start of today (KST)
    autoExpire,    \* its autoExpire flag
    scheduled,     \* an active maintenance schedule exists for it
    orderCanceled, \* the order it was made for is CANCELED
    item,          \* [Items -> [status, contract, asset]]
    asset,         \* [Assets -> AssetStatus]
    deleted,       \* assets with deletedAt set
    req,           \* the request each worker is handling, with what it has read
    todo           \* contracts the running expiry job has still to end

contractVars == <<contract, expired, autoExpire, scheduled, orderCanceled>>
assetVars == <<asset, deleted>>
vars == <<contractVars, item, assetVars, req, todo>>

-----------------------------------------------------------------------------
(* Database guards: what the triggers let an UPDATE OF "status" do.  An     *)
(* update to the same status always passes.                                 *)

AssetMoves == [INCOMING    |-> {"AVAILABLE", "DISPOSED"},
               AVAILABLE   |-> {"RENTED", "SOLD", "REPAIR", "DISPOSED", "LOST", "UNAVAILABLE"},
               RENTED      |-> {"AVAILABLE", "REPAIR", "DISPOSED", "LOST"},
               REPAIR      |-> {"AVAILABLE", "DISPOSED", "LOST"},
               UNAVAILABLE |-> {"AVAILABLE", "REPAIR", "DISPOSED", "LOST"},
               LOST        |-> {"AVAILABLE"},
               SOLD        |-> {},
               DISPOSED    |-> {}]

\* Mutated: the transition table before its migration for recovered assets, when
\* LOST was final.
AssetMayBecomeBefore(from, to) == from = to \/ (from # "LOST" /\ to \in AssetMoves[from])

AssetMayBecome(from, to) == from = to \/ to \in AssetMoves[from]

\* Mutated: no status trigger on RentalContract.
ContractMayBecomeAnything(from, to) == TRUE

ContractMayBecome(from, to) ==
    \/ from = to
    \/ from = "DRAFT" /\ to \in {"ACTIVE", "CANCELED"}
    \/ from = "ACTIVE" /\ to \in {"ENDED", "CANCELED"}

\* Mutated: an item that came back may be handed out again.
ItemMayReopen(from, to) ==
    \/ from = to
    \/ from = "PENDING" /\ to \in {"ACTIVE", "CANCELED"}
    \/ from \in {"ACTIVE", "REPLACED"} /\ to \in {"ACTIVE", "RETURNED", "REPLACED", "CANCELED"}

ItemMayBecome(from, to) ==
    \/ from = to
    \/ from = "PENDING" /\ to \in {"ACTIVE", "CANCELED"}
    \/ from = "ACTIVE" /\ to \in {"RETURNED", "REPLACED", "CANCELED"}

-----------------------------------------------------------------------------
NoItem == [status |-> "NONE", contract |-> None, asset |-> None]

Idle == [op |-> "idle", at |-> "start", c |-> None, i |-> None, a |-> None,
         to |-> "AVAILABLE", seen |-> {}, scan |-> {}, assets |-> {}]

ItemsOf(c, statuses) == {i \in Items : item[i].contract = c /\ item[i].status \in statuses}
FreeItems == {i \in Items : item[i].status = "NONE"}

\* A new end date may lie in the past: only its relation to today is kept.
Lateness(c) == IF c \in Expirable THEN BOOLEAN ELSE {FALSE}

\* Rentable asset: what assertAssetAvailable demands.
Rentable(a) == asset[a] = "AVAILABLE" /\ ~deleted[a]

\* The asset rows a cancellation has updated but not yet committed.
LockedBy(w) ==
    IF req[w].at = "scanned" THEN {item[i].asset : i \in req[w].seen} ELSE {}
Unlocked(w, S) == \A v \in Workers \ {w} : LockedBy(v) \cap S = {}

MayStart(w, c) ==
    /\ req[w] = Idle
    /\ Overlap = "perContract" => \A v \in Workers : req[v].c # c

Client(w, kind) == w \in Clients /\ kind \in Requests
Remember(w, r) == req' = [req EXCEPT ![w] = r]
Finish(w) == req' = [req EXCEPT ![w] = Idle]
AtStep(w, op, step) == req[w].op = op /\ req[w].at = step

Init ==
    /\ contract = [c \in Contracts |-> "NONE"]
    /\ expired = [c \in Contracts |-> FALSE]
    /\ autoExpire = [c \in Contracts |-> TRUE]
    /\ scheduled = [c \in Contracts |-> FALSE]
    /\ orderCanceled = [c \in Contracts |-> FALSE]
    /\ item = [i \in Items |-> NoItem]
    /\ asset \in [Assets -> {"AVAILABLE", "INCOMING"}]
    /\ deleted = [a \in Assets |-> FALSE]
    /\ req = [w \in Workers |-> Idle]
    /\ todo = {}

-----------------------------------------------------------------------------
(* create: the order and "no contract yet" are read first; the items are   *)
(* then checked one at a time inside the transaction.                      *)

CreateBegin(w, c) ==
    /\ Client(w, "create") /\ MayStart(w, c)
    /\ contract[c] = "NONE"
    /\ Remember(w, [Idle EXCEPT !.op = "create", !.c = c])
    /\ UNCHANGED <<contractVars, item, assetVars, todo>>

CreateCheckItem(w, a) ==
    /\ req[w].op = "create"
    /\ Rentable(a)
    /\ Remember(w, [req[w] EXCEPT !.assets = @ \cup {a}])
    /\ UNCHANGED <<contractVars, item, assetVars, todo>>

\* Several items may name the same asset: a PENDING item does not occupy it.
CreateCommit(w) ==
    /\ req[w].op = "create"
    /\ LET c == req[w].c IN
       /\ contract[c] = "NONE"
       /\ contract' = [contract EXCEPT ![c] = "DRAFT"]
       /\ \E late \in Lateness(c) : expired' = [expired EXCEPT ![c] = late]
       /\ \E new \in SUBSET FreeItems : \E of \in [new -> req[w].assets] :
            /\ {of[i] : i \in new} = req[w].assets
            /\ item' = [i \in Items |->
                          IF i \in new
                          THEN [status |-> "PENDING", contract |-> c, asset |-> of[i]]
                          ELSE item[i]]
    /\ Finish(w)
    /\ UNCHANGED <<autoExpire, scheduled, orderCanceled, assetVars, todo>>

\* update: dates and billing terms only of a DRAFT, autoExpire also of an ACTIVE contract.
UpdateBegin(w, c) ==
    /\ Client(w, "update") /\ MayStart(w, c)
    /\ \/ /\ contract[c] = "DRAFT"
          /\ Remember(w, [Idle EXCEPT !.op = "update", !.at = "dates", !.c = c])
       \/ /\ contract[c] \in {"DRAFT", "ACTIVE"}
          /\ Remember(w, [Idle EXCEPT !.op = "update", !.at = "flag", !.c = c])
    /\ UNCHANGED <<contractVars, item, assetVars, todo>>

UpdateCommit(w) ==
    /\ req[w].op = "update"
    /\ LET c == req[w].c IN
       /\ \E late \in IF req[w].at = "dates" THEN Lateness(c) ELSE {expired[c]} :
            expired' = [expired EXCEPT ![c] = late]
       /\ \E flag \in BOOLEAN : autoExpire' = [autoExpire EXCEPT ![c] = flag]
    /\ Finish(w)
    /\ UNCHANGED <<contract, scheduled, orderCanceled, item, assetVars, todo>>

\* extend: an end date later than the one read, which may still lie in the past, re-arms
\* the expiry job.
ExtendBegin(w, c) ==
    /\ Client(w, "extend") /\ MayStart(w, c)
    /\ contract[c] = "ACTIVE"
    /\ Remember(w, [Idle EXCEPT !.op = "extend", !.c = c])
    /\ UNCHANGED <<contractVars, item, assetVars, todo>>

ExtendCommit(w) ==
    /\ req[w].op = "extend"
    /\ LET c == req[w].c IN
       /\ \E late \in Lateness(c) : expired' = [expired EXCEPT ![c] = late]
       /\ autoExpire' = [autoExpire EXCEPT ![c] = TRUE]
    /\ Finish(w)
    /\ UNCHANGED <<contract, scheduled, orderCanceled, item, assetVars, todo>>

-----------------------------------------------------------------------------
(* updateStatus(ACTIVE) *)

\* Mutated: a contract without items may be activated.
MayActivateEmpty(c) == contract[c] = "DRAFT"

MayActivate(c) == contract[c] = "DRAFT" /\ ItemsOf(c, {"PENDING"}) # {}

ActivateBegin(w, c) ==
    /\ Client(w, "activate") /\ MayStart(w, c)
    /\ MayActivate(c)
    /\ Remember(w, [Idle EXCEPT !.op = "activate", !.c = c, !.seen = ItemsOf(c, {"PENDING"})])
    /\ UNCHANGED <<contractVars, item, assetVars, todo>>

\* Mutated: the index also has the contract's column, so that it tells only items of
\* one contract apart.
NoOtherActiveInContract(S) ==
    \A i \in S, j \in Items :
        (j # i /\ item[j].asset = item[i].asset /\ item[j].contract = item[i].contract)
            => item[j].status # "ACTIVE" /\ j \notin S

\* The partial unique index on ACTIVE items: none other on the assets of S.
NoOtherActive(S) ==
    \A i \in S, j \in Items :
        (j # i /\ item[j].asset = item[i].asset) => item[j].status # "ACTIVE" /\ j \notin S

\* Mutated: the items and assets are handed over, the contract stays as it was.
ActivateCommitItemsOnly(w) ==
    /\ req[w].op = "activate"
    /\ LET S == req[w].seen
           held == {item[i].asset : i \in S}
       IN /\ \A i \in S : ItemMayBecome(item[i].status, "ACTIVE")
          /\ NoOtherActive(S)
          /\ \A a \in held : AssetMayBecome(asset[a], "RENTED")
          /\ item' = [i \in Items |-> IF i \in S THEN [item[i] EXCEPT !.status = "ACTIVE"] ELSE item[i]]
          /\ asset' = [a \in Assets |-> IF a \in held THEN "RENTED" ELSE asset[a]]
    /\ Finish(w)
    /\ UNCHANGED <<contractVars, deleted, todo>>

ActivateCommit(w) ==
    /\ req[w].op = "activate"
    /\ LET c == req[w].c
           S == req[w].seen
           held == {item[i].asset : i \in S}
       IN /\ \A i \in S : ItemMayBecome(item[i].status, "ACTIVE")
          /\ NoOtherActive(S)
          /\ \A a \in held : AssetMayBecome(asset[a], "RENTED")
          /\ Unlocked(w, held)
          /\ ContractMayBecome(contract[c], "ACTIVE")
          /\ item' = [i \in Items |-> IF i \in S THEN [item[i] EXCEPT !.status = "ACTIVE"] ELSE item[i]]
          /\ asset' = [a \in Assets |-> IF a \in held THEN "RENTED" ELSE asset[a]]
          /\ contract' = [contract EXCEPT ![c] = "ACTIVE"]
    /\ Finish(w)
    /\ UNCHANGED <<expired, autoExpire, scheduled, orderCanceled, deleted, todo>>

-----------------------------------------------------------------------------
(* updateStatus(ENDED), by staff or by the expiry job *)

EndBegin(w, c) ==
    /\ Client(w, "end") /\ MayStart(w, c)
    /\ contract[c] = "ACTIVE"
    /\ Remember(w, [Idle EXCEPT !.op = "end", !.c = c, !.seen = ItemsOf(c, {"ACTIVE"})])
    /\ UNCHANGED <<contractVars, item, assetVars, todo>>

EndCommit(w) ==
    /\ req[w].op = "end"
    /\ LET c == req[w].c
           S == req[w].seen
           freed == {item[i].asset : i \in S}
       IN /\ \A i \in S : ItemMayBecome(item[i].status, "RETURNED")
          /\ \A a \in freed : AssetMayBecome(asset[a], "AVAILABLE")
          /\ Unlocked(w, freed)
          /\ ContractMayBecome(contract[c], "ENDED")
          /\ item' = [i \in Items |-> IF i \in S THEN [item[i] EXCEPT !.status = "RETURNED"] ELSE item[i]]
          /\ asset' = [a \in Assets |-> IF a \in freed THEN "AVAILABLE" ELSE asset[a]]
          /\ contract' = [contract EXCEPT ![c] = "ENDED"]
          /\ scheduled' = [scheduled EXCEPT ![c] = FALSE]
    /\ Finish(w)
    /\ UNCHANGED <<expired, autoExpire, orderCanceled, deleted, todo>>

-----------------------------------------------------------------------------
(* updateStatus(CANCELED).  The transaction first returns the assets of the *)
(* items it had read as ACTIVE and keeps those rows locked; its updateMany  *)
(* then picks the open items visible at that moment (CancelScan), waits for *)
(* their locks and re-checks each one before writing it (CancelCommit).     *)

\* Mutated: only what was not handed over yet is canceled.
OpenIsPending == {"PENDING"}

Open == {"PENDING", "ACTIVE"}

CancelBegin(w, c) ==
    /\ Client(w, "cancel") /\ MayStart(w, c)
    /\ contract[c] \in {"DRAFT", "ACTIVE"}
    /\ Remember(w, [Idle EXCEPT !.op = "cancel", !.c = c, !.seen = ItemsOf(c, {"ACTIVE"})])
    /\ UNCHANGED <<contractVars, item, assetVars, todo>>

CancelScan(w) ==
    /\ AtStep(w, "cancel", "start")
    /\ LET freed == {item[i].asset : i \in req[w].seen} IN
       /\ \A a \in freed : AssetMayBecome(asset[a], "AVAILABLE")
       /\ Unlocked(w, freed)
    /\ Remember(w, [req[w] EXCEPT !.at = "scanned", !.scan = ItemsOf(req[w].c, Open)])
    /\ UNCHANGED <<contractVars, item, assetVars, todo>>

CancelCommit(w) ==
    /\ AtStep(w, "cancel", "scanned")
    /\ LET c == req[w].c
           freed == LockedBy(w)
       IN /\ ContractMayBecome(contract[c], "CANCELED")
          /\ item' = [i \in Items |-> IF i \in req[w].scan /\ item[i].status \in Open
                                      THEN [item[i] EXCEPT !.status = "CANCELED"] ELSE item[i]]
          /\ asset' = [a \in Assets |-> IF a \in freed THEN "AVAILABLE" ELSE asset[a]]
          /\ contract' = [contract EXCEPT ![c] = "CANCELED"]
          /\ scheduled' = [scheduled EXCEPT ![c] = FALSE]
    /\ Finish(w)
    /\ UNCHANGED <<expired, autoExpire, orderCanceled, deleted, todo>>

-----------------------------------------------------------------------------
(* addItem and removeItem: no transaction at all, one write after the reads *)

\* Mutated: items may still be added to a contract in force.
TakesItemsLate(c) == contract[c] \in {"DRAFT", "ACTIVE"}

TakesItems(c) == contract[c] = "DRAFT"

AddItemBegin(w, c) ==
    /\ Client(w, "addItem") /\ MayStart(w, c)
    /\ TakesItems(c)
    /\ Remember(w, [Idle EXCEPT !.op = "addItem", !.c = c])
    /\ UNCHANGED <<contractVars, item, assetVars, todo>>

AddItemCheck(w, a) ==
    /\ AtStep(w, "addItem", "start")
    /\ Rentable(a)
    /\ Remember(w, [req[w] EXCEPT !.at = "checked", !.a = a])
    /\ UNCHANGED <<contractVars, item, assetVars, todo>>

\* Mutated: the new item starts with the contract's first status, not its own.
AddItemCommitDraft(w) ==
    /\ AtStep(w, "addItem", "checked")
    /\ \E i \in FreeItems :
         item' = [item EXCEPT ![i] = [status |-> "DRAFT", contract |-> req[w].c, asset |-> req[w].a]]
    /\ Finish(w)
    /\ UNCHANGED <<contractVars, assetVars, todo>>

AddItemCommit(w) ==
    /\ AtStep(w, "addItem", "checked")
    /\ \E i \in FreeItems :
         item' = [item EXCEPT ![i] = [status |-> "PENDING", contract |-> req[w].c, asset |-> req[w].a]]
    /\ Finish(w)
    /\ UNCHANGED <<contractVars, assetVars, todo>>

RemoveItemBegin(w, i) ==
    /\ item[i].status = "PENDING"
    /\ Client(w, "removeItem") /\ MayStart(w, item[i].contract)
    /\ Remember(w, [Idle EXCEPT !.op = "removeItem", !.c = item[i].contract, !.i = i])
    /\ UNCHANGED <<contractVars, item, assetVars, todo>>

\* DELETE by primary key: the status is not looked at again.  (The record keeps
\* what requests in flight have read of the row.)
RemoveItemCommit(w) ==
    /\ req[w].op = "removeItem"
    /\ LET i == req[w].i IN
       /\ item[i].status # "DELETED"
       /\ item' = [item EXCEPT ![i].status = "DELETED"]
    /\ Finish(w)
    /\ UNCHANGED <<contractVars, assetVars, todo>>

-----------------------------------------------------------------------------
(* replaceItem: three reads one after the other, then the transaction *)

ReplaceBegin(w, c) ==
    /\ Client(w, "replace") /\ MayStart(w, c)
    /\ contract[c] = "ACTIVE"
    /\ Remember(w, [Idle EXCEPT !.op = "replace", !.c = c])
    /\ UNCHANGED <<contractVars, item, assetVars, todo>>

ReplaceCheckItem(w, i) ==
    /\ AtStep(w, "replace", "start")
    /\ i \in ItemsOf(req[w].c, {"ACTIVE"})
    /\ Remember(w, [req[w] EXCEPT !.at = "item", !.i = i])
    /\ UNCHANGED <<contractVars, item, assetVars, todo>>

ReplaceCheckAsset(w, a) ==
    /\ AtStep(w, "replace", "item")
    /\ Rentable(a)
    /\ Remember(w, [req[w] EXCEPT !.at = "checked", !.a = a])
    /\ UNCHANGED <<contractVars, item, assetVars, todo>>

ReplaceCommit(w) ==
    /\ AtStep(w, "replace", "checked")
    /\ LET old == req[w].i
           from == item[old].asset
           to == req[w].a
           returned == [asset EXCEPT ![from] = "AVAILABLE"]
       IN /\ \A j \in Items : item[j].asset = to => item[j].status # "ACTIVE"
          /\ ItemMayBecome(item[old].status, "REPLACED")
          /\ AssetMayBecome(asset[from], "AVAILABLE")
          /\ AssetMayBecome(returned[to], "RENTED")
          /\ Unlocked(w, {from, to})
          /\ \E new \in FreeItems :
               item' = [item EXCEPT
                          ![old].status = "REPLACED",
                          ![new] = [status |-> "ACTIVE", contract |-> req[w].c, asset |-> to]]
          /\ asset' = [returned EXCEPT ![to] = "RENTED"]
    /\ Finish(w)
    /\ UNCHANGED <<contractVars, deleted, todo>>

-----------------------------------------------------------------------------
(* returnItem: two reads, then the transaction *)

ReturnBegin(w, c) ==
    /\ Client(w, "return") /\ MayStart(w, c)
    /\ contract[c] = "ACTIVE"
    /\ Remember(w, [Idle EXCEPT !.op = "return", !.c = c])
    /\ UNCHANGED <<contractVars, item, assetVars, todo>>

ReturnCheckItem(w, i) ==
    /\ AtStep(w, "return", "start")
    /\ i \in ItemsOf(req[w].c, {"ACTIVE"})
    /\ Remember(w, [req[w] EXCEPT !.at = "checked", !.i = i])
    /\ UNCHANGED <<contractVars, item, assetVars, todo>>

\* Mutated: the item is returned, its asset stays RENTED.
ReturnCommitItemOnly(w) ==
    /\ AtStep(w, "return", "checked")
    /\ ItemMayBecome(item[req[w].i].status, "RETURNED")
    /\ item' = [item EXCEPT ![req[w].i].status = "RETURNED"]
    /\ Finish(w)
    /\ UNCHANGED <<contractVars, assetVars, todo>>

ReturnCommit(w) ==
    /\ AtStep(w, "return", "checked")
    /\ LET i == req[w].i
           a == item[i].asset
       IN /\ ItemMayBecome(item[i].status, "RETURNED")
          /\ AssetMayBecome(asset[a], "AVAILABLE")
          /\ Unlocked(w, {a})
          /\ item' = [item EXCEPT ![i].status = "RETURNED"]
          /\ asset' = [asset EXCEPT ![a] = "AVAILABLE"]
    /\ Finish(w)
    /\ UNCHANGED <<contractVars, deleted, todo>>

-----------------------------------------------------------------------------
(* AssetService.changeStatus and softDelete *)

SetStatusBegin(w, a, to) ==
    /\ Client(w, "setStatus") /\ req[w] = Idle
    /\ ~deleted[a] /\ asset[a] # to
    /\ Remember(w, [Idle EXCEPT !.op = "setStatus", !.a = a, !.to = to])
    /\ UNCHANGED <<contractVars, item, assetVars, todo>>

SetStatusCommit(w) ==
    /\ req[w].op = "setStatus"
    /\ LET a == req[w].a IN
       /\ AssetMayBecome(asset[a], req[w].to)
       /\ Unlocked(w, {a})
       /\ asset' = [asset EXCEPT ![a] = req[w].to]
    /\ Finish(w)
    /\ UNCHANGED <<contractVars, item, deleted, todo>>

SoftDeleteBegin(w, a) ==
    /\ Client(w, "softDelete") /\ req[w] = Idle
    /\ ~deleted[a] /\ asset[a] # "RENTED"
    /\ Remember(w, [Idle EXCEPT !.op = "softDelete", !.a = a])
    /\ UNCHANGED <<contractVars, item, assetVars, todo>>

SoftDeleteCommit(w) ==
    /\ req[w].op = "softDelete"
    /\ Unlocked(w, {req[w].a})
    /\ deleted' = [deleted EXCEPT ![req[w].a] = TRUE]
    /\ Finish(w)
    /\ UNCHANGED <<contractVars, item, asset, todo>>

-----------------------------------------------------------------------------
(* Single statements: a canceled order takes its DRAFT contract with it by  *)
(* trigger (the items stay); a schedule is made or switched off, the last   *)
(* active one of a contract being the one that counts.                      *)

CancelOrder(w, c) ==
    /\ Client(w, "cancelOrder") /\ MayStart(w, c)
    /\ ~orderCanceled[c]
    /\ orderCanceled' = [orderCanceled EXCEPT ![c] = TRUE]
    /\ contract' = [contract EXCEPT ![c] = IF @ = "DRAFT" THEN "CANCELED" ELSE @]
    /\ UNCHANGED <<expired, autoExpire, scheduled, item, assetVars, req, todo>>

CreateSchedule(w, c) ==
    /\ Client(w, "schedule") /\ MayStart(w, c)
    /\ contract[c] # "NONE"
    /\ scheduled' = [scheduled EXCEPT ![c] = TRUE]
    /\ UNCHANGED <<contract, expired, autoExpire, orderCanceled, item, assetVars, req, todo>>

DeactivateSchedule(w, c) ==
    /\ Client(w, "schedule") /\ MayStart(w, c)
    /\ scheduled[c]
    /\ scheduled' = [scheduled EXCEPT ![c] = FALSE]
    /\ UNCHANGED <<contract, expired, autoExpire, orderCanceled, item, assetVars, req, todo>>

-----------------------------------------------------------------------------
(* The expiry job: one query for the contracts due, then updateStatus for   *)
(* each.  A contract that cannot be ended is logged and left for tomorrow.  *)

Due(c) == contract[c] = "ACTIVE" /\ autoExpire[c] /\ expired[c]

CronStart ==
    /\ req[Cron] = Idle /\ todo = {}
    /\ {c \in Contracts : Due(c)} # {}
    /\ todo' = {c \in Contracts : Due(c)}
    /\ UNCHANGED <<contractVars, item, assetVars, req>>

CronTake(c) ==
    /\ c \in todo /\ MayStart(Cron, c)
    /\ todo' = todo \ {c}
    /\ IF contract[c] = "ACTIVE"
       THEN Remember(Cron, [Idle EXCEPT !.op = "end", !.c = c, !.seen = ItemsOf(c, {"ACTIVE"})])
       ELSE UNCHANGED req
    /\ UNCHANGED <<contractVars, item, assetVars>>

\* A day goes by and contract c's end date is now behind us.
PassTime(c) ==
    /\ c \in Expirable /\ contract[c] # "NONE" /\ ~expired[c]
    /\ expired' = [expired EXCEPT ![c] = TRUE]
    /\ UNCHANGED <<contract, autoExpire, scheduled, orderCanceled, item, assetVars, req, todo>>

\* A request fails: a check of the service or of the database rejects it, or it
\* times out.  Its transaction is rolled back.
Abort(w) ==
    /\ req[w] # Idle
    /\ Finish(w)
    /\ UNCHANGED <<contractVars, item, assetVars, todo>>

\* The API process restarts: every request in flight and the running job are lost.
Crash ==
    /\ todo # {} \/ \E w \in Workers : req[w] # Idle
    /\ req' = [w \in Workers |-> Idle]
    /\ todo' = {}
    /\ UNCHANGED <<contractVars, item, assetVars>>

-----------------------------------------------------------------------------
Begin(w) ==
    \/ \E c \in Contracts :
         \/ CreateBegin(w, c) \/ UpdateBegin(w, c) \/ ExtendBegin(w, c)
         \/ ActivateBegin(w, c) \/ EndBegin(w, c) \/ CancelBegin(w, c)
         \/ AddItemBegin(w, c) \/ ReplaceBegin(w, c) \/ ReturnBegin(w, c)
    \/ \E i \in Items : RemoveItemBegin(w, i)
    \/ \E a \in Assets : SoftDeleteBegin(w, a) \/ \E to \in ManualTargets : SetStatusBegin(w, a, to)

Check(w) ==
    \/ \E a \in Assets : CreateCheckItem(w, a) \/ AddItemCheck(w, a) \/ ReplaceCheckAsset(w, a)
    \/ \E i \in Items : ReplaceCheckItem(w, i) \/ ReturnCheckItem(w, i)
    \/ CancelScan(w)

Commit(w) ==
    \/ CreateCommit(w) \/ UpdateCommit(w) \/ ExtendCommit(w)
    \/ ActivateCommit(w) \/ EndCommit(w) \/ CancelCommit(w)
    \/ AddItemCommit(w) \/ RemoveItemCommit(w) \/ ReplaceCommit(w) \/ ReturnCommit(w)
    \/ SetStatusCommit(w) \/ SoftDeleteCommit(w)

SingleStatement(w) ==
    \E c \in Contracts : CancelOrder(w, c) \/ CreateSchedule(w, c) \/ DeactivateSchedule(w, c)

Next ==
    \/ \E w \in Workers : Begin(w) \/ Check(w) \/ Commit(w) \/ SingleStatement(w) \/ Abort(w)
    \/ CronStart
    \/ \E c \in Contracts : CronTake(c) \/ PassTime(c)
    \/ Crash

Spec == Init /\ [][Next]_vars
-----------------------------------------------------------------------------
Row == [status : ItemStatus, contract : Contracts \cup {None}, asset : Assets \cup {None}]

Request == [op : RequestKinds \cup {"idle"},
            at : {"start", "dates", "flag", "item", "checked", "scanned"},
            c : Contracts \cup {None}, i : Items \cup {None}, a : Assets \cup {None},
            to : AssetStatus, seen : SUBSET Items, scan : SUBSET Items, assets : SUBSET Assets]

\* Every table and every request in flight has the shape the schema gives it.
TypeOK ==
    /\ contract \in [Contracts -> ContractStatus]
    /\ expired \in [Contracts -> BOOLEAN]
    /\ autoExpire \in [Contracts -> BOOLEAN]
    /\ scheduled \in [Contracts -> BOOLEAN]
    /\ orderCanceled \in [Contracts -> BOOLEAN]
    /\ item \in [Items -> Row]
    /\ asset \in [Assets -> AssetStatus]
    /\ deleted \in [Assets -> BOOLEAN]
    /\ req \in [Workers -> Request]
    /\ todo \in SUBSET Contracts

(* However requests overlap *)

\* No equipment is handed over under a contract that was never activated: as long
\* as the row is DRAFT, none of its items is ACTIVE or was returned or replaced.
\* replaceItem and returnItem read the contract long before they write.
NothingRentedBeforeActivation ==
    \A c \in Contracts :
        contract[c] \in {"NONE", "DRAFT"} => ItemsOf(c, {"ACTIVE", "RETURNED", "REPLACED"}) = {}

\* One asset, one tenant: what activation and replacement promise to the customer,
\* although both decide on asset and item states read earlier.
OneActiveItemPerAsset ==
    \A i, j \in Items :
        (item[i].status = "ACTIVE" /\ item[j].status = "ACTIVE" /\ item[i].asset = item[j].asset) => i = j

\* An item goes from PENDING to ACTIVE only by an activation that finds its contract
\* open and puts it in force.  The activation decided on a contract read earlier: if
\* the order's cancellation or another request closed it since, all is rolled back.
HandedOverOnlyInForce ==
    [][\A i \in Items :
         (item[i].status = "PENDING" /\ item'[i].status = "ACTIVE") =>
            /\ contract[item[i].contract] \in {"DRAFT", "ACTIVE"}
            /\ contract'[item[i].contract] = "ACTIVE"]_vars

\* The custody of assets that AssetCustody promises, read off the item rows.
holder == [a \in Assets |->
             LET holding == {i \in Items : item[i].status = "ACTIVE" /\ item[i].asset = a}
             IN IF holding = {} THEN None ELSE CHOOSE i \in holding : TRUE]
spent == {i \in Items : item[i].status \in {"RETURNED", "REPLACED", "CANCELED", "DELETED"}}
Custody == INSTANCE AssetCustody

\* The rental service implements AssetCustody, however its requests overlap.
CustodySpec == Custody!Spec

(* When requests for one contract do not overlap *)

\* The asset list tells the truth: an asset is RENTED exactly while some contract
\* holds it, whatever requests for OTHER contracts do in between.
RentedIffHeld ==
    \A a \in Assets :
        asset[a] = "RENTED" <=> \E i \in Items : item[i].status = "ACTIVE" /\ item[i].asset = a

\* Ending or canceling a contract brings all its equipment home.
ClosedContractHoldsNothing ==
    \A c \in Contracts :
        contract[c] \in {"ENDED", "CANCELED"} => ItemsOf(c, {"ACTIVE"}) = {}

\* Activation takes every item along: none is left PENDING behind it, where
\* activation, removal at the end and billing would all pass it by.
NothingPendingAfterActivation ==
    \A c \in Contracts : contract[c] \in {"ACTIVE", "ENDED"} => ItemsOf(c, {"PENDING"}) = {}

\* A contract in force was delivered: activation demands an item, and no later
\* request makes all traces of it disappear.
ActiveContractWasDelivered ==
    \A c \in Contracts :
        contract[c] \in {"ACTIVE", "ENDED"} => ItemsOf(c, {"ACTIVE", "RETURNED", "REPLACED"}) # {}

(* What the code states and does not keep *)

\* softDelete: "an asset under rental cannot be deleted", neither before nor after.
RentedAssetNotDeleted == \A a \in Assets : ~(asset[a] = "RENTED" /\ deleted[a])

\* Order_cancel_sync_rental_contract: no contract of a canceled order can still be activated.
CanceledOrderNeverInForce ==
    [][\A c \in Contracts :
         (orderCanceled[c] /\ contract[c] # "ACTIVE") => contract'[c] # "ACTIVE"]_vars

(* Liveness *)

\* The job runs every day, takes every contract it found, and neither it nor the
\* requests of staff hang: lock and transaction timeouts end them.  A contract the
\* job takes day after day, or a cancellation sent again and again, is not struck by
\* a crash or a passing error every time.
Fairness ==
    /\ WF_vars(CronStart)
    /\ \A c \in Contracts : SF_vars(CronTake(c)) /\ SF_vars(EndCommit(Cron) /\ req[Cron].c = c)
    /\ \A w \in Clients : SF_vars(CancelCommit(w))
    /\ \A w \in Workers : WF_vars(Commit(w) \/ Abort(w))

LiveSpec == Spec /\ Fairness

\* A contract that has expired does not stay in force: it is ended, unless it is
\* extended, exempted or closed by staff.
ExpiredContractEnds == \A c \in Contracts : Due(c) ~> ~Due(c)
=============================================================================
