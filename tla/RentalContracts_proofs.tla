------------------------ MODULE RentalContracts_proofs ------------------------
(***************************************************************************)
(* Theorems about RentalContracts, for every set of contracts, items,      *)
(* assets and clients.                                                     *)
(***************************************************************************)
EXTENDS RentalContracts, TLAPS

-----------------------------------------------------------------------------
(* Type correctness *)

LEMMA IdleType == Idle \in Request
BY DEF Idle, Request, RequestKinds, AssetStatus

LEMMA InitType == Init => TypeOK
<1> SUFFICES ASSUME Init PROVE TypeOK
  OBVIOUS
<1>1. NoItem \in Row
  BY DEF NoItem, Row, ItemStatus
<1> QED
  BY <1>1, IdleType DEF Init, TypeOK, ContractStatus, AssetStatus

\* What a step that only reads leaves behind: a well-formed request.
LEMMA RememberType ==
  ASSUME TypeOK, NEW w \in Workers, NEW r \in Request, Remember(w, r),
         UNCHANGED <<contractVars, item, assetVars, todo>>
  PROVE  TypeOK'
BY DEF TypeOK, Remember, contractVars, assetVars

LEMMA FinishType ==
  ASSUME TypeOK, NEW w \in Workers, Finish(w)
  PROVE  req' \in [Workers -> Request]
BY IdleType DEF TypeOK, Finish

LEMMA BeginType ==
  ASSUME TypeOK, NEW w \in Workers, Begin(w)
  PROVE  TypeOK'
<1>1. ASSUME NEW c \in Contracts, CreateBegin(w, c) PROVE TypeOK'
  <2>1. [Idle EXCEPT !.op = "create", !.c = c] \in Request
    BY DEF Idle, Request, RequestKinds, AssetStatus
  <2> QED BY <1>1, <2>1, RememberType DEF CreateBegin
<1>2. ASSUME NEW c \in Contracts, UpdateBegin(w, c) PROVE TypeOK'
  <2>1. [Idle EXCEPT !.op = "update", !.at = "dates", !.c = c] \in Request
    BY DEF Idle, Request, RequestKinds, AssetStatus
  <2>2. [Idle EXCEPT !.op = "update", !.at = "flag", !.c = c] \in Request
    BY DEF Idle, Request, RequestKinds, AssetStatus
  <2> QED BY <1>2, <2>1, <2>2, RememberType DEF UpdateBegin
<1>3. ASSUME NEW c \in Contracts, ExtendBegin(w, c) PROVE TypeOK'
  <2>1. [Idle EXCEPT !.op = "extend", !.c = c] \in Request
    BY DEF Idle, Request, RequestKinds, AssetStatus
  <2> QED BY <1>3, <2>1, RememberType DEF ExtendBegin
<1>4. ASSUME NEW c \in Contracts, ActivateBegin(w, c) PROVE TypeOK'
  <2>1. [Idle EXCEPT !.op = "activate", !.c = c, !.seen = ItemsOf(c, {"PENDING"})] \in Request
    BY DEF Idle, Request, RequestKinds, AssetStatus, ItemsOf
  <2> QED BY <1>4, <2>1, RememberType DEF ActivateBegin
<1>5. ASSUME NEW c \in Contracts, EndBegin(w, c) PROVE TypeOK'
  <2>1. [Idle EXCEPT !.op = "end", !.c = c, !.seen = ItemsOf(c, {"ACTIVE"})] \in Request
    BY DEF Idle, Request, RequestKinds, AssetStatus, ItemsOf
  <2> QED BY <1>5, <2>1, RememberType DEF EndBegin
<1>6. ASSUME NEW c \in Contracts, CancelBegin(w, c) PROVE TypeOK'
  <2>1. [Idle EXCEPT !.op = "cancel", !.c = c, !.seen = ItemsOf(c, {"ACTIVE"})] \in Request
    BY DEF Idle, Request, RequestKinds, AssetStatus, ItemsOf
  <2> QED BY <1>6, <2>1, RememberType DEF CancelBegin
<1>7. ASSUME NEW c \in Contracts, AddItemBegin(w, c) PROVE TypeOK'
  <2>1. [Idle EXCEPT !.op = "addItem", !.c = c] \in Request
    BY DEF Idle, Request, RequestKinds, AssetStatus
  <2> QED BY <1>7, <2>1, RememberType DEF AddItemBegin
<1>8. ASSUME NEW c \in Contracts, ReplaceBegin(w, c) PROVE TypeOK'
  <2>1. [Idle EXCEPT !.op = "replace", !.c = c] \in Request
    BY DEF Idle, Request, RequestKinds, AssetStatus
  <2> QED BY <1>8, <2>1, RememberType DEF ReplaceBegin
<1>9. ASSUME NEW c \in Contracts, ReturnBegin(w, c) PROVE TypeOK'
  <2>1. [Idle EXCEPT !.op = "return", !.c = c] \in Request
    BY DEF Idle, Request, RequestKinds, AssetStatus
  <2> QED BY <1>9, <2>1, RememberType DEF ReturnBegin
<1>10. ASSUME NEW i \in Items, RemoveItemBegin(w, i) PROVE TypeOK'
  <2>1. item[i].contract \in Contracts \cup {None}
    BY DEF TypeOK, Row
  <2>2. [Idle EXCEPT !.op = "removeItem", !.c = item[i].contract, !.i = i] \in Request
    BY <2>1 DEF Idle, Request, RequestKinds, AssetStatus
  <2> QED BY <1>10, <2>2, RememberType DEF RemoveItemBegin
<1>11. ASSUME NEW a \in Assets, SoftDeleteBegin(w, a) PROVE TypeOK'
  <2>1. [Idle EXCEPT !.op = "softDelete", !.a = a] \in Request
    BY DEF Idle, Request, RequestKinds, AssetStatus
  <2> QED BY <1>11, <2>1, RememberType DEF SoftDeleteBegin
<1>12. ASSUME NEW a \in Assets, NEW to \in ManualTargets, SetStatusBegin(w, a, to) PROVE TypeOK'
  <2>1. [Idle EXCEPT !.op = "setStatus", !.a = a, !.to = to] \in Request
    BY ConstantsAssumption DEF Idle, Request, RequestKinds, AssetStatus
  <2> QED BY <1>12, <2>1, RememberType DEF SetStatusBegin
<1> QED
  BY <1>1, <1>2, <1>3, <1>4, <1>5, <1>6, <1>7, <1>8, <1>9, <1>10, <1>11, <1>12 DEF Begin

LEMMA CheckType ==
  ASSUME TypeOK, NEW w \in Workers, Check(w)
  PROVE  TypeOK'
<1>0. req[w] \in Request
  BY DEF TypeOK
<1>1. ASSUME NEW a \in Assets, CreateCheckItem(w, a) PROVE TypeOK'
  <2>1. [req[w] EXCEPT !.assets = @ \cup {a}] \in Request
    BY <1>0 DEF Request
  <2> QED BY <1>1, <2>1, RememberType DEF CreateCheckItem
<1>2. ASSUME NEW a \in Assets PROVE [req[w] EXCEPT !.at = "checked", !.a = a] \in Request
  BY <1>0 DEF Request
<1>3. ASSUME NEW a \in Assets, AddItemCheck(w, a) PROVE TypeOK'
  BY <1>2, <1>3, RememberType DEF AddItemCheck
<1>4. ASSUME NEW a \in Assets, ReplaceCheckAsset(w, a) PROVE TypeOK'
  BY <1>2, <1>4, RememberType DEF ReplaceCheckAsset
<1>5. ASSUME NEW i \in Items, ReplaceCheckItem(w, i) PROVE TypeOK'
  <2>1. [req[w] EXCEPT !.at = "item", !.i = i] \in Request
    BY <1>0 DEF Request
  <2> QED BY <1>5, <2>1, RememberType DEF ReplaceCheckItem
<1>6. ASSUME NEW i \in Items, ReturnCheckItem(w, i) PROVE TypeOK'
  <2>1. [req[w] EXCEPT !.at = "checked", !.i = i] \in Request
    BY <1>0 DEF Request
  <2> QED BY <1>6, <2>1, RememberType DEF ReturnCheckItem
<1>7. ASSUME CancelScan(w) PROVE TypeOK'
  <2>1. [req[w] EXCEPT !.at = "scanned", !.scan = ItemsOf(req[w].c, Open)] \in Request
    BY <1>0 DEF Request, ItemsOf
  <2> QED BY <1>7, <2>1, RememberType DEF CancelScan
<1> QED
  BY <1>1, <1>3, <1>4, <1>5, <1>6, <1>7 DEF Check

LEMMA ItemStatusType ==
  ASSUME TypeOK, NEW i, NEW status \in ItemStatus
  PROVE  [item EXCEPT ![i].status = status] \in [Items -> Row]
<1>1. CASE i \in Items
  <2>1. [item[i] EXCEPT !.status = status] \in Row
    BY <1>1 DEF TypeOK, Row
  <2>2. [item EXCEPT ![i].status = status] = [item EXCEPT ![i] = [item[i] EXCEPT !.status = status]]
    OBVIOUS
  <2> QED BY <2>1, <2>2 DEF TypeOK
<1>2. CASE i \notin Items
  BY <1>2 DEF TypeOK
<1> QED BY <1>1, <1>2

\* A write to a row that does not exist changes nothing, so the rows keep their shape
\* whatever the request in flight names.
LEMMA CommitType ==
  ASSUME TypeOK, NEW w \in Workers, Commit(w)
  PROVE  TypeOK'
<1>0. /\ req' = [req EXCEPT ![w] = Idle] => req' \in [Workers -> Request]
      /\ req[w] \in Request
  BY IdleType DEF TypeOK
<1>1. ASSUME CreateCommit(w) PROVE TypeOK'
  <2> DEFINE Created(rows, what) ==
        item' = [i \in Items |->
                   IF i \in rows
                   THEN [status |-> "PENDING", contract |-> req[w].c, asset |-> what[i]]
                   ELSE item[i]]
  <2>0. PICK rows \in SUBSET FreeItems : \E what \in [rows -> req[w].assets] : Created(rows, what)
    BY <1>1 DEF CreateCommit
  <2>1. PICK what \in [rows -> req[w].assets] : Created(rows, what)
    BY <2>0
  <2>2. req[w].assets \subseteq Assets /\ req[w].c \in Contracts \cup {None}
    BY <1>0 DEF Request
  <2>3. ASSUME NEW i \in rows
        PROVE  [status |-> "PENDING", contract |-> req[w].c, asset |-> what[i]] \in Row
    BY <2>2 DEF Row, ItemStatus
  <2>4. item' \in [Items -> Row]
    BY <2>1, <2>3 DEF TypeOK
  <2>5. contract' \in [Contracts -> ContractStatus] /\ expired' \in [Contracts -> BOOLEAN]
    BY <1>1 DEF CreateCommit, Lateness, TypeOK, ContractStatus
  <2> QED
    BY <1>0, <1>1, <2>4, <2>5 DEF CreateCommit, Finish, TypeOK, assetVars
<1>2. ASSUME UpdateCommit(w) PROVE TypeOK'
  <2>1. PICK late : expired' = [expired EXCEPT ![req[w].c] = late]
                    /\ late \in IF req[w].at = "dates" THEN Lateness(req[w].c) ELSE {expired[req[w].c]}
    BY <1>2 DEF UpdateCommit
  <2>2. expired' \in [Contracts -> BOOLEAN]
    <3>1. late \in BOOLEAN \/ late = expired[req[w].c]
      BY <2>1 DEF Lateness
    <3> QED BY <2>1, <3>1 DEF TypeOK
  <2>3. autoExpire' \in [Contracts -> BOOLEAN]
    BY <1>2 DEF UpdateCommit, TypeOK
  <2> QED BY <1>0, <1>2, <2>2, <2>3 DEF UpdateCommit, Finish, TypeOK, assetVars
<1>3. ASSUME ExtendCommit(w) PROVE TypeOK'
  <2>1. expired' \in [Contracts -> BOOLEAN]
    BY <1>3 DEF ExtendCommit, Lateness, TypeOK
  <2> QED BY <1>0, <1>3, <2>1 DEF ExtendCommit, Finish, TypeOK, assetVars
<1>4. ASSUME NEW S \in SUBSET Items, NEW status \in ItemStatus,
             item' = [i \in Items |-> IF i \in S THEN [item[i] EXCEPT !.status = status] ELSE item[i]]
      PROVE  item' \in [Items -> Row]
  BY <1>4 DEF TypeOK, Row
<1>5. ASSUME NEW S, NEW status \in AssetStatus,
             asset' = [a \in Assets |-> IF a \in S THEN status ELSE asset[a]]
      PROVE  asset' \in [Assets -> AssetStatus]
  BY <1>5 DEF TypeOK
<1>6. req[w].seen \in SUBSET Items
  BY <1>0 DEF Request
<1>7. ASSUME ActivateCommit(w) PROVE TypeOK'
  <2>1. item' \in [Items -> Row]
    BY <1>4, <1>6, <1>7 DEF ActivateCommit, ItemStatus
  <2>2. asset' \in [Assets -> AssetStatus]
    BY <1>5, <1>7 DEF ActivateCommit, AssetStatus
  <2>3. contract' \in [Contracts -> ContractStatus]
    BY <1>7 DEF ActivateCommit, TypeOK, ContractStatus
  <2> QED BY <1>0, <1>7, <2>1, <2>2, <2>3 DEF ActivateCommit, Finish, TypeOK
<1>8. ASSUME EndCommit(w) PROVE TypeOK'
  <2>1. item' \in [Items -> Row]
    BY <1>4, <1>6, <1>8 DEF EndCommit, ItemStatus
  <2>2. asset' \in [Assets -> AssetStatus]
    BY <1>5, <1>8 DEF EndCommit, AssetStatus
  <2>3. contract' \in [Contracts -> ContractStatus] /\ scheduled' \in [Contracts -> BOOLEAN]
    BY <1>8 DEF EndCommit, TypeOK, ContractStatus
  <2> QED BY <1>0, <1>8, <2>1, <2>2, <2>3 DEF EndCommit, Finish, TypeOK
<1>9. ASSUME CancelCommit(w) PROVE TypeOK'
  <2> DEFINE S == {i \in Items : i \in req[w].scan /\ item[i].status \in Open}
  <2>1. item' \in [Items -> Row]
    <3>1. item' = [i \in Items |-> IF i \in S THEN [item[i] EXCEPT !.status = "CANCELED"] ELSE item[i]]
      BY <1>9 DEF CancelCommit
    <3> QED BY <1>4, <3>1 DEF ItemStatus
  <2>2. asset' \in [Assets -> AssetStatus]
    BY <1>5, <1>9 DEF CancelCommit, AssetStatus
  <2>3. contract' \in [Contracts -> ContractStatus] /\ scheduled' \in [Contracts -> BOOLEAN]
    BY <1>9 DEF CancelCommit, TypeOK, ContractStatus
  <2> QED BY <1>0, <1>9, <2>1, <2>2, <2>3 DEF CancelCommit, Finish, TypeOK
<1>10. ASSUME AddItemCommit(w) PROVE TypeOK'
  <2>1. [status |-> "PENDING", contract |-> req[w].c, asset |-> req[w].a] \in Row
    BY <1>0 DEF Request, Row, ItemStatus
  <2> QED BY <1>0, <1>10, <2>1 DEF AddItemCommit, Finish, TypeOK, contractVars, assetVars
<1>11. ASSUME RemoveItemCommit(w) PROVE TypeOK'
  <2>1. item' \in [Items -> Row]
    BY <1>11, ItemStatusType DEF RemoveItemCommit, ItemStatus
  <2> QED BY <1>0, <1>11, <2>1 DEF RemoveItemCommit, Finish, TypeOK, contractVars, assetVars
<1>12. ASSUME ReplaceCommit(w) PROVE TypeOK'
  <2>1. [status |-> "ACTIVE", contract |-> req[w].c, asset |-> req[w].a] \in Row
    BY <1>0 DEF Request, Row, ItemStatus
  <2>2. [item EXCEPT ![req[w].i].status = "REPLACED"] \in [Items -> Row]
    BY ItemStatusType DEF ItemStatus
  <2>3. item' \in [Items -> Row]
    BY <1>12, <2>1, <2>2 DEF ReplaceCommit
  <2>4. asset' \in [Assets -> AssetStatus]
    BY <1>12 DEF ReplaceCommit, TypeOK, AssetStatus
  <2> QED BY <1>0, <1>12, <2>3, <2>4 DEF ReplaceCommit, Finish, TypeOK, contractVars
<1>13. ASSUME ReturnCommit(w) PROVE TypeOK'
  <2>1. item' \in [Items -> Row]
    BY <1>13, ItemStatusType DEF ReturnCommit, ItemStatus
  <2>2. asset' \in [Assets -> AssetStatus]
    BY <1>13 DEF ReturnCommit, TypeOK, AssetStatus
  <2> QED BY <1>0, <1>13, <2>1, <2>2 DEF ReturnCommit, Finish, TypeOK, contractVars
<1>14. ASSUME SetStatusCommit(w) PROVE TypeOK'
  <2>1. req[w].to \in AssetStatus
    BY <1>0 DEF Request
  <2> QED BY <1>0, <1>14, <2>1 DEF SetStatusCommit, Finish, TypeOK, contractVars
<1>15. ASSUME SoftDeleteCommit(w) PROVE TypeOK'
  BY <1>0, <1>15 DEF SoftDeleteCommit, Finish, TypeOK, contractVars
<1> QED
  BY <1>1, <1>2, <1>3, <1>7, <1>8, <1>9, <1>10, <1>11, <1>12, <1>13, <1>14, <1>15 DEF Commit

LEMMA NextType == TypeOK /\ [Next]_vars => TypeOK'
<1> SUFFICES ASSUME TypeOK, [Next]_vars PROVE TypeOK'
  OBVIOUS
<1>1. ASSUME NEW w \in Workers, SingleStatement(w) PROVE TypeOK'
  <2>1. ASSUME NEW c \in Contracts, CancelOrder(w, c) PROVE TypeOK'
    BY <2>1 DEF CancelOrder, TypeOK, assetVars, ContractStatus
  <2>2. ASSUME NEW c \in Contracts, CreateSchedule(w, c) PROVE TypeOK'
    BY <2>2 DEF CreateSchedule, TypeOK, assetVars
  <2>3. ASSUME NEW c \in Contracts, DeactivateSchedule(w, c) PROVE TypeOK'
    BY <2>3 DEF DeactivateSchedule, TypeOK, assetVars
  <2> QED BY <1>1, <2>1, <2>2, <2>3 DEF SingleStatement
<1>2. ASSUME NEW w \in Workers, Abort(w) PROVE TypeOK'
  BY <1>2, IdleType DEF Abort, Finish, TypeOK, contractVars, assetVars
<1>3. ASSUME CronStart PROVE TypeOK'
  BY <1>3 DEF CronStart, TypeOK, contractVars, assetVars
<1>4. ASSUME NEW c \in Contracts, CronTake(c) PROVE TypeOK'
  <2>1. [Idle EXCEPT !.op = "end", !.c = c, !.seen = ItemsOf(c, {"ACTIVE"})] \in Request
    BY DEF Idle, Request, RequestKinds, AssetStatus, ItemsOf
  <2> QED BY <1>4, <2>1 DEF CronTake, Remember, TypeOK, contractVars, assetVars, Workers
<1>5. ASSUME NEW c \in Contracts, PassTime(c) PROVE TypeOK'
  BY <1>5 DEF PassTime, TypeOK, assetVars
<1>6. ASSUME Crash PROVE TypeOK'
  BY <1>6, IdleType DEF Crash, TypeOK, contractVars, assetVars
<1>7. CASE UNCHANGED vars
  BY <1>7 DEF vars, TypeOK, contractVars, assetVars
<1> QED
  BY <1>1, <1>2, <1>3, <1>4, <1>5, <1>6, <1>7, BeginType, CheckType, CommitType DEF Next

\* Type correctness: the tables and the requests in flight keep the shape of the schema,
\* for every number of rows and of concurrent requests.
THEOREM TypeCorrect == Spec => []TypeOK
BY InitType, NextType, PTL DEF Spec

-----------------------------------------------------------------------------
(* Which steps write the contract and item tables *)

Writes(w) ==
    \/ CreateCommit(w) \/ ActivateCommit(w) \/ EndCommit(w) \/ CancelCommit(w)
    \/ AddItemCommit(w) \/ RemoveItemCommit(w) \/ ReplaceCommit(w) \/ ReturnCommit(w)
    \/ \E c \in Contracts : CancelOrder(w, c)

LEMMA BeginReads ==
  ASSUME NEW w \in Workers, Begin(w)
  PROVE  UNCHANGED <<contract, item, asset>>
<1> USE DEF contractVars, assetVars
<1>1. ASSUME NEW c \in Contracts,
             \/ CreateBegin(w, c) \/ UpdateBegin(w, c) \/ ExtendBegin(w, c)
             \/ ActivateBegin(w, c) \/ EndBegin(w, c)
      PROVE  UNCHANGED <<contract, item, asset>>
  BY <1>1 DEF CreateBegin, UpdateBegin, ExtendBegin, ActivateBegin, EndBegin
<1>2. ASSUME NEW c \in Contracts,
             \/ CancelBegin(w, c) \/ AddItemBegin(w, c) \/ ReplaceBegin(w, c) \/ ReturnBegin(w, c)
      PROVE  UNCHANGED <<contract, item, asset>>
  BY <1>2 DEF CancelBegin, AddItemBegin, ReplaceBegin, ReturnBegin
<1> QED
  BY <1>1, <1>2 DEF Begin, RemoveItemBegin, SoftDeleteBegin, SetStatusBegin

LEMMA CheckReads ==
  ASSUME NEW w \in Workers, Check(w)
  PROVE  UNCHANGED <<contract, item, asset>>
BY DEF Check, CreateCheckItem, AddItemCheck, ReplaceCheckAsset, ReplaceCheckItem, ReturnCheckItem,
       CancelScan, contractVars, assetVars

LEMMA TableSteps ==
  ASSUME [Next]_vars
  PROVE  \/ UNCHANGED <<contract, item>>
         \/ \E w \in Workers : Writes(w)
<1>1. ASSUME NEW w \in Workers, Commit(w)
      PROVE  UNCHANGED <<contract, item>> \/ Writes(w)
  BY <1>1 DEF Commit, Writes, UpdateCommit, ExtendCommit, SetStatusCommit, SoftDeleteCommit, contractVars
<1>2. ASSUME NEW w \in Workers, SingleStatement(w) \/ Abort(w)
      PROVE  UNCHANGED <<contract, item>> \/ Writes(w)
  BY <1>2 DEF SingleStatement, CreateSchedule, DeactivateSchedule, Abort, Writes, contractVars
<1>3. ASSUME \/ CronStart \/ Crash
             \/ \E c \in Contracts : CronTake(c) \/ PassTime(c)
      PROVE  UNCHANGED <<contract, item>>
  BY <1>3 DEF CronStart, CronTake, PassTime, Crash, contractVars
<1> QED
  BY <1>1, <1>2, <1>3, BeginReads, CheckReads DEF Next, vars, contractVars

-----------------------------------------------------------------------------
(* One tenant per asset *)

LEMMA OneActiveStep ==
  ASSUME TypeOK, OneActiveItemPerAsset, [Next]_vars
  PROVE  OneActiveItemPerAsset'
<1>1. ASSUME \A i \in Items : item'[i].status = "ACTIVE" =>
                item[i].status = "ACTIVE" /\ item'[i].asset = item[i].asset
      PROVE  OneActiveItemPerAsset'
  BY <1>1 DEF OneActiveItemPerAsset
<1>2. CASE UNCHANGED <<contract, item>>
  BY <1>2 DEF OneActiveItemPerAsset
<1>3. ASSUME NEW w \in Workers, Writes(w)
      PROVE  OneActiveItemPerAsset'
  <2>1. CASE CreateCommit(w)
    <3>1. \A i \in Items : item'[i].status = "PENDING" \/ item'[i] = item[i]
      BY <2>1 DEF CreateCommit
    <3> QED BY <1>1, <3>1
  <2>2. CASE ActivateCommit(w)
    <3> DEFINE S == req[w].seen
    <3>1. \A i \in Items : item'[i] = IF i \in S THEN [item[i] EXCEPT !.status = "ACTIVE"] ELSE item[i]
      BY <2>2 DEF ActivateCommit
    <3>2. \A i \in Items : item'[i].asset = item[i].asset
                            /\ (item'[i].status = "ACTIVE" => i \in S \/ item[i].status = "ACTIVE")
      BY <3>1 DEF TypeOK, Row
    <3>3. NoOtherActive(S)
      BY <2>2 DEF ActivateCommit
    <3> QED BY <3>2, <3>3 DEF NoOtherActive, OneActiveItemPerAsset
  <2>3. CASE EndCommit(w)
    <3>1. \A i \in Items : item'[i] = IF i \in req[w].seen THEN [item[i] EXCEPT !.status = "RETURNED"] ELSE item[i]
      BY <2>3 DEF EndCommit
    <3> QED BY <1>1, <3>1 DEF TypeOK, Row
  <2>4. CASE CancelCommit(w)
    <3>1. \A i \in Items : item'[i] = item[i] \/ item'[i] = [item[i] EXCEPT !.status = "CANCELED"]
      BY <2>4 DEF CancelCommit
    <3> QED BY <1>1, <3>1 DEF TypeOK, Row
  <2>5. CASE AddItemCommit(w)
    <3>1. \A i \in Items : item'[i].status = "PENDING" \/ item'[i] = item[i]
      BY <2>5 DEF AddItemCommit, TypeOK
    <3> QED BY <1>1, <3>1
  <2>6. CASE RemoveItemCommit(w)
    <3>1. \A i \in Items : item'[i] = item[i] \/ item'[i] = [item[i] EXCEPT !.status = "DELETED"]
      BY <2>6 DEF RemoveItemCommit, TypeOK
    <3> QED BY <1>1, <3>1 DEF TypeOK, Row
  <2>7. CASE ReplaceCommit(w)
    <3>1. PICK fresh \in FreeItems :
             item' = [item EXCEPT
                        ![req[w].i].status = "REPLACED",
                        ![fresh] = [status |-> "ACTIVE", contract |-> req[w].c, asset |-> req[w].a]]
      BY <2>7 DEF ReplaceCommit
    <3>2. \A j \in Items : item[j].asset = req[w].a => item[j].status # "ACTIVE"
      BY <2>7 DEF ReplaceCommit
    <3>3. \A j \in Items \ {fresh} : item'[j].status = "ACTIVE" =>
                item[j].status = "ACTIVE" /\ item'[j].asset = item[j].asset
      BY <3>1 DEF TypeOK, Row
    <3>4. item'[fresh].asset = req[w].a
      BY <3>1 DEF TypeOK, FreeItems
    <3> QED BY <3>2, <3>3, <3>4 DEF OneActiveItemPerAsset
  <2>8. CASE ReturnCommit(w)
    <3>1. \A i \in Items : item'[i] = item[i] \/ item'[i] = [item[i] EXCEPT !.status = "RETURNED"]
      BY <2>8 DEF ReturnCommit, TypeOK
    <3> QED BY <1>1, <3>1 DEF TypeOK, Row
  <2>9. CASE \E c \in Contracts : CancelOrder(w, c)
    BY <2>9 DEF CancelOrder, OneActiveItemPerAsset
  <2> QED
    BY <1>3, <2>1, <2>2, <2>3, <2>4, <2>5, <2>6, <2>7, <2>8, <2>9 DEF Writes
<1> QED
  BY <1>2, <1>3, TableSteps

\* No asset is ever rented out under two contract items at once, however requests overlap.
THEOREM OneTenant == Spec => []OneActiveItemPerAsset
<1>1. Init => OneActiveItemPerAsset
  BY DEF Init, NoItem, OneActiveItemPerAsset
<1>2. TypeOK /\ OneActiveItemPerAsset /\ [Next]_vars => OneActiveItemPerAsset'
  BY OneActiveStep
<1> QED
  BY <1>1, <1>2, TypeCorrect, PTL DEF Spec

-----------------------------------------------------------------------------
(* Nothing is rented before activation.  A request that returns, replaces   *)
(* or ends read its contract as ACTIVE; contracts never go back to DRAFT    *)
(* and items never change their contract, so what it read stays true enough.*)

UnderContract ==
    \A w \in Workers :
        /\ req[w].op \in {"end", "replace", "return"} =>
              req[w].c \in Contracts /\ contract[req[w].c] \notin {"NONE", "DRAFT"}
        /\ req[w].op = "activate" => req[w].c \in Contracts
        /\ req[w].op \in {"activate", "end"} =>
              \A i \in req[w].seen : item[i].status # "NONE" /\ item[i].contract = req[w].c
        /\ (req[w].op \in {"replace", "return"} /\ req[w].at \in {"item", "checked"}) =>
              /\ req[w].i \in Items
              /\ item[req[w].i].status # "NONE" /\ item[req[w].i].contract = req[w].c

LEMMA ContractsMoveForward ==
  ASSUME TypeOK, [Next]_vars, NEW c \in Contracts, contract[c] \notin {"NONE", "DRAFT"}
  PROVE  contract'[c] \notin {"NONE", "DRAFT"}
<1>1. ASSUME NEW w \in Workers, Writes(w) PROVE contract'[c] \notin {"NONE", "DRAFT"}
  <2>1. CASE CreateCommit(w)
    BY <2>1 DEF CreateCommit, TypeOK
  <2>2. CASE ActivateCommit(w)
    BY <2>2 DEF ActivateCommit, TypeOK
  <2>3. CASE EndCommit(w)
    BY <2>3 DEF EndCommit, TypeOK
  <2>4. CASE CancelCommit(w)
    BY <2>4 DEF CancelCommit, TypeOK
  <2>5. CASE AddItemCommit(w) \/ RemoveItemCommit(w) \/ ReplaceCommit(w) \/ ReturnCommit(w)
    BY <2>5 DEF AddItemCommit, RemoveItemCommit, ReplaceCommit, ReturnCommit, contractVars
  <2>6. CASE \E d \in Contracts : CancelOrder(w, d)
    BY <2>6 DEF CancelOrder, TypeOK
  <2> QED BY <1>1, <2>1, <2>2, <2>3, <2>4, <2>5, <2>6 DEF Writes
<1> QED BY <1>1, TableSteps

LEMMA ItemsKeepTheirContract ==
  ASSUME TypeOK, [Next]_vars, NEW i \in Items, item[i].status # "NONE"
  PROVE  /\ item'[i].status # "NONE" 
         /\ item'[i].contract = item[i].contract
         /\ item'[i].asset = item[i].asset
<1> DEFINE Kept == /\ item'[i].status # "NONE"
                   /\ item'[i].contract = item[i].contract
                   /\ item'[i].asset = item[i].asset
<1>0. item[i] \in Row
  BY DEF TypeOK
<1>1. ASSUME NEW status \in ItemStatus \ {"NONE"},
             item'[i] = item[i] \/ item'[i] = [item[i] EXCEPT !.status = status]
      PROVE  Kept
  BY <1>0, <1>1 DEF Row
<1>2. ASSUME NEW w \in Workers, Writes(w) PROVE Kept
  <2>1. CASE CreateCommit(w)
    BY <1>1, <2>1 DEF CreateCommit, FreeItems
  <2>2. CASE ActivateCommit(w)
    <3>1. item'[i] = item[i] \/ item'[i] = [item[i] EXCEPT !.status = "ACTIVE"]
      BY <2>2 DEF ActivateCommit
    <3> QED BY <1>1, <3>1 DEF ItemStatus
  <2>3. CASE EndCommit(w)
    <3>1. item'[i] = item[i] \/ item'[i] = [item[i] EXCEPT !.status = "RETURNED"]
      BY <2>3 DEF EndCommit
    <3> QED BY <1>1, <3>1 DEF ItemStatus
  <2>4. CASE CancelCommit(w)
    <3>1. item'[i] = item[i] \/ item'[i] = [item[i] EXCEPT !.status = "CANCELED"]
      BY <2>4 DEF CancelCommit
    <3> QED BY <1>1, <3>1 DEF ItemStatus
  <2>5. CASE AddItemCommit(w)
    BY <1>1, <2>5 DEF AddItemCommit, FreeItems, TypeOK
  <2>6. CASE RemoveItemCommit(w)
    <3>1. item'[i] = item[i] \/ item'[i] = [item[i] EXCEPT !.status = "DELETED"]
      BY <2>6 DEF RemoveItemCommit, TypeOK
    <3> QED BY <1>1, <3>1 DEF ItemStatus
  <2>7. CASE ReplaceCommit(w)
    <3>1. item'[i] = item[i] \/ item'[i] = [item[i] EXCEPT !.status = "REPLACED"]
      BY <2>7 DEF ReplaceCommit, FreeItems, TypeOK
    <3> QED BY <1>1, <3>1 DEF ItemStatus
  <2>8. CASE ReturnCommit(w)
    <3>1. item'[i] = item[i] \/ item'[i] = [item[i] EXCEPT !.status = "RETURNED"]
      BY <2>8 DEF ReturnCommit, TypeOK
    <3> QED BY <1>1, <3>1 DEF ItemStatus
  <2>9. CASE \E c \in Contracts : CancelOrder(w, c)
    BY <2>9 DEF CancelOrder
  <2> QED BY <1>2, <2>1, <2>2, <2>3, <2>4, <2>5, <2>6, <2>7, <2>8, <2>9 DEF Writes
<1> QED BY <1>2, TableSteps

\* How the request of a worker can change in a step.
LEMMA RequestSteps ==
  ASSUME TypeOK, [Next]_vars, NEW w \in Workers
  PROVE  \/ req'[w] = req[w] \/ req'[w] = Idle
         \/ Begin(w) \/ Check(w)
         \/ w = Cron /\ \E c \in Contracts : CronTake(c)
<1> DEFINE Goal == \/ req'[w] = req[w] \/ req'[w] = Idle \/ Begin(w) \/ Check(w)
                   \/ w = Cron /\ \E c \in Contracts : CronTake(c)
<1>1. ASSUME NEW v \in Workers, NEW r, Remember(v, r), v # w PROVE Goal
  BY <1>1 DEF Remember, TypeOK
<1>2. ASSUME NEW v \in Workers, Finish(v) PROVE Goal
  BY <1>2 DEF Finish, TypeOK
<1>3. ASSUME NEW v \in Workers, Begin(v) PROVE Goal
  <2>1. v # w => \E r : Remember(v, r)
    <3>1. ASSUME NEW c \in Contracts,
                 \/ CreateBegin(v, c) \/ UpdateBegin(v, c) \/ ExtendBegin(v, c)
                 \/ ActivateBegin(v, c) \/ EndBegin(v, c)
          PROVE  \E r : Remember(v, r)
      BY <3>1 DEF CreateBegin, UpdateBegin, ExtendBegin, ActivateBegin, EndBegin
    <3>2. ASSUME NEW c \in Contracts,
                 \/ CancelBegin(v, c) \/ AddItemBegin(v, c) \/ ReplaceBegin(v, c) \/ ReturnBegin(v, c)
          PROVE  \E r : Remember(v, r)
      BY <3>2 DEF CancelBegin, AddItemBegin, ReplaceBegin, ReturnBegin
    <3> QED BY <1>3, <3>1, <3>2 DEF Begin, RemoveItemBegin, SoftDeleteBegin, SetStatusBegin
  <2> QED BY <1>1, <1>3, <2>1
<1>4. ASSUME NEW v \in Workers, Check(v) PROVE Goal
  <2>1. \E r : Remember(v, r)
    BY <1>4 DEF Check, CreateCheckItem, AddItemCheck, ReplaceCheckAsset, ReplaceCheckItem,
                ReturnCheckItem, CancelScan
  <2> QED BY <1>1, <1>4, <2>1
<1>5. ASSUME NEW v \in Workers, Commit(v) PROVE Goal
  BY <1>2, <1>5 DEF Commit, CreateCommit, UpdateCommit, ExtendCommit, ActivateCommit, EndCommit,
     CancelCommit, AddItemCommit, RemoveItemCommit, ReplaceCommit, ReturnCommit, SetStatusCommit,
     SoftDeleteCommit
<1>6. ASSUME NEW v \in Workers, SingleStatement(v) PROVE Goal
  BY <1>6 DEF SingleStatement, CancelOrder, CreateSchedule, DeactivateSchedule
<1>7. ASSUME NEW v \in Workers, Abort(v) PROVE Goal
  BY <1>2, <1>7 DEF Abort
<1>8. ASSUME NEW c \in Contracts, CronTake(c) PROVE Goal
  BY <1>1, <1>8 DEF CronTake, Workers
<1>9. ASSUME CronStart \/ Crash \/ (\E c \in Contracts : PassTime(c)) \/ UNCHANGED vars PROVE Goal
  BY <1>9 DEF CronStart, Crash, PassTime, vars
<1> QED BY <1>3, <1>4, <1>5, <1>6, <1>7, <1>8, <1>9 DEF Next

\* The same for one request, so that each way a request changes can be taken alone.
RequestUnderContract(r, con, rows) ==
    /\ r.op \in {"end", "replace", "return"} =>
          r.c \in Contracts /\ con[r.c] \notin {"NONE", "DRAFT"}
    /\ r.op = "activate" => r.c \in Contracts
    /\ r.op \in {"activate", "end"} =>
          \A i \in r.seen : rows[i].status # "NONE" /\ rows[i].contract = r.c
    /\ (r.op \in {"replace", "return"} /\ r.at \in {"item", "checked"}) =>
          r.i \in Items /\ rows[r.i].status # "NONE" /\ rows[r.i].contract = r.c

LEMMA UnderContractStep ==
  ASSUME TypeOK, UnderContract, [Next]_vars
  PROVE  UnderContract'
<1> SUFFICES ASSUME NEW w \in Workers PROVE RequestUnderContract(req'[w], contract', item')
  BY DEF UnderContract, RequestUnderContract
<1>0. RequestUnderContract(req[w], contract, item) /\ req[w] \in Request
  BY DEF UnderContract, RequestUnderContract, TypeOK
<1>1. RequestUnderContract(req[w], contract', item')
  BY <1>0, ContractsMoveForward, ItemsKeepTheirContract DEF RequestUnderContract, Request
<1>2. RequestUnderContract(Idle, contract', item')
  BY DEF RequestUnderContract, Idle
<1>3. ASSUME NEW c \in Contracts, contract[c] = "ACTIVE", UNCHANGED <<contract, item>>,
             Remember(w, [Idle EXCEPT !.op = "end", !.c = c, !.seen = ItemsOf(c, {"ACTIVE"})])
      PROVE  RequestUnderContract(req'[w], contract', item')
  <2>1. req'[w] = [Idle EXCEPT !.op = "end", !.c = c, !.seen = ItemsOf(c, {"ACTIVE"})]
    BY <1>3 DEF Remember, TypeOK
  <2> QED BY <1>3, <2>1 DEF RequestUnderContract, Idle, ItemsOf
<1>4. CASE Begin(w)
  <2>0. UNCHANGED <<contract, item>>
    BY <1>4, BeginReads
  <2>1. ASSUME NEW r, Remember(w, r), RequestUnderContract(r, contract, item)
        PROVE  RequestUnderContract(req'[w], contract', item')
    BY <2>0, <2>1 DEF Remember, TypeOK
  <2> USE DEF RequestUnderContract, Idle
  <2>2. ASSUME NEW c \in Contracts,
               CreateBegin(w, c) \/ UpdateBegin(w, c) \/ ExtendBegin(w, c)
        PROVE  RequestUnderContract(req'[w], contract', item')
    <3>1. RequestUnderContract([Idle EXCEPT !.op = "create", !.c = c], contract, item)
      OBVIOUS
    <3>2. RequestUnderContract([Idle EXCEPT !.op = "update", !.at = "dates", !.c = c], contract, item)
      OBVIOUS
    <3>3. RequestUnderContract([Idle EXCEPT !.op = "update", !.at = "flag", !.c = c], contract, item)
      OBVIOUS
    <3>4. RequestUnderContract([Idle EXCEPT !.op = "extend", !.c = c], contract, item)
      OBVIOUS
    <3> HIDE DEF RequestUnderContract, Idle
    <3> QED BY <2>1, <2>2, <3>1, <3>2, <3>3, <3>4 DEF CreateBegin, UpdateBegin, ExtendBegin
  <2>3. ASSUME NEW c \in Contracts, ActivateBegin(w, c)
        PROVE  RequestUnderContract(req'[w], contract', item')
    <3>1. RequestUnderContract([Idle EXCEPT !.op = "activate", !.c = c, !.seen = ItemsOf(c, {"PENDING"})],
                               contract, item)
      BY DEF ItemsOf
    <3> HIDE DEF RequestUnderContract, Idle
    <3> QED BY <2>1, <2>3, <3>1 DEF ActivateBegin, MayActivate
  <2>4. ASSUME NEW c \in Contracts, EndBegin(w, c)
        PROVE  RequestUnderContract(req'[w], contract', item')
    BY <1>3, <2>0, <2>4 DEF EndBegin
  <2>5. ASSUME NEW c \in Contracts, CancelBegin(w, c) \/ AddItemBegin(w, c)
        PROVE  RequestUnderContract(req'[w], contract', item')
    <3>1. RequestUnderContract([Idle EXCEPT !.op = "cancel", !.c = c, !.seen = ItemsOf(c, {"ACTIVE"})],
                               contract, item)
      OBVIOUS
    <3>2. RequestUnderContract([Idle EXCEPT !.op = "addItem", !.c = c], contract, item)
      OBVIOUS
    <3> HIDE DEF RequestUnderContract, Idle
    <3> QED BY <2>1, <2>5, <3>1, <3>2 DEF CancelBegin, AddItemBegin, TakesItems
  <2>6. ASSUME NEW c \in Contracts, ReplaceBegin(w, c) \/ ReturnBegin(w, c)
        PROVE  RequestUnderContract(req'[w], contract', item')
    <3>1. contract[c] = "ACTIVE"
      BY <2>6 DEF ReplaceBegin, ReturnBegin
    <3>2. RequestUnderContract([Idle EXCEPT !.op = "replace", !.c = c], contract, item)
      BY <3>1
    <3>3. RequestUnderContract([Idle EXCEPT !.op = "return", !.c = c], contract, item)
      BY <3>1
    <3> HIDE DEF RequestUnderContract, Idle
    <3> QED BY <2>1, <2>6, <3>2, <3>3 DEF ReplaceBegin, ReturnBegin
  <2>7. ASSUME NEW i \in Items, RemoveItemBegin(w, i)
        PROVE  RequestUnderContract(req'[w], contract', item')
    <3>1. RequestUnderContract([Idle EXCEPT !.op = "removeItem", !.c = item[i].contract, !.i = i],
                               contract, item)
      OBVIOUS
    <3> HIDE DEF RequestUnderContract, Idle
    <3> QED BY <2>1, <2>7, <3>1 DEF RemoveItemBegin
  <2>8. ASSUME NEW a \in Assets, NEW to,
               SoftDeleteBegin(w, a) \/ SetStatusBegin(w, a, to)
        PROVE  RequestUnderContract(req'[w], contract', item')
    <3>1. RequestUnderContract([Idle EXCEPT !.op = "softDelete", !.a = a], contract, item)
      OBVIOUS
    <3>2. RequestUnderContract([Idle EXCEPT !.op = "setStatus", !.a = a, !.to = to], contract, item)
      OBVIOUS
    <3> HIDE DEF RequestUnderContract, Idle
    <3> QED BY <2>1, <2>8, <3>1, <3>2 DEF SoftDeleteBegin, SetStatusBegin
  <2> HIDE DEF RequestUnderContract, Idle
  <2> QED BY <1>4, <2>2, <2>3, <2>4, <2>5, <2>6, <2>7, <2>8 DEF Begin
<1>5. CASE Check(w)
  <2>0. UNCHANGED <<contract, item>>
    BY <1>5, CheckReads
  <2>1. ASSUME NEW r, Remember(w, r), RequestUnderContract(r, contract, item)
        PROVE  RequestUnderContract(req'[w], contract', item')
    BY <2>0, <2>1 DEF Remember, TypeOK
  <2>2. ASSUME NEW a \in Assets, CreateCheckItem(w, a)
        PROVE  RequestUnderContract(req'[w], contract', item')
    <3>1. RequestUnderContract([req[w] EXCEPT !.assets = @ \cup {a}], contract, item)
      BY <1>0, <2>2 DEF CreateCheckItem, RequestUnderContract, Request
    <3> QED BY <2>1, <2>2, <3>1 DEF CreateCheckItem
  <2>3. ASSUME NEW a \in Assets, AddItemCheck(w, a)
        PROVE  RequestUnderContract(req'[w], contract', item')
    <3>1. RequestUnderContract([req[w] EXCEPT !.at = "checked", !.a = a], contract, item)
      BY <1>0, <2>3 DEF AddItemCheck, AtStep, RequestUnderContract, Request
    <3> QED BY <2>1, <2>3, <3>1 DEF AddItemCheck
  <2>4. ASSUME NEW a \in Assets, ReplaceCheckAsset(w, a)
        PROVE  RequestUnderContract(req'[w], contract', item')
    <3>1. RequestUnderContract([req[w] EXCEPT !.at = "checked", !.a = a], contract, item)
      BY <1>0, <2>4 DEF ReplaceCheckAsset, AtStep, RequestUnderContract, Request
    <3> QED BY <2>1, <2>4, <3>1 DEF ReplaceCheckAsset
  <2>5. ASSUME NEW i \in Items, ReplaceCheckItem(w, i)
        PROVE  RequestUnderContract(req'[w], contract', item')
    <3>1. RequestUnderContract([req[w] EXCEPT !.at = "item", !.i = i], contract, item)
      BY <1>0, <2>5 DEF ReplaceCheckItem, AtStep, ItemsOf, RequestUnderContract, Request
    <3> QED BY <2>1, <2>5, <3>1 DEF ReplaceCheckItem
  <2>6. ASSUME NEW i \in Items, ReturnCheckItem(w, i)
        PROVE  RequestUnderContract(req'[w], contract', item')
    <3>1. RequestUnderContract([req[w] EXCEPT !.at = "checked", !.i = i], contract, item)
      BY <1>0, <2>6 DEF ReturnCheckItem, AtStep, ItemsOf, RequestUnderContract, Request
    <3> QED BY <2>1, <2>6, <3>1 DEF ReturnCheckItem
  <2>7. ASSUME CancelScan(w)
        PROVE  RequestUnderContract(req'[w], contract', item')
    <3>1. RequestUnderContract([req[w] EXCEPT !.at = "scanned", !.scan = ItemsOf(req[w].c, Open)],
                               contract, item)
      BY <1>0, <2>7 DEF CancelScan, AtStep, RequestUnderContract, Request
    <3> QED BY <2>1, <2>7, <3>1 DEF CancelScan
  <2> QED BY <1>5, <2>2, <2>3, <2>4, <2>5, <2>6, <2>7 DEF Check
<1>6. ASSUME NEW c \in Contracts, CronTake(c), w = Cron
      PROVE  RequestUnderContract(req'[w], contract', item')
  BY <1>1, <1>3, <1>6 DEF CronTake, contractVars
<1> QED BY <1>1, <1>2, <1>4, <1>5, <1>6, RequestSteps

LEMMA NothingRentedStep ==
  ASSUME TypeOK, UnderContract, NothingRentedBeforeActivation, [Next]_vars
  PROVE  NothingRentedBeforeActivation'
<1> DEFINE Delivered == {"ACTIVE", "RETURNED", "REPLACED"}
<1> SUFFICES ASSUME NEW c \in Contracts, contract'[c] \in {"NONE", "DRAFT"},
                    NEW i \in Items, item'[i].contract = c, item'[i].status \in Delivered
             PROVE  FALSE
  BY DEF NothingRentedBeforeActivation, ItemsOf
<1>0. /\ contract[c] \in {"NONE", "DRAFT"}
      /\ \A j \in Items : item[j].contract = c => item[j].status \notin Delivered
  BY ContractsMoveForward DEF NothingRentedBeforeActivation, ItemsOf
<1>1. CASE UNCHANGED <<contract, item>>
  BY <1>0, <1>1
<1>2. ASSUME NEW w \in Workers, Writes(w) PROVE FALSE
  <2>0. RequestUnderContract(req[w], contract, item) /\ req[w] \in Request /\ item[i] \in Row
    BY DEF UnderContract, RequestUnderContract, TypeOK
  <2>1. CASE CreateCommit(w)
    <3>1. item'[i].status = "PENDING" \/ item'[i] = item[i]
      BY <2>1 DEF CreateCommit
    <3> QED BY <1>0, <3>1
  <2>2. CASE ActivateCommit(w)
    <3>1. item'[i] = IF i \in req[w].seen THEN [item[i] EXCEPT !.status = "ACTIVE"] ELSE item[i]
      BY <2>2 DEF ActivateCommit
    <3>2. contract'[req[w].c] = "ACTIVE"
      BY <2>0, <2>2 DEF ActivateCommit, RequestUnderContract, TypeOK
    <3>3. i \in req[w].seen => item[i].contract = req[w].c
      BY <2>0, <2>2 DEF ActivateCommit, RequestUnderContract
    <3> QED BY <1>0, <2>0, <3>1, <3>2, <3>3 DEF Row
  <2>3. CASE EndCommit(w)
    <3>1. item'[i] = IF i \in req[w].seen THEN [item[i] EXCEPT !.status = "RETURNED"] ELSE item[i]
      BY <2>3 DEF EndCommit
    <3>2. i \in req[w].seen => item[i].contract = req[w].c /\ contract[req[w].c] \notin {"NONE", "DRAFT"}
      BY <2>0, <2>3 DEF EndCommit, RequestUnderContract
    <3> QED BY <1>0, <2>0, <3>1, <3>2 DEF Row
  <2>4. CASE CancelCommit(w)
    <3>1. item'[i] = item[i] \/ item'[i] = [item[i] EXCEPT !.status = "CANCELED"]
      BY <2>4 DEF CancelCommit
    <3> QED BY <1>0, <2>0, <3>1 DEF Row
  <2>5. CASE AddItemCommit(w)
    <3>1. item'[i].status = "PENDING" \/ item'[i] = item[i]
      BY <2>5 DEF AddItemCommit, TypeOK
    <3> QED BY <1>0, <3>1
  <2>6. CASE RemoveItemCommit(w)
    <3>1. item'[i] = item[i] \/ item'[i] = [item[i] EXCEPT !.status = "DELETED"]
      BY <2>6 DEF RemoveItemCommit, TypeOK
    <3> QED BY <1>0, <2>0, <3>1 DEF Row
  <2>7. CASE ReplaceCommit(w)
    <3>1. item'[i] = item[i] \/ i = req[w].i \/ item'[i].contract = req[w].c
      BY <2>7 DEF ReplaceCommit, TypeOK
    <3>2. /\ item[req[w].i].status # "NONE" /\ item[req[w].i].contract = req[w].c
          /\ contract[req[w].c] \notin {"NONE", "DRAFT"}
      BY <2>0, <2>7 DEF ReplaceCommit, AtStep, RequestUnderContract
    <3>3. i = req[w].i => item'[i].contract = req[w].c
      BY <3>2, ItemsKeepTheirContract
    <3> QED BY <1>0, <3>1, <3>2, <3>3
  <2>8. CASE ReturnCommit(w)
    <3>1. item'[i] = item[i] \/ i = req[w].i
      BY <2>8 DEF ReturnCommit, TypeOK
    <3>2. item[req[w].i].contract = req[w].c /\ contract[req[w].c] \notin {"NONE", "DRAFT"}
          /\ item[req[w].i].status # "NONE"
      BY <2>0, <2>8 DEF ReturnCommit, AtStep, RequestUnderContract
    <3>3. i = req[w].i => item'[i].contract = req[w].c
      BY <3>2, ItemsKeepTheirContract
    <3> QED BY <1>0, <3>1, <3>2, <3>3
  <2>9. CASE \E d \in Contracts : CancelOrder(w, d)
    BY <1>0, <2>9 DEF CancelOrder
  <2> QED BY <1>2, <2>1, <2>2, <2>3, <2>4, <2>5, <2>6, <2>7, <2>8, <2>9 DEF Writes
<1> QED BY <1>1, <1>2, TableSteps

\* As long as a contract is a DRAFT none of its equipment was ever handed over, although
\* replaceItem, returnItem and updateStatus act on a contract read long before.
THEOREM NothingRentedFirst == Spec => []NothingRentedBeforeActivation
<1>1. Init => UnderContract
  BY DEF Init, UnderContract, Idle
<1>2. Init => NothingRentedBeforeActivation
  BY DEF Init, NoItem, NothingRentedBeforeActivation, ItemsOf
<1>3. TypeOK /\ UnderContract /\ [Next]_vars => UnderContract'
  BY UnderContractStep
<1>4. TypeOK /\ UnderContract /\ NothingRentedBeforeActivation /\ [Next]_vars
        => NothingRentedBeforeActivation'
  BY NothingRentedStep
<1> QED
  BY <1>1, <1>2, <1>3, <1>4, TypeCorrect, PTL DEF Spec

-----------------------------------------------------------------------------
(* The rental service implements AssetCustody.  An item's status only moves  *)
(* forward, so a term of custody that is over never starts again; and an     *)
(* item that gets its term takes an asset no other item has.                 *)

LEMMA ItemStatusMoves ==
  ASSUME TypeOK, [Next]_vars, NEW i \in Items
  PROVE  \/ item'[i].status = item[i].status
         \/ item[i].status = "NONE" /\ item'[i].status \in {"PENDING", "ACTIVE"}
         \/ item[i].status = "PENDING" /\ item'[i].status \in {"ACTIVE", "CANCELED"}
         \/ item[i].status = "ACTIVE" /\ item'[i].status \in {"RETURNED", "REPLACED", "CANCELED"}
         \/ item'[i].status = "DELETED"
<1> DEFINE Moves ==
         \/ item'[i].status = item[i].status
         \/ item[i].status = "NONE" /\ item'[i].status \in {"PENDING", "ACTIVE"}
         \/ item[i].status = "PENDING" /\ item'[i].status \in {"ACTIVE", "CANCELED"}
         \/ item[i].status = "ACTIVE" /\ item'[i].status \in {"RETURNED", "REPLACED", "CANCELED"}
         \/ item'[i].status = "DELETED"
<1>0. item[i] \in Row
  BY DEF TypeOK
<1>1. ASSUME NEW w \in Workers, Writes(w) PROVE Moves
  <2>1. CASE CreateCommit(w)
    BY <2>1 DEF CreateCommit, FreeItems
  <2>2. CASE ActivateCommit(w)
    <3>1. item'[i] = item[i] \/ (item'[i] = [item[i] EXCEPT !.status = "ACTIVE"]
                                 /\ ItemMayBecome(item[i].status, "ACTIVE"))
      BY <2>2 DEF ActivateCommit
    <3> QED BY <1>0, <3>1 DEF Row, ItemMayBecome
  <2>3. CASE EndCommit(w)
    <3>1. item'[i] = item[i] \/ (item'[i] = [item[i] EXCEPT !.status = "RETURNED"]
                                 /\ ItemMayBecome(item[i].status, "RETURNED"))
      BY <2>3 DEF EndCommit
    <3> QED BY <1>0, <3>1 DEF Row, ItemMayBecome
  <2>4. CASE CancelCommit(w)
    <3>1. item'[i] = item[i] \/ (item'[i] = [item[i] EXCEPT !.status = "CANCELED"]
                                 /\ item[i].status \in Open)
      BY <2>4 DEF CancelCommit
    <3> QED BY <1>0, <3>1 DEF Row, Open
  <2>5. CASE AddItemCommit(w)
    BY <2>5 DEF AddItemCommit, FreeItems, TypeOK
  <2>6. CASE RemoveItemCommit(w)
    <3>1. item'[i] = item[i] \/ item'[i] = [item[i] EXCEPT !.status = "DELETED"]
      BY <2>6 DEF RemoveItemCommit, TypeOK
    <3> QED BY <1>0, <3>1 DEF Row
  <2>7. CASE ReplaceCommit(w)
    <3>1. PICK fresh \in FreeItems :
             item' = [item EXCEPT
                        ![req[w].i].status = "REPLACED",
                        ![fresh] = [status |-> "ACTIVE", contract |-> req[w].c, asset |-> req[w].a]]
      BY <2>7 DEF ReplaceCommit
    <3>2. ItemMayBecome(item[req[w].i].status, "REPLACED")
      BY <2>7 DEF ReplaceCommit
    <3>3. CASE i = fresh
      BY <3>1, <3>3 DEF FreeItems, TypeOK
    <3>4. CASE i # fresh
      <4>1. item'[i] = item[i] \/ (i = req[w].i /\ item'[i] = [item[i] EXCEPT !.status = "REPLACED"])
        BY <3>1, <3>4 DEF TypeOK
      <4> QED BY <1>0, <3>2, <4>1 DEF Row, ItemMayBecome
    <3> QED BY <3>3, <3>4
  <2>8. CASE ReturnCommit(w)
    <3>1. item'[i] = item[i] \/ (item'[i] = [item[i] EXCEPT !.status = "RETURNED"]
                                 /\ ItemMayBecome(item[i].status, "RETURNED"))
      BY <2>8 DEF ReturnCommit, TypeOK
    <3> QED BY <1>0, <3>1 DEF Row, ItemMayBecome
  <2>9. CASE \E c \in Contracts : CancelOrder(w, c)
    BY <2>9 DEF CancelOrder
  <2> QED BY <1>1, <2>1, <2>2, <2>3, <2>4, <2>5, <2>6, <2>7, <2>8, <2>9 DEF Writes
<1> QED BY <1>1, TableSteps

\* Only an activation or a replacement lets an item become ACTIVE, and the index on
\* ACTIVE items sees to it that its asset is with no other.
LEMMA FreshTerm ==
  ASSUME TypeOK, [Next]_vars, NEW i \in Items,
         item'[i].status = "ACTIVE", item[i].status # "ACTIVE"
  PROVE  \A j \in Items : item[j].asset = item'[i].asset => item[j].status # "ACTIVE"
<1> DEFINE Fresh == \A j \in Items : item[j].asset = item'[i].asset => item[j].status # "ACTIVE"
<1>0. item[i] \in Row
  BY DEF TypeOK
<1>1. ASSUME NEW w \in Workers, Writes(w) PROVE Fresh
  <2>1. CASE CreateCommit(w)
    BY <2>1 DEF CreateCommit
  <2>2. CASE ActivateCommit(w)
    <3>1. i \in req[w].seen /\ item'[i] = [item[i] EXCEPT !.status = "ACTIVE"]
      BY <2>2 DEF ActivateCommit
    <3>2. NoOtherActive(req[w].seen)
      BY <2>2 DEF ActivateCommit
    <3>3. item'[i].asset = item[i].asset
      BY <1>0, <3>1 DEF Row
    <3> QED BY <3>1, <3>2, <3>3 DEF NoOtherActive
  <2>3. CASE EndCommit(w)
    <3>1. item'[i] = item[i] \/ item'[i] = [item[i] EXCEPT !.status = "RETURNED"]
      BY <2>3 DEF EndCommit
    <3> QED BY <1>0, <3>1 DEF Row
  <2>4. CASE CancelCommit(w)
    <3>1. item'[i] = item[i] \/ item'[i] = [item[i] EXCEPT !.status = "CANCELED"]
      BY <2>4 DEF CancelCommit
    <3> QED BY <1>0, <3>1 DEF Row
  <2>5. CASE AddItemCommit(w)
    BY <2>5 DEF AddItemCommit, TypeOK
  <2>6. CASE RemoveItemCommit(w)
    <3>1. item'[i] = item[i] \/ item'[i] = [item[i] EXCEPT !.status = "DELETED"]
      BY <2>6 DEF RemoveItemCommit, TypeOK
    <3> QED BY <1>0, <3>1 DEF Row
  <2>7. CASE ReplaceCommit(w)
    <3>1. PICK fresh \in FreeItems :
             item' = [item EXCEPT
                        ![req[w].i].status = "REPLACED",
                        ![fresh] = [status |-> "ACTIVE", contract |-> req[w].c, asset |-> req[w].a]]
      BY <2>7 DEF ReplaceCommit
    <3>2. \A j \in Items : item[j].asset = req[w].a => item[j].status # "ACTIVE"
      BY <2>7 DEF ReplaceCommit
    <3>3. i = fresh
      BY <1>0, <3>1 DEF TypeOK, Row
    <3>4. item'[fresh].asset = req[w].a
      BY <3>1 DEF TypeOK, FreeItems
    <3> QED BY <3>2, <3>3, <3>4
  <2>8. CASE ReturnCommit(w)
    <3>1. item'[i] = item[i] \/ item'[i] = [item[i] EXCEPT !.status = "RETURNED"]
      BY <2>8 DEF ReturnCommit, TypeOK
    <3> QED BY <1>0, <3>1 DEF Row
  <2>9. CASE \E c \in Contracts : CancelOrder(w, c)
    BY <2>9 DEF CancelOrder
  <2> QED BY <1>1, <2>1, <2>2, <2>3, <2>4, <2>5, <2>6, <2>7, <2>8, <2>9 DEF Writes
<1> QED BY <1>1, TableSteps

HolderKnown ==
    \A a \in Assets :
        /\ holder[a] # None => /\ holder[a] \in Items
                               /\ item[holder[a]].status = "ACTIVE" /\ item[holder[a]].asset = a
        /\ \A i \in Items : item[i].status = "ACTIVE" /\ item[i].asset = a => holder[a] = i
        /\ holder[a] \in Items \cup {None}

\* Who holds an asset, without the CHOOSE.
LEMMA HolderIs == OneActiveItemPerAsset => HolderKnown
<1> SUFFICES ASSUME OneActiveItemPerAsset, NEW a \in Assets
             PROVE  /\ holder[a] # None => /\ holder[a] \in Items
                                           /\ item[holder[a]].status = "ACTIVE" /\ item[holder[a]].asset = a
                    /\ \A i \in Items : item[i].status = "ACTIVE" /\ item[i].asset = a => holder[a] = i
                    /\ holder[a] \in Items \cup {None}
  BY DEF HolderKnown
<1> DEFINE holding == {i \in Items : item[i].status = "ACTIVE" /\ item[i].asset = a}
<1>1. holder[a] = IF holding = {} THEN None ELSE CHOOSE i \in holding : TRUE
  BY DEF holder
<1>2. CASE holding = {}
  BY <1>1, <1>2
<1>3. CASE holding # {}
  <2>1. holder[a] \in holding
    BY <1>1, <1>3
  <2> QED BY <2>1 DEF OneActiveItemPerAsset
<1> QED BY <1>2, <1>3

LEMMA HolderIsNext == OneActiveItemPerAsset' => HolderKnown'
BY HolderIs, PTL

LEMMA CustodyInit == Init => Custody!Init
<1> SUFFICES ASSUME Init PROVE holder = [a \in Assets |-> None] /\ spent = {}
  BY DEF Custody!Init
<1>1. \A i \in Items : item[i].status = "NONE"
  BY DEF Init, NoItem
<1>2. spent = {}
  BY <1>1 DEF spent
<1>3. ASSUME NEW a \in Assets
      PROVE  {i \in Items : item[i].status = "ACTIVE" /\ item[i].asset = a} = {}
  BY <1>1
<1>4. holder = [a \in Assets |-> None]
  BY <1>3 DEF holder
<1> QED BY <1>2, <1>4

LEMMA CustodyStep ==
  ASSUME TypeOK, OneActiveItemPerAsset, OneActiveItemPerAsset', [Next]_vars
  PROVE  Custody!Next
<1>0. HolderKnown /\ HolderKnown'
  BY HolderIs, HolderIsNext
<1>n. None \notin Items
  BY ConstantsAssumption
<1>1. holder' \in [Assets -> Items \cup {None}]
  BY <1>0 DEF holder, HolderKnown
<1>2. ASSUME NEW i \in Items, item[i].status = "ACTIVE"
      PROVE  item'[i].asset = item[i].asset /\ (item'[i].status = "ACTIVE" \/ i \in spent')
  BY <1>2, ItemStatusMoves, ItemsKeepTheirContract DEF spent
<1>3. ASSUME NEW a \in Assets, holder'[a] # holder[a]
      PROVE  \/ holder'[a] = None
             \/ holder[a] = None /\ holder'[a] \notin spent \cup Custody!Holding
  <2>1. SUFFICES ASSUME holder'[a] # None
                 PROVE  holder[a] = None /\ holder'[a] \notin spent \cup Custody!Holding
    OBVIOUS
  <2> DEFINE i == holder'[a]
  <2>2. i \in Items /\ item'[i].status = "ACTIVE" /\ item'[i].asset = a
    BY <1>0, <2>1 DEF HolderKnown
  <2>3. item[i].status # "ACTIVE"
    <3> SUFFICES ASSUME item[i].status = "ACTIVE" PROVE FALSE
      OBVIOUS
    <3>1. item[i].asset = a
      BY <1>2, <2>2
    <3> QED BY <1>0, <1>3, <2>2, <3>1 DEF HolderKnown
  <2>4. \A j \in Items : item[j].asset = a => item[j].status # "ACTIVE"
    BY <2>2, <2>3, FreshTerm
  <2>5. holder[a] = None
    BY <1>0, <2>4 DEF HolderKnown
  <2>6. i \notin spent
    BY <2>2, <2>3, ItemStatusMoves DEF spent
  <2>7. i \notin Custody!Holding
    BY <1>0, <2>2, <2>3, <1>n DEF HolderKnown, Custody!Holding
  <2> QED BY <2>5, <2>6, <2>7
<1>4. spent \subseteq spent'
  <2> SUFFICES ASSUME NEW i \in Items, i \in spent PROVE i \in spent'
    BY DEF spent
  <2> QED BY ItemStatusMoves DEF spent
<1>5. Custody!Holding \ Custody!Holding' \subseteq spent'
  <2> SUFFICES ASSUME NEW a \in Assets, holder[a] # None, holder[a] \notin Custody!Holding'
               PROVE  holder[a] \in spent'
    BY DEF Custody!Holding
  <2>1. holder[a] \in Items /\ item[holder[a]].status = "ACTIVE" /\ item[holder[a]].asset = a
    BY <1>0 DEF HolderKnown
  <2>2. CASE item'[holder[a]].status = "ACTIVE"
    <3>1. holder'[a] = holder[a]
      BY <1>0, <1>2, <2>1, <2>2 DEF HolderKnown
    <3> QED BY <3>1 DEF Custody!Holding
  <2> QED BY <1>2, <2>1, <2>2
<1>6. spent' \cap Custody!Holding' = {}
  BY <1>0 DEF HolderKnown, spent, Custody!Holding
<1> QED
  BY <1>1, <1>3, <1>4, <1>5, <1>6 DEF Custody!Next

\* The service keeps the custody promise of AssetCustody whatever requests overlap:
\* assets change hands only by coming back, and no term of custody starts twice.
THEOREM CustodyRefined == Spec => CustodySpec
<1>1. Spec => []TypeOK /\ []OneActiveItemPerAsset
  BY TypeCorrect, OneTenant
<1>2. TypeOK /\ OneActiveItemPerAsset /\ OneActiveItemPerAsset' /\ [Next]_vars
        => [Custody!Next]_(Custody!vars)
  BY CustodyStep
<1> QED
  BY <1>1, <1>2, CustodyInit, PTL DEF Spec, CustodySpec, Custody!Spec

-----------------------------------------------------------------------------
(* Items are handed over only by an activation that finds its contract open. *)

LEMMA HandedOverStep ==
  ASSUME TypeOK, UnderContract, [Next]_vars, NEW i \in Items,
         item[i].status = "PENDING", item'[i].status = "ACTIVE"
  PROVE  /\ contract[item[i].contract] \in {"DRAFT", "ACTIVE"}
         /\ contract'[item[i].contract] = "ACTIVE"
<1>0. item[i] \in Row
  BY DEF TypeOK
<1>1. item' # item
  OBVIOUS
<1>2. PICK w \in Workers : Writes(w)
  BY <1>1, TableSteps
<1>3. ~CreateCommit(w)
  BY DEF CreateCommit, FreeItems
<1>4. ~(EndCommit(w) \/ CancelCommit(w))
  BY <1>0 DEF EndCommit, CancelCommit, Row
<1>5. ~(AddItemCommit(w) \/ RemoveItemCommit(w) \/ ReturnCommit(w))
  BY <1>0 DEF AddItemCommit, RemoveItemCommit, ReturnCommit, FreeItems, TypeOK, Row
<1>6. ~ReplaceCommit(w)
  <2> SUFFICES ASSUME ReplaceCommit(w) PROVE FALSE
    OBVIOUS
  <2>1. PICK fresh \in FreeItems :
           item' = [item EXCEPT
                      ![req[w].i].status = "REPLACED",
                      ![fresh] = [status |-> "ACTIVE", contract |-> req[w].c, asset |-> req[w].a]]
    BY DEF ReplaceCommit
  <2>2. i # fresh
    BY DEF FreeItems
  <2>3. item'[i] = item[i] \/ item'[i] = [item[i] EXCEPT !.status = "REPLACED"]
    BY <2>1, <2>2 DEF TypeOK
  <2> QED BY <1>0, <2>3 DEF Row
<1>7. ActivateCommit(w)
  BY <1>1, <1>2, <1>3, <1>4, <1>5, <1>6 DEF Writes, CancelOrder
<1>8. i \in req[w].seen /\ req[w].op = "activate"
  BY <1>7 DEF ActivateCommit
<1>9. item[i].contract = req[w].c /\ req[w].c \in Contracts
  BY <1>8 DEF UnderContract
<1>10. /\ ContractMayBecome(contract[req[w].c], "ACTIVE")
       /\ contract' = [contract EXCEPT ![req[w].c] = "ACTIVE"]
  BY <1>7 DEF ActivateCommit
<1> QED
  BY <1>9, <1>10 DEF ContractMayBecome, TypeOK

\* Equipment goes out only under a contract that the same transaction finds open and
\* leaves in force, although the activation read the contract and its items before.
THEOREM HandedOverUnderContract == Spec => HandedOverOnlyInForce
<1>1. Init => UnderContract
  BY DEF Init, UnderContract, Idle
<1>2. TypeOK /\ UnderContract /\ [Next]_vars => UnderContract'
  BY UnderContractStep
<1>3. TypeOK /\ UnderContract /\ [Next]_vars =>
        [\A i \in Items :
           (item[i].status = "PENDING" /\ item'[i].status = "ACTIVE") =>
              /\ contract[item[i].contract] \in {"DRAFT", "ACTIVE"}
              /\ contract'[item[i].contract] = "ACTIVE"]_vars
  BY HandedOverStep
<1> QED
  BY <1>1, <1>2, <1>3, TypeCorrect, PTL DEF Spec, HandedOverOnlyInForce

-----------------------------------------------------------------------------
(***************************************************************************)
(* While requests for one contract do not overlap; requests for different  *)
(* contracts still meet at every step.                                     *)
(***************************************************************************)
Delivered == {"ACTIVE", "RETURNED", "REPLACED"}

\* What a request in flight has read of its contract still holds, in rows con and its.
StillHolds(r, con, its) ==
    /\ r.op \notin {"idle", "setStatus", "softDelete"} => r.c \in Contracts
    /\ r.op = "activate" =>
         /\ con[r.c] = "DRAFT" /\ r.seen # {}
         /\ \A i \in Items : i \in r.seen <=> its[i].contract = r.c /\ its[i].status = "PENDING"
    /\ r.op = "end" => con[r.c] = "ACTIVE"
    /\ r.op = "cancel" => con[r.c] \in {"DRAFT", "ACTIVE"}
    /\ r.op \in {"end", "cancel"} =>
         \A i \in Items : i \in r.seen <=> its[i].contract = r.c /\ its[i].status = "ACTIVE"
    /\ r.op = "cancel" /\ r.at = "scanned" =>
         \A i \in Items : i \in r.scan <=> its[i].contract = r.c /\ its[i].status \in Open
    /\ r.op = "addItem" => con[r.c] = "DRAFT"
    /\ r.op = "removeItem" => r.i \in Items /\ its[r.i].contract = r.c /\ its[r.i].status = "PENDING"
    /\ r.op \in {"replace", "return"} => con[r.c] = "ACTIVE"
    /\ r.op \in {"replace", "return"} /\ r.at \in {"item", "checked"} =>
         r.i \in Items /\ its[r.i].contract = r.c /\ its[r.i].status = "ACTIVE"

ReadsHold == \A w \in Workers : StillHolds(req[w], contract, item)

\* No two requests are about one contract.
Apart == \A u, w \in Workers : u # w /\ req[u].c = req[w].c => req[w].c = None

\* An item belongs to a contract.
ItemsKnown == \A i \in Items : item[i].status # "NONE" => item[i].contract \in Contracts

Isolated == TypeOK /\ ReadsHold /\ Apart /\ ItemsKnown

LEMMA InitIsolated == Init => Isolated
BY InitType DEF Init, Isolated, ReadsHold, StillHolds, Apart, ItemsKnown, Idle, NoItem

\* Which request is about which contract.
LEMMA Claims ==
    ASSUME TypeOK, [Next]_vars, Overlap = "perContract", NEW w \in Workers
    PROVE  \/ req'[w].c \in {None, req[w].c}
           \/ /\ \A v \in Workers : req[v].c # req'[w].c
              /\ \A v \in Workers \ {w} : req'[v] = req[v]
<1> DEFINE Goal == \/ req'[w].c \in {None, req[w].c}
                   \/ /\ \A v \in Workers : req[v].c # req'[w].c
                      /\ \A v \in Workers \ {w} : req'[v] = req[v]
<1>0. req \in [Workers -> Request] /\ Idle.c = None
  BY DEF TypeOK, Idle
<1>1. ASSUME NEW r, Remember(w, r), r.c \in {None, req[w].c} \/ MayStart(w, r.c) PROVE Goal
  <2>1. req'[w] = r /\ \A v \in Workers \ {w} : req'[v] = req[v]
    BY <1>0, <1>1 DEF Remember
  <2>. QED BY <1>1, <2>1 DEF MayStart
<1>2. CASE Begin(w)
  <2>1. ASSUME NEW c \in Contracts, MayStart(w, c), NEW op, NEW S
        PROVE  /\ Remember(w, [Idle EXCEPT !.op = op, !.c = c]) => Goal
               /\ Remember(w, [Idle EXCEPT !.op = op, !.c = c, !.seen = S]) => Goal
               /\ Remember(w, [Idle EXCEPT !.op = op, !.at = S, !.c = c]) => Goal
    <3>1. [Idle EXCEPT !.op = op, !.c = c].c = c
      BY DEF Idle
    <3>2. [Idle EXCEPT !.op = op, !.c = c, !.seen = S].c = c
      BY DEF Idle
    <3>3. [Idle EXCEPT !.op = op, !.at = S, !.c = c].c = c
      BY DEF Idle
    <3>. QED BY <1>1, <2>1, <3>1, <3>2, <3>3
  <2>2. ASSUME NEW c \in Contracts,
               CreateBegin(w, c) \/ UpdateBegin(w, c) \/ ExtendBegin(w, c) \/ AddItemBegin(w, c)
               \/ ReplaceBegin(w, c) \/ ReturnBegin(w, c)
        PROVE  Goal
    BY <2>1, <2>2 DEF CreateBegin, UpdateBegin, ExtendBegin, AddItemBegin, ReplaceBegin, ReturnBegin
  <2>3. ASSUME NEW c \in Contracts, ActivateBegin(w, c) \/ EndBegin(w, c) \/ CancelBegin(w, c)
        PROVE  Goal
    BY <2>1, <2>3 DEF ActivateBegin, EndBegin, CancelBegin
  <2>4. ASSUME NEW i \in Items, RemoveItemBegin(w, i) PROVE Goal
    <3>1. [Idle EXCEPT !.op = "removeItem", !.c = item[i].contract, !.i = i].c = item[i].contract
      BY DEF Idle
    <3>. QED BY <1>1, <2>4, <3>1 DEF RemoveItemBegin
  <2>5. ASSUME NEW a, NEW to, SoftDeleteBegin(w, a) \/ SetStatusBegin(w, a, to) PROVE Goal
    <3>1. [Idle EXCEPT !.op = "softDelete", !.a = a].c = None
          /\ [Idle EXCEPT !.op = "setStatus", !.a = a, !.to = to].c = None
      BY DEF Idle
    <3>. QED BY <1>1, <2>5, <3>1 DEF SoftDeleteBegin, SetStatusBegin
  <2>. QED BY <1>2, <2>2, <2>3, <2>4, <2>5 DEF Begin
<1>3. CASE Check(w)
  <2>1. \E r : Remember(w, r) /\ r.c = req[w].c
    <3>1. ASSUME NEW a PROVE [req[w] EXCEPT !.assets = @ \cup {a}].c = req[w].c
                             /\ [req[w] EXCEPT !.at = "checked", !.a = a].c = req[w].c
                             /\ [req[w] EXCEPT !.at = "item", !.i = a].c = req[w].c
                             /\ [req[w] EXCEPT !.at = "checked", !.i = a].c = req[w].c
                             /\ [req[w] EXCEPT !.at = "scanned", !.scan = a].c = req[w].c
      BY <1>0 DEF Request
    <3>. QED BY <1>3, <3>1 DEF Check, CreateCheckItem, AddItemCheck, ReplaceCheckAsset, ReplaceCheckItem,
                              ReturnCheckItem, CancelScan
  <2>. QED BY <1>1, <2>1
<1>4. ASSUME NEW c \in Contracts, CronTake(c), w = Cron PROVE Goal
  <2>1. [Idle EXCEPT !.op = "end", !.c = c, !.seen = ItemsOf(c, {"ACTIVE"})].c = c
    BY DEF Idle
  <2>. QED BY <1>1, <1>4, <2>1 DEF CronTake
<1>. QED BY <1>0, <1>2, <1>3, <1>4, RequestSteps

LEMMA ApartStep ==
    ASSUME TypeOK, Apart, [Next]_vars, Overlap = "perContract"
    PROVE  Apart'
<1> SUFFICES ASSUME NEW u \in Workers, NEW w \in Workers, u # w, req'[u].c = req'[w].c, req'[w].c # None
             PROVE  FALSE
  BY DEF Apart
<1>1. CASE req'[u].c = req[u].c /\ req'[w].c = req[w].c
  BY <1>1 DEF Apart
<1>. QED BY <1>1, Claims

-----------------------------------------------------------------------------
(* What one request writes, no request for another contract has read. *)

\* The rows of contract c are left alone.
Untouched(c) ==
    /\ contract'[c] = contract[c]
    /\ \A i \in Items : \/ item'[i] = item[i]
                        \/ item[i].contract # c /\ item'[i].contract # c
                        \/ item[i].status = "NONE" /\ item'[i].contract # c

LEMMA WritesApart ==
    ASSUME Isolated, NEW w \in Workers, Writes(w), NEW c \in Contracts, req[w].c # c,
           \A d \in Contracts : CancelOrder(w, d) => d # c
    PROVE  Untouched(c)
<1>0. /\ item \in [Items -> Row] /\ contract \in [Contracts -> ContractStatus] /\ req[w] \in Request
      /\ StillHolds(req[w], contract, item)
  BY DEF Isolated, ReadsHold, TypeOK
<1>00. item \in [Items -> Row]
  BY <1>0
<1>1. CASE CreateCommit(w)
  BY <1>0, <1>1 DEF CreateCommit, FreeItems, Untouched
<1>2. CASE ActivateCommit(w)
  <2>1. \A i \in Items : item'[i] = IF i \in req[w].seen THEN [item[i] EXCEPT !.status = "ACTIVE"] ELSE item[i]
    BY <1>2 DEF ActivateCommit
  <2>2. \A i \in Items : i \in req[w].seen => item[i].contract = req[w].c
    BY <1>0, <1>2 DEF ActivateCommit, StillHolds
  <2>3. contract'[c] = contract[c]
    BY <1>0, <1>2 DEF ActivateCommit
  <2>. QED BY <1>0, <2>1, <2>2, <2>3 DEF Untouched, Row
<1>3. CASE EndCommit(w)
  <2>1. \A i \in Items : item'[i] = IF i \in req[w].seen THEN [item[i] EXCEPT !.status = "RETURNED"] ELSE item[i]
    BY <1>3 DEF EndCommit
  <2>2. \A i \in Items : i \in req[w].seen => item[i].contract = req[w].c
    BY <1>0, <1>3 DEF EndCommit, StillHolds
  <2>3. contract'[c] = contract[c]
    BY <1>0, <1>3 DEF EndCommit
  <2>. QED BY <1>0, <2>1, <2>2, <2>3 DEF Untouched, Row
<1>4. CASE CancelCommit(w)
  <2>1. \A i \in Items : item'[i] = item[i]
                         \/ (i \in req[w].scan /\ item'[i] = [item[i] EXCEPT !.status = "CANCELED"])
    BY <1>4 DEF CancelCommit
  <2>2. \A i \in Items : i \in req[w].scan => item[i].contract = req[w].c
    BY <1>0, <1>4 DEF CancelCommit, AtStep, StillHolds
  <2>3. contract'[c] = contract[c]
    BY <1>0, <1>4 DEF CancelCommit
  <2>. QED BY <1>0, <2>1, <2>2, <2>3 DEF Untouched, Row
<1>5. CASE AddItemCommit(w)
  BY <1>0, <1>5 DEF AddItemCommit, FreeItems, Untouched, contractVars
<1>6. CASE RemoveItemCommit(w)
  <2>0. item' = [item EXCEPT ![req[w].i].status = "DELETED"]
    BY <1>6 DEF RemoveItemCommit
  <2>1. \A i \in Items : item'[i] = item[i] \/ (i = req[w].i /\ item'[i] = [item[i] EXCEPT !.status = "DELETED"])
    BY <1>00, <2>0
  <2>2. item[req[w].i].contract = req[w].c
    BY <1>0, <1>6 DEF RemoveItemCommit, StillHolds
  <2>. QED BY <1>0, <1>6, <2>1, <2>2 DEF Untouched, Row, RemoveItemCommit, contractVars
<1>7. CASE ReplaceCommit(w)
  <2>0. PICK new \in FreeItems :
           item' = [item EXCEPT ![req[w].i].status = "REPLACED",
                                ![new] = [status |-> "ACTIVE", contract |-> req[w].c, asset |-> req[w].a]]
    BY <1>7 DEF ReplaceCommit
  <2>1. \A i \in Items : \/ item'[i] = item[i]
                         \/ i = req[w].i /\ item'[i] = [item[i] EXCEPT !.status = "REPLACED"]
                         \/ item[i].status = "NONE" /\ item'[i].contract = req[w].c
    BY <1>0, <2>0 DEF FreeItems
  <2>2. item[req[w].i].contract = req[w].c
    BY <1>0, <1>7 DEF ReplaceCommit, AtStep, StillHolds
  <2>3. \A i \in Items : [item[i] EXCEPT !.status = "REPLACED"].contract = item[i].contract
    BY <1>00 DEF Row
  <2>4. contract' = contract
    BY <1>7 DEF ReplaceCommit, contractVars
  <2>. QED BY <2>1, <2>2, <2>3, <2>4 DEF Untouched
<1>8. CASE ReturnCommit(w)
  <2>0. item' = [item EXCEPT ![req[w].i].status = "RETURNED"]
    BY <1>8 DEF ReturnCommit
  <2>1. \A i \in Items : item'[i] = item[i] \/ (i = req[w].i /\ item'[i] = [item[i] EXCEPT !.status = "RETURNED"])
    BY <1>00, <2>0
  <2>2. item[req[w].i].contract = req[w].c
    BY <1>0, <1>8 DEF ReturnCommit, AtStep, StillHolds
  <2>. QED BY <1>0, <1>8, <2>1, <2>2 DEF Untouched, Row, ReturnCommit, contractVars
<1>9. ASSUME NEW d \in Contracts, CancelOrder(w, d) PROVE Untouched(c)
  BY <1>0, <1>9 DEF CancelOrder, Untouched
<1>. QED BY <1>1, <1>2, <1>3, <1>4, <1>5, <1>6, <1>7, <1>8, <1>9 DEF Writes

LEMMA UntouchedHolds ==
    ASSUME NEW r, StillHolds(r, contract, item), r.c \in Contracts => Untouched(r.c)
    PROVE  StillHolds(r, contract', item')
<1>1. CASE r.op \in {"idle", "setStatus", "softDelete"}
  BY <1>1 DEF StillHolds
<1>2. CASE r.op \notin {"idle", "setStatus", "softDelete"}
  <2>1. r.c \in Contracts /\ contract'[r.c] = contract[r.c]
    BY <1>2 DEF StillHolds, Untouched
  <2>2. \A i \in Items, s \in {"PENDING", "ACTIVE"} :
           (item'[i].contract = r.c /\ item'[i].status = s) <=> (item[i].contract = r.c /\ item[i].status = s)
    BY <2>1 DEF Untouched
  <2>. QED BY <2>1, <2>2 DEF StillHolds, Open
<1>. QED BY <1>1, <1>2

LEMMA OthersHold ==
    ASSUME Isolated, [Next]_vars, Overlap = "perContract", NEW u \in Workers
    PROVE  StillHolds(req[u], contract', item') \/ req'[u] = Idle
<1>0. StillHolds(req[u], contract, item) /\ req \in [Workers -> Request]
  BY DEF Isolated, ReadsHold, TypeOK
<1>1. CASE UNCHANGED <<contract, item>>
  BY <1>0, <1>1
<1>2. ASSUME NEW w \in Workers, Writes(w) PROVE StillHolds(req[u], contract', item') \/ req'[u] = Idle
  <2>1. ASSUME NEW d \in Contracts, CancelOrder(w, d) PROVE StillHolds(req[u], contract', item')
    <3>1. \A v \in Workers : req[v].c # d
      BY <2>1 DEF CancelOrder, MayStart
    <3>2. req[u].c \in Contracts => Untouched(req[u].c)
      BY <2>1, <3>1 DEF CancelOrder, Untouched, Isolated, TypeOK
    <3>. QED BY <1>0, <3>2, UntouchedHolds
  <2>2. ASSUME ~\E d \in Contracts : CancelOrder(w, d), u # w PROVE StillHolds(req[u], contract', item')
    <3>1. req[u].c \in Contracts => req[w].c # req[u].c
      BY <2>2, ConstantsAssumption DEF Isolated, Apart, ConstantsAssumption
    <3>2. req[u].c \in Contracts => Untouched(req[u].c)
      BY <1>2, <2>2, <3>1, WritesApart
    <3>. QED BY <1>0, <3>2, UntouchedHolds
  <2>3. ASSUME ~\E d \in Contracts : CancelOrder(w, d) PROVE req'[w] = Idle
    <3>1. Finish(w)
      BY <1>2, <2>3 DEF Writes, CreateCommit, ActivateCommit, EndCommit, CancelCommit, AddItemCommit,
                        RemoveItemCommit, ReplaceCommit, ReturnCommit
    <3>. QED BY <1>0, <3>1 DEF Finish
  <2>. QED BY <2>1, <2>2, <2>3
<1>. QED BY <1>1, <1>2, TableSteps

-----------------------------------------------------------------------------
(* What a request reads holds when it is read. *)

LEMMA BeginHolds ==
    ASSUME Isolated, NEW w \in Workers, Begin(w)
    PROVE  StillHolds(req'[w], contract, item)
<1>0. req \in [Workers -> Request]
  BY DEF Isolated, TypeOK
<1>1. ASSUME NEW r, Remember(w, r), StillHolds(r, contract, item) PROVE StillHolds(req'[w], contract, item)
  BY <1>0, <1>1 DEF Remember
<1> USE DEF StillHolds, Idle
<1>2. ASSUME NEW c \in Contracts, CreateBegin(w, c) \/ UpdateBegin(w, c) \/ ExtendBegin(w, c)
      PROVE  StillHolds(req'[w], contract, item)
  <2>1. /\ StillHolds([Idle EXCEPT !.op = "create", !.c = c], contract, item)
        /\ StillHolds([Idle EXCEPT !.op = "update", !.at = "dates", !.c = c], contract, item)
        /\ StillHolds([Idle EXCEPT !.op = "update", !.at = "flag", !.c = c], contract, item)
        /\ StillHolds([Idle EXCEPT !.op = "extend", !.c = c], contract, item)
    OBVIOUS
  <2> HIDE DEF StillHolds, Idle
  <2>. QED BY <1>1, <1>2, <2>1 DEF CreateBegin, UpdateBegin, ExtendBegin
<1>3. ASSUME NEW c \in Contracts, ActivateBegin(w, c) PROVE StillHolds(req'[w], contract, item)
  <2>1. StillHolds([Idle EXCEPT !.op = "activate", !.c = c, !.seen = ItemsOf(c, {"PENDING"})], contract, item)
    BY <1>3 DEF ActivateBegin, MayActivate, ItemsOf
  <2> HIDE DEF StillHolds, Idle
  <2>. QED BY <1>1, <1>3, <2>1 DEF ActivateBegin
<1>4. ASSUME NEW c \in Contracts, EndBegin(w, c) PROVE StillHolds(req'[w], contract, item)
  <2>1. StillHolds([Idle EXCEPT !.op = "end", !.c = c, !.seen = ItemsOf(c, {"ACTIVE"})], contract, item)
    BY <1>4 DEF EndBegin, ItemsOf
  <2> HIDE DEF StillHolds, Idle
  <2>. QED BY <1>1, <1>4, <2>1 DEF EndBegin
<1>5. ASSUME NEW c \in Contracts, CancelBegin(w, c) PROVE StillHolds(req'[w], contract, item)
  <2>1. StillHolds([Idle EXCEPT !.op = "cancel", !.c = c, !.seen = ItemsOf(c, {"ACTIVE"})], contract, item)
    BY <1>5 DEF CancelBegin, ItemsOf
  <2> HIDE DEF StillHolds, Idle
  <2>. QED BY <1>1, <1>5, <2>1 DEF CancelBegin
<1>6. ASSUME NEW c \in Contracts, AddItemBegin(w, c) \/ ReplaceBegin(w, c) \/ ReturnBegin(w, c)
      PROVE  StillHolds(req'[w], contract, item)
  <2>1. /\ contract[c] = "DRAFT" => StillHolds([Idle EXCEPT !.op = "addItem", !.c = c], contract, item)
        /\ contract[c] = "ACTIVE" => StillHolds([Idle EXCEPT !.op = "replace", !.c = c], contract, item)
        /\ contract[c] = "ACTIVE" => StillHolds([Idle EXCEPT !.op = "return", !.c = c], contract, item)
    OBVIOUS
  <2> HIDE DEF StillHolds, Idle
  <2>. QED BY <1>1, <1>6, <2>1 DEF AddItemBegin, ReplaceBegin, ReturnBegin, TakesItems
<1>7. ASSUME NEW i \in Items, RemoveItemBegin(w, i) PROVE StillHolds(req'[w], contract, item)
  <2>1. item[i].contract \in Contracts /\ item[i].status = "PENDING"
    BY <1>7 DEF RemoveItemBegin, Isolated, ItemsKnown
  <2>2. StillHolds([Idle EXCEPT !.op = "removeItem", !.c = item[i].contract, !.i = i], contract, item)
    BY <2>1
  <2> HIDE DEF StillHolds, Idle
  <2>. QED BY <1>1, <1>7, <2>2 DEF RemoveItemBegin
<1>8. ASSUME NEW a, NEW to, SoftDeleteBegin(w, a) \/ SetStatusBegin(w, a, to)
      PROVE  StillHolds(req'[w], contract, item)
  <2>1. /\ StillHolds([Idle EXCEPT !.op = "softDelete", !.a = a], contract, item)
        /\ StillHolds([Idle EXCEPT !.op = "setStatus", !.a = a, !.to = to], contract, item)
    OBVIOUS
  <2> HIDE DEF StillHolds, Idle
  <2>. QED BY <1>1, <1>8, <2>1 DEF SoftDeleteBegin, SetStatusBegin
<1> HIDE DEF StillHolds, Idle
<1>. QED BY <1>2, <1>3, <1>4, <1>5, <1>6, <1>7, <1>8 DEF Begin

LEMMA CheckHolds ==
    ASSUME Isolated, NEW w \in Workers, Check(w)
    PROVE  StillHolds(req'[w], contract, item)
<1>0. req \in [Workers -> Request] /\ req[w] \in Request /\ StillHolds(req[w], contract, item)
  BY DEF Isolated, TypeOK, ReadsHold
<1>1. ASSUME NEW r, Remember(w, r), StillHolds(r, contract, item) PROVE StillHolds(req'[w], contract, item)
  BY <1>0, <1>1 DEF Remember
<1>2. ASSUME NEW a, CreateCheckItem(w, a) PROVE StillHolds(req'[w], contract, item)
  <2>1. StillHolds([req[w] EXCEPT !.assets = @ \cup {a}], contract, item)
    BY <1>0, <1>2 DEF CreateCheckItem, StillHolds, Request
  <2>. QED BY <1>1, <1>2, <2>1 DEF CreateCheckItem
<1>3. ASSUME NEW a, AddItemCheck(w, a) \/ ReplaceCheckAsset(w, a) PROVE StillHolds(req'[w], contract, item)
  <2>1. StillHolds([req[w] EXCEPT !.at = "checked", !.a = a], contract, item)
    BY <1>0, <1>3 DEF AddItemCheck, ReplaceCheckAsset, AtStep, StillHolds, Request
  <2>. QED BY <1>1, <1>3, <2>1 DEF AddItemCheck, ReplaceCheckAsset
<1>4. ASSUME NEW i \in Items, ReplaceCheckItem(w, i) PROVE StillHolds(req'[w], contract, item)
  <2>1. StillHolds([req[w] EXCEPT !.at = "item", !.i = i], contract, item)
    BY <1>0, <1>4 DEF ReplaceCheckItem, AtStep, ItemsOf, StillHolds, Request
  <2>. QED BY <1>1, <1>4, <2>1 DEF ReplaceCheckItem
<1>5. ASSUME NEW i \in Items, ReturnCheckItem(w, i) PROVE StillHolds(req'[w], contract, item)
  <2>1. StillHolds([req[w] EXCEPT !.at = "checked", !.i = i], contract, item)
    BY <1>0, <1>5 DEF ReturnCheckItem, AtStep, ItemsOf, StillHolds, Request
  <2>. QED BY <1>1, <1>5, <2>1 DEF ReturnCheckItem
<1>6. CASE CancelScan(w)
  <2>1. StillHolds([req[w] EXCEPT !.at = "scanned", !.scan = ItemsOf(req[w].c, Open)], contract, item)
    BY <1>0, <1>6 DEF CancelScan, AtStep, ItemsOf, StillHolds, Request
  <2>. QED BY <1>1, <1>6, <2>1 DEF CancelScan
<1>. QED BY <1>2, <1>3, <1>4, <1>5, <1>6 DEF Check

LEMMA ReadsHoldStep ==
    ASSUME Isolated, [Next]_vars, Overlap = "perContract"
    PROVE  ReadsHold'
<1> SUFFICES ASSUME NEW w \in Workers PROVE StillHolds(req'[w], contract', item')
  BY DEF ReadsHold
<1>0. req \in [Workers -> Request]
  BY DEF Isolated, TypeOK
<1>1. StillHolds(Idle, contract', item')
  BY DEF StillHolds, Idle
<1>2. CASE Begin(w)
  BY <1>2, BeginHolds, BeginReads
<1>3. CASE Check(w)
  BY <1>3, CheckHolds, CheckReads
<1>4. ASSUME NEW c \in Contracts, CronTake(c), w = Cron PROVE StillHolds(req'[w], contract', item')
  <2>0. UNCHANGED <<contract, item>>
    BY <1>4 DEF CronTake, contractVars
  <2>1. CASE contract[c] = "ACTIVE"
    <3>1. StillHolds([Idle EXCEPT !.op = "end", !.c = c, !.seen = ItemsOf(c, {"ACTIVE"})], contract, item)
      BY <2>1 DEF StillHolds, Idle, ItemsOf
    <3>2. req'[w] = [Idle EXCEPT !.op = "end", !.c = c, !.seen = ItemsOf(c, {"ACTIVE"})]
      BY <1>0, <1>4, <2>1 DEF CronTake, Remember
    <3>. QED BY <2>0, <3>1, <3>2
  <2>2. CASE contract[c] # "ACTIVE"
    <3>1. req'[w] = req[w]
      BY <1>4, <2>2 DEF CronTake
    <3>. QED BY <2>0, <3>1 DEF Isolated, ReadsHold
  <2>. QED BY <2>1, <2>2
<1>. QED BY <1>1, <1>2, <1>3, <1>4, OthersHold, RequestSteps DEF Isolated

LEMMA IsolatedStep ==
    ASSUME Isolated, [Next]_vars, Overlap = "perContract"
    PROVE  Isolated'
<1>0. item \in [Items -> Row] /\ TypeOK
  BY DEF Isolated, TypeOK
<1>1. ItemsKnown'
  <2> SUFFICES ASSUME NEW i \in Items, item'[i].status # "NONE" PROVE item'[i].contract \in Contracts
    BY DEF ItemsKnown
  <2>1. CASE item[i].status # "NONE"
    BY <1>0, <2>1, ItemsKeepTheirContract DEF Isolated, ItemsKnown
  <2>2. CASE item[i].status = "NONE"
    <3>1. PICK w \in Workers : Writes(w)
      BY <2>2, TableSteps
    <3>2. StillHolds(req[w], contract, item)
      BY DEF Isolated, ReadsHold
    <3>3. ASSUME item'[i] # item[i], item'[i].contract # req[w].c PROVE FALSE
      <4>1. CASE CreateCommit(w) \/ AddItemCommit(w)
        BY <1>0, <3>3, <4>1 DEF CreateCommit, AddItemCommit
      <4>2. CASE ActivateCommit(w) \/ EndCommit(w)
        BY <1>0, <2>2, <3>2, <3>3, <4>2 DEF ActivateCommit, EndCommit, StillHolds
      <4>3. CASE CancelCommit(w)
        BY <2>2, <3>3, <4>3 DEF CancelCommit, Open
      <4>4. CASE RemoveItemCommit(w)
        BY <1>0, <2>2, <3>2, <3>3, <4>4 DEF RemoveItemCommit, StillHolds
      <4>5. CASE ReplaceCommit(w)
        BY <1>0, <2>2, <3>2, <3>3, <4>5 DEF ReplaceCommit, AtStep, StillHolds
      <4>6. CASE ReturnCommit(w)
        BY <1>0, <2>2, <3>2, <3>3, <4>6 DEF ReturnCommit, AtStep, StillHolds
      <4>7. CASE \E c \in Contracts : CancelOrder(w, c)
        BY <3>3, <4>7 DEF CancelOrder
      <4>. QED BY <3>1, <4>1, <4>2, <4>3, <4>4, <4>5, <4>6, <4>7 DEF Writes
    <3>4. item'[i] # item[i] /\ ~\E c \in Contracts : CancelOrder(w, c)
      BY <2>2 DEF CancelOrder
    <3>5. req[w].c \in Contracts
      BY <3>1, <3>2, <3>4 DEF StillHolds, Writes, CreateCommit, ActivateCommit, EndCommit, CancelCommit,
         AddItemCommit, RemoveItemCommit, ReplaceCommit, ReturnCommit, AtStep
    <3>. QED BY <3>3, <3>4, <3>5
  <2>. QED BY <2>1, <2>2
<1>. QED BY <1>0, <1>1, NextType, ApartStep, ReadsHoldStep DEF Isolated

-----------------------------------------------------------------------------
(* A contract and its items tell one story. *)

\* What the items of contract c say in each of its statuses, in rows con and its.
Whole(c, con, its) ==
    /\ con[c] \in {"NONE", "DRAFT"} =>
         \A i \in Items : its[i].contract = c => its[i].status \notin Delivered
    /\ con[c] \in {"ACTIVE", "ENDED"} =>
         /\ \A i \in Items : its[i].contract = c => its[i].status # "PENDING"
         /\ \E i \in Items : its[i].contract = c /\ its[i].status \in Delivered
    /\ con[c] \in {"ENDED", "CANCELED"} =>
         \A i \in Items : its[i].contract = c => its[i].status # "ACTIVE"

AllWhole == \A c \in Contracts : Whole(c, contract, item)

LEMMA InitWhole == Init => AllWhole
BY DEF Init, AllWhole, Whole, NoItem, Delivered

LEMMA UntouchedStaysWhole ==
    ASSUME Isolated, NEW c \in Contracts, Whole(c, contract, item), Untouched(c)
    PROVE  Whole(c, contract', item')
BY DEF Whole, Untouched, Delivered, Isolated, TypeOK

\* The request that is about contract c writes all of it or leaves it as whole as it was.
LEMMA OwnerKeepsWhole ==
    ASSUME Isolated, NEW w \in Workers, NEW c \in Contracts, req[w].c = c,
           Whole(c, contract, item), Writes(w), ~\E d \in Contracts : CancelOrder(w, d)
    PROVE  Whole(c, contract', item')
<1>0. item \in [Items -> Row] /\ contract \in [Contracts -> ContractStatus]
      /\ StillHolds(req[w], contract, item)
  BY DEF Isolated, ReadsHold, TypeOK
<1>00. item \in [Items -> Row]
  BY <1>0
<1>1. CASE CreateCommit(w)
  <2>1. contract'[c] = "DRAFT" /\ contract[c] = "NONE"
    BY <1>0, <1>1 DEF CreateCommit
  <2>2. \A i \in Items : item'[i] = item[i] \/ item'[i].status = "PENDING"
    BY <1>1 DEF CreateCommit
  <2>. QED BY <2>1, <2>2 DEF Whole, Delivered
<1>2. CASE ActivateCommit(w)
  <2>1. \A i \in Items : item'[i] = IF i \in req[w].seen THEN [item[i] EXCEPT !.status = "ACTIVE"] ELSE item[i]
    BY <1>2 DEF ActivateCommit
  <2>2. \A i \in Items : item'[i].contract = item[i].contract
                         /\ item'[i].status = IF i \in req[w].seen THEN "ACTIVE" ELSE item[i].status
    BY <1>00, <2>1 DEF Row
  <2>3. contract'[c] = "ACTIVE"
    BY <1>0, <1>2 DEF ActivateCommit
  <2>4. /\ req[w].seen # {} /\ req[w].seen \subseteq Items
        /\ \A i \in Items : i \in req[w].seen <=> item[i].contract = c /\ item[i].status = "PENDING"
    BY <1>0, <1>2 DEF ActivateCommit, StillHolds, Isolated, TypeOK, Request
  <2>. QED BY <2>2, <2>3, <2>4 DEF Whole, Delivered
<1>3. CASE EndCommit(w)
  <2>1. \A i \in Items : item'[i] = IF i \in req[w].seen THEN [item[i] EXCEPT !.status = "RETURNED"] ELSE item[i]
    BY <1>3 DEF EndCommit
  <2>2. \A i \in Items : item'[i].contract = item[i].contract
                         /\ item'[i].status = IF i \in req[w].seen THEN "RETURNED" ELSE item[i].status
    BY <1>00, <2>1 DEF Row
  <2>3. contract'[c] = "ENDED" /\ contract[c] = "ACTIVE"
    BY <1>0, <1>3 DEF EndCommit, StillHolds
  <2>4. \A i \in Items : i \in req[w].seen <=> item[i].contract = c /\ item[i].status = "ACTIVE"
    BY <1>0, <1>3 DEF EndCommit, StillHolds
  <2>. QED BY <2>2, <2>3, <2>4 DEF Whole, Delivered
<1>4. CASE CancelCommit(w)
  <2>1. \A i \in Items : item'[i] = IF i \in req[w].scan /\ item[i].status \in Open
                                    THEN [item[i] EXCEPT !.status = "CANCELED"] ELSE item[i]
    BY <1>4 DEF CancelCommit
  <2>2. \A i \in Items :
           /\ item'[i].contract = item[i].contract
           /\ item'[i].status = IF i \in req[w].scan /\ item[i].status \in Open THEN "CANCELED" ELSE item[i].status
    BY <1>00, <2>1 DEF Row
  <2>3. contract'[c] = "CANCELED"
    BY <1>0, <1>4 DEF CancelCommit
  <2>4. \A i \in Items : i \in req[w].scan <=> item[i].contract = c /\ item[i].status \in Open
    BY <1>0, <1>4 DEF CancelCommit, AtStep, StillHolds
  <2>. QED BY <2>2, <2>3, <2>4 DEF Whole, Open
<1>5. CASE AddItemCommit(w)
  <2>1. contract'[c] = "DRAFT" /\ contract[c] = "DRAFT"
    BY <1>0, <1>5 DEF AddItemCommit, AtStep, StillHolds, contractVars
  <2>2. \A i \in Items : item'[i] = item[i] \/ item'[i].status = "PENDING"
    BY <1>00, <1>5 DEF AddItemCommit
  <2>. QED BY <2>1, <2>2 DEF Whole, Delivered
<1>6. CASE RemoveItemCommit(w)
  <2>0. item' = [item EXCEPT ![req[w].i].status = "DELETED"] /\ contract' = contract
    BY <1>6 DEF RemoveItemCommit, contractVars
  <2>1. \A i \in Items : item'[i] = item[i] \/ (i = req[w].i /\ item'[i] = [item[i] EXCEPT !.status = "DELETED"])
    BY <1>00, <2>0
  <2>2. \A i \in Items : [item[i] EXCEPT !.status = "DELETED"].status = "DELETED"
                         /\ [item[i] EXCEPT !.status = "DELETED"].contract = item[i].contract
    BY <1>00 DEF Row
  <2>3. item[req[w].i].status = "PENDING"
    BY <1>0, <1>6 DEF RemoveItemCommit, StillHolds
  <2>. QED BY <2>0, <2>1, <2>2, <2>3 DEF Whole, Delivered
<1>7. CASE ReplaceCommit(w)
  <2>0. PICK new \in FreeItems :
           item' = [item EXCEPT ![req[w].i].status = "REPLACED",
                                ![new] = [status |-> "ACTIVE", contract |-> req[w].c, asset |-> req[w].a]]
    BY <1>7 DEF ReplaceCommit
  <2>1. \A i \in Items : \/ item'[i] = item[i]
                         \/ item'[i] = [item[i] EXCEPT !.status = "REPLACED"]
                         \/ item'[i].status = "ACTIVE"
    BY <1>00, <2>0 DEF FreeItems
  <2>2. \A i \in Items : [item[i] EXCEPT !.status = "REPLACED"].status = "REPLACED"
                         /\ [item[i] EXCEPT !.status = "REPLACED"].contract = item[i].contract
    BY <1>00 DEF Row
  <2>3. new \in Items /\ item'[new].status = "ACTIVE" /\ item'[new].contract = c
    BY <1>00, <2>0 DEF FreeItems
  <2>4. contract'[c] = "ACTIVE" /\ contract[c] = "ACTIVE"
    BY <1>0, <1>7 DEF ReplaceCommit, AtStep, StillHolds, contractVars
  <2>. QED BY <2>1, <2>2, <2>3, <2>4 DEF Whole, Delivered
<1>8. CASE ReturnCommit(w)
  <2>0. item' = [item EXCEPT ![req[w].i].status = "RETURNED"] /\ contract' = contract
    BY <1>8 DEF ReturnCommit, contractVars
  <2>1. \A i \in Items : item'[i] = item[i] \/ item'[i] = [item[i] EXCEPT !.status = "RETURNED"]
    BY <1>00, <2>0
  <2>2. \A i \in Items : [item[i] EXCEPT !.status = "RETURNED"].status = "RETURNED"
                         /\ [item[i] EXCEPT !.status = "RETURNED"].contract = item[i].contract
    BY <1>00 DEF Row
  <2>3. contract'[c] = "ACTIVE" /\ contract[c] = "ACTIVE"
    BY <1>0, <1>8, <2>0 DEF ReturnCommit, AtStep, StillHolds
  <2>. QED BY <2>1, <2>2, <2>3 DEF Whole, Delivered
<1>. QED BY <1>1, <1>2, <1>3, <1>4, <1>5, <1>6, <1>7, <1>8 DEF Writes

LEMMA AllWholeStep ==
    ASSUME Isolated, AllWhole, [Next]_vars, Overlap = "perContract"
    PROVE  AllWhole'
<1> SUFFICES ASSUME NEW c \in Contracts PROVE Whole(c, contract', item')
  BY DEF AllWhole
<1>0. Whole(c, contract, item)
  BY DEF AllWhole
<1>1. CASE UNCHANGED <<contract, item>>
  BY <1>0, <1>1
<1>2. ASSUME NEW w \in Workers, Writes(w) PROVE Whole(c, contract', item')
  <2>1. CASE CancelOrder(w, c)
    <3>1. item' = item /\ contract'[c] = IF contract[c] = "DRAFT" THEN "CANCELED" ELSE contract[c]
      BY <2>1 DEF CancelOrder, Isolated, TypeOK
    <3>. QED BY <1>0, <3>1 DEF Whole, Delivered
  <2>2. ASSUME NEW d \in Contracts, CancelOrder(w, d), d # c PROVE Whole(c, contract', item')
    <3>1. Untouched(c)
      BY <2>2 DEF CancelOrder, Untouched, Isolated, TypeOK
    <3>. QED BY <1>0, <3>1, UntouchedStaysWhole
  <2>3. CASE ~(\E d \in Contracts : CancelOrder(w, d)) /\ req[w].c = c
    BY <1>0, <1>2, <2>3, OwnerKeepsWhole
  <2>4. CASE ~(\E d \in Contracts : CancelOrder(w, d)) /\ req[w].c # c
    <3>1. Untouched(c)
      BY <1>2, <2>4, WritesApart
    <3>. QED BY <1>0, <3>1, UntouchedStaysWhole
  <2>. QED BY <2>1, <2>2, <2>3, <2>4
<1>. QED BY <1>1, <1>2, TableSteps

LEMMA StaysWhole == ASSUME Overlap = "perContract" PROVE Spec => [](Isolated /\ AllWhole)
<1>1. Init => Isolated /\ AllWhole
  BY InitIsolated, InitWhole
<1>2. Isolated /\ AllWhole /\ [Next]_vars => Isolated' /\ AllWhole'
  BY IsolatedStep, AllWholeStep
<1>. QED BY <1>1, <1>2, PTL DEF Spec

\* While requests for one contract do not overlap, ending or canceling it brings all
\* its equipment home: the items the request read are all there are when it commits.
THEOREM ClosedHoldsNothing == ASSUME Overlap = "perContract" PROVE Spec => []ClosedContractHoldsNothing
<1>1. AllWhole => ClosedContractHoldsNothing
  BY DEF AllWhole, Whole, ClosedContractHoldsNothing, ItemsOf
<1>. QED BY <1>1, StaysWhole, PTL

\* While requests for one contract do not overlap, an activation leaves none of its
\* items behind as PENDING.
THEOREM NothingLeftPending == ASSUME Overlap = "perContract" PROVE Spec => []NothingPendingAfterActivation
<1>1. AllWhole => NothingPendingAfterActivation
  BY DEF AllWhole, Whole, NothingPendingAfterActivation, ItemsOf
<1>. QED BY <1>1, StaysWhole, PTL

\* While requests for one contract do not overlap, a contract in force or ended was
\* delivered: an item of it is out, came back or was replaced.
THEOREM InForceWasDelivered == ASSUME Overlap = "perContract" PROVE Spec => []ActiveContractWasDelivered
<1>1. AllWhole => ActiveContractWasDelivered
  BY DEF AllWhole, Whole, ActiveContractWasDelivered, ItemsOf, Delivered
<1>. QED BY <1>1, StaysWhole, PTL

-----------------------------------------------------------------------------
(* The asset list, while nobody sets an asset's status by hand. *)

NoneByHand == \A w \in Workers : req[w].op # "setStatus"

LEMMA NoneByHandStep ==
    ASSUME TypeOK, NoneByHand, [Next]_vars, ManualTargets = {}
    PROVE  NoneByHand'
<1> SUFFICES ASSUME NEW w \in Workers PROVE req'[w].op # "setStatus"
  BY DEF NoneByHand
<1>0. req \in [Workers -> Request] /\ req[w].op # "setStatus"
  BY DEF TypeOK, NoneByHand
<1>1. ASSUME NEW r, Remember(w, r), r.op # "setStatus" PROVE req'[w].op # "setStatus"
  BY <1>0, <1>1 DEF Remember
<1>2. Idle.op # "setStatus"
  BY DEF Idle
<1>3. ASSUME NEW c, NEW S, Remember(w, [Idle EXCEPT !.op = "end", !.c = c, !.seen = S])
      PROVE  req'[w].op # "setStatus"
  <2>1. [Idle EXCEPT !.op = "end", !.c = c, !.seen = S].op # "setStatus"
    BY DEF Idle
  <2>. QED BY <1>1, <1>3, <2>1
<1>4. CASE Begin(w)
  <2>1. ASSUME NEW c, CreateBegin(w, c) \/ UpdateBegin(w, c) \/ ExtendBegin(w, c) PROVE req'[w].op # "setStatus"
    <3>1. [Idle EXCEPT !.op = "create", !.c = c].op # "setStatus"
      BY DEF Idle
    <3>2. [Idle EXCEPT !.op = "update", !.at = "dates", !.c = c].op # "setStatus"
      BY DEF Idle
    <3>3. [Idle EXCEPT !.op = "update", !.at = "flag", !.c = c].op # "setStatus"
      BY DEF Idle
    <3>4. [Idle EXCEPT !.op = "extend", !.c = c].op # "setStatus"
      BY DEF Idle
    <3>. QED BY <1>1, <2>1, <3>1, <3>2, <3>3, <3>4 DEF CreateBegin, UpdateBegin, ExtendBegin
  <2>2. ASSUME NEW c, ActivateBegin(w, c) \/ CancelBegin(w, c) PROVE req'[w].op # "setStatus"
    <3>1. [Idle EXCEPT !.op = "activate", !.c = c, !.seen = ItemsOf(c, {"PENDING"})].op # "setStatus"
      BY DEF Idle
    <3>2. [Idle EXCEPT !.op = "cancel", !.c = c, !.seen = ItemsOf(c, {"ACTIVE"})].op # "setStatus"
      BY DEF Idle
    <3>. QED BY <1>1, <2>2, <3>1, <3>2 DEF ActivateBegin, CancelBegin
  <2>3. ASSUME NEW c, EndBegin(w, c) PROVE req'[w].op # "setStatus"
    BY <1>3, <2>3 DEF EndBegin
  <2>4. ASSUME NEW c, AddItemBegin(w, c) \/ ReplaceBegin(w, c) \/ ReturnBegin(w, c) PROVE req'[w].op # "setStatus"
    <3>1. [Idle EXCEPT !.op = "addItem", !.c = c].op # "setStatus"
      BY DEF Idle
    <3>2. [Idle EXCEPT !.op = "replace", !.c = c].op # "setStatus"
      BY DEF Idle
    <3>3. [Idle EXCEPT !.op = "return", !.c = c].op # "setStatus"
      BY DEF Idle
    <3>. QED BY <1>1, <2>4, <3>1, <3>2, <3>3 DEF AddItemBegin, ReplaceBegin, ReturnBegin
  <2>5. ASSUME NEW i, RemoveItemBegin(w, i) PROVE req'[w].op # "setStatus"
    <3>1. [Idle EXCEPT !.op = "removeItem", !.c = item[i].contract, !.i = i].op # "setStatus"
      BY DEF Idle
    <3>. QED BY <1>1, <2>5, <3>1 DEF RemoveItemBegin
  <2>6. ASSUME NEW a, SoftDeleteBegin(w, a) PROVE req'[w].op # "setStatus"
    <3>1. [Idle EXCEPT !.op = "softDelete", !.a = a].op # "setStatus"
      BY DEF Idle
    <3>. QED BY <1>1, <2>6, <3>1 DEF SoftDeleteBegin
  <2>. QED BY <1>4, <2>1, <2>2, <2>3, <2>4, <2>5, <2>6 DEF Begin
<1>5. CASE Check(w)
  <2>1. ASSUME NEW a PROVE /\ [req[w] EXCEPT !.assets = @ \cup {a}].op # "setStatus"
                           /\ [req[w] EXCEPT !.at = "checked", !.a = a].op # "setStatus"
                           /\ [req[w] EXCEPT !.at = "item", !.i = a].op # "setStatus"
                           /\ [req[w] EXCEPT !.at = "checked", !.i = a].op # "setStatus"
                           /\ [req[w] EXCEPT !.at = "scanned", !.scan = a].op # "setStatus"
    BY <1>0 DEF Request
  <2>. QED BY <1>1, <1>5, <2>1 DEF Check, CreateCheckItem, AddItemCheck, ReplaceCheckAsset, ReplaceCheckItem,
                                   ReturnCheckItem, CancelScan
<1>6. ASSUME NEW c \in Contracts, CronTake(c), w = Cron PROVE req'[w].op # "setStatus"
  BY <1>0, <1>3, <1>6 DEF CronTake
<1>. QED BY <1>0, <1>2, <1>4, <1>5, <1>6, RequestSteps

LEMMA AssetSteps ==
    ASSUME NoneByHand, [Next]_vars
    PROVE  UNCHANGED <<item, asset>> \/ \E w \in Workers : Writes(w)
<1>1. ASSUME NEW w \in Workers, Commit(w) PROVE UNCHANGED <<item, asset>> \/ Writes(w)
  BY <1>1 DEF Commit, Writes, UpdateCommit, ExtendCommit, SetStatusCommit, SoftDeleteCommit, assetVars, NoneByHand
<1>2. ASSUME NEW w \in Workers, SingleStatement(w) \/ Abort(w) PROVE UNCHANGED <<item, asset>> \/ Writes(w)
  BY <1>2 DEF SingleStatement, CreateSchedule, DeactivateSchedule, Abort, Writes, assetVars
<1>3. ASSUME CronStart \/ Crash \/ (\E c \in Contracts : CronTake(c) \/ PassTime(c))
      PROVE  UNCHANGED <<item, asset>>
  BY <1>3 DEF CronStart, CronTake, PassTime, Crash, assetVars
<1>. QED BY <1>1, <1>2, <1>3, BeginReads, CheckReads DEF Next, vars, assetVars

Held(a, its) == \E i \in Items : its[i].status = "ACTIVE" /\ its[i].asset = a

\* A request that returns a set S of items frees their assets: nothing else held them.
LEMMA FreedAreFree ==
    ASSUME TypeOK, OneActiveItemPerAsset, RentedIffHeld, NEW S \in SUBSET Items,
           \A i \in S : item[i].status = "ACTIVE",
           \A i \in Items \ S : item'[i].asset = item[i].asset
                                /\ (item'[i].status = "ACTIVE" <=> item[i].status = "ACTIVE"),
           \A i \in S : item'[i].status # "ACTIVE",
           \A a \in Assets : asset'[a] = IF \E i \in S : item[i].asset = a THEN "AVAILABLE" ELSE asset[a],
           NEW a \in Assets
    PROVE  asset'[a] = "RENTED" <=> Held(a, item')
<1>1. CASE \E i \in S : item[i].asset = a
  <2>1. asset'[a] = "AVAILABLE"
    BY <1>1
  <2>2. \A j \in Items \ S : item[j].status = "ACTIVE" => item[j].asset # a
    BY <1>1 DEF OneActiveItemPerAsset
  <2>. QED BY <2>1, <2>2 DEF Held
<1>2. CASE ~\E i \in S : item[i].asset = a
  <2>1. asset'[a] = asset[a]
    BY <1>2
  <2>. QED BY <1>2, <2>1 DEF Held, RentedIffHeld
<1>. QED BY <1>1, <1>2

LEMMA RentedIffHeldStep ==
    ASSUME Isolated, OneActiveItemPerAsset, RentedIffHeld, NoneByHand, [Next]_vars
    PROVE  RentedIffHeld'
<1> SUFFICES ASSUME NEW a \in Assets PROVE asset'[a] = "RENTED" <=> Held(a, item')
  BY DEF RentedIffHeld, Held
<1>0. item \in [Items -> Row] /\ asset \in [Assets -> AssetStatus] /\ TypeOK
  BY DEF Isolated, TypeOK
<1>00. item \in [Items -> Row]
  BY <1>0
<1>1. asset[a] = "RENTED" <=> Held(a, item)
  BY DEF RentedIffHeld, Held
<1>2. CASE UNCHANGED <<item, asset>>
  BY <1>1, <1>2
<1>3. ASSUME asset' = asset,
             \A i \in Items : \/ item'[i] = item[i]
                              \/ item[i].status # "ACTIVE" /\ item'[i].status # "ACTIVE"
      PROVE  asset'[a] = "RENTED" <=> Held(a, item')
  BY <1>1, <1>3 DEF Held
<1>4. ASSUME NEW w \in Workers, Writes(w) PROVE asset'[a] = "RENTED" <=> Held(a, item')
  <2>0. StillHolds(req[w], contract, item) /\ req[w] \in Request
    BY DEF Isolated, ReadsHold, TypeOK
  <2>00. req[w].seen \in SUBSET Items
    BY <2>0 DEF Request
  <2>1. CASE CreateCommit(w)
    <3>1. asset' = asset /\ \A i \in Items : item'[i] = item[i] \/ (item[i].status = "NONE" /\ item'[i].status = "PENDING")
      BY <2>1 DEF CreateCommit, assetVars, FreeItems
    <3>. QED BY <1>3, <3>1
  <2>2. CASE ActivateCommit(w)
    <3>1. \A i \in Items : item'[i] = IF i \in req[w].seen THEN [item[i] EXCEPT !.status = "ACTIVE"] ELSE item[i]
      BY <2>2 DEF ActivateCommit
    <3>2. \A i \in Items : item'[i].asset = item[i].asset
                           /\ item'[i].status = IF i \in req[w].seen THEN "ACTIVE" ELSE item[i].status
      BY <1>00, <3>1 DEF Row
    <3>3. asset'[a] = IF \E i \in req[w].seen : item[i].asset = a THEN "RENTED" ELSE asset[a]
      BY <2>2 DEF ActivateCommit
    <3>. QED BY <1>1, <2>00, <3>2, <3>3 DEF Held
  <2>3. CASE EndCommit(w)
    <3>1. \A i \in Items : item'[i] = IF i \in req[w].seen THEN [item[i] EXCEPT !.status = "RETURNED"] ELSE item[i]
      BY <2>3 DEF EndCommit
    <3>2. \A i \in Items : item'[i].asset = item[i].asset
                           /\ item'[i].status = IF i \in req[w].seen THEN "RETURNED" ELSE item[i].status
      BY <1>00, <3>1 DEF Row
    <3>3. \A b \in Assets : asset'[b] = IF \E i \in req[w].seen : item[i].asset = b THEN "AVAILABLE" ELSE asset[b]
      BY <2>3 DEF EndCommit
    <3>4. \A i \in req[w].seen : item[i].status = "ACTIVE"
      BY <2>0, <2>00, <2>3 DEF EndCommit, StillHolds
    <3>5. /\ \A i \in req[w].seen : item'[i].status # "ACTIVE"
          /\ \A i \in Items \ req[w].seen : item'[i].asset = item[i].asset
                                            /\ (item'[i].status = "ACTIVE" <=> item[i].status = "ACTIVE")
      BY <2>00, <3>2
    <3>. QED BY <1>0, <2>00, <3>3, <3>4, <3>5, FreedAreFree
  <2>4. CASE CancelCommit(w)
    <3>1. \A i \in Items : item'[i] = IF i \in req[w].scan /\ item[i].status \in Open
                                      THEN [item[i] EXCEPT !.status = "CANCELED"] ELSE item[i]
      BY <2>4 DEF CancelCommit
    <3>2. \A i \in Items :
             /\ item'[i].asset = item[i].asset
             /\ item'[i].status = IF i \in req[w].scan /\ item[i].status \in Open THEN "CANCELED" ELSE item[i].status
      BY <1>00, <3>1 DEF Row
    <3>3. \A b \in Assets : asset'[b] = IF \E i \in req[w].seen : item[i].asset = b THEN "AVAILABLE" ELSE asset[b]
      BY <2>4 DEF CancelCommit, AtStep, LockedBy
    <3>4. /\ \A i \in Items : i \in req[w].seen <=> item[i].contract = req[w].c /\ item[i].status = "ACTIVE"
          /\ \A i \in Items : i \in req[w].scan <=> item[i].contract = req[w].c /\ item[i].status \in Open
      BY <2>0, <2>4 DEF CancelCommit, AtStep, StillHolds
    <3>5. /\ \A i \in req[w].seen : item[i].status = "ACTIVE" /\ item'[i].status # "ACTIVE"
          /\ \A i \in Items \ req[w].seen : item'[i].status = "ACTIVE" <=> item[i].status = "ACTIVE"
      BY <2>00, <3>2, <3>4 DEF Open
    <3>. QED BY <1>0, <2>00, <3>2, <3>3, <3>5, FreedAreFree
  <2>5. CASE AddItemCommit(w)
    <3>1. asset' = asset /\ \A i \in Items : item'[i] = item[i] \/ (item[i].status = "NONE" /\ item'[i].status = "PENDING")
      BY <1>00, <2>5 DEF AddItemCommit, assetVars, FreeItems
    <3>. QED BY <1>3, <3>1
  <2>6. CASE RemoveItemCommit(w)
    <3>0. item' = [item EXCEPT ![req[w].i].status = "DELETED"] /\ asset' = asset
      BY <2>6 DEF RemoveItemCommit, assetVars
    <3>1. \A i \in Items : item'[i] = item[i] \/ (i = req[w].i /\ item'[i] = [item[i] EXCEPT !.status = "DELETED"])
      BY <1>00, <3>0
    <3>2. \A i \in Items : [item[i] EXCEPT !.status = "DELETED"].status = "DELETED"
      BY <1>00 DEF Row
    <3>3. item[req[w].i].status = "PENDING"
      BY <2>0, <2>6 DEF RemoveItemCommit, StillHolds
    <3>. QED BY <1>3, <3>0, <3>1, <3>2, <3>3
  <2>7. CASE ReplaceCommit(w)
    <3> DEFINE old == req[w].i
               from == item[old].asset
               to == req[w].a
    <3>0. PICK new \in FreeItems :
             item' = [item EXCEPT ![old].status = "REPLACED",
                                  ![new] = [status |-> "ACTIVE", contract |-> req[w].c, asset |-> to]]
      BY <2>7 DEF ReplaceCommit
    <3>1. old \in Items /\ item[old].status = "ACTIVE"
      BY <2>0, <2>7 DEF ReplaceCommit, AtStep, StillHolds
    <3>2. \A j \in Items : item[j].asset = to => item[j].status # "ACTIVE"
      BY <2>7 DEF ReplaceCommit
    <3>3. asset' = [[asset EXCEPT ![from] = "AVAILABLE"] EXCEPT ![to] = "RENTED"]
      BY <2>7 DEF ReplaceCommit
    <3> HIDE DEF old, from, to
    <3>4. asset'[a] = IF a = to THEN "RENTED" ELSE IF a = from THEN "AVAILABLE" ELSE asset[a]
      BY <1>0, <3>3
    <3>5. /\ new \in Items /\ new # old /\ item[new].status = "NONE"
          /\ item'[new].status = "ACTIVE" /\ item'[new].asset = to
      BY <1>00, <3>0, <3>1 DEF FreeItems
    <3>6. item'[old] = [item[old] EXCEPT !.status = "REPLACED"]
      BY <1>00, <3>0, <3>1, <3>5
    <3>7. item'[old].status = "REPLACED"
      BY <1>00, <3>1, <3>6 DEF Row
    <3>8. \A i \in Items \ {old, new} : item'[i] = item[i]
      BY <1>00, <3>0
    <3>9. CASE a = to
      BY <3>4, <3>5, <3>9 DEF Held
    <3>10. CASE a # to /\ a = from
      <4>1. \A j \in Items \ {old} : item[j].status = "ACTIVE" => item[j].asset # a
        BY <3>1, <3>10 DEF from, OneActiveItemPerAsset
      <4>. QED BY <3>4, <3>5, <3>7, <3>8, <3>10, <4>1 DEF Held
    <3>11. CASE a # to /\ a # from
      <4>1. item[old].asset # a
        BY <3>11 DEF from
      <4>2. asset'[a] = asset[a]
        BY <3>4, <3>11
      <4>3. \A i \in Items : (item'[i].status = "ACTIVE" /\ item'[i].asset = a)
                               <=> (item[i].status = "ACTIVE" /\ item[i].asset = a)
        BY <3>5, <3>7, <3>8, <3>11, <4>1
      <4>. QED BY <1>1, <4>2, <4>3 DEF Held
    <3>. QED BY <3>9, <3>10, <3>11
  <2>8. CASE ReturnCommit(w)
    <3> DEFINE i0 == req[w].i
    <3>0. item' = [item EXCEPT ![i0].status = "RETURNED"] /\ asset' = [asset EXCEPT ![item[i0].asset] = "AVAILABLE"]
      BY <2>8 DEF ReturnCommit
    <3>1. i0 \in Items /\ item[i0].status = "ACTIVE"
      BY <2>0, <2>8 DEF ReturnCommit, AtStep, StillHolds
    <3> HIDE DEF i0
    <3>2. item'[i0] = [item[i0] EXCEPT !.status = "RETURNED"] /\ \A i \in Items \ {i0} : item'[i] = item[i]
      BY <1>00, <3>0, <3>1
    <3>3. item'[i0].status = "RETURNED"
      BY <1>00, <3>1, <3>2 DEF Row
    <3>4. \A b \in Assets : asset'[b] = IF \E i \in {i0} : item[i].asset = b THEN "AVAILABLE" ELSE asset[b]
      BY <1>0, <3>0
    <3>5. {i0} \in SUBSET Items /\ \A i \in {i0} : item[i].status = "ACTIVE" /\ item'[i].status # "ACTIVE"
      BY <3>1, <3>3
    <3>6. \A i \in Items \ {i0} : item'[i].asset = item[i].asset
                                 /\ (item'[i].status = "ACTIVE" <=> item[i].status = "ACTIVE")
      BY <3>2
    <3>. QED BY <1>0, <3>4, <3>5, <3>6, FreedAreFree
  <2>9. CASE \E c \in Contracts : CancelOrder(w, c)
    BY <1>2, <2>9 DEF CancelOrder, assetVars
  <2>. QED BY <1>4, <2>1, <2>2, <2>3, <2>4, <2>5, <2>6, <2>7, <2>8, <2>9 DEF Writes
<1>. QED BY <1>2, <1>4, AssetSteps

\* While requests for one contract do not overlap and nobody sets an asset's status by
\* hand, an asset is RENTED exactly while an item holds it, whatever requests for other
\* contracts do to the same assets in between.
THEOREM RentedExactlyWhenHeld ==
    ASSUME Overlap = "perContract", ManualTargets = {} PROVE Spec => []RentedIffHeld
<1>1. Init => NoneByHand
  BY DEF Init, NoneByHand, Idle
<1>2. Init => RentedIffHeld
  BY DEF Init, RentedIffHeld, NoItem
<1>3. TypeOK /\ NoneByHand /\ [Next]_vars => NoneByHand'
  BY NoneByHandStep
<1>4. Isolated /\ OneActiveItemPerAsset /\ RentedIffHeld /\ NoneByHand /\ [Next]_vars => RentedIffHeld'
  BY RentedIffHeldStep
<1>5. Spec => []TypeOK /\ []Isolated /\ []OneActiveItemPerAsset
  BY TypeCorrect, StaysWhole, OneTenant, PTL
<1>. QED BY <1>1, <1>2, <1>3, <1>4, <1>5, PTL DEF Spec
=============================================================================
