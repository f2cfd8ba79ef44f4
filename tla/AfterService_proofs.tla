-------------------------- MODULE AfterService_proofs --------------------------
(***************************************************************************)
(* Theorems about AfterService, for any rows and any number of operations  *)
(* handled at a time.                                                      *)
(***************************************************************************)
EXTENDS AfterService, FiniteSetTheorems, TLAPS

InquiryType == [status : InquiryStatus \cup {"NONE"}, deleted : BOOLEAN, isWarranty : BOOLEAN,
                asset : Assets \cup {None}, schedule : Schedules \cup {None}]
VisitType == [status : VisitStatus \cup {"NONE"}, inquiry : Inquiries \cup {None},
              requiresFollowUp : BOOLEAN]
EventType == [from : AssetStatus, to : AssetStatus] \cup {NoEvent}

InquiryOps == {"addVisit", "editInquiry", "setInquiry", "removeInquiry"}
VisitOps == {"completeVisit", "cancelVisit"}
Holding == {"updated", "counted"}   \* a transaction that has updated its visit

-----------------------------------------------------------------------------
(* Shape.  A request keeps rows that are there, and stay there.             *)

Fits(r) ==
    /\ r.op \in InquiryOps => r.i \in Inquiries
    /\ r.op = "setInquiry" => r.to \in InquiryStatus /\ r.seen \in InquiryStatus
    /\ r.op = "cancelVisit" => r.i \in Inquiries
    /\ r.op \in VisitOps /\ r.at \in Holding \cup {"start"} => r.v \in Visits
    /\ r.at \in Holding => r.op \in VisitOps /\ r.i \in Inquiries
    /\ r.at \in {"committed", "asset"} => r.op = "completeVisit" /\ r.a \in Assets /\ r.to \in AssetStatus
    /\ r.at = "asset" => r.seen \in AssetStatus

\* The rows a request is about are there.
There(w) ==
    /\ req[w].op \in VisitOps /\ req[w].at \in Holding \cup {"start"} => visit[req[w].v].status # "NONE"
    /\ req[w].op \in InquiryOps \/ req[w].op = "cancelVisit" \/ req[w].at \in Holding
         => inquiry[req[w].i].status # "NONE"

\* While a transaction holds its visit, the visit does not close as the transaction would not have it.
Held(w) ==
    req[w].at \in Holding =>
        visit[req[w].v].status # (IF req[w].op = "completeVisit" THEN "CANCELED" ELSE "COMPLETED")

Good(w) == Fits(req[w]) /\ There(w) /\ Held(w)

\* A visit belongs to a request, a request to a piece of equipment.
RowsKnown ==
    /\ \A v \in Visits : visit[v].status # "NONE" =>
          visit[v].inquiry \in Inquiries /\ inquiry[visit[v].inquiry].status # "NONE"
    /\ \A i \in Inquiries : inquiry[i].status # "NONE" => inquiry[i].asset \in Assets

\* No two transactions hold one visit.
Exclusive ==
    \A u, w \in Clients :
        u # w /\ req[u].at \in Holding /\ req[w].at \in Holding => req[u].v # req[w].v

Sound == TypeOK /\ RowsKnown /\ (\A w \in Clients : Good(w)) /\ Exclusive

LEMMA Values ==
    /\ Idle \in Request /\ Idle.op = "idle" /\ Idle.at = "start"
    /\ NoInquiry \in InquiryType /\ NoInquiry.status = "NONE"
    /\ NoVisit \in VisitType /\ NoVisit.status = "NONE"
    /\ NoEvent \in EventType
BY DEF Idle, Request, OperationKinds, NoInquiry, InquiryType, InquiryStatus, NoVisit, VisitType, VisitStatus,
       EventType

\* The tables and requests, named one by one.
LEMMA TypeParts ==
    TypeOK <=> /\ inquiry \in [Inquiries -> InquiryType]
               /\ visit \in [Visits -> VisitType]
               /\ fees \in [Visits -> Nat]
               /\ inspection \in [Schedules -> Visits \cup {None}]
               /\ asset \in [Assets -> AssetStatus]
               /\ event \in [Assets -> EventType]
               /\ req \in [Clients -> Request]
               /\ hand \in [Inquiries -> {"no", "page", "api"}]
               /\ overlap \in {"none", "completions", "any"}
               /\ left \in 0..MaxOverlapping
BY DEF TypeOK, InquiryType, VisitType, EventType

LEMMA TypePartsNext ==
    TypeOK' <=> /\ inquiry' \in [Inquiries -> InquiryType]
                /\ visit' \in [Visits -> VisitType]
                /\ fees' \in [Visits -> Nat]
                /\ inspection' \in [Schedules -> Visits \cup {None}]
                /\ asset' \in [Assets -> AssetStatus]
                /\ event' \in [Assets -> EventType]
                /\ req' \in [Clients -> Request]
                /\ hand' \in [Inquiries -> {"no", "page", "api"}]
                /\ overlap' \in {"none", "completions", "any"}
                /\ left' \in 0..MaxOverlapping
BY DEF TypeOK, InquiryType, VisitType, EventType

LEMMA InitSound == Init => Sound
<1> SUFFICES ASSUME Init PROVE Sound
  OBVIOUS
<1>1. inquiry \in [Inquiries -> InquiryType] /\ visit \in [Visits -> VisitType]
  BY Values DEF Init
<1>2. asset \in [Assets -> AssetStatus] /\ event \in [Assets -> EventType]
  BY Values DEF Init, AssetStatus
<1>3. left \in 0..MaxOverlapping
  BY ConstantsAssumption DEF Init, ConstantsAssumption
<1>4. fees \in [Visits -> Nat] /\ inspection \in [Schedules -> Visits \cup {None}] /\ req \in [Clients -> Request]
      /\ hand \in [Inquiries -> {"no", "page", "api"}] /\ overlap \in {"none", "completions", "any"}
  BY Values DEF Init
<1>5. TypeOK
  BY <1>1, <1>2, <1>3, <1>4, TypeParts
<1>6. RowsKnown
  BY Values DEF Init, RowsKnown
<1>7. (\A w \in Clients : Good(w)) /\ Exclusive
  BY Values DEF Init, Good, Fits, There, Held, Exclusive, InquiryOps, VisitOps, Holding
<1>. QED BY <1>5, <1>6, <1>7 DEF Sound

\* A request that goes on as it was, about rows that stay.
LEMMA GoodKept ==
    ASSUME NEW w, Good(w), req'[w] = req[w],
           \A i \in Inquiries : inquiry[i].status # "NONE" => inquiry'[i].status # "NONE",
           \A v \in Visits : visit[v].status # "NONE" => visit'[v].status # "NONE",
           req[w].at \in Holding => visit'[req[w].v].status = visit[req[w].v].status
    PROVE  Good(w)'
BY DEF Good, Fits, There, Held, InquiryOps, VisitOps, Holding

LEMMA IdleGood == ASSUME NEW w, req'[w] = Idle PROVE Good(w)'
BY Values DEF Good, Fits, There, Held, InquiryOps, VisitOps, Holding

\* One request goes on or ends, the others stay as they are.
LEMMA OneSound ==
    ASSUME Sound, TypeOK', RowsKnown', NEW w \in Clients, Good(w)', \A u \in Clients \ {w} : req'[u] = req[u],
           \A i \in Inquiries : inquiry[i].status # "NONE" => inquiry'[i].status # "NONE",
           \A v \in Visits : visit[v].status # "NONE" => visit'[v].status # "NONE",
           \A u \in Clients \ {w} : req[u].at \in Holding => visit'[req[u].v].status = visit[req[u].v].status,
           req'[w].at \in Holding =>
              \A u \in Clients \ {w} : req[u].at \in Holding => req[u].v # req'[w].v
    PROVE  Sound'
<1>1. ASSUME NEW u \in Clients PROVE Good(u)'
  <2>1. CASE u = w
    BY <2>1
  <2>2. CASE u # w
    BY <2>2, GoodKept DEF Sound
  <2>. QED BY <2>1, <2>2
<1>2. Exclusive'
  <2> SUFFICES ASSUME NEW u \in Clients, NEW x \in Clients, u # x, req'[u].at \in Holding, req'[x].at \in Holding
               PROVE  req'[u].v # req'[x].v
    BY DEF Exclusive
  <2>1. CASE u = w
    BY <2>1
  <2>2. CASE x = w
    BY <2>2
  <2>3. CASE u # w /\ x # w
    BY <2>3 DEF Sound, Exclusive
  <2>. QED BY <2>1, <2>2, <2>3
<1>. QED BY <1>1, <1>2 DEF Sound

LEMMA Finished ==
    ASSUME TypeOK, NEW w \in Clients, Finish(w)
    PROVE  /\ req' \in [Clients -> Request] /\ UNCHANGED <<overlap, left>>
           /\ req'[w] = Idle /\ \A u \in Clients \ {w} : req'[u] = req[u]
           /\ Good(w)' /\ req'[w].at \notin Holding
<1>1. req' = [req EXCEPT ![w] = Idle] /\ req \in [Clients -> Request] /\ UNCHANGED <<overlap, left>>
  BY TypeParts DEF Finish
<1>2. req' \in [Clients -> Request] /\ req'[w] = Idle /\ \A u \in Clients \ {w} : req'[u] = req[u]
  BY <1>1, Values
<1>. QED BY <1>1, <1>2, IdleGood, Values DEF Holding

LEMMA Kept ==
    ASSUME TypeOK, NEW w \in Clients, NEW r \in Request, Keep(w, r)
    PROVE  /\ TypeOK' /\ UNCHANGED rows
           /\ req'[w] = r /\ \A u \in Clients \ {w} : req'[u] = req[u]
<1>1. req' = [req EXCEPT ![w] = r] /\ req \in [Clients -> Request] /\ UNCHANGED rows /\ UNCHANGED <<overlap, left>>
  BY TypeParts DEF Keep
<1>2. req' \in [Clients -> Request] /\ req'[w] = r /\ \A u \in Clients \ {w} : req'[u] = req[u]
  BY <1>1
<1>3. TypeOK'
  BY <1>1, <1>2, TypeParts, TypePartsNext DEF rows
<1>. QED BY <1>1, <1>2, <1>3

\* The tables stay as they are.
LEMMA RowsSound ==
    ASSUME Sound, TypeOK', UNCHANGED <<inquiry, visit>>, NEW w \in Clients, Good(w)',
           \A u \in Clients \ {w} : req'[u] = req[u],
           req'[w].at \in Holding =>
              \A u \in Clients \ {w} : req[u].at \in Holding => req[u].v # req'[w].v
    PROVE  Sound'
<1>1. RowsKnown'
  BY DEF Sound, RowsKnown
<1>. QED BY <1>1, OneSound

-----------------------------------------------------------------------------
(* Beginnings. *)

\* What a request remembers when it begins.
Begun(r) ==
    /\ r \in Request /\ Fits(r) /\ r.op # "idle" /\ r.at = "start"
    /\ r.op \in VisitOps => visit[r.v].status # "NONE"
    /\ r.op = "completeVisit" => visit[r.v].status \notin Closed
    /\ r.op \in InquiryOps \cup {"cancelVisit"} => inquiry[r.i].status # "NONE"
    /\ r.op = "addVisit" => r.seen = inquiry[r.i].status /\ r.seen \notin Closed
    /\ r.op = "cancelVisit" => r.i = visit[r.v].inquiry

LEMMA Beginning ==
    ASSUME Sound, NEW w \in Clients, Begin(w)
    PROVE  \E r : Begun(r) /\ Remember(w, r)
<1>0. inquiry \in [Inquiries -> InquiryType] /\ visit \in [Visits -> VisitType] /\ RowsKnown
  BY TypeParts DEF Sound
<1> USE DEF Begun, Fits, InquiryOps, VisitOps, Holding
<1>1. ASSUME NEW i \in Inquiries, AddVisitBegin(w, i) PROVE \E r : Begun(r) /\ Remember(w, r)
  <2> DEFINE r == [Idle EXCEPT !.op = "addVisit", !.i = i, !.seen = inquiry[i].status]
  <2>1. r \in Request /\ r.op = "addVisit" /\ r.i = i /\ r.at = "start" /\ r.seen = inquiry[i].status
    BY <1>0 DEF Idle, Request, OperationKinds, InquiryType, Holding
  <2>2. Remember(w, r) /\ inquiry[i].status \notin Closed \cup {"NONE"}
    BY <1>1 DEF AddVisitBegin
  <2> HIDE DEF r
  <2>. QED BY <2>1, <2>2
<1>2. ASSUME NEW i \in Inquiries, NEW op \in Operations, EditInquiryBegin(w, i, op)
      PROVE  \E r : Begun(r) /\ Remember(w, r)
  <2>1. PICK to \in IF op = "setInquiry" THEN InquiryStatus ELSE {"NONE"} :
               Remember(w, [Idle EXCEPT !.op = op, !.i = i, !.to = to,
                               !.seen = IF op = "setInquiry" THEN inquiry[i].status ELSE "NONE"])
    BY <1>2 DEF EditInquiryBegin
  <2> DEFINE r == [Idle EXCEPT !.op = op, !.i = i, !.to = to,
                               !.seen = IF op = "setInquiry" THEN inquiry[i].status ELSE "NONE"]
  <2>2. op \in {"editInquiry", "setInquiry", "removeInquiry"} /\ inquiry[i].status # "NONE"
    BY <1>2 DEF EditInquiryBegin
  <2>3. /\ r \in Request /\ r.op = op /\ r.i = i /\ r.at = "start" /\ r.to = to
        /\ op = "setInquiry" => to \in InquiryStatus /\ r.seen \in InquiryStatus
    BY <1>0, <2>2 DEF Idle, Request, OperationKinds, InquiryType, Holding
  <2>4. Remember(w, r)
    BY <2>1
  <2> HIDE DEF r
  <2>. QED BY <2>2, <2>3, <2>4
<1>3. ASSUME NEW v \in Visits, CompleteBegin(w, v) PROVE \E r : Begun(r) /\ Remember(w, r)
  <2> DEFINE r == [Idle EXCEPT !.op = "completeVisit", !.v = v]
  <2>1. r \in Request /\ r.op = "completeVisit" /\ r.v = v /\ r.at = "start"
    BY DEF Idle, Request, OperationKinds, Holding
  <2>2. Remember(w, r) /\ visit[v].status \notin Closed \cup {"NONE"}
    BY <1>3 DEF CompleteBegin, MayComplete
  <2> HIDE DEF r
  <2>. QED BY <2>1, <2>2
<1>4. ASSUME NEW v \in Visits, CancelBegin(w, v) PROVE \E r : Begun(r) /\ Remember(w, r)
  <2> DEFINE r == [Idle EXCEPT !.op = "cancelVisit", !.v = v, !.i = visit[v].inquiry]
  <2>1. Remember(w, r) /\ visit[v].status # "NONE"
    BY <1>4 DEF CancelBegin
  <2>2. visit[v].inquiry \in Inquiries /\ inquiry[visit[v].inquiry].status # "NONE"
    BY <1>0, <2>1 DEF RowsKnown
  <2>3. r \in Request /\ r.op = "cancelVisit" /\ r.v = v /\ r.at = "start" /\ r.i = visit[v].inquiry
    BY <2>2 DEF Idle, Request, OperationKinds, Holding
  <2> HIDE DEF r
  <2>. QED BY <2>1, <2>2, <2>3
<1>. QED BY <1>1, <1>2, <1>3, <1>4 DEF Begin

LEMMA Remembered ==
    ASSUME TypeOK, NEW w \in Clients, NEW r \in Request, Remember(w, r)
    PROVE  /\ TypeOK' /\ UNCHANGED rows
           /\ req'[w] = r /\ \A u \in Clients \ {w} : req'[u] = req[u]
<1>1. req' = [req EXCEPT ![w] = r] /\ req \in [Clients -> Request] /\ UNCHANGED rows
  BY TypeParts DEF Remember
<1>2. req' \in [Clients -> Request] /\ req'[w] = r /\ \A u \in Clients \ {w} : req'[u] = req[u]
  BY <1>1
<1>3. overlap' \in {"none", "completions", "any"}
  BY TypeParts DEF Remember
<1>4. left' \in 0..MaxOverlapping
  BY TypeParts, ConstantsAssumption DEF Remember, ConstantsAssumption
<1>5. TypeOK'
  BY <1>1, <1>2, <1>3, <1>4, TypeParts, TypePartsNext DEF rows
<1>. QED BY <1>1, <1>2, <1>5

LEMMA BeginSound == ASSUME Sound, NEW w \in Clients, Begin(w) PROVE Sound' /\ UNCHANGED rows
<1>1. PICK r : Begun(r) /\ Remember(w, r)
  BY Beginning
<1>2. /\ TypeOK' /\ UNCHANGED rows
      /\ req'[w] = r /\ \A u \in Clients \ {w} : req'[u] = req[u]
  BY <1>1, Remembered DEF Sound, Begun
<1>3. Good(w)'
  BY <1>1, <1>2 DEF Begun, Good, There, Held, rows, VisitOps, Holding, InquiryOps
<1>. QED BY <1>1, <1>2, <1>3, RowsSound DEF rows, Begun, Holding

-----------------------------------------------------------------------------
(* Requests. *)

\* What may become of a row, whoever writes it.
InquiryStays(i) ==
    /\ inquiry[i].status # "NONE" => inquiry'[i].status # "NONE" /\ inquiry'[i].asset = inquiry[i].asset
    /\ inquiry[i].status \in Closed => inquiry'[i].status = inquiry[i].status
VisitStays(v) ==
    /\ visit[v].status # "NONE" => visit'[v].status # "NONE" /\ visit'[v].inquiry = visit[v].inquiry
    /\ visit[v].status \in Closed => visit'[v].status = visit[v].status
Stays == (\A i \in Inquiries : InquiryStays(i)) /\ (\A v \in Visits : VisitStays(v))

LEMMA CreateInquirySound == ASSUME Sound, NEW i \in Inquiries, CreateInquiry(i) PROVE Sound' /\ Stays
<1>1. PICK isWarranty \in BOOLEAN, a \in Assets, s \in Schedules \cup {None} :
            inquiry' = [inquiry EXCEPT ![i] = [status |-> "RECEIVED", deleted |-> FALSE,
                                               isWarranty |-> isWarranty, asset |-> a, schedule |-> s]]
  BY DEF CreateInquiry
<1>2. inquiry[i].status = "NONE" /\ UNCHANGED <<visit, fees, inspection, asset, event, hand, req, overlap, left>>
  BY Values DEF CreateInquiry
<1>3. inquiry \in [Inquiries -> InquiryType] /\ visit \in [Visits -> VisitType]
  BY TypeParts DEF Sound
<1>4. [status |-> "RECEIVED", deleted |-> FALSE, isWarranty |-> isWarranty, asset |-> a, schedule |-> s] \in InquiryType
  BY DEF InquiryType, InquiryStatus
<1>5. /\ inquiry' \in [Inquiries -> InquiryType] /\ inquiry'[i].status = "RECEIVED" /\ inquiry'[i].asset \in Assets
      /\ \A j \in Inquiries : j # i => inquiry'[j] = inquiry[j]
  BY <1>1, <1>3, <1>4
<1>6. TypeOK'
  BY <1>2, <1>5, TypeParts, TypePartsNext DEF Sound
<1>7. Stays
  BY <1>2, <1>5 DEF Stays, InquiryStays, VisitStays, Closed
<1>8. RowsKnown'
  BY <1>2, <1>5 DEF Sound, RowsKnown
<1>9. ASSUME NEW w \in Clients PROVE Good(w)'
  BY <1>2, <1>5, GoodKept DEF Sound
<1>10. Exclusive'
  BY <1>2 DEF Sound, Exclusive
<1>. QED BY <1>6, <1>7, <1>8, <1>9, <1>10 DEF Sound

\* A closed request takes no other status.
LEMMA ClosedInquiry == ASSUME NEW from \in Closed, NEW to, MayBecome(InquiryMoves, from, to) PROVE to = from
BY DEF Closed, MayBecome, InquiryMoves

LEMMA InquirySound ==
    ASSUME Sound, NEW w \in Clients, EditInquiryCommit(w) \/ SetInquiryCommit(w) \/ RemoveInquiryCommit(w)
    PROVE  Sound' /\ Stays
<1> DEFINE i == req[w].i
<1>0. /\ inquiry \in [Inquiries -> InquiryType] /\ i \in Inquiries /\ inquiry[i].status # "NONE"
      /\ TypeOK /\ hand \in [Inquiries -> {"no", "page", "api"}]
  BY TypeParts DEF Sound, Good, Fits, There, EditInquiryCommit, SetInquiryCommit, RemoveInquiryCommit, InquiryOps
<1>1. Finish(w) /\ UNCHANGED <<visit, fees, inspection, asset, event>>
  BY DEF EditInquiryCommit, SetInquiryCommit, RemoveInquiryCommit
<1>2. /\ inquiry' \in [Inquiries -> InquiryType] /\ InquiryStays(i) /\ inquiry'[i].status # "NONE"
      /\ \A j \in Inquiries : j # i => inquiry'[j] = inquiry[j]
      /\ hand' \in [Inquiries -> {"no", "page", "api"}]
  <2>1. CASE EditInquiryCommit(w)
    <3>1. PICK isWarranty \in BOOLEAN : inquiry' = [inquiry EXCEPT ![i].isWarranty = isWarranty]
      BY <2>1 DEF EditInquiryCommit
    <3>2. hand' = hand
      BY <2>1 DEF EditInquiryCommit
    <3> HIDE DEF i
    <3>. QED BY <1>0, <3>1, <3>2 DEF InquiryType, InquiryStays
  <2>2. CASE SetInquiryCommit(w)
    <3>1. /\ inquiry' = [inquiry EXCEPT ![i].status = req[w].to]
          /\ MayBecome(InquiryMoves, inquiry[i].status, req[w].to)
          /\ \E by \in {"page", "api"} : hand' = [hand EXCEPT ![i] = by]
      BY <2>2 DEF SetInquiryCommit
    <3>2. req[w].to \in InquiryStatus
      BY <2>2 DEF SetInquiryCommit, Sound, Good, Fits
    <3> HIDE DEF i
    <3>3. inquiry' \in [Inquiries -> InquiryType] /\ inquiry'[i].status = req[w].to
          /\ inquiry'[i].asset = inquiry[i].asset /\ \A j \in Inquiries : j # i => inquiry'[j] = inquiry[j]
      BY <1>0, <3>1, <3>2 DEF InquiryType
    <3>4. req[w].to # "NONE"
      BY <3>2 DEF InquiryStatus
    <3>5. inquiry[i].status \in Closed => req[w].to = inquiry[i].status
      BY <3>1, ClosedInquiry
    <3>. QED BY <1>0, <3>1, <3>3, <3>4, <3>5 DEF InquiryStays
  <2>3. CASE RemoveInquiryCommit(w)
    <3>1. inquiry' = [inquiry EXCEPT ![i].deleted = TRUE] /\ hand' = hand
      BY <2>3 DEF RemoveInquiryCommit
    <3> HIDE DEF i
    <3>. QED BY <1>0, <3>1 DEF InquiryType, InquiryStays
  <2>. QED BY <2>1, <2>2, <2>3
<1> HIDE DEF i
<1>3. TypeOK'
  BY <1>0, <1>1, <1>2, Finished, TypeParts, TypePartsNext
<1>4. Stays
  BY <1>1, <1>2 DEF Stays, InquiryStays, VisitStays
<1>5. RowsKnown'
  BY <1>0, <1>1, <1>2 DEF Sound, RowsKnown, InquiryStays
<1>6. Sound'
  BY <1>0, <1>1, <1>3, <1>4, <1>5, Finished, OneSound DEF Stays, InquiryStays
<1>. QED BY <1>4, <1>6

LEMMA AddVisitSound == ASSUME Sound, NEW w \in Clients, NEW v \in Visits, AddVisitCommit(w, v) PROVE Sound' /\ Stays
<1> DEFINE i == req[w].i
<1>0. /\ inquiry \in [Inquiries -> InquiryType] /\ i \in Inquiries /\ inquiry[i].status # "NONE"
      /\ TypeOK /\ visit \in [Visits -> VisitType]
  BY TypeParts DEF Sound, Good, Fits, There, AddVisitCommit, InquiryOps
<1>1. /\ Finish(w) /\ UNCHANGED <<fees, inspection, asset, event, hand>> /\ visit[v].status = "NONE"
      /\ visit' = [visit EXCEPT ![v] = [status |-> "SCHEDULED", inquiry |-> i, requiresFollowUp |-> FALSE]]
      /\ \/ UNCHANGED inquiry
         \/ /\ MayBecome(InquiryMoves, inquiry[i].status, "SCHEDULED")
            /\ inquiry' = [inquiry EXCEPT ![i].status = "SCHEDULED"]
  BY Values DEF AddVisitCommit
<1> HIDE DEF i
<1>2. /\ inquiry' \in [Inquiries -> InquiryType] /\ InquiryStays(i) /\ inquiry'[i].status # "NONE"
      /\ \A j \in Inquiries : j # i => inquiry'[j] = inquiry[j]
  <2>1. CASE UNCHANGED inquiry
    BY <1>0, <2>1 DEF InquiryStays
  <2>2. CASE /\ MayBecome(InquiryMoves, inquiry[i].status, "SCHEDULED")
             /\ inquiry' = [inquiry EXCEPT ![i].status = "SCHEDULED"]
    <3>1. inquiry[i].status \notin Closed
      BY <2>2, ClosedInquiry DEF Closed
    <3>. QED BY <1>0, <2>2, <3>1 DEF InquiryType, InquiryStatus, InquiryStays
  <2>. QED BY <1>1, <2>1, <2>2
<1>3. /\ visit' \in [Visits -> VisitType] /\ visit'[v].inquiry = i
      /\ \A x \in Visits : x # v => visit'[x] = visit[x]
      /\ visit'[v].status # "NONE"
  <2>1. [status |-> "SCHEDULED", inquiry |-> i, requiresFollowUp |-> FALSE] \in VisitType
    BY <1>0 DEF VisitType, VisitStatus
  <2>. QED BY <1>0, <1>1, <2>1
<1>4. TypeOK'
  BY <1>0, <1>1, <1>2, <1>3, Finished, TypeParts, TypePartsNext
<1>5. Stays
  BY <1>1, <1>2, <1>3 DEF Stays, InquiryStays, VisitStays, Closed
<1>6. RowsKnown'
  BY <1>0, <1>1, <1>2, <1>3 DEF Sound, RowsKnown, InquiryStays
<1>7. \A u \in Clients : req[u].at \in Holding => visit'[req[u].v].status = visit[req[u].v].status
  BY <1>1, <1>3 DEF Sound, Good, Fits, There, VisitOps, Holding
<1>8. Sound'
  BY <1>0, <1>1, <1>4, <1>5, <1>6, <1>7, Finished, OneSound DEF Stays, InquiryStays, VisitStays
<1>. QED BY <1>5, <1>8

-----------------------------------------------------------------------------
(* Visits. *)

LEMMA HoldSound ==
    ASSUME Sound, NEW w \in Clients, CompleteVisit(w) \/ CancelVisit(w)
    PROVE  Sound' /\ UNCHANGED rows
<1> DEFINE v == req[w].v
<1>0. /\ inquiry \in [Inquiries -> InquiryType] /\ visit \in [Visits -> VisitType] /\ TypeOK
      /\ req[w] \in Request /\ RowsKnown
      /\ v \in Visits /\ visit[v].status # "NONE" /\ req[w].op \in VisitOps
      /\ \A u \in Clients : req[u].at \in Holding => req[u].v # v
  BY TypeParts DEF Sound, CompleteVisit, CancelVisit, At, Good, Fits, There, VisitOps, VisitUnlocked, Holding
<1>1. CASE CompleteVisit(w)
  <2> DEFINE i == visit[v].inquiry
  <2> DEFINE r == [req[w] EXCEPT !.at = "updated", !.i = i, !.seen = inquiry[i].status, !.free = inquiry[i].isWarranty]
  <2>1. Keep(w, r) /\ MayBecome(VisitMoves, visit[v].status, "COMPLETED") /\ req[w].op = "completeVisit"
    BY <1>1 DEF CompleteVisit, At
  <2>2. i \in Inquiries /\ inquiry[i].status # "NONE"
    BY <1>0 DEF RowsKnown
  <2>3. visit[v].status # "CANCELED"
    BY <2>1 DEF MayBecome, VisitMoves
  <2> HIDE DEF i
  <2>4. r \in Request /\ r.op = "completeVisit" /\ r.at = "updated" /\ r.i = i /\ r.v = v
    BY <1>0, <2>1, <2>2 DEF Request, InquiryType
  <2> HIDE DEF r, v
  <2>5. TypeOK' /\ UNCHANGED rows /\ req'[w] = r /\ \A u \in Clients \ {w} : req'[u] = req[u]
    BY <1>0, <2>1, <2>4, Kept
  <2>6. Good(w)'
    BY <1>0, <2>2, <2>3, <2>4, <2>5 DEF Good, Fits, There, Held, InquiryOps, VisitOps, Holding, rows
  <2>7. Sound'
    BY <1>0, <2>4, <2>5, <2>6, RowsSound DEF rows
  <2>. QED BY <2>5, <2>7
<1>2. CASE CancelVisit(w)
  <2> DEFINE r == [req[w] EXCEPT !.at = "updated"]
  <2>1. Keep(w, r) /\ MayBecome(VisitMoves, visit[v].status, "CANCELED") /\ req[w].op = "cancelVisit"
    BY <1>2 DEF CancelVisit, At
  <2>2. req[w].i \in Inquiries /\ inquiry[req[w].i].status # "NONE"
    BY <2>1 DEF Sound, Good, Fits, There
  <2>3. visit[v].status # "COMPLETED"
    BY <2>1 DEF MayBecome, VisitMoves
  <2>4. r \in Request /\ r.op = "cancelVisit" /\ r.at = "updated" /\ r.i = req[w].i /\ r.v = v
    BY <1>0, <2>1 DEF Request
  <2> HIDE DEF r, v
  <2>5. TypeOK' /\ UNCHANGED rows /\ req'[w] = r /\ \A u \in Clients \ {w} : req'[u] = req[u]
    BY <1>0, <2>1, <2>4, Kept
  <2>6. Good(w)'
    BY <1>0, <2>2, <2>3, <2>4, <2>5 DEF Good, Fits, There, Held, InquiryOps, VisitOps, Holding, rows
  <2>7. Sound'
    BY <1>0, <2>4, <2>5, <2>6, RowsSound DEF rows
  <2>. QED BY <2>5, <2>7
<1>. QED BY <1>1, <1>2

LEMMA OpenCount == ASSUME NEW i, NEW v PROVE Cardinality(OpenVisits(i) \ {v}) \in Nat
<1>1. OpenVisits(i) \ {v} \subseteq Visits
  BY DEF OpenVisits, VisitsOf
<1>2. IsFiniteSet(OpenVisits(i) \ {v})
  BY <1>1, FS_Subset, ConstantsAssumption DEF ConstantsAssumption
<1>. QED BY <1>2, FS_CardinalityType

LEMMA CountSound ==
    ASSUME Sound, NEW w \in Clients, CompleteCount(w) \/ CancelCount(w)
    PROVE  Sound' /\ UNCHANGED rows
<1> DEFINE open == Cardinality(OpenVisits(req[w].i) \ {req[w].v})
<1> DEFINE r == [req[w] EXCEPT !.at = "counted", !.open = open]
<1>1. /\ TypeOK /\ req[w] \in Request /\ Keep(w, r) /\ req[w].at = "updated" /\ req[w].op \in VisitOps
      /\ Good(w)
  BY TypeParts DEF Sound, CompleteCount, CancelCount, At, VisitOps
<1>2. open \in Nat
  BY OpenCount
<1> HIDE DEF open
<1>3. r \in Request /\ r.at = "counted" /\ r.op = req[w].op /\ r.i = req[w].i /\ r.v = req[w].v
  BY <1>1, <1>2 DEF Request
<1> HIDE DEF r
<1>4. TypeOK' /\ UNCHANGED rows /\ req'[w] = r /\ \A u \in Clients \ {w} : req'[u] = req[u]
  BY <1>1, <1>3, Kept
<1>5. Good(w)'
  BY <1>1, <1>3, <1>4 DEF Good, Fits, There, Held, InquiryOps, VisitOps, Holding, rows
<1>6. \A u \in Clients \ {w} : req[u].at \in Holding => req[u].v # r.v
  BY <1>1, <1>3 DEF Sound, Exclusive, Holding
<1>7. Sound'
  BY <1>1, <1>3, <1>4, <1>5, <1>6, RowsSound DEF rows
<1>. QED BY <1>4, <1>7

\* The end of a transaction that holds its visit: no other holds it, and it is not closed
\* in another way.
LEMMA CompleteSound == ASSUME Sound, NEW w \in Clients, CompleteCommit(w) PROVE Sound' /\ Stays
<1> DEFINE v == req[w].v
<1> DEFINE i == req[w].i
<1>0. /\ inquiry \in [Inquiries -> InquiryType] /\ visit \in [Visits -> VisitType] /\ TypeOK /\ RowsKnown
      /\ req \in [Clients -> Request] /\ v \in Visits /\ i \in Inquiries
      /\ visit[v].status \notin {"NONE", "CANCELED"} /\ inquiry[i].status # "NONE"
      /\ \A u \in Clients \ {w} : req[u].at \in Holding => req[u].v # v
  <2>1. Good(w) /\ req[w].op = "completeVisit" /\ req[w].at \in Holding
    BY DEF Sound, CompleteCommit, At, Holding
  <2>. QED BY <2>1, TypeParts DEF Sound, Good, Fits, There, Held, VisitOps, Holding, Exclusive
<1>1. PICK followUp \in BOOLEAN, cost \in BOOLEAN, to \in AfterVisit \cup {"AVAILABLE"} :
         /\ visit' = [visit EXCEPT ![v].status = "COMPLETED", ![v].requiresFollowUp = followUp]
         /\ fees' = [fees EXCEPT ![v] = @ + IF cost /\ ~req[w].free THEN 1 ELSE 0]
         /\ inspection' = [s \in Schedules |-> IF s = ScheduleOf(v) THEN v ELSE inspection[s]]
         /\ \/ /\ MayBecome(InquiryMoves, inquiry[i].status, "COMPLETED")
               /\ inquiry' = [inquiry EXCEPT ![i].status = "COMPLETED"]
            \/ UNCHANGED inquiry
         /\ req' = [req EXCEPT ![w] = [Idle EXCEPT !.op = "completeVisit", !.at = "committed",
                                                   !.a = inquiry[i].asset, !.to = to]]
  BY DEF CompleteCommit
<1>2. UNCHANGED <<asset, event, hand, overlap, left>>
  BY DEF CompleteCommit
<1> HIDE DEF i, v
<1>3. /\ visit' \in [Visits -> VisitType] /\ visit'[v].status = "COMPLETED" /\ visit'[v].inquiry = visit[v].inquiry
      /\ \A x \in Visits : x # v => visit'[x] = visit[x]
  BY <1>0, <1>1 DEF VisitType, VisitStatus
<1>4. /\ inquiry' \in [Inquiries -> InquiryType] /\ InquiryStays(i) /\ inquiry'[i].status # "NONE"
      /\ \A j \in Inquiries : j # i => inquiry'[j] = inquiry[j]
  <2>1. CASE UNCHANGED inquiry
    BY <1>0, <2>1 DEF InquiryStays
  <2>2. CASE /\ MayBecome(InquiryMoves, inquiry[i].status, "COMPLETED")
             /\ inquiry' = [inquiry EXCEPT ![i].status = "COMPLETED"]
    <3>1. inquiry[i].status \in Closed => inquiry[i].status = "COMPLETED"
      BY <2>2, ClosedInquiry
    <3>. QED BY <1>0, <2>2, <3>1 DEF InquiryType, InquiryStatus, InquiryStays
  <2>. QED BY <1>1, <2>1, <2>2
<1>5. fees' \in [Visits -> Nat]
  <2>1. fees \in [Visits -> Nat]
    BY <1>0, TypeParts
  <2>2. PICK n \in {0, 1} : fees' = [fees EXCEPT ![v] = @ + n]
    BY <1>1
  <2>. QED BY <1>0, <2>1, <2>2
<1>6. inspection' \in [Schedules -> Visits \cup {None}]
  BY <1>0, <1>1, TypeParts
<1> DEFINE r == [Idle EXCEPT !.op = "completeVisit", !.at = "committed", !.a = inquiry[i].asset, !.to = to]
<1>7. inquiry[i].asset \in Assets /\ to \in AssetStatus
  BY <1>0, ConstantsAssumption DEF RowsKnown, ConstantsAssumption, AssetStatus
<1>8. /\ r \in Request /\ r.op = "completeVisit" /\ r.at = "committed" /\ r.a \in Assets /\ r.to \in AssetStatus
  BY <1>7 DEF Idle, Request, OperationKinds
<1>9. req' = [req EXCEPT ![w] = r]
  BY <1>1
<1> HIDE DEF r
<1>10. req' \in [Clients -> Request] /\ req'[w] = r /\ \A u \in Clients \ {w} : req'[u] = req[u]
  BY <1>0, <1>8, <1>9
<1>11. TypeOK'
  BY <1>0, <1>2, <1>3, <1>4, <1>5, <1>6, <1>10, TypeParts, TypePartsNext
<1>12. Stays
  BY <1>0, <1>3, <1>4 DEF Stays, InquiryStays, VisitStays, Closed
<1>13. RowsKnown'
  BY <1>0, <1>3, <1>4 DEF RowsKnown, InquiryStays
<1>14. Good(w)'
  BY <1>8, <1>10 DEF Good, Fits, There, Held, InquiryOps, VisitOps, Holding
<1>15. \A u \in Clients \ {w} : req[u].at \in Holding => visit'[req[u].v].status = visit[req[u].v].status
  <2>1. \A u \in Clients : req[u].at \in Holding => req[u].v \in Visits
    BY DEF Sound, Good, Fits, VisitOps, Holding
  <2>. QED BY <1>0, <1>3, <2>1
<1>16. Sound'
  BY <1>8, <1>10, <1>11, <1>12, <1>13, <1>14, <1>15, OneSound DEF Stays, InquiryStays, VisitStays, Holding
<1>. QED BY <1>12, <1>16

LEMMA CancelSound == ASSUME Sound, NEW w \in Clients, CancelCommit(w) PROVE Sound' /\ Stays
<1> DEFINE v == req[w].v
<1> DEFINE i == req[w].i
<1>0. /\ inquiry \in [Inquiries -> InquiryType] /\ visit \in [Visits -> VisitType] /\ TypeOK /\ RowsKnown
      /\ v \in Visits /\ i \in Inquiries
      /\ visit[v].status \notin {"NONE", "COMPLETED"} /\ inquiry[i].status # "NONE"
      /\ \A u \in Clients \ {w} : req[u].at \in Holding => req[u].v # v
  <2>1. Good(w) /\ req[w].op = "cancelVisit" /\ req[w].at \in Holding
    BY DEF Sound, CancelCommit, At, Holding
  <2>. QED BY <2>1, TypeParts DEF Sound, Good, Fits, There, Held, VisitOps, Holding, Exclusive
<1>1. /\ visit' = [visit EXCEPT ![v].status = "CANCELED"]
      /\ inquiry' = [inquiry EXCEPT ![i].status = IF req[w].open = 0 /\ @ = "SCHEDULED" THEN "RECEIVED" ELSE @]
      /\ Finish(w) /\ UNCHANGED <<fees, inspection, asset, event, hand>>
  BY DEF CancelCommit
<1> HIDE DEF i, v
<1>3. /\ visit' \in [Visits -> VisitType] /\ visit'[v].status = "CANCELED" /\ visit'[v].inquiry = visit[v].inquiry
      /\ \A x \in Visits : x # v => visit'[x] = visit[x]
  BY <1>0, <1>1 DEF VisitType, VisitStatus
<1>4. /\ inquiry' \in [Inquiries -> InquiryType] /\ InquiryStays(i) /\ inquiry'[i].status # "NONE"
      /\ \A j \in Inquiries : j # i => inquiry'[j] = inquiry[j]
  BY <1>0, <1>1 DEF InquiryType, InquiryStatus, InquiryStays, Closed
<1>5. TypeOK'
  BY <1>0, <1>1, <1>3, <1>4, Finished, TypeParts, TypePartsNext
<1>6. Stays
  BY <1>0, <1>3, <1>4 DEF Stays, InquiryStays, VisitStays, Closed
<1>7. RowsKnown'
  BY <1>0, <1>3, <1>4 DEF RowsKnown, InquiryStays
<1>8. \A u \in Clients \ {w} : req[u].at \in Holding => visit'[req[u].v].status = visit[req[u].v].status
  <2>1. \A u \in Clients : req[u].at \in Holding => req[u].v \in Visits
    BY DEF Sound, Good, Fits, VisitOps, Holding
  <2>. QED BY <1>0, <1>3, <2>1
<1>9. Sound'
  BY <1>0, <1>1, <1>5, <1>6, <1>7, <1>8, Finished, OneSound DEF Stays, InquiryStays, VisitStays
<1>. QED BY <1>6, <1>9

-----------------------------------------------------------------------------
(* Equipment, and requests that end. *)

LEMMA EquipmentSound ==
    ASSUME Sound, NEW w \in Clients, ReadAsset(w) \/ WriteAsset(w) \/ Abort(w)
    PROVE  Sound' /\ UNCHANGED <<inquiry, visit, fees, inspection>>
<1>0. TypeOK /\ asset \in [Assets -> AssetStatus] /\ event \in [Assets -> EventType] /\ req[w] \in Request
  BY TypeParts DEF Sound
<1>1. CASE Finish(w) /\ UNCHANGED rows
  <2>1. TypeOK'
    BY <1>0, <1>1, Finished, TypeParts, TypePartsNext DEF rows
  <2>. QED BY <1>0, <1>1, <2>1, Finished, RowsSound DEF rows
<1>2. CASE WriteAsset(w)
  <2> DEFINE a == req[w].a
  <2>1. a \in Assets /\ req[w].to \in AssetStatus /\ req[w].seen \in AssetStatus
    BY <1>2 DEF WriteAsset, Sound, Good, Fits
  <2>2. /\ asset' = [asset EXCEPT ![a] = req[w].to]
        /\ event' = [event EXCEPT ![a] = [from |-> req[w].seen, to |-> req[w].to]]
        /\ Finish(w) /\ UNCHANGED <<inquiry, visit, fees, inspection, hand>>
    BY <1>2 DEF WriteAsset
  <2> HIDE DEF a
  <2>3. asset' \in [Assets -> AssetStatus]
    BY <1>0, <2>1, <2>2
  <2>4. event' \in [Assets -> EventType]
    <3>1. [from |-> req[w].seen, to |-> req[w].to] \in EventType
      BY <2>1 DEF EventType
    <3>. QED BY <1>0, <2>2, <3>1
  <2>5. TypeOK'
    BY <1>0, <2>2, <2>3, <2>4, Finished, TypeParts, TypePartsNext
  <2>. QED BY <1>0, <2>2, <2>5, Finished, RowsSound
<1>3. CASE req[w].at = "committed" /\ Keep(w, [req[w] EXCEPT !.at = "asset", !.seen = asset[req[w].a]])
  <2> DEFINE r == [req[w] EXCEPT !.at = "asset", !.seen = asset[req[w].a]]
  <2>1. req[w].a \in Assets /\ req[w].to \in AssetStatus /\ req[w].op = "completeVisit"
    BY <1>3 DEF Sound, Good, Fits
  <2>2. /\ r \in Request /\ r.at = "asset" /\ r.seen \in AssetStatus /\ r.op = "completeVisit"
        /\ r.a = req[w].a /\ r.to = req[w].to
    BY <1>0, <2>1 DEF Request
  <2>3. Keep(w, r)
    BY <1>3
  <2> HIDE DEF r
  <2>4. TypeOK' /\ UNCHANGED rows /\ req'[w] = r /\ \A u \in Clients \ {w} : req'[u] = req[u]
    BY <1>0, <2>2, <2>3, Kept
  <2>5. Good(w)'
    BY <2>1, <2>2, <2>4 DEF Good, Fits, There, Held, InquiryOps, VisitOps, Holding
  <2>. QED BY <2>2, <2>4, <2>5, RowsSound DEF rows, Holding
<1>. QED BY <1>1, <1>2, <1>3 DEF ReadAsset, Abort

LEMMA NextSound == ASSUME Sound, [Next]_vars PROVE Sound' /\ Stays
<1>0. inquiry \in [Inquiries -> InquiryType] /\ visit \in [Visits -> VisitType]
  BY TypeParts DEF Sound
<1>1. UNCHANGED <<inquiry, visit>> => Stays
  BY DEF Stays, InquiryStays, VisitStays
<1>2. CASE UNCHANGED vars
  <2>1. TypeOK'
    BY <1>2, TypeParts, TypePartsNext DEF Sound, vars, rows
  <2>2. RowsKnown' /\ Exclusive'
    BY <1>2 DEF Sound, RowsKnown, Exclusive, vars, rows
  <2>3. ASSUME NEW w \in Clients PROVE Good(w)'
    BY <1>2, GoodKept DEF Sound, vars, rows
  <2>. QED BY <1>1, <1>2, <2>1, <2>2, <2>3 DEF Sound, vars, rows
<1>3. ASSUME NEW w \in Clients, Continue(w) PROVE Sound' /\ Stays
  <2>1. ASSUME CompleteVisit(w) \/ CancelVisit(w) \/ CompleteCount(w) \/ CancelCount(w) PROVE Sound' /\ Stays
    BY <1>1, <2>1, HoldSound, CountSound DEF rows
  <2>2. ASSUME ReadAsset(w) \/ WriteAsset(w) PROVE Sound' /\ Stays
    BY <1>1, <2>2, EquipmentSound
  <2>. QED BY <1>3, <2>1, <2>2, InquirySound, AddVisitSound, CompleteSound, CancelSound DEF Continue
<1>4. ASSUME NEW w \in Clients, Begin(w) \/ Abort(w) PROVE Sound' /\ Stays
  BY <1>1, <1>4, BeginSound, EquipmentSound DEF rows
<1>. QED BY <1>2, <1>3, <1>4, CreateInquirySound DEF Next

LEMMA AlwaysSound == Spec => []Sound
<1>1. Sound /\ [Next]_vars => Sound'
  BY NextSound
<1>. QED BY <1>1, InitSound, PTL DEF Spec

\* The tables and the operations in flight keep the shape of the schema.
THEOREM TypeCorrect == Spec => []TypeOK
<1>1. Sound => TypeOK
  BY DEF Sound
<1>. QED BY AlwaysSound, <1>1, PTL

\* A visit or a request that is completed or canceled stays so, whatever was read before.
THEOREM NothingReopens == Spec => ClosedForGood
<1>1. Sound /\ [Next]_vars =>
        [/\ \A v \in Visits : visit[v].status \in Closed => visit'[v].status = visit[v].status
         /\ \A i \in Inquiries : inquiry[i].status \in Closed => inquiry'[i].status = inquiry[i].status]_vars
  BY NextSound DEF Stays, InquiryStays, VisitStays
<1>. QED BY <1>1, AlwaysSound, PTL DEF Spec, ClosedForGood

-----------------------------------------------------------------------------
(* Fees and inspections.  Only the end of a completion writes them, and     *)
(* what it closes stays closed.                                             *)

LEMMA OnlyCompletionsBill ==
    ASSUME Sound, [Next]_vars, \A w \in Clients : ~CompleteCommit(w)
    PROVE  UNCHANGED <<fees, inspection>>
<1>1. ASSUME NEW w \in Clients, Begin(w) PROVE UNCHANGED <<fees, inspection>>
  BY <1>1, BeginSound DEF rows
<1>2. ASSUME NEW w \in Clients, Abort(w) PROVE UNCHANGED <<fees, inspection>>
  BY <1>2 DEF Abort, rows
<1>3. ASSUME NEW w \in Clients, Continue(w) PROVE UNCHANGED <<fees, inspection>>
  <2>1. CASE CompleteVisit(w) \/ CancelVisit(w) \/ CompleteCount(w) \/ CancelCount(w)
    BY <2>1, HoldSound, CountSound DEF rows
  <2>2. CASE ReadAsset(w) \/ WriteAsset(w)
    BY <2>2, EquipmentSound
  <2>3. CASE EditInquiryCommit(w) \/ SetInquiryCommit(w) \/ RemoveInquiryCommit(w)
    BY <2>3 DEF EditInquiryCommit, SetInquiryCommit, RemoveInquiryCommit
  <2>4. CASE CancelCommit(w) \/ \E v \in Visits : AddVisitCommit(w, v)
    BY <2>4 DEF CancelCommit, AddVisitCommit
  <2>. QED BY <1>3, <2>1, <2>2, <2>3, <2>4 DEF Continue
<1>4. ASSUME NEW i \in Inquiries, CreateInquiry(i) PROVE UNCHANGED <<fees, inspection>>
  BY <1>4 DEF CreateInquiry
<1>. QED BY <1>1, <1>2, <1>3, <1>4 DEF Next, vars, rows

\* What one completion writes.
LEMMA Bills ==
    ASSUME Sound, NEW w \in Clients, CompleteCommit(w)
    PROVE  /\ req[w].v \in Visits /\ visit'[req[w].v].status = "COMPLETED"
           /\ \A v \in Visits : v # req[w].v => visit'[v] = visit[v] /\ fees'[v] = fees[v]
           /\ fees'[req[w].v] \in {fees[req[w].v], fees[req[w].v] + 1}
           /\ \A s \in Schedules : inspection'[s] \in {inspection[s], req[w].v}
<1>1. req[w].v \in Visits
  BY DEF Sound, CompleteCommit, At, Good, Fits, VisitOps, Holding
<1>2. visit \in [Visits -> VisitType] /\ fees \in [Visits -> Nat]
  BY TypeParts DEF Sound
<1>3. PICK followUp \in BOOLEAN, n \in {0, 1} :
         /\ visit' = [visit EXCEPT ![req[w].v].status = "COMPLETED", ![req[w].v].requiresFollowUp = followUp]
         /\ fees' = [fees EXCEPT ![req[w].v] = @ + n]
         /\ inspection' = [s \in Schedules |-> IF s = ScheduleOf(req[w].v) THEN req[w].v ELSE inspection[s]]
  BY DEF CompleteCommit
<1>4. fees'[req[w].v] = fees[req[w].v] + n /\ fees[req[w].v] \in Nat
  BY <1>1, <1>2, <1>3
<1>5. \A v \in Visits : v # req[w].v => visit'[v] = visit[v] /\ fees'[v] = fees[v]
  BY <1>1, <1>2, <1>3
<1>6. visit'[req[w].v].status = "COMPLETED"
  BY <1>1, <1>2, <1>3 DEF VisitType
<1>7. fees'[req[w].v] \in {fees[req[w].v], fees[req[w].v] + 1}
  BY <1>4
<1>8. \A s \in Schedules : inspection'[s] \in {inspection[s], req[w].v}
  BY <1>3
<1>. QED BY <1>1, <1>5, <1>6, <1>7, <1>8

LEMMA PaidKept == ASSUME Sound, PaidForWorkDone, [Next]_vars PROVE PaidForWorkDone'
<1>0. Stays /\ inspection \in [Schedules -> Visits \cup {None}] /\ fees \in [Visits -> Nat]
  BY NextSound, TypeParts DEF Sound
<1>1. \A v \in Visits : visit[v].status = "COMPLETED" => visit'[v].status = "COMPLETED"
  BY <1>0 DEF Stays, VisitStays, Closed
<1>2. CASE UNCHANGED <<fees, inspection>>
  BY <1>0, <1>1, <1>2 DEF PaidForWorkDone
<1>3. ASSUME NEW w \in Clients, CompleteCommit(w) PROVE PaidForWorkDone'
  <2>1. /\ req[w].v \in Visits /\ visit'[req[w].v].status = "COMPLETED"
        /\ \A v \in Visits : v # req[w].v => visit'[v] = visit[v] /\ fees'[v] = fees[v]
        /\ \A s \in Schedules : inspection'[s] \in {inspection[s], req[w].v}
    BY <1>3, Bills
  <2>2. \A v \in Visits : fees'[v] > 0 => visit'[v].status = "COMPLETED"
    BY <2>1 DEF PaidForWorkDone
  <2>3. \A s \in Schedules : inspection'[s] # None => visit'[inspection'[s]].status = "COMPLETED"
    BY <1>0, <1>1, <2>1 DEF PaidForWorkDone
  <2>. QED BY <2>2, <2>3 DEF PaidForWorkDone
<1>. QED BY <1>2, <1>3, OnlyCompletionsBill

LEMMA InitPaid == Init => PaidForWorkDone
BY DEF Init, PaidForWorkDone

\* A fee is billed and an inspection recorded for completed visits only, although a visit
\* may be completed and canceled at the same moment.
THEOREM OnlyWorkDoneIsBilled == Spec => []PaidForWorkDone
<1>1. Sound /\ PaidForWorkDone /\ [Next]_vars => PaidForWorkDone'
  BY PaidKept
<1>. QED BY <1>1, InitPaid, AlwaysSound, PTL DEF Spec

-----------------------------------------------------------------------------
(* As long as operations did not overlap: there is one at most, and what it *)
(* has read still holds.                                                    *)

Sole == \A u, w \in Clients : req[u].op # "idle" /\ req[w].op # "idle" => u = w

StillHolds(w) ==
    /\ req[w].op = "completeVisit" /\ req[w].at \in Holding \cup {"start"} => visit[req[w].v].status \notin Closed
    /\ req[w].at = "asset" => req[w].seen = asset[req[w].a]

Calm == overlap = "none" => Sole /\ \A w \in Clients : StillHolds(w)

LEMMA InitCalm == Init => Calm /\ FeeBilledOnce
BY Values DEF Init, Calm, Sole, StillHolds, FeeBilledOnce

LEMMA BeginCalm == ASSUME Sound, Calm, NEW w \in Clients, Begin(w) PROVE Calm' /\ (overlap' = "none" => overlap = "none")
<1>1. PICK r : Begun(r) /\ Remember(w, r)
  BY Beginning
<1>2. /\ UNCHANGED rows
      /\ req'[w] = r /\ \A u \in Clients \ {w} : req'[u] = req[u]
  BY <1>1, Remembered DEF Sound, Begun
<1>3. overlap' = "none" => overlap = "none" /\ {req[u].op : u \in Clients \ {w}} \ {"idle"} = {}
  BY <1>1 DEF Remember
<1>4. overlap' = "none" => \A u \in Clients \ {w} : req'[u].op = "idle"
  BY <1>2, <1>3
<1>5. overlap' = "none" => Sole'
  BY <1>4 DEF Sole
<1>6. ASSUME overlap' = "none", NEW u \in Clients PROVE StillHolds(u)'
  <2>1. CASE u = w
    BY <1>1, <1>2, <2>1 DEF StillHolds, Begun, rows, VisitOps
  <2>2. CASE u # w
    <3>1. req'[u].op = "idle" /\ req'[u] = req[u] /\ Fits(req[u])
      BY <1>2, <1>4, <1>6, <2>2 DEF Sound, Good
    <3>. QED BY <3>1 DEF StillHolds, Fits
  <2>. QED BY <2>1, <2>2
<1>. QED BY <1>3, <1>5, <1>6 DEF Calm

\* The one operation in flight goes on or ends.
LEMMA OneCalm ==
    ASSUME Sound, Calm, NEW w \in Clients, req[w].op # "idle", \A u \in Clients \ {w} : req'[u] = req[u],
           UNCHANGED overlap, overlap = "none" => StillHolds(w)'
    PROVE  Calm'
<1> SUFFICES ASSUME overlap = "none" PROVE Sole' /\ \A u \in Clients : StillHolds(u)'
  BY DEF Calm
<1>1. \A u \in Clients \ {w} : req'[u].op = "idle" /\ req'[u].at # "asset"
  BY DEF Calm, Sole, Sound, Good, Fits
<1>. QED BY <1>1 DEF Sole, StillHolds

LEMMA NextCalm == ASSUME Sound, Calm, [Next]_vars PROVE Calm' /\ (overlap' = "none" => overlap = "none")
<1>0. TypeOK /\ req \in [Clients -> Request] /\ asset \in [Assets -> AssetStatus]
  BY TypeParts DEF Sound
<1>1. CASE UNCHANGED vars \/ \E i \in Inquiries : CreateInquiry(i)
  <2>1. UNCHANGED <<visit, asset, req, overlap>>
    BY <1>1 DEF CreateInquiry, vars, rows
  <2>. QED BY <2>1 DEF Calm, Sole, StillHolds
<1>2. ASSUME NEW w \in Clients, Finish(w), req[w].op # "idle" PROVE Calm' /\ UNCHANGED overlap
  <2>1. UNCHANGED overlap /\ req'[w] = Idle /\ \A u \in Clients \ {w} : req'[u] = req[u]
    BY <1>0, <1>2, Finished
  <2>2. StillHolds(w)'
    BY <2>1, Values DEF StillHolds
  <2>. QED BY <1>2, <2>1, <2>2, OneCalm
<1>3. ASSUME NEW w \in Clients, Abort(w) PROVE Calm' /\ (overlap' = "none" => overlap = "none")
  <2>1. CASE req[w].op # "idle"
    BY <1>2, <1>3, <2>1 DEF Abort
  <2>2. CASE req[w].op = "idle"
    <3>1. UNCHANGED rows /\ UNCHANGED overlap /\ req'[w] = Idle /\ \A u \in Clients \ {w} : req'[u] = req[u]
      BY <1>0, <1>3, Finished DEF Abort
    <3>2. Sole => Sole'
      BY <2>2, <3>1, Values DEF Sole
    <3>3. \A u \in Clients : StillHolds(u) => StillHolds(u)'
      BY <3>1, Values DEF StillHolds, rows
    <3>. QED BY <3>1, <3>2, <3>3 DEF Calm
  <2>. QED BY <2>1, <2>2
<1>4. ASSUME NEW w \in Clients, Continue(w) PROVE Calm' /\ UNCHANGED overlap
  <2>0. req[w].op # "idle"
    <3>1. /\ req[w].op \in OperationKinds \/ req[w].at \in {"committed", "asset"}
          /\ Fits(req[w])
      BY <1>4 DEF Continue, EditInquiryCommit, SetInquiryCommit, RemoveInquiryCommit, AddVisitCommit,
                  CompleteVisit, CompleteCount, CompleteCommit, CancelVisit, CancelCount, CancelCommit,
                  ReadAsset, WriteAsset, At, OperationKinds, Sound, Good
    <3>. QED BY <3>1 DEF Fits, OperationKinds
  <2>1. CASE Finish(w)
    BY <1>2, <2>0, <2>1
  <2>2. ASSUME NEW r, Keep(w, r), r.op = req[w].op, r.v = req[w].v, r.at \in Holding, req[w].at \in Holding \cup {"start"}
        PROVE  Calm' /\ UNCHANGED overlap
    <3>1. UNCHANGED <<visit, overlap>> /\ req' = [req EXCEPT ![w] = r]
      BY <2>2 DEF Keep, rows
    <3>2. req'[w] = r /\ \A u \in Clients \ {w} : req'[u] = req[u]
      BY <1>0, <3>1
    <3>3. overlap = "none" => StillHolds(w)'
      BY <2>2, <3>1, <3>2 DEF Calm, StillHolds, Holding
    <3>. QED BY <2>0, <3>1, <3>2, <3>3, OneCalm
  <2>3. CASE CompleteVisit(w)
    <3> DEFINE r == [req[w] EXCEPT !.at = "updated", !.i = visit[req[w].v].inquiry,
                       !.seen = inquiry[visit[req[w].v].inquiry].status,
                       !.free = inquiry[visit[req[w].v].inquiry].isWarranty]
    <3>1. Keep(w, r) /\ req[w].at = "start"
      BY <2>3 DEF CompleteVisit, At
    <3>2. r.op = req[w].op /\ r.v = req[w].v /\ r.at = "updated"
      BY <1>0 DEF Request
    <3>. QED BY <2>2, <3>1, <3>2 DEF Holding
  <2>4. CASE CancelVisit(w)
    <3> DEFINE r == [req[w] EXCEPT !.at = "updated"]
    <3>1. Keep(w, r) /\ req[w].at = "start"
      BY <2>4 DEF CancelVisit, At
    <3>2. r.op = req[w].op /\ r.v = req[w].v /\ r.at = "updated"
      BY <1>0 DEF Request
    <3>. QED BY <2>2, <3>1, <3>2 DEF Holding
  <2>5. CASE CompleteCount(w) \/ CancelCount(w)
    <3> DEFINE r == [req[w] EXCEPT !.at = "counted", !.open = Cardinality(OpenVisits(req[w].i) \ {req[w].v})]
    <3>1. Keep(w, r) /\ req[w].at = "updated"
      BY <2>5 DEF CompleteCount, CancelCount, At
    <3>2. r.op = req[w].op /\ r.v = req[w].v /\ r.at = "counted"
      BY <1>0 DEF Request
    <3>. QED BY <2>2, <3>1, <3>2 DEF Holding
  <2>6. CASE CompleteCommit(w)
    <3>1. PICK to : req' = [req EXCEPT ![w] = [Idle EXCEPT !.op = "completeVisit", !.at = "committed",
                                                           !.a = inquiry[req[w].i].asset, !.to = to]]
      BY <2>6 DEF CompleteCommit
    <3>2. req'[w].at = "committed" /\ UNCHANGED overlap /\ \A u \in Clients \ {w} : req'[u] = req[u]
      BY <1>0, <2>6, <3>1 DEF CompleteCommit, Idle
    <3>3. StillHolds(w)'
      BY <3>2 DEF StillHolds, Holding
    <3>. QED BY <2>0, <3>2, <3>3, OneCalm
  <2>7. CASE Keep(w, [req[w] EXCEPT !.at = "asset", !.seen = asset[req[w].a]])
    <3> DEFINE r == [req[w] EXCEPT !.at = "asset", !.seen = asset[req[w].a]]
    <3>1. r.at = "asset" /\ r.seen = asset[r.a]
      BY <1>0 DEF Request
    <3>2. UNCHANGED <<asset, overlap>> /\ req' = [req EXCEPT ![w] = r]
      BY <2>7 DEF Keep, rows
    <3> HIDE DEF r
    <3>3. req'[w] = r /\ \A u \in Clients \ {w} : req'[u] = req[u]
      BY <1>0, <3>2
    <3>4. StillHolds(w)'
      BY <3>1, <3>2, <3>3 DEF StillHolds, Holding
    <3>. QED BY <2>0, <3>2, <3>3, <3>4, OneCalm
  <2>. QED BY <1>4, <2>1, <2>3, <2>4, <2>5, <2>6, <2>7
           DEF Continue, EditInquiryCommit, SetInquiryCommit, RemoveInquiryCommit, AddVisitCommit, CancelCommit,
               ReadAsset, WriteAsset
<1>. QED BY <1>1, <1>3, <1>4, BeginCalm DEF Next

LEMMA FeeKept == ASSUME Sound, PaidForWorkDone, Calm, FeeBilledOnce, [Next]_vars PROVE FeeBilledOnce'
<1>0. (overlap' = "none" => overlap = "none") /\ fees \in [Visits -> Nat]
  BY NextCalm, TypeParts DEF Sound
<1>1. CASE UNCHANGED fees
  BY <1>0, <1>1 DEF FeeBilledOnce
<1>2. ASSUME NEW w \in Clients, CompleteCommit(w) PROVE FeeBilledOnce'
  <2>1. /\ req[w].v \in Visits
        /\ \A v \in Visits : v # req[w].v => fees'[v] = fees[v]
        /\ fees'[req[w].v] \in {fees[req[w].v], fees[req[w].v] + 1}
    BY <1>2, Bills
  <2>2. overlap = "none" => visit[req[w].v].status \notin Closed
    BY <1>2 DEF Calm, StillHolds, CompleteCommit, At, Holding
  <2>3. overlap = "none" => fees[req[w].v] = 0
    BY <1>0, <2>1, <2>2 DEF PaidForWorkDone, Closed
  <2>. QED BY <1>0, <2>1, <2>3 DEF FeeBilledOnce
<1>. QED BY <1>1, <1>2, OnlyCompletionsBill

LEMMA AlwaysCalm == Spec => []Calm
<1>1. Sound /\ Calm /\ [Next]_vars => Calm'
  BY NextCalm
<1>. QED BY <1>1, InitCalm, AlwaysSound, PTL DEF Spec

\* As long as operations do not overlap, a visit is billed once.
THEOREM OneFeePerVisit == Spec => []FeeBilledOnce
<1>1. Sound /\ PaidForWorkDone /\ Calm /\ FeeBilledOnce /\ [Next]_vars => FeeBilledOnce'
  BY FeeKept
<1>. QED BY <1>1, InitCalm, AlwaysSound, OnlyWorkDoneIsBilled, AlwaysCalm, PTL DEF Spec

\* Only the last step of a completed visit writes a status of equipment, and its event.
LEMMA OnlyWritesAsset ==
    ASSUME [Next]_vars, Sound, \A w \in Clients : ~WriteAsset(w)
    PROVE  UNCHANGED asset
<1>1. ASSUME NEW w \in Clients, Begin(w) PROVE UNCHANGED asset
  BY <1>1, BeginSound DEF rows
<1>2. ASSUME NEW w \in Clients, Continue(w) PROVE UNCHANGED asset
  BY <1>2 DEF Continue, EditInquiryCommit, SetInquiryCommit, RemoveInquiryCommit, AddVisitCommit,
              CompleteVisit, CompleteCount, CompleteCommit, CancelVisit, CancelCount, CancelCommit,
              ReadAsset, Keep, rows
<1>. QED BY <1>1, <1>2 DEF Next, Abort, CreateInquiry, vars, rows

\* Equipment changes its status with an event that tells the new one and, as long as
\* operations do not overlap, the old one.
THEOREM ChangesAreRecorded == Spec => EveryChangeIsRecorded
<1>1. ASSUME Sound, Calm, [Next]_vars
      PROVE  [\A a \in Assets : asset'[a] # asset[a] =>
                 /\ event'[a].to = asset'[a]
                 /\ overlap = "none" => event'[a].from = asset[a]]_vars
  <2>1. ASSUME NEW w \in Clients, WriteAsset(w), NEW a \in Assets, asset'[a] # asset[a]
        PROVE  event'[a].to = asset'[a] /\ (overlap = "none" => event'[a].from = asset[a])
    <3>1. /\ asset' = [asset EXCEPT ![req[w].a] = req[w].to] /\ req[w].at = "asset"
          /\ event' = [event EXCEPT ![req[w].a] = [from |-> req[w].seen, to |-> req[w].to]]
      BY <2>1 DEF WriteAsset
    <3>2. asset \in [Assets -> AssetStatus] /\ event \in [Assets -> EventType]
      BY <1>1, TypeParts DEF Sound
    <3>3. a = req[w].a
      BY <2>1, <3>1, <3>2
    <3>4. event'[a] = [from |-> req[w].seen, to |-> req[w].to] /\ asset'[a] = req[w].to
      BY <3>1, <3>2, <3>3
    <3>5. overlap = "none" => req[w].seen = asset[a]
      BY <1>1, <3>1, <3>3 DEF Calm, StillHolds
    <3>. QED BY <3>4, <3>5
  <2>. QED BY <1>1, <2>1, OnlyWritesAsset
<1>2. Sound /\ Calm /\ [Next]_vars =>
        [\A a \in Assets : asset'[a] # asset[a] =>
            /\ event'[a].to = asset'[a]
            /\ overlap = "none" => event'[a].from = asset[a]]_vars
  BY <1>1
<1>. QED BY <1>2, AlwaysSound, AlwaysCalm, PTL DEF Spec, EveryChangeIsRecorded

-----------------------------------------------------------------------------
(* A request and its visits.  While operations do not overlap, or are       *)
(* completions that meet at a maintenance schedule, what each transaction   *)
(* has counted is exact when it commits.                                    *)

\* Where the status of a request can be relied on.
Tracked(i) == overlap = "none" \/ (overlap = "completions" /\ inquiry[i].schedule # None)

\* A visit not made yet belongs to nobody.
Blank == \A v \in Visits : visit[v].status = "NONE" => visit[v].inquiry = None

\* Operations in flight together are completions of visits, unless anything went.
Together ==
    overlap # "any" =>
        \A u, w \in Clients : u # w /\ req[u].op # "idle" /\ req[w].op # "idle" => req[w].op = "completeVisit"

\* Two completions that have counted do not belong to one schedule.
Turns ==
    \A u, w \in Clients :
        u # w /\ At(u, "completeVisit", "counted") /\ At(w, "completeVisit", "counted") =>
            ScheduleOf(req[u].v) = None \/ ScheduleOf(req[u].v) # ScheduleOf(req[w].v)

\* What an operation has read of a request and its visits, in as far as it still holds.
InTouch(w) ==
    /\ req[w].at \in Holding \/ req[w].op = "cancelVisit" => visit[req[w].v].inquiry = req[w].i
    /\ req[w].at \in Holding /\ req[w].op = "completeVisit" /\ req[w].seen \in Closed
         => inquiry[req[w].i].status \in Closed
    /\ overlap # "any" /\ req[w].op = "addVisit" =>
         req[w].seen = inquiry[req[w].i].status /\ req[w].seen \notin Closed
    /\ req[w].at = "counted" /\ Tracked(req[w].i) =>
         (req[w].open = 0 <=> OpenVisits(req[w].i) \ {req[w].v} = {})

Called(v) == visit[v].status = "COMPLETED" /\ visit[v].requiresFollowUp

Tracks(i) ==
    Tracked(i) /\ hand[i] = "no" =>
        /\ inquiry[i].status \in {"RECEIVED", "COMPLETED"} => OpenVisits(i) = {}
        /\ inquiry[i].status = "SCHEDULED" => OpenVisits(i) # {} \/ (\E v \in VisitsOf(i) : Called(v))

Finishable(i) ==
    overlap = "none" /\ hand[i] # "api" /\ OpenVisits(i) # {} => inquiry[i].status \notin {"NONE", "RECEIVED"}

Follows == \A i \in Inquiries : Tracks(i) /\ Finishable(i)

Following == Blank /\ Together /\ Turns /\ (\A w \in Clients : InTouch(w)) /\ Follows

LEMMA InitFollowing == Init => Following
<1> SUFFICES ASSUME Init PROVE Following
  OBVIOUS
<1>1. \A w \in Clients : req[w] = Idle /\ req[w].op = "idle" /\ req[w].at = "start"
  BY Values DEF Init
<1>2. \A v \in Visits : visit[v].inquiry = None
  BY DEF Init, NoVisit
<1>3. \A i \in Inquiries : inquiry[i].status = "NONE"
  BY Values DEF Init
<1>4. ASSUME NEW i \in Inquiries PROVE OpenVisits(i) = {}
  BY <1>2, ConstantsAssumption DEF OpenVisits, VisitsOf, ConstantsAssumption
<1>5. Blank /\ Together /\ Turns
  BY <1>1, <1>2 DEF Blank, Together, Turns, At
<1>6. \A w \in Clients : InTouch(w)
  BY <1>1 DEF InTouch, Holding
<1>7. Follows
  BY <1>3, <1>4 DEF Follows, Tracks, Finishable
<1>. QED BY <1>5, <1>6, <1>7 DEF Following

\* The statuses of the requests, and their schedules, stay as they are.
SameInquiries ==
    \A i \in Inquiries : inquiry'[i].status = inquiry[i].status /\ inquiry'[i].schedule = inquiry[i].schedule

\* A request keeps its schedule.
ScheduleStays == \A i \in Inquiries : inquiry[i].status # "NONE" => inquiry'[i].schedule = inquiry[i].schedule

\* Operations that have overlapped have overlapped.
Grows == (overlap' = "none" => overlap = "none") /\ (overlap' # "any" => overlap # "any")

LEMMA OverlapGrows == ASSUME Sound, [Next]_vars PROVE Grows
<1>1. ASSUME NEW w \in Clients, Begin(w) PROVE Grows
  <2>1. PICK r : Remember(w, r)
    BY <1>1, Beginning
  <2>. QED BY <2>1 DEF Remember, Grows
<1>2. ASSUME NEW w \in Clients, Continue(w) \/ Abort(w) PROVE UNCHANGED overlap
  BY <1>2 DEF Continue, Abort, EditInquiryCommit, SetInquiryCommit, RemoveInquiryCommit, AddVisitCommit,
              CompleteVisit, CompleteCount, CompleteCommit, CancelVisit, CancelCount, CancelCommit,
              ReadAsset, WriteAsset, Finish, Keep
<1>3. ASSUME NEW i \in Inquiries, CreateInquiry(i) PROVE UNCHANGED overlap
  BY <1>3 DEF CreateInquiry
<1>. QED BY <1>1, <1>2, <1>3 DEF Next, vars, Grows

LEMMA TrackedBefore ==
    ASSUME Sound, Grows, NEW i, inquiry'[i].schedule = inquiry[i].schedule, Tracked(i)'
    PROVE  Tracked(i)
<1>1. overlap \in {"none", "completions", "any"}
  BY TypeParts DEF Sound
<1>. QED BY <1>1 DEF Tracked, Grows

LEMMA OpenSame ==
    ASSUME UNCHANGED visit
    PROVE  \A i : OpenVisits(i)' = OpenVisits(i) /\ VisitsOf(i)' = VisitsOf(i)
BY DEF OpenVisits, VisitsOf

\* An operation in flight that does not go on.
LEMMA OtherInTouch ==
    ASSUME Sound, Stays, ScheduleStays, Grows, NEW u \in Clients, InTouch(u), req'[u] = req[u],
           overlap # "any" /\ req[u].op = "addVisit" => inquiry'[req[u].i].status = inquiry[req[u].i].status,
           req[u].at = "counted" /\ Tracked(req[u].i) => OpenVisits(req[u].i)' = OpenVisits(req[u].i)
    PROVE  InTouch(u)'
<1>1. Fits(req[u]) /\ There(u) /\ req[u] \in Request
  BY TypeParts DEF Sound, Good
<1>2. req[u].at \in Holding \/ req[u].op = "cancelVisit" =>
         /\ req[u].v \in Visits /\ req[u].i \in Inquiries
         /\ visit[req[u].v].status # "NONE" /\ inquiry[req[u].i].status # "NONE"
  BY <1>1 DEF Fits, There, Request, Holding, VisitOps, InquiryOps
<1>3. req[u].at \in Holding \/ req[u].op = "cancelVisit" =>
         visit'[req[u].v].inquiry = visit[req[u].v].inquiry
  BY <1>2 DEF Stays, VisitStays
<1>4. req[u].at \in Holding => /\ inquiry[req[u].i].status \in Closed => inquiry'[req[u].i].status \in Closed
                               /\ inquiry'[req[u].i].schedule = inquiry[req[u].i].schedule
  BY <1>2 DEF Stays, InquiryStays, ScheduleStays
<1>5. overlap' # "any" => overlap # "any"
  BY DEF Grows
<1>6. req[u].at = "counted" /\ Tracked(req[u].i)' => Tracked(req[u].i)
  BY <1>4, TrackedBefore DEF Holding
<1>7. req[u].at = "counted" /\ Tracked(req[u].i)' =>
        (req[u].open = 0 <=> OpenVisits(req[u].i)' \ {req[u].v} = {})
  BY <1>6 DEF InTouch
<1>. QED BY <1>3, <1>4, <1>5, <1>7 DEF InTouch

LEMMA BlankSame == ASSUME Blank, UNCHANGED visit PROVE Blank'
BY DEF Blank

LEMMA TogetherSame ==
    ASSUME Together, Grows, \A u \in Clients : req'[u].op \in {req[u].op, "idle"}
    PROVE  Together'
BY DEF Together, Grows

LEMMA TurnsSame ==
    ASSUME Sound, Turns, Stays, ScheduleStays,
           \A u \in Clients : At(u, "completeVisit", "counted")' =>
                                 At(u, "completeVisit", "counted") /\ req'[u].v = req[u].v
    PROVE  Turns'
<1>1. ASSUME NEW u \in Clients, At(u, "completeVisit", "counted")
      PROVE  inquiry'[visit'[req[u].v].inquiry].schedule = ScheduleOf(req[u].v)
  <2>1. req[u].v \in Visits /\ visit[req[u].v].status # "NONE"
    BY <1>1 DEF At, Sound, Good, Fits, There, Holding, VisitOps
  <2>2. visit[req[u].v].inquiry \in Inquiries /\ inquiry[visit[req[u].v].inquiry].status # "NONE"
    BY <2>1 DEF Sound, RowsKnown
  <2>3. visit'[req[u].v].inquiry = visit[req[u].v].inquiry
    BY <2>1 DEF Stays, VisitStays
  <2>. QED BY <2>2, <2>3 DEF ScheduleOf, ScheduleStays
<1>2. ASSUME NEW u \in Clients, At(u, "completeVisit", "counted")'
      PROVE  At(u, "completeVisit", "counted") /\ ScheduleOf(req[u].v)' = ScheduleOf(req[u].v)
  BY <1>1, <1>2 DEF ScheduleOf
<1>. QED BY <1>2 DEF Turns

LEMMA FollowsSame ==
    ASSUME Sound, Follows, Grows, UNCHANGED <<visit, hand>>, SameInquiries
    PROVE  Follows'
<1>1. ASSUME NEW i \in Inquiries PROVE Tracks(i)' /\ Finishable(i)'
  <2>1. Tracked(i)' => Tracked(i)
    BY TrackedBefore DEF SameInquiries
  <2>2. OpenVisits(i)' = OpenVisits(i) /\ VisitsOf(i)' = VisitsOf(i) /\ (\A v : Called(v)' <=> Called(v))
    BY OpenSame DEF Called
  <2>3. inquiry'[i].status = inquiry[i].status /\ hand'[i] = hand[i] /\ Tracks(i) /\ Finishable(i)
    BY DEF SameInquiries, Follows
  <2>4. Tracks(i)'
    BY <2>1, <2>2, <2>3 DEF Tracks
  <2>5. Finishable(i)'
    BY <2>2, <2>3 DEF Finishable, Grows
  <2>. QED BY <2>4, <2>5
<1>. QED BY <1>1 DEF Follows

\* One operation goes on, or ends, and no row that matters here is written.
LEMMA OneFollowing ==
    ASSUME Sound, Following, Stays, Grows, UNCHANGED <<visit, hand>>, SameInquiries, NEW w \in Clients,
           \A u \in Clients \ {w} : req'[u] = req[u], Together', Turns', InTouch(w)'
    PROVE  Following'
<1>1. ScheduleStays
  BY DEF SameInquiries, ScheduleStays
<1>2. Blank' /\ Follows'
  BY BlankSame, FollowsSame DEF Following
<1>3. ASSUME NEW u \in Clients \ {w} PROVE InTouch(u)'
  <2>1. req[u].op = "addVisit" => req[u].i \in Inquiries
    BY DEF Sound, Good, Fits, InquiryOps
  <2>. QED BY <1>1, <2>1, OtherInTouch, OpenSame DEF Following, SameInquiries
<1>4. \A u \in Clients : InTouch(u)'
  BY <1>3
<1>. QED BY <1>2, <1>4 DEF Following

LEMMA RowsSame == ASSUME UNCHANGED rows PROVE Stays /\ SameInquiries /\ UNCHANGED <<visit, hand, inquiry>>
BY DEF rows, Stays, InquiryStays, VisitStays, SameInquiries

LEMMA BeginFollowing == ASSUME Sound, Following, NEW w \in Clients, Begin(w) PROVE Following'
<1>1. PICK r : Begun(r) /\ Remember(w, r)
  BY Beginning
<1>2. UNCHANGED rows /\ req'[w] = r /\ \A u \in Clients \ {w} : req'[u] = req[u]
  BY <1>1, Remembered DEF Sound, Begun
<1>3. Stays /\ SameInquiries /\ UNCHANGED <<visit, hand, inquiry>>
  BY <1>2, RowsSame
<1>4. Grows
  BY <1>1 DEF Remember, Grows
<1>5. InTouch(w)'
  BY <1>1, <1>2, <1>3 DEF InTouch, Begun, Holding
<1>6. Turns'
  <2>1. \A u \in Clients : At(u, "completeVisit", "counted")' =>
                              At(u, "completeVisit", "counted") /\ req'[u].v = req[u].v
    BY <1>1, <1>2 DEF At, Begun
  <2>. QED BY <1>3, <2>1, TurnsSame DEF Following, SameInquiries, ScheduleStays
<1>7. Together'
  <2> DEFINE others == {req[u].op : u \in Clients \ {w}} \ {"idle"}
  <2>1. overlap' = IF others = {} THEN overlap
                   ELSE IF overlap # "any" /\ others \cup {r.op} = {"completeVisit"} THEN "completions"
                   ELSE "any"
    BY <1>1 DEF Remember
  <2>2. CASE others = {}
    <3>1. \A u \in Clients \ {w} : req[u].op = "idle"
      BY <2>2
    <3>. QED BY <1>2, <3>1 DEF Together
  <2>3. CASE others \cup {r.op} = {"completeVisit"}
    <3>1. r.op = "completeVisit" /\ \A u \in Clients \ {w} : req[u].op \in {"idle", "completeVisit"}
      BY <2>3
    <3>. QED BY <1>2, <3>1 DEF Together
  <2>4. CASE others # {} /\ others \cup {r.op} # {"completeVisit"}
    BY <2>1, <2>4 DEF Together
  <2>. QED BY <2>2, <2>3, <2>4
<1>. QED BY <1>2, <1>3, <1>4, <1>5, <1>6, <1>7, OneFollowing

\* An operation that ends.
LEMMA IdleInTouch ==
    ASSUME Sound, Following, Grows, Stays, ScheduleStays, NEW w \in Clients,
           req'[w].op \in {"idle", "completeVisit"}, req'[w].op \in {req[w].op, "idle"}, req'[w].at \notin Holding,
           \A u \in Clients \ {w} : req'[u] = req[u]
    PROVE  InTouch(w)' /\ Together' /\ Turns'
<1>1. InTouch(w)'
  BY DEF InTouch, Holding
<1>2. \A u \in Clients : req'[u].op \in {req[u].op, "idle"}
  OBVIOUS
<1>3. \A u \in Clients : At(u, "completeVisit", "counted")' =>
                            At(u, "completeVisit", "counted") /\ req'[u].v = req[u].v
  BY DEF At, Holding
<1>. QED BY <1>1, <1>2, <1>3, TogetherSame, TurnsSame DEF Following

LEMMA EndFollowing ==
    ASSUME Sound, Following, Grows, Stays, UNCHANGED <<visit, hand>>, SameInquiries, NEW w \in Clients, Finish(w)
    PROVE  Following'
<1>1. /\ req'[w] = Idle /\ \A u \in Clients \ {w} : req'[u] = req[u]
      /\ req'[w].at \notin Holding
  BY Finished DEF Sound
<1>2. ScheduleStays
  BY DEF SameInquiries, ScheduleStays
<1>. QED BY <1>1, <1>2, IdleInTouch, OneFollowing, Values

\* What an operation reads of a request it reads as it is.
LEMMA KeepFollowing ==
    ASSUME Sound, Following, NEW w \in Clients, CompleteVisit(w) \/ CompleteCount(w) \/ CancelVisit(w) \/ CancelCount(w)
    PROVE  Following'
<1>0. req[w] \in Request /\ TypeOK /\ Fits(req[w]) /\ InTouch(w) /\ There(w)
  BY TypeParts DEF Sound, Good, Following
<1>1. ASSUME NEW r \in Request, Keep(w, r), r.op = req[w].op, r.v = req[w].v,
             r.at \in Holding, r.op \in VisitOps,
             visit[r.v].inquiry = r.i,
             r.op = "completeVisit" /\ r.seen \in Closed => inquiry[r.i].status \in Closed,
             r.at = "counted" => (r.open = 0 <=> OpenVisits(r.i) \ {r.v} = {}),
             r.op = "completeVisit" /\ r.at = "counted" => ScheduleUnlocked(ScheduleOf(r.v))
      PROVE  Following'
  <2>1. UNCHANGED rows /\ req'[w] = r /\ (\A u \in Clients \ {w} : req'[u] = req[u]) /\ UNCHANGED overlap
    BY <1>0, <1>1, Kept DEF Keep
  <2>2. Stays /\ SameInquiries /\ UNCHANGED <<visit, hand, inquiry>> /\ Grows
    BY <2>1, RowsSame DEF Grows
  <2>3. InTouch(w)'
    BY <1>1, <2>1, <2>2, OpenSame DEF InTouch, VisitOps
  <2>4. Together'
    BY <1>1, <2>1, <2>2, TogetherSame DEF Following
  <2>5. Turns'
    <3>1. \A v : ScheduleOf(v)' = ScheduleOf(v)
      BY <2>2 DEF ScheduleOf
    <3>2. ASSUME NEW u \in Clients, NEW x \in Clients, u # x,
                 At(u, "completeVisit", "counted")', At(x, "completeVisit", "counted")'
          PROVE  ScheduleOf(req'[u].v) = None \/ ScheduleOf(req'[u].v) # ScheduleOf(req'[x].v)
      <4>1. CASE u = w
        BY <1>1, <2>1, <3>2, <4>1 DEF At, ScheduleUnlocked
      <4>2. CASE x = w
        BY <1>1, <2>1, <3>2, <4>2 DEF At, ScheduleUnlocked
      <4>3. CASE u # w /\ x # w
        BY <2>1, <3>2, <4>3 DEF At, Following, Turns
      <4>. QED BY <4>1, <4>2, <4>3
    <3>. QED BY <2>2, <3>2 DEF Turns, ScheduleOf
  <2>. QED BY <2>1, <2>2, <2>3, <2>4, <2>5, OneFollowing
<1>2. CASE CompleteVisit(w)
  <2> DEFINE r == [req[w] EXCEPT !.at = "updated", !.i = visit[req[w].v].inquiry,
                     !.seen = inquiry[visit[req[w].v].inquiry].status,
                     !.free = inquiry[visit[req[w].v].inquiry].isWarranty]
  <2>1. Keep(w, r) /\ req[w].at = "start" /\ req[w].op = "completeVisit"
    BY <1>2 DEF CompleteVisit, At
  <2>2. req[w].v \in Visits /\ visit[req[w].v].status # "NONE"
    BY <1>0, <2>1 DEF Fits, There, VisitOps
  <2>3. visit[req[w].v].inquiry \in Inquiries
    BY <2>2 DEF Sound, RowsKnown
  <2>4. inquiry[visit[req[w].v].inquiry] \in InquiryType
    BY <1>0, <2>3, TypeParts
  <2>5. /\ r \in Request /\ r.op = req[w].op /\ r.v = req[w].v /\ r.at = "updated"
        /\ r.i = visit[req[w].v].inquiry /\ r.seen = inquiry[r.i].status
    BY <1>0, <2>3, <2>4 DEF Request, InquiryType
  <2> HIDE DEF r
  <2>. QED BY <1>1, <2>1, <2>5 DEF Holding, VisitOps
<1>3. CASE CancelVisit(w)
  <2> DEFINE r == [req[w] EXCEPT !.at = "updated"]
  <2>1. Keep(w, r) /\ req[w].at = "start" /\ req[w].op = "cancelVisit"
    BY <1>3 DEF CancelVisit, At
  <2>2. r \in Request /\ r.op = req[w].op /\ r.v = req[w].v /\ r.at = "updated" /\ r.i = req[w].i
    BY <1>0 DEF Request
  <2> HIDE DEF r
  <2>. QED BY <1>0, <1>1, <2>1, <2>2 DEF Holding, VisitOps, InTouch
<1>4. CASE CompleteCount(w) \/ CancelCount(w)
  <2> DEFINE open == Cardinality(OpenVisits(req[w].i) \ {req[w].v})
  <2> DEFINE r == [req[w] EXCEPT !.at = "counted", !.open = open]
  <2>1. Keep(w, r) /\ req[w].at = "updated" /\ req[w].op \in VisitOps
    BY <1>4 DEF CompleteCount, CancelCount, At, VisitOps
  <2>2. req[w].op = "completeVisit" => ScheduleUnlocked(ScheduleOf(req[w].v))
    BY <1>4 DEF CompleteCount, CancelCount, At
  <2>3. open \in Nat /\ (open = 0 <=> OpenVisits(req[w].i) \ {req[w].v} = {})
    <3>1. OpenVisits(req[w].i) \ {req[w].v} \subseteq Visits
      BY DEF OpenVisits, VisitsOf
    <3>2. IsFiniteSet(OpenVisits(req[w].i) \ {req[w].v})
      BY <3>1, FS_Subset, ConstantsAssumption DEF ConstantsAssumption
    <3>. QED BY <3>2, FS_CardinalityType, FS_EmptySet
  <2> HIDE DEF open
  <2>4. /\ r \in Request /\ r.op = req[w].op /\ r.v = req[w].v /\ r.at = "counted"
        /\ r.i = req[w].i /\ r.open = open /\ r.seen = req[w].seen
    BY <1>0, <2>3 DEF Request
  <2> HIDE DEF r
  <2>. QED BY <1>0, <1>1, <2>1, <2>2, <2>3, <2>4 DEF Holding, InTouch
<1>. QED BY <1>2, <1>3, <1>4

\* A request gets another status.
LEMMA StatusWritten ==
    ASSUME Sound, NEW i \in Inquiries, NEW status, inquiry' = [inquiry EXCEPT ![i].status = status]
    PROVE  /\ inquiry'[i].status = status /\ ScheduleStays
           /\ \A j \in Inquiries : inquiry'[j].schedule = inquiry[j].schedule
           /\ \A j \in Inquiries \ {i} : inquiry'[j] = inquiry[j]
<1>1. inquiry \in [Inquiries -> InquiryType]
  BY TypeParts DEF Sound
<1>2. inquiry'[i].status = status /\ inquiry'[i].schedule = inquiry[i].schedule
      /\ \A j \in Inquiries \ {i} : inquiry'[j] = inquiry[j]
  BY <1>1 DEF InquiryType
<1>. QED BY <1>2 DEF ScheduleStays

\* An operation ends that has written a request and its visits, at most.
LEMMA WroteFollowing ==
    ASSUME Sound, Following, Stays, UNCHANGED overlap, NEW w \in Clients, NEW i \in Inquiries,
           \A u \in Clients \ {w} : req'[u] = req[u],
           req[w].op # "idle", req'[w].op \in {"idle", "completeVisit"}, req'[w].op \in {req[w].op, "idle"},
           req'[w].at \notin Holding,
           \A j \in Inquiries : inquiry'[j].schedule = inquiry[j].schedule,
           \A j \in Inquiries \ {i} : inquiry'[j].status = inquiry[j].status /\ hand'[j] = hand[j],
           \A j \in Inquiries \ {i} : VisitsOf(j)' = VisitsOf(j),
           \A j \in Inquiries \ {i} : \A v \in VisitsOf(j) : visit'[v] = visit[v],
           \A u \in Clients \ {w} : req[u].at = "counted" /\ Tracked(req[u].i) => req[u].i # i,
           Blank', Tracks(i)', Finishable(i)'
    PROVE  Following'
<1>1. Grows /\ ScheduleStays
  BY DEF Grows, ScheduleStays
<1>2. ASSUME NEW j \in Inquiries \ {i} PROVE OpenVisits(j)' = OpenVisits(j)
  <2>1. VisitsOf(j)' = VisitsOf(j) /\ \A v \in VisitsOf(j) : visit'[v] = visit[v]
    OBVIOUS
  <2>. QED BY <2>1 DEF OpenVisits
<1>3. InTouch(w)' /\ Together' /\ Turns'
  BY <1>1, IdleInTouch
<1>4. ASSUME NEW u \in Clients \ {w} PROVE InTouch(u)'
  <2>1. overlap # "any" => req[u].op # "addVisit"
    BY DEF Following, Together
  <2>2. req[u].at = "counted" => req[u].i \in Inquiries
    BY DEF Sound, Good, Fits, Holding
  <2>3. req[u].at = "counted" /\ Tracked(req[u].i) => OpenVisits(req[u].i)' = OpenVisits(req[u].i)
    BY <1>2, <2>2
  <2>. QED BY <1>1, <2>1, <2>3, OtherInTouch DEF Following
<1>5. ASSUME NEW j \in Inquiries \ {i} PROVE Tracks(j)' /\ Finishable(j)'
  <2>1. Tracked(j)' => Tracked(j)
    BY <1>1, TrackedBefore
  <2>2. OpenVisits(j)' = OpenVisits(j) /\ VisitsOf(j)' = VisitsOf(j)
        /\ \A v \in VisitsOf(j) : Called(v)' <=> Called(v)
    BY <1>2 DEF Called
  <2>3. inquiry'[j].status = inquiry[j].status /\ hand'[j] = hand[j] /\ Tracks(j) /\ Finishable(j)
    BY DEF Following, Follows
  <2>4. Tracks(j)'
    BY <2>1, <2>2, <2>3 DEF Tracks
  <2>5. Finishable(j)'
    BY <2>2, <2>3 DEF Finishable
  <2>. QED BY <2>4, <2>5
<1>6. Follows'
  BY <1>5 DEF Follows
<1>7. \A u \in Clients : InTouch(u)'
  BY <1>3, <1>4
<1>. QED BY <1>3, <1>6, <1>7 DEF Following

LEMMA CreateFollowing == ASSUME Sound, Following, NEW i \in Inquiries, CreateInquiry(i) PROVE Following'
<1>1. PICK isWarranty \in BOOLEAN, a \in Assets, s \in Schedules \cup {None} :
            inquiry' = [inquiry EXCEPT ![i] = [status |-> "RECEIVED", deleted |-> FALSE,
                                               isWarranty |-> isWarranty, asset |-> a, schedule |-> s]]
  BY DEF CreateInquiry
<1>2. inquiry[i].status = "NONE" /\ UNCHANGED <<visit, hand, req, overlap>>
  BY Values DEF CreateInquiry
<1>3. inquiry \in [Inquiries -> InquiryType]
  BY TypeParts DEF Sound
<1>4. \A j \in Inquiries \ {i} : inquiry'[j] = inquiry[j]
  BY <1>1, <1>3
<1>5. Stays /\ ScheduleStays /\ Grows
  BY <1>2, <1>4, CreateInquirySound DEF ScheduleStays, Grows
<1>6. Blank' /\ Together'
  BY <1>2, BlankSame DEF Following, Together
<1>7. Turns'
  BY <1>2, <1>5, TurnsSame DEF Following, At
<1>8. ASSUME NEW u \in Clients PROVE InTouch(u)'
  <2>1. req[u].op = "addVisit" => req[u].i \in Inquiries /\ req[u].i # i
    BY <1>2 DEF Sound, Good, Fits, There, InquiryOps
  <2>. QED BY <1>2, <1>4, <1>5, <2>1, OtherInTouch, OpenSame DEF Following
<1>9. VisitsOf(i) = {} /\ OpenVisits(i) = {}
  BY <1>2, ConstantsAssumption DEF VisitsOf, OpenVisits, Sound, RowsKnown, Following, Blank, ConstantsAssumption
<1>10. ASSUME NEW j \in Inquiries PROVE Tracks(j)' /\ Finishable(j)'
  <2>1. OpenVisits(j)' = OpenVisits(j) /\ VisitsOf(j)' = VisitsOf(j) /\ (\A v : Called(v)' <=> Called(v))
    BY <1>2, OpenSame DEF Called
  <2>2. CASE j = i
    <3>1. inquiry'[i].status = "RECEIVED"
      BY <1>1, <1>3
    <3>. QED BY <1>9, <2>1, <2>2, <3>1 DEF Tracks, Finishable
  <2>3. CASE j # i
    <3>1. inquiry'[j] = inquiry[j] /\ hand'[j] = hand[j] /\ Tracks(j) /\ Finishable(j)
      BY <1>2, <1>4, <2>3 DEF Following, Follows
    <3>2. Tracked(j)' => Tracked(j)
      BY <1>5, <3>1, TrackedBefore
    <3>3. Tracks(j)'
      BY <2>1, <3>1, <3>2 DEF Tracks
    <3>4. Finishable(j)'
      BY <1>2, <2>1, <3>1 DEF Finishable
    <3>. QED BY <3>3, <3>4
  <2>. QED BY <2>2, <2>3
<1>. QED BY <1>6, <1>7, <1>8, <1>10 DEF Following, Follows

\* Staff set a status by hand: what the page offers is never RECEIVED.
LEMMA SetFollowing == ASSUME Sound, Following, NEW w \in Clients, SetInquiryCommit(w) PROVE Following'
<1>0. /\ req[w].i \in Inquiries /\ req[w].op = "setInquiry"
      /\ req[w].to \in InquiryStatus /\ req[w].seen \in InquiryStatus
  BY DEF SetInquiryCommit, Sound, Good, Fits, InquiryOps
<1>i. PICK i \in Inquiries : i = req[w].i
  BY <1>0
<1>1. /\ inquiry' = [inquiry EXCEPT ![i].status = req[w].to] /\ UNCHANGED visit /\ Finish(w)
      /\ hand' = [hand EXCEPT ![i] = IF @ # "api" /\ req[w].to \in PageMoves[req[w].seen] THEN "page" ELSE "api"]
  BY <1>i DEF SetInquiryCommit
<1>2. hand \in [Inquiries -> {"no", "page", "api"}]
  BY TypeParts DEF Sound
<1>3. Stays
  BY InquirySound
<1>4. /\ req'[w] = Idle /\ (\A u \in Clients \ {w} : req'[u] = req[u]) /\ UNCHANGED overlap
      /\ req'[w].at \notin Holding
  BY <1>1, Finished DEF Sound
<1>5. /\ inquiry'[i].status = req[w].to
      /\ \A j \in Inquiries : inquiry'[j].schedule = inquiry[j].schedule
      /\ \A j \in Inquiries \ {i} : inquiry'[j] = inquiry[j]
  BY <1>0, <1>1, StatusWritten
<1>6. /\ \A j \in Inquiries \ {i} : hand'[j] = hand[j]
      /\ hand'[i] = "api" \/ (hand'[i] = "page" /\ req[w].to \in PageMoves[req[w].seen])
  BY <1>0, <1>1, <1>2
<1>7. Tracks(i)'
  BY <1>6 DEF Tracks
<1>8. Finishable(i)'
  <2>1. req[w].to # "NONE"
    BY <1>0 DEF InquiryStatus
  <2>2. ASSUME hand'[i] = "page" PROVE req[w].to # "RECEIVED"
    <3>1. req[w].to \in PageMoves[req[w].seen] /\ req[w].seen \in InquiryStatus
      BY <1>0, <1>6, <2>2
    <3>. QED BY <3>1 DEF PageMoves, InquiryMoves, InquiryStatus
  <2>. QED BY <1>2, <1>5, <1>6, <2>1, <2>2 DEF Finishable
<1>9. \A j : VisitsOf(j)' = VisitsOf(j)
  BY <1>1, OpenSame
<1>10. \A u \in Clients \ {w} : req[u].at = "counted" /\ Tracked(req[u].i) => req[u].i # i
  BY <1>0 DEF Following, Together, Tracked, Sound, Good, Fits, Holding, VisitOps
<1>. QED BY <1>0, <1>1, <1>3, <1>4, <1>5, <1>6, <1>7, <1>8, <1>9, <1>10, BlankSame, WroteFollowing, Values
         DEF Following

LEMMA AddFollowing == ASSUME Sound, Following, NEW w \in Clients, NEW v \in Visits, AddVisitCommit(w, v) PROVE Following'
<1>0. req[w].i \in Inquiries /\ req[w].op = "addVisit" /\ inquiry[req[w].i].status # "NONE"
  BY DEF AddVisitCommit, Sound, Good, Fits, There, InquiryOps
<1>i. PICK i \in Inquiries : i = req[w].i
  BY <1>0
<1>1. /\ visit[v] = NoVisit /\ Finish(w) /\ UNCHANGED hand
      /\ visit' = [visit EXCEPT ![v] = [status |-> "SCHEDULED", inquiry |-> i, requiresFollowUp |-> FALSE]]
      /\ \/ req[w].seen = "RECEIVED" /\ inquiry' = [inquiry EXCEPT ![i].status = "SCHEDULED"]
         \/ req[w].seen # "RECEIVED" /\ UNCHANGED inquiry
  BY <1>i DEF AddVisitCommit
<1>2. Stays
  BY AddVisitSound
<1>3. /\ req'[w] = Idle /\ (\A u \in Clients \ {w} : req'[u] = req[u]) /\ UNCHANGED overlap
      /\ req'[w].at \notin Holding
  BY <1>1, Finished DEF Sound
<1>4. /\ \A j \in Inquiries : inquiry'[j].schedule = inquiry[j].schedule
      /\ \A j \in Inquiries \ {i} : inquiry'[j] = inquiry[j]
      /\ inquiry'[i].status = IF req[w].seen = "RECEIVED" THEN "SCHEDULED" ELSE inquiry[i].status
  BY <1>1, StatusWritten
<1>5. /\ visit'[v].inquiry = i /\ visit'[v].status = "SCHEDULED" /\ visit[v].inquiry = None
      /\ \A x \in Visits : x # v => visit'[x] = visit[x]
  <2>1. visit \in [Visits -> VisitType]
    BY TypeParts DEF Sound
  <2>. QED BY <1>1, <2>1 DEF NoVisit
<1>6. \A j \in Inquiries \ {i} : VisitsOf(j)' = VisitsOf(j) /\ \A x \in VisitsOf(j) : visit'[x] = visit[x]
  BY <1>5, ConstantsAssumption DEF VisitsOf, ConstantsAssumption
<1>7. OpenVisits(i)' # {}
  <2>1. v \in OpenVisits(i)'
    BY <1>5 DEF OpenVisits, VisitsOf, Closed
  <2>. QED BY <2>1
<1>8. overlap # "any" => inquiry'[i].status \notin {"NONE", "RECEIVED", "COMPLETED"}
  BY <1>0, <1>i, <1>4 DEF Following, InTouch, Closed
<1>9. Tracks(i)' /\ Finishable(i)'
  <2>1. Tracked(i)' => overlap # "any"
    BY <1>3 DEF Tracked
  <2>2. Tracks(i)'
    BY <1>7, <1>8, <2>1 DEF Tracks
  <2>3. Finishable(i)'
    BY <1>3, <1>8 DEF Finishable
  <2>. QED BY <2>2, <2>3
<1>10. \A u \in Clients \ {w} : req[u].at = "counted" /\ Tracked(req[u].i) => req[u].i # i
  BY <1>0 DEF Following, Together, Tracked, Sound, Good, Fits, Holding, VisitOps
<1>11. Blank'
  BY <1>5 DEF Following, Blank
<1>. QED BY <1>0, <1>1, <1>2, <1>3, <1>4, <1>6, <1>9, <1>10, <1>11, WroteFollowing, Values

\* A visit closes: its request has one open visit less, if any changes.
LEMMA VisitCloses ==
    ASSUME Sound, Blank, NEW v \in Visits, NEW i \in Inquiries, visit[v].inquiry = i,
           visit'[v].inquiry = i, visit'[v].status \in Closed,
           \A x \in Visits : x # v => visit'[x] = visit[x]
    PROVE  /\ \A j \in Inquiries : VisitsOf(j)' = VisitsOf(j)
           /\ \A j \in Inquiries \ {i} : \A x \in VisitsOf(j) : visit'[x] = visit[x]
           /\ OpenVisits(i)' = OpenVisits(i) \ {v}
           /\ Blank'
<1>1. \A x \in Visits : visit'[x].inquiry = visit[x].inquiry
  OBVIOUS
<1>2. \A j \in Inquiries : VisitsOf(j)' = VisitsOf(j)
  BY <1>1 DEF VisitsOf
<1>3. \A j \in Inquiries \ {i} : \A x \in VisitsOf(j) : visit'[x] = visit[x]
  BY DEF VisitsOf
<1>4. OpenVisits(i)' = OpenVisits(i) \ {v}
  BY <1>2 DEF OpenVisits, VisitsOf
<1>5. Blank'
  BY DEF Blank, Closed
<1>. QED BY <1>2, <1>3, <1>4, <1>5

LEMMA CancelFollowing == ASSUME Sound, Following, NEW w \in Clients, CancelCommit(w) PROVE Following'
<1>0. /\ req[w].i \in Inquiries /\ req[w].v \in Visits /\ req[w].op = "cancelVisit" /\ req[w].at = "counted"
      /\ inquiry[req[w].i].status # "NONE" /\ visit[req[w].v].inquiry = req[w].i
  BY DEF CancelCommit, At, Sound, Good, Fits, There, VisitOps, Holding, Following, InTouch
<1>i. PICK i \in Inquiries, v \in Visits : i = req[w].i /\ v = req[w].v
  BY <1>0
<1>1. /\ visit' = [visit EXCEPT ![v].status = "CANCELED"] /\ Finish(w) /\ UNCHANGED hand
      /\ inquiry' = [inquiry EXCEPT ![i].status = IF req[w].open = 0 /\ @ = "SCHEDULED" THEN "RECEIVED" ELSE @]
  BY <1>i DEF CancelCommit
<1>2. Stays
  BY CancelSound
<1>3. /\ req'[w] = Idle /\ (\A u \in Clients \ {w} : req'[u] = req[u]) /\ UNCHANGED overlap
      /\ req'[w].at \notin Holding
  BY <1>1, Finished DEF Sound
<1>4. /\ \A j \in Inquiries : inquiry'[j].schedule = inquiry[j].schedule
      /\ \A j \in Inquiries \ {i} : inquiry'[j] = inquiry[j]
      /\ inquiry'[i].status = IF req[w].open = 0 /\ inquiry[i].status = "SCHEDULED"
                              THEN "RECEIVED" ELSE inquiry[i].status
  <2>1. PICK to : to = IF req[w].open = 0 /\ inquiry[i].status = "SCHEDULED"
                       THEN "RECEIVED" ELSE inquiry[i].status
    OBVIOUS
  <2>2. inquiry' = [inquiry EXCEPT ![i].status = to]
    BY <1>1, <2>1
  <2>3. /\ inquiry'[i].status = to /\ \A j \in Inquiries : inquiry'[j].schedule = inquiry[j].schedule
        /\ \A j \in Inquiries \ {i} : inquiry'[j] = inquiry[j]
    BY <2>2, StatusWritten
  <2>. QED BY <2>1, <2>3
<1>5. /\ visit'[v].inquiry = i /\ visit[v].inquiry = i /\ visit'[v].status = "CANCELED"
      /\ \A x \in Visits : x # v => visit'[x] = visit[x]
  <2>1. visit \in [Visits -> VisitType]
    BY TypeParts DEF Sound
  <2>. QED BY <1>0, <1>i, <1>1, <2>1 DEF VisitType
<1>6. /\ \A j \in Inquiries : VisitsOf(j)' = VisitsOf(j)
      /\ \A j \in Inquiries \ {i} : \A x \in VisitsOf(j) : visit'[x] = visit[x]
      /\ OpenVisits(i)' = OpenVisits(i) \ {v}
      /\ Blank'
  BY <1>5, VisitCloses DEF Following, Closed
<1>7. Tracked(i) => (req[w].open = 0 <=> OpenVisits(i)' = {})
  BY <1>0, <1>i, <1>6 DEF Following, InTouch
<1>8. Tracked(i)' => Tracked(i)
  BY <1>3, <1>4 DEF Tracked
<1>9. hand'[i] = hand[i] /\ Tracks(i) /\ Finishable(i)
  BY <1>1 DEF Following, Follows
<1>10. Tracks(i)'
  BY <1>4, <1>6, <1>7, <1>8, <1>9 DEF Tracks
<1>11. Finishable(i)'
  BY <1>3, <1>4, <1>6, <1>7, <1>9 DEF Finishable, Tracked
<1>12. \A u \in Clients \ {w} : req[u].at = "counted" /\ Tracked(req[u].i) => req[u].i # i
  BY <1>0 DEF Following, Together, Tracked, Sound, Good, Fits, Holding, VisitOps
<1>. QED BY <1>0, <1>1, <1>2, <1>3, <1>4, <1>6, <1>10, <1>11, <1>12, WroteFollowing, Values

\* The last visit of a request completes it, and only the last one does.
LEMMA CompleteFollowing == ASSUME Sound, Calm, Following, NEW w \in Clients, CompleteCommit(w) PROVE Following'
<1>0. /\ req[w].i \in Inquiries /\ req[w].v \in Visits /\ req[w].op = "completeVisit" /\ req[w].at = "counted"
      /\ inquiry[req[w].i].status # "NONE" /\ visit[req[w].v].inquiry = req[w].i
  BY DEF CompleteCommit, At, Sound, Good, Fits, There, VisitOps, Holding, Following, InTouch
<1>i. PICK i \in Inquiries, v \in Visits : i = req[w].i /\ v = req[w].v
  BY <1>0
<1>1. PICK followUp \in BOOLEAN, to \in AfterVisit \cup {"AVAILABLE"} :
         /\ visit' = [visit EXCEPT ![v].status = "COMPLETED", ![v].requiresFollowUp = followUp]
         /\ \/ ClosesInquiry(req[w], followUp) /\ inquiry' = [inquiry EXCEPT ![i].status = "COMPLETED"]
            \/ ~ClosesInquiry(req[w], followUp) /\ UNCHANGED inquiry
         /\ req' = [req EXCEPT ![w] = [Idle EXCEPT !.op = "completeVisit", !.at = "committed",
                                                   !.a = inquiry[i].asset, !.to = to]]
         /\ UNCHANGED <<hand, overlap>>
  BY <1>i DEF CompleteCommit
<1>2. Stays
  BY CompleteSound
<1>3. /\ req'[w].op = "completeVisit" /\ req'[w].at \notin Holding
      /\ \A u \in Clients \ {w} : req'[u] = req[u]
  <2>1. req \in [Clients -> Request]
    BY TypeParts DEF Sound
  <2>. QED BY <1>1, <2>1 DEF Idle, Holding
<1>4. /\ \A j \in Inquiries : inquiry'[j].schedule = inquiry[j].schedule
      /\ \A j \in Inquiries \ {i} : inquiry'[j] = inquiry[j]
      /\ inquiry'[i].status = IF ClosesInquiry(req[w], followUp) THEN "COMPLETED" ELSE inquiry[i].status
  BY <1>1, StatusWritten
<1>5. /\ visit'[v].inquiry = i /\ visit[v].inquiry = i /\ visit'[v].status = "COMPLETED"
      /\ visit'[v].requiresFollowUp = followUp
      /\ \A x \in Visits : x # v => visit'[x] = visit[x]
  <2>1. visit \in [Visits -> VisitType]
    BY TypeParts DEF Sound
  <2>. QED BY <1>0, <1>i, <1>1, <2>1 DEF VisitType
<1>6. /\ \A j \in Inquiries : VisitsOf(j)' = VisitsOf(j)
      /\ \A j \in Inquiries \ {i} : \A x \in VisitsOf(j) : visit'[x] = visit[x]
      /\ OpenVisits(i)' = OpenVisits(i) \ {v}
      /\ Blank'
  BY <1>5, VisitCloses DEF Following, Closed
<1>7. Tracked(i) => (req[w].open = 0 <=> OpenVisits(i)' = {})
  BY <1>0, <1>i, <1>6 DEF Following, InTouch
<1>8. Tracked(i)' => Tracked(i)
  BY <1>1, <1>4 DEF Tracked
<1>9. hand'[i] = hand[i] /\ Tracks(i) /\ Finishable(i)
  BY <1>1 DEF Following, Follows
<1>10. Tracks(i)'
  <2>1. req[w].seen \in Closed => inquiry[i].status \in Closed
    BY <1>0, <1>i DEF Following, InTouch, Holding
  <2>2. followUp => v \in VisitsOf(i)' /\ Called(v)'
    BY <1>5, <1>6 DEF VisitsOf, Called
  <2>3. CASE ClosesInquiry(req[w], followUp)
    BY <1>4, <1>7, <1>8, <2>3 DEF Tracks, ClosesInquiry
  <2>4. CASE ~ClosesInquiry(req[w], followUp)
    BY <1>4, <1>6, <1>7, <1>8, <1>9, <2>1, <2>2, <2>4 DEF Tracks, ClosesInquiry, Closed
  <2>. QED BY <2>3, <2>4
<1>11. Finishable(i)'
  BY <1>1, <1>4, <1>6, <1>9 DEF Finishable
<1>12. ASSUME NEW u \in Clients \ {w}, req[u].at = "counted", Tracked(req[u].i) PROVE req[u].i # i
  <2>1. req[u].op # "idle"
    BY <1>12 DEF Sound, Good, Fits, Holding, VisitOps
  <2>2. overlap = "completions" /\ inquiry[req[u].i].schedule # None
    BY <1>0, <1>12, <2>1 DEF Tracked, Calm, Sole
  <2>3. req[u].op = "completeVisit" /\ visit[req[u].v].inquiry = req[u].i
    BY <1>0, <1>12, <2>1, <2>2 DEF Following, Together, InTouch, Holding
  <2>4. ScheduleOf(req[u].v) # ScheduleOf(req[w].v)
    BY <1>0, <1>12, <2>2, <2>3 DEF Following, Turns, At, ScheduleOf
  <2>. QED BY <1>0, <1>i, <2>3, <2>4 DEF ScheduleOf
<1>13. UNCHANGED <<hand, overlap>>
  BY <1>1
<1>. QED BY <1>0, <1>13, <1>2, <1>3, <1>4, <1>6, <1>9, <1>10, <1>11, <1>12, WroteFollowing

LEMMA NextFollowing == ASSUME Sound, Calm, Following, [Next]_vars PROVE Following'
<1>1. ASSUME NEW w \in Clients, EditInquiryCommit(w) \/ RemoveInquiryCommit(w) PROVE Following'
  <2>1. inquiry \in [Inquiries -> InquiryType] /\ req[w].i \in Inquiries
    BY <1>1, TypeParts DEF EditInquiryCommit, RemoveInquiryCommit, Sound, Good, Fits, InquiryOps
  <2>2. SameInquiries
    <3>1. PICK i \in Inquiries : i = req[w].i
      BY <2>1
    <3>2. \/ \E isWarranty \in BOOLEAN : inquiry' = [inquiry EXCEPT ![i].isWarranty = isWarranty]
          \/ inquiry' = [inquiry EXCEPT ![i].deleted = TRUE]
      BY <1>1, <3>1 DEF EditInquiryCommit, RemoveInquiryCommit
    <3>. QED BY <2>1, <3>2 DEF SameInquiries, InquiryType
  <2>3. Finish(w) /\ UNCHANGED <<visit, hand>> /\ Grows
    BY <1>1 DEF EditInquiryCommit, RemoveInquiryCommit, Finish, Grows
  <2>. QED BY <1>1, <2>2, <2>3, InquirySound, EndFollowing
<1>2. ASSUME NEW w \in Clients, ReadAsset(w) \/ WriteAsset(w) \/ Abort(w) PROVE Following'
  <2>1. UNCHANGED <<visit, hand, inquiry, overlap>>
    BY <1>2 DEF ReadAsset, WriteAsset, Abort, Finish, Keep, rows
  <2>2. SameInquiries /\ Stays /\ Grows /\ ScheduleStays
    BY <2>1 DEF SameInquiries, Stays, InquiryStays, VisitStays, Grows, ScheduleStays
  <2>3. CASE Finish(w)
    BY <2>1, <2>2, <2>3, EndFollowing
  <2>4. CASE ReadAsset(w) /\ ~Finish(w)
    <3> DEFINE r == [req[w] EXCEPT !.at = "asset", !.seen = asset[req[w].a]]
    <3>1. req' = [req EXCEPT ![w] = r] /\ req[w].at = "committed"
      BY <2>4 DEF ReadAsset, Keep
    <3>2. req \in [Clients -> Request] /\ req[w].op = "completeVisit"
      BY <3>1, TypeParts DEF Sound, Good, Fits
    <3>3. r.op = req[w].op /\ r.at = "asset"
      BY <3>2 DEF Request
    <3> HIDE DEF r
    <3>4. req'[w] = r /\ \A u \in Clients \ {w} : req'[u] = req[u]
      BY <3>1, <3>2
    <3>5. InTouch(w)' /\ Together' /\ Turns'
      BY <2>2, <3>2, <3>3, <3>4, IdleInTouch DEF Holding
    <3>. QED BY <2>1, <2>2, <3>4, <3>5, OneFollowing
  <2>. QED BY <1>2, <2>3, <2>4 DEF WriteAsset, Abort
<1>3. CASE UNCHANGED vars
  <2>1. UNCHANGED <<visit, hand, inquiry, overlap, req>>
    BY <1>3 DEF vars, rows
  <2>2. SameInquiries /\ Stays /\ Grows /\ ScheduleStays
    BY <2>1 DEF SameInquiries, Stays, InquiryStays, VisitStays, Grows, ScheduleStays
  <2>3. Blank' /\ Follows' /\ Together'
    BY <2>1, <2>2, BlankSame, FollowsSame, TogetherSame DEF Following
  <2>4. Turns'
    BY <2>1, <2>2, TurnsSame DEF Following, At
  <2>5. \A u \in Clients : InTouch(u)'
    BY <2>1, <2>2, OtherInTouch, OpenSame DEF Following
  <2>. QED BY <2>3, <2>4, <2>5 DEF Following
<1>. QED BY <1>1, <1>2, <1>3, BeginFollowing, KeepFollowing, CreateFollowing, SetFollowing, AddFollowing,
            CancelFollowing, CompleteFollowing DEF Next, Continue

LEMMA AlwaysFollowing == Spec => []Following
<1>1. Sound /\ Calm /\ Following /\ [Next]_vars => Following'
  BY NextFollowing
<1>. QED BY <1>1, InitFollowing, AlwaysSound, AlwaysCalm, PTL DEF Spec

\* A request that staff have not set follows its visits, and none of its visits is ever
\* stuck: as long as operations do not overlap, and with a maintenance schedule, the row
\* that two completions of visits take turns at, even when visits are completed at once.
THEOREM RequestsFollowVisits == Spec => []RequestFollowsVisits
<1>1. ASSUME Sound, Following PROVE StatusTracksVisits
  BY <1>1 DEF Following, Follows, Tracks, Tracked, Called, StatusTracksVisits
<1>2. ASSUME Sound, Following PROVE VisitsCanBeFinished
  <2> SUFFICES ASSUME overlap = "none", NEW i \in Inquiries, hand[i] # "api", OpenVisits(i) # {},
                      inquiry[i].status \notin Closed
               PROVE  MayBecome(InquiryMoves, inquiry[i].status, "COMPLETED")
    BY DEF VisitsCanBeFinished
  <2>1. inquiry[i].status \notin {"NONE", "RECEIVED"}
    BY <1>2 DEF Following, Follows, Finishable
  <2>2. inquiry[i].status \in InquiryStatus \cup {"NONE"}
    BY <1>2, TypeParts DEF Sound, InquiryType
  <2>3. inquiry[i].status \in {"SCHEDULED", "IN_PROGRESS", "WAITING_FOR_PARTS"}
    BY <2>1, <2>2 DEF InquiryStatus, Closed
  <2>. QED BY <2>3 DEF MayBecome, InquiryMoves
<1>3. Sound /\ Following => RequestFollowsVisits
  BY <1>1, <1>2 DEF RequestFollowsVisits
<1>. QED BY <1>3, AlwaysSound, AlwaysFollowing, PTL
=============================================================================
