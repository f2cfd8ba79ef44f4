----------------------------- MODULE AfterService -----------------------------
(***************************************************************************)
(* After-service: the requests customers make about their equipment, the   *)
(* visits of the staff, the fee invoiced for a visit, the inspection date  *)
(* it leaves on a maintenance schedule and the status it leaves on the     *)
(* equipment: ServiceRequestService, ServiceVisitService, AssetService     *)
(* .changeStatus and InvoiceService.createServiceFeeInvoice of apps/api,   *)
(* and the status menu of the service request page of apps/web.            *)
(*                                                                         *)
(* Transactions run under READ COMMITTED: each statement sees what others  *)
(* have committed, and what this one has written; an updated row is        *)
(* locked until the end.  A visit is completed in one transaction, and     *)
(* the status of its equipment is changed after it in another.             *)
(***************************************************************************)
EXTENDS Naturals, FiniteSets

CONSTANTS
    Inquiries,    \* rows of ServiceRequest
    Visits,
    Schedules,    \* maintenance schedules
    Assets,
    Clients,      \* requests the server handles at a time
    None,
    Operations,   \* what the clients ask for
    AfterVisit,   \* the statuses staff choose for equipment
    MaxOverlapping \* bound: operations begun while or after others overlapped

OperationKinds == {"addVisit", "completeVisit", "cancelVisit", "editInquiry",
                   "setInquiry", "removeInquiry"}

InquiryStatus == {"RECEIVED", "SCHEDULED", "IN_PROGRESS", "WAITING_FOR_PARTS", "COMPLETED", "CANCELED"}
VisitStatus == {"SCHEDULED", "IN_PROGRESS", "COMPLETED", "CANCELED"}
AssetStatus == {"INCOMING", "AVAILABLE", "RENTED", "REPAIR", "UNAVAILABLE", "SOLD", "DISPOSED", "LOST"}

ASSUME ConstantsAssumption ==
    /\ None \notin Inquiries \cup Visits \cup Schedules \cup Assets
    /\ Operations \subseteq OperationKinds
    /\ AfterVisit \subseteq AssetStatus
    /\ IsFiniteSet(Visits)
    /\ MaxOverlapping \in Nat

VARIABLES
    inquiry,    \* [Inquiries -> [status, deleted, isWarranty, asset, schedule]]
    visit,      \* [Visits -> [status, inquiry, requiresFollowUp]]
    fees,       \* [Visits -> Nat], the service fee invoices made for a visit
    inspection, \* [Schedules -> the visit that set lastInspectedAt and nextScheduledAt, or None]
    asset,      \* [Assets -> AssetStatus]
    event,      \* [Assets -> the last AssetEvent: from, to]
    req,        \* what each client is handling, with what it has read
    hand,       \* history: [Inquiries -> how staff have set its status: "no", "page", "api"]
    overlap,    \* history: which operations were ever in flight together:
                \* "none", only "completions" of visits, or "any"
    left        \* history: how many more operations MaxOverlapping allows

rows == <<inquiry, visit, fees, inspection, asset, event, hand>>
vars == <<rows, req, overlap, left>>

Idle == [op |-> "idle", at |-> "start", i |-> None, v |-> None, a |-> None, to |-> "NONE",
         seen |-> "NONE", open |-> 0, free |-> FALSE]

NoInquiry == [status |-> "NONE", deleted |-> FALSE, isWarranty |-> FALSE, asset |-> None, schedule |-> None]
NoVisit == [status |-> "NONE", inquiry |-> None, requiresFollowUp |-> FALSE]
NoEvent == [from |-> "NONE", to |-> "NONE"]

Closed == {"COMPLETED", "CANCELED"}
VisitsOf(i) == {v \in Visits : visit[v].inquiry = i}
OpenVisits(i) == {v \in VisitsOf(i) : visit[v].status \notin Closed}
ScheduleOf(v) == inquiry[visit[v].inquiry].schedule

Client(w, op) == op \in Operations /\ req[w] = Idle
At(w, op, at) == req[w].op = op /\ req[w].at = at
Keep(w, r) == req' = [req EXCEPT ![w] = r] /\ UNCHANGED <<rows, overlap, left>>
Finish(w) == req' = [req EXCEPT ![w] = Idle] /\ UNCHANGED <<overlap, left>>

Remember(w, r) ==
    /\ req' = [req EXCEPT ![w] = r]
    /\ LET others == {req[u].op : u \in Clients \ {w}} \ {"idle"} IN
       overlap' = IF others = {} THEN overlap
                  ELSE IF overlap # "any" /\ others \cup {r.op} = {"completeVisit"} THEN "completions"
                  ELSE "any"
    /\ IF overlap' = "none" THEN UNCHANGED left ELSE left > 0 /\ left' = left - 1
    /\ UNCHANGED rows

Init ==
    /\ inquiry = [i \in Inquiries |-> NoInquiry]
    /\ visit = [v \in Visits |-> NoVisit]
    /\ fees = [v \in Visits |-> 0]
    /\ inspection = [s \in Schedules |-> None]
    /\ asset \in [Assets -> {"AVAILABLE", "RENTED"}]
    /\ event = [a \in Assets |-> NoEvent]
    /\ req = [w \in Clients |-> Idle]
    /\ hand = [i \in Inquiries |-> "no"]
    /\ overlap = "none"
    /\ left = MaxOverlapping

-----------------------------------------------------------------------------
(* The triggers on the status columns *)

InquiryMoves == [NONE |-> {},
                 RECEIVED |-> {"SCHEDULED", "IN_PROGRESS", "CANCELED"},
                 SCHEDULED |-> {"RECEIVED", "IN_PROGRESS", "WAITING_FOR_PARTS", "COMPLETED", "CANCELED"},
                 IN_PROGRESS |-> {"WAITING_FOR_PARTS", "COMPLETED", "CANCELED"},
                 WAITING_FOR_PARTS |-> {"SCHEDULED", "IN_PROGRESS", "COMPLETED", "CANCELED"},
                 COMPLETED |-> {}, CANCELED |-> {}]

\* Mutated: closed visits and requests are left to the services to protect.
MayBecomeUnguarded(moves, from, to) == from = to \/ from \in Closed \/ to \in moves[from]

MayBecome(moves, from, to) == from = to \/ to \in moves[from]

VisitMoves == [SCHEDULED |-> {"IN_PROGRESS", "COMPLETED", "CANCELED"},
               IN_PROGRESS |-> {"COMPLETED", "CANCELED"},
               COMPLETED |-> {}, CANCELED |-> {}]

AssetMoves == [INCOMING    |-> {"AVAILABLE", "DISPOSED"},
               AVAILABLE   |-> {"RENTED", "SOLD", "REPAIR", "UNAVAILABLE", "DISPOSED", "LOST"},
               RENTED      |-> {"AVAILABLE", "REPAIR", "DISPOSED", "LOST"},
               REPAIR      |-> {"AVAILABLE", "DISPOSED", "LOST"},
               UNAVAILABLE |-> {"AVAILABLE", "REPAIR", "DISPOSED", "LOST"},
               LOST        |-> {"AVAILABLE"},
               SOLD |-> {}, DISPOSED |-> {}]

-----------------------------------------------------------------------------
(* ServiceRequestService *)

\* The warranty is given, or found from the rental the equipment was last in.
CreateInquiry(i) ==
    /\ inquiry[i] = NoInquiry
    /\ \E isWarranty \in BOOLEAN, a \in Assets, s \in Schedules \cup {None} :
         inquiry' = [inquiry EXCEPT ![i] = [status |-> "RECEIVED", deleted |-> FALSE,
                                            isWarranty |-> isWarranty, asset |-> a, schedule |-> s]]
    /\ UNCHANGED <<visit, fees, inspection, asset, event, hand, req, overlap, left>>

\* update, changeStatus, softDelete: each reads the row first.
EditInquiryBegin(w, i, op) ==
    /\ op \in {"editInquiry", "setInquiry", "removeInquiry"} /\ Client(w, op)
    /\ inquiry[i].status # "NONE" /\ ~inquiry[i].deleted
    /\ op = "removeInquiry" => inquiry[i].status \notin {"IN_PROGRESS", "WAITING_FOR_PARTS"}
    /\ \E to \in IF op = "setInquiry" THEN InquiryStatus ELSE {"NONE"} :
         /\ inquiry[i].status \in Closed /\ to \in Closed => to = inquiry[i].status
         /\ Remember(w, [Idle EXCEPT !.op = op, !.i = i, !.to = to,
                               !.seen = IF op = "setInquiry" THEN inquiry[i].status ELSE "NONE"])

EditInquiryCommit(w) ==
    /\ req[w].op = "editInquiry"
    /\ \E isWarranty \in BOOLEAN : inquiry' = [inquiry EXCEPT ![req[w].i].isWarranty = isWarranty]
    /\ Finish(w)
    /\ UNCHANGED <<visit, fees, inspection, asset, event, hand>>

\* The statuses the page of a request offers next.
PageMoves == [InquiryMoves EXCEPT !.SCHEDULED = @ \ {"RECEIVED"}]

\* changeStatus: the trigger looks at the current status.
SetInquiryCommit(w) ==
    LET i == req[w].i  to == req[w].to IN
    /\ req[w].op = "setInquiry"
    /\ MayBecome(InquiryMoves, inquiry[i].status, to)
    /\ inquiry' = [inquiry EXCEPT ![i].status = to]
    /\ hand' = [hand EXCEPT ![i] = IF @ # "api" /\ to \in PageMoves[req[w].seen] THEN "page" ELSE "api"]
    /\ Finish(w)
    /\ UNCHANGED <<visit, fees, inspection, asset, event>>

RemoveInquiryCommit(w) ==
    /\ req[w].op = "removeInquiry"
    /\ inquiry' = [inquiry EXCEPT ![req[w].i].deleted = TRUE]
    /\ Finish(w)
    /\ UNCHANGED <<visit, fees, inspection, asset, event, hand>>

-----------------------------------------------------------------------------
(* ServiceVisitService.create *)

AddVisitBegin(w, i) ==
    /\ Client(w, "addVisit")
    /\ inquiry[i].status \notin Closed \cup {"NONE"} /\ ~inquiry[i].deleted
    /\ Remember(w, [Idle EXCEPT !.op = "addVisit", !.i = i, !.seen = inquiry[i].status])

\* One transaction: the visit, and RECEIVED becomes SCHEDULED.
AddVisitCommit(w, v) ==
    LET i == req[w].i IN
    /\ req[w].op = "addVisit"
    /\ visit[v] = NoVisit
    /\ visit' = [visit EXCEPT ![v] = [status |-> "SCHEDULED", inquiry |-> i, requiresFollowUp |-> FALSE]]
    /\ IF req[w].seen = "RECEIVED"
       THEN /\ MayBecome(InquiryMoves, inquiry[i].status, "SCHEDULED")
            /\ inquiry' = [inquiry EXCEPT ![i].status = "SCHEDULED"]
       ELSE UNCHANGED inquiry
    /\ Finish(w)
    /\ UNCHANGED <<fees, inspection, asset, event, hand>>

-----------------------------------------------------------------------------
(* ServiceVisitService.complete and cancel.  Each updates the visit, which  *)
(* stays locked; then counts the request's other open visits.               *)

\* The rows a transaction under way has updated.
VisitUnlocked(v) == \A u \in Clients : req[u].v = v => req[u].at \notin {"updated", "counted"}

\* Mutated: the schedule is written after the transaction.
ScheduleNeverLocked(s) == TRUE

ScheduleUnlocked(s) ==
    s = None \/ \A u \in Clients : At(u, "completeVisit", "counted") => ScheduleOf(req[u].v) # s

\* Mutated: a visit already completed can be completed again.
MayCompleteAgain(v) == visit[v].status \notin {"NONE", "CANCELED"}

MayComplete(v) == visit[v].status \notin Closed \cup {"NONE"}

CompleteBegin(w, v) ==
    /\ Client(w, "completeVisit")
    /\ MayComplete(v)
    /\ Remember(w, [Idle EXCEPT !.op = "completeVisit", !.v = v])

\* The visit is updated, then its request read.
CompleteVisit(w) ==
    LET v == req[w].v  i == visit[v].inquiry IN
    /\ At(w, "completeVisit", "start") /\ VisitUnlocked(v)
    /\ MayBecome(VisitMoves, visit[v].status, "COMPLETED")
    /\ Keep(w, [req[w] EXCEPT !.at = "updated", !.i = i, !.seen = inquiry[i].status,
                               !.free = inquiry[i].isWarranty])

\* The invoice and the schedule are written, then the open visits counted.
CompleteCount(w) ==
    /\ At(w, "completeVisit", "updated")
    /\ ScheduleUnlocked(ScheduleOf(req[w].v))
    /\ Keep(w, [req[w] EXCEPT !.at = "counted", !.open = Cardinality(OpenVisits(req[w].i) \ {req[w].v})])

ClosesInquiry(r, followUp) == ~followUp /\ r.open = 0 /\ r.seen \notin Closed

\* The end of the transaction, with what the caller gave: whether a visit must follow,
\* whether it cost anything, and the status the equipment gets next.  One left out,
\* which the form calls no change, is AVAILABLE.
CompleteCommit(w) ==
    LET v == req[w].v  i == req[w].i IN
    /\ At(w, "completeVisit", "counted")
    /\ \E followUp, cost \in BOOLEAN, to \in AfterVisit \cup {"AVAILABLE"} :
         /\ visit' = [visit EXCEPT ![v].status = "COMPLETED", ![v].requiresFollowUp = followUp]
         /\ fees' = [fees EXCEPT ![v] = @ + IF cost /\ ~req[w].free THEN 1 ELSE 0]
         /\ inspection' = [s \in Schedules |-> IF s = ScheduleOf(v) THEN v ELSE inspection[s]]
         /\ IF ClosesInquiry(req[w], followUp)
            THEN /\ MayBecome(InquiryMoves, inquiry[i].status, "COMPLETED")
                 /\ inquiry' = [inquiry EXCEPT ![i].status = "COMPLETED"]
            ELSE UNCHANGED inquiry
         /\ req' = [req EXCEPT ![w] = [Idle EXCEPT !.op = "completeVisit", !.at = "committed",
                                                   !.a = inquiry[i].asset, !.to = to]]
    /\ UNCHANGED <<asset, event, hand, overlap, left>>

CancelBegin(w, v) ==
    /\ Client(w, "cancelVisit")
    /\ visit[v].status \notin {"NONE", "COMPLETED"}
    /\ Remember(w, [Idle EXCEPT !.op = "cancelVisit", !.v = v, !.i = visit[v].inquiry])

\* Mutated: the visit is not looked at again.
CancelVisitUnguarded(w) ==
    /\ At(w, "cancelVisit", "start")
    /\ Keep(w, [req[w] EXCEPT !.at = "updated"])

CancelVisit(w) ==
    /\ At(w, "cancelVisit", "start") /\ VisitUnlocked(req[w].v)
    /\ MayBecome(VisitMoves, visit[req[w].v].status, "CANCELED")
    /\ Keep(w, [req[w] EXCEPT !.at = "updated"])

CancelCount(w) ==
    /\ At(w, "cancelVisit", "updated")
    /\ Keep(w, [req[w] EXCEPT !.at = "counted", !.open = Cardinality(OpenVisits(req[w].i) \ {req[w].v})])

\* With no visit left open, the request is read, and put back if SCHEDULED.
CancelCommit(w) ==
    LET i == req[w].i IN
    /\ At(w, "cancelVisit", "counted")
    /\ visit' = [visit EXCEPT ![req[w].v].status = "CANCELED"]
    /\ inquiry' = [inquiry EXCEPT ![i].status =
                      IF req[w].open = 0 /\ @ = "SCHEDULED" THEN "RECEIVED" ELSE @]
    /\ Finish(w)
    /\ UNCHANGED <<fees, inspection, asset, event, hand>>

-----------------------------------------------------------------------------
(* AssetService.changeStatus, after a visit *)

ReadAsset(w) ==
    /\ req[w].at = "committed"
    /\ IF asset[req[w].a] = req[w].to
       THEN Finish(w) /\ UNCHANGED rows
       ELSE Keep(w, [req[w] EXCEPT !.at = "asset", !.seen = asset[req[w].a]])

\* Mutated: no event when the equipment becomes available again.
WriteAssetSilently(w) ==
    LET a == req[w].a IN
    /\ req[w].at = "asset"
    /\ MayBecome(AssetMoves, asset[a], req[w].to)
    /\ asset' = [asset EXCEPT ![a] = req[w].to]
    /\ event' = IF req[w].to = "AVAILABLE" THEN event
                ELSE [event EXCEPT ![a] = [from |-> req[w].seen, to |-> req[w].to]]
    /\ Finish(w)
    /\ UNCHANGED <<inquiry, visit, fees, inspection, hand>>

WriteAsset(w) ==
    LET a == req[w].a IN
    /\ req[w].at = "asset"
    /\ MayBecome(AssetMoves, asset[a], req[w].to)
    /\ asset' = [asset EXCEPT ![a] = req[w].to]
    /\ event' = [event EXCEPT ![a] = [from |-> req[w].seen, to |-> req[w].to]]
    /\ Finish(w)
    /\ UNCHANGED <<inquiry, visit, fees, inspection, hand>>

\* A refused statement, a lost connection or a restart of the server.
Abort(w) ==
    /\ req[w] # Idle
    /\ Finish(w)
    /\ UNCHANGED rows

Begin(w) ==
    \/ \E i \in Inquiries : AddVisitBegin(w, i) \/ \E op \in Operations : EditInquiryBegin(w, i, op)
    \/ \E v \in Visits : CompleteBegin(w, v) \/ CancelBegin(w, v)

Continue(w) ==
    \/ EditInquiryCommit(w) \/ SetInquiryCommit(w) \/ RemoveInquiryCommit(w)
    \/ \E v \in Visits : AddVisitCommit(w, v)
    \/ CompleteVisit(w) \/ CompleteCount(w) \/ CompleteCommit(w)
    \/ CancelVisit(w) \/ CancelCount(w) \/ CancelCommit(w)
    \/ ReadAsset(w) \/ WriteAsset(w)

Next ==
    \/ \E i \in Inquiries : CreateInquiry(i)
    \/ \E w \in Clients : Begin(w) \/ Continue(w) \/ Abort(w)

Spec == Init /\ [][Next]_vars

-----------------------------------------------------------------------------
Request == [op : OperationKinds \cup {"idle"}, at : {"start", "updated", "counted", "committed", "asset"},
            i : Inquiries \cup {None}, v : Visits \cup {None}, a : Assets \cup {None},
            to : InquiryStatus \cup AssetStatus \cup {"NONE"},
            seen : InquiryStatus \cup AssetStatus \cup {"NONE"},
            open : Nat, free : BOOLEAN]

\* Every table and every request in flight has the shape the schema gives it.
TypeOK ==
    /\ inquiry \in [Inquiries -> [status : InquiryStatus \cup {"NONE"}, deleted : BOOLEAN, isWarranty : BOOLEAN,
                                  asset : Assets \cup {None}, schedule : Schedules \cup {None}]]
    /\ visit \in [Visits -> [status : VisitStatus \cup {"NONE"}, inquiry : Inquiries \cup {None},
                             requiresFollowUp : BOOLEAN]]
    /\ fees \in [Visits -> Nat]
    /\ inspection \in [Schedules -> Visits \cup {None}]
    /\ asset \in [Assets -> AssetStatus]
    /\ event \in [Assets -> [from : AssetStatus, to : AssetStatus] \cup {NoEvent}]
    /\ req \in [Clients -> Request]
    /\ hand \in [Inquiries -> {"no", "page", "api"}]
    /\ overlap \in {"none", "completions", "any"}
    /\ left \in 0..MaxOverlapping

(* However operations overlap *)

\* A visit completed or canceled, and a request completed or canceled, is never opened
\* again, nor does one end become the other: not by a request that read it open before.
ClosedForGood ==
    [][/\ \A v \in Visits : visit[v].status \in Closed => visit'[v].status = visit[v].status
       /\ \A i \in Inquiries : inquiry[i].status \in Closed => inquiry'[i].status = inquiry[i].status]_vars

\* A fee is only billed, and an inspection only recorded, for a visit that is completed,
\* though it may be canceled at the same moment.
PaidForWorkDone ==
    /\ \A v \in Visits : fees[v] > 0 => visit[v].status = "COMPLETED"
    /\ \A s \in Schedules : inspection[s] # None => visit[inspection[s]].status = "COMPLETED"

\* Equipment changes status together with an event that tells its new status, and, as
\* long as operations did not overlap, the one it had.
EveryChangeIsRecorded ==
    [][\A a \in Assets : asset'[a] # asset[a] =>
          /\ event'[a].to = asset'[a]
          /\ overlap = "none" => event'[a].from = asset[a]]_vars

(* As long as operations did not overlap *)

\* A visit is billed once.
FeeBilledOnce == overlap = "none" => \A v \in Visits : fees[v] <= 1

\* The status of a request staff have not set follows from its visits: none is open when
\* it is RECEIVED or COMPLETED, one is open or asked for another when it is SCHEDULED.
\* With a maintenance schedule, whose row they both update, two visits may even be
\* completed at once.
StatusTracksVisits ==
    \A i \in Inquiries :
       LET Called(v) == visit[v].status = "COMPLETED" /\ visit[v].requiresFollowUp IN
       (overlap = "none" \/ (overlap = "completions" /\ inquiry[i].schedule # None)) /\ hand[i] = "no" =>
         /\ inquiry[i].status \in {"RECEIVED", "COMPLETED"} => OpenVisits(i) = {}
         /\ inquiry[i].status = "SCHEDULED" => OpenVisits(i) # {} \/ (\E v \in VisitsOf(i) : Called(v))

\* The request of an open visit can always take the status that completing its last
\* visit gives it, whatever staff choose on its page.
VisitsCanBeFinished ==
    overlap = "none" =>
       \A i \in Inquiries : hand[i] # "api" /\ OpenVisits(i) # {} =>
          inquiry[i].status \in Closed \/ MayBecome(InquiryMoves, inquiry[i].status, "COMPLETED")

\* Both: the request goes where its visits go, and never stands in their way.
RequestFollowsVisits == StatusTracksVisits /\ VisitsCanBeFinished
=============================================================================
