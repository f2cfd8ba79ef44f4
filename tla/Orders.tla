------------------------------- MODULE Orders -------------------------------
(***************************************************************************)
(* Quotations, the orders made from them or entered directly, and the      *)
(* delivery of a sale, which sells the equipment and issues the invoice:   *)
(* QuotationService, QuotationExpiryCron, OrderService, SaleOrderService,  *)
(* RentalOrderService, what InvoiceService does to invoices that name an   *)
(* order, of apps/api, and the buttons of the quotation and order pages of *)
(* apps/web.                                                               *)
(*                                                                         *)
(* A request reads (XxxBegin), then writes (XxxCommit): one statement or   *)
(* one transaction addressing rows by primary key, which the constraints   *)
(* of the database check against the current rows.                         *)
(***************************************************************************)
EXTENDS Naturals, FiniteSets

CONSTANTS
    Quotations, Orders, Lines,   \* rows; a line is an order's item, used at most once
    Assets,
    Clients,
    None,
    Requests,
    MaxOpenOrders,    \* bound: at most so many orders neither delivered nor canceled
    MaxOverlapOrders, \* bound: at most so many orders once requests have overlapped
    Mixed             \* bound: FALSE, invoices made by hand only while there is no quotation

RequestKinds == {"editQuotation", "removeQuotation", "setQuotation", "convert", "createOrder",
                 "setOrder", "removeOrder", "addLine", "updateLine", "removeLine",
                 "createInvoice", "addItem", "removeItem", "issue"}

QuotationStatus == {"NONE", "DRAFT", "SENT", "ACCEPTED", "REJECTED", "EXPIRED"}
OrderStatus == {"NONE", "REGISTERED", "CONFIRMED", "IN_DELIVERY", "DELIVERED", "CANCELED", "REMOVED"}

ASSUME ConstantsAssumption ==
    /\ None \notin Quotations \cup Orders \cup Lines \cup Assets
    /\ Requests \subseteq RequestKinds
    /\ MaxOpenOrders \in Nat /\ MaxOverlapOrders \in Nat
    /\ Mixed \in BOOLEAN

VARIABLES
    quotation, \* [Quotations -> [status, kind, offer, order]]: offer, the equipment
               \* its items name; order, its convertedOrderId
    order,     \* [Orders -> [status, kind, from]], from: history, the quotation it was made of
    line,      \* [Lines -> [order, asset]], asset None: it names no piece of equipment
    asset,     \* [Assets -> {"AVAILABLE", "RENTED", "SOLD"}]
    invoice,   \* [Orders -> [status, by, items]]: the invoice whose saleOrderId the order
               \* is, one at most by a unique index; by, who made it: "delivery" or
               \* "staff" (createdById); items, the lines on it
    req,       \* the request each client is handling, with what it has read
    alone      \* history: so far, no two requests were ever in flight together

rows == <<quotation, order, line, asset, invoice>>
vars == <<rows, req, alone>>

Idle == [op |-> "idle", q |-> None, o |-> None, l |-> None, to |-> "NONE",
         kind |-> "SALE", offer |-> {}, seen |-> {}]

NoLine == [order |-> None, asset |-> None]
NoOrder == [status |-> "NONE", kind |-> "SALE", from |-> None]
NoInvoice == [status |-> "NONE", by |-> "NONE", items |-> {}]
NoQuotation == [status |-> "NONE", kind |-> "SALE", offer |-> {}, order |-> None]

LinesOf(o) == {l \in Lines : line[l].order = o}
AsBilled(l) == [line |-> l, asset |-> line[l].asset]
IsItem(l) == \E o \in Orders : \E x \in invoice[o].items : x.line = l
Existing == {o \in Orders : order[o].status # "NONE"}
Few(S, apart) ==
    /\ Cardinality({o \in S : order[o].status \notin {"DELIVERED", "CANCELED", "REMOVED"}}) <= MaxOpenOrders
    /\ apart \/ Cardinality(S) <= MaxOverlapOrders

Client(w, op) == op \in Requests /\ req[w] = Idle
Remember(w, r) ==
    /\ req' = [req EXCEPT ![w] = r]
    /\ alone' = (alone /\ \A u \in Clients \ {w} : req[u] = Idle)
    /\ Few(Existing, alone')
    /\ UNCHANGED rows
Finish(w) == req' = [req EXCEPT ![w] = Idle] /\ UNCHANGED alone

Init ==
    /\ quotation = [q \in Quotations |-> NoQuotation]
    /\ order = [o \in Orders |-> NoOrder]
    /\ line = [l \in Lines |-> NoLine]
    /\ asset \in [Assets -> {"AVAILABLE", "RENTED"}]
    /\ invoice = [o \in Orders |-> NoInvoice]
    /\ req = [w \in Clients |-> Idle]
    /\ alone = TRUE

-----------------------------------------------------------------------------
(* What the services demand of the row they read *)

QuotationMoves == [NONE |-> {}, DRAFT |-> {"SENT", "ACCEPTED", "REJECTED", "EXPIRED"},
                   SENT |-> {"ACCEPTED", "REJECTED", "EXPIRED"},
                   ACCEPTED |-> {}, REJECTED |-> {}, EXPIRED |-> {}]

OrderMoves == [NONE |-> {}, REGISTERED |-> {"CONFIRMED", "CANCELED"},
               CONFIRMED |-> {"IN_DELIVERY", "CANCELED"},
               IN_DELIVERY |-> {"DELIVERED", "CANCELED"},
               DELIVERED |-> {}, CANCELED |-> {}, REMOVED |-> {}]

\* Mutated: only a quotation already accepted can be converted.
MayConvertAccepted(q) == quotation[q].status = "ACCEPTED" /\ quotation[q].order = None

MayConvert(q) == quotation[q].status \in {"SENT", "ACCEPTED"} /\ quotation[q].order = None

MayRemoveQuotation(q) == quotation[q].status = "DRAFT"

MayEditQuotation(q) == quotation[q].status \in {"DRAFT", "SENT"}

\* Mutated: the items of any order can be changed.
MayEditAnyOrder(o) == order[o].status \notin {"NONE", "REMOVED"}

MayRemoveOrder(o) == order[o].status = "REGISTERED"

MayEditInvoice(o) == invoice[o].status = "DRAFT"

\* SaleOrderService and RentalOrderService alike.
MayEditOrder(o) == order[o].status \in {"REGISTERED", "CONFIRMED", "IN_DELIVERY"}

-----------------------------------------------------------------------------
(* QuotationService *)

CreateQuotation(q) ==
    /\ Mixed \/ \A o \in Orders : invoice[o].by # "staff"
    /\ quotation[q].status = "NONE"
    /\ \E kind \in {"SALE", "RENTAL"}, offer \in SUBSET Assets \ {{}} :
         quotation' = [quotation EXCEPT ![q] = [NoQuotation EXCEPT !.status = "DRAFT",
                                                  !.kind = kind, !.offer = offer]]
    /\ UNCHANGED <<order, line, asset, invoice, req, alone>>

\* update, addItem, updateItem, removeItem: only the assets named are kept.
EditQuotationBegin(w, q) ==
    /\ Client(w, "editQuotation")
    /\ MayEditQuotation(q)
    /\ Remember(w, [Idle EXCEPT !.op = "editQuotation", !.q = q])

EditQuotationCommit(w) ==
    /\ req[w].op = "editQuotation"
    /\ quotation[req[w].q].status # "NONE"
    /\ \E offer \in SUBSET Assets :
         quotation' = [quotation EXCEPT ![req[w].q].offer = offer]
    /\ Finish(w)
    /\ UNCHANGED <<order, line, asset, invoice>>

\* remove: DELETE, which the items of the quotation forbid as long as there are any.
RemoveQuotationBegin(w, q) ==
    /\ Client(w, "removeQuotation")
    /\ MayRemoveQuotation(q)
    /\ Remember(w, [Idle EXCEPT !.op = "removeQuotation", !.q = q])

RemoveQuotationCommit(w) ==
    /\ req[w].op = "removeQuotation"
    /\ quotation[req[w].q].offer = {}
    /\ quotation' = [quotation EXCEPT ![req[w].q] = NoQuotation]
    /\ Finish(w)
    /\ UNCHANGED <<order, line, asset, invoice>>

SetQuotationBegin(w, q, to) ==
    /\ Client(w, "setQuotation")
    /\ to \in QuotationMoves[quotation[q].status]
    /\ Remember(w, [Idle EXCEPT !.op = "setQuotation", !.q = q, !.to = to])

\* No trigger guards the status of a quotation.
SetQuotationCommit(w) ==
    /\ req[w].op = "setQuotation"
    /\ quotation[req[w].q].status # "NONE"
    /\ quotation' = [quotation EXCEPT ![req[w].q].status = req[w].to]
    /\ Finish(w)
    /\ UNCHANGED <<order, line, asset, invoice>>

ConvertBegin(w, q) ==
    /\ Client(w, "convert")
    /\ MayConvert(q)
    /\ Remember(w, [Idle EXCEPT !.op = "convert", !.q = q, !.kind = quotation[q].kind,
                                !.offer = quotation[q].offer])

\* A new REGISTERED order with one new line for each asset in S.
NewOrder(o, kind, from, S) ==
    /\ order[o].status = "NONE"
    /\ order' = [order EXCEPT ![o] = [status |-> "REGISTERED", kind |-> kind, from |-> from]]
    /\ \E new \in [S -> {l \in Lines : line[l].order = None}] :
         /\ \A a, b \in S : a # b => new[a] # new[b]
         /\ line' = [l \in Lines |->
                       IF \E a \in S : new[a] = l
                       THEN [order |-> o, asset |-> CHOOSE a \in S : new[a] = l]
                       ELSE line[l]]

\* Mutated: the quotation is accepted first and linked by a request of its own.
ConvertCommitUnlinked(w) ==
    /\ req[w].op = "convert"
    /\ \E o \in Orders : NewOrder(o, req[w].kind, req[w].q, req[w].offer)
    /\ quotation' = [quotation EXCEPT ![req[w].q].status = "ACCEPTED"]
    /\ Finish(w)
    /\ UNCHANGED <<asset, invoice>>

ConvertCommit(w) ==
    /\ req[w].op = "convert"
    /\ quotation[req[w].q].status # "NONE"
    /\ \E o \in Orders :
         /\ Few(Existing \cup {o}, alone)
         /\ NewOrder(o, req[w].kind, req[w].q, req[w].offer)
         /\ quotation' = [quotation EXCEPT ![req[w].q].status = "ACCEPTED", ![req[w].q].order = o]
    /\ Finish(w)
    /\ UNCHANGED <<asset, invoice>>

\* QuotationExpiryCron: one UPDATE of the open quotations whose last day is past, whichever
\* they are, which looks again at each row it has to wait for.
ExpireQuotations ==
    /\ \E S \in SUBSET {q \in Quotations : quotation[q].status \in {"DRAFT", "SENT"}} \ {{}} :
         quotation' = [q \in Quotations |->
                         IF q \in S THEN [quotation[q] EXCEPT !.status = "EXPIRED"] ELSE quotation[q]]
    /\ UNCHANGED <<order, line, asset, invoice, req, alone>>

-----------------------------------------------------------------------------
(* OrderService *)

CreateOrder(o) ==
    /\ "createOrder" \in Requests
    /\ Few(Existing \cup {o}, alone)
    /\ \E kind \in {"SALE", "RENTAL"}, S \in SUBSET Assets : NewOrder(o, kind, None, S)
    /\ UNCHANGED <<quotation, asset, invoice, req, alone>>

SetOrderBegin(w, o, to) ==
    /\ Client(w, "setOrder")
    /\ to \in OrderMoves[order[o].status]
    /\ Remember(w, [Idle EXCEPT !.op = "setOrder", !.o = o, !.to = to, !.kind = order[o].kind,
                                !.seen = {AsBilled(l) : l \in LinesOf(o)}])

\* The trigger on Order: its table, or no change at all.
OrderMayBecome(from, to) == to \in OrderMoves[from] \/ to = from

DeliversSale(r) == r.to = "DELIVERED" /\ r.kind = "SALE"

SetOrderCommit(w) ==
    /\ req[w].op = "setOrder" /\ ~DeliversSale(req[w])
    /\ OrderMayBecome(order[req[w].o].status, req[w].to)
    /\ order' = [order EXCEPT ![req[w].o].status = req[w].to]
    /\ Finish(w)
    /\ UNCHANGED <<quotation, line, asset, invoice>>

DeliveryInvoice(lines) == [status |-> "ISSUED", by |-> "delivery", items |-> lines]

\* Mutated: the equipment stays in stock.
DeliverSaleFromStock(w) ==
    /\ req[w].op = "setOrder" /\ DeliversSale(req[w])
    /\ OrderMayBecome(order[req[w].o].status, "DELIVERED")
    /\ order' = [order EXCEPT ![req[w].o].status = "DELIVERED"]
    /\ invoice[req[w].o] = NoInvoice /\ \A x \in req[w].seen : line[x.line].order = req[w].o
    /\ invoice' = [invoice EXCEPT ![req[w].o] = DeliveryInvoice(req[w].seen)]
    /\ Finish(w)
    /\ UNCHANGED <<quotation, line, asset>>

\* One transaction: the status, the equipment, and createForSaleOrder, all from the lines
\* read before.  A line that is gone, equipment that is rented or an invoice that names the
\* order already undoes it; equipment sold already stays sold without complaint.
DeliverSale(w) ==
    /\ req[w].op = "setOrder" /\ DeliversSale(req[w])
    /\ OrderMayBecome(order[req[w].o].status, "DELIVERED")
    /\ order' = [order EXCEPT ![req[w].o].status = "DELIVERED"]
    /\ \A x \in req[w].seen : line[x.line].order = req[w].o /\ (x.asset # None => asset[x.asset] # "RENTED")
    /\ asset' = [a \in Assets |-> IF \E x \in req[w].seen : x.asset = a THEN "SOLD" ELSE asset[a]]
    /\ invoice[req[w].o] = NoInvoice
    /\ invoice' = [invoice EXCEPT ![req[w].o] = DeliveryInvoice(req[w].seen)]
    /\ Finish(w)
    /\ UNCHANGED <<quotation, line>>

RemoveOrderBegin(w, o) ==
    /\ Client(w, "removeOrder")
    /\ MayRemoveOrder(o)
    /\ Remember(w, [Idle EXCEPT !.op = "removeOrder", !.o = o])

\* Foreign keys keep an order that a quotation or an invoice names and a line that is on
\* one; the status is not looked at again.
RemoveOrderCommit(w) ==
    /\ req[w].op = "removeOrder"
    /\ order[req[w].o].status # "REMOVED"
    /\ \A q \in Quotations : quotation[q].order # req[w].o
    /\ invoice[req[w].o] = NoInvoice /\ \A l \in LinesOf(req[w].o) : ~IsItem(l)
    /\ order' = [order EXCEPT ![req[w].o] = [NoOrder EXCEPT !.status = "REMOVED"]]
    /\ line' = [l \in Lines |-> IF line[l].order = req[w].o THEN NoLine ELSE line[l]]
    /\ Finish(w)
    /\ UNCHANGED <<quotation, asset, invoice>>

-----------------------------------------------------------------------------
(* SaleOrderService, RentalOrderService *)

LineBegin(w, o) ==
    \/ /\ Client(w, "addLine") /\ MayEditOrder(o)
       /\ Remember(w, [Idle EXCEPT !.op = "addLine", !.o = o])
    \/ \E op \in {"updateLine", "removeLine"}, l \in LinesOf(o) :
         /\ Client(w, op) /\ MayEditOrder(o)
         /\ Remember(w, [Idle EXCEPT !.op = op, !.o = o, !.l = l])

AddLine(w, l) ==
    /\ req[w].op = "addLine"
    /\ order[req[w].o].status # "REMOVED"
    /\ line[l] = NoLine
    /\ \E a \in Assets \cup {None} : line' = [line EXCEPT ![l] = [order |-> req[w].o, asset |-> a]]
    /\ Finish(w)
    /\ UNCHANGED <<quotation, order, asset, invoice>>

UpdateLine(w) ==
    /\ req[w].op = "updateLine"
    /\ line[req[w].l].order = req[w].o
    /\ \E a \in Assets \cup {None} : line' = [line EXCEPT ![req[w].l].asset = a]
    /\ Finish(w)
    /\ UNCHANGED <<quotation, order, asset, invoice>>

RemoveLine(w) ==
    /\ req[w].op = "removeLine"
    /\ line[req[w].l].order = req[w].o
    /\ ~IsItem(req[w].l)
    /\ line' = [line EXCEPT ![req[w].l] = NoLine]
    /\ Finish(w)
    /\ UNCHANGED <<quotation, order, asset, invoice>>

-----------------------------------------------------------------------------
(* InvoiceService: an invoice that staff make themselves for an order.     *)

\* Whatever the status of the order; the unique index allows no second one.
CreateInvoice(o) ==
    /\ "createInvoice" \in Requests
    /\ Mixed \/ \A q \in Quotations : quotation[q].status = "NONE"
    /\ order[o].kind = "SALE" /\ order[o].status \notin {"NONE", "REMOVED"}
    /\ invoice[o] = NoInvoice
    /\ invoice' = [invoice EXCEPT ![o] = [status |-> "DRAFT", by |-> "staff", items |-> {}]]
    /\ UNCHANGED <<quotation, order, line, asset, req, alone>>

\* addItem and removeItem name a line of any order; issue.
InvoiceBegin(w, o) ==
    /\ MayEditInvoice(o)
    /\ \/ \E op \in {"addItem", "removeItem"}, l \in Lines :
            /\ op = "removeItem" => \E x \in invoice[o].items : x.line = l
            /\ Client(w, op) /\ Remember(w, [Idle EXCEPT !.op = op, !.o = o, !.l = l])
       \/ Client(w, "issue") /\ Remember(w, [Idle EXCEPT !.op = "issue", !.o = o])

\* The line must be there; that the invoice is still a DRAFT is not looked at again.  A
\* bound: a line is on it once.  No equipment comes with it.
AddItem(w) ==
    /\ req[w].op = "addItem"
    /\ line[req[w].l].order # None /\ order[line[req[w].l].order].kind = "SALE"
    /\ invoice' = [invoice EXCEPT ![req[w].o].items = @ \cup {[line |-> req[w].l, asset |-> None]}]
    /\ Finish(w)
    /\ UNCHANGED <<quotation, order, line, asset>>

RemoveItem(w) ==
    /\ req[w].op = "removeItem"
    /\ invoice' = [invoice EXCEPT ![req[w].o].items = {x \in @ : x.line # req[w].l}]
    /\ Finish(w)
    /\ UNCHANGED <<quotation, order, line, asset>>

\* cancel refuses an invoice that names an order, and nothing deletes one.
IssueInvoice(w) ==
    /\ req[w].op = "issue"
    /\ invoice' = [invoice EXCEPT ![req[w].o].status = "ISSUED"]
    /\ Finish(w)
    /\ UNCHANGED <<quotation, order, line, asset>>

-----------------------------------------------------------------------------
\* A contract takes the equipment, or gives it back (RentalContracts).
RentOrReturn(a) ==
    /\ \/ asset[a] = "AVAILABLE" /\ asset' = [asset EXCEPT ![a] = "RENTED"]
       \/ asset[a] = "RENTED" /\ asset' = [asset EXCEPT ![a] = "AVAILABLE"]
    /\ UNCHANGED <<quotation, order, line, invoice, req, alone>>

Abort(w) ==
    /\ req[w] # Idle
    /\ Finish(w)
    /\ UNCHANGED rows

-----------------------------------------------------------------------------
(* The pages of apps/web: the requests they have a button for. *)

PageQuotationMoves == [NONE |-> {}, DRAFT |-> {"SENT", "ACCEPTED", "REJECTED", "EXPIRED"},
                       SENT |-> {"ACCEPTED", "REJECTED", "EXPIRED"},
                       ACCEPTED |-> {}, REJECTED |-> {}, EXPIRED |-> {}]

QuotationPage(q) ==
    LET s == quotation[q].status IN
    [moves   |-> PageQuotationMoves[s],
     edit    |-> s \notin {"NONE", "ACCEPTED", "REJECTED", "EXPIRED"},
     remove  |-> s = "DRAFT",
     convert |-> s \in {"SENT", "ACCEPTED"} /\ quotation[q].order = None]

PageOrderMoves == [NONE |-> {}, REGISTERED |-> {"CONFIRMED", "CANCELED"},
                   CONFIRMED |-> {"IN_DELIVERY", "CANCELED"},
                   IN_DELIVERY |-> {"DELIVERED", "CANCELED"},
                   DELIVERED |-> {}, CANCELED |-> {}, REMOVED |-> {}]

OrderPage(o) == [moves |-> PageOrderMoves[order[o].status], remove |-> order[o].status = "REGISTERED"]

Begin(w) ==
    \/ \E q \in Quotations :
         \/ EditQuotationBegin(w, q) \/ RemoveQuotationBegin(w, q) \/ ConvertBegin(w, q)
         \/ \E to \in QuotationStatus : SetQuotationBegin(w, q, to)
    \/ \E o \in Orders :
         \/ RemoveOrderBegin(w, o) \/ LineBegin(w, o) \/ InvoiceBegin(w, o)
         \/ \E to \in OrderStatus : SetOrderBegin(w, o, to)

Commit(w) ==
    \/ EditQuotationCommit(w) \/ RemoveQuotationCommit(w) \/ SetQuotationCommit(w)
    \/ ConvertCommit(w) \/ SetOrderCommit(w) \/ DeliverSale(w) \/ RemoveOrderCommit(w)
    \/ \E l \in Lines : AddLine(w, l)
    \/ UpdateLine(w) \/ RemoveLine(w)
    \/ AddItem(w) \/ RemoveItem(w) \/ IssueInvoice(w)

Next ==
    \/ \E q \in Quotations : CreateQuotation(q)
    \/ \E o \in Orders : CreateOrder(o) \/ CreateInvoice(o)
    \/ ExpireQuotations
    \/ \E a \in Assets : RentOrReturn(a)
    \/ \E w \in Clients : Begin(w) \/ Commit(w) \/ Abort(w)

Spec == Init /\ [][Next]_vars

-----------------------------------------------------------------------------
Request == [op : RequestKinds \cup {"idle"}, q : Quotations \cup {None}, o : Orders \cup {None},
            l : Lines \cup {None}, to : QuotationStatus \cup OrderStatus,
            kind : {"SALE", "RENTAL"}, offer : SUBSET Assets,
            seen : SUBSET [line : Lines, asset : Assets \cup {None}]]

\* Every table and every request in flight has the shape the schema gives it.
TypeOK ==
    /\ quotation \in [Quotations -> [status : QuotationStatus, kind : {"SALE", "RENTAL"},
                                     offer : SUBSET Assets, order : Orders \cup {None}]]
    /\ order \in [Orders -> [status : OrderStatus, kind : {"SALE", "RENTAL"},
                             from : Quotations \cup {None}]]
    /\ line \in [Lines -> [order : Orders \cup {None}, asset : Assets \cup {None}]]
    /\ asset \in [Assets -> {"AVAILABLE", "RENTED", "SOLD"}]
    /\ invoice \in [Orders -> [status : {"NONE", "DRAFT", "ISSUED"}, by : {"NONE", "delivery", "staff"},
                               items : SUBSET [line : Lines, asset : Assets \cup {None}]]]
    /\ req \in [Clients -> Request]
    /\ alone \in BOOLEAN

(* However requests overlap *)

\* A sale is delivered exactly when it has the invoice that its delivery makes, issued, for
\* lines that stay its own: whoever delivers, cancels, edits or deletes the order, or makes
\* an invoice for it by hand, at the same moment.
DeliveredIffBilled ==
    \A o \in Orders :
        /\ order[o].kind = "SALE" /\ order[o].status = "DELIVERED" <=> invoice[o].by = "delivery"
        /\ invoice[o].by = "delivery" =>
              invoice[o].status = "ISSUED" /\ \A x \in invoice[o].items : line[x.line].order = o

\* Equipment is SOLD exactly when a delivery invoiced it, as far as this part of the
\* system goes.
SoldIsBilled ==
    \A a \in Assets : asset[a] = "SOLD" <=>
        \E o \in Orders : invoice[o].by = "delivery" /\ \E x \in invoice[o].items : x.asset = a

\* Both, however requests overlap: no delivery without its invoice, no equipment sold
\* without one, and none of it left by a delivery that failed.
SalesAddUp == DeliveredIffBilled /\ SoldIsBilled

\* A page up to date has a button for every request that the checks of the service let
\* through, and for no other: two copies of the rules agree.  What the database turns
\* down after these checks (a deletion or delivery that a constraint forbids) is not known
\* to the pages.
ButtonsMatchChecks ==
    /\ \A q \in Quotations :
         QuotationPage(q) = [moves |-> QuotationMoves[quotation[q].status], edit |-> MayEditQuotation(q),
                             remove |-> MayRemoveQuotation(q), convert |-> MayConvert(q)]
    /\ \A o \in Orders :
         OrderPage(o) = [moves |-> OrderMoves[order[o].status], remove |-> MayRemoveOrder(o)]

(* As long as requests did not overlap *)

\* The invoice of a delivered sale lists the order's lines as they stand, all of them, for
\* good: neither the lines nor the invoice can be changed any more.
DeliveredAsBilled ==
    alone => \A o \in Orders :
               order[o].kind = "SALE" /\ order[o].status = "DELIVERED" =>
                  invoice[o].items = {AsBilled(l) : l \in LinesOf(o)}

\* A quotation becomes one order at most and ends ACCEPTED; each end names the other.
ConvertedOnce ==
    alone => \A o \in Orders :
               order[o].from # None =>
                  LET q == quotation[order[o].from] IN q.order = o /\ q.status = "ACCEPTED"
=============================================================================
