----------------------------- MODULE Orders_proofs -----------------------------
(***************************************************************************)
(* Theorems about Orders, for any rows and any number of requests in       *)
(* flight.                                                                 *)
(***************************************************************************)
EXTENDS Orders, TLAPS

Kinds == {"SALE", "RENTAL"}
QuotationType == [status : QuotationStatus, kind : Kinds, offer : SUBSET Assets, order : Orders \cup {None}]
OrderType == [status : OrderStatus, kind : Kinds, from : Quotations \cup {None}]
LineType == [order : Orders \cup {None}, asset : Assets \cup {None}]
BilledLine == [line : Lines, asset : Assets \cup {None}]
InvoiceType == [status : {"NONE", "DRAFT", "ISSUED"}, by : {"NONE", "delivery", "staff"}, items : SUBSET BilledLine]

QuotationOps == {"editQuotation", "removeQuotation", "setQuotation", "convert"}
LineOps == {"addLine", "updateLine", "removeLine"}
InvoiceOps == {"addItem", "removeItem", "issue"}
OrderOps == {"setOrder", "removeOrder"} \cup LineOps \cup InvoiceOps

-----------------------------------------------------------------------------
(* Shape.  A request keeps the rows it is about.                            *)

Fits(r) ==
    /\ r.op \in QuotationOps => r.q \in Quotations
    /\ r.op \in OrderOps => r.o \in Orders
    /\ r.op \in {"updateLine", "removeLine", "addItem"} => r.l \in Lines
    /\ r.op = "setQuotation" => r.to \in QuotationStatus
    /\ r.op = "setOrder" => r.to \in {"CONFIRMED", "IN_DELIVERY", "DELIVERED", "CANCELED"}

Typed == TypeOK /\ \A w \in Clients : Fits(req[w])

LEMMA Values ==
    /\ Idle \in Request /\ Idle.op = "idle" /\ Fits(Idle)
    /\ NoLine \in LineType /\ NoLine.order = None
    /\ NoOrder \in OrderType
    /\ NoQuotation \in QuotationType
    /\ NoInvoice \in InvoiceType /\ NoInvoice.by = "NONE" /\ NoInvoice.items = {}
    /\ \A x \in SUBSET BilledLine :
          DeliveryInvoice(x) \in InvoiceType /\ DeliveryInvoice(x).by = "delivery"
            /\ DeliveryInvoice(x).items = x /\ DeliveryInvoice(x).status = "ISSUED"
BY DEF Idle, Request, RequestKinds, Fits, QuotationOps, OrderOps, LineOps, InvoiceOps, NoLine, LineType, NoOrder,
       OrderType, OrderStatus, Kinds, NoQuotation, QuotationType, QuotationStatus, NoInvoice, InvoiceType,
       BilledLine, DeliveryInvoice

\* The tables and requests, named one by one.
LEMMA TypeParts ==
    TypeOK <=> /\ quotation \in [Quotations -> QuotationType]
               /\ order \in [Orders -> OrderType]
               /\ line \in [Lines -> LineType]
               /\ asset \in [Assets -> {"AVAILABLE", "RENTED", "SOLD"}]
               /\ invoice \in [Orders -> InvoiceType]
               /\ req \in [Clients -> Request]
               /\ alone \in BOOLEAN
BY DEF TypeOK, QuotationType, OrderType, LineType, BilledLine, InvoiceType, Kinds

LEMMA TypePartsNext ==
    TypeOK' <=> /\ quotation' \in [Quotations -> QuotationType]
                /\ order' \in [Orders -> OrderType]
                /\ line' \in [Lines -> LineType]
                /\ asset' \in [Assets -> {"AVAILABLE", "RENTED", "SOLD"}]
                /\ invoice' \in [Orders -> InvoiceType]
                /\ req' \in [Clients -> Request]
                /\ alone' \in BOOLEAN
BY DEF TypeOK, QuotationType, OrderType, LineType, BilledLine, InvoiceType, Kinds

LEMMA Remembered ==
    ASSUME Typed, NEW w \in Clients, NEW r \in Request, Fits(r), Remember(w, r)
    PROVE  /\ Typed'
           /\ \A u \in Clients : req'[u] = IF u = w THEN r ELSE req[u]
           /\ UNCHANGED rows
<1>1. /\ req' = [req EXCEPT ![w] = r] /\ UNCHANGED rows /\ req \in [Clients -> Request]
      /\ alone' \in BOOLEAN
  BY DEF Remember, Typed, TypeOK
<1>2. req' \in [Clients -> Request] /\ \A u \in Clients : req'[u] = IF u = w THEN r ELSE req[u]
  BY <1>1
<1>3. TypeOK'
  BY <1>1, <1>2, TypeParts, TypePartsNext DEF Typed, rows
<1>. QED BY <1>1, <1>2, <1>3 DEF Typed

LEMMA Finished ==
    ASSUME Typed, NEW w \in Clients, Finish(w)
    PROVE  /\ req' \in [Clients -> Request] /\ alone' = alone /\ alone' \in BOOLEAN
           /\ \A u \in Clients : req'[u] = IF u = w THEN Idle ELSE req[u]
           /\ \A u \in Clients : Fits(req'[u])
<1>1. req' = [req EXCEPT ![w] = Idle] /\ req \in [Clients -> Request] /\ alone' = alone
  BY DEF Finish, Typed, TypeOK
<1>2. req' \in [Clients -> Request] /\ \A u \in Clients : req'[u] = IF u = w THEN Idle ELSE req[u]
  BY <1>1, Values
<1>. QED BY <1>1, <1>2, Values DEF Typed, TypeOK

\* An invoice that is there was made by someone.
Made == \A o \in Orders : invoice[o] = NoInvoice \/ invoice[o].by \in {"delivery", "staff"}

\* What a request remembers when it begins.
Begun(r) ==
    /\ r \in Request /\ Fits(r) /\ r.op # "idle"
    /\ r.op = "setOrder" => /\ order[r.o].status \notin {"NONE", "REMOVED"} /\ r.kind = order[r.o].kind
                            /\ r.seen = {AsBilled(l) : l \in LinesOf(r.o)}
    /\ r.op \in LineOps => order[r.o].status # "DELIVERED"
    /\ r.op \in InvoiceOps => invoice[r.o].by = "staff"
    /\ r.op \in {"setQuotation", "removeQuotation"} => quotation[r.q].status \in {"DRAFT", "SENT"}
    /\ r.op = "convert" => quotation[r.q].order = None

LEMMA Beginning ==
    ASSUME Typed, DeliveredIffBilled, Made, NEW w \in Clients, Begin(w)
    PROVE  \E r : Begun(r) /\ Remember(w, r) /\ req[w] = Idle
<1>0. Typed /\ TypeOK /\ quotation \in [Quotations -> QuotationType] /\ order \in [Orders -> OrderType]
  BY TypeParts DEF Typed
<1> USE DEF Begun, Fits, QuotationOps, OrderOps, LineOps, InvoiceOps, Client
<1>1. ASSUME NEW q \in Quotations, EditQuotationBegin(w, q)
      PROVE  \E r : Begun(r) /\ Remember(w, r) /\ req[w] = Idle
  <2> DEFINE r == [Idle EXCEPT !.op = "editQuotation", !.q = q]
  <2>1. r \in Request /\ r.op = "editQuotation" /\ r.q = q
    BY DEF Idle, Request, RequestKinds, QuotationStatus, OrderStatus
  <2>2. Remember(w, r) /\ req[w] = Idle
    BY <1>1 DEF EditQuotationBegin
  <2> HIDE DEF r
  <2>. QED BY <2>1, <2>2
<1>2. ASSUME NEW q \in Quotations, RemoveQuotationBegin(w, q)
      PROVE  \E r : Begun(r) /\ Remember(w, r) /\ req[w] = Idle
  <2> DEFINE r == [Idle EXCEPT !.op = "removeQuotation", !.q = q]
  <2>1. r \in Request /\ r.op = "removeQuotation" /\ r.q = q
    BY DEF Idle, Request, RequestKinds, QuotationStatus, OrderStatus
  <2>2. Remember(w, r) /\ req[w] = Idle /\ quotation[q].status = "DRAFT"
    BY <1>2 DEF RemoveQuotationBegin, MayRemoveQuotation
  <2> HIDE DEF r
  <2>. QED BY <2>1, <2>2
<1>3. ASSUME NEW q \in Quotations, NEW to \in QuotationStatus, SetQuotationBegin(w, q, to)
      PROVE  \E r : Begun(r) /\ Remember(w, r) /\ req[w] = Idle
  <2> DEFINE r == [Idle EXCEPT !.op = "setQuotation", !.q = q, !.to = to]
  <2>1. r \in Request /\ r.op = "setQuotation" /\ r.q = q /\ r.to = to
    BY DEF Idle, Request, RequestKinds
  <2>2. Remember(w, r) /\ req[w] = Idle /\ to \in QuotationMoves[quotation[q].status]
    BY <1>3 DEF SetQuotationBegin
  <2>3. quotation[q].status \in {"DRAFT", "SENT"}
    BY <1>0, <2>2 DEF QuotationMoves, QuotationType, QuotationStatus
  <2> HIDE DEF r
  <2>. QED BY <2>1, <2>2, <2>3
<1>4. ASSUME NEW q \in Quotations, ConvertBegin(w, q)
      PROVE  \E r : Begun(r) /\ Remember(w, r) /\ req[w] = Idle
  <2> DEFINE r == [Idle EXCEPT !.op = "convert", !.q = q, !.kind = quotation[q].kind,
                               !.offer = quotation[q].offer]
  <2>1. r \in Request /\ r.op = "convert" /\ r.q = q
    BY <1>0 DEF Idle, Request, RequestKinds, QuotationStatus, OrderStatus, QuotationType, Kinds
  <2>2. Remember(w, r) /\ req[w] = Idle /\ quotation[q].order = None
    BY <1>4 DEF ConvertBegin, MayConvert
  <2> HIDE DEF r
  <2>. QED BY <2>1, <2>2
<1>5. ASSUME NEW o \in Orders, RemoveOrderBegin(w, o)
      PROVE  \E r : Begun(r) /\ Remember(w, r) /\ req[w] = Idle
  <2> DEFINE r == [Idle EXCEPT !.op = "removeOrder", !.o = o]
  <2>1. r \in Request /\ r.op = "removeOrder" /\ r.o = o
    BY DEF Idle, Request, RequestKinds, QuotationStatus, OrderStatus
  <2>2. Remember(w, r) /\ req[w] = Idle
    BY <1>5 DEF RemoveOrderBegin
  <2> HIDE DEF r
  <2>. QED BY <2>1, <2>2
<1>6. ASSUME NEW o \in Orders, LineBegin(w, o)
      PROVE  \E r : Begun(r) /\ Remember(w, r) /\ req[w] = Idle
  <2>1. CASE /\ Client(w, "addLine") /\ MayEditOrder(o)
             /\ Remember(w, [Idle EXCEPT !.op = "addLine", !.o = o])
    <3> DEFINE r == [Idle EXCEPT !.op = "addLine", !.o = o]
    <3>1. r \in Request /\ r.op = "addLine" /\ r.o = o
      BY DEF Idle, Request, RequestKinds, QuotationStatus, OrderStatus
    <3>2. Remember(w, r) /\ req[w] = Idle /\ order[o].status # "DELIVERED"
      BY <2>1 DEF MayEditOrder
    <3> HIDE DEF r
    <3>. QED BY <3>1, <3>2
  <2>2. ASSUME NEW op \in {"updateLine", "removeLine"}, NEW l \in LinesOf(o), Client(w, op), MayEditOrder(o),
               Remember(w, [Idle EXCEPT !.op = op, !.o = o, !.l = l])
        PROVE  \E r : Begun(r) /\ Remember(w, r) /\ req[w] = Idle
    <3> DEFINE r == [Idle EXCEPT !.op = op, !.o = o, !.l = l]
    <3>1. r \in Request /\ r.op = op /\ r.o = o /\ r.l \in Lines
      BY DEF Idle, Request, RequestKinds, QuotationStatus, OrderStatus, LinesOf
    <3>2. Remember(w, r) /\ req[w] = Idle /\ order[o].status # "DELIVERED"
      BY <2>2 DEF MayEditOrder
    <3> HIDE DEF r
    <3>. QED BY <3>1, <3>2
  <2>. QED BY <1>6, <2>1, <2>2 DEF LineBegin
<1>7. ASSUME NEW o \in Orders, NEW to \in OrderStatus, SetOrderBegin(w, o, to)
      PROVE  \E r : Begun(r) /\ Remember(w, r) /\ req[w] = Idle
  <2> DEFINE seen == {AsBilled(l) : l \in LinesOf(o)}
  <2>1. seen \in SUBSET [line : Lines, asset : Assets \cup {None}]
    BY <1>0, TypeParts DEF AsBilled, LinesOf, LineType
  <2> HIDE DEF seen
  <2> DEFINE r == [Idle EXCEPT !.op = "setOrder", !.o = o, !.to = to, !.kind = order[o].kind, !.seen = seen]
  <2>2. /\ r \in Request /\ r.op = "setOrder" /\ r.o = o /\ r.to = to /\ r.kind = order[o].kind
        /\ r.seen = seen
    BY <1>0, <2>1 DEF Idle, Request, RequestKinds, OrderType, Kinds
  <2>3. Remember(w, r) /\ req[w] = Idle /\ to \in OrderMoves[order[o].status]
    BY <1>7 DEF SetOrderBegin, seen
  <2>4. order[o].status \notin {"NONE", "REMOVED"} /\ to \in {"CONFIRMED", "IN_DELIVERY", "DELIVERED", "CANCELED"}
    BY <1>0, <2>3 DEF OrderMoves, OrderType, OrderStatus
  <2>5. r.seen = {AsBilled(l) : l \in LinesOf(r.o)}
    BY <2>2 DEF seen
  <2> HIDE DEF r
  <2>. QED BY <2>2, <2>3, <2>4, <2>5
<1>8. ASSUME NEW o \in Orders, InvoiceBegin(w, o)
      PROVE  \E r : Begun(r) /\ Remember(w, r) /\ req[w] = Idle
  <2>0. invoice[o].by = "staff"
    <3>1. invoice[o].status = "DRAFT"
      BY <1>8 DEF InvoiceBegin, MayEditInvoice
    <3>2. invoice[o].by # "NONE" /\ invoice[o].by # "delivery"
      BY <3>1 DEF DeliveredIffBilled, Made, NoInvoice
    <3>. QED BY <3>1, <3>2 DEF Made, NoInvoice
  <2>1. ASSUME NEW op \in {"addItem", "removeItem"}, NEW l \in Lines, Client(w, op),
               Remember(w, [Idle EXCEPT !.op = op, !.o = o, !.l = l])
        PROVE  \E r : Begun(r) /\ Remember(w, r) /\ req[w] = Idle
    <3> DEFINE r == [Idle EXCEPT !.op = op, !.o = o, !.l = l]
    <3>1. r \in Request /\ r.op = op /\ r.o = o /\ r.l \in Lines
      BY DEF Idle, Request, RequestKinds, QuotationStatus, OrderStatus
    <3>2. Remember(w, r) /\ req[w] = Idle
      BY <2>1
    <3> HIDE DEF r
    <3>. QED BY <2>0, <3>1, <3>2
  <2>2. CASE Client(w, "issue") /\ Remember(w, [Idle EXCEPT !.op = "issue", !.o = o])
    <3> DEFINE r == [Idle EXCEPT !.op = "issue", !.o = o]
    <3>1. r \in Request /\ r.op = "issue" /\ r.o = o
      BY DEF Idle, Request, RequestKinds, QuotationStatus, OrderStatus
    <3>2. Remember(w, r) /\ req[w] = Idle
      BY <2>2
    <3> HIDE DEF r
    <3>. QED BY <2>0, <3>1, <3>2
  <2>. QED BY <1>8, <2>1, <2>2 DEF InvoiceBegin
<1>. QED BY <1>1, <1>2, <1>3, <1>4, <1>5, <1>6, <1>7, <1>8 DEF Begin

-----------------------------------------------------------------------------
(* Sales.  The order a delivery is about is the one it read, or is gone;    *)
(* and who changes an invoice does so to one that staff made.               *)

KindKept ==
    \A w \in Clients : req[w].op = "setOrder" =>
        LET p == order[req[w].o] IN
        p.status = "REMOVED" \/ (p.status # "NONE" /\ p.kind = req[w].kind)

ByHand == \A w \in Clients : req[w].op \in InvoiceOps => invoice[req[w].o].by = "staff"

Sound == Typed /\ KindKept /\ Made /\ ByHand /\ DeliveredIffBilled /\ SoldIsBilled

LEMMA InitTyped == Init => Typed
<1> SUFFICES ASSUME Init PROVE Typed
  OBVIOUS
<1>1. TypeOK
  BY Values, TypeParts DEF Init
<1>. QED BY <1>1, Values DEF Typed, Init

LEMMA InitSound == Init => Sound
<1> SUFFICES ASSUME Init PROVE Sound
  OBVIOUS
<1>1. KindKept
  BY Values DEF Init, KindKept
<1>2. Made /\ ByHand /\ SoldIsBilled
  BY Values DEF Init, Made, ByHand, InvoiceOps, SoldIsBilled
<1>3. DeliveredIffBilled
  BY Values DEF Init, DeliveredIffBilled, NoOrder
<1>. QED BY <1>1, <1>2, <1>3, InitTyped DEF Sound

\* Nothing but quotations and requests that end.
LEMMA SoundKept ==
    ASSUME Sound, Typed', UNCHANGED <<order, line, asset, invoice>>,
           \A w \in Clients : req'[w] = req[w] \/ req'[w] = Idle
    PROVE  Sound'
<1>1. KindKept'
  BY Values DEF Sound, KindKept
<1>2. Made' /\ ByHand'
  BY Values DEF Sound, Made, ByHand, InvoiceOps
<1>3. DeliveredIffBilled'
  BY DEF Sound, DeliveredIffBilled
<1>4. SoldIsBilled'
  BY DEF Sound, SoldIsBilled
<1>. QED BY <1>1, <1>2, <1>3, <1>4 DEF Sound

\* A new order takes an order and lines that no one has.
LEMMA NewOrderMakes ==
    ASSUME TypeOK, NEW o \in Orders, NEW kind \in Kinds, NEW from \in Quotations \cup {None},
           NEW S \in SUBSET Assets, NewOrder(o, kind, from, S)
    PROVE  /\ order' \in [Orders -> OrderType] /\ line' \in [Lines -> LineType]
           /\ order[o].status = "NONE"
           /\ \A p \in Orders : order'[p] = IF p = o THEN [status |-> "REGISTERED", kind |-> kind, from |-> from]
                                            ELSE order[p]
           /\ \A l \in Lines : line'[l] = line[l] \/ (line[l].order = None /\ line'[l].order = o)
<1>1. order[o].status = "NONE"
      /\ order' = [order EXCEPT ![o] = [status |-> "REGISTERED", kind |-> kind, from |-> from]]
  BY DEF NewOrder
<1>2. [status |-> "REGISTERED", kind |-> kind, from |-> from] \in OrderType
  BY DEF OrderType, OrderStatus
<1>3. order \in [Orders -> OrderType] /\ line \in [Lines -> LineType]
  BY TypeParts
<1>4. /\ order' \in [Orders -> OrderType]
      /\ \A p \in Orders : order'[p] = IF p = o THEN [status |-> "REGISTERED", kind |-> kind, from |-> from]
                                       ELSE order[p]
  BY <1>1, <1>2, <1>3
<1>5. PICK new \in [S -> {l \in Lines : line[l].order = None}] :
            line' = [l \in Lines |-> IF \E a \in S : new[a] = l
                                     THEN [order |-> o, asset |-> CHOOSE a \in S : new[a] = l]
                                     ELSE line[l]]
  BY DEF NewOrder
<1>6. ASSUME NEW l \in Lines
      PROVE  line'[l] \in LineType /\ (line'[l] = line[l] \/ (line[l].order = None /\ line'[l].order = o))
  <2>1. CASE \E a \in S : new[a] = l
    <3>1. (CHOOSE a \in S : new[a] = l) \in S /\ line[l].order = None
      BY <1>5, <2>1
    <3>2. line'[l] = [order |-> o, asset |-> CHOOSE a \in S : new[a] = l]
      BY <1>5, <2>1
    <3>. QED BY <3>1, <3>2 DEF LineType
  <2>2. CASE ~\E a \in S : new[a] = l
    BY <1>3, <1>5, <2>2
  <2>. QED BY <2>1, <2>2
<1>7. line' = [l \in Lines |-> line'[l]]
  BY <1>5
<1>8. line' \in [Lines -> LineType]
  BY <1>6, <1>7
<1>. QED BY <1>1, <1>4, <1>6, <1>8

Delivered(o) == order[o].kind = "SALE" /\ order[o].status = "DELIVERED"

\* A step that delivers no sale, and leaves the lines that deliveries billed where they are.
LEMMA NoneOfThese ==
    ASSUME TypeOK, DeliveredIffBilled, UNCHANGED invoice,
           \A p \in Orders : (order'[p].kind = "SALE" /\ order'[p].status = "DELIVERED") <=> Delivered(p),
           \A l \in Lines, p \in Orders : Delivered(p) /\ line[l].order = p /\ IsItem(l) => line'[l].order = p
    PROVE  DeliveredIffBilled'
<1> SUFFICES ASSUME NEW p \in Orders
             PROVE  /\ order'[p].kind = "SALE" /\ order'[p].status = "DELIVERED" <=> invoice[p].by = "delivery"
                    /\ invoice[p].by = "delivery" =>
                          invoice[p].status = "ISSUED" /\ \A x \in invoice[p].items : line'[x.line].order = p
  BY DEF DeliveredIffBilled
<1>1. Delivered(p) <=> invoice[p].by = "delivery"
  BY DEF DeliveredIffBilled, Delivered
<1>2. ASSUME Delivered(p), NEW x \in invoice[p].items PROVE line'[x.line].order = p
  <2>1. x.line \in Lines /\ IsItem(x.line)
    BY TypeParts DEF InvoiceType, BilledLine, IsItem
  <2>2. line[x.line].order = p
    BY <1>1, <1>2 DEF DeliveredIffBilled
  <2>. QED BY <1>2, <2>1, <2>2
<1>. QED BY <1>1, <1>2 DEF DeliveredIffBilled

\* No invoice names a line without an order, nor an order that is not there yet.
LEMMA NewOrderSound ==
    ASSUME Sound, Typed', NEW o \in Orders, NEW kind \in Kinds, NEW from \in Quotations \cup {None},
           NEW S \in SUBSET Assets, NewOrder(o, kind, from, S), UNCHANGED <<asset, invoice>>,
           \A w \in Clients : req'[w] = req[w] \/ req'[w] = Idle
    PROVE  Sound'
<1>1. /\ order[o].status = "NONE"
      /\ \A p \in Orders : order'[p] = IF p = o THEN [status |-> "REGISTERED", kind |-> kind, from |-> from]
                                       ELSE order[p]
      /\ \A l \in Lines : line'[l] = line[l] \/ (line[l].order = None /\ line'[l].order = o)
  BY NewOrderMakes DEF Sound, Typed
<1>2. None \notin Orders
  BY ConstantsAssumption DEF ConstantsAssumption
<1>3. KindKept'
  <2> SUFFICES ASSUME NEW w \in Clients, req'[w].op = "setOrder"
               PROVE  order'[req'[w].o].status = "REMOVED"
                        \/ (order'[req'[w].o].status # "NONE" /\ order'[req'[w].o].kind = req'[w].kind)
    BY DEF KindKept
  <2>1. req'[w] = req[w] /\ req[w].o \in Orders
    BY Values DEF Sound, Typed, Fits, OrderOps
  <2>2. req[w].o # o
    BY <1>1, <2>1 DEF Sound, KindKept
  <2>. QED BY <1>1, <2>1, <2>2 DEF Sound, KindKept
<1>4. Made' /\ ByHand' /\ SoldIsBilled'
  BY Values DEF Sound, Made, ByHand, InvoiceOps, SoldIsBilled
<1>5. DeliveredIffBilled'
  <2>1. \A p \in Orders : (order'[p].kind = "SALE" /\ order'[p].status = "DELIVERED") <=> Delivered(p)
    BY <1>1 DEF Delivered
  <2>2. \A l \in Lines, p \in Orders : line[l].order = p => line'[l].order = p
    BY <1>1, <1>2
  <2>. QED BY <2>1, <2>2, NoneOfThese DEF Sound, Typed
<1>. QED BY <1>3, <1>4, <1>5 DEF Sound

LEMMA BeginSound == ASSUME Sound, NEW w \in Clients, Begin(w) PROVE Sound'
<1>1. PICK r : Begun(r) /\ Remember(w, r)
  BY Beginning DEF Sound
<1>2. Typed' /\ UNCHANGED rows /\ \A u \in Clients : req'[u] = IF u = w THEN r ELSE req[u]
  BY <1>1, Remembered DEF Sound, Begun
<1>3. KindKept'
  BY <1>1, <1>2 DEF Sound, KindKept, Begun, rows
<1>4. Made' /\ ByHand'
  BY <1>1, <1>2 DEF Sound, Made, ByHand, Begun, rows
<1>5. DeliveredIffBilled'
  BY <1>2 DEF Sound, DeliveredIffBilled, rows
<1>6. SoldIsBilled'
  BY <1>2 DEF Sound, SoldIsBilled, rows
<1>. QED BY <1>2, <1>3, <1>4, <1>5, <1>6 DEF Sound

\* The requests about quotations, and the nightly job.
LEMMA QuotationSound ==
    ASSUME Sound,
           \/ \E q \in Quotations : CreateQuotation(q)
           \/ ExpireQuotations
           \/ \E w \in Clients : EditQuotationCommit(w) \/ RemoveQuotationCommit(w) \/ SetQuotationCommit(w)
    PROVE  Sound'
<1>0. TypeOK /\ Typed /\ quotation \in [Quotations -> QuotationType]
  BY TypeParts DEF Sound, Typed
<1>1. CASE ExpireQuotations \/ \E q \in Quotations : CreateQuotation(q)
  <2>1. quotation' \in [Quotations -> QuotationType]
    <3>1. CASE ExpireQuotations
      <4>1. PICK S \in SUBSET Quotations :
                   quotation' = [q \in Quotations |->
                                   IF q \in S THEN [quotation[q] EXCEPT !.status = "EXPIRED"] ELSE quotation[q]]
        BY <3>1 DEF ExpireQuotations
      <4>2. \A q \in Quotations : [quotation[q] EXCEPT !.status = "EXPIRED"] \in QuotationType
        BY <1>0 DEF QuotationType, QuotationStatus
      <4>. QED BY <1>0, <4>1, <4>2
    <3>2. ASSUME NEW q \in Quotations, CreateQuotation(q) PROVE quotation' \in [Quotations -> QuotationType]
      <4>1. PICK kind \in Kinds, offer \in SUBSET Assets :
                   quotation' = [quotation EXCEPT ![q] = [NoQuotation EXCEPT !.status = "DRAFT",
                                                            !.kind = kind, !.offer = offer]]
        BY <3>2 DEF CreateQuotation, Kinds
      <4>2. [NoQuotation EXCEPT !.status = "DRAFT", !.kind = kind, !.offer = offer] \in QuotationType
        BY DEF QuotationType, QuotationStatus, NoQuotation, Kinds
      <4>. QED BY <1>0, <4>1, <4>2
    <3>. QED BY <1>1, <3>1, <3>2
  <2>2. UNCHANGED <<order, line, asset, invoice, req, alone>>
    BY <1>1 DEF ExpireQuotations, CreateQuotation
  <2>3. TypeOK'
    BY <1>0, <2>1, <2>2, TypeParts, TypePartsNext
  <2>4. Typed'
    BY <1>0, <2>2, <2>3 DEF Typed
  <2>. QED BY <2>2, <2>4, SoundKept
<1>2. ASSUME NEW w \in Clients, EditQuotationCommit(w) \/ RemoveQuotationCommit(w) \/ SetQuotationCommit(w)
      PROVE  Sound'
  <2>1. Finish(w) /\ UNCHANGED <<order, line, asset, invoice>>
    BY <1>2 DEF EditQuotationCommit, RemoveQuotationCommit, SetQuotationCommit
  <2>2. req[w].q \in Quotations
    BY <1>0, <1>2 DEF EditQuotationCommit, RemoveQuotationCommit, SetQuotationCommit, Typed, Fits, QuotationOps
  <2>3. quotation' \in [Quotations -> QuotationType]
    <3>1. CASE EditQuotationCommit(w)
      <4>1. PICK offer \in SUBSET Assets : quotation' = [quotation EXCEPT ![req[w].q].offer = offer]
        BY <3>1 DEF EditQuotationCommit
      <4>. QED BY <1>0, <2>2, <4>1 DEF QuotationType
    <3>2. CASE RemoveQuotationCommit(w)
      BY <1>0, <2>2, <3>2, Values DEF RemoveQuotationCommit
    <3>3. CASE SetQuotationCommit(w)
      <4>1. req[w].to \in QuotationStatus /\ quotation' = [quotation EXCEPT ![req[w].q].status = req[w].to]
        BY <1>0, <3>3 DEF SetQuotationCommit, Typed, Fits
      <4>. QED BY <1>0, <2>2, <4>1 DEF QuotationType
    <3>. QED BY <1>2, <3>1, <3>2, <3>3
  <2>4. TypeOK'
    BY <1>0, <2>1, <2>3, TypeParts, TypePartsNext, Finished
  <2>5. Typed' /\ \A u \in Clients : req'[u] = req[u] \/ req'[u] = Idle
    BY <1>0, <2>1, <2>4, Finished DEF Typed
  <2>. QED BY <2>1, <2>5, SoundKept
<1>. QED BY <1>1, <1>2

LEMMA CreateOrderSound == ASSUME Sound, NEW o \in Orders, CreateOrder(o) PROVE Sound'
<1>1. PICK kind \in Kinds, S \in SUBSET Assets : NewOrder(o, kind, None, S)
  BY DEF CreateOrder, Kinds
<1>2. UNCHANGED <<quotation, asset, invoice, req, alone>>
  BY DEF CreateOrder
<1>3. order' \in [Orders -> OrderType] /\ line' \in [Lines -> LineType]
  BY <1>1, NewOrderMakes DEF Sound, Typed
<1>4. TypeOK'
  BY <1>2, <1>3, TypeParts, TypePartsNext DEF Sound, Typed
<1>5. Typed'
  BY <1>2, <1>4 DEF Sound, Typed
<1>. QED BY <1>1, <1>2, <1>5, NewOrderSound

LEMMA ConvertSound == ASSUME Sound, NEW w \in Clients, ConvertCommit(w) PROVE Sound'
<1>0. TypeOK /\ Typed /\ quotation \in [Quotations -> QuotationType]
  BY TypeParts DEF Sound, Typed
<1>1. PICK o \in Orders :
         /\ NewOrder(o, req[w].kind, req[w].q, req[w].offer)
         /\ quotation' = [quotation EXCEPT ![req[w].q].status = "ACCEPTED", ![req[w].q].order = o]
  BY DEF ConvertCommit
<1>2. Finish(w) /\ UNCHANGED <<asset, invoice>>
  BY DEF ConvertCommit
<1>3. req[w].kind \in Kinds /\ req[w].q \in Quotations /\ req[w].offer \in SUBSET Assets
  BY <1>0 DEF ConvertCommit, Typed, Fits, QuotationOps, TypeOK, Request, Kinds
<1>4. order' \in [Orders -> OrderType] /\ line' \in [Lines -> LineType]
  BY <1>0, <1>1, <1>3, NewOrderMakes
<1>5. quotation' \in [Quotations -> QuotationType]
  BY <1>0, <1>1, <1>3 DEF QuotationType, QuotationStatus
<1>6. TypeOK'
  BY <1>0, <1>2, <1>4, <1>5, TypeParts, TypePartsNext, Finished
<1>7. Typed' /\ \A u \in Clients : req'[u] = req[u] \/ req'[u] = Idle
  BY <1>0, <1>2, <1>6, Finished DEF Typed
<1>. QED BY <1>1, <1>2, <1>3, <1>7, NewOrderSound

\* Whatever else was asked of the order meanwhile, the trigger finds it as the invoice does.
LEMMA SetOrderSound == ASSUME Sound, NEW w \in Clients, SetOrderCommit(w) PROVE Sound'
<1> DEFINE o == req[w].o
<1>0. TypeOK /\ Typed /\ order \in [Orders -> OrderType] /\ o \in Orders
      /\ req[w].to \in {"CONFIRMED", "IN_DELIVERY", "DELIVERED", "CANCELED"}
  BY TypeParts DEF Sound, Typed, SetOrderCommit, Fits, OrderOps
<1>1. /\ req[w].op = "setOrder" /\ ~DeliversSale(req[w])
      /\ OrderMayBecome(order[o].status, req[w].to)
      /\ order' = [order EXCEPT ![o].status = req[w].to]
      /\ Finish(w) /\ UNCHANGED <<quotation, line, asset, invoice>>
  BY DEF SetOrderCommit
<1> HIDE DEF o
<1>2. order' \in [Orders -> OrderType]
      /\ \A p \in Orders : /\ order'[p].status = IF p = o THEN req[w].to ELSE order[p].status
                           /\ order'[p].kind = order[p].kind
  BY <1>0, <1>1 DEF OrderType, OrderStatus
<1>3. TypeOK'
  BY <1>0, <1>1, <1>2, TypeParts, TypePartsNext, Finished
<1>4. Typed' /\ \A u \in Clients : req'[u] = req[u] \/ req'[u] = Idle
  BY <1>0, <1>1, <1>3, Finished DEF Typed
<1>5. order[o].status # "REMOVED" /\ order[o].status \in OrderStatus
  BY <1>0, <1>1 DEF OrderMayBecome, OrderMoves, OrderType
<1>6. order[o].kind = req[w].kind /\ order[o].status # "NONE"
  BY <1>1, <1>5 DEF Sound, KindKept, o
<1>7. order[o].kind = "SALE" => order[o].status # "DELIVERED" /\ req[w].to # "DELIVERED"
  BY <1>0, <1>1, <1>6 DEF DeliversSale, OrderMayBecome, OrderMoves
<1>8. KindKept'
  <2> SUFFICES ASSUME NEW u \in Clients, req'[u].op = "setOrder"
               PROVE  order'[req'[u].o].status = "REMOVED"
                        \/ (order'[req'[u].o].status # "NONE" /\ order'[req'[u].o].kind = req'[u].kind)
    BY DEF KindKept
  <2>1. req'[u] = req[u] /\ req[u].o \in Orders
    BY <1>4, Values DEF Sound, Typed, Fits, OrderOps
  <2>. QED BY <1>0, <1>2, <1>5, <2>1 DEF Sound, KindKept
<1>9. Made' /\ ByHand' /\ SoldIsBilled'
  BY <1>1, <1>4, Values DEF Sound, Made, ByHand, InvoiceOps, SoldIsBilled
<1>10. DeliveredIffBilled'
  BY <1>0, <1>1, <1>2, <1>7, NoneOfThese DEF Sound, Delivered
<1>. QED BY <1>4, <1>8, <1>9, <1>10 DEF Sound

LEMMA DeliverSound == ASSUME Sound, NEW w \in Clients, DeliverSale(w) PROVE Sound'
<1> DEFINE o == req[w].o
<1> DEFINE seen == req[w].seen
<1>0. TypeOK /\ Typed /\ order \in [Orders -> OrderType] /\ o \in Orders /\ seen \in SUBSET BilledLine
  BY TypeParts DEF Sound, Typed, DeliverSale, Fits, OrderOps, TypeOK, Request, BilledLine
<1>1. /\ req[w].op = "setOrder" /\ DeliversSale(req[w])
      /\ OrderMayBecome(order[o].status, "DELIVERED")
      /\ order' = [order EXCEPT ![o].status = "DELIVERED"]
      /\ \A x \in seen : line[x.line].order = o
      /\ asset' = [a \in Assets |-> IF \E x \in seen : x.asset = a THEN "SOLD" ELSE asset[a]]
      /\ invoice[o] = NoInvoice
      /\ invoice' = [invoice EXCEPT ![o] = DeliveryInvoice(seen)]
      /\ Finish(w) /\ UNCHANGED <<quotation, line>>
  BY DEF DeliverSale
<1>2. order[o].status # "REMOVED" /\ order[o].status \in OrderStatus
  BY <1>0, <1>1 DEF OrderMayBecome, OrderMoves, OrderType
<1>3. order[o].kind = "SALE"
  BY <1>1, <1>2 DEF Sound, KindKept, DeliversSale
<1> HIDE DEF o, seen
<1>4. order' \in [Orders -> OrderType]
      /\ \A p \in Orders : /\ order'[p].status = IF p = o THEN "DELIVERED" ELSE order[p].status
                           /\ order'[p].kind = order[p].kind
  BY <1>0, <1>1 DEF OrderType, OrderStatus
<1>5. /\ invoice' \in [Orders -> InvoiceType]
      /\ \A p \in Orders : p # o => invoice'[p] = invoice[p]
      /\ invoice'[o].by = "delivery" /\ invoice'[o].status = "ISSUED" /\ invoice'[o].items = seen
  BY <1>0, <1>1, TypeParts, Values
<1>7. asset' \in [Assets -> {"AVAILABLE", "RENTED", "SOLD"}]
      /\ \A a \in Assets : asset'[a] = IF \E x \in seen : x.asset = a THEN "SOLD" ELSE asset[a]
  BY <1>0, <1>1, TypeParts
<1>8. TypeOK'
  BY <1>0, <1>1, <1>4, <1>5, <1>7, TypeParts, TypePartsNext, Finished
<1>9. Typed' /\ \A u \in Clients : req'[u] = req[u] \/ req'[u] = Idle
  BY <1>0, <1>1, <1>8, Finished DEF Typed
<1>10. KindKept'
  <2> SUFFICES ASSUME NEW u \in Clients, req'[u].op = "setOrder"
               PROVE  order'[req'[u].o].status = "REMOVED"
                        \/ (order'[req'[u].o].status # "NONE" /\ order'[req'[u].o].kind = req'[u].kind)
    BY DEF KindKept
  <2>1. req'[u] = req[u] /\ req[u].o \in Orders
    BY <1>9, Values DEF Sound, Typed, Fits, OrderOps
  <2>. QED BY <1>2, <1>4, <2>1 DEF Sound, KindKept
<1>11. Made' /\ ByHand'
  <2>1. \A u \in Clients : req'[u].op \in InvoiceOps => req'[u] = req[u] /\ req[u].o \in Orders \ {o}
    BY <1>1, <1>9, Values DEF Sound, ByHand, Typed, Fits, OrderOps, InvoiceOps
  <2>. QED BY <1>5, <2>1 DEF Sound, Made, ByHand
<1>12. DeliveredIffBilled'
  <2> SUFFICES ASSUME NEW p \in Orders
               PROVE  /\ order'[p].kind = "SALE" /\ order'[p].status = "DELIVERED" <=> invoice'[p].by = "delivery"
                      /\ invoice'[p].by = "delivery" =>
                            invoice'[p].status = "ISSUED" /\ \A x \in invoice'[p].items : line'[x.line].order = p
    BY DEF DeliveredIffBilled
  <2>1. CASE p = o
    BY <1>0, <1>1, <1>3, <1>4, <1>5, <2>1
  <2>2. CASE p # o
    BY <1>0, <1>1, <1>4, <1>5, <2>2 DEF Sound, DeliveredIffBilled
  <2>. QED BY <2>1, <2>2
<1>13. SoldIsBilled'
  <2>1. invoice[o].by # "delivery"
    BY <1>1, Values
  <2> SUFFICES ASSUME NEW a \in Assets
               PROVE  asset'[a] = "SOLD" <=>
                        \E p \in Orders : invoice'[p].by = "delivery" /\ \E x \in invoice'[p].items : x.asset = a
    BY DEF SoldIsBilled
  <2>2. (\E p \in Orders : invoice'[p].by = "delivery" /\ \E x \in invoice'[p].items : x.asset = a)
          <=> (\E x \in seen : x.asset = a)
                \/ (\E p \in Orders : invoice[p].by = "delivery" /\ \E x \in invoice[p].items : x.asset = a)
    BY <1>0, <1>5, <2>1
  <2>. QED BY <1>7, <2>2 DEF Sound, SoldIsBilled
<1>. QED BY <1>9, <1>10, <1>11, <1>12, <1>13 DEF Sound

LEMMA RemoveOrderSound == ASSUME Sound, NEW w \in Clients, RemoveOrderCommit(w) PROVE Sound'
<1> DEFINE o == req[w].o
<1>0. TypeOK /\ Typed /\ order \in [Orders -> OrderType] /\ line \in [Lines -> LineType] /\ o \in Orders
  BY TypeParts DEF Sound, Typed, RemoveOrderCommit, Fits, OrderOps
<1>1. /\ invoice[o] = NoInvoice
      /\ order' = [order EXCEPT ![o] = [NoOrder EXCEPT !.status = "REMOVED"]]
      /\ line' = [l \in Lines |-> IF line[l].order = o THEN NoLine ELSE line[l]]
      /\ Finish(w) /\ UNCHANGED <<quotation, asset, invoice>>
  BY DEF RemoveOrderCommit
<1> HIDE DEF o
<1>2. [NoOrder EXCEPT !.status = "REMOVED"] \in OrderType /\ [NoOrder EXCEPT !.status = "REMOVED"].status = "REMOVED"
  BY DEF NoOrder, OrderType, OrderStatus, Kinds
<1>3. order' \in [Orders -> OrderType] /\ order'[o].status = "REMOVED"
      /\ \A p \in Orders : p # o => order'[p] = order[p]
  BY <1>0, <1>1, <1>2
<1>4. line' \in [Lines -> LineType] /\ \A l \in Lines : line[l].order # o => line'[l] = line[l]
  BY <1>0, <1>1, Values
<1>5. TypeOK'
  BY <1>0, <1>1, <1>3, <1>4, TypeParts, TypePartsNext, Finished
<1>6. Typed' /\ \A u \in Clients : req'[u] = req[u] \/ req'[u] = Idle
  BY <1>0, <1>1, <1>5, Finished DEF Typed
<1>7. KindKept'
  <2> SUFFICES ASSUME NEW u \in Clients, req'[u].op = "setOrder"
               PROVE  order'[req'[u].o].status = "REMOVED"
                        \/ (order'[req'[u].o].status # "NONE" /\ order'[req'[u].o].kind = req'[u].kind)
    BY DEF KindKept
  <2>1. req'[u] = req[u] /\ req[u].o \in Orders
    BY <1>6, Values DEF Sound, Typed, Fits, OrderOps
  <2>. QED BY <1>3, <2>1 DEF Sound, KindKept
<1>8. Made' /\ ByHand' /\ SoldIsBilled'
  BY <1>1, <1>6, Values DEF Sound, Made, ByHand, InvoiceOps, SoldIsBilled
<1>9. ~Delivered(o)
  BY <1>0, <1>1, Values DEF Sound, DeliveredIffBilled, Delivered
<1>10. DeliveredIffBilled'
  <2>1. \A p \in Orders : (order'[p].kind = "SALE" /\ order'[p].status = "DELIVERED") <=> Delivered(p)
    BY <1>3, <1>9 DEF Delivered
  <2>2. \A l \in Lines, p \in Orders : Delivered(p) /\ line[l].order = p => line'[l].order = p
    BY <1>4, <1>9
  <2>. QED BY <1>0, <1>1, <2>1, <2>2, NoneOfThese DEF Sound
<1>. QED BY <1>6, <1>7, <1>8, <1>10 DEF Sound

\* A line that is added, changed or removed is on no invoice, or stays its order's.
LEMMA LineSound ==
    ASSUME Sound, NEW w \in Clients, UpdateLine(w) \/ RemoveLine(w) \/ \E l \in Lines : AddLine(w, l)
    PROVE  Sound'
<1>0. TypeOK /\ Typed /\ line \in [Lines -> LineType] /\ req[w].o \in Orders /\ None \notin Orders
  BY TypeParts, ConstantsAssumption
     DEF Sound, Typed, UpdateLine, RemoveLine, AddLine, Fits, OrderOps, LineOps, ConstantsAssumption
<1>1. Finish(w) /\ UNCHANGED <<quotation, order, asset, invoice>>
  BY DEF UpdateLine, RemoveLine, AddLine
<1>2. line' \in [Lines -> LineType]
      /\ \A l \in Lines, p \in Orders : line[l].order = p /\ IsItem(l) => line'[l].order = p
  <2>1. CASE UpdateLine(w)
    <3>1. req[w].l \in Lines
      BY <1>0, <2>1 DEF UpdateLine, Typed, Fits
    <3>2. PICK a \in Assets \cup {None} : line' = [line EXCEPT ![req[w].l].asset = a]
      BY <2>1 DEF UpdateLine
    <3>3. line' \in [Lines -> LineType] /\ \A l \in Lines : line'[l].order = line[l].order
      BY <1>0, <3>1, <3>2 DEF LineType
    <3>. QED BY <3>3
  <2>2. CASE RemoveLine(w)
    <3>1. req[w].l \in Lines /\ line[req[w].l].order = req[w].o
          /\ ~IsItem(req[w].l)
          /\ line' = [line EXCEPT ![req[w].l] = NoLine]
      BY <1>0, <2>2 DEF RemoveLine, Typed, Fits
    <3>2. line' \in [Lines -> LineType] /\ \A l \in Lines : l # req[w].l => line'[l] = line[l]
      BY <1>0, <3>1, Values
    <3>. QED BY <3>1, <3>2
  <2>3. ASSUME NEW l \in Lines, AddLine(w, l)
        PROVE  /\ line' \in [Lines -> LineType]
               /\ \A k \in Lines, p \in Orders : line[k].order = p => line'[k].order = p
    <3>1. PICK a \in Assets \cup {None} : line' = [line EXCEPT ![l] = [order |-> req[w].o, asset |-> a]]
      BY <2>3 DEF AddLine
    <3>2. [order |-> req[w].o, asset |-> a] \in LineType
      BY <1>0 DEF LineType
    <3>3. line' \in [Lines -> LineType] /\ \A k \in Lines : k # l => line'[k] = line[k]
      BY <1>0, <3>1, <3>2
    <3>4. line[l].order = None
      BY <2>3, Values DEF AddLine
    <3>. QED BY <1>0, <3>3, <3>4
  <2>. QED BY <2>1, <2>2, <2>3
<1>3. TypeOK'
  BY <1>0, <1>1, <1>2, TypeParts, TypePartsNext, Finished
<1>4. Typed' /\ \A u \in Clients : req'[u] = req[u] \/ req'[u] = Idle
  BY <1>0, <1>1, <1>3, Finished DEF Typed
<1>5. KindKept'
  BY <1>1, <1>4, Values DEF Sound, KindKept
<1>6. Made' /\ ByHand' /\ SoldIsBilled'
  BY <1>1, <1>4, Values DEF Sound, Made, ByHand, InvoiceOps, SoldIsBilled
<1>7. DeliveredIffBilled'
  BY <1>0, <1>1, <1>2, NoneOfThese DEF Sound, Delivered
<1>. QED BY <1>4, <1>5, <1>6, <1>7 DEF Sound

\* Staff make an invoice where there is none, and change only such as they made.
LEMMA InvoiceSound ==
    ASSUME Sound,
           \/ \E o \in Orders : CreateInvoice(o)
           \/ \E w \in Clients : AddItem(w) \/ RemoveItem(w) \/ IssueInvoice(w)
    PROVE  Sound'
<1>0. TypeOK /\ Typed /\ invoice \in [Orders -> InvoiceType]
  BY TypeParts DEF Sound, Typed
<1>1. UNCHANGED <<quotation, order, line, asset>>
  BY DEF CreateInvoice, AddItem, RemoveItem, IssueInvoice
<1>2. /\ req' \in [Clients -> Request] /\ alone' \in BOOLEAN
      /\ \A u \in Clients : Fits(req'[u]) /\ (req'[u] = req[u] \/ req'[u] = Idle)
  <2>1. CASE \E o \in Orders : CreateInvoice(o)
    <3>1. UNCHANGED <<req, alone>>
      BY <2>1 DEF CreateInvoice
    <3>. QED BY <1>0, <3>1, TypeParts DEF Typed
  <2>2. ASSUME NEW w \in Clients, AddItem(w) \/ RemoveItem(w) \/ IssueInvoice(w)
        PROVE  /\ req' \in [Clients -> Request] /\ alone' \in BOOLEAN
               /\ \A u \in Clients : Fits(req'[u]) /\ (req'[u] = req[u] \/ req'[u] = Idle)
    <3>1. Finish(w)
      BY <2>2 DEF AddItem, RemoveItem, IssueInvoice
    <3>. QED BY <1>0, <3>1, Finished
  <2>. QED BY <2>1, <2>2
<1>3. PICK o \in Orders : /\ invoice[o].by # "delivery" /\ invoice' \in [Orders -> InvoiceType]
                          /\ \A p \in Orders : p # o => invoice'[p] = invoice[p]
                          /\ invoice'[o].by = "staff"
  <2>1. ASSUME NEW o \in Orders, CreateInvoice(o)
        PROVE  /\ invoice[o].by # "delivery" /\ invoice' \in [Orders -> InvoiceType]
               /\ \A p \in Orders : p # o => invoice'[p] = invoice[p]
               /\ invoice'[o].by = "staff"
    <3>1. /\ invoice[o] = NoInvoice
          /\ invoice' = [invoice EXCEPT ![o] = [status |-> "DRAFT", by |-> "staff", items |-> {}]]
      BY <2>1 DEF CreateInvoice
    <3>2. [status |-> "DRAFT", by |-> "staff", items |-> {}] \in InvoiceType
      BY DEF InvoiceType
    <3>. QED BY <1>0, <3>1, <3>2, Values
  <2>2. ASSUME NEW w \in Clients, AddItem(w) \/ RemoveItem(w) \/ IssueInvoice(w), NEW o, o = req[w].o
        PROVE  /\ o \in Orders
               /\ invoice[o].by # "delivery" /\ invoice' \in [Orders -> InvoiceType]
               /\ \A p \in Orders : p # o => invoice'[p] = invoice[p]
               /\ invoice'[o].by = "staff"
    <3>1. req[w].op \in InvoiceOps
      BY <2>2 DEF AddItem, RemoveItem, IssueInvoice, InvoiceOps
    <3>2. o \in Orders /\ invoice[o].by = "staff" /\ invoice[o] \in InvoiceType
      BY <1>0, <2>2, <3>1 DEF Sound, ByHand, Typed, Fits, OrderOps
    <3>3. CASE AddItem(w)
      <4>1. req[w].l \in Lines
        BY <1>0, <3>3 DEF AddItem, Typed, Fits
      <4>2. invoice' = [invoice EXCEPT ![o].items = @ \cup {[line |-> req[w].l, asset |-> None]}]
        BY <2>2, <3>3 DEF AddItem
      <4>3. invoice[o].items \cup {[line |-> req[w].l, asset |-> None]} \in SUBSET BilledLine
        BY <3>2, <4>1 DEF InvoiceType, BilledLine
      <4>. QED BY <1>0, <3>2, <4>2, <4>3 DEF InvoiceType
    <3>4. CASE RemoveItem(w)
      <4>1. invoice' = [invoice EXCEPT ![o].items = {x \in @ : x.line # req[w].l}]
        BY <2>2, <3>4 DEF RemoveItem
      <4>. QED BY <1>0, <3>2, <4>1 DEF InvoiceType
    <3>5. CASE IssueInvoice(w)
      <4>1. invoice' = [invoice EXCEPT ![o].status = "ISSUED"]
        BY <2>2, <3>5 DEF IssueInvoice
      <4>. QED BY <1>0, <3>2, <4>1 DEF InvoiceType
    <3>. QED BY <2>2, <3>2, <3>3, <3>4, <3>5
  <2>. QED BY <2>1, <2>2
<1>4. TypeOK'
  BY <1>0, <1>1, <1>2, <1>3, TypeParts, TypePartsNext
<1>5. Typed'
  BY <1>2, <1>4 DEF Typed
<1>6. KindKept'
  BY <1>1, <1>2, Values DEF Sound, KindKept
<1>7. Made' /\ ByHand'
  <2>1. \A u \in Clients : req'[u].op \in InvoiceOps => req'[u] = req[u] /\ req[u].o \in Orders
    BY <1>0, <1>2, Values DEF Typed, Fits, OrderOps, InvoiceOps
  <2>. QED BY <1>3, <2>1 DEF Sound, Made, ByHand
<1>8. DeliveredIffBilled'
  BY <1>1, <1>3 DEF Sound, DeliveredIffBilled
<1>9. SoldIsBilled'
  <2>1. \A p \in Orders : invoice'[p].by = "delivery" <=> invoice[p].by = "delivery"
    BY <1>3
  <2>2. \A p \in Orders : invoice[p].by = "delivery" => invoice'[p] = invoice[p]
    BY <1>3
  <2>. QED BY <1>1, <2>1, <2>2 DEF Sound, SoldIsBilled
<1>. QED BY <1>5, <1>6, <1>7, <1>8, <1>9 DEF Sound

LEMMA RentSound == ASSUME Sound, NEW a \in Assets, RentOrReturn(a) PROVE Sound'
<1>1. /\ UNCHANGED <<quotation, order, line, invoice, req, alone>>
      /\ asset' \in [Assets -> {"AVAILABLE", "RENTED", "SOLD"}]
      /\ \A b \in Assets : asset'[b] = "SOLD" <=> asset[b] = "SOLD"
  BY TypeParts DEF RentOrReturn, Sound, Typed
<1>2. Typed'
  BY <1>1, TypeParts, TypePartsNext DEF Sound, Typed
<1>3. KindKept' /\ Made' /\ ByHand' /\ DeliveredIffBilled'
  BY <1>1 DEF Sound, KindKept, Made, ByHand, DeliveredIffBilled
<1>4. SoldIsBilled'
  BY <1>1 DEF Sound, SoldIsBilled
<1>. QED BY <1>2, <1>3, <1>4 DEF Sound

LEMMA AbortSound == ASSUME Sound, NEW w \in Clients, Abort(w) PROVE Sound'
<1>1. Finish(w) /\ UNCHANGED rows
  BY DEF Abort
<1>2. TypeOK'
  BY <1>1, TypeParts, TypePartsNext, Finished DEF Sound, Typed, rows
<1>3. Typed' /\ \A u \in Clients : req'[u] = req[u] \/ req'[u] = Idle
  BY <1>1, <1>2, Finished DEF Sound, Typed
<1>. QED BY <1>1, <1>3, SoundKept DEF rows

LEMMA NextSound == Sound /\ [Next]_vars => Sound'
<1> SUFFICES ASSUME Sound, [Next]_vars PROVE Sound'
  OBVIOUS
<1>1. CASE UNCHANGED vars
  <2>1. TypeOK'
    BY <1>1, TypeParts, TypePartsNext DEF Sound, Typed, vars, rows
  <2>2. Typed'
    BY <1>1, <2>1 DEF Sound, Typed, vars
  <2>. QED BY <1>1, <2>2, SoundKept DEF vars, rows
<1>2. ASSUME NEW w \in Clients, Commit(w) PROVE Sound'
  BY <1>2, QuotationSound, ConvertSound, SetOrderSound, DeliverSound, RemoveOrderSound, LineSound,
         InvoiceSound
     DEF Commit
<1>. QED BY <1>1, <1>2, QuotationSound, CreateOrderSound, BeginSound, AbortSound, InvoiceSound, RentSound DEF Next

LEMMA AlwaysSound == Spec => []Sound
BY InitSound, NextSound, PTL DEF Spec

\* The tables and the requests in flight keep the shape of the schema.
THEOREM TypeCorrect == Spec => []TypeOK
<1>1. Sound => TypeOK
  BY DEF Sound, Typed
<1>. QED BY AlwaysSound, <1>1, PTL

\* A sale is delivered exactly when it has the invoice of its delivery, for lines that stay
\* its own, and no equipment is sold without one, whoever delivers, edits, cancels, removes or
\* invoices the order by hand at the same time.
THEOREM EverySaleAddsUp == Spec => []SalesAddUp
<1>1. Sound => SalesAddUp
  BY DEF Sound, SalesAddUp
<1>. QED BY AlwaysSound, <1>1, PTL

-----------------------------------------------------------------------------
(* As long as requests did not overlap: there is one at most, and what it   *)
(* has read still holds.                                                    *)

Sole == alone => \A u, w \in Clients : req[u] # Idle /\ req[w] # Idle => u = w

Current(o) == {AsBilled(l) : l \in LinesOf(o)}

StillHolds(w) ==
    /\ \A o \in Orders : req[w].op = "setOrder" /\ req[w].o = o => req[w].seen = Current(o)
    /\ req[w].op \in LineOps => invoice[req[w].o].by # "delivery"
    /\ req[w].op \in {"setQuotation", "removeQuotation", "convert"} => \A o \in Orders : order[o].from # req[w].q

Matches ==
    alone => \A o \in Orders : invoice[o].by = "delivery" => invoice[o].items = Current(o)

ReadsHold == alone => \A w \in Clients : StillHolds(w)

Fresh == Sound /\ Sole /\ ReadsHold /\ Matches /\ ConvertedOnce

LEMMA InitFresh == Init => Fresh
<1> SUFFICES ASSUME Init PROVE Fresh
  OBVIOUS
<1>1. Sole /\ ReadsHold
  BY Values DEF Init, Sole, ReadsHold, StillHolds, LineOps
<1>2. Matches
  BY Values DEF Init, Matches
<1>3. ConvertedOnce
  BY DEF Init, ConvertedOnce, NoOrder
<1>. QED BY <1>1, <1>2, <1>3, InitSound DEF Fresh

LEMMA SameLines ==
    ASSUME NEW o, \A l \in Lines : line[l].order = o \/ line'[l].order = o => line'[l] = line[l]
    PROVE  Current(o)' = Current(o)
<1>1. LinesOf(o)' = LinesOf(o)
  BY DEF LinesOf
<1>2. \A l \in LinesOf(o) : AsBilled(l)' = AsBilled(l)
  BY DEF AsBilled, LinesOf
<1>. QED BY <1>1, <1>2 DEF Current

LEMMA BeginFresh == ASSUME Fresh, NEW w \in Clients, Begin(w) PROVE Fresh'
<1>1. PICK r : Begun(r) /\ Remember(w, r) /\ req[w] = Idle
  BY Beginning DEF Fresh, Sound
<1>2. UNCHANGED rows /\ \A u \in Clients : req'[u] = IF u = w THEN r ELSE req[u]
  BY <1>1, Remembered DEF Fresh, Sound, Begun
<1>3. Sound'
  BY BeginSound DEF Fresh
<1>4. alone' => alone /\ \A u \in Clients \ {w} : req'[u] = Idle
  BY <1>1, <1>2 DEF Remember
<1>5. Sole'
  BY <1>4 DEF Sole
<1>6. ASSUME NEW o \in Orders PROVE Current(o)' = Current(o)
  BY <1>2, SameLines DEF rows
<1>7. ReadsHold'
  <2> SUFFICES ASSUME alone', NEW u \in Clients PROVE StillHolds(u)'
    BY DEF ReadsHold
  <2>1. CASE u # w
    <3>1. req'[u] = Idle
      BY <1>4, <2>1
    <3>. QED BY <3>1, Values DEF StillHolds, LineOps
  <2>2. CASE u = w
    <3>1. req'[u] = r
      BY <1>2, <2>2
    <3>2. r.op = "setOrder" => r.seen = Current(r.o) /\ r.o \in Orders
      BY <1>1 DEF Begun, Current, Fits, OrderOps
    <3>3. r.op \in LineOps => invoice[r.o].by # "delivery"
      BY <1>1 DEF Fresh, Sound, DeliveredIffBilled, Begun, Fits, OrderOps
    <3>4. ASSUME r.op \in {"setQuotation", "removeQuotation", "convert"}, NEW o \in Orders, order[o].from = r.q
          PROVE  FALSE
      <4>1. r.q \in Quotations /\ None \notin Quotations /\ None \notin Orders
        BY <1>1, <3>4, ConstantsAssumption DEF Begun, Fits, QuotationOps, ConstantsAssumption
      <4>2. quotation[r.q].order = o /\ quotation[r.q].status = "ACCEPTED"
        BY <1>4, <3>4, <4>1 DEF Fresh, ConvertedOnce
      <4>. QED BY <1>1, <3>4, <4>1, <4>2 DEF Begun
    <3>5. invoice' = invoice /\ order' = order
      BY <1>2 DEF rows
    <3>6. \A o \in Orders : r.op = "setOrder" /\ r.o = o => r.seen = Current(o)'
      BY <1>6, <3>2
    <3>. QED BY <2>2, <3>1, <3>3, <3>4, <3>5, <3>6 DEF StillHolds
  <2>. QED BY <2>1, <2>2
<1>8. Matches'
  BY <1>2, <1>4, <1>6 DEF Fresh, Matches, rows, Current
<1>9. ConvertedOnce'
  BY <1>2, <1>4 DEF Fresh, ConvertedOnce, rows
<1>. QED BY <1>3, <1>5, <1>7, <1>8, <1>9 DEF Fresh

\* A request that ends leaves none in flight.
LEMMA EndFresh ==
    ASSUME Fresh, NEW w \in Clients, req[w] # Idle, Finish(w)
    PROVE  Sole' /\ ReadsHold' /\ (alone' <=> alone)
<1>1. alone' = alone /\ \A u \in Clients : req'[u] = IF u = w THEN Idle ELSE req[u]
  BY Finished DEF Fresh, Sound
<1>2. alone => \A u \in Clients : req'[u] = Idle
  BY <1>1 DEF Fresh, Sole
<1>. QED BY <1>1, <1>2, Values DEF Sole, ReadsHold, StillHolds, LineOps

\* A new order, its quotation's only one.
LEMMA NewOrderFresh ==
    ASSUME Fresh, NEW o \in Orders, NEW kind \in Kinds, NEW from \in Quotations \cup {None},
           NEW S \in SUBSET Assets, NewOrder(o, kind, from, S), UNCHANGED <<asset, invoice>>,
           alone' <=> alone
    PROVE  Matches' /\ \A p \in Orders \ {o} : Current(p)' = Current(p)
<1>1. /\ order[o].status = "NONE"
      /\ \A p \in Orders : p # o => order'[p] = order[p]
      /\ \A l \in Lines : line'[l] = line[l] \/ (line[l].order = None /\ line'[l].order = o)
  BY NewOrderMakes DEF Fresh, Sound, Typed
<1>2. None \notin Orders
  BY ConstantsAssumption DEF ConstantsAssumption
<1>3. ASSUME NEW p \in Orders \ {o} PROVE Current(p)' = Current(p)
  <2>1. \A l \in Lines : line[l].order = p \/ line'[l].order = p => line'[l] = line[l]
    BY <1>1, <1>2
  <2>. QED BY <2>1, SameLines
<1>4. invoice[o].by # "delivery"
  BY <1>1 DEF Fresh, Sound, DeliveredIffBilled
<1>5. Matches'
  BY <1>3, <1>4 DEF Fresh, Matches, Current
<1>. QED BY <1>3, <1>5

LEMMA CreateOrderFresh == ASSUME Fresh, NEW o \in Orders, CreateOrder(o) PROVE Fresh'
<1>1. PICK kind \in Kinds, S \in SUBSET Assets : NewOrder(o, kind, None, S)
  BY DEF CreateOrder, Kinds
<1>2. UNCHANGED <<quotation, asset, invoice, req, alone>>
  BY DEF CreateOrder
<1>3. Sound' /\ Sole'
  BY <1>2, CreateOrderSound DEF Fresh, Sole
<1>4. Matches' /\ \A p \in Orders \ {o} : Current(p)' = Current(p)
  BY <1>1, <1>2, NewOrderFresh
<1>5. /\ order[o].status = "NONE" /\ order'[o].from = None
      /\ \A p \in Orders : p # o => order'[p] = order[p]
  <2>1. /\ order[o].status = "NONE"
        /\ \A p \in Orders : order'[p] = IF p = o THEN [status |-> "REGISTERED", kind |-> kind, from |-> None]
                                         ELSE order[p]
    BY <1>1, NewOrderMakes DEF Fresh, Sound, Typed
  <2>. QED BY <2>1
<1>6. ReadsHold'
  <2> SUFFICES ASSUME alone, NEW w \in Clients, StillHolds(w) PROVE StillHolds(w)'
    BY <1>2 DEF Fresh, ReadsHold
  <2>1. req[w].op = "setOrder" => req[w].o \in Orders \ {o}
    BY <1>5 DEF Fresh, Sound, KindKept, Typed, Fits, OrderOps
  <2>2. req[w].op \in QuotationOps => req[w].q # None
    BY ConstantsAssumption DEF Fresh, Sound, Typed, Fits, ConstantsAssumption
  <2>3. (req[w])' = req[w] /\ invoice' = invoice
    BY <1>2
  <2>4. \A p \in Orders : req[w].op = "setOrder" /\ req[w].o = p => req[w].seen = Current(p)'
    BY <1>4, <2>1 DEF StillHolds
  <2>5. req[w].op \in {"setQuotation", "removeQuotation", "convert"} => \A p \in Orders : order'[p].from # req[w].q
    BY <1>5, <2>2 DEF StillHolds, QuotationOps
  <2>. QED BY <2>3, <2>4, <2>5 DEF StillHolds
<1>7. ConvertedOnce'
  BY <1>2, <1>5 DEF Fresh, ConvertedOnce
<1>. QED BY <1>3, <1>4, <1>6, <1>7 DEF Fresh

LEMMA ConvertFresh == ASSUME Fresh, NEW w \in Clients, ConvertCommit(w) PROVE Fresh'
<1>0. TypeOK /\ Typed /\ quotation \in [Quotations -> QuotationType]
  BY TypeParts DEF Fresh, Sound, Typed
<1>1. PICK o \in Orders :
         /\ NewOrder(o, req[w].kind, req[w].q, req[w].offer)
         /\ quotation' = [quotation EXCEPT ![req[w].q].status = "ACCEPTED", ![req[w].q].order = o]
  BY DEF ConvertCommit
<1>2. req[w].op = "convert" /\ req[w] # Idle /\ Finish(w) /\ UNCHANGED <<asset, invoice>>
  BY Values DEF ConvertCommit
<1>3. req[w].kind \in Kinds /\ req[w].q \in Quotations /\ req[w].offer \in SUBSET Assets
  BY <1>0, <1>2 DEF Typed, Fits, QuotationOps, TypeOK, Request, Kinds
<1>4. Sound' /\ Sole' /\ ReadsHold' /\ (alone' <=> alone)
  BY <1>2, ConvertSound, EndFresh DEF Fresh
<1>5. Matches'
  BY <1>1, <1>2, <1>3, <1>4, NewOrderFresh
<1>6. order'[o].from = req[w].q /\ \A p \in Orders : p # o => order'[p] = order[p]
  <2>1. \A p \in Orders : order'[p] = IF p = o THEN [status |-> "REGISTERED", kind |-> req[w].kind,
                                                       from |-> req[w].q]
                                      ELSE order[p]
    BY <1>0, <1>1, <1>3, NewOrderMakes
  <2>. QED BY <2>1
<1>7. /\ quotation'[req[w].q].status = "ACCEPTED" /\ quotation'[req[w].q].order = o
      /\ \A q \in Quotations : q # req[w].q => quotation'[q] = quotation[q]
  BY <1>0, <1>1, <1>3 DEF QuotationType
<1>8. ConvertedOnce'
  <2> SUFFICES ASSUME alone, NEW p \in Orders, order'[p].from # None
               PROVE  quotation'[order'[p].from].order = p /\ quotation'[order'[p].from].status = "ACCEPTED"
    BY <1>4 DEF ConvertedOnce
  <2>1. CASE p = o
    BY <1>6, <1>7, <2>1
  <2>2. CASE p # o
    <3>1. order'[p] = order[p] /\ order[p].from # req[w].q
      BY <1>2, <1>6, <2>2 DEF Fresh, ReadsHold, StillHolds
    <3>2. order[p].from \in Quotations
      BY <1>0, <3>1, TypeParts DEF OrderType
    <3>. QED BY <1>7, <3>1, <3>2 DEF Fresh, ConvertedOnce
  <2>. QED BY <2>1, <2>2
<1>. QED BY <1>4, <1>5, <1>8 DEF Fresh

LEMMA QuotationFresh ==
    ASSUME Fresh,
           \/ \E q \in Quotations : CreateQuotation(q)
           \/ ExpireQuotations
           \/ \E w \in Clients : EditQuotationCommit(w) \/ RemoveQuotationCommit(w) \/ SetQuotationCommit(w)
    PROVE  Fresh'
<1>0. TypeOK /\ Typed /\ quotation \in [Quotations -> QuotationType] /\ order \in [Orders -> OrderType]
  BY TypeParts DEF Fresh, Sound, Typed
<1>1. Sound' /\ UNCHANGED <<order, line, asset, invoice>>
  BY QuotationSound
     DEF Fresh, CreateQuotation, ExpireQuotations, EditQuotationCommit, RemoveQuotationCommit, SetQuotationCommit
<1>2. Sole' /\ ReadsHold' /\ (alone' <=> alone)
  <2>1. ASSUME NEW w \in Clients, EditQuotationCommit(w) \/ RemoveQuotationCommit(w) \/ SetQuotationCommit(w)
        PROVE  Sole' /\ ReadsHold' /\ (alone' <=> alone)
    <3>1. req[w] # Idle /\ Finish(w)
      BY <2>1, Values DEF EditQuotationCommit, RemoveQuotationCommit, SetQuotationCommit
    <3>. QED BY <3>1, EndFresh
  <2>2. CASE ExpireQuotations \/ \E q \in Quotations : CreateQuotation(q)
    <3>1. UNCHANGED <<order, line, invoice, req, alone>>
      BY <2>2 DEF ExpireQuotations, CreateQuotation
    <3>2. \A o \in Orders : Current(o)' = Current(o)
      BY <3>1, SameLines
    <3>3. \A w \in Clients : req[w].op = "setOrder" => req[w].o \in Orders
      BY <1>0 DEF Typed, Fits, OrderOps
    <3>4. ReadsHold'
      BY <3>1, <3>2, <3>3 DEF Fresh, ReadsHold, StillHolds
    <3>. QED BY <3>1, <3>4 DEF Fresh, Sole
  <2>. QED BY <2>1, <2>2
<1>3. Matches'
  <2>1. \A o \in Orders : Current(o)' = Current(o)
    BY <1>1, SameLines
  <2>. QED BY <1>1, <1>2, <2>1 DEF Fresh, Matches, Current
<1>4. ASSUME alone, NEW o \in Orders, order[o].from # None
      PROVE  /\ quotation'[order[o].from].order = quotation[order[o].from].order
             /\ quotation'[order[o].from].status = quotation[order[o].from].status
  <2>1. quotation[order[o].from].status = "ACCEPTED" /\ order[o].from \in Quotations
    BY <1>0, <1>4 DEF Fresh, ConvertedOnce, OrderType
  <2>2. CASE ExpireQuotations
    BY <2>1, <2>2 DEF ExpireQuotations
  <2>3. ASSUME NEW q \in Quotations, CreateQuotation(q)
        PROVE  quotation'[order[o].from] = quotation[order[o].from]
    <3>1. quotation[q].status = "NONE" /\ \E new : quotation' = [quotation EXCEPT ![q] = new]
      BY <2>3 DEF CreateQuotation
    <3>. QED BY <1>0, <2>1, <3>1
  <2>4. ASSUME NEW w \in Clients, EditQuotationCommit(w)
        PROVE  /\ quotation'[order[o].from].order = quotation[order[o].from].order
               /\ quotation'[order[o].from].status = quotation[order[o].from].status
    BY <1>0, <2>1, <2>4 DEF EditQuotationCommit, QuotationType
  <2>5. ASSUME NEW w \in Clients, RemoveQuotationCommit(w) \/ SetQuotationCommit(w)
        PROVE  quotation'[order[o].from] = quotation[order[o].from]
    <3>1. order[o].from # req[w].q
      BY <1>4, <2>5 DEF RemoveQuotationCommit, SetQuotationCommit, Fresh, ReadsHold, StillHolds
    <3>2. \E new : quotation' = [quotation EXCEPT ![req[w].q] = new]
      BY <2>5 DEF RemoveQuotationCommit, SetQuotationCommit
    <3>. QED BY <1>0, <2>1, <3>1, <3>2
  <2>. QED BY <2>2, <2>3, <2>4, <2>5
<1>5. ConvertedOnce'
  BY <1>1, <1>2, <1>4 DEF Fresh, ConvertedOnce
<1>. QED BY <1>1, <1>2, <1>3, <1>5 DEF Fresh

\* The requests about one order.
LEMMA OrderFresh ==
    ASSUME Fresh, NEW w \in Clients,
           \/ SetOrderCommit(w) \/ DeliverSale(w) \/ RemoveOrderCommit(w) \/ UpdateLine(w) \/ RemoveLine(w)
           \/ \E l \in Lines : AddLine(w, l)
    PROVE  Fresh'
<1> DEFINE o == req[w].o
<1>0. TypeOK /\ Typed /\ order \in [Orders -> OrderType] /\ line \in [Lines -> LineType] /\ o \in Orders
      /\ None \notin Orders
  BY TypeParts, ConstantsAssumption
     DEF Fresh, Sound, Typed, SetOrderCommit, DeliverSale, RemoveOrderCommit, UpdateLine, RemoveLine, AddLine,
         Fits, OrderOps, LineOps, ConstantsAssumption
<1>1. Sound'
  BY SetOrderSound, DeliverSound, RemoveOrderSound, LineSound DEF Fresh
<1>2. Sole' /\ ReadsHold' /\ (alone' <=> alone) /\ UNCHANGED quotation
  <2>1. req[w] # Idle /\ Finish(w) /\ UNCHANGED quotation
    BY Values DEF SetOrderCommit, DeliverSale, RemoveOrderCommit, UpdateLine, RemoveLine, AddLine
  <2>. QED BY <2>1, EndFresh
<1> HIDE DEF o
<1>3. \A p \in Orders : order'[p].from \in {order[p].from, None}
  <2>1. CASE RemoveOrderCommit(w)
    <3>1. order' = [order EXCEPT ![o] = [NoOrder EXCEPT !.status = "REMOVED"]]
      BY <2>1 DEF RemoveOrderCommit, o
    <3>. QED BY <1>0, <3>1 DEF NoOrder
  <2>2. CASE UNCHANGED order
    BY <2>2
  <2>3. CASE SetOrderCommit(w) \/ DeliverSale(w)
    <3>1. \E to : order' = [order EXCEPT ![o].status = to]
      BY <2>3 DEF SetOrderCommit, DeliverSale, o
    <3>. QED BY <1>0, <3>1 DEF OrderType
  <2>. QED BY <2>1, <2>2, <2>3 DEF UpdateLine, RemoveLine, AddLine
<1>4. ConvertedOnce'
  <2> SUFFICES ASSUME alone, NEW p \in Orders, order'[p].from # None
               PROVE  quotation[order'[p].from].order = p /\ quotation[order'[p].from].status = "ACCEPTED"
    BY <1>2 DEF ConvertedOnce
  <2>1. order'[p].from = order[p].from
    BY <1>3
  <2>. QED BY <2>1 DEF Fresh, ConvertedOnce
<1>5. Matches'
  <2> SUFFICES ASSUME alone, NEW p \in Orders, invoice'[p].by = "delivery" PROVE invoice'[p].items = Current(p)'
    BY <1>2 DEF Matches, Current
  <2>1. CASE SetOrderCommit(w)
    <3>1. UNCHANGED <<line, invoice>>
      BY <2>1 DEF SetOrderCommit
    <3>. QED BY <3>1, SameLines DEF Fresh, Matches, Current
  <2>2. CASE DeliverSale(w)
    <3>1. /\ UNCHANGED line /\ invoice' = [invoice EXCEPT ![o] = DeliveryInvoice(req[w].seen)]
          /\ req[w].op = "setOrder" /\ DeliveryInvoice(req[w].seen).items = req[w].seen
      BY <2>2 DEF DeliverSale, DeliveryInvoice, o
    <3>2. Current(p)' = Current(p)
      BY <3>1, SameLines
    <3>3. CASE p = o
      BY <1>0, <3>1, <3>2, <3>3, TypeParts DEF Fresh, ReadsHold, StillHolds, o
    <3>4. CASE p # o
      BY <1>0, <3>1, <3>2, <3>4, TypeParts DEF Fresh, Matches, Current
    <3>. QED BY <3>3, <3>4
  <2>3. CASE RemoveOrderCommit(w)
    <3>1. /\ UNCHANGED <<invoice>> /\ invoice[o].by # "delivery"
          /\ line' = [l \in Lines |-> IF line[l].order = o THEN NoLine ELSE line[l]]
      BY <2>3, Values DEF RemoveOrderCommit, o
    <3>2. Current(p)' = Current(p)
      BY <1>0, <3>1, SameLines, Values
    <3>. QED BY <3>1, <3>2 DEF Fresh, Matches, Current
  <2>4. CASE UpdateLine(w) \/ RemoveLine(w) \/ \E l \in Lines : AddLine(w, l)
    <3>1. UNCHANGED <<invoice>> /\ invoice[o].by # "delivery"
      BY <2>4 DEF UpdateLine, RemoveLine, AddLine, Fresh, ReadsHold, StillHolds, LineOps, o
    <3>2. PICK l \in Lines : /\ \E x : line' = [line EXCEPT ![l] = x]
                             /\ line[l].order \in {o, None} /\ line'[l].order \in {o, None}
      <4>1. CASE UpdateLine(w)
        <5>1. req[w].l \in Lines /\ line[req[w].l].order = o
          BY <1>0, <4>1 DEF UpdateLine, Typed, Fits, o
        <5>2. PICK a \in Assets \cup {None} : line' = [line EXCEPT ![req[w].l].asset = a]
          BY <4>1 DEF UpdateLine
        <5>3. line'[req[w].l].order = o
          BY <1>0, <5>1, <5>2 DEF LineType
        <5>. QED BY <5>1, <5>2, <5>3
      <4>2. CASE RemoveLine(w)
        <5>1. req[w].l \in Lines /\ line[req[w].l].order = o /\ line' = [line EXCEPT ![req[w].l] = NoLine]
          BY <1>0, <4>2 DEF RemoveLine, Typed, Fits, o
        <5>. QED BY <1>0, <5>1, Values
      <4>3. ASSUME NEW l \in Lines, AddLine(w, l)
            PROVE  /\ \E x : line' = [line EXCEPT ![l] = x]
                   /\ line[l].order \in {o, None} /\ line'[l].order \in {o, None}
        <5>1. line[l].order = None
          BY <4>3, Values DEF AddLine
        <5>2. PICK a \in Assets \cup {None} : line' = [line EXCEPT ![l] = [order |-> o, asset |-> a]]
          BY <4>3 DEF AddLine, o
        <5>3. line'[l].order = o
          BY <1>0, <5>2
        <5>. QED BY <5>1, <5>2, <5>3
      <4>. QED BY <2>4, <4>1, <4>2, <4>3
    <3>3. p # o
      BY <3>1
    <3>4. \A k \in Lines : line[k].order = p \/ line'[k].order = p => line'[k] = line[k]
      BY <1>0, <3>2, <3>3
    <3>. QED BY <3>1, <3>4, SameLines DEF Fresh, Matches, Current
  <2>. QED BY <2>1, <2>2, <2>3, <2>4
<1>. QED BY <1>1, <1>2, <1>4, <1>5 DEF Fresh

\* What staff do to invoices of their own, and what contracts do to equipment.
LEMMA InvoiceFresh ==
    ASSUME Fresh,
           \/ \E o \in Orders : CreateInvoice(o)
           \/ \E w \in Clients : AddItem(w) \/ RemoveItem(w) \/ IssueInvoice(w)
           \/ \E a \in Assets : RentOrReturn(a)
    PROVE  Fresh'
<1>1. Sound' /\ UNCHANGED <<quotation, order, line>>
  BY InvoiceSound, RentSound DEF Fresh, CreateInvoice, AddItem, RemoveItem, IssueInvoice, RentOrReturn
<1>2. \A o \in Orders : Current(o)' = Current(o)
  BY <1>1, SameLines
<1>3. /\ \A p \in Orders : invoice[p].by # "delivery" => invoice'[p].by # "delivery"
      /\ \A p \in Orders : invoice[p].by = "delivery" => invoice'[p] = invoice[p]
  <2>1. ASSUME NEW p \in Orders PROVE invoice'[p].by = "delivery" <=> invoice[p].by = "delivery"
    BY <1>1 DEF Fresh, Sound, DeliveredIffBilled
  <2>2. ASSUME NEW p \in Orders, invoice[p].by = "delivery" PROVE invoice'[p] = invoice[p]
    <3>0. invoice \in [Orders -> InvoiceType]
      BY TypeParts DEF Fresh, Sound, Typed
    <3>1. ASSUME NEW o \in Orders, CreateInvoice(o) PROVE invoice'[p] = invoice[p]
      BY <2>2, <3>0, <3>1, Values DEF CreateInvoice
    <3>2. ASSUME NEW w \in Clients, AddItem(w) \/ RemoveItem(w) \/ IssueInvoice(w)
          PROVE  invoice'[p] = invoice[p]
      <4>1. invoice[req[w].o].by = "staff"
        BY <3>2 DEF Fresh, Sound, ByHand, InvoiceOps, AddItem, RemoveItem, IssueInvoice
      <4>2. req[w].o # p
        BY <2>2, <4>1
      <4>3. \E new : invoice' = [invoice EXCEPT ![req[w].o] = new]
        BY <3>2 DEF AddItem, RemoveItem, IssueInvoice
      <4>. QED BY <3>0, <4>2, <4>3
    <3>3. ASSUME NEW a \in Assets, RentOrReturn(a) PROVE invoice'[p] = invoice[p]
      BY <3>3 DEF RentOrReturn
    <3>. QED BY <3>1, <3>2, <3>3
  <2>. QED BY <2>1, <2>2
<1>4. Sole' /\ ReadsHold' /\ (alone' <=> alone)
  <2>1. ASSUME NEW w \in Clients, AddItem(w) \/ RemoveItem(w) \/ IssueInvoice(w)
        PROVE  Sole' /\ ReadsHold' /\ (alone' <=> alone)
    <3>1. req[w] # Idle /\ Finish(w)
      BY <2>1, Values DEF AddItem, RemoveItem, IssueInvoice
    <3>. QED BY <3>1, EndFresh
  <2>2. CASE (\E o \in Orders : CreateInvoice(o)) \/ \E a \in Assets : RentOrReturn(a)
    <3>1. UNCHANGED <<order, line, req, alone>>
      BY <2>2 DEF CreateInvoice, RentOrReturn
    <3>2. \A w \in Clients : req[w].op \in OrderOps => req[w].o \in Orders
      BY DEF Fresh, Sound, Typed, Fits
    <3>3. ASSUME alone, NEW w \in Clients PROVE StillHolds(w)'
      <4>1. StillHolds(w)
        BY <3>3 DEF Fresh, ReadsHold
      <4>2. req'[w] = req[w] /\ order' = order
        BY <3>1
      <4>3. \A o \in Orders : req[w].op = "setOrder" /\ req[w].o = o => req[w].seen = Current(o)'
        BY <1>2, <4>1 DEF StillHolds
      <4>4. req[w].op \in LineOps => invoice'[req[w].o].by # "delivery"
        BY <1>3, <3>2, <4>1 DEF StillHolds, OrderOps
      <4>. QED BY <4>1, <4>2, <4>3, <4>4 DEF StillHolds
    <3>. QED BY <3>1, <3>3 DEF Fresh, Sole, ReadsHold
  <2>. QED BY <2>1, <2>2
<1>5. Matches'
  BY <1>2, <1>3, <1>4 DEF Fresh, Matches
<1>6. ConvertedOnce'
  BY <1>1, <1>4 DEF Fresh, ConvertedOnce
<1>. QED BY <1>1, <1>4, <1>5, <1>6 DEF Fresh

LEMMA NothingFresh ==
    ASSUME Fresh, UNCHANGED vars \/ \E w \in Clients : Abort(w)
    PROVE  Fresh'
<1>1. UNCHANGED rows
  BY DEF vars, Abort
<1>2. \A o \in Orders : Current(o)' = Current(o)
  BY <1>1, SameLines DEF rows
<1>3. Sound'
  BY NextSound DEF Fresh, Next
<1>4. Sole' /\ ReadsHold' /\ (alone' <=> alone)
  <2>1. CASE UNCHANGED vars
    <3>1. UNCHANGED <<order, invoice, req, alone>>
      BY <2>1 DEF vars, rows
    <3>2. \A w \in Clients : req[w].op = "setOrder" => req[w].o \in Orders
      BY DEF Fresh, Sound, Typed, Fits, OrderOps
    <3>3. ReadsHold'
      BY <1>2, <3>1, <3>2 DEF Fresh, ReadsHold, StillHolds
    <3>. QED BY <3>1, <3>3 DEF Fresh, Sole
  <2>2. ASSUME NEW w \in Clients, Abort(w) PROVE Sole' /\ ReadsHold' /\ (alone' <=> alone)
    BY <2>2, EndFresh DEF Abort
  <2>. QED BY <2>1, <2>2
<1>5. Matches'
  BY <1>1, <1>2, <1>4 DEF Fresh, Matches, Current, rows
<1>6. ConvertedOnce'
  BY <1>1, <1>4 DEF Fresh, ConvertedOnce, rows
<1>. QED BY <1>3, <1>4, <1>5, <1>6 DEF Fresh

LEMMA AlwaysFresh == Spec => []Fresh
<1>1. ASSUME Fresh, [Next]_vars PROVE Fresh'
  <2>1. ASSUME NEW w \in Clients, Commit(w) PROVE Fresh'
    BY <1>1, <2>1, QuotationFresh, ConvertFresh, OrderFresh, InvoiceFresh DEF Commit
  <2>. QED BY <1>1, <2>1, QuotationFresh, CreateOrderFresh, BeginFresh, NothingFresh, InvoiceFresh DEF Next
<1>. QED BY <1>1, InitFresh, PTL DEF Spec

\* As long as requests do not overlap, the invoice of a delivered sale lists the lines of
\* the order, all of them and nothing else, for good.
THEOREM InvoicesMatchOrders == Spec => []DeliveredAsBilled
<1>1. Fresh => DeliveredAsBilled
  BY DEF Fresh, Sound, DeliveredIffBilled, DeliveredAsBilled, Matches, Current
<1>. QED BY AlwaysFresh, <1>1, PTL

\* As long as requests do not overlap, a quotation becomes one order at most, and each
\* names the other, whatever expires or is entered meanwhile.
THEOREM OneOrderPerQuotation == Spec => []ConvertedOnce
<1>1. Fresh => ConvertedOnce
  BY DEF Fresh
<1>. QED BY AlwaysFresh, <1>1, PTL

-----------------------------------------------------------------------------
(* The pages' copy of the rules.                                            *)

\* The table of moves that a page keeps and the service's are the same table.
LEMMA SameMoves ==
    /\ \A s \in QuotationStatus : PageQuotationMoves[s] = QuotationMoves[s]
    /\ \A s \in OrderStatus : PageOrderMoves[s] = OrderMoves[s]
BY DEF QuotationStatus, OrderStatus, PageQuotationMoves, QuotationMoves, PageOrderMoves, OrderMoves

\* A page that is up to date has a button for every request that the checks of the service
\* let through and for no other, in every state that the services can leave behind.  What the
\* database turns down after these checks is another matter.
THEOREM ButtonsAreChecked == Spec => []ButtonsMatchChecks
<1>1. ASSUME TypeOK PROVE ButtonsMatchChecks
  <2>1. \A q \in Quotations : quotation[q].status \in QuotationStatus
    BY <1>1, TypeParts DEF QuotationType
  <2>2. \A o \in Orders : order[o].status \in OrderStatus
    BY <1>1, TypeParts DEF OrderType
  <2>3. ASSUME NEW q \in Quotations
        PROVE  QuotationPage(q) = [moves |-> QuotationMoves[quotation[q].status],
                                   edit |-> MayEditQuotation(q),
                                   remove |-> MayRemoveQuotation(q), convert |-> MayConvert(q)]
    <3>1. (quotation[q].status \notin {"NONE", "ACCEPTED", "REJECTED", "EXPIRED"}) = MayEditQuotation(q)
      BY <2>1 DEF MayEditQuotation, QuotationStatus
    <3>2. /\ (quotation[q].status \in {"SENT", "ACCEPTED"} /\ quotation[q].order = None) = MayConvert(q)
          /\ (quotation[q].status = "DRAFT") = MayRemoveQuotation(q)
      BY DEF MayConvert, MayRemoveQuotation
    <3>. QED BY <2>1, <3>1, <3>2, SameMoves DEF QuotationPage
  <2>4. \A o \in Orders :
           OrderPage(o) = [moves |-> OrderMoves[order[o].status], remove |-> MayRemoveOrder(o)]
    BY <2>2, SameMoves DEF OrderPage, MayRemoveOrder
  <2>. QED BY <2>3, <2>4 DEF ButtonsMatchChecks
<1>. QED BY <1>1, TypeCorrect, PTL
=============================================================================
