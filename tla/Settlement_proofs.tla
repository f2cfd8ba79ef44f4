-------------------------- MODULE Settlement_proofs --------------------------
(***************************************************************************)
(* Theorems about Settlement, for any number of invoices and requests and  *)
(* any finite number of payments and refunds.                              *)
(***************************************************************************)
EXTENDS Settlement, Totals_proofs

-----------------------------------------------------------------------------
(* Type correctness: with what a request carries for the rows it will write *)

Fits(q) ==
    /\ q.op \in {"pay", "refund"} => q.n \in Nat
    /\ q.op = "refund" => q.v \in Invoices
    /\ q.op \in {"completeRefund", "cancelRefund"} => q.r \in Refunds /\ refund[q.r].status # "NONE"

RefundsOwned == \A r \in Refunds : refund[r].status # "NONE" => refund[r].invoice \in Invoices

Typed ==
    /\ TypeOK
    /\ RefundsOwned
    /\ \A w \in Clients : Fits(req[w])

LEMMA IdleFits == Idle \in Request /\ Fits(Idle)
BY DEF Idle, Request, RequestKinds, FiguresType, NothingPlaced, NoFigures, Fits

LEMMA InitTyped == Init => Typed
<1> SUFFICES ASSUME Init PROVE Typed
  OBVIOUS
<1>1. TypeOK
  BY IdleFits DEF Init, TypeOK, NoFigures, FiguresType, Money, NothingPlaced
<1>2. RefundsOwned
  BY DEF Init, RefundsOwned
<1>. QED BY <1>1, <1>2, IdleFits DEF Init, Typed

\* A step that only reads, or writes what only its own transaction sees.
LEMMA RememberTyped ==
    ASSUME Typed, NEW w \in Clients, NEW q \in Request, Fits(q), Remember(w, q), UNCHANGED rows
    PROVE  Typed'
<1>1. req' \in [Clients -> Request] /\ alone' \in BOOLEAN
  BY DEF Typed, TypeOK, Remember
<1>2. TypeOK'
  BY <1>1 DEF Typed, TypeOK, rows
<1>3. RefundsOwned'
  BY DEF Typed, RefundsOwned, rows
<1>4. ASSUME NEW u \in Clients PROVE Fits(req[u])'
  <2>1. Fits(req[u]) /\ req'[u] = IF u = w THEN q ELSE req[u]
    BY DEF Typed, TypeOK, Remember
  <2>2. refund' = refund
    BY DEF rows
  <2>. QED BY <2>1, <2>2 DEF Fits
<1>. QED BY <1>2, <1>3, <1>4 DEF Typed

\* The end of a request, whatever it did to the rows.
LEMMA FinishTyped ==
    ASSUME Typed, NEW w \in Clients, Finish(w),
           \A r \in Refunds : refund[r].status # "NONE" => refund'[r].status # "NONE"
    PROVE  /\ req' \in [Clients -> Request] /\ alone' \in BOOLEAN
           /\ \A u \in Clients : Fits(req[u])'
<1>1. req' \in [Clients -> Request] /\ alone' \in BOOLEAN
  BY IdleFits DEF Typed, TypeOK, Finish
<1>2. ASSUME NEW u \in Clients PROVE Fits(req[u])'
  <2>1. Fits(req[u]) /\ req'[u] = IF u = w THEN Idle ELSE req[u]
    BY DEF Typed, TypeOK, Finish
  <2>2. CASE u = w
    BY <2>1, <2>2 DEF Idle, Fits
  <2>3. CASE u # w
    BY <2>1, <2>3 DEF Fits
  <2>. QED BY <2>2, <2>3
<1>. QED BY <1>1, <1>2

\* The rows a transaction sees are rows.
LEMMA SeenTyped ==
    ASSUME Typed, NEW w \in Clients
    PROVE  /\ InvoiceSeen(w) \in [Invoices -> [status : {"NONE", "DRAFT", "ISSUED", "CANCELED"}, billed : Int]]
           /\ PaymentSeen(w) \in [Payments -> Money]
           /\ AllocSeen(w) \in [Payments -> [Invoices -> Nat]]
           /\ RefundSeen(w) \in [Refunds -> [status : {"NONE", "PENDING", "COMPLETED", "CANCELED"},
                                             invoice : Invoices \cup {None}, amount : Nat]]
<1> DEFINE q == req[w]
<1>1. q \in Request /\ Fits(q)
  BY DEF Typed, TypeOK
<1>2. q.n \in Int /\ q.plan \in [Invoices -> Nat]
  BY <1>1 DEF Request
<1>3. InvoiceSeen(w) \in [Invoices -> [status : {"NONE", "DRAFT", "ISSUED", "CANCELED"}, billed : Int]]
  <2>1. CASE q.op = "bill"
    <3>1. InvoiceSeen(w) = [invoice EXCEPT ![q.v].billed = invoice[q.v].billed + q.n]
      BY <2>1 DEF InvoiceSeen
    <3>2. invoice \in [Invoices -> [status : {"NONE", "DRAFT", "ISSUED", "CANCELED"}, billed : Int]]
      BY DEF Typed, TypeOK
    <3>3. ASSUME NEW v \in Invoices
          PROVE  InvoiceSeen(w)[v] \in [status : {"NONE", "DRAFT", "ISSUED", "CANCELED"}, billed : Int]
      <4>1. CASE v = q.v
        BY <1>2, <3>1, <3>2, <4>1
      <4>2. CASE v # q.v
        BY <3>1, <3>2, <4>2
      <4>. QED BY <4>1, <4>2
    <3>. QED BY <3>1, <3>2, <3>3
  <2>2. CASE q.op # "bill"
    BY <2>2 DEF Typed, TypeOK, InvoiceSeen
  <2>. QED BY <2>1, <2>2
<1>4. PaymentSeen(w) \in [Payments -> Money]
  <2>1. CASE q.op = "pay"
    BY <1>1, <2>1 DEF Typed, TypeOK, PaymentSeen, Fits, Money
  <2>2. CASE q.op = "cancelPayment"
    BY <2>2 DEF Typed, TypeOK, PaymentSeen, Money
  <2>3. CASE q.op \notin {"pay", "cancelPayment"}
    BY <2>3 DEF Typed, TypeOK, PaymentSeen
  <2>. QED BY <2>1, <2>2, <2>3
<1>5. AllocSeen(w) \in [Payments -> [Invoices -> Nat]]
  <2>1. CASE q.op = "pay"
    <3>1. AllocSeen(w) = [alloc EXCEPT ![q.p] = q.plan]
      BY <2>1 DEF AllocSeen
    <3>2. alloc \in [Payments -> [Invoices -> Nat]]
      BY DEF Typed, TypeOK
    <3> HIDE DEF q
    <3>. QED BY <1>2, <3>1, <3>2
  <2>2. CASE q.op = "cancelPayment"
    <3>1. AllocSeen(w) = [alloc EXCEPT ![q.p] = NothingPlaced]
      BY <2>2 DEF AllocSeen
    <3>2. alloc \in [Payments -> [Invoices -> Nat]] /\ NothingPlaced \in [Invoices -> Nat]
      BY DEF Typed, TypeOK, NothingPlaced
    <3> HIDE DEF q
    <3>. QED BY <3>1, <3>2
  <2>3. CASE q.op \notin {"pay", "cancelPayment"}
    BY <2>3 DEF Typed, TypeOK, AllocSeen
  <2>. QED BY <2>1, <2>2, <2>3
<1>6. RefundSeen(w) \in [Refunds -> [status : {"NONE", "PENDING", "COMPLETED", "CANCELED"},
                                     invoice : Invoices \cup {None}, amount : Nat]]
  <2>1. CASE q.op = "refund"
    BY <1>1, <2>1 DEF Typed, TypeOK, RefundSeen, Fits
  <2>2. CASE q.op \in {"completeRefund", "cancelRefund"}
    BY <2>2 DEF Typed, TypeOK, RefundSeen, RefundTarget
  <2>3. CASE q.op \notin {"refund", "completeRefund", "cancelRefund"}
    BY <2>3 DEF Typed, TypeOK, RefundSeen
  <2>. QED BY <2>1, <2>2, <2>3
<1>. QED BY <1>3, <1>4, <1>5, <1>6

\* What a trigger computes are figures.
LEMMA FiguresTyped ==
    ASSUME Typed, NEW w \in Clients, NEW v \in Invoices
    PROVE  FiguresSeen(w, v) \in FiguresType
<1>1. InvoiceSeen(w)[v].billed \in Int
  BY SeenTyped
<1>2. Placed(PaymentSeen(w), AllocSeen(w), v) \in Int
  <2>1. [p \in Payments |-> IF PaymentSeen(w)[p].status = "COMPLETED" THEN AllocSeen(w)[p][v] ELSE 0]
          \in [Payments -> Int]
    BY SeenTyped
  <2>. QED BY <2>1, TotalInt, ConstantsAssumption DEF Placed, ConstantsAssumption
<1>3. Returned(RefundSeen(w), v) \in Int
  <2>1. [r \in Refunds |-> IF RefundSeen(w)[r].invoice = v /\ RefundSeen(w)[r].status \in {"COMPLETED"}
                           THEN RefundSeen(w)[r].amount ELSE 0] \in [Refunds -> Int]
    BY SeenTyped
  <2>. QED BY <2>1, TotalInt, ConstantsAssumption DEF Returned, RefundedAs, ConstantsAssumption
<1>. QED BY <1>1, <1>2, <1>3 DEF FiguresSeen, Figures, FiguresType

LEMMA BeginTyped ==
    ASSUME Typed, NEW w \in Clients, Begin(w)
    PROVE  Typed'
<1>1. ASSUME NEW v \in Invoices, NEW n \in BillAmounts, BillBegin(w, v, n) PROVE Typed'
  <2> DEFINE q == [Idle EXCEPT !.op = "bill", !.at = "writing", !.v = v, !.n = n, !.todo = {v}]
  <2>1. n \in Int
    BY ConstantsAssumption DEF ConstantsAssumption
  <2>2. q \in Request /\ Fits(q)
    BY <2>1, IdleFits DEF Idle, Request, RequestKinds, Fits
  <2>. QED BY <1>1, <2>2, RememberTyped DEF BillBegin
<1>2. ASSUME NEW v \in Invoices, IssueBegin(w, v) PROVE Typed'
  <2>1. [Idle EXCEPT !.op = "issue", !.v = v] \in Request /\ Fits([Idle EXCEPT !.op = "issue", !.v = v])
    BY IdleFits DEF Idle, Request, RequestKinds, Fits
  <2>. QED BY <1>2, <2>1, RememberTyped DEF IssueBegin
<1>3. ASSUME NEW v \in Invoices, CancelInvoiceBegin(w, v) PROVE Typed'
  <2> DEFINE q == [Idle EXCEPT !.op = "cancelInvoice", !.v = v]
  <2>1. q \in Request /\ Fits(q)
    BY IdleFits DEF Idle, Request, RequestKinds, Fits
  <2>. QED BY <1>3, <2>1, RememberTyped DEF CancelInvoiceBegin
<1>4. ASSUME NEW v \in Invoices, NEW n \in RefundAmounts, RefundBegin(w, v, n) PROVE Typed'
  <2> DEFINE q == [Idle EXCEPT !.op = "refund", !.v = v, !.n = n]
  <2>1. n \in Nat /\ n \in Int
    BY ConstantsAssumption DEF ConstantsAssumption
  <2>2. q \in Request /\ Fits(q)
    BY <2>1, IdleFits DEF Idle, Request, RequestKinds, Fits
  <2>. QED BY <1>4, <2>2, RememberTyped DEF RefundBegin
<1>5. ASSUME NEW p \in Payments, CancelPaymentBegin(w, p) PROVE Typed'
  <2> DEFINE q == [Idle EXCEPT !.op = "cancelPayment", !.p = p]
  <2>1. q \in Request /\ Fits(q)
    BY IdleFits DEF Idle, Request, RequestKinds, Fits
  <2>. QED BY <1>5, <2>1, RememberTyped DEF CancelPaymentBegin
<1>6. ASSUME NEW p \in Payments, NEW n \in PayAmounts, PayBegin(w, p, n) PROVE Typed'
  <2>1. n \in Nat /\ n \in Int
    BY ConstantsAssumption DEF ConstantsAssumption
  <2>2. PICK plan \in [Invoices -> 0..n] :
          Remember(w, [Idle EXCEPT !.op = "pay", !.at = "writing", !.p = p, !.n = n, !.plan = plan,
                                   !.todo = {v \in Invoices : plan[v] # 0}])
    BY <1>6 DEF PayBegin
  <2> DEFINE q == [Idle EXCEPT !.op = "pay", !.at = "writing", !.p = p, !.n = n, !.plan = plan,
                               !.todo = {v \in Invoices : plan[v] # 0}]
  <2>3. plan \in [Invoices -> Nat]
    BY <2>1
  <2>4. q \in Request
    <3>1. {v \in Invoices : plan[v] # 0} \in SUBSET Invoices
      OBVIOUS
    <3>. QED BY <2>1, <2>3, <3>1, IdleFits DEF Idle, Request, RequestKinds
  <2>5. q.op = "pay" /\ q.n = n /\ q.plan = plan
    BY DEF Idle
  <2>6. Fits(q)
    BY <2>1, <2>3, <2>5 DEF Fits
  <2>. QED BY <1>6, <2>2, <2>4, <2>6, RememberTyped DEF PayBegin
<1>7. ASSUME NEW r \in Refunds, RefundStatusBegin(w, r) PROVE Typed'
  <2>1. PICK op \in {"completeRefund", "cancelRefund"} :
          /\ refund[r].status = "PENDING"
          /\ Remember(w, [Idle EXCEPT !.op = op, !.r = r])
          /\ UNCHANGED rows
    BY <1>7 DEF RefundStatusBegin
  <2> DEFINE q == [Idle EXCEPT !.op = op, !.r = r]
  <2>2. q \in Request /\ Fits(q)
    BY <2>1, IdleFits DEF Idle, Request, RequestKinds, Fits
  <2>. QED BY <2>1, <2>2, RememberTyped
<1>. QED BY <1>1, <1>2, <1>3, <1>4, <1>5, <1>6, <1>7 DEF Begin

\* A request goes on with the amounts it began with.
LEMMA GoesOnFitting ==
    ASSUME Typed, NEW w \in Clients, NEW q \in Request, q.op = req[w].op, q.v = req[w].v,
           q.n = req[w].n,
           q.op \in {"completeRefund", "cancelRefund"} => q.r = req[w].r
    PROVE  Fits(q)
BY DEF Typed, Fits

LEMMA WriteTyped ==
    ASSUME Typed, NEW w \in Clients, Write(w)
    PROVE  Typed'
<1>1. req[w] \in Request /\ Fits(req[w])
  BY DEF Typed, TypeOK
<1>2. CASE CancelPaymentDelete(w)
  <2> DEFINE q == [req[w] EXCEPT !.at = "writing", !.todo = {v \in Invoices : alloc[req[w].p][v] # 0}]
  <2>1. q \in Request /\ Fits(q)
    BY <1>1, GoesOnFitting DEF Request
  <2>. QED BY <1>2, <2>1, RememberTyped DEF CancelPaymentDelete
<1>3. CASE RefundUpdate(w)
  <2> DEFINE q == [req[w] EXCEPT !.at = "writing", !.todo = {refund[req[w].r].invoice}]
  <2>1. refund[req[w].r].invoice \in Invoices
    BY <1>1, <1>3 DEF RefundUpdate, Typed, RefundsOwned, Fits
  <2>2. q \in Request /\ Fits(q)
    BY <1>1, <2>1, GoesOnFitting DEF Request
  <2>. QED BY <1>3, <2>2, RememberTyped DEF RefundUpdate
<1>4. ASSUME NEW r \in Refunds, RefundInsert(w, r) PROVE Typed'
  <2> DEFINE q == [req[w] EXCEPT !.at = "writing", !.r = r, !.todo = {req[w].v}]
  <2>1. req[w].op = "refund" /\ req[w].v \in Invoices
    BY <1>1, <1>4 DEF RefundInsert, Fits
  <2>2. q \in Request /\ q.op = "refund"
    BY <1>1, <2>1 DEF Request
  <2>3. Fits(q)
    BY <1>1, <2>2, GoesOnFitting DEF Request
  <2>. QED BY <1>4, <2>2, <2>3, RememberTyped DEF RefundInsert
<1>5. ASSUME NEW v \in Invoices, SumUp(w, v) PROVE Typed'
  <2> DEFINE q == [req[w] EXCEPT !.now = v, !.figures[v] = FiguresSeen(w, v)]
  <2>1. q \in Request
    BY <1>1, FiguresTyped DEF Request
  <2>2. Fits(q)
    BY <1>1, <2>1, GoesOnFitting DEF Request
  <2>. QED BY <1>5, <2>1, <2>2, RememberTyped DEF SumUp
<1>6. CASE Store(w)
  <2> DEFINE v == req[w].now
             kept == IF req[w].op \in {"completeRefund", "cancelRefund"}
                     THEN FiguresSeen(w, v) ELSE req[w].figures[v]
             q == [req[w] EXCEPT !.now = None, !.todo = @ \ {v}, !.locks = @ \cup {v}, !.figures[v] = kept]
  <2>1. v \in Invoices
    BY <1>1, <1>6 DEF Store, Request
  <2>2. kept \in FiguresType
    BY <1>1, <2>1, FiguresTyped DEF Request
  <2> HIDE DEF kept
  <2>3. q \in Request
    BY <1>1, <2>1, <2>2 DEF Request
  <2>4. Fits(q)
    BY <1>1, <2>3, GoesOnFitting DEF Request
  <2>. QED BY <1>6, <2>3, <2>4, RememberTyped DEF Store, kept
<1>7. CASE Verify(w)
  <2> DEFINE q == [req[w] EXCEPT !.at = "verified"]
  <2>1. q \in Request /\ Fits(q)
    BY <1>1, GoesOnFitting DEF Request
  <2>. QED BY <1>7, <2>1, RememberTyped DEF Verify
<1>. QED BY <1>2, <1>3, <1>4, <1>5, <1>6, <1>7 DEF Write

LEMMA CommitTyped ==
    ASSUME Typed, NEW w \in Clients, Commit(w)
    PROVE  Typed'
<1>1. req[w] \in Request /\ Fits(req[w])
  BY DEF Typed, TypeOK
<1>2. /\ invoice' \in [Invoices -> [status : {"NONE", "DRAFT", "ISSUED", "CANCELED"}, billed : Int]]
      /\ payment' \in [Payments -> Money]
      /\ alloc' \in [Payments -> [Invoices -> Nat]]
      /\ refund' \in [Refunds -> [status : {"NONE", "PENDING", "COMPLETED", "CANCELED"},
                                  invoice : Invoices \cup {None}, amount : Nat]]
  BY SeenTyped DEF Commit
<1>3. summary' \in [Invoices -> FiguresType]
  BY <1>1 DEF Commit, Typed, TypeOK, Request
<1>4. ASSUME NEW r \in Refunds, refund[r].status # "NONE"
      PROVE  refund'[r].status # "NONE"
  BY <1>4 DEF Commit, RefundSeen, RefundTarget, Typed, TypeOK
<1>5. RefundsOwned'
  <2>1. SUFFICES ASSUME NEW r \in Refunds, refund'[r].status # "NONE"
                 PROVE  refund'[r].invoice \in Invoices
    BY DEF RefundsOwned
  <2>2. CASE refund[r].status # "NONE" /\ ~(req[w].op = "refund" /\ req[w].r = r)
    BY <2>2 DEF Commit, RefundSeen, RefundTarget, Typed, TypeOK, RefundsOwned
  <2>3. CASE req[w].op = "refund" /\ req[w].r = r
    BY <1>1, <2>3 DEF Commit, RefundSeen, Typed, TypeOK, Fits
  <2>4. CASE refund[r].status = "NONE" /\ ~(req[w].op = "refund" /\ req[w].r = r)
    BY <1>1, <2>1, <2>4 DEF Commit, RefundSeen, RefundTarget, Typed, TypeOK, Fits
  <2>. QED BY <2>2, <2>3, <2>4
<1>6. /\ req' \in [Clients -> Request] /\ alone' \in BOOLEAN
      /\ \A u \in Clients : Fits(req[u])'
  BY <1>4, FinishTyped DEF Commit
<1>. QED BY <1>2, <1>3, <1>5, <1>6 DEF Typed, TypeOK

LEMMA NextTyped == Typed /\ [Next]_vars => Typed'
<1> SUFFICES ASSUME Typed, [Next]_vars PROVE Typed'
  OBVIOUS
<1>1. ASSUME NEW v \in Invoices, CreateInvoice(v) PROVE Typed'
  BY <1>1 DEF CreateInvoice, Typed, TypeOK, RefundsOwned, Fits
<1>2. ASSUME NEW w \in Clients, InvoiceStatusCommit(w) PROVE Typed'
  <2>1. invoice' \in [Invoices -> [status : {"NONE", "DRAFT", "ISSUED", "CANCELED"}, billed : Int]]
    <3>1. PICK to \in {"ISSUED", "CANCELED"} : invoice' = [invoice EXCEPT ![req[w].v].status = to]
      BY <1>2 DEF InvoiceStatusCommit
    <3>2. invoice \in [Invoices -> [status : {"NONE", "DRAFT", "ISSUED", "CANCELED"}, billed : Int]]
      BY DEF Typed, TypeOK
    <3>. QED BY <3>1, <3>2
  <2>2. UNCHANGED <<summary, payment, alloc, refund>> /\ Finish(w)
    BY <1>2 DEF InvoiceStatusCommit
  <2>3. /\ req' \in [Clients -> Request] /\ alone' \in BOOLEAN
        /\ \A u \in Clients : Fits(req[u])'
    BY <2>2, FinishTyped
  <2>. QED BY <2>1, <2>2, <2>3 DEF Typed, TypeOK, RefundsOwned
<1>3. ASSUME NEW w \in Clients, Abort(w) PROVE Typed'
  <2>1. UNCHANGED rows /\ Finish(w)
    BY <1>3 DEF Abort
  <2>2. /\ req' \in [Clients -> Request] /\ alone' \in BOOLEAN
        /\ \A u \in Clients : Fits(req[u])'
    BY <2>1, FinishTyped DEF rows
  <2>. QED BY <2>1, <2>2 DEF Typed, TypeOK, RefundsOwned, rows
<1>4. CASE UNCHANGED vars
  BY <1>4 DEF vars, rows, Typed, TypeOK, RefundsOwned, Fits
<1>. QED BY <1>1, <1>2, <1>3, <1>4, BeginTyped, WriteTyped, CommitTyped DEF Next

\* The tables keep the shape the schema gives them, whatever requests overlap, fail
\* half-way or are answered late.
THEOREM TypeCorrect == Spec => []TypeOK
<1>1. Typed => TypeOK
  BY DEF Typed
<1>. QED BY InitTyped, NextTyped, <1>1, PTL DEF Spec

-----------------------------------------------------------------------------
(* Totals over refunds and payments, compared row by row *)

Standing == {"PENDING", "COMPLETED"}
Share(ref, v, statuses, r) ==
    IF ref[r].invoice = v /\ ref[r].status \in statuses THEN ref[r].amount ELSE 0
PaidBy(pay, al, v, p) == IF pay[p].status = "COMPLETED" THEN al[p][v] ELSE 0

LEMMA SameShares ==
    ASSUME NEW ref, NEW ref2, NEW v, NEW statuses,
           \A r \in Refunds : Share(ref2, v, statuses, r) = Share(ref, v, statuses, r)
    PROVE  RefundedAs(ref2, v, statuses) = RefundedAs(ref, v, statuses)
<1>1. [r \in Refunds |-> Share(ref2, v, statuses, r)] = [r \in Refunds |-> Share(ref, v, statuses, r)]
  OBVIOUS
<1>. QED BY <1>1 DEF RefundedAs, Share

LEMMA SamePayments ==
    ASSUME NEW pay, NEW pay2, NEW al, NEW al2, NEW v,
           \A p \in Payments : PaidBy(pay2, al2, v, p) = PaidBy(pay, al, v, p)
    PROVE  Placed(pay2, al2, v) = Placed(pay, al, v)
<1>1. [p \in Payments |-> PaidBy(pay2, al2, v, p)] = [p \in Payments |-> PaidBy(pay, al, v, p)]
  OBVIOUS
<1>. QED BY <1>1 DEF Placed, PaidBy

LEMMA NothingAtFirst ==
    ASSUME Init, NEW v \in Invoices
    PROVE  Placed(payment, alloc, v) = 0 /\ Claimed(refund, v) = 0 /\ Returned(refund, v) = 0
<1>1. ASSUME NEW statuses \in {Standing, {"COMPLETED"}} PROVE RefundedAs(refund, v, statuses) = 0
  <2> DEFINE f == [r \in Refunds |-> Share(refund, v, statuses, r)]
  <2>1. f \in [Refunds -> Int] /\ \A r \in Refunds : f[r] = 0
    BY DEF Init, Share
  <2>2. RefundedAs(refund, v, statuses) = Total(f)
    BY DEF RefundedAs, Share
  <2> HIDE DEF f
  <2>. QED BY <2>1, <2>2, TotalOfNothing, ConstantsAssumption DEF ConstantsAssumption
<1>2. Placed(payment, alloc, v) = 0
  <2> DEFINE f == [p \in Payments |-> PaidBy(payment, alloc, v, p)]
  <2>1. f \in [Payments -> Int] /\ \A p \in Payments : f[p] = 0
    BY DEF Init, PaidBy
  <2>2. Placed(payment, alloc, v) = Total(f)
    BY DEF Placed, PaidBy
  <2> HIDE DEF f
  <2>. QED BY <2>1, <2>2, TotalOfNothing, ConstantsAssumption DEF ConstantsAssumption
<1>. QED BY <1>1, <1>2 DEF Claimed, Returned, Standing

-----------------------------------------------------------------------------
(* Refunds are covered.  The trigger's lock on the invoice and the deferred *)
(* check together: what a transaction writes touches only invoices it has  *)
(* locked or is still going to lock (Reaching), no two transactions write  *)
(* the same row (Apart), and so what was checked is true until the commit. *)

Written(q) == q.at # "start"
Reach(q) == q.todo \cup q.locks

Reaching(q) ==
    /\ ~Written(q) => q.locks = {}
    /\ q.op = "pay" =>
         /\ Written(q) /\ q.p \in Payments /\ payment[q.p].status = "NONE"
         /\ \A v \in Invoices : q.plan[v] # 0 => v \in Reach(q)
    /\ q.op = "cancelPayment" =>
         /\ q.p \in Payments /\ payment[q.p].status # "NONE"
         /\ Written(q) => \A v \in Invoices : alloc[q.p][v] # 0 => v \in Reach(q)
    /\ q.op = "refund" /\ Written(q) =>
         q.r \in Refunds /\ refund[q.r].status = "NONE" /\ q.v \in Reach(q)
    /\ q.op \in {"completeRefund", "cancelRefund"} /\ Written(q) =>
         /\ refund[q.r].invoice \in Reach(q)
         /\ RefundMayBecome(refund[q.r].status, RefundTarget(q.op))
    /\ q.at = "verified" => q.todo = {}

Apart(q, s) ==
    /\ q.locks \cap s.locks = {}
    /\ Written(q) /\ Written(s) =>
         /\ ~(q.op = "pay" /\ s.op = "pay")
         /\ ~(q.op = "refund" /\ s.op = "refund")
         /\ q.op = "cancelPayment" /\ s.op = "cancelPayment" => q.p # s.p
         /\ {q.op, s.op} \subseteq {"completeRefund", "cancelRefund"} => q.r # s.r

CoveredAsSeen(w, v) == Claimed(RefundSeen(w), v) <= Placed(PaymentSeen(w), AllocSeen(w), v)

Checked(w) ==
    req[w].at = "verified" /\ req[w].op # "bill" => \A v \in req[w].locks : CoveredAsSeen(w, v)

Covering ==
    /\ Typed
    /\ RefundsCovered
    /\ \A w \in Clients : Reaching(req[w]) /\ Checked(w)
    /\ \A w \in Clients, u \in Clients : w # u => Apart(req[w], req[u])

LEMMA InitCovering == Init => Covering
<1> SUFFICES ASSUME Init PROVE Covering
  OBVIOUS
<1>1. RefundsCovered
  BY NothingAtFirst DEF RefundsCovered
<1>2. \A w \in Clients : req[w] = Idle
  BY DEF Init
<1>3. Reaching(Idle) /\ Apart(Idle, Idle)
  BY DEF Reaching, Apart, Idle, Written
<1>4. \A w \in Clients : Checked(w)
  BY <1>2 DEF Checked, Idle
<1>. QED BY <1>1, <1>2, <1>3, <1>4, InitTyped DEF Covering

\* A step that changes one request and none of the tables of payments and refunds.
LEMMA LocalStep ==
    ASSUME Covering, Typed', UNCHANGED <<payment, alloc, refund>>, NEW w \in Clients,
           NEW q, req' = [req EXCEPT ![w] = q], Reaching(q),
           \A u \in Clients \ {w} : Apart(q, req[u]),
           q.at = "verified" /\ q.op # "bill" => \A v \in q.locks : CoveredAsSeen(w, v)'
    PROVE  Covering'
<1>1. req'[w] = q /\ \A u \in Clients \ {w} : req'[u] = req[u]
  BY DEF Covering, Typed, TypeOK
<1>2. RefundsCovered'
  BY DEF Covering, RefundsCovered
<1>3. ASSUME NEW u \in Clients PROVE Reaching(req[u])' /\ Checked(u)'
  <2>1. CASE u = w
    BY <1>1, <2>1 DEF Reaching, Checked, Reach, Written
  <2>2. CASE u # w
    <3>1. Reaching(req[u]) /\ Checked(u) /\ req'[u] = req[u]
      BY <1>1, <2>2 DEF Covering
    <3>2. Reaching(req[u])'
      BY <3>1 DEF Reaching, Reach, Written
    <3>3. RefundSeen(u)' = RefundSeen(u) /\ PaymentSeen(u)' = PaymentSeen(u) /\ AllocSeen(u)' = AllocSeen(u)
      BY <3>1 DEF RefundSeen, PaymentSeen, AllocSeen
    <3>4. Checked(u)'
      BY <3>1, <3>3 DEF Checked, CoveredAsSeen
    <3>. QED BY <3>2, <3>4
  <2>. QED BY <2>1, <2>2
<1>4. ASSUME NEW x \in Clients, NEW u \in Clients, x # u PROVE Apart(req[x], req[u])'
  <2>1. CASE x = w
    BY <1>1, <1>4, <2>1 DEF Apart, Written
  <2>2. CASE u = w
    BY <1>1, <1>4, <2>2 DEF Apart, Written
  <2>3. CASE x # w /\ u # w
    BY <1>1, <1>4, <2>3 DEF Apart, Written, Covering
  <2>. QED BY <2>1, <2>2, <2>3
<1>. QED BY <1>2, <1>3, <1>4 DEF Covering

\* What a request that goes on leaves as it was.
LEMMA RememberCovering ==
    ASSUME Covering, Typed', NEW w \in Clients, NEW q, Remember(w, q), UNCHANGED rows,
           Reaching(q), \A u \in Clients \ {w} : Apart(q, req[u]), q.at # "verified"
    PROVE  Covering'
<1>1. req' = [req EXCEPT ![w] = q] /\ UNCHANGED <<payment, alloc, refund>>
  BY DEF Remember, rows
<1>. QED BY <1>1, LocalStep

LEMMA IdleApart ==
    ASSUME NEW s PROVE Reaching(Idle) /\ Apart(Idle, s) /\ Idle.at # "verified"
BY DEF Reaching, Apart, Idle, Written

LEMMA BeginCovering ==
    ASSUME Covering, Typed', NEW w \in Clients, Begin(w)
    PROVE  Covering'
<1>1. ASSUME NEW v \in Invoices, NEW n \in BillAmounts, BillBegin(w, v, n) PROVE Covering'
  <2> DEFINE q == [Idle EXCEPT !.op = "bill", !.at = "writing", !.v = v, !.n = n, !.todo = {v}]
  <2>1. Reaching(q) /\ q.at # "verified" /\ \A u \in Clients \ {w} : Apart(q, req[u])
    BY DEF Idle, Reaching, Apart, Written
  <2> HIDE DEF q
  <2>. QED BY <1>1, <2>1, RememberCovering DEF BillBegin, q
<1>2. ASSUME NEW v \in Invoices, IssueBegin(w, v) PROVE Covering'
  <2> DEFINE q == [Idle EXCEPT !.op = "issue", !.v = v]
  <2>1. Reaching(q) /\ q.at # "verified" /\ \A u \in Clients \ {w} : Apart(q, req[u])
    BY DEF Idle, Reaching, Apart, Written
  <2> HIDE DEF q
  <2>. QED BY <1>2, <2>1, RememberCovering DEF IssueBegin, q
<1>3. ASSUME NEW v \in Invoices, CancelInvoiceBegin(w, v) PROVE Covering'
  <2> DEFINE q == [Idle EXCEPT !.op = "cancelInvoice", !.v = v]
  <2>1. Reaching(q) /\ q.at # "verified" /\ \A u \in Clients \ {w} : Apart(q, req[u])
    BY DEF Idle, Reaching, Apart, Written
  <2> HIDE DEF q
  <2>. QED BY <1>3, <2>1, RememberCovering DEF CancelInvoiceBegin, q
<1>4. ASSUME NEW v \in Invoices, NEW n \in RefundAmounts, RefundBegin(w, v, n) PROVE Covering'
  <2> DEFINE q == [Idle EXCEPT !.op = "refund", !.v = v, !.n = n]
  <2>1. Reaching(q) /\ q.at # "verified" /\ \A u \in Clients \ {w} : Apart(q, req[u])
    BY DEF Idle, Reaching, Apart, Written
  <2> HIDE DEF q
  <2>. QED BY <1>4, <2>1, RememberCovering DEF RefundBegin, q
<1>5. ASSUME NEW p \in Payments, CancelPaymentBegin(w, p) PROVE Covering'
  <2> DEFINE q == [Idle EXCEPT !.op = "cancelPayment", !.p = p]
  <2>1. payment[p].status # "NONE"
    BY <1>5 DEF CancelPaymentBegin
  <2>2. Reaching(q) /\ q.at # "verified" /\ \A u \in Clients \ {w} : Apart(q, req[u])
    BY <2>1 DEF Idle, Reaching, Apart, Written
  <2> HIDE DEF q
  <2>. QED BY <1>5, <2>2, RememberCovering DEF CancelPaymentBegin, q
<1>6. ASSUME NEW p \in Payments, NEW n \in PayAmounts, PayBegin(w, p, n) PROVE Covering'
  <2>1. PICK plan \in [Invoices -> 0..n] :
          Remember(w, [Idle EXCEPT !.op = "pay", !.at = "writing", !.p = p, !.n = n, !.plan = plan,
                                   !.todo = {v \in Invoices : plan[v] # 0}])
    BY <1>6 DEF PayBegin
  <2> DEFINE q == [Idle EXCEPT !.op = "pay", !.at = "writing", !.p = p, !.n = n, !.plan = plan,
                               !.todo = {v \in Invoices : plan[v] # 0}]
  <2>2. payment[p].status = "NONE" /\ UNCHANGED rows
    BY <1>6 DEF PayBegin
  <2>3. Reaching(q) /\ q.at # "verified"
    BY <2>2 DEF Idle, Reaching, Written, Reach
  <2>4. \A u \in Clients \ {w} : Apart(q, req[u])
    BY <1>6 DEF PayBegin, SequenceFree, Idle, Apart, Written
  <2> HIDE DEF q
  <2>. QED BY <2>1, <2>2, <2>3, <2>4, RememberCovering DEF q
<1>7. ASSUME NEW r \in Refunds, RefundStatusBegin(w, r) PROVE Covering'
  <2>1. PICK op \in {"completeRefund", "cancelRefund"} :
          Remember(w, [Idle EXCEPT !.op = op, !.r = r]) /\ UNCHANGED rows
    BY <1>7 DEF RefundStatusBegin
  <2> DEFINE q == [Idle EXCEPT !.op = op, !.r = r]
  <2>2. Reaching(q) /\ q.at # "verified" /\ \A u \in Clients \ {w} : Apart(q, req[u])
    BY DEF Idle, Reaching, Apart, Written
  <2> HIDE DEF q
  <2>. QED BY <2>1, <2>2, RememberCovering DEF q
<1>. QED BY <1>1, <1>2, <1>3, <1>4, <1>5, <1>6, <1>7 DEF Begin

LEMMA WriteCovering ==
    ASSUME Covering, Typed', NEW w \in Clients, Write(w)
    PROVE  Covering'
<1>1. req[w] \in Request /\ Reaching(req[w]) /\ \A u \in Clients \ {w} : Apart(req[w], req[u])
  BY DEF Covering, Typed, TypeOK
<1>2. CASE CancelPaymentDelete(w)
  <2> DEFINE q == [req[w] EXCEPT !.at = "writing", !.todo = {v \in Invoices : alloc[req[w].p][v] # 0}]
  <2>1. req[w].op = "cancelPayment" /\ req[w].at = "start"
    BY <1>2 DEF CancelPaymentDelete, AtStep
  <2>2. Reaching(q) /\ q.at # "verified"
    BY <1>1, <2>1 DEF Request, Reaching, Written, Reach
  <2>3. \A u \in Clients \ {w} : Apart(q, req[u])
    BY <1>1, <1>2, <2>1 DEF Request, CancelPaymentDelete, Apart, Written
  <2> HIDE DEF q
  <2>. QED BY <1>2, <2>2, <2>3, RememberCovering DEF CancelPaymentDelete, q
<1>3. CASE RefundUpdate(w)
  <2> DEFINE q == [req[w] EXCEPT !.at = "writing", !.todo = {refund[req[w].r].invoice}]
  <2>1. req[w].op \in {"completeRefund", "cancelRefund"} /\ req[w].at = "start"
    BY <1>3 DEF RefundUpdate, AtStep
  <2>2. Reaching(q) /\ q.at # "verified"
    BY <1>1, <1>3, <2>1 DEF Request, RefundUpdate, Reaching, Written, Reach
  <2>3. \A u \in Clients \ {w} : Apart(q, req[u])
    BY <1>1, <1>3, <2>1 DEF Request, RefundUpdate, Apart, Written
  <2> HIDE DEF q
  <2>. QED BY <1>3, <2>2, <2>3, RememberCovering DEF RefundUpdate, q
<1>4. ASSUME NEW r \in Refunds, RefundInsert(w, r) PROVE Covering'
  <2> DEFINE q == [req[w] EXCEPT !.at = "writing", !.r = r, !.todo = {req[w].v}]
  <2>1. req[w].op = "refund" /\ req[w].at = "start" /\ refund[r].status = "NONE"
    BY <1>4 DEF RefundInsert, AtStep
  <2>2. Reaching(q) /\ q.at # "verified"
    BY <1>1, <2>1 DEF Request, Reaching, Written, Reach
  <2>3. \A u \in Clients \ {w} : Apart(q, req[u])
    BY <1>1, <1>4, <2>1 DEF Request, RefundInsert, SequenceFree, Apart, Written
  <2> HIDE DEF q
  <2>. QED BY <1>4, <2>2, <2>3, RememberCovering DEF RefundInsert, q
<1>5. ASSUME NEW v \in Invoices, SumUp(w, v) PROVE Covering'
  <2> DEFINE q == [req[w] EXCEPT !.now = v, !.figures[v] = FiguresSeen(w, v)]
  <2>1. /\ q.op = req[w].op /\ q.at = req[w].at /\ q.p = req[w].p /\ q.r = req[w].r /\ q.v = req[w].v
        /\ q.plan = req[w].plan /\ q.todo = req[w].todo /\ q.locks = req[w].locks
        /\ q.at = "writing"
    BY <1>1, <1>5 DEF Request, SumUp, AtStep
  <2>2. Remember(w, q) /\ UNCHANGED rows
    BY <1>5 DEF SumUp
  <2> HIDE DEF q
  <2>3. Reaching(q) /\ \A u \in Clients \ {w} : Apart(q, req[u])
    BY <1>1, <2>1 DEF Reaching, Apart, Written, Reach
  <2>. QED BY <2>1, <2>2, <2>3, RememberCovering
<1>6. CASE Store(w)
  <2> DEFINE v == req[w].now
             kept == IF req[w].op \in {"completeRefund", "cancelRefund"}
                     THEN FiguresSeen(w, v) ELSE req[w].figures[v]
             q == [req[w] EXCEPT !.now = None, !.todo = @ \ {v}, !.locks = @ \cup {v}, !.figures[v] = kept]
  <2>1. /\ q.op = req[w].op /\ q.at = req[w].at /\ q.p = req[w].p /\ q.r = req[w].r /\ q.v = req[w].v
        /\ q.plan = req[w].plan /\ q.todo = req[w].todo \ {v} /\ q.locks = req[w].locks \cup {v}
        /\ q.at = "writing"
    BY <1>1, <1>6 DEF Request, Store, AtStep
  <2>2. Remember(w, q) /\ UNCHANGED rows /\ \A u \in Clients \ {w} : v \notin req[u].locks
    BY <1>6 DEF Store, Unlocked, LockedBy
  <2> HIDE DEF q, v
  <2>3. Reach(req[w]) \subseteq Reach(q) /\ req[w].at = "writing"
    BY <2>1 DEF Reach
  <2>4. Reaching(q)
    BY <1>1, <2>1, <2>3 DEF Reaching, Written
  <2>5. \A u \in Clients \ {w} : Apart(q, req[u])
    BY <1>1, <2>1, <2>2 DEF Apart, Written
  <2>. QED BY <2>1, <2>2, <2>4, <2>5, RememberCovering
<1>7. CASE Verify(w)
  <2> DEFINE q == [req[w] EXCEPT !.at = "verified"]
  <2>1. /\ q.op = req[w].op /\ q.p = req[w].p /\ q.r = req[w].r /\ q.v = req[w].v /\ q.n = req[w].n
        /\ q.plan = req[w].plan /\ q.todo = req[w].todo /\ q.locks = req[w].locks
        /\ q.at = "verified" /\ req[w].at = "writing" /\ req[w].todo = {}
    BY <1>1, <1>7 DEF Request, Verify, AtStep
  <2>2. Remember(w, q) /\ UNCHANGED rows
    BY <1>7 DEF Verify
  <2>3. req[w].op # "bill" => \A v \in req[w].locks : CoveredAsSeen(w, v)
    BY <1>7 DEF Verify, CoveredAsSeen
  <2> HIDE DEF q
  <2>4. Reaching(q) /\ \A u \in Clients \ {w} : Apart(q, req[u])
    BY <1>1, <2>1 DEF Reaching, Apart, Written, Reach
  <2>5. req' = [req EXCEPT ![w] = q] /\ UNCHANGED <<payment, alloc, refund>>
    BY <2>2 DEF Remember, rows
  <2>6. req'[w] = q
    BY <2>5 DEF Covering, Typed, TypeOK
  <2>7. RefundSeen(w)' = RefundSeen(w) /\ PaymentSeen(w)' = PaymentSeen(w) /\ AllocSeen(w)' = AllocSeen(w)
    BY <2>1, <2>5, <2>6 DEF RefundSeen, PaymentSeen, AllocSeen
  <2>8. q.op # "bill" => \A v \in q.locks : CoveredAsSeen(w, v)'
    BY <2>1, <2>3, <2>7 DEF CoveredAsSeen
  <2>. QED BY <2>4, <2>5, <2>8, LocalStep
<1>. QED BY <1>2, <1>3, <1>4, <1>5, <1>6, <1>7 DEF Write

\* Invoices a transaction has not locked are to it as they were.
LEMMA OutOfReach ==
    ASSUME Covering, NEW w \in Clients, req[w].at = "verified",
           NEW v \in Invoices, v \notin req[w].locks
    PROVE  /\ \A r \in Refunds : Share(RefundSeen(w), v, Standing, r) = Share(refund, v, Standing, r)
           /\ \A p \in Payments : PaidBy(PaymentSeen(w), AllocSeen(w), v, p) = PaidBy(payment, alloc, v, p)
<1> DEFINE q == req[w]
<1>1. q \in Request /\ Reaching(q) /\ Fits(q) /\ Reach(q) = q.locks /\ Written(q)
  BY DEF Covering, Typed, TypeOK, Reaching, Reach, Written
<1>2. refund \in [Refunds -> [status : {"NONE", "PENDING", "COMPLETED", "CANCELED"},
                              invoice : Invoices \cup {None}, amount : Nat]]
  BY DEF Covering, Typed, TypeOK
<1>3. payment \in [Payments -> Money] /\ alloc \in [Payments -> [Invoices -> Nat]]
  BY DEF Covering, Typed, TypeOK
<1>4. ASSUME NEW r \in Refunds PROVE Share(RefundSeen(w), v, Standing, r) = Share(refund, v, Standing, r)
  <2>1. CASE q.op = "refund"
    <3>1. refund[q.r].status = "NONE" /\ q.v # v
      BY <1>1, <2>1 DEF Reaching
    <3>. QED BY <1>2, <2>1, <3>1 DEF RefundSeen, Share, Standing
  <2>2. CASE q.op \in {"completeRefund", "cancelRefund"}
    <3>1. refund[q.r].invoice # v
      BY <1>1, <2>2 DEF Reaching
    <3>. QED BY <1>2, <2>2, <3>1 DEF RefundSeen, Share, Standing
  <2>3. CASE q.op \notin {"refund", "completeRefund", "cancelRefund"}
    BY <2>3 DEF RefundSeen
  <2>. QED BY <2>1, <2>2, <2>3
<1>5. ASSUME NEW p \in Payments
      PROVE  PaidBy(PaymentSeen(w), AllocSeen(w), v, p) = PaidBy(payment, alloc, v, p)
  <2>1. CASE q.op = "pay"
    <3>1. payment[q.p].status = "NONE" /\ q.plan[v] = 0
      BY <1>1, <2>1 DEF Reaching
    <3>. QED BY <1>3, <2>1, <3>1 DEF PaymentSeen, AllocSeen, PaidBy
  <2>2. CASE q.op = "cancelPayment"
    <3>1. alloc[q.p][v] = 0
      BY <1>1, <2>2 DEF Reaching
    <3>. QED BY <1>3, <2>2, <3>1 DEF PaymentSeen, AllocSeen, PaidBy, Money
  <2>3. CASE q.op \notin {"pay", "cancelPayment"}
    BY <2>3 DEF PaymentSeen, AllocSeen
  <2>. QED BY <2>1, <2>2, <2>3
<1>. QED BY <1>4, <1>5

\* What a transaction has checked is not changed by another one's commit.
LEMMA StillCovered ==
    ASSUME Covering, NEW w \in Clients, Commit(w),
           NEW u \in Clients, u # w, req[u].at = "verified",
           NEW v \in Invoices, v \in req[u].locks
    PROVE  /\ \A r \in Refunds : Share(RefundSeen(u)', v, Standing, r) = Share(RefundSeen(u), v, Standing, r)
           /\ \A p \in Payments : PaidBy(PaymentSeen(u)', AllocSeen(u)', v, p)
                                    = PaidBy(PaymentSeen(u), AllocSeen(u), v, p)
<1> DEFINE q == req[w]
           s == req[u]
<1>1. /\ q \in Request /\ Reaching(q) /\ Written(q) /\ Reach(q) = q.locks
      /\ s \in Request /\ Reaching(s) /\ Written(s)
      /\ Apart(q, s) /\ v \notin q.locks /\ q.at = "verified"
  BY DEF Covering, Typed, TypeOK, Reaching, Reach, Written, Apart, Commit, AtStep
<1>2. req'[u] = s
  BY DEF Covering, Typed, TypeOK, Commit, Finish
<1>3. refund' = RefundSeen(w) /\ payment' = PaymentSeen(w) /\ alloc' = AllocSeen(w)
  BY DEF Commit
<1>4. refund \in [Refunds -> [status : {"NONE", "PENDING", "COMPLETED", "CANCELED"},
                              invoice : Invoices \cup {None}, amount : Nat]]
  BY DEF Covering, Typed, TypeOK
<1>5. payment \in [Payments -> Money] /\ alloc \in [Payments -> [Invoices -> Nat]]
  BY DEF Covering, Typed, TypeOK
<1>6. ASSUME NEW r \in Refunds
      PROVE  Share(RefundSeen(u)', v, Standing, r) = Share(RefundSeen(u), v, Standing, r)
  <2>1. Share(refund', v, Standing, r) = Share(refund, v, Standing, r)
    BY <1>1, <1>3, OutOfReach
  <2>2. CASE s.op = "refund"
    BY <1>2, <1>3, <1>4, <2>1, <2>2, SeenTyped DEF RefundSeen, Share, Standing, Covering
  <2>3. CASE s.op \in {"completeRefund", "cancelRefund"}
    <3>1. CASE r # s.r
      BY <1>2, <1>3, <1>4, <2>1, <2>3, <3>1 DEF RefundSeen, Share, Standing
    <3>2. CASE r = s.r
      <4>1. refund'[r] = refund[r]
        BY <1>1, <1>3, <1>4, <2>3, <3>2 DEF RefundSeen, Reaching, Apart, RefundMayBecome, RefundTarget
      <4>. QED BY <1>2, <1>3, <1>4, <2>3, <3>2, <4>1 DEF RefundSeen, Share, Standing
    <3>. QED BY <3>1, <3>2
  <2>4. CASE s.op \notin {"refund", "completeRefund", "cancelRefund"}
    BY <1>2, <2>1, <2>4 DEF RefundSeen
  <2>. QED BY <2>2, <2>3, <2>4
<1>7. ASSUME NEW p \in Payments
      PROVE  PaidBy(PaymentSeen(u)', AllocSeen(u)', v, p) = PaidBy(PaymentSeen(u), AllocSeen(u), v, p)
  <2>1. PaidBy(payment', alloc', v, p) = PaidBy(payment, alloc, v, p)
    BY <1>1, <1>3, OutOfReach
  <2>2. CASE s.op = "pay"
    BY <1>2, <1>3, <1>5, <2>1, <2>2 DEF PaymentSeen, AllocSeen, PaidBy
  <2>3. CASE s.op = "cancelPayment"
    <3>1. payment' \in [Payments -> Money] /\ alloc' \in [Payments -> [Invoices -> Nat]]
      BY <1>3, SeenTyped DEF Covering
    <3>. QED BY <1>2, <1>5, <2>1, <2>3, <3>1 DEF PaymentSeen, AllocSeen, PaidBy, Money
  <2>4. CASE s.op \notin {"pay", "cancelPayment"}
    BY <1>2, <2>1, <2>4 DEF PaymentSeen, AllocSeen
  <2>. QED BY <2>2, <2>3, <2>4
<1>. QED BY <1>6, <1>7

\* The rows others have written, or are going to write, stay as they are.
LEMMA StillReaching ==
    ASSUME Covering, NEW w \in Clients, Commit(w), NEW u \in Clients, u # w
    PROVE  Reaching(req[u])'
<1> DEFINE q == req[w]
           s == req[u]
<1>1. /\ q \in Request /\ Reaching(q) /\ Written(q)
      /\ s \in Request /\ Reaching(s) /\ Fits(s)
      /\ Apart(q, s)
  BY DEF Covering, Typed, TypeOK, Reaching, Written, Apart, Commit, AtStep
<1>2. req'[u] = s
  BY DEF Covering, Typed, TypeOK, Commit, Finish
<1>3. refund' = RefundSeen(w) /\ payment' = PaymentSeen(w) /\ alloc' = AllocSeen(w)
  BY DEF Commit
<1>4. refund \in [Refunds -> [status : {"NONE", "PENDING", "COMPLETED", "CANCELED"},
                              invoice : Invoices \cup {None}, amount : Nat]]
  BY DEF Covering, Typed, TypeOK
<1>5. payment \in [Payments -> Money] /\ alloc \in [Payments -> [Invoices -> Nat]]
  BY DEF Covering, Typed, TypeOK
<1>6. CASE s.op = "pay"
  <2>1. payment'[s.p].status = "NONE"
    <3>1. s.p \in Payments /\ payment[s.p].status = "NONE" /\ Written(s)
      BY <1>1, <1>6 DEF Reaching
    <3>2. CASE q.op = "pay"
      BY <1>1, <1>6, <3>1, <3>2 DEF Apart
    <3>3. CASE q.op = "cancelPayment"
      <4>1. q.p # s.p
        BY <1>1, <3>1, <3>3 DEF Reaching
      <4>. QED BY <1>3, <1>5, <3>1, <3>3, <4>1 DEF PaymentSeen
    <3>4. CASE q.op \notin {"pay", "cancelPayment"}
      BY <1>3, <3>1, <3>4 DEF PaymentSeen
    <3>. QED BY <3>2, <3>3, <3>4
  <2>. QED BY <1>1, <1>2, <1>6, <2>1 DEF Reaching, Reach, Written
<1>7. CASE s.op = "cancelPayment"
  <2>1. payment'[s.p].status # "NONE"
    BY <1>1, <1>3, <1>5, <1>7 DEF PaymentSeen, Reaching, Money
  <2>2. Written(s) => alloc'[s.p] = alloc[s.p]
    BY <1>1, <1>3, <1>5, <1>7 DEF AllocSeen, Reaching, Apart
  <2>. QED BY <1>1, <1>2, <1>7, <2>1, <2>2 DEF Reaching, Reach, Written
<1>8. CASE s.op = "refund"
  <2>1. Written(s) => refund'[s.r].status = "NONE"
    BY <1>1, <1>3, <1>4, <1>8 DEF RefundSeen, Reaching, Apart, Fits, RefundMayBecome, RefundTarget
  <2>. QED BY <1>1, <1>2, <1>8, <2>1 DEF Reaching, Reach, Written
<1>9. CASE s.op \in {"completeRefund", "cancelRefund"}
  <2>1. Written(s) => refund'[s.r] = refund[s.r]
    BY <1>1, <1>3, <1>4, <1>9 DEF RefundSeen, Reaching, Apart, RefundMayBecome, RefundTarget
  <2>. QED BY <1>1, <1>2, <1>9, <2>1 DEF Reaching, Reach, Written
<1>10. CASE s.op \notin {"pay", "cancelPayment", "refund", "completeRefund", "cancelRefund"}
  BY <1>1, <1>2, <1>10 DEF Reaching, Reach, Written
<1>. QED BY <1>6, <1>7, <1>8, <1>9, <1>10

LEMMA CommitCovering ==
    ASSUME Covering, Typed', NEW w \in Clients, Commit(w)
    PROVE  Covering'
<1>1. req[w].at = "verified" /\ Checked(w)
  BY DEF Commit, AtStep, Covering
<1>2. refund' = RefundSeen(w) /\ payment' = PaymentSeen(w) /\ alloc' = AllocSeen(w)
  BY DEF Commit
<1>3. req'[w] = Idle /\ \A u \in Clients \ {w} : req'[u] = req[u]
  BY DEF Covering, Typed, TypeOK, Commit, Finish
<1>4. ASSUME NEW v \in Invoices PROVE Claimed(refund', v) <= Placed(payment', alloc', v)
  <2>0. Claimed(refund, v) <= Placed(payment, alloc, v)
    BY DEF Covering, RefundsCovered
  <2>1. CASE v \notin req[w].locks
    <3>1. Claimed(refund', v) = Claimed(refund, v)
      BY <1>1, <1>2, <2>1, OutOfReach, SameShares DEF Claimed, Standing
    <3>2. Placed(payment', alloc', v) = Placed(payment, alloc, v)
      BY <1>1, <1>2, <2>1, OutOfReach, SamePayments
    <3>. QED BY <2>0, <3>1, <3>2
  <2>2. CASE req[w].op = "bill"
    BY <1>2, <2>0, <2>2 DEF RefundSeen, PaymentSeen, AllocSeen
  <2>3. CASE v \in req[w].locks /\ req[w].op # "bill"
    BY <1>1, <1>2, <2>3 DEF Checked, CoveredAsSeen
  <2>. QED BY <2>1, <2>2, <2>3
<1>5. RefundsCovered'
  BY <1>4 DEF RefundsCovered
<1>6. ASSUME NEW u \in Clients PROVE Reaching(req[u])' /\ Checked(u)'
  <2>1. CASE u = w
    BY <1>3, <2>1 DEF Idle, Reaching, Written, Checked
  <2>2. CASE u # w
    <3>1. Reaching(req[u])'
      BY <2>2, StillReaching
    <3>2. SUFFICES ASSUME req[u].at = "verified", req[u].op # "bill", NEW v \in req[u].locks
                   PROVE  CoveredAsSeen(u, v)'
      BY <1>3, <2>2, <3>1 DEF Checked
    <3>3. v \in Invoices /\ CoveredAsSeen(u, v)
      BY <3>2 DEF Covering, Typed, TypeOK, Request, Checked
    <3>4. Claimed(RefundSeen(u)', v) = Claimed(RefundSeen(u), v)
      BY <2>2, <3>2, <3>3, StillCovered, SameShares DEF Claimed, Standing
    <3>5. Placed(PaymentSeen(u)', AllocSeen(u)', v) = Placed(PaymentSeen(u), AllocSeen(u), v)
      BY <2>2, <3>2, <3>3, StillCovered, SamePayments
    <3>. QED BY <3>3, <3>4, <3>5 DEF CoveredAsSeen
  <2>. QED BY <2>1, <2>2
<1>7. ASSUME NEW x \in Clients, NEW u \in Clients, x # u PROVE Apart(req[x], req[u])'
  <2>1. CASE x = w \/ u = w
    BY <1>3, <1>7, <2>1 DEF Apart, Idle, Written
  <2>2. CASE x # w /\ u # w
    BY <1>3, <1>7, <2>2 DEF Apart, Written, Covering
  <2>. QED BY <2>1, <2>2
<1>. QED BY <1>5, <1>6, <1>7 DEF Covering

\* A step of something else.
LEMMA ElsewhereCovering ==
    ASSUME Covering, Typed', UNCHANGED <<payment, alloc, refund, req>>
    PROVE  Covering'
<1>1. RefundsCovered'
  BY DEF Covering, RefundsCovered
<1>2. ASSUME NEW u \in Clients PROVE Reaching(req[u])' /\ Checked(u)'
  <2>1. Reaching(req[u])'
    BY DEF Covering, Reaching, Reach, Written
  <2>2. RefundSeen(u)' = RefundSeen(u) /\ PaymentSeen(u)' = PaymentSeen(u) /\ AllocSeen(u)' = AllocSeen(u)
    BY DEF RefundSeen, PaymentSeen, AllocSeen
  <2>3. Checked(u)'
    BY <2>2 DEF Covering, Checked, CoveredAsSeen
  <2>. QED BY <2>1, <2>3
<1>3. \A x, u \in Clients : x # u => Apart(req[x], req[u])'
  BY DEF Covering, Apart, Written
<1>. QED BY <1>1, <1>2, <1>3 DEF Covering

LEMMA NextCovering == Covering /\ [Next]_vars => Covering'
<1> SUFFICES ASSUME Covering, [Next]_vars PROVE Covering'
  OBVIOUS
<1>1. Typed'
  BY NextTyped DEF Covering
<1>2. ASSUME NEW v \in Invoices, CreateInvoice(v) PROVE Covering'
  <2>1. UNCHANGED <<payment, alloc, refund, req>>
    BY <1>2 DEF CreateInvoice
  <2>. QED BY <1>1, <2>1, ElsewhereCovering
<1>3. ASSUME NEW w \in Clients, InvoiceStatusCommit(w) \/ Abort(w) PROVE Covering'
  <2>1. UNCHANGED <<payment, alloc, refund>> /\ req' = [req EXCEPT ![w] = Idle]
    BY <1>3 DEF InvoiceStatusCommit, Abort, Finish, rows
  <2>. QED BY <1>1, <2>1, IdleApart, LocalStep
<1>4. CASE UNCHANGED vars
  <2>1. UNCHANGED <<payment, alloc, refund, req>>
    BY <1>4 DEF vars, rows
  <2>. QED BY <1>1, <2>1, ElsewhereCovering
<1>. QED BY <1>1, <1>2, <1>3, <1>4, BeginCovering, WriteCovering, CommitCovering DEF Next

\* However payments, refunds and their cancellations overlap, refunds claim no more of an
\* invoice than payments have placed on it: no money is refunded twice, none is refunded
\* that is being taken back.
THEOREM RefundsStayCovered == Spec => []RefundsCovered
<1>1. Covering => RefundsCovered
  BY DEF Covering
<1>. QED BY InitCovering, NextCovering, <1>1, PTL DEF Spec

-----------------------------------------------------------------------------
(* The finance module implements Ledger: a commit is one of its steps, or  *)
(* none; everything else is none.                                          *)

RefundRows == [Refunds -> [status : {"NONE", "PENDING", "COMPLETED", "CANCELED"},
                           invoice : Invoices \cup {None}, amount : Nat]]
AllocRows == [Payments -> [Invoices -> Nat]]

LEMMA MoreShares ==
    ASSUME NEW ref \in RefundRows, NEW ref2 \in RefundRows, NEW v, NEW some, NEW others,
           \A r \in Refunds : Share(ref, v, some, r) <= Share(ref2, v, others, r)
    PROVE  /\ RefundedAs(ref, v, some) \in Int /\ RefundedAs(ref2, v, others) \in Int
           /\ RefundedAs(ref, v, some) <= RefundedAs(ref2, v, others)
<1> DEFINE f == [r \in Refunds |-> Share(ref, v, some, r)]
           g == [r \in Refunds |-> Share(ref2, v, others, r)]
<1>1. f \in [Refunds -> Int] /\ g \in [Refunds -> Int] /\ \A r \in Refunds : f[r] <= g[r]
  BY DEF RefundRows, Share
<1>2. RefundedAs(ref, v, some) = Total(f) /\ RefundedAs(ref2, v, others) = Total(g)
  BY DEF RefundedAs, Share
<1> HIDE DEF f, g
<1>. QED BY <1>1, <1>2, TotalInt, TotalMonotone, ConstantsAssumption DEF ConstantsAssumption

LEMMA MorePayments ==
    ASSUME NEW pay \in [Payments -> Money], NEW al \in AllocRows,
           NEW pay2 \in [Payments -> Money], NEW al2 \in AllocRows, NEW v \in Invoices,
           \A p \in Payments : PaidBy(pay, al, v, p) <= PaidBy(pay2, al2, v, p)
    PROVE  /\ Placed(pay, al, v) \in Int /\ Placed(pay2, al2, v) \in Int
           /\ Placed(pay, al, v) <= Placed(pay2, al2, v)
<1> DEFINE f == [p \in Payments |-> PaidBy(pay, al, v, p)]
           g == [p \in Payments |-> PaidBy(pay2, al2, v, p)]
<1>1. f \in [Payments -> Int] /\ g \in [Payments -> Int] /\ \A p \in Payments : f[p] <= g[p]
  BY DEF AllocRows, PaidBy
<1>2. Placed(pay, al, v) = Total(f) /\ Placed(pay2, al2, v) = Total(g)
  BY DEF Placed, PaidBy
<1> HIDE DEF f, g
<1>. QED BY <1>1, <1>2, TotalInt, TotalMonotone, ConstantsAssumption DEF ConstantsAssumption

LEMMA RowsTyped ==
    ASSUME Typed
    PROVE  payment \in [Payments -> Money] /\ alloc \in AllocRows /\ refund \in RefundRows
BY DEF Typed, TypeOK, AllocRows, RefundRows

\* What is returned is part of what is claimed.
LEMMA ReturnedIsClaimed ==
    ASSUME NEW ref \in RefundRows, NEW v
    PROVE  Returned(ref, v) \in Int /\ Claimed(ref, v) \in Int /\ Returned(ref, v) <= Claimed(ref, v)
<1>1. \A r \in Refunds : Share(ref, v, {"COMPLETED"}, r) <= Share(ref, v, Standing, r)
  BY DEF Share, Standing, RefundRows
<1>. QED BY <1>1, MoreShares DEF Returned, Claimed, Standing

LEMMA PlacedInt ==
    ASSUME Typed, NEW v \in Invoices PROVE Placed(payment, alloc, v) \in Int
<1>1. \A p \in Payments : PaidBy(payment, alloc, v, p) <= PaidBy(payment, alloc, v, p)
  BY RowsTyped DEF PaidBy, AllocRows
<1>. QED BY <1>1, RowsTyped, MorePayments

LEMMA PayReceives ==
    ASSUME Covering, Typed', NEW w \in Clients, Commit(w), req[w].op = "pay"
    PROVE  [Accounts!Next]_(Accounts!ledgerVars)
<1>1. refund' = refund
  BY DEF Commit, RefundSeen
<1>2. ASSUME NEW v \in Invoices
      PROVE  Placed(payment, alloc, v) <= Placed(payment', alloc', v)
  <2>1. ASSUME NEW p \in Payments PROVE PaidBy(payment, alloc, v, p) <= PaidBy(payment', alloc', v, p)
    <3>1. /\ payment \in [Payments -> Money] /\ alloc \in [Payments -> [Invoices -> Nat]]
          /\ payment[req[w].p].status = "NONE" /\ req[w].plan[v] \in Nat
      BY RowsTyped DEF Covering, Reaching, Typed, TypeOK, Request, AllocRows
    <3>2. /\ payment' = [payment EXCEPT ![req[w].p] = [status |-> "COMPLETED", amount |-> req[w].n]]
          /\ alloc' = [alloc EXCEPT ![req[w].p] = req[w].plan]
      BY DEF Commit, PaymentSeen, AllocSeen
    <3>3. CASE p = req[w].p
      BY <3>1, <3>2, <3>3 DEF PaidBy
    <3>4. CASE p # req[w].p
      BY <3>1, <3>2, <3>4 DEF PaidBy
    <3>. QED BY <3>3, <3>4
  <2>2. payment' \in [Payments -> Money] /\ alloc' \in AllocRows
    BY DEF Typed, TypeOK, AllocRows
  <2>. QED BY <2>1, <2>2, RowsTyped, MorePayments DEF Covering
<1>. QED BY <1>1, <1>2 DEF Accounts!Next, Accounts!Receive, Accounts!ledgerVars

LEMMA CancelWithdraws ==
    ASSUME Covering, Covering', NEW w \in Clients, Commit(w), req[w].op = "cancelPayment"
    PROVE  [Accounts!Next]_(Accounts!ledgerVars)
<1>1. refund' = refund
  BY DEF Commit, RefundSeen
<1>2. ASSUME NEW v \in Invoices
      PROVE  Placed(payment', alloc', v) <= Placed(payment, alloc, v)
  <2> DEFINE q == req[w]
  <2>1. /\ payment' = [payment EXCEPT ![q.p].status = "CANCELED"]
        /\ alloc' = [alloc EXCEPT ![q.p] = NothingPlaced]
    BY DEF Commit, PaymentSeen, AllocSeen
  <2>2. ASSUME NEW p \in Payments PROVE PaidBy(payment', alloc', v, p) <= PaidBy(payment, alloc, v, p)
    <3>1. payment \in [Payments -> Money] /\ alloc \in [Payments -> [Invoices -> Nat]]
      BY RowsTyped DEF Covering, AllocRows
    <3>2. CASE p = q.p
      BY <2>1, <3>1, <3>2 DEF PaidBy, Money
    <3>3. CASE p # q.p
      BY <2>1, <3>1, <3>3 DEF PaidBy
    <3>. QED BY <3>2, <3>3
  <2>3. payment' \in [Payments -> Money] /\ alloc' \in AllocRows
    BY DEF Covering, Typed, TypeOK, AllocRows
  <2>. QED BY <2>2, <2>3, RowsTyped, MorePayments DEF Covering
<1>3. \A v \in Invoices : Claimed(refund', v) <= Placed(payment', alloc', v)
  BY DEF Covering, RefundsCovered
<1>. QED BY <1>1, <1>2, <1>3 DEF Accounts!Next, Accounts!Withdraw, Accounts!Covered, Accounts!ledgerVars

\* The rest of a commit that writes one refund, of one invoice: nothing else changes.
LEMMA OtherInvoices ==
    ASSUME Covering, Typed', NEW w \in Clients, Commit(w),
           req[w].op \in {"refund", "completeRefund", "cancelRefund"}
    PROVE  LET at == IF req[w].op = "refund" THEN req[w].v ELSE refund[req[w].r].invoice IN
           /\ at \in Invoices
           /\ \A v \in Invoices : /\ Placed(payment', alloc', v) = Placed(payment, alloc, v)
                                  /\ v # at => /\ Claimed(refund', v) = Claimed(refund, v)
                                               /\ Returned(refund', v) = Returned(refund, v)
<1> DEFINE q == req[w]
           at == IF q.op = "refund" THEN q.v ELSE refund[q.r].invoice
<1>1. q \in Request /\ Fits(q) /\ Reaching(q) /\ Written(q)
  BY DEF Covering, Typed, TypeOK, Commit, AtStep, Written
<1>2. at \in Invoices
  BY <1>1 DEF Fits, Covering, Typed, RefundsOwned
<1>3. payment' = payment /\ alloc' = alloc /\ refund' = RefundSeen(w)
  BY DEF Commit, PaymentSeen, AllocSeen
<1>4. ASSUME NEW v \in Invoices, v # at, NEW statuses \in {Standing, {"COMPLETED"}}, NEW r \in Refunds
      PROVE  Share(refund', v, statuses, r) = Share(refund, v, statuses, r)
  <2>1. CASE q.op = "refund"
    <3>1. refund' = [refund EXCEPT ![q.r] = [status |-> "PENDING", invoice |-> q.v, amount |-> q.n]]
      BY <1>3, <2>1 DEF RefundSeen
    <3>2. refund[q.r].status = "NONE"
      BY <1>1, <2>1 DEF Reaching
    <3>. QED BY <1>4, <2>1, <3>1, <3>2, RowsTyped DEF Share, Standing, Covering, RefundRows
  <2>2. CASE q.op # "refund"
    <3>1. refund' = [refund EXCEPT ![q.r].status = RefundTarget(q.op)]
      BY <1>3, <2>2 DEF RefundSeen
    <3>. QED BY <1>4, <2>2, <3>1, RowsTyped DEF Share, Covering, RefundRows
  <2>. QED BY <2>1, <2>2
<1>5. ASSUME NEW v \in Invoices, v # at
      PROVE  Claimed(refund', v) = Claimed(refund, v) /\ Returned(refund', v) = Returned(refund, v)
  BY <1>4, <1>5, SameShares DEF Claimed, Returned, Standing
<1>. QED BY <1>2, <1>3, <1>5

LEMMA RefundClaims ==
    ASSUME Covering, Covering', NEW w \in Clients, Commit(w), req[w].op = "refund"
    PROVE  [Accounts!Next]_(Accounts!ledgerVars)
<1> DEFINE q == req[w]
           v == q.v
<1>1. /\ v \in Invoices
      /\ \A u \in Invoices : /\ Placed(payment', alloc', u) = Placed(payment, alloc, u)
                             /\ u # v => /\ Claimed(refund', u) = Claimed(refund, u)
                                         /\ Returned(refund', u) = Returned(refund, u)
  BY OtherInvoices DEF Covering
<1>2. refund' = [refund EXCEPT ![q.r] = [status |-> "PENDING", invoice |-> q.v, amount |-> q.n]]
  BY DEF Commit, RefundSeen
<1>3. refund[q.r].status = "NONE" /\ q.n \in Nat
  BY DEF Covering, Reaching, Written, Commit, AtStep, Typed, Fits
<1>4. refund \in RefundRows /\ refund' \in RefundRows
  BY DEF Covering, Typed, TypeOK, RefundRows
<1>5. Returned(refund', v) = Returned(refund, v)
  <2>1. \A r \in Refunds : Share(refund', v, {"COMPLETED"}, r) = Share(refund, v, {"COMPLETED"}, r)
    BY <1>2, <1>3, <1>4 DEF Share, RefundRows
  <2>. QED BY <2>1, SameShares DEF Returned
<1>6. Claimed(refund, v) \in Int /\ Claimed(refund', v) \in Int /\ Claimed(refund, v) <= Claimed(refund', v)
  <2>1. \A r \in Refunds : Share(refund, v, Standing, r) <= Share(refund', v, Standing, r)
    BY <1>2, <1>3, <1>4 DEF Share, RefundRows, Standing
  <2>. QED BY <1>4, <2>1, MoreShares DEF Claimed, Standing
<1>7. Claimed(refund', v) <= Placed(payment, alloc, v)
  BY <1>1 DEF Covering, RefundsCovered
<1> HIDE DEF v
<1>8. /\ [u \in Invoices |-> Placed(payment', alloc', u)] = [u \in Invoices |-> Placed(payment, alloc, u)]
      /\ [u \in Invoices |-> Returned(refund', u)] = [u \in Invoices |-> Returned(refund, u)]
  BY <1>1, <1>5
<1>9. [u \in Invoices |-> Claimed(refund', u)]
        = [[u \in Invoices |-> Claimed(refund, u)] EXCEPT ![v] = Claimed(refund', v)]
  BY <1>1
<1>10. CASE Claimed(refund', v) = Claimed(refund, v)
  <2>1. [u \in Invoices |-> Claimed(refund', u)] = [u \in Invoices |-> Claimed(refund, u)]
    BY <1>1, <1>10
  <2>. QED BY <1>8, <2>1 DEF Accounts!ledgerVars
<1>11. CASE Claimed(refund', v) # Claimed(refund, v)
  <2>1. Claimed(refund, v) < Claimed(refund', v)
    BY <1>6, <1>11
  <2>2. Accounts!Claim(v)
    BY <1>1, <1>7, <1>8, <1>9, <2>1 DEF Accounts!Claim
  <2>. QED BY <1>1, <2>2 DEF Accounts!Next
<1>. QED BY <1>10, <1>11

LEMMA CancelReleases ==
    ASSUME Covering, Covering', NEW w \in Clients, Commit(w), req[w].op = "cancelRefund"
    PROVE  [Accounts!Next]_(Accounts!ledgerVars)
<1> DEFINE q == req[w]
           v == refund[q.r].invoice
<1>1. /\ v \in Invoices
      /\ \A u \in Invoices : /\ Placed(payment', alloc', u) = Placed(payment, alloc, u)
                             /\ u # v => /\ Claimed(refund', u) = Claimed(refund, u)
                                         /\ Returned(refund', u) = Returned(refund, u)
  BY OtherInvoices DEF Covering
<1>2. refund' = [refund EXCEPT ![q.r].status = "CANCELED"]
  BY DEF Commit, RefundSeen, RefundTarget
<1>3. refund[q.r].status # "COMPLETED"
  BY DEF Covering, Reaching, Written, Commit, AtStep, RefundMayBecome, RefundTarget
<1>4. refund \in RefundRows /\ refund' \in RefundRows
  BY DEF Covering, Typed, TypeOK, RefundRows
<1>5. Returned(refund', v) = Returned(refund, v)
  <2>1. \A r \in Refunds : Share(refund', v, {"COMPLETED"}, r) = Share(refund, v, {"COMPLETED"}, r)
    BY <1>2, <1>3, <1>4 DEF Share, RefundRows
  <2>. QED BY <2>1, SameShares DEF Returned
<1>6. Claimed(refund, v) \in Int /\ Claimed(refund', v) \in Int /\ Claimed(refund', v) <= Claimed(refund, v)
  <2>1. \A r \in Refunds : Share(refund', v, Standing, r) <= Share(refund, v, Standing, r)
    BY <1>2, <1>4 DEF Share, RefundRows, Standing
  <2>. QED BY <1>4, <2>1, MoreShares DEF Claimed, Standing
<1>7. Returned(refund, v) <= Claimed(refund', v)
  BY <1>4, <1>5, ReturnedIsClaimed
<1> HIDE DEF v
<1>8. /\ [u \in Invoices |-> Placed(payment', alloc', u)] = [u \in Invoices |-> Placed(payment, alloc, u)]
      /\ [u \in Invoices |-> Returned(refund', u)] = [u \in Invoices |-> Returned(refund, u)]
  BY <1>1, <1>5
<1>9. [u \in Invoices |-> Claimed(refund', u)]
        = [[u \in Invoices |-> Claimed(refund, u)] EXCEPT ![v] = Claimed(refund', v)]
  BY <1>1
<1>10. CASE Claimed(refund', v) = Claimed(refund, v)
  <2>1. [u \in Invoices |-> Claimed(refund', u)] = [u \in Invoices |-> Claimed(refund, u)]
    BY <1>1, <1>10
  <2>. QED BY <1>8, <2>1 DEF Accounts!ledgerVars
<1>11. CASE Claimed(refund', v) # Claimed(refund, v)
  <2>1. Claimed(refund', v) < Claimed(refund, v)
    BY <1>6, <1>11
  <2>2. Accounts!Release(v)
    BY <1>1, <1>7, <1>8, <1>9, <2>1 DEF Accounts!Release
  <2>. QED BY <1>1, <2>2 DEF Accounts!Next
<1>. QED BY <1>10, <1>11

LEMMA CompleteReturns ==
    ASSUME Covering, Covering', NEW w \in Clients, Commit(w), req[w].op = "completeRefund"
    PROVE  [Accounts!Next]_(Accounts!ledgerVars)
<1> DEFINE q == req[w]
           v == refund[q.r].invoice
<1>1. /\ v \in Invoices
      /\ \A u \in Invoices : /\ Placed(payment', alloc', u) = Placed(payment, alloc, u)
                             /\ u # v => /\ Claimed(refund', u) = Claimed(refund, u)
                                         /\ Returned(refund', u) = Returned(refund, u)
  BY OtherInvoices DEF Covering
<1>2. refund' = [refund EXCEPT ![q.r].status = "COMPLETED"]
  BY DEF Commit, RefundSeen, RefundTarget
<1>3. refund[q.r].status \in {"PENDING", "COMPLETED", "FAILED"}
  BY DEF Covering, Reaching, Written, Commit, AtStep, RefundMayBecome, RefundTarget
<1>4. refund \in RefundRows /\ refund' \in RefundRows
  BY DEF Covering, Typed, TypeOK, RefundRows
<1>5. Claimed(refund', v) = Claimed(refund, v)
  <2>1. q.r \in Refunds => refund[q.r].status \in Standing
    BY <1>3, <1>4 DEF RefundRows, Standing
  <2>2. \A r \in Refunds : Share(refund', v, Standing, r) = Share(refund, v, Standing, r)
    BY <1>2, <1>4, <2>1 DEF Share, RefundRows, Standing
  <2>. QED BY <2>2, SameShares DEF Claimed, Standing
<1>6. Returned(refund, v) \in Int /\ Returned(refund', v) \in Int /\ Returned(refund, v) <= Returned(refund', v)
  <2>1. \A r \in Refunds : Share(refund, v, {"COMPLETED"}, r) <= Share(refund', v, {"COMPLETED"}, r)
    BY <1>2, <1>4 DEF Share, RefundRows
  <2>. QED BY <1>4, <2>1, MoreShares DEF Returned
<1>7. Returned(refund', v) <= Claimed(refund, v)
  BY <1>4, <1>5, ReturnedIsClaimed
<1> HIDE DEF v
<1>8. /\ [u \in Invoices |-> Placed(payment', alloc', u)] = [u \in Invoices |-> Placed(payment, alloc, u)]
      /\ [u \in Invoices |-> Claimed(refund', u)] = [u \in Invoices |-> Claimed(refund, u)]
  BY <1>1, <1>5
<1>9. [u \in Invoices |-> Returned(refund', u)]
        = [[u \in Invoices |-> Returned(refund, u)] EXCEPT ![v] = Returned(refund', v)]
  BY <1>1
<1>10. CASE Returned(refund', v) = Returned(refund, v)
  <2>1. [u \in Invoices |-> Returned(refund', u)] = [u \in Invoices |-> Returned(refund, u)]
    BY <1>1, <1>10
  <2>. QED BY <1>8, <2>1 DEF Accounts!ledgerVars
<1>11. CASE Returned(refund', v) # Returned(refund, v)
  <2>1. Returned(refund, v) < Returned(refund', v)
    BY <1>6, <1>11
  <2>2. Accounts!Return(v)
    BY <1>1, <1>7, <1>8, <1>9, <2>1 DEF Accounts!Return
  <2>. QED BY <1>1, <2>2 DEF Accounts!Next
<1>. QED BY <1>10, <1>11

LEMMA LedgerInit == Init => Accounts!Init
BY NothingAtFirst DEF Accounts!Init

LEMMA LedgerStutters ==
    ASSUME UNCHANGED <<payment, alloc, refund>>
    PROVE  UNCHANGED Accounts!ledgerVars
BY DEF Accounts!ledgerVars

LEMMA LedgerStep == Covering /\ Covering' /\ [Next]_vars => [Accounts!Next]_(Accounts!ledgerVars)
<1> SUFFICES ASSUME Covering, Covering', [Next]_vars
             PROVE  [Accounts!Next]_(Accounts!ledgerVars)
  OBVIOUS
<1>1. CASE \E v \in Invoices : CreateInvoice(v)
  BY <1>1, LedgerStutters DEF CreateInvoice
<1>2. ASSUME NEW w \in Clients, Begin(w) \/ Write(w) PROVE UNCHANGED rows
  BY <1>2 DEF Begin, BillBegin, IssueBegin, CancelInvoiceBegin, RefundBegin, CancelPaymentBegin, PayBegin,
              RefundStatusBegin, Write, CancelPaymentDelete, RefundUpdate, RefundInsert, SumUp, Store, Verify
<1>3. CASE \E w \in Clients : Begin(w) \/ Write(w)
  BY <1>2, <1>3, LedgerStutters DEF rows
<1>4. CASE \E w \in Clients : InvoiceStatusCommit(w) \/ Abort(w)
  BY <1>4, LedgerStutters DEF InvoiceStatusCommit, Abort, rows
<1>5. ASSUME NEW w \in Clients, Commit(w) PROVE [Accounts!Next]_(Accounts!ledgerVars)
  <2>1. CASE req[w].op \in {"pay", "cancelPayment", "refund", "cancelRefund", "completeRefund"}
    BY <1>5, <2>1, PayReceives, CancelWithdraws, RefundClaims, CancelReleases, CompleteReturns DEF Covering
  <2>2. CASE req[w].op \notin {"pay", "cancelPayment", "refund", "cancelRefund", "completeRefund"}
    <3>1. UNCHANGED <<payment, alloc, refund>>
      BY <1>5, <2>2 DEF Commit, PaymentSeen, AllocSeen, RefundSeen
    <3>. QED BY <3>1, LedgerStutters
  <2>. QED BY <2>1, <2>2
<1>6. CASE UNCHANGED vars
  BY <1>6, LedgerStutters DEF vars, rows
<1>. QED BY <1>1, <1>3, <1>4, <1>5, <1>6 DEF Next

\* The finance module is a Ledger, whatever requests overlap: money is taken back only
\* as far as no refund rests on it, a refund is claimed only from money that is there,
\* and what was paid out stays paid out.
THEOREM LedgerImplemented == Spec => LedgerSpec
<1>1. Spec => []Covering
  BY InitCovering, NextCovering, PTL DEF Spec
<1>. QED BY <1>1, LedgerInit, LedgerStep, PTL DEF Spec, LedgerSpec, Accounts!Spec

-----------------------------------------------------------------------------
\* A payment that was canceled, or not yet made, leaves nothing on any invoice.
THEOREM CanceledPaymentsAreEmpty == Spec => []CanceledPaymentHoldsNothing
<1>1. Init => CanceledPaymentHoldsNothing
  BY DEF Init, CanceledPaymentHoldsNothing
<1>2. Typed /\ CanceledPaymentHoldsNothing /\ [Next]_vars => CanceledPaymentHoldsNothing'
  <2> SUFFICES ASSUME Typed, CanceledPaymentHoldsNothing, [Next]_vars
               PROVE  CanceledPaymentHoldsNothing'
    OBVIOUS
  <2>1. ASSUME NEW w \in Clients, Commit(w) PROVE CanceledPaymentHoldsNothing'
    <3> SUFFICES ASSUME NEW p \in Payments, payment'[p].status # "COMPLETED"
                 PROVE  alloc'[p] = NothingPlaced
      BY DEF CanceledPaymentHoldsNothing
    <3>1. payment' = PaymentSeen(w) /\ alloc' = AllocSeen(w)
      BY <2>1 DEF Commit
    <3>2. payment \in [Payments -> Money] /\ alloc \in AllocRows
      BY RowsTyped
    <3>3. CASE req[w].op = "pay"
      BY <3>1, <3>2, <3>3 DEF PaymentSeen, AllocSeen, CanceledPaymentHoldsNothing, AllocRows
    <3>4. CASE req[w].op = "cancelPayment"
      BY <3>1, <3>2, <3>4 DEF PaymentSeen, AllocSeen, CanceledPaymentHoldsNothing, AllocRows
    <3>5. CASE req[w].op \notin {"pay", "cancelPayment"}
      BY <3>1, <3>5 DEF PaymentSeen, AllocSeen, CanceledPaymentHoldsNothing
    <3>. QED BY <3>3, <3>4, <3>5
  <2>2. ASSUME NEW w \in Clients, Begin(w) \/ Write(w) PROVE UNCHANGED rows
    BY <2>2 DEF Begin, BillBegin, IssueBegin, CancelInvoiceBegin, RefundBegin, CancelPaymentBegin, PayBegin,
                RefundStatusBegin, Write, CancelPaymentDelete, RefundUpdate, RefundInsert, SumUp, Store, Verify
  <2>3. CASE UNCHANGED <<payment, alloc>>
    BY <2>3 DEF CanceledPaymentHoldsNothing
  <2>. QED BY <2>1, <2>2, <2>3 DEF Next, CreateInvoice, InvoiceStatusCommit, Abort, vars, rows
<1>. QED BY <1>1, <1>2, InitTyped, NextTyped, PTL DEF Spec

-----------------------------------------------------------------------------
(* As long as requests do not overlap.  One request is in flight; what it  *)
(* read at its beginning still holds (Grounded), what it has summed up is  *)
(* what it will leave (Current), and so each commit leaves the figures of  *)
(* every invoice true.                                                     *)

Sole == \A w, u \in Clients : req[w] # Idle /\ req[u] # Idle => w = u
FiguresTrue == \A v \in Invoices : summary[v] = Figures(invoice, payment, alloc, refund, v)
WithinBilled == \A v \in Invoices : Placed(payment, alloc, v) - Returned(refund, v) <= invoice[v].billed
OnlyIssuedHold == \A v \in Invoices : invoice[v].status # "ISSUED" => Placed(payment, alloc, v) = 0

Current(w) ==
    /\ req[w].at = "start" => req[w].now = None
    /\ \A v \in Invoices : v \in req[w].locks \/ v = req[w].now => req[w].figures[v] = FiguresSeen(w, v)

\* Each debt that gets money is payable and gets no more than it is, and those due
\* before it get all they are.
PaidInOrder(plan) ==
    \A v \in Invoices : plan[v] # 0 =>
        /\ v \in Payable /\ plan[v] <= Outstanding(summary[v])
        /\ \A u \in Payable : u < v => plan[u] = Outstanding(summary[u])

Grounded(q) ==
    /\ q.op = "bill" => /\ q.at # "start" /\ q.v \in Invoices /\ q.v \in Reach(q)
                        /\ invoice[q.v].status = "DRAFT" /\ invoice[q.v].billed + q.n >= 0
    /\ q.op = "cancelInvoice" => q.v \in Invoices /\ summary[q.v].paid = 0
    /\ q.op = "pay" => PaidInOrder(q.plan)

Orderly ==
    alone => /\ Sole /\ FiguresTrue /\ WithinBilled /\ OnlyIssuedHold
             /\ \A w \in Clients : Current(w) /\ Grounded(req[w])

LEMMA InitOrderly == Init => Orderly
<1> SUFFICES ASSUME Init PROVE Orderly
  OBVIOUS
<1>1. FiguresTrue /\ WithinBilled /\ OnlyIssuedHold
  BY NothingAtFirst DEF Init, FiguresTrue, WithinBilled, OnlyIssuedHold, Figures, NoFigures
<1>2. \A w \in Clients : req[w] = Idle
  BY DEF Init
<1>3. \A w \in Clients : Current(w) /\ Grounded(req[w])
  BY <1>2, ConstantsAssumption DEF Current, Grounded, Idle, ConstantsAssumption
<1>. QED BY <1>1, <1>2, <1>3 DEF Orderly, Sole

\* A request that is not there holds nothing to be wrong.
LEMMA IdleOrderly ==
    ASSUME NEW w \in Clients, req[w] = Idle
    PROVE  Current(w) /\ Grounded(req[w])
BY ConstantsAssumption DEF Current, Grounded, Idle, ConstantsAssumption

SameWork(q, s) ==
    q.op = s.op /\ q.v = s.v /\ q.p = s.p /\ q.r = s.r /\ q.n = s.n /\ q.plan = s.plan

LEMMA SeenAgain ==
    ASSUME NEW w \in Clients, UNCHANGED rows, SameWork(req'[w], req[w]), NEW v \in Invoices
    PROVE  FiguresSeen(w, v)' = FiguresSeen(w, v)
BY DEF rows, SameWork, FiguresSeen, InvoiceSeen, PaymentSeen, AllocSeen, RefundSeen

\* A step of a request that writes no rows.
LEMMA RememberOrderly ==
    ASSUME Typed, Orderly, NEW w \in Clients, NEW q, Remember(w, q), UNCHANGED rows,
           alone' => Current(w)' /\ Grounded(q)
    PROVE  Orderly'
<1> SUFFICES ASSUME alone' PROVE /\ Sole' /\ FiguresTrue' /\ WithinBilled' /\ OnlyIssuedHold'
                                 /\ \A u \in Clients : Current(u)' /\ Grounded(req[u])'
  BY DEF Orderly
<1>1. alone /\ req'[w] = q /\ \A u \in Clients \ {w} : req[u] = Idle /\ req'[u] = Idle
  BY DEF Remember, Typed, TypeOK
<1>2. Sole'
  BY <1>1 DEF Sole, Idle
<1>3. FiguresTrue' /\ WithinBilled' /\ OnlyIssuedHold'
  BY <1>1 DEF Orderly, FiguresTrue, WithinBilled, OnlyIssuedHold, rows
<1>4. ASSUME NEW u \in Clients PROVE Current(u)' /\ Grounded(req[u])'
  <2>1. CASE u = w
    <3>1. Grounded(req[w])'
      BY <1>1 DEF Grounded, PaidInOrder, Payable, rows, Reach
    <3>. QED BY <2>1, <3>1
  <2>2. CASE u # w
    <3>1. req'[u] = Idle
      BY <1>1, <2>2
    <3>. QED BY <3>1, ConstantsAssumption DEF Current, Grounded, Idle, ConstantsAssumption
  <2>. QED BY <2>1, <2>2
<1>. QED BY <1>2, <1>3, <1>4

LEMMA FiguresOutstanding ==
    ASSUME Typed, NEW v \in Invoices
    PROVE  /\ Outstanding(summary[v]) \in Nat
           /\ summary[v].final \in Int /\ NetPaid(summary[v]) \in Int
           /\ NetPaid(summary[v]) + Outstanding(summary[v]) >= summary[v].final
<1>1. summary[v] \in FiguresType
  BY DEF Typed, TypeOK
<1>. QED BY <1>1 DEF FiguresType, Outstanding, NetPaid

\* What create spreads an amount by.
LEMMA OldestFirst ==
    ASSUME Typed, NEW n \in Nat, NEW plan \in [Invoices -> 0..n], plan = AllocateFifo(n)
    PROVE  PaidInOrder(plan)
<1> DEFINE owed(v) == Outstanding(summary[v])
           older(v) == {x \in Payable : x < v}
           before(v) == Total([x \in older(v) |-> owed(x)])
<1>1. \A v \in Invoices :
        plan[v] = IF v \in Payable /\ before(v) < n THEN Least(n - before(v), owed(v)) ELSE 0
  BY DEF AllocateFifo
<1>2. \A v \in Invoices : owed(v) \in Nat
  BY FiguresOutstanding
<1>3. Payable \subseteq Invoices /\ Invoices \subseteq Nat
  BY ConstantsAssumption DEF Payable, ConstantsAssumption
<1>4. \A v \in Invoices : IsFiniteSet(older(v)) /\ older(v) \subseteq Invoices
  BY <1>3, ConstantsAssumption, FS_Subset DEF ConstantsAssumption
<1>5. ASSUME NEW v \in Invoices, NEW u \in Payable, u < v
      PROVE  before(u) \in Int /\ before(u) + owed(u) <= before(v)
  <2> DEFINE f == [x \in older(v) |-> owed(x)]
  <2>1. f \in [older(v) -> Nat]
    BY <1>2, <1>4
  <2>2. u \in older(v) /\ u \notin older(u) /\ older(u) \subseteq older(v)
    <3>1. u \in Nat /\ v \in Nat /\ \A x \in Payable : x \in Nat
      BY <1>3
    <3>2. \A x \in Payable : x < u => x < v
      BY <1>5, <3>1
    <3>3. ~(u < u)
      BY <3>1
    <3>. QED BY <1>5, <3>2, <3>3
  <2>3. /\ Total([x \in older(u) |-> f[x]]) \in Int
        /\ Total([x \in older(u) |-> f[x]]) + f[u] <= Total(f)
    <3>1. PICK S, T, g : S = older(v) /\ T = older(u) /\ g = f
      OBVIOUS
    <3>2. /\ IsFiniteSet(S) /\ g \in [S -> Nat]
          /\ T \in SUBSET S /\ u \in S /\ u \notin T
      BY <1>4, <2>1, <2>2, <3>1
    <3>3. Total([x \in T |-> g[x]]) \in Int /\ Total([x \in T |-> g[x]]) + g[u] <= Total(g)
      BY <3>2, TotalOfPart
    <3>. QED BY <3>1, <3>3
  <2>4. [x \in older(u) |-> f[x]] = [x \in older(u) |-> owed(x)] /\ f[u] = owed(u)
    BY <2>2
  <2>. QED BY <2>3, <2>4
<1>6. ASSUME NEW v \in Invoices PROVE before(v) \in Int
  <2> HIDE DEF older, owed
  <2>1. [x \in older(v) |-> owed(x)] \in [older(v) -> Int]
    BY <1>2, <1>4
  <2>. QED BY <1>4, <2>1, TotalInt
<1> HIDE DEF owed, before, older
<1>7. ASSUME NEW v \in Invoices, plan[v] # 0
      PROVE  v \in Payable /\ before(v) < n /\ plan[v] <= owed(v)
  BY <1>1, <1>2, <1>6, <1>7 DEF Least
<1>8. ASSUME NEW v \in Invoices, plan[v] # 0, NEW u \in Payable, u < v
      PROVE  plan[u] = owed(u)
  <2>1. before(v) < n /\ before(u) \in Int /\ before(u) + owed(u) <= before(v) /\ before(v) \in Int
    BY <1>5, <1>6, <1>7, <1>8
  <2>2. u \in Invoices /\ owed(u) \in Nat
    BY <1>2, <1>3
  <2>3. before(u) < n /\ ~(n - before(u) < owed(u))
    BY <2>1, <2>2
  <2>. QED BY <1>1, <2>2, <2>3 DEF Least
<1>. QED BY <1>7, <1>8 DEF PaidInOrder, owed

LEMMA BeginOrderly ==
    ASSUME Typed, Orderly, NEW w \in Clients, Begin(w)
    PROVE  Orderly'
<1> DEFINE Fresh(q) == q.now = None /\ q.locks = {}
<1>1. ASSUME NEW q, Remember(w, q), UNCHANGED rows, Fresh(q), alone' => Grounded(q)
      PROVE  Orderly'
  <2>1. req'[w] = q
    BY <1>1 DEF Remember, Typed, TypeOK
  <2>2. Current(w)'
    BY <1>1, <2>1, ConstantsAssumption DEF Current, ConstantsAssumption
  <2>. QED BY <1>1, <2>2, RememberOrderly
<1>2. ASSUME NEW v \in Invoices, NEW n \in BillAmounts, BillBegin(w, v, n) PROVE Orderly'
  <2> DEFINE q == [Idle EXCEPT !.op = "bill", !.at = "writing", !.v = v, !.n = n, !.todo = {v}]
  <2>1. invoice[v].billed + n >= 0
    BY <1>2 DEF BillBegin
  <2>2. Fresh(q) /\ Grounded(q)
    BY <1>2, <2>1 DEF BillBegin, Idle, Grounded, Reach
  <2> HIDE DEF q
  <2>. QED BY <1>1, <1>2, <2>2 DEF BillBegin, q
<1>3. ASSUME NEW v \in Invoices, IssueBegin(w, v) PROVE Orderly'
  <2> DEFINE q == [Idle EXCEPT !.op = "issue", !.v = v]
  <2>1. Fresh(q) /\ Grounded(q)
    BY DEF Idle, Grounded
  <2> HIDE DEF q
  <2>. QED BY <1>1, <1>3, <2>1 DEF IssueBegin, q
<1>4. ASSUME NEW v \in Invoices, CancelInvoiceBegin(w, v) PROVE Orderly'
  <2> DEFINE q == [Idle EXCEPT !.op = "cancelInvoice", !.v = v]
  <2>1. Fresh(q) /\ Grounded(q)
    BY <1>4 DEF CancelInvoiceBegin, Idle, Grounded
  <2> HIDE DEF q
  <2>. QED BY <1>1, <1>4, <2>1 DEF CancelInvoiceBegin, q
<1>5. ASSUME NEW v \in Invoices, NEW n \in RefundAmounts, RefundBegin(w, v, n) PROVE Orderly'
  <2> DEFINE q == [Idle EXCEPT !.op = "refund", !.v = v, !.n = n]
  <2>1. Fresh(q) /\ Grounded(q)
    BY DEF Idle, Grounded
  <2> HIDE DEF q
  <2>. QED BY <1>1, <1>5, <2>1 DEF RefundBegin, q
<1>6. ASSUME NEW p \in Payments, CancelPaymentBegin(w, p) PROVE Orderly'
  <2> DEFINE q == [Idle EXCEPT !.op = "cancelPayment", !.p = p]
  <2>1. Fresh(q) /\ Grounded(q)
    BY DEF Idle, Grounded
  <2> HIDE DEF q
  <2>. QED BY <1>1, <1>6, <2>1 DEF CancelPaymentBegin, q
<1>7. ASSUME NEW p \in Payments, NEW n \in PayAmounts, PayBegin(w, p, n) PROVE Orderly'
  <2>1. n \in Nat
    BY ConstantsAssumption DEF ConstantsAssumption
  <2>2. PICK plan \in [Invoices -> 0..n] :
          /\ plan = AllocateFifo(n)
          /\ Remember(w, [Idle EXCEPT !.op = "pay", !.at = "writing", !.p = p, !.n = n, !.plan = plan,
                                      !.todo = {v \in Invoices : plan[v] # 0}])
    BY <1>7 DEF PayBegin
  <2> DEFINE q == [Idle EXCEPT !.op = "pay", !.at = "writing", !.p = p, !.n = n, !.plan = plan,
                               !.todo = {v \in Invoices : plan[v] # 0}]
  <2>3. PaidInOrder(plan)
    BY <2>1, <2>2, OldestFirst
  <2>4. Fresh(q) /\ q.op = "pay" /\ q.plan = plan
    BY DEF Idle
  <2>5. Grounded(q)
    BY <2>3, <2>4 DEF Grounded
  <2>6. Remember(w, q) /\ UNCHANGED rows
    BY <1>7, <2>2 DEF PayBegin
  <2> HIDE DEF q
  <2>. QED BY <1>1, <2>4, <2>5, <2>6
<1>8. ASSUME NEW r \in Refunds, RefundStatusBegin(w, r) PROVE Orderly'
  <2>1. PICK op \in {"completeRefund", "cancelRefund"} :
          Remember(w, [Idle EXCEPT !.op = op, !.r = r]) /\ UNCHANGED rows
    BY <1>8 DEF RefundStatusBegin
  <2> DEFINE q == [Idle EXCEPT !.op = op, !.r = r]
  <2>2. Fresh(q) /\ Grounded(q)
    BY DEF Idle, Grounded
  <2> HIDE DEF q
  <2>. QED BY <1>1, <2>1, <2>2 DEF q
<1>. QED BY <1>2, <1>3, <1>4, <1>5, <1>6, <1>7, <1>8 DEF Begin

LEMMA WriteOrderly ==
    ASSUME Covering, Orderly, NEW w \in Clients, Write(w)
    PROVE  Orderly'
<1>1. Typed /\ req[w] \in Request /\ Reaching(req[w])
  BY DEF Covering, Typed, TypeOK
\* The step by which a transaction begins to write.
<1>2. ASSUME NEW q, Remember(w, q), UNCHANGED rows, AtStep(w, "start"),
             q.now = req[w].now, q.locks = req[w].locks, q.at = "writing",
             q.op \notin {"bill", "cancelInvoice", "pay"}
      PROVE  Orderly'
  <2>1. alone' => alone /\ Current(w)
    BY <1>2 DEF Remember, Orderly
  <2>2. req'[w] = q
    BY <1>1, <1>2 DEF Remember, Typed, TypeOK
  <2>3. alone' => Current(w)'
    BY <1>1, <1>2, <2>1, <2>2, ConstantsAssumption
       DEF Current, AtStep, Reaching, Written, ConstantsAssumption
  <2>4. Grounded(q)
    BY <1>2 DEF Grounded
  <2>. QED BY <1>1, <1>2, <2>3, <2>4, RememberOrderly
\* A step of one that is writing.
<1>3. ASSUME NEW q, Remember(w, q), UNCHANGED rows, SameWork(q, req[w]),
             q.at # "start", req[w].at # "start", q.op = "bill" => Reach(req[w]) \subseteq Reach(q),
             Current(w) => \A v \in Invoices : v \in q.locks \/ v = q.now =>
                             q.figures[v] = FiguresSeen(w, v)
      PROVE  Orderly'
  <2>1. alone' => alone /\ Current(w) /\ Grounded(req[w])
    BY <1>3 DEF Remember, Orderly
  <2>2. req'[w] = q
    BY <1>1, <1>3 DEF Remember, Typed, TypeOK
  <2>3. \A v \in Invoices : FiguresSeen(w, v)' = FiguresSeen(w, v)
    BY <1>3, <2>2, SeenAgain
  <2>4. alone' => Current(w)'
    BY <1>3, <2>1, <2>2, <2>3 DEF Current
  <2>5. alone' => Grounded(q)
    BY <1>3, <2>1 DEF Grounded, SameWork
  <2>. QED BY <1>1, <1>3, <2>4, <2>5, RememberOrderly
<1>4. CASE CancelPaymentDelete(w)
  <2> DEFINE q == [req[w] EXCEPT !.at = "writing", !.todo = {v \in Invoices : alloc[req[w].p][v] # 0}]
  <2>1. /\ q.now = req[w].now /\ q.locks = req[w].locks /\ q.at = "writing" /\ q.op = req[w].op
    BY <1>1 DEF Request
  <2>2. req[w].op = "cancelPayment" /\ AtStep(w, "start") /\ Remember(w, q) /\ UNCHANGED rows
    BY <1>4 DEF CancelPaymentDelete
  <2> HIDE DEF q
  <2>. QED BY <1>2, <2>1, <2>2
<1>5. CASE RefundUpdate(w)
  <2> DEFINE q == [req[w] EXCEPT !.at = "writing", !.todo = {refund[req[w].r].invoice}]
  <2>1. /\ q.now = req[w].now /\ q.locks = req[w].locks /\ q.at = "writing" /\ q.op = req[w].op
    BY <1>1 DEF Request
  <2>2. /\ req[w].op \in {"completeRefund", "cancelRefund"} /\ AtStep(w, "start")
        /\ Remember(w, q) /\ UNCHANGED rows
    BY <1>5 DEF RefundUpdate
  <2> HIDE DEF q
  <2>. QED BY <1>2, <2>1, <2>2
<1>6. ASSUME NEW r \in Refunds, RefundInsert(w, r) PROVE Orderly'
  <2> DEFINE q == [req[w] EXCEPT !.at = "writing", !.r = r, !.todo = {req[w].v}]
  <2>1. /\ q.now = req[w].now /\ q.locks = req[w].locks /\ q.at = "writing" /\ q.op = req[w].op
    BY <1>1 DEF Request
  <2>2. req[w].op = "refund" /\ AtStep(w, "start") /\ Remember(w, q) /\ UNCHANGED rows
    BY <1>6 DEF RefundInsert
  <2> HIDE DEF q
  <2>. QED BY <1>2, <2>1, <2>2
<1>7. ASSUME NEW v \in Invoices, SumUp(w, v) PROVE Orderly'
  <2> DEFINE q == [req[w] EXCEPT !.now = v, !.figures[v] = FiguresSeen(w, v)]
  <2>1. PICK seen : seen = FiguresSeen(w, v)
    OBVIOUS
  <2>2. /\ SameWork(q, req[w]) /\ q.at = req[w].at /\ q.todo = req[w].todo /\ q.locks = req[w].locks
        /\ q.now = v /\ q.figures = [req[w].figures EXCEPT ![v] = seen]
    BY <1>1, <2>1 DEF Request, SameWork
  <2>3. Remember(w, q) /\ UNCHANGED rows /\ req[w].at = "writing"
    BY <1>7 DEF SumUp, AtStep
  <2>4. req[w].figures \in [Invoices -> FiguresType]
    BY <1>1 DEF Request
  <2> HIDE DEF q
  <2>5. Current(w) => \A u \in Invoices : u \in q.locks \/ u = q.now => q.figures[u] = FiguresSeen(w, u)
    BY <2>1, <2>2, <2>4 DEF Current
  <2>6. Reach(req[w]) \subseteq Reach(q)
    BY <2>2 DEF Reach
  <2>. QED BY <1>3, <2>2, <2>3, <2>5, <2>6
<1>8. CASE Store(w)
  <2> DEFINE v == req[w].now
             kept == IF req[w].op \in {"completeRefund", "cancelRefund"}
                     THEN FiguresSeen(w, v) ELSE req[w].figures[v]
             q == [req[w] EXCEPT !.now = None, !.todo = @ \ {v}, !.locks = @ \cup {v}, !.figures[v] = kept]
  <2>1. PICK i, stored : i = v /\ stored = kept
    OBVIOUS
  <2>2. /\ SameWork(q, req[w]) /\ q.at = req[w].at /\ q.todo = req[w].todo \ {i}
        /\ q.locks = req[w].locks \cup {i} /\ q.now = None
        /\ q.figures = [req[w].figures EXCEPT ![i] = stored]
    BY <1>1, <2>1 DEF Request, SameWork
  <2>3. Remember(w, q) /\ UNCHANGED rows /\ req[w].at = "writing" /\ i # None
    BY <1>8, <2>1 DEF Store, AtStep
  <2>4. req[w].figures \in [Invoices -> FiguresType] /\ i \in Invoices
    BY <1>1, <2>1, <2>3 DEF Request
  <2>5. Current(w) => stored = FiguresSeen(w, i)
    BY <2>1, <2>4 DEF Current
  <2> HIDE DEF q, v, kept
  <2>6. Current(w) => \A u \in Invoices : u \in q.locks \/ u = q.now => q.figures[u] = FiguresSeen(w, u)
    BY <2>2, <2>4, <2>5, ConstantsAssumption DEF Current, ConstantsAssumption
  <2>7. Reach(req[w]) \subseteq Reach(q)
    BY <2>2 DEF Reach
  <2>. QED BY <1>3, <2>2, <2>3, <2>6, <2>7
<1>9. CASE Verify(w)
  <2> DEFINE q == [req[w] EXCEPT !.at = "verified"]
  <2>1. /\ SameWork(q, req[w]) /\ q.at = "verified" /\ q.todo = req[w].todo /\ q.locks = req[w].locks
        /\ q.now = req[w].now /\ q.figures = req[w].figures
    BY <1>1 DEF Request, SameWork
  <2>2. Remember(w, q) /\ UNCHANGED rows /\ req[w].at = "writing"
    BY <1>9 DEF Verify, AtStep
  <2> HIDE DEF q
  <2>3. Current(w) => \A u \in Invoices : u \in q.locks \/ u = q.now => q.figures[u] = FiguresSeen(w, u)
    BY <2>1 DEF Current
  <2>4. Reach(req[w]) \subseteq Reach(q)
    BY <2>1 DEF Reach
  <2>. QED BY <1>3, <2>1, <2>2, <2>3, <2>4
<1>. QED BY <1>4, <1>5, <1>6, <1>7, <1>8, <1>9 DEF Write

\* What a commit does to the money of each invoice.
LEMMA CommitMoves ==
    ASSUME Covering, NEW w \in Clients, Commit(w), NEW v \in Invoices
    PROVE  /\ Placed(payment, alloc, v) \in Nat /\ Placed(payment', alloc', v) \in Nat
           /\ Returned(refund, v) \in Nat /\ Returned(refund', v) \in Nat
           /\ Returned(refund, v) <= Returned(refund', v)
           /\ req[w].op = "pay" =>
                /\ Placed(payment', alloc', v) = Placed(payment, alloc, v) + req[w].plan[v]
                /\ refund' = refund
           /\ req[w].op # "pay" => Placed(payment', alloc', v) <= Placed(payment, alloc, v)
<1> DEFINE q == req[w]
<1>1. q \in Request /\ Fits(q) /\ Reaching(q) /\ q.at = "verified" /\ Written(q)
  BY DEF Covering, Typed, TypeOK, Commit, AtStep, Written
<1>2. payment' = PaymentSeen(w) /\ alloc' = AllocSeen(w) /\ refund' = RefundSeen(w)
  BY DEF Commit
<1>3. payment \in [Payments -> Money] /\ alloc \in AllocRows /\ refund \in RefundRows
  BY RowsTyped DEF Covering
<1>4. payment' \in [Payments -> Money] /\ alloc' \in AllocRows /\ refund' \in RefundRows
  BY <1>2, SeenTyped DEF Covering, AllocRows, RefundRows
\* Sums of natural numbers.
<1>5. ASSUME NEW pay \in [Payments -> Money], NEW al \in AllocRows
      PROVE  Placed(pay, al, v) \in Nat
  <2> DEFINE f == [p \in Payments |-> PaidBy(pay, al, v, p)]
             zero == [p \in Payments |-> 0]
  <2>1. /\ f \in [Payments -> Int] /\ zero \in [Payments -> Int] /\ \A p \in Payments : zero[p] <= f[p]
        /\ \A p \in Payments : zero[p] = 0
    BY DEF AllocRows, PaidBy
  <2>2. Placed(pay, al, v) = Total(f)
    BY DEF Placed, PaidBy
  <2> HIDE DEF f, zero
  <2>3. Total(zero) = 0 /\ Total(zero) <= Total(f) /\ Total(f) \in Int
    BY <2>1, TotalOfNothing, TotalMonotone, TotalInt, ConstantsAssumption DEF ConstantsAssumption
  <2>. QED BY <2>2, <2>3
<1>6. ASSUME NEW ref \in RefundRows
      PROVE  Returned(ref, v) \in Nat
  <2> DEFINE f == [r \in Refunds |-> Share(ref, v, {"COMPLETED"}, r)]
             zero == [r \in Refunds |-> 0]
  <2>1. /\ f \in [Refunds -> Int] /\ zero \in [Refunds -> Int] /\ \A r \in Refunds : zero[r] <= f[r]
        /\ \A r \in Refunds : zero[r] = 0
    BY DEF RefundRows, Share
  <2>2. Returned(ref, v) = Total(f)
    BY DEF Returned, RefundedAs, Share
  <2> HIDE DEF f, zero
  <2>3. Total(zero) = 0 /\ Total(zero) <= Total(f) /\ Total(f) \in Int
    BY <2>1, TotalOfNothing, TotalMonotone, TotalInt, ConstantsAssumption DEF ConstantsAssumption
  <2>. QED BY <2>2, <2>3
<1>7. Returned(refund, v) <= Returned(refund', v)
  <2>1. ASSUME NEW r \in Refunds
        PROVE  Share(refund, v, {"COMPLETED"}, r) <= Share(refund', v, {"COMPLETED"}, r)
    <3>1. CASE q.op = "refund"
      <4>1. refund[q.r].status = "NONE" /\ q.n \in Nat
        BY <1>1, <3>1 DEF Reaching, Fits
      <4>2. refund' = [refund EXCEPT ![q.r] = [status |-> "PENDING", invoice |-> q.v, amount |-> q.n]]
        BY <1>2, <3>1 DEF RefundSeen
      <4>. QED BY <1>3, <4>1, <4>2 DEF Share, RefundRows
    <3>2. CASE q.op \in {"completeRefund", "cancelRefund"}
      <4>1. RefundMayBecome(refund[q.r].status, RefundTarget(q.op))
        BY <1>1, <3>2 DEF Reaching
      <4>2. refund' = [refund EXCEPT ![q.r].status = RefundTarget(q.op)]
        BY <1>2, <3>2 DEF RefundSeen
      <4>. QED BY <1>3, <3>2, <4>1, <4>2 DEF Share, RefundRows, RefundMayBecome, RefundTarget
    <3>3. CASE q.op \notin {"refund", "completeRefund", "cancelRefund"}
      BY <1>2, <1>3, <3>3 DEF RefundSeen, Share, RefundRows
    <3>. QED BY <3>1, <3>2, <3>3
  <2>. QED BY <1>3, <1>4, <2>1, MoreShares DEF Returned
<1>8. CASE q.op = "pay"
  <2> DEFINE f == [p \in Payments |-> PaidBy(payment, alloc, v, p)]
             h == [p \in Payments |-> PaidBy(payment', alloc', v, p)]
  <2>1. PICK made \in Payments, n \in Nat, plan \in [Invoices -> Nat] :
          made = q.p /\ n = q.n /\ plan = q.plan
    BY <1>1, <1>8 DEF Reaching, Fits, Request
  <2>2. payment[made].status = "NONE"
    BY <1>1, <1>8, <2>1 DEF Reaching
  <2>3. /\ payment' = [payment EXCEPT ![made] = [status |-> "COMPLETED", amount |-> n]]
        /\ alloc' = [alloc EXCEPT ![made] = plan]
    BY <1>2, <1>8, <2>1 DEF PaymentSeen, AllocSeen
  <2>4. PaidBy(payment, alloc, v, made) = 0 /\ PaidBy(payment', alloc', v, made) = plan[v]
    BY <1>3, <2>2, <2>3 DEF PaidBy, AllocRows
  <2>5. \A p \in Payments \ {made} : PaidBy(payment', alloc', v, p) = PaidBy(payment, alloc, v, p)
    BY <1>3, <2>3 DEF PaidBy, AllocRows
  <2>6. f \in [Payments -> Int] /\ h \in [Payments -> Int]
    BY <1>3, <1>4 DEF PaidBy, AllocRows
  <2>7. /\ Placed(payment, alloc, v) = Total(f) /\ Placed(payment', alloc', v) = Total(h)
        /\ f[made] = 0 /\ h[made] = plan[v] /\ \A p \in Payments \ {made} : h[p] = f[p]
    BY <2>4, <2>5 DEF Placed, PaidBy
  <2> HIDE DEF f, h
  <2>8. Total(h) = Total(f) + (h[made] - f[made])
    BY <2>6, <2>7, TotalOneChanged, ConstantsAssumption DEF ConstantsAssumption
  <2>9. plan[v] \in Nat /\ Total(f) \in Int
    BY <2>6, TotalInt, ConstantsAssumption DEF ConstantsAssumption
  <2>10. Placed(payment', alloc', v) = Placed(payment, alloc, v) + plan[v]
    BY <2>7, <2>8, <2>9
  <2>11. refund' = refund
    BY <1>2, <1>8 DEF RefundSeen
  <2>. QED BY <1>3, <1>4, <1>5, <1>6, <1>7, <1>8, <2>1, <2>10, <2>11
<1>9. CASE q.op # "pay"
  <2>1. ASSUME NEW p \in Payments PROVE PaidBy(payment', alloc', v, p) <= PaidBy(payment, alloc, v, p)
    <3>1. CASE q.op = "cancelPayment"
      BY <1>2, <1>3, <3>1 DEF PaymentSeen, AllocSeen, PaidBy, AllocRows, Money, NothingPlaced
    <3>2. CASE q.op # "cancelPayment"
      BY <1>2, <1>3, <1>9, <3>2 DEF PaymentSeen, AllocSeen, PaidBy, AllocRows
    <3>. QED BY <3>1, <3>2
  <2>2. Placed(payment', alloc', v) <= Placed(payment, alloc, v)
    BY <1>3, <1>4, <2>1, MorePayments
  <2>. QED BY <1>3, <1>4, <1>5, <1>6, <1>7, <1>9, <2>2
<1>. QED BY <1>8, <1>9

\* What a transaction has not locked is to it as it was, the figures included.
LEMMA FiguresOutOfReach ==
    ASSUME Covering, NEW w \in Clients, req[w].at = "verified",
           req[w].op = "bill" => req[w].v \in Reach(req[w]),
           NEW v \in Invoices, v \notin req[w].locks
    PROVE  FiguresSeen(w, v) = Figures(invoice, payment, alloc, refund, v)
<1> DEFINE q == req[w]
<1>1. q \in Request /\ Reaching(q) /\ Fits(q) /\ Reach(q) = q.locks /\ Written(q)
  BY DEF Covering, Typed, TypeOK, Reaching, Reach, Written
<1>2. refund \in RefundRows
  BY RowsTyped DEF Covering
<1>3. Placed(PaymentSeen(w), AllocSeen(w), v) = Placed(payment, alloc, v)
  BY OutOfReach, SamePayments
<1>4. ASSUME NEW r \in Refunds
      PROVE  Share(RefundSeen(w), v, {"COMPLETED"}, r) = Share(refund, v, {"COMPLETED"}, r)
  <2>1. CASE q.op = "refund"
    <3>1. refund[q.r].status = "NONE" /\ q.v # v
      BY <1>1, <2>1 DEF Reaching
    <3>. QED BY <1>2, <2>1, <3>1 DEF RefundSeen, Share, RefundRows
  <2>2. CASE q.op \in {"completeRefund", "cancelRefund"}
    <3>1. refund[q.r].invoice # v
      BY <1>1, <2>2 DEF Reaching
    <3>. QED BY <1>2, <2>2, <3>1 DEF RefundSeen, Share, RefundRows
  <2>3. CASE q.op \notin {"refund", "completeRefund", "cancelRefund"}
    BY <2>3 DEF RefundSeen
  <2>. QED BY <2>1, <2>2, <2>3
<1>5. Returned(RefundSeen(w), v) = Returned(refund, v)
  BY <1>4, SameShares DEF Returned
<1>6. InvoiceSeen(w)[v] = invoice[v]
  <2>1. CASE q.op = "bill"
    <3>1. q.v # v
      BY <1>1, <2>1
    <3>2. InvoiceSeen(w) = [invoice EXCEPT ![q.v].billed = @ + q.n]
      BY <2>1 DEF InvoiceSeen
    <3>. QED BY <3>1, <3>2 DEF Covering, Typed, TypeOK
  <2>2. CASE q.op # "bill"
    BY <2>2 DEF InvoiceSeen
  <2>. QED BY <2>1, <2>2
<1>. QED BY <1>3, <1>5, <1>6 DEF FiguresSeen, Figures

\* Once the request has ended there is none.
LEMMA FinishOrderly ==
    ASSUME Typed, Orderly, NEW w \in Clients, Finish(w), req[w] # Idle,
           alone => FiguresTrue' /\ WithinBilled' /\ OnlyIssuedHold'
    PROVE  Orderly'
<1> SUFFICES ASSUME alone' PROVE /\ Sole' /\ FiguresTrue' /\ WithinBilled' /\ OnlyIssuedHold'
                                 /\ \A u \in Clients : Current(u)' /\ Grounded(req[u])'
  BY DEF Orderly
<1>1. alone /\ Sole
  BY DEF Finish, Orderly
<1>2. \A u \in Clients : req'[u] = Idle
  BY <1>1 DEF Finish, Typed, TypeOK, Sole
<1>3. \A u \in Clients : Current(u)' /\ Grounded(req[u])'
  BY <1>2, ConstantsAssumption DEF Current, Grounded, Idle, ConstantsAssumption
<1>. QED BY <1>1, <1>2, <1>3 DEF Sole

LEMMA CommitFigures ==
    ASSUME Covering, Orderly, alone, NEW w \in Clients, Commit(w)
    PROVE  FiguresTrue'
<1>1. req[w] \in Request /\ req[w].at = "verified" /\ Current(w) /\ Grounded(req[w]) /\ FiguresTrue
  BY DEF Covering, Typed, TypeOK, Commit, AtStep, Orderly
<1>2. ASSUME NEW v \in Invoices
      PROVE  /\ FiguresSeen(w, v) = Figures(invoice', payment', alloc', refund', v)
             /\ summary'[v] = IF v \in req[w].locks THEN req[w].figures[v] ELSE summary[v]
  BY DEF Commit, FiguresSeen
<1>3. ASSUME NEW v \in Invoices
      PROVE  summary'[v] = Figures(invoice', payment', alloc', refund', v)
  <2>1. CASE v \in req[w].locks
    BY <1>1, <1>2, <2>1 DEF Current
  <2>2. CASE v \notin req[w].locks
    <3>1. FiguresSeen(w, v) = Figures(invoice, payment, alloc, refund, v)
      BY <1>1, <2>2, FiguresOutOfReach DEF Grounded
    <3>. QED BY <1>1, <1>2, <2>2, <3>1 DEF FiguresTrue
  <2>. QED BY <2>1, <2>2
<1>. QED BY <1>3 DEF FiguresTrue

LEMMA CommitInvoices ==
    ASSUME Typed, NEW w \in Clients, Commit(w), NEW v \in Invoices
    PROVE  /\ invoice'[v].status = invoice[v].status /\ invoice[v].billed \in Int
           /\ ~(req[w].op = "bill" /\ req[w].v = v) => invoice'[v].billed = invoice[v].billed
           /\ req[w].op = "bill" /\ req[w].v = v => invoice'[v].billed = invoice[v].billed + req[w].n
<1>1. invoice \in [Invoices -> [status : {"NONE", "DRAFT", "ISSUED", "CANCELED"}, billed : Int]]
  BY DEF Typed, TypeOK
<1>2. CASE req[w].op = "bill"
  <2>1. invoice' = [invoice EXCEPT ![req[w].v].billed = @ + req[w].n]
    BY <1>2 DEF Commit, InvoiceSeen
  <2>. QED BY <1>1, <1>2, <2>1
<1>3. CASE req[w].op # "bill"
  BY <1>1, <1>3 DEF Commit, InvoiceSeen
<1>. QED BY <1>2, <1>3

\* The figures a payment was planned by are those of the rows when it is made.
LEMMA PlannedOnRows ==
    ASSUME Typed, FiguresTrue, NEW v \in Invoices
    PROVE  /\ summary[v].final = invoice[v].billed
           /\ NetPaid(summary[v]) = Placed(payment, alloc, v) - Returned(refund, v)
<1>1. summary[v] = Figures(invoice, payment, alloc, refund, v)
  BY DEF FiguresTrue
<1>2. /\ summary[v].final = invoice[v].billed
      /\ summary[v].paid = Placed(payment, alloc, v)
      /\ summary[v].refunded = Returned(refund, v)
  BY <1>1 DEF Figures
<1>. QED BY <1>2 DEF NetPaid

LEMMA CommitOrderly ==
    ASSUME Covering, Orderly, NEW w \in Clients, Commit(w)
    PROVE  Orderly'
<1> DEFINE q == req[w]
<1>1. Typed /\ Finish(w) /\ q # Idle
  BY DEF Commit, AtStep, Idle, Covering
<1>2. ASSUME alone PROVE WithinBilled' /\ OnlyIssuedHold'
  <2>1. FiguresTrue /\ WithinBilled /\ OnlyIssuedHold /\ Grounded(q)
    BY <1>2 DEF Orderly
  <2>2. ASSUME NEW v \in Invoices
        PROVE  /\ Placed(payment', alloc', v) - Returned(refund', v) <= invoice'[v].billed
               /\ invoice'[v].status # "ISSUED" => Placed(payment', alloc', v) = 0
    <3>1. /\ Placed(payment, alloc, v) \in Nat /\ Placed(payment', alloc', v) \in Nat
          /\ Returned(refund, v) \in Nat /\ Returned(refund', v) \in Nat
          /\ Returned(refund, v) <= Returned(refund', v)
          /\ q.op = "pay" =>
               /\ Placed(payment', alloc', v) = Placed(payment, alloc, v) + q.plan[v]
               /\ refund' = refund
          /\ q.op # "pay" => Placed(payment', alloc', v) <= Placed(payment, alloc, v)
      BY CommitMoves
    <3>2. /\ invoice'[v].status = invoice[v].status /\ invoice[v].billed \in Int
          /\ ~(q.op = "bill" /\ q.v = v) => invoice'[v].billed = invoice[v].billed
          /\ q.op = "bill" /\ q.v = v => invoice'[v].billed = invoice[v].billed + q.n
      BY <1>1, CommitInvoices
    <3>3. /\ Placed(payment, alloc, v) - Returned(refund, v) <= invoice[v].billed
          /\ invoice[v].status # "ISSUED" => Placed(payment, alloc, v) = 0
      BY <2>1 DEF WithinBilled, OnlyIssuedHold
    <3> HIDE DEF q
    <3>4. CASE q.op = "pay"
      <4>1. q.plan[v] \in Nat
        BY <1>1 DEF Typed, TypeOK, Request, q
      <4>2. CASE q.plan[v] = 0
        BY <3>1, <3>2, <3>3, <3>4, <4>2
      <4>3. CASE q.plan[v] # 0
        <5>1. v \in Payable /\ q.plan[v] <= Outstanding(summary[v])
          BY <2>1, <3>4, <4>3 DEF Grounded, PaidInOrder
        <5>2. invoice[v].status = "ISSUED"
          BY <5>1 DEF Payable
        <5>3. /\ summary[v].final = invoice[v].billed
              /\ NetPaid(summary[v]) = Placed(payment, alloc, v) - Returned(refund, v)
          BY <1>1, <2>1, PlannedOnRows
        <5>4. q.plan[v] <= invoice[v].billed - (Placed(payment, alloc, v) - Returned(refund, v))
          BY <3>1, <3>2, <4>1, <4>3, <5>1, <5>3 DEF Outstanding
        <5>. QED BY <3>1, <3>2, <3>4, <4>1, <5>2, <5>4
      <4>. QED BY <4>2, <4>3
    <3>5. CASE q.op = "bill" /\ q.v = v
      <4>1. invoice[v].status = "DRAFT" /\ invoice[v].billed + q.n >= 0
        BY <2>1, <3>5 DEF Grounded
      <4>2. q.n \in Int
        BY <1>1 DEF Typed, TypeOK, Request, q
      <4>. QED BY <3>1, <3>2, <3>3, <3>5, <4>1, <4>2
    <3>6. CASE q.op # "pay" /\ ~(q.op = "bill" /\ q.v = v)
      BY <3>1, <3>2, <3>3, <3>6
    <3>. QED BY <3>4, <3>5, <3>6
  <2>. QED BY <2>2 DEF WithinBilled, OnlyIssuedHold
<1>3. alone => FiguresTrue'
  BY CommitFigures
<1>. QED BY <1>1, <1>2, <1>3, FinishOrderly

LEMMA InvoiceStatusOrderly ==
    ASSUME Typed, Orderly, NEW w \in Clients, InvoiceStatusCommit(w)
    PROVE  Orderly'
<1>1. Finish(w) /\ req[w] # Idle /\ UNCHANGED <<summary, payment, alloc, refund>>
  BY DEF InvoiceStatusCommit, Idle
<1>2. invoice \in [Invoices -> [status : {"NONE", "DRAFT", "ISSUED", "CANCELED"}, billed : Int]]
  BY DEF Typed, TypeOK
<1>3. PICK v : v = req[w].v
  OBVIOUS
<1>4. ASSUME NEW u \in Invoices
      PROVE  /\ invoice'[u].billed = invoice[u].billed
             /\ \/ invoice'[u].status \in {invoice[u].status, "ISSUED"}
                \/ u = v /\ req[w].op = "cancelInvoice"
  <2>1. CASE req[w].op = "issue"
    <3>1. invoice' = [invoice EXCEPT ![v].status = "ISSUED"]
      BY <1>3, <2>1 DEF InvoiceStatusCommit
    <3>. QED BY <1>2, <3>1
  <2>2. CASE req[w].op = "cancelInvoice"
    <3>1. invoice' = [invoice EXCEPT ![v].status = "CANCELED"]
      BY <1>3, <2>2 DEF InvoiceStatusCommit
    <3>. QED BY <1>2, <2>2, <3>1
  <2>. QED BY <2>1, <2>2 DEF InvoiceStatusCommit
<1>5. ASSUME alone PROVE FiguresTrue' /\ WithinBilled' /\ OnlyIssuedHold'
  <2>1. FiguresTrue /\ WithinBilled /\ OnlyIssuedHold /\ Grounded(req[w])
    BY <1>5 DEF Orderly
  <2>2. FiguresTrue' /\ WithinBilled'
    BY <1>1, <1>4, <2>1 DEF FiguresTrue, WithinBilled, Figures
  <2>3. ASSUME NEW u \in Invoices, invoice'[u].status # "ISSUED"
        PROVE  Placed(payment', alloc', u) = 0
    <3>1. CASE invoice'[u].status = invoice[u].status
      BY <1>1, <2>1, <2>3, <3>1 DEF OnlyIssuedHold
    <3>2. CASE u = v /\ req[w].op = "cancelInvoice"
      <4>1. summary[u].paid = 0
        BY <1>3, <2>1, <3>2 DEF Grounded
      <4>2. summary[u] = Figures(invoice, payment, alloc, refund, u)
        BY <2>1 DEF FiguresTrue
      <4>3. summary[u].paid = Placed(payment, alloc, u)
        BY <4>2 DEF Figures
      <4>. QED BY <1>1, <4>1, <4>3
    <3>. QED BY <1>4, <2>3, <3>1, <3>2
  <2>. QED BY <2>2, <2>3 DEF OnlyIssuedHold
<1>. QED BY <1>1, <1>5, FinishOrderly

LEMMA CreateOrderly ==
    ASSUME Typed, Orderly, NEW v \in Invoices, CreateInvoice(v)
    PROVE  Orderly'
<1> SUFFICES ASSUME alone' PROVE /\ Sole' /\ FiguresTrue' /\ WithinBilled' /\ OnlyIssuedHold'
                                 /\ \A u \in Clients : Current(u)' /\ Grounded(req[u])'
  BY DEF Orderly
<1>1. /\ UNCHANGED <<summary, payment, alloc, refund, req, alone>> /\ invoice[v].status = "NONE"
      /\ invoice' = [invoice EXCEPT ![v].status = "DRAFT"]
  BY DEF CreateInvoice
<1>2. /\ Sole /\ FiguresTrue /\ WithinBilled /\ OnlyIssuedHold
      /\ \A w \in Clients : Current(w) /\ Grounded(req[w])
  BY <1>1 DEF Orderly
<1>3. ASSUME NEW u \in Invoices
      PROVE  /\ invoice'[u].billed = invoice[u].billed
             /\ invoice[u].status \in {"DRAFT", "ISSUED"} => invoice'[u].status = invoice[u].status
             /\ invoice'[u].status = "ISSUED" <=> invoice[u].status = "ISSUED"
  BY <1>1 DEF Typed, TypeOK
<1>4. Sole'
  BY <1>1, <1>2 DEF Sole
<1>5. FiguresTrue' /\ WithinBilled' /\ OnlyIssuedHold'
  BY <1>1, <1>2, <1>3 DEF FiguresTrue, WithinBilled, OnlyIssuedHold, Figures
<1>6. ASSUME NEW w \in Clients PROVE Current(w)' /\ Grounded(req[w])'
  <2>1. ASSUME NEW u \in Invoices PROVE FiguresSeen(w, u)' = FiguresSeen(w, u)
    <3>1. InvoiceSeen(w)'[u].billed = InvoiceSeen(w)[u].billed
      <4>1. CASE req[w].op = "bill"
        <5>1. /\ InvoiceSeen(w) = [invoice EXCEPT ![req[w].v].billed = invoice[req[w].v].billed + req[w].n]
              /\ InvoiceSeen(w)' = [invoice' EXCEPT ![req[w].v].billed = invoice'[req[w].v].billed + req[w].n]
          BY <1>1, <4>1 DEF InvoiceSeen
        <5>2. /\ invoice \in [Invoices -> [status : {"NONE", "DRAFT", "ISSUED", "CANCELED"}, billed : Int]]
              /\ invoice' \in [Invoices -> [status : {"NONE", "DRAFT", "ISSUED", "CANCELED"}, billed : Int]]
          BY <1>1 DEF Typed, TypeOK
        <5>. QED BY <1>3, <5>1, <5>2
      <4>2. CASE req[w].op # "bill"
        BY <1>1, <1>3, <4>2 DEF InvoiceSeen
      <4>. QED BY <4>1, <4>2
    <3>2. PaymentSeen(w)' = PaymentSeen(w) /\ AllocSeen(w)' = AllocSeen(w) /\ RefundSeen(w)' = RefundSeen(w)
      BY <1>1 DEF PaymentSeen, AllocSeen, RefundSeen
    <3>. QED BY <3>1, <3>2 DEF FiguresSeen, Figures
  <2>2. Current(w)'
    BY <1>1, <1>2, <2>1 DEF Current
  <2>3. Payable' = Payable
    BY <1>1, <1>3 DEF Payable
  <2>4. Grounded(req[w])'
    BY <1>1, <1>2, <1>3, <2>3 DEF Grounded, PaidInOrder, Reach
  <2>. QED BY <2>2, <2>4
<1>. QED BY <1>4, <1>5, <1>6

LEMMA NextOrderly == Covering /\ Orderly /\ [Next]_vars => Orderly'
<1> SUFFICES ASSUME Covering, Orderly, [Next]_vars PROVE Orderly'
  OBVIOUS
<1>1. Typed
  BY DEF Covering
<1>2. ASSUME NEW w \in Clients, Abort(w) PROVE Orderly'
  <2>1. Finish(w) /\ req[w] # Idle /\ UNCHANGED rows
    BY <1>2 DEF Abort
  <2>2. alone => FiguresTrue' /\ WithinBilled' /\ OnlyIssuedHold'
    BY <2>1 DEF Orderly, FiguresTrue, WithinBilled, OnlyIssuedHold, rows
  <2>. QED BY <1>1, <2>1, <2>2, FinishOrderly
<1>3. CASE UNCHANGED vars
  <2>1. \A w \in Clients, v \in Invoices : FiguresSeen(w, v)' = FiguresSeen(w, v)
    BY <1>3, SeenAgain DEF vars, SameWork
  <2>2. FiguresTrue' = FiguresTrue /\ WithinBilled' = WithinBilled /\ OnlyIssuedHold' = OnlyIssuedHold
    BY <1>3 DEF vars, rows, FiguresTrue, WithinBilled, OnlyIssuedHold
  <2>3. \A w \in Clients : (Current(w) => Current(w)') /\ (Grounded(req[w]) => Grounded(req[w])')
    BY <1>3, <2>1 DEF vars, rows, Current, Grounded, PaidInOrder, Payable, Reach
  <2>4. alone' = alone /\ Sole' = Sole
    BY <1>3 DEF vars, Sole
  <2>. QED BY <2>2, <2>3, <2>4 DEF Orderly
<1>. QED BY <1>1, <1>2, <1>3, CreateOrderly, BeginOrderly, WriteOrderly, InvoiceStatusOrderly,
            CommitOrderly DEF Next

LEMMA AlwaysOrderly == Spec => [](Covering /\ Orderly)
BY InitCovering, NextCovering, InitOrderly, NextOrderly, PTL DEF Spec

\* The figures the triggers keep on an invoice are those of its rows, after every request
\* of any kind, committed or rolled back, as long as none overlapped.
THEOREM SummariesAreTrue == Spec => []SummaryTrue
<1>1. Orderly => SummaryTrue
  BY DEF Orderly, FiguresTrue, SummaryTrue
<1>. QED BY <1>1, AlwaysOrderly, PTL

\* No sequence of payments, refunds, cancellations and corrections of a draft leaves more
\* on an invoice than it comes to.
THEOREM NoneOverpaid == Spec => []NeverOverpaid
<1>1. Typed /\ Orderly => NeverOverpaid
  <2> SUFFICES ASSUME Typed, Orderly, alone, NEW v \in Invoices
               PROVE  SettlementStatus(summary[v]) # "OVERPAID"
    BY DEF NeverOverpaid
  <2>1. NetPaid(summary[v]) <= summary[v].final
    BY PlannedOnRows DEF Orderly, WithinBilled
  <2>2. NetPaid(summary[v]) \in Int /\ summary[v].final \in Int
    BY FiguresOutstanding
  <2>. QED BY <2>1, <2>2 DEF SettlementStatus
<1>. QED BY <1>1, AlwaysOrderly, PTL DEF Covering

\* An invoice is canceled only with nothing on it, and no payment reaches it afterwards.
THEOREM CanceledInvoicesAreEmpty == Spec => []CanceledInvoiceHoldsNothing
<1>1. Orderly => CanceledInvoiceHoldsNothing
  BY DEF Orderly, OnlyIssuedHold, CanceledInvoiceHoldsNothing
<1>. QED BY <1>1, AlwaysOrderly, PTL

\* A payment that reaches a debt settles every older one in the same commit.
LEMMA CommitPaysOldest ==
    ASSUME Covering, Orderly, Orderly', alone, alone', NEW w \in Clients, Commit(w),
           NEW u \in Payable, NEW v \in Invoices, u < v,
           NEW p \in Payments, alloc[p][v] < alloc'[p][v]
    PROVE  Outstanding(summary'[u]) = 0
<1>1. /\ Typed /\ FiguresTrue /\ FiguresTrue' /\ Grounded(req[w]) /\ WithinBilled
      /\ alloc \in AllocRows /\ req[w].plan \in [Invoices -> Nat] /\ u \in Invoices
  BY RowsTyped DEF Covering, Orderly, Typed, TypeOK, Request, Payable
<1>2. req[w].op = "pay"
  <2>1. CASE req[w].op = "cancelPayment"
    <3>1. alloc' = [alloc EXCEPT ![req[w].p] = NothingPlaced]
      BY <2>1 DEF Commit, AllocSeen
    <3>2. alloc'[p][v] \in {0, alloc[p][v]} /\ alloc[p][v] \in Nat
      BY <1>1, <3>1 DEF AllocRows, NothingPlaced
    <3>. QED BY <3>2
  <2>2. CASE req[w].op \notin {"pay", "cancelPayment"}
    <3>1. alloc' = alloc /\ alloc[p][v] \in Nat
      BY <1>1, <2>2 DEF Commit, AllocSeen, AllocRows
    <3>. QED BY <3>1
  <2>. QED BY <2>1, <2>2
<1>3. PICK plan \in [Invoices -> Nat] : plan = req[w].plan
  BY <1>1
<1>4. plan[v] # 0
  <2>1. PICK made : alloc' = [alloc EXCEPT ![made] = plan]
    BY <1>2, <1>3 DEF Commit, AllocSeen
  <2>2. alloc[p][v] \in Nat /\ alloc'[p][v] \in {alloc[p][v], plan[v]}
    BY <1>1, <2>1 DEF AllocRows
  <2>. QED BY <2>2
<1>5. plan[u] = Outstanding(summary[u])
  BY <1>1, <1>2, <1>3, <1>4 DEF Grounded, PaidInOrder
<1>6. /\ Placed(payment, alloc, u) \in Nat /\ Returned(refund, u) \in Nat
      /\ Placed(payment', alloc', u) = Placed(payment, alloc, u) + plan[u]
      /\ Returned(refund', u) = Returned(refund, u)
  BY <1>1, <1>2, <1>3, CommitMoves
<1>7. invoice'[u].billed = invoice[u].billed /\ invoice[u].billed \in Int
  BY <1>1, <1>2, CommitInvoices
<1>8. /\ summary[u].final = invoice[u].billed
      /\ NetPaid(summary[u]) = Placed(payment, alloc, u) - Returned(refund, u)
  BY <1>1, PlannedOnRows
<1>9. /\ summary'[u].final = invoice'[u].billed
      /\ NetPaid(summary'[u]) = Placed(payment', alloc', u) - Returned(refund', u)
  <2>1. summary'[u] = Figures(invoice', payment', alloc', refund', u)
    BY <1>1 DEF FiguresTrue
  <2>2. /\ summary'[u].final = invoice'[u].billed
        /\ summary'[u].paid = Placed(payment', alloc', u)
        /\ summary'[u].refunded = Returned(refund', u)
    BY <2>1 DEF Figures
  <2>. QED BY <2>2 DEF NetPaid
<1>10. Placed(payment, alloc, u) - Returned(refund, u) <= invoice[u].billed
  BY <1>1 DEF WithinBilled
<1>11. plan[u] = invoice[u].billed - (Placed(payment, alloc, u) - Returned(refund, u))
  BY <1>5, <1>6, <1>7, <1>8, <1>10 DEF Outstanding
<1>12. NetPaid(summary'[u]) = summary'[u].final
  BY <1>6, <1>7, <1>9, <1>11
<1>13. summary'[u].final \in Int
  BY <1>7, <1>9
<1>. QED BY <1>12, <1>13 DEF Outstanding

\* Money reaches an invoice only when nothing is left to pay on those due before it: the
\* plan made on the figures read at first is carried out on the same figures.
THEOREM OldestDebtsFirst == Spec => OldestDebtFirst
<1>1. Covering /\ Orderly /\ Orderly' /\ [Next]_vars =>
        [alone' => \A u, v \in Invoices :
           (u < v /\ u \in Payable /\ \E p \in Payments : alloc[p][v] < alloc'[p][v]) =>
              Outstanding(summary'[u]) = 0]_vars
  <2> SUFFICES ASSUME Covering, Orderly, Orderly', [Next]_vars, alone',
                      NEW u \in Invoices, NEW v \in Invoices, u < v, u \in Payable,
                      NEW p \in Payments, alloc[p][v] < alloc'[p][v]
               PROVE  Outstanding(summary'[u]) = 0
    OBVIOUS
  <2>1. alloc[p][v] \in Nat
    BY RowsTyped DEF Covering, AllocRows
  <2>2. alloc' # alloc
    BY <2>1
  <2>3. ASSUME NEW w \in Clients, Begin(w) \/ Write(w) PROVE UNCHANGED rows
    BY <2>3 DEF Begin, BillBegin, IssueBegin, CancelInvoiceBegin, RefundBegin, CancelPaymentBegin, PayBegin,
                RefundStatusBegin, Write, CancelPaymentDelete, RefundUpdate, RefundInsert, SumUp, Store, Verify
  <2>4. PICK w \in Clients : Commit(w)
    BY <2>2, <2>3 DEF Next, CreateInvoice, InvoiceStatusCommit, Abort, vars, rows
  <2>5. alone
    BY <2>4 DEF Commit, Finish
  <2>. QED BY <2>4, <2>5, CommitPaysOldest
<1>. QED BY <1>1, AlwaysOrderly, PTL DEF Spec, OldestDebtFirst

=============================================================================
