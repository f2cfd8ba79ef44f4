----------------------------- MODULE Settlement -----------------------------
(***************************************************************************)
(* Invoices, payments and refunds of one customer, and the settlement      *)
(* figures the database keeps on each invoice: InvoiceService,             *)
(* PaymentService and RefundService of apps/api with the triggers below    *)
(* them.                                                                   *)
(*                                                                         *)
(* A request reads (XxxBegin) and then writes in a transaction at READ     *)
(* COMMITTED.  Every row of an allocation, refund or item it writes makes  *)
(* a trigger recompute the figures of the invoice: it adds up the rows the *)
(* transaction can see (SumUp) and then waits for the invoice's row, which *)
(* it keeps locked to the end (Store).  The deferred checks run when all   *)
(* is written (Verify), and only then does the transaction commit, so      *)
(* other transactions may commit between any two of these steps.           *)
(*                                                                         *)
(* All requests fall on one day: one row numbers all payments and another  *)
(* all refunds.                                                            *)
(***************************************************************************)
EXTENDS Integers, FiniteSets, Totals

CONSTANTS
    Invoices,    \* numbers; the order of due dates is theirs
    Payments, Refunds,
    Clients,     \* requests served concurrently
    None,        \* no invoice, no payment, no refund
    BillAmounts, PayAmounts, RefundAmounts,   \* the amounts of an instance: of items and
                 \* adjustments (also negative), of payments, of refunds
    MaxBilled,   \* bound: what an invoice may come to
    MaxOverlapInvoices, \* bound: at most so many invoices once requests have overlapped
    Requests     \* the kinds of request sent in this instance

RequestKinds == {"bill", "issue", "cancelInvoice", "pay", "cancelPayment",
                 "refund", "completeRefund", "cancelRefund"}

ASSUME ConstantsAssumption ==
    /\ Invoices \subseteq Nat
    /\ IsFiniteSet(Invoices) /\ IsFiniteSet(Payments) /\ IsFiniteSet(Refunds)
    /\ BillAmounts \subseteq Int
    /\ PayAmounts \subseteq Nat \ {0} /\ RefundAmounts \subseteq Nat \ {0}
    /\ MaxBilled \in Nat /\ MaxOverlapInvoices \in Nat
    /\ None \notin Invoices \cup Payments \cup Refunds
    /\ Requests \subseteq RequestKinds

VARIABLES
    invoice,   \* [Invoices -> [status, billed]], billed: its items and adjustments added up
    summary,   \* [Invoices -> [final, paid, refunded]], the figures kept on the row
    payment,   \* [Payments -> [status, amount]]
    alloc,     \* [Payments -> [Invoices -> Nat]], 0 where there is no PaymentAllocation
    refund,    \* [Refunds -> [status, invoice, amount]]
    req,       \* the request each client is handling, with what it has read and locked
    alone      \* history: so far, no two requests were ever in flight together

rows == <<invoice, summary, payment, alloc, refund>>
vars == <<rows, req, alone>>

NoFigures == [final |-> 0, paid |-> 0, refunded |-> 0]
NothingPlaced == [v \in Invoices |-> 0]

Idle == [op |-> "idle", at |-> "start", v |-> None, p |-> None, r |-> None, n |-> 0,
         plan |-> NothingPlaced, todo |-> {}, now |-> None,
         figures |-> [v \in Invoices |-> NoFigures], locks |-> {}]

-----------------------------------------------------------------------------
(* The figures of an invoice *)

\* By payments that stand: what the trigger and the refund cap add up.
Placed(pay, al, v) ==
    Total([p \in Payments |-> IF pay[p].status = "COMPLETED" THEN al[p][v] ELSE 0])

RefundedAs(ref, v, statuses) ==
    Total([r \in Refunds |->
             IF ref[r].invoice = v /\ ref[r].status \in statuses THEN ref[r].amount ELSE 0])

Claimed(ref, v) == RefundedAs(ref, v, {"PENDING", "COMPLETED"})
Returned(ref, v) == RefundedAs(ref, v, {"COMPLETED"})

\* Mutated: a refund counts as soon as it is asked for.
FiguresWithPending(inv, pay, al, ref, v) ==
    [final |-> inv[v].billed, paid |-> Placed(pay, al, v), refunded |-> Claimed(ref, v)]

Figures(inv, pay, al, ref, v) ==
    [final |-> inv[v].billed, paid |-> Placed(pay, al, v), refunded |-> Returned(ref, v)]

NetPaid(s) == s.paid - s.refunded
Outstanding(s) == IF s.final > NetPaid(s) THEN s.final - NetPaid(s) ELSE 0

SettlementStatus(s) ==
    IF NetPaid(s) > s.final THEN "OVERPAID"
    ELSE IF NetPaid(s) <= 0 THEN "UNPAID"
    ELSE IF NetPaid(s) < s.final THEN "PARTIALLY_PAID"
    ELSE "PAID"

-----------------------------------------------------------------------------
Init ==
    /\ invoice = [v \in Invoices |-> [status |-> "NONE", billed |-> 0]]
    /\ summary = [v \in Invoices |-> NoFigures]
    /\ payment = [p \in Payments |-> [status |-> "NONE", amount |-> 0]]
    /\ alloc = [p \in Payments |-> NothingPlaced]
    /\ refund = [r \in Refunds |-> [status |-> "NONE", invoice |-> None, amount |-> 0]]
    /\ req = [w \in Clients |-> Idle]
    /\ alone = TRUE

Client(w, kind) == kind \in Requests /\ req[w] = Idle
Created == {v \in Invoices : invoice[v].status # "NONE"}
Few(S, apart) == apart \/ Cardinality(S) <= MaxOverlapInvoices

Remember(w, r) ==
    /\ req' = [req EXCEPT ![w] = r]
    /\ alone' = (alone /\ \A u \in Clients \ {w} : req[u] = Idle)
    /\ Few(Created, alone')
Finish(w) == req' = [req EXCEPT ![w] = Idle] /\ UNCHANGED alone
AtStep(w, step) == req[w].at = step

LockedBy(w) == req[w].locks
Unlocked(w, v) == \A u \in Clients \ {w} : v \notin LockedBy(u)

\* The row of DocumentSequence a transaction has counted up stays locked to its end.
SequenceFree(w, op) == \A u \in Clients \ {w} : ~(req[u].op = op /\ req[u].at # "start")

CreateInvoice(v) ==
    /\ invoice[v].status = "NONE"
    /\ Few(Created \cup {v}, alone)
    /\ invoice' = [invoice EXCEPT ![v].status = "DRAFT"]
    /\ UNCHANGED <<summary, payment, alloc, refund, req, alone>>

-----------------------------------------------------------------------------
(* addItem, removeItem, addAdjustment: the total changes by n, up or down.  *)
(* The DRAFT status is read before; the row is then written on its own.     *)

BillBegin(w, v, n) ==
    /\ Client(w, "bill")
    /\ invoice[v].status = "DRAFT"
    /\ invoice[v].billed + n \in 0..MaxBilled
    /\ Remember(w, [Idle EXCEPT !.op = "bill", !.at = "writing", !.v = v, !.n = n, !.todo = {v}])
    /\ UNCHANGED rows

(* issue and cancel: status changes, decided on a row read earlier *)

InvoiceMayBecome(from, to) ==
    \/ from = to
    \/ from = "DRAFT" /\ to \in {"ISSUED", "CANCELED"}
    \/ from = "ISSUED" /\ to = "CANCELED"

IssueBegin(w, v) ==
    /\ Client(w, "issue")
    /\ invoice[v].status = "DRAFT"
    /\ Remember(w, [Idle EXCEPT !.op = "issue", !.v = v])
    /\ UNCHANGED rows

\* Mutated: what was paid is not looked at.
CancelInvoiceBeginUnchecked(w, v) ==
    /\ Client(w, "cancelInvoice")
    /\ invoice[v].status = "ISSUED"
    /\ Remember(w, [Idle EXCEPT !.op = "cancelInvoice", !.v = v])
    /\ UNCHANGED rows

CancelInvoiceBegin(w, v) ==
    /\ Client(w, "cancelInvoice")
    /\ invoice[v].status = "ISSUED"
    /\ summary[v].paid = 0
    /\ Remember(w, [Idle EXCEPT !.op = "cancelInvoice", !.v = v])
    /\ UNCHANGED rows

InvoiceStatusCommit(w) ==
    /\ req[w].op \in {"issue", "cancelInvoice"}
    /\ LET v == req[w].v
           to == IF req[w].op = "issue" THEN "ISSUED" ELSE "CANCELED"
       IN /\ InvoiceMayBecome(invoice[v].status, to)
          /\ Unlocked(w, v)
          /\ invoice' = [invoice EXCEPT ![v].status = to]
    /\ Finish(w)
    /\ UNCHANGED <<summary, payment, alloc, refund>>

-----------------------------------------------------------------------------
(* PaymentService.create: takes its number, then reads the open invoices    *)
(* and spreads the amount over them, oldest debt first.                     *)

Payable == {v \in Invoices : /\ invoice[v].status = "ISSUED"
                             /\ SettlementStatus(summary[v]) \in {"UNPAID", "PARTIALLY_PAID"}}

Least(a, b) == IF a < b THEN a ELSE b

\* Mutated: the newest debt first.
AllocateLifo(n) ==
    [v \in Invoices |->
       LET before == Total([u \in {x \in Payable : x > v} |-> Outstanding(summary[u])])
       IN IF v \in Payable /\ before < n THEN Least(n - before, Outstanding(summary[v])) ELSE 0]

AllocateFifo(n) ==
    [v \in Invoices |->
       LET before == Total([u \in {x \in Payable : x < v} |-> Outstanding(summary[u])])
       IN IF v \in Payable /\ before < n THEN Least(n - before, Outstanding(summary[v])) ELSE 0]

PayBegin(w, p, n) ==
    /\ Client(w, "pay")
    /\ payment[p].status = "NONE"
    /\ SequenceFree(w, "pay")
    /\ \E plan \in [Invoices -> 0..n] :
         /\ plan = AllocateFifo(n)
         /\ Remember(w, [Idle EXCEPT !.op = "pay", !.at = "writing", !.p = p, !.n = n, !.plan = plan,
                                     !.todo = {v \in Invoices : plan[v] # 0}])
    /\ UNCHANGED rows

(* PaymentService.cancel: deletes the allocations, then cancels the payment. *)

CancelPaymentBegin(w, p) ==
    /\ Client(w, "cancelPayment")
    /\ payment[p].status = "COMPLETED"
    /\ Remember(w, [Idle EXCEPT !.op = "cancelPayment", !.p = p])
    /\ UNCHANGED rows

\* Mutated: the trigger on allocations leaves out DELETE.
CancelPaymentDeleteUnsummed(w) ==
    /\ req[w].op = "cancelPayment" /\ AtStep(w, "start")
    /\ Remember(w, [req[w] EXCEPT !.at = "writing"])
    /\ UNCHANGED rows

\* deleteMany waits for allocations that another cancellation is deleting.
CancelPaymentDelete(w) ==
    /\ req[w].op = "cancelPayment" /\ AtStep(w, "start")
    /\ LET p == req[w].p IN
       /\ \A u \in Clients \ {w} : ~(req[u].op = "cancelPayment" /\ req[u].at # "start" /\ req[u].p = p)
       /\ Remember(w, [req[w] EXCEPT !.at = "writing", !.todo = {v \in Invoices : alloc[p][v] # 0}])
    /\ UNCHANGED rows

-----------------------------------------------------------------------------
(* RefundService: the amount is compared with what the invoice's row says   *)
(* was paid; the refund is then numbered and inserted.                      *)

RefundBegin(w, v, n) ==
    /\ Client(w, "refund")
    /\ n <= summary[v].paid
    /\ Remember(w, [Idle EXCEPT !.op = "refund", !.v = v, !.n = n])
    /\ UNCHANGED rows

RefundInsert(w, r) ==
    /\ req[w].op = "refund" /\ AtStep(w, "start")
    /\ SequenceFree(w, "refund")
    /\ refund[r].status = "NONE"
    /\ Remember(w, [req[w] EXCEPT !.at = "writing", !.r = r, !.todo = {req[w].v}])
    /\ UNCHANGED rows

\* Mutated: the transition table lets a completed refund be canceled.
RefundMayBeUndone(from, to) == from = to \/ (from # "CANCELED" /\ to \in {"COMPLETED", "CANCELED"})

RefundMayBecome(from, to) ==
    \/ from = to
    \/ from = "PENDING" /\ to \in {"COMPLETED", "FAILED", "CANCELED"}
    \/ from = "FAILED" /\ to \in {"PENDING", "CANCELED"}

RefundStatusBegin(w, r) ==
    \E op \in {"completeRefund", "cancelRefund"} :
        /\ Client(w, op)
        /\ refund[r].status = "PENDING"
        /\ Remember(w, [Idle EXCEPT !.op = op, !.r = r])
        /\ UNCHANGED rows

RefundTarget(op) == IF op = "completeRefund" THEN "COMPLETED" ELSE "CANCELED"

RefundUpdate(w) ==
    /\ req[w].op \in {"completeRefund", "cancelRefund"} /\ AtStep(w, "start")
    /\ LET r == req[w].r IN
       /\ \A u \in Clients \ {w} : ~(req[u].at # "start" /\ req[u].r = r)
       /\ RefundMayBecome(refund[r].status, RefundTarget(req[w].op))
       /\ Remember(w, [req[w] EXCEPT !.at = "writing", !.todo = {refund[r].invoice}])
    /\ UNCHANGED rows

-----------------------------------------------------------------------------
(* What the tables are to a transaction that has written and not committed: *)
(* the committed rows and its own.                                          *)

InvoiceSeen(w) ==
    IF req[w].op = "bill" THEN [invoice EXCEPT ![req[w].v].billed = @ + req[w].n] ELSE invoice

PaymentSeen(w) ==
    CASE req[w].op = "pay" ->
           [payment EXCEPT ![req[w].p] = [status |-> "COMPLETED", amount |-> req[w].n]]
      [] req[w].op = "cancelPayment" -> [payment EXCEPT ![req[w].p].status = "CANCELED"]
      [] OTHER -> payment

\* Mutated: a cancellation leaves the allocations where they are.
AllocSeenKept(w) == IF req[w].op = "pay" THEN [alloc EXCEPT ![req[w].p] = req[w].plan] ELSE alloc

AllocSeen(w) ==
    CASE req[w].op = "pay" -> [alloc EXCEPT ![req[w].p] = req[w].plan]
      [] req[w].op = "cancelPayment" -> [alloc EXCEPT ![req[w].p] = NothingPlaced]
      [] OTHER -> alloc

RefundSeen(w) ==
    CASE req[w].op = "refund" ->
           [refund EXCEPT ![req[w].r] = [status |-> "PENDING", invoice |-> req[w].v, amount |-> req[w].n]]
      [] req[w].op \in {"completeRefund", "cancelRefund"} ->
           [refund EXCEPT ![req[w].r].status = RefundTarget(req[w].op)]
      [] OTHER -> refund

FiguresSeen(w, v) == Figures(InvoiceSeen(w), PaymentSeen(w), AllocSeen(w), RefundSeen(w), v)

\* recalculate_invoice_financials, up to the UPDATE that has to wait for the invoice's row.
SumUp(w, v) ==
    /\ AtStep(w, "writing") /\ req[w].now = None
    /\ v \in req[w].todo
    /\ req[w].op = "pay" => \A u \in req[w].todo : v <= u
    /\ Remember(w, [req[w] EXCEPT !.now = v, !.figures[v] = FiguresSeen(w, v)])
    /\ UNCHANGED rows

\* Mutated: figures that did not change are not written, and their row is not locked.
StoreIfChanged(w) ==
    /\ AtStep(w, "writing") /\ req[w].now # None
    /\ LET v == req[w].now
           changed == req[w].figures[v] # summary[v]
       IN /\ changed => Unlocked(w, v)
          /\ Remember(w, [req[w] EXCEPT !.now = None, !.todo = @ \ {v},
                                        !.locks = IF changed THEN @ \cup {v} ELSE @])
    /\ UNCHANGED rows

\* The UPDATE.  A changed refund runs the function twice, for its new and its old row:
\* the second time it adds up with the lock in hand.
Store(w) ==
    /\ AtStep(w, "writing") /\ req[w].now # None
    /\ LET v == req[w].now
           kept == IF req[w].op \in {"completeRefund", "cancelRefund"}
                   THEN FiguresSeen(w, v) ELSE req[w].figures[v]
       IN /\ Unlocked(w, v)
          /\ kept.final >= 0
          /\ Remember(w, [req[w] EXCEPT !.now = None, !.todo = @ \ {v}, !.locks = @ \cup {v},
                                        !.figures[v] = kept])
    /\ UNCHANGED rows

\* The deferred checks: the refund cap of every invoice touched, and a payment
\* places no more than its amount.  An item alone has no such check.
Verify(w) ==
    /\ AtStep(w, "writing") /\ req[w].todo = {}
    /\ req[w].op # "bill" =>
         \A v \in req[w].locks :
             Claimed(RefundSeen(w), v) <= Placed(PaymentSeen(w), AllocSeen(w), v)
    /\ req[w].op = "pay" => Total(req[w].plan) <= req[w].n
    /\ Remember(w, [req[w] EXCEPT !.at = "verified"])
    /\ UNCHANGED rows

Commit(w) ==
    /\ AtStep(w, "verified")
    /\ invoice' = InvoiceSeen(w)
    /\ payment' = PaymentSeen(w)
    /\ alloc' = AllocSeen(w)
    /\ refund' = RefundSeen(w)
    /\ summary' = [v \in Invoices |-> IF v \in req[w].locks THEN req[w].figures[v] ELSE summary[v]]
    /\ Finish(w)

\* Rolled back: refused by a check, timed out, the victim of a deadlock, or the process died.
Abort(w) ==
    /\ req[w] # Idle
    /\ Finish(w)
    /\ UNCHANGED rows

Begin(w) ==
    \/ \E v \in Invoices :
         \/ \E n \in BillAmounts : BillBegin(w, v, n)
         \/ IssueBegin(w, v) \/ CancelInvoiceBegin(w, v)
         \/ \E n \in RefundAmounts : RefundBegin(w, v, n)
    \/ \E p \in Payments : CancelPaymentBegin(w, p) \/ \E n \in PayAmounts : PayBegin(w, p, n)
    \/ \E r \in Refunds : RefundStatusBegin(w, r)

Write(w) ==
    \/ CancelPaymentDelete(w) \/ RefundUpdate(w)
    \/ \E r \in Refunds : RefundInsert(w, r)
    \/ \E v \in Invoices : SumUp(w, v)
    \/ Store(w) \/ Verify(w)

Next ==
    \/ \E v \in Invoices : CreateInvoice(v)
    \/ \E w \in Clients : Begin(w) \/ Write(w) \/ InvoiceStatusCommit(w) \/ Commit(w) \/ Abort(w)

Spec == Init /\ [][Next]_vars
-----------------------------------------------------------------------------
Money == [status : {"NONE", "COMPLETED", "CANCELED"}, amount : Nat]
FiguresType == [final : Int, paid : Int, refunded : Int]

Request == [op : RequestKinds \cup {"idle"}, at : {"start", "writing", "verified"},
            v : Invoices \cup {None}, p : Payments \cup {None}, r : Refunds \cup {None}, n : Int,
            plan : [Invoices -> Nat], todo : SUBSET Invoices, now : Invoices \cup {None},
            figures : [Invoices -> FiguresType], locks : SUBSET Invoices]

\* Every table and every request in flight has the shape the schema gives it.
TypeOK ==
    /\ invoice \in [Invoices -> [status : {"NONE", "DRAFT", "ISSUED", "CANCELED"}, billed : Int]]
    /\ summary \in [Invoices -> FiguresType]
    /\ payment \in [Payments -> Money]
    /\ alloc \in [Payments -> [Invoices -> Nat]]
    /\ refund \in [Refunds -> [status : {"NONE", "PENDING", "COMPLETED", "CANCELED"},
                               invoice : Invoices \cup {None}, amount : Nat]]
    /\ req \in [Clients -> Request]
    /\ alone \in BOOLEAN

(* However requests overlap *)

\* What refunds claim of an invoice, paid out or not, is covered by what standing
\* payments have placed on it: a payment is not taken away from under a refund, nor
\* are two refunds granted from the same money, although every one of these requests
\* checks before it can see the other.
RefundsCovered == \A v \in Invoices : Claimed(refund, v) <= Placed(payment, alloc, v)

\* A canceled payment has nothing left on any invoice, whatever was placed, summed up
\* or canceled a second time while it was canceled.
CanceledPaymentHoldsNothing ==
    \A p \in Payments : payment[p].status # "COMPLETED" => alloc[p] = NothingPlaced

\* The accounts of Ledger, read off the rows.
Accounts == INSTANCE Ledger WITH
    Accounts <- Invoices,
    placed <- [v \in Invoices |-> Placed(payment, alloc, v)],
    claimed <- [v \in Invoices |-> Claimed(refund, v)],
    returned <- [v \in Invoices |-> Returned(refund, v)]

\* The finance module implements Ledger, however its requests overlap.
LedgerSpec == Accounts!Spec

(* As long as requests did not overlap *)

\* The figures on an invoice are those of its rows: the database keeps them up to
\* date through every kind of change.
SummaryTrue ==
    alone => \A v \in Invoices : summary[v] = Figures(invoice, payment, alloc, refund, v)

\* No more is placed on an invoice than was billed and not paid back since.
NeverOverpaid == alone => \A v \in Invoices : SettlementStatus(summary[v]) # "OVERPAID"

\* A canceled invoice has no money on it and none can come.
CanceledInvoiceHoldsNothing ==
    alone => \A v \in Invoices : invoice[v].status = "CANCELED" => Placed(payment, alloc, v) = 0

\* The oldest debt is paid first: money reaches an invoice only when nothing is left
\* to pay on those due before it.
OldestDebtFirst ==
    [][alone' => \A u, v \in Invoices :
         (u < v /\ u \in Payable /\ \E p \in Payments : alloc[p][v] < alloc'[p][v]) =>
            Outstanding(summary'[u]) = 0]_vars
=============================================================================
