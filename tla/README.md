# Verification of rental-manager

TLA+ models of rental-manager (`src/apps/api`: NestJS services over PostgreSQL
through Prisma; `src/apps/web`: React over Axios), the TLC runs that check them
on small instances, and theorems about them proved with TLAPS.

## Inventory

All state lives in PostgreSQL. Services are stateless and run concurrently, one
asynchronous call per HTTP request, so requests interleave at every `await`.
They share rows, and the triggers, check constraints and unique indexes of
`prisma/migrations` are the only thing that sees what a request writes next to
what another one just wrote. Prisma's transactions run at PostgreSQL's default,
READ COMMITTED; no service locks or versions what it reads. The browser keeps
cookies that all its tabs share.

| Component | State | Operations | Correct when | Module |
|---|---|---|---|---|
| Rental contracts (`order/rental-contract`) | contract (DRAFT, ACTIVE, ENDED, CANCELED), items (PENDING, ACTIVE, RETURNED, REPLACED, CANCELED) | create, update, extend, updateStatus, add/remove/replace/return item | one tenant per asset; assets RENTED exactly while held; a closed contract holds nothing | RentalContracts |
| Contract expiry job (`order/cron`) | none | nightly: ends each contract past its end date | an expired contract ends | RentalContracts |
| Assets (`product/asset`) | status, deletedAt, last event | register, changeStatus, softDelete | status follows custody; every change has its event | RentalContracts, AfterService, Orders |
| Database guards (`prisma/migrations`) | figures of an invoice | triggers, constraints, indexes, foreign keys | no illegal row, whatever was read before | the module of each table |
| Invoices, payments, refunds (`finance`) | status, lines, allocations, settlement figures | create, bill, issue, cancel, pay, refund, complete | figures = what the rows sum up to; nothing refunded that was not paid | Settlement, Ledger |
| Document numbers | counter per day | draw | unique: the counter's row lock | its lock, in Settlement |
| Quotations, expiry job (`order/quotation`) | status, converted order | edit, send, convert, expire, remove | converted at most once | Orders |
| Orders, sale and rental lines (`order`) | status, lines | create, updateStatus, remove, add/update/remove line | delivery sells and bills the lines, once | Orders |
| Invoice job (`finance/cron`), meter readings | invoices made, readings and their charge | daily run; enter, cancel | each month and each reading billed once | Billing |
| Service requests and visits (`after-service`) | statuses, fees, inspection dates | create, status, delete; add, complete, cancel visit | a request follows its visits; work done is billed once | AfterService |
| Maintenance schedules | active flag, inspection dates | create, update, deactivate | follows visits and contract | RentalContracts, AfterService |
| Sessions (`auth`, `web/lib/api.ts`) | refresh tokens, cookies, waiting calls | sign in, refresh, sign out | nobody signed out, or in, by accident | Sessions |
| Accounts, social identities, one-time tokens (`auth`) | account, password, identities, tokens | register, sign in, link, unlink, merge, reset, verify | nobody loses the way in; an old password opens nothing; a token works once | Accounts |
| Organizations, members, invitations (`organization`) | member's role and active flag; invitation's answer | found, invite, resend, cancel, accept, decline, update, deactivate | nobody becomes a member uninvited; one open invitation per email | Accounts |
| Pages of `apps/web` | what a page shows | buttons | offer what the service accepts | Orders, AfterService |
| Tax invoices; deposit accounts; customers, products, audit; mail | rows of their own | create, update | | not modelled |

Interaction: contracts write asset rows and end schedules; a completed service
visit and a delivered sale write asset rows too and make invoices; a canceled
order cancels its DRAFT contract by trigger; a quotation becomes an order; the
nightly jobs call the services staff call; every call goes through a session. The
hard part is the same everywhere: a service reads, decides, and writes later.
`PROJECT.json` lists the hazards line by line.

## Modules

### RentalContracts

| Variable | Code |
|---|---|
| `contract`, `expired`, `autoExpire` | `RentalContract.status`; `endDate` lies before today's start in KST; the flag |
| `scheduled` | the contract has an active `MaintenanceSchedule` |
| `orderCanceled` | `Order.status = CANCELED` for the order of the contract |
| `item` | `RentalContractItem`: status, contract, asset. "DELETED" is a deleted row, kept because requests in flight remember what they read of it |
| `asset`, `deleted` | `Asset.status`, `Asset.deletedAt` |
| `req` | what each request in flight is doing and what it has read |
| `todo` | what is left of the job's list |

A request is a read step (`ActivateBegin`: the checks and early returns of the
service, what it read kept in `req[w]`) and a write step (`ActivateCommit`: the
transaction). Methods that read several rows one after the other have a step
per read (`ReplaceBegin`, `ReplaceCheckItem`, `ReplaceCheckAsset`), methods
without a transaction likewise. A write step is atomic: each statement of
the transaction names its row by primary key, keeps its lock to the end and is
checked against the row as it is now, by `AssetMayBecome`, `ContractMayBecome`,
`ItemMayBecome` and `NoOtherActive`, the translations of the triggers and of the
index; if one refuses, all is rolled back (`Abort`). One transaction is split:
the `updateMany` of a cancellation selects its rows by status, so
`CancelScan` (assets returned and locked, rows chosen) and `CancelCommit` (the
rest) are two steps and rows written in between are seen as READ COMMITTED
shows them. `Abort` is any failure: a rejected check, a timeout, a deadlock
victim. `Crash` loses every request in flight and the running job.

The other writers of asset rows do what `SetStatusCommit` does: a completed
service visit calls `AssetService.changeStatus`; a delivered sale sets SOLD.

Abstractions: dates become "the end date has passed"; prices, billing terms,
contract numbers, notes, asset events and audit rows decide nothing here.
`updateItem` is left out (its DTO has no field the model keeps). The override
setting of the triggers is an operator's tool no service uses. Rows of another
organization are never addressed: every key carries the organization.

`Overlap` separates the two questions worth asking. "any" is the deployed
system. "perContract" keeps requests for one contract apart (one clerk at a
time works on a contract) while requests for other contracts compete for the
same assets: the consistency the services aim at holds there, and only there.

### AssetCustody

The promise behind the item table, without requests or statuses: an asset is
with at most one item, passes to another only after coming back, and an item's
term is never resumed. `RentalContracts` maps to it with `holder` (the ACTIVE
item naming the asset) and `spent` (items whose term is over or will never be).

### Settlement and Ledger

`Settlement` is the finance module with the triggers below it: `invoice`
(status, what its items and adjustments come to), `summary` (finalAmount,
paidAmount, refundedAmount; the other two figures are functions of them),
`payment`, `alloc` (PaymentAllocation), `refund`, `req`. Here a write
transaction is many steps, because the order of its statements is the question:
each row it writes makes `recalculate_invoice_financials` add up what the
transaction can see (`SumUp`), wait for the invoice's row, write it and keep it
locked (`Store`); the deferred constraint triggers follow (`Verify`), then
`Commit`. Between any two of them others may commit. `PaymentSeen`,
`AllocSeen`, `RefundSeen` are the tables as the transaction sees them: committed
rows and its own.

Left out: refunds that name a payment only, due dates, memos, tax invoices. One
customer, one day (so one row numbers all payments, `SequenceFree`). A
transaction a crash cuts off is `Abort`.

`Ledger` is what this promises of money without rows or transactions: an
invoice has money placed on it, claimed by refunds, returned; claims are covered
by what is placed, money returned stays returned. `Settlement` maps to it by
adding up its rows (`Accounts == INSTANCE Ledger WITH ...`).

### Orders

`quotation`, `order`, `line`, `asset` and `invoice`: of each order, the invoice
whose `saleOrderId` it is (one at most, by a unique index), who made it, and the
lines its items name. Read step and write step as in RentalContracts. A delivery is
one transaction working on lines read before it: status, equipment, invoice
(`DeliverSale`); what the constraints refuse there undoes it. Staff can make an
invoice for any order by hand too (`CreateInvoice`: `InvoiceService.create` looks at
neither the order's status nor its lines), give it items that name lines of any order, and issue
it (`AddItem`, `RemoveItem`, `IssueInvoice`). `RentOrReturn` is what a contract
does to the equipment meanwhile.

`QuotationPage` and `OrderPage` are the pages' buttons, which work from copies
of the services' tables; `MayXxx` are the checks of the services. What the
database turns down after a check has passed is in the write steps, and the pages do not know it
(findings 9 and 14). Prices are left out; roles, which hide the delete button from
staff, too; and the items of invoices that name no order.

### Billing

`now`, `plan` (billing day, prepaid or postpaid, whether the item has a monthly
price), `made` (which month's invoice was made in which), `reading`, `job`. The
calendar is a run of months of any lengths (`FirstDay`), so the arithmetic of
`calculateBillingMonth`, which overflows into the same month after a short one,
is a matter of a few days. A contract stands for its one metered item and stays
in force. The job is a loop of read and write steps with failures (`JobFail`)
and restarts (`JobCrash`); entering a reading is checked by the meter trigger
(`UsageFits`) against committed readings. A meter has two counters: the black one, which
every reading has, and the color one, which a reading may leave out (`None`). The
usage of a counter is counted from the reading before, from 0 if that one left it out
(`UsageSince`), and the trigger compares counters that both readings have
(`Continues`). Requests and the job are done before midnight, and a reading's month
is that of its date.

Left out: staff can change the `billingMonth` of a DRAFT by hand (`update`,
`invoice.service.ts:136-156`), after which the job would make another invoice for the
month the draft was for. Invoices made by hand are not found by the job, which looks for
RENTAL_MONTHLY, a type `create` refuses.

### AfterService

`inquiry` (a ServiceRequest), `visit`, `fees`, `inspection`, `asset`, `event`.
Completing a visit is a transaction of three steps: the visit updated and its
row locked; the invoice and the schedule written, the schedule's row locked,
and the other open visits counted; the end. The equipment's status is read and
written after it, by another transaction. What the caller chose is chosen
where it takes effect. `PageMoves` is the page's status menu.

Left out: `ServiceVisitService.update` (staff, date, memo); the arithmetic of
the next inspection date (the model keeps which visit set it).

### Sessions

One browser tab in full (`page`, `call`, `refresh`: the interceptor's
`isRefreshing`, its queue, `_retry`), the cookies it shares with others and the
rows of RefreshToken. The other tabs run the same code; here they are what they
do to cookies and tokens, at any moment (`OthersXxx`). Any answer may be lost
(`Lose`, `RefreshFailed`), a page reloaded (`Load`), a token lapse
(`AccessLapses`). A refresh is read, rotated and answered in separate steps, so
that a sign-out, another tab or a revocation can come between; a sign-out likewise is
handled by the API (`HandleLogout`: the session revoked), and clears the cookies when
its answer arrives (`LogoutAnswered`), which may never happen.

### Accounts

| Variable | Code |
|---|---|
| `account` | `Account`: state, email, which password (a number; 0 for none). A merged one has no email: its placeholder is nobody's |
| `identity` | `AccountIdentity`: whose each provider's user is |
| `live` | sessions not revoked, each as the account and the password it was opened under. Their rows are in Sessions |
| `mail` | `VerificationToken`, with `spent`: how often it had its effect |
| `mergeable` | merge tokens (JWTs) not lapsed |
| `member` | `OrganizationMember` |
| `invitation` | `OrganizationInvitation`, with `joined`: how often it made a member |
| `req` | the requests under way and what each has read |
| `load`, `orderly` | the kinds of request of this behaviour; whether requests came one after another so far |

Read step and write step as elsewhere; what takes one statement or one
transaction is one step (`Once`). The answer of a provider, the right password
and the token in a link are chosen; a wrong one never begins. A password is known
by its number, one more each time, since none of the last five is accepted. `send`
deletes the old invitations and makes the new one in two statements (`Clear`,
`Create`). `PasswordCommit` and `MarkUsed` are two transactions, and `Stop` may
come between them.

The services do nothing against overlaps here but for three unique indexes (email,
provider's user, a user's row in an organization), the foreign keys, and the
update by primary key that fails on a row deleted meanwhile. So `orderly`
separates what holds however requests overlap (InvitedOnly) from the rest.

`Workloads` is a bound: a behaviour mixes the kinds of request of one of nine sets, each
about one question (unlinking and merging, passwords and tokens, invitations...),
and its requests overlap in two of them. The theorems know no such bound.

`MCAccess` runs Sessions and Accounts in one run. They share no variable: Accounts
says whose a session is and what ends it, Sessions what a browser does with one
(any session may end at any moment there, `SessionsEnd`). A behaviour moves one of
the two.

### Totals

`Total(f)` adds up a column over any rows: `SUM` in the triggers, `reduce` in
the services. Settlement and Billing add up with it, and `Totals_proofs` has the
facts about it that the proofs need.

### MC modules, proofs

`MCXxx` gives the request sets, definitions of structured constants and the
symmetry of an instance. `Xxx_proofs` has the theorems about `Xxx`.

The history variables `alone`, `overlap`, `hand`, `calm`, `missed`, `orderly` remember
whether requests have met so far, and how; no action's effect depends on them. They
separate, within one run, what holds however requests overlap from what holds
only as long as they do not. A bound reads them too: instances are smaller once
requests have overlapped (`MaxOverlapInvoices`, `MaxOverlapOrders`,
`MaxOverlapReadings`, `MaxOverlapping`).

Definitions commented "Mutated" are deliberate faults, unused by the
specification. Put in place of the definition that follows, each makes TLC
report the property `PROJECT.json` names with it: the property can fail.

## Runs

| Run | Instance | Checks | Shows |
|---|---|---|---|
| IsolatedContracts | 2 contracts, 4 items, 2 assets, 2 clients, one request at a time per contract | TypeOK, RentedIffHeld, ClosedContractHoldsNothing, NothingPendingAfterActivation, ActiveContractWasDelivered | contracts, items and assets agree although requests of two contracts fight for the assets, crash and are canceled by trigger; 216,852 states |
| OverlappingRequests | 2 contracts, 3 items, 2 assets, 2 clients, any overlap | NothingRentedBeforeActivation, OneActiveItemPerAsset, HandedOverOnlyInForce, CustodySpec | what the database guards save when requests for one contract overlap; 259,703 states |
| ExpiryLiveness | 1 contract, 2 items, 2 assets, 1 client and the job, statuses AVAILABLE and LOST set by hand | ExpiredContractEnds | an expired contract ends, under `LiveSpec`; 264,841 states |
| ExpiryStuck | 1 contract, 1 item, 1 asset, 1 client and the job, DISPOSED set by hand | ExpiredContractEnds | violated: see findings |
| CanceledOrderActivated | 1 contract, 1 client | CanceledOrderNeverInForce | violated |
| DeletedRentedAsset | 1 contract, 1 client | RentedAssetNotDeleted | violated |
| ClosedWithActiveItem | 1 contract, 2 clients, any overlap | ClosedContractHoldsNothing | violated |
| Settlement | 2 invoices, 2 payments of 2, 2 refunds of 1, 2 clients | RefundsCovered, CanceledPaymentHoldsNothing, LedgerSpec however requests overlap; SummaryTrue, NeverOverpaid, CanceledInvoiceHoldsNothing, OldestDebtFirst as long as they do not | money is never promised twice; the figures are kept by every kind of change; 195,885 states |
| Orders | 1 quotation, 2 orders, 2 lines, 1 asset, 2 clients | SalesAddUp however requests overlap; DeliveredAsBilled, ConvertedOnce as long as they do not; ButtonsMatchChecks | a sale is delivered exactly when its delivery invoiced it, also beside invoices made by hand; pages and services' checks agree; 2,269,086 states |
| Billing | 1 contract with one of 4 plans, months of 1, 2 and 2 days, 3 readings of 3 pairs of counts, 1 client and the job | BilledForItsMonth, NoMonthLeftOut, ChargedOnce, FeesNeverBilled, ReadingsAddUp | each month and reading once, each counter as far as it shows; and that monthly fees are never billed (findings); 4,129,150 states |
| AfterService | 1 request, 2 visits, 1 schedule, 1 asset, 2 clients | ClosedForGood, PaidForWorkDone, EveryChangeIsRecorded however operations overlap; FeeBilledOnce, RequestFollowsVisits as long as they do not (the latter also for completions of a maintenance request) | a closed visit or request stays closed, and only work done is billed; 986,170 states |
| Access | 1 call and the start-up and sign-out calls of a tab, 3 tokens; beside them 2 accounts, 3 identities of 2 providers, 1 organization, 2 members, 2 invitations, 1 one-time token, 2 clients | NobodyForgotten, EveryCallSettles, SignOutStands, always; StaysSignedIn in peace; NobodyLockedOut, SessionsFollowPassword, OnceOnly, OneOpenInvitation as long as requests do not overlap; InvitedOnly however they do | no call waits for ever and nobody is signed in or out by accident; who may sign in, and who belongs to an organization, stays right; 695,677 states |

Deadlock is not checked: when ids, the days of the calendar or the kinds of request of a
behaviour are used up the system may stop. The type invariants of the modules are proved
(`TypeCorrect` of each); IsolatedContracts also runs its own.

Bounds. Two contracts and two assets are what a conflict needs: one asset
wanted twice and one to replace it with. Four items give each of two contracts two; with three,
one contract can still hold, replace and reopen the other's asset. Two clients
make any pair of requests meet, at every pair of their steps; the job is a
third worker where it is the question (`Expirable`). Each item id is used once. Contracts, items, assets and
clients are interchangeable, so the safety runs use symmetry; the liveness run
does not. Returning an item is left out of `OverlapRequests` (its write step is
a part of `EndCommit`) and is checked in the other two passing runs.

Two invoices, payments and refunds are what it takes to place money twice,
refund it twice and pull it from under a refund; amounts 2 and 1 let a payment
fill an invoice and a refund take half of it. After an overlap one invoice is
enough: two payments, refunds or cancellations meet on it. One quotation and
two orders: converted twice, or sold twice. `Mixed = FALSE`: in one behaviour there are either
quotations or invoices made by hand, which meet in an order only, whose origin no action on invoices
looks at. Three months, the first shorter than the billing day may be, so that in the
second the job bills the second month too early and in the third finds that
month billed already and skips it (`JobSkip`); three readings: one backdated between two others, or one without the color
counter between two with it (`Entered`: both counters 0, both 1, or black 1 and no color).
`Plans`: paid before and after, on a day every month has and on one not every month has, with and without a monthly
price; nothing is free of charge (`Free`), so that every usage is charged. Two
visits count each other; one asset takes both their statuses. Three refresh
tokens are the cookie's, the one being granted and one another tab was granted;
a token nobody holds any more is used again, so the bound hides nothing. Two
accounts merge, or want one email; two identities of one provider cannot be linked
to one account, two of different providers can; two invitations are the one sent before and the one
sent again; two passwords are an old one and a new one.

Fairness (`Fairness`). The scheduler starts the job daily (WF `CronStart`).
Its loop catches every error and goes on, and a request ends by its answer or by
`lock_timeout`, `deadlock_timeout` (`docker/postgres/config/postgresql.conf`)
or Prisma's transaction timeout (WF `Commit \/ Abort`). Strong fairness of
`CronTake` and of the job's `EndCommit`: the process is not restarted, nor the
transaction struck by a passing error, every single day at the same point. It is only
asked of a step the database would let through: a contract whose asset is
DISPOSED gets nothing from it, which is what ExpiryStuck shows. Strong fairness
of `CancelCommit`: a cancellation holding row locks is not aborted for ever
when sent again. Nothing is assumed of staff beyond that.

In Sessions (`Fairness`) every call and every refresh is answered or fails in
the end: the browser gives up on a connection at the latest, there being no
timeout in the code. EveryCallSettles assumes nobody reloads, signs in or asks for more for ever,
because a new call that starts a refresh of its own can put a waiting one back
into the queue any number of times.

## Findings

1. **An expired contract can stay in force for good** (ExpiryStuck). The asset
   of an ACTIVE contract may be set to DISPOSED; then ending, canceling or
   returning, which set it AVAILABLE, are refused by the trigger. The job's
   comment (`rental-contract-expiry.cron.ts:16`) says it ends what expired.
2. **The contract of a canceled order can be activated**
   (CanceledOrderActivated). The trigger of migration `20260616116000` exists
   to prevent it, for contracts that exist by then; `create` does not look at
   the order's status.
3. **A deleted asset can be rented** (DeletedRentedAsset). `softDelete` refuses
   RENTED assets, activation does not look at `deletedAt`.
4. **A canceled contract can hold an asset** (ClosedWithActiveItem). The
   `updateMany` "모든 비완료 아이템" (`rental-contract.service.ts:320`) cannot see an item that is
   committed after it ran, and nothing rejects that item.

Shown by passing runs, or left in the models as behaviour no property forbids:

5. **No contract with a monthly price gets its monthly invoice**
   (FeesNeverBilled in Billing). `createRentalMonthlyInvoice` writes RENTAL_FEE
   lines that name the contract's item only (`invoice.service.ts:318-331`,
   `340-353`); `InvoiceItem_source_type_check` (`20260616113000:8`) wants the
   order's item. The transaction is rolled back and the job logs a failure.
6. **An organization call cannot recover from an expired access token.**
   `refreshSession` issues a token without an organization and the interceptor
   does not switch back: the call is sent again with it, gets another 401 and
   fails, until the page is loaded again (`Refreshed`, `Accepted`).
7. Two tabs that refresh with one token, and a refresh whose answer is lost, end every session of
   the account at the next refresh (`ReadToken`); a failed refresh in one tab takes the marker of
   a session another tab has just renewed. Both excluded by `calm`, both in the model. A refresh
   that has read its token when a sign-out is handled signs the browser in again
   (`rotate` writes by the row's id, whatever has become of it): SignOutStands is about sign-outs
   that come before that.
8. Settlement figures go stale when two transactions touch one invoice at once
   (`SumUp` before the lock); the comment at `payment.service.ts:100` relies on
   them. A fully refunded invoice can never be canceled: paidAmount never falls
   (`invoice.service.ts:193`).
9. A quotation with items can never be deleted, although the page offers it:
   the items' foreign key restricts it. Nor can a REGISTERED order that was made
   from a quotation. The same equipment can be on two delivered sales. A stale request can change the
   status of a converted quotation, delete a confirmed order, or change the
   lines of a delivered one.
10. The monthly invoice has no period, and an invoice without one cannot be
    issued (`20260616108000:61-67`). A billing day that a month does not have is
    left out that month; after a short month a postpaid contract billed on a
    late day is billed for the wrong month; a day the job did not run is not
    made up for.
11. Completing one visit twice at once makes two invoices; two visits finished at
    once leave their request SCHEDULED with nothing open, unless a maintenance schedule
    makes them wait for each other. A visit added while the last one is
    canceled is left open under a RECEIVED request and cannot be completed. The
    form's "no change" of the equipment's status is AVAILABLE on the server
    (`service-visit.service.ts:101`).
12. Two unlinks at once leave an account without a password and without an identity
    (`social-auth.service.ts:177`): nobody can sign in to it again. A refresh that overlaps
    a new password or a merge leaves a session behind that neither ended
    (`email-auth.service.ts:150`). A reset token not yet used stays good after the
    password was changed another way, and after a failure of `markUsed`.
13. An invitation that was declined can still be accepted by its link (`getByToken` does not look at
    `declinedAt`). Merging the account of an OWNER into that of a fellow member leaves
    the OWNER's row with the merged account: the organization can be left with no
    member who may manage it. An account can be merged into one that was itself merged
    meanwhile.
14. **An invoice made by hand blocks its order.** `InvoiceService.create`
    (`invoice.service.ts:50-81`) takes the `saleOrderId` of any order, whatever its status. From then
    on the unique index (`20260616095000:230`) refuses the order's delivery, which makes
    an invoice of its own, and the foreign key its deletion. `cancel` refuses too and says to cancel the
    order ("판매 주문을 취소하세요", `invoice.service.ts:192`), but canceling the order
    leaves the invoice as it is, issued or not, with whatever lines staff gave it.
15. **A color counter left out once is counted again from 0.** The usage is counted from
    `prev?.colorCount ?? 0` (`meter-reading.service.ts:29`) and the trigger skips the
    check when either side is NULL (`20260624133000:27,57`): color readings of 100, none and 120
    add up to 220 on a counter that shows 120. ReadingsAddUp therefore speaks of the color
    counter where no reading left it out.

## Proofs

Every theorem holds for every value of the constants, from the module's
`ConstantsAssumption`: any number of rows, of concurrent requests, of days
and tabs, and any overlap. The last four about RentalContracts assume more,
each says what. `PROJECT.json` lists them with the property each
states. `TypeCorrect` of each module says that TypeOK is inductive; TypeOK
stands as the first conjunct in what follows.

**RentalContracts.**
- `OneTenant`: OneActiveItemPerAsset is inductive given TypeOK. Only
  `ActivateCommit` and `ReplaceCommit` make an item ACTIVE, and both
  pass the index.
- `NothingRentedFirst`: NothingRentedBeforeActivation is not inductive, because
  a replacement or a return in flight writes on the word of an old read. The
  strengthening `UnderContract` says that such a request is about a contract
  that has been activated; that stays true because statuses only move forward
  (`ContractsMoveForward`).
- `HandedOverUnderContract`: the only step from PENDING to ACTIVE is
  `ActivateCommit`, whose items belong to the contract of the request
  (from `UnderContract`) and whose last statement passes the contract trigger.
- `CustodyRefined`: every step maps to a step or stutter of AssetCustody, with
  OneActiveItemPerAsset on both sides of the step (so `holder` is the one
  ACTIVE item: `HolderIs`), `ItemStatusMoves` (what an item's status may do
  in a step) and `FreshTerm` (an item that becomes ACTIVE was neither spent nor
  holding).

**RentalContracts, requests for one contract one after another** (with
`Overlap = "perContract"`, and for
`RentedExactlyWhenHeld` also `ManualTargets = {}`; RentalContracts itself keeps
neither, see the findings and the violation runs).
- What a request has read of its contract is still so when it writes
  (`StillHolds`): no two requests are about one contract (`Apart`), a request
  writes rows of its own contract only (`WritesApart`), and the one writer that is no
  request, the cancellation of an order, waits for the contract to be free.
- Hence `Whole`, the three facts about a contract and its items at once:
  `ClosedHoldsNothing`, `NothingLeftPending` and `InForceWasDelivered` read them
  off. That a DRAFT has no delivered item is part of it: the order's cancellation
  closes a DRAFT and leaves its items alone.
- `RentedExactlyWhenHeld`: assets are shared by contracts, so `StillHolds` says
  nothing about them. Whoever frees an asset returns the item that held it, and
  by OneActiveItemPerAsset it was the only one (`FreedAreFree`).

**Totals.** `Total` is a fold, a recursive function on the sets of rows. That
there is such a function at all (`FoldExists`), and what its values are, is shown by a least
counterexample by size (`LeastNumber`, `SubsetsBySize`), the library's induction
theorems being out of the provers' reach. Hence the assumption that there are finitely many
invoices, payments, refunds and readings; of visits it is assumed because a completion counts them.
The fold takes its rows in an order of its own. That the order does not matter, that any
row may be added last (`FoldAnyElement`), is shown along the sizes of sets as well; from it follow what one
changed row (`TotalOneChanged`), one row more (`TotalAdded`), fewer rows
(`TotalOfFewer`) and a part of them (`TotalOfPart`) do to the total.

**Settlement.**
- `RefundsStayCovered`: RefundsCovered is not inductive. A transaction that was
  checked commits later, and others commit in between. `Covering` adds what
  makes this safe: the rows of invoices a transaction writes to are still to be
  locked or locked (`Reaching`), locks are exclusive and each id is
  handled once (`Apart`), and once checked, what the transaction sees is covered
  on every invoice it has locked (`Checked`). Who commits changes sums of
  invoices it holds only; for these, what it sees is what there will be.
- `LedgerImplemented`: with the same invariant, a commit is a step of Ledger.
  It needs that a commit neither takes back more than it found unclaimed
  nor moves a refund that has reached its end.
- `CanceledPaymentsAreEmpty`: a cancellation commits with its allocations gone,
  and no payment is filled twice.
- `Orderly`, inductive next to `Covering`, is about transactions that do not overlap. The only
  request under way is alone (`Sole`), what it read at its beginning still holds
  (`Grounded`: the draft it corrects, the empty invoice it cancels, the plan of a payment,
  which fills the oldest debts first), and the figures it has stored or just added up are those of
  the rows it sees (`Current`). The checks come when no row is left to write, so each
  commit leaves true figures (`FiguresTrue`), no more placed than billed
  (`WithinBilled`) and only ISSUED invoices paid on (`OnlyIssuedHold`).
  `SummariesAreTrue`, `NoneOverpaid` and `CanceledInvoicesAreEmpty` read their
  property off. `OldestDebtsFirst` compares the plan with the figures before and
  after the commit (`CommitPaysOldest`): a debt that the plan fills is empty afterwards.

**Orders.** SalesAddUp needs to know whose an invoice is: that of an order not delivered was
made by staff and stays so, since the unique index lets a delivery through only
where there is none, and what a request writes to an invoice, however old what it
read, goes to a row staff made (`ByHand`, `Made`). With the two halves of SalesAddUp and
the kind an order was read with, which stays its kind, this is `Sound`, and
gives `EverySaleAddsUp` for any overlap. `Fresh` adds what a lone request may rely on,
that it is alone (`Sole`) and what it read is still so (`ReadsHold`), and that the invoice of a
delivered sale lists its lines (`Matches`); hence
`InvoicesMatchOrders` and `OneOrderPerQuotation`. `ButtonsAreChecked` follows from the
statuses the tables can have, on which the pages' copies of the transition tables and
the services' agree (`SameMoves`).

**Billing.** The calendar lemmas come first: each day is in one month
(`MonthOfDay`), and where each month has the billing day, the day falls in every
month once and `calculateBillingMonth` gives the month before (`SafeBilling`,
`BillingDay`). The invariant `Invoicing` is about the run of the day: the job
works on contracts due today (`DueNow`), each of which is to come, at work or
billed (`Underway`), and all earlier billing days are settled
(`PastBilled`). `ReadingsAreChargedOnce` needs that what the job has
read up stays as it was (`Found`): clients can cancel such a reading, but neither
move it nor reuse its row. `MetersAddUp`: that the usages of a counter come to
no more than its last count is not inductive, since the last reading may be taken
back. `InLine` says it up to each reading, and that no reading is less than one of an
earlier date. A reading that goes in between the others counts nothing, because it is
counted from the last one (`LineFits`, `LinePlaced`); one that is taken back leaves less
(`LineOfFewer`). All this is about one counter at a time, as a table of counts and usages
(`CounterTable`) in which no row is missing (`Complete`): the black one, and the color one for as long
as no reading leaves it out. `AddingUp` adds that nothing comes between what a request or the job
reads and what it writes.

**AfterService.** `Sound` says what the row locks of the two first steps of a
completion are good for: no two transactions hold one visit (`Exclusive`), and a
visit that is held does not close the other way (`Held`). From it
`NothingReopens` and `OnlyWorkDoneIsBilled`, for any overlap. `Calm` (a lone
operation still finds what it read) gives `OneFeePerVisit` and the second half of
`ChangesAreRecorded`. `RequestsFollowVisits` is about more than lone operations:
visits of one maintenance schedule may be completed at once. `Following` says why it holds. Who has
counted the open visits holds the row of the schedule, so of one schedule there
is one (`Turns`) and its count is still exact when it sets the request (`InTouch`);
a request that staff have not set stands where its visits are (`Tracks`), and never where
it would refuse to be completed (`Finishable`).

**Sessions.** `NobodyIsForgotten`: NobodyForgotten alone is not inductive, because a
page that starts, or a sign-in, sends a call that would take the place of one still waiting;
`Waited` adds that there is none (`StartOver`). `Kept` adds what holds in peace: the
refresh under way, one at a time in all tabs, asks about the token the browser
keeps, and the token granted for it is good until the answer arrives (`Peace`); a
sign-out sent again is not turned down (`SentAgain`), so no refresh follows it. From it
`NobodySignedOut`. `SignedOutForGood` needs no peace, only the shape: when the sign-out is handled the
browser's token is no longer good and nothing under way has read it (`SignOutEnds`); a token
that is not good is refused, none becomes good again (`NoneRevived`), and no answer but that of
a refresh that was granted brings another (`EndedStands`).

**Accounts.**
- `MembersAreInvited`: a request keeps what the invitation said when it was read
  (`Named`), an invitation keeps what it says and is not made again once gone
  (`Kept`), and the membership is written with the update that finds it there: whatever came
  between, it is the invitation of that organization and role. Together with the
  shape this is `Typed`, inductive for any overlap.
- `Calm`: while requests come one after another, the one under way finds what it
  has read (`Relies`); every other is at rest (`Sole`). With it `Peace`, eight facts at
  once, because they need each other: a new password is safe because who gets a token has an
  email (`SpentOnce`, `WithMail`), an unlink because of what it counted, and a token
  whose effect is done is not found again because the only request is the one about to mark it
  (`Marking`). Each kind of step has a lemma (`SignUpPeace`, `MergePeace`, ...), and
  `SessionsDieWithPassword`, `TokensWorkOnce`, `NobodyIsLockedOut` and `OneInvitationOpen`
  read their property off.

Only model-checked: liveness (ExpiredContractEnds, EveryCallSettles), which is
out of the prover's reach. Every other property of the passing runs is stated by a
theorem. Where a theorem speaks of requests that do not overlap, or of peace, the
assumption is the property's own (`alone`, `overlap`, `calm`); findings 7, 8, 9, 11 and 12 say
what becomes of it otherwise.

## Not modelled

Tax invoices, deposit accounts, customers and assignments: rows of their own with one check or
one unique index each, nothing else depends on them. (The single default deposit account and the
single primary assignment are partial unique indexes, `20260630000000:25` and `20260615190000:219`:
of two requests at once the second is refused.) An organization's profile and the lookup
of business numbers, an external service. Products, audit log, mail:
master data, append-only rows and I/O. Two thirds of the repository are the
screens of `apps/web`, forms and tables whose only rules are the ones modelled
with their services; a model of them would restate markup.

## Plan

Worth adding next: refunds that name a payment only; tax invoices beside the
invoice they belong to; assets shared between RentalContracts, Orders and
AfterService in one composed model.
Theorems worth adding: what still holds of Settlement and Billing when only
some kinds of requests overlap.
