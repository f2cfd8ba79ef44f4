------------------------------ MODULE Billing ------------------------------
(***************************************************************************)
(* Meter readings and the daily job that makes the monthly invoices of the *)
(* contracts in force: MeterReadingService, InvoiceGenerationCron and      *)
(* InvoiceService.createRentalMonthlyInvoice of apps/api, with the         *)
(* constraints and triggers below them.                                    *)
(*                                                                         *)
(* A contract stands for its one metered item and stays in force; a        *)
(* reading is entered for the month of its date.  The calendar is any run  *)
(* of months, day FirstDay[m] being the first of month m; month 0 is the   *)
(* one before, long enough for every billing day.                          *)
(***************************************************************************)
EXTENDS Naturals, Sequences, FiniteSets, Totals

CONSTANTS
    Contracts, Readings, Clients,
    None,
    FirstDay,    \* one entry more than there are months: the day after the last
    Free,        \* [Counters -> Nat]: the usage a month's rent covers
    MaxCount,    \* bound: what a counter shows at most
    Entered,     \* bound: the pairs of counts a reading is entered with
    Plans,       \* bound: the plans a contract starts with
    Backdating,  \* bound: how many days late a reading is entered
    MaxOverlapReadings \* bound: no more readings than this once requests and job overlapped

\* A reading may leave the color counter out.
Counters == {"black", "color"}
Counts == {n \in [Counters -> 0..MaxCount \cup {None}] : n["black"] # None}

ASSUME ConstantsAssumption ==
    /\ FirstDay \in Seq(Nat \ {0}) /\ Len(FirstDay) > 1 /\ FirstDay[1] = 1
    /\ \A m \in 1..Len(FirstDay) - 1 : FirstDay[m] < FirstDay[m + 1]
    /\ IsFiniteSet(Readings)
    /\ Free \in [Counters -> Nat] /\ MaxCount \in Nat /\ Backdating \in Nat /\ MaxOverlapReadings \in Nat
    /\ Entered \subseteq Counts
    /\ Plans \subseteq [day : Nat \ {0}, timing : {"PREPAID", "POSTPAID"}, fee : BOOLEAN]
    /\ None \notin Contracts \cup Readings \cup Nat

Months == 1..Len(FirstDay) - 1
Days == 1..FirstDay[Len(FirstDay)] - 1
Length(m) == FirstDay[m + 1] - FirstDay[m]
MonthOf(n) == CHOOSE m \in Months : FirstDay[m] <= n /\ n < FirstDay[m + 1]
DayOf(n) == n - FirstDay[MonthOf(n)] + 1

VARIABLES
    now,      \* the day
    plan,     \* [Contracts -> [day, timing, fee]]: billingDay, billingTiming, and whether
              \* its item has a monthly price
    made,     \* [Contracts -> [0..last month -> month]]: when the invoice of that
              \* billingMonth was made, 0 if it was not
    reading,  \* [Readings -> [state, on, date, count, usage, charged]], count and usage
              \* of each counter, charged: on the usage line of the invoice of which month
    job,      \* the job at work: its contracts, the one it has read up, what it read
    ran,      \* the job was started today
    req,      \* the request each client is handling, with what it has read
    missed,   \* history: a day without the job, or a contract it failed on
    alone     \* history: no request was ever in flight with another or with the job

rows == <<plan, made, reading>>
vars == <<now, rows, job, ran, req, missed, alone>>

BillingMonths == {0} \cup Months
Never == Len(FirstDay)
Zero == [k \in Counters |-> 0]
NoReading == [state |-> "NONE", on |-> None, date |-> 0, count |-> Zero, usage |-> Zero,
              charged |-> Never]
Idle == [op |-> "idle", at |-> "start", r |-> None, row |-> NoReading]
JobIdle == [todo |-> {}, on |-> None, seen |-> {}]

LiveOn(c) == {r \in Readings : reading[r].state = "LIVE" /\ reading[r].on = c}

\* What a reading leaves out counts as nothing.
Number(n) == IF n = None THEN 0 ELSE n
UsageOf(k, S) == Total([r \in S |-> Number(reading[r].usage[k])])

Init ==
    /\ now = 1
    /\ plan \in [Contracts -> Plans]
    /\ made = [c \in Contracts |-> [m \in BillingMonths |-> 0]]
    /\ reading = [r \in Readings |-> NoReading]
    /\ job = JobIdle /\ ran = FALSE
    /\ req = [w \in Clients |-> Idle]
    /\ missed = FALSE /\ alone = TRUE

Remember(w, r) ==
    /\ req' = [req EXCEPT ![w] = r]
    /\ alone' = (alone /\ job = JobIdle /\ \A u \in Clients \ {w} : req[u] = Idle)
    /\ UNCHANGED <<now, rows, job, ran, missed>>
Finish(w) == req' = [req EXCEPT ![w] = Idle] /\ UNCHANGED <<now, plan, made, job, ran, missed, alone>>

-----------------------------------------------------------------------------
(* MeterReadingService.create *)

\* The reading the usage is counted from: the latest, whatever the date of the new one.
Previous(c) ==
    IF LiveOn(c) = {} THEN NoReading
    ELSE reading[CHOOSE r \in LiveOn(c) : \A s \in LiveOn(c) : reading[s].date <= reading[r].date]

UsageSince(y, count) ==
    [k \in Counters |-> IF count[k] = None THEN None ELSE count[k] - Number(y.count[k])]
CountRises(y, count) == \A k \in Counters : count[k] # None => count[k] >= Number(y.count[k])

EnterBegin(w, c, date, count) ==
    /\ req[w] = Idle
    /\ CountRises(Previous(c), count)
    /\ Remember(w, [Idle EXCEPT !.op = "enter", !.row =
                      [state |-> "LIVE", on |-> c, date |-> date, count |-> count,
                       usage |-> UsageSince(Previous(c), count), charged |-> Never]])

\* Mutated: the trigger is gone.
AnyUsageFits(x) == TRUE

\* From reading y to reading z, for the counters both of them have.
Continues(y, z) ==
    \A k \in Counters : y.count[k] # None /\ z.count[k] # None =>
        y.count[k] <= z.count[k] /\ z.usage[k] = z.count[k] - y.count[k]

\* assert_meter_reading_sequence_integrity: against the readings committed on either side.
UsageFits(x) ==
    LET live == {reading[r] : r \in LiveOn(x.on)}
        before == {y \in live : y.date < x.date}
        after == {y \in live : y.date > x.date}
    IN /\ \A y \in before : (\A z \in before : z.date <= y.date) => Continues(y, x)
       /\ \A y \in after : (\A z \in after : z.date >= y.date) => Continues(x, y)

\* INSERT and the deferred check, up to the commit.  The index on asset and date counts
\* canceled readings too, and waits for a row just being inserted.
EnterInsert(w) ==
    /\ req[w].op = "enter" /\ req[w].at = "start"
    /\ LET x == req[w].row
           taken == {reading[r] : r \in Readings} \cup {req[u].row : u \in {v \in Clients \ {w} : req[v].at = "checked"}}
       IN /\ \A y \in taken : y.on = x.on => y.date # x.date
          /\ UsageFits(x)
    /\ Remember(w, [req[w] EXCEPT !.at = "checked"])

EnterCommit(w, r) ==
    /\ req[w].at = "checked"
    /\ reading[r] = NoReading
    /\ reading' = [reading EXCEPT ![r] = req[w].row]
    /\ Finish(w)

(* MeterReadingService.cancel *)

MayCancel(r) == reading[r].state = "LIVE" /\ reading[r].charged = Never

CancelBegin(w, r) ==
    /\ req[w] = Idle
    /\ MayCancel(r)
    /\ Remember(w, [Idle EXCEPT !.op = "cancel", !.r = r])

CancelCommit(w) ==
    /\ req[w].op = "cancel"
    /\ reading' = [reading EXCEPT ![req[w].r].state = "CANCELED"]
    /\ Finish(w)

Abort(w) == req[w] # Idle /\ Finish(w) /\ UNCHANGED reading

-----------------------------------------------------------------------------
(* InvoiceGenerationCron *)

\* Mutated: postpaid means this month.
BillingMonthPaidNow(c) == MonthOf(now)

\* calculateBillingMonth: setMonth(-1) keeps the day, which runs over into this month
\* where the month before is too short for it.
BillingMonth(c) ==
    LET m == MonthOf(now)
        tooShort == m > 1 /\ Length(m - 1) < DayOf(now)
    IN IF plan[c].timing = "POSTPAID" /\ ~tooShort THEN m - 1 ELSE m

DueToday(c) == plan[c].day = DayOf(now)

JobStart ==
    /\ ~ran /\ ran' = TRUE
    /\ job' = [JobIdle EXCEPT !.todo = {c \in Contracts : DueToday(c)}]
    /\ alone' = (alone /\ \A w \in Clients : req[w] = Idle)
    /\ UNCHANGED <<now, rows, req, missed>>

\* Mutated: readings are looked up by the contract alone.
ToChargeAny(c) == LiveOn(c)

ToCharge(c) == {r \in LiveOn(c) : MonthOf(reading[r].date) = BillingMonth(c) /\ reading[r].charged = Never}

\* Mutated: any invoice of the contract will do.
BilledBefore(c) == \E m \in BillingMonths : made[c][m] # 0

Billed(c) == made[c][BillingMonth(c)] # 0

\* An invoice for the month there is already: nothing is made.
JobSkip(c) ==
    /\ job.on = None /\ c \in job.todo
    /\ Billed(c)
    /\ job' = [job EXCEPT !.todo = @ \ {c}]
    /\ UNCHANGED <<now, rows, ran, req, missed, alone>>

JobRead(c) ==
    /\ job.on = None /\ c \in job.todo
    /\ ~Billed(c)
    /\ job' = [todo |-> job.todo \ {c}, on |-> c, seen |-> ToCharge(c)]
    /\ UNCHANGED <<now, rows, ran, req, missed, alone>>

\* Mutated: the constraint lets a fee name the contract's item instead.
AnyLinesAccepted(c) == TRUE

\* InvoiceItem_source_type_check: a RENTAL_FEE line names an item of a rental order,
\* which this service never does.
LinesAccepted(c) == ~plan[c].fee

\* createRentalMonthlyInvoice, one transaction: the invoice, its lines and the link from
\* the readings that were seen, whatever has become of them; no charge, no link.
JobWrite ==
    /\ job.on # None
    /\ LET c == job.on
           m == BillingMonth(c)
           charge == \E k \in Counters : UsageOf(k, job.seen) > Free[k]
       IN /\ LinesAccepted(c)
          /\ made[c][m] = 0
          /\ made' = [made EXCEPT ![c][m] = MonthOf(now)]
          /\ reading' = [r \in Readings |-> IF charge /\ r \in job.seen
                                            THEN [reading[r] EXCEPT !.charged = m] ELSE reading[r]]
    /\ job' = [job EXCEPT !.on = None, !.seen = {}]
    /\ UNCHANGED <<now, plan, ran, req, missed, alone>>

\* The transaction is rolled back, because of the fee or anything else: logged, and on.
JobFail ==
    /\ job.on # None
    /\ job' = [job EXCEPT !.on = None, !.seen = {}]
    /\ missed' = (missed \/ LinesAccepted(job.on))
    /\ UNCHANGED <<now, rows, ran, req, alone>>

\* The process stops: the rest of the list is lost.
JobCrash ==
    /\ job # JobIdle
    /\ job' = JobIdle
    /\ missed' = TRUE
    /\ UNCHANGED <<now, rows, ran, req, alone>>

\* Bound: the job and every request are done before midnight.
NextDay ==
    /\ job = JobIdle /\ \A w \in Clients : req[w] = Idle
    /\ now + 1 \in Days
    /\ now' = now + 1 /\ ran' = FALSE
    /\ missed' = (missed \/ ~ran)
    /\ UNCHANGED <<rows, job, req, alone>>

Enter(w) ==
    /\ alone \/ Cardinality({r \in Readings : reading[r] # NoReading}) < MaxOverlapReadings
    /\ \E c \in Contracts, back \in 0..Backdating, count \in Entered :
         now > back /\ EnterBegin(w, c, now - back, count)

Next ==
    \/ \E w \in Clients :
         \/ Enter(w) \/ EnterInsert(w) \/ CancelCommit(w) \/ Abort(w)
         \/ \E r \in Readings : EnterCommit(w, r) \/ CancelBegin(w, r)
    \/ \E c \in Contracts : JobSkip(c) \/ JobRead(c)
    \/ JobStart \/ JobWrite \/ JobFail \/ JobCrash \/ NextDay

Spec == Init /\ [][Next]_vars

-----------------------------------------------------------------------------
Row == [state : {"NONE", "LIVE", "CANCELED"}, on : Contracts \cup {None}, date : {0} \cup Days,
        count : Counts, usage : Counts, charged : BillingMonths \cup {Never}]

\* Every table, the job and every request in flight has the shape the schema gives it.
TypeOK ==
    /\ now \in Days
    /\ plan \in [Contracts -> Plans]
    /\ made \in [Contracts -> [BillingMonths -> BillingMonths]]
    /\ reading \in [Readings -> Row]
    /\ job \in [todo : SUBSET Contracts, on : Contracts \cup {None}, seen : SUBSET Readings]
    /\ req \in [Clients -> [op : {"idle", "enter", "cancel"}, at : {"start", "checked"},
                            r : Readings \cup {None}, row : Row]]
    /\ ran \in BOOLEAN /\ missed \in BOOLEAN /\ alone \in BOOLEAN

SafeDay(c) == \A m \in Months : plan[c].day <= Length(m)

\* The job has been through month m for contract c.
BillingDayOver(c, m) ==
    LET n == FirstDay[m] + plan[c].day - 1 IN n < now \/ (n = now /\ ran /\ job = JobIdle)

\* A contract billed on a day every month has is billed for the month before if it is
\* postpaid, for the month itself if it is prepaid; also late requests and failures never
\* make the job bill a month at another time.
BilledForItsMonth ==
    \A c \in Contracts, m \in BillingMonths :
        SafeDay(c) /\ made[c][m] # 0 => made[c][m] = IF plan[c].timing = "POSTPAID" THEN m + 1 ELSE m

\* As long as the job runs every day and nothing fails, such a contract has an invoice for
\* every month whose billing day is over: there is no gap and the check for an existing
\* invoice skips nothing else.
NoMonthLeftOut ==
    \A c \in Contracts, m \in Months :
        (SafeDay(c) /\ ~plan[c].fee /\ ~missed /\ BillingDayOver(c, m)) =>
            made[c][IF plan[c].timing = "POSTPAID" THEN m - 1 ELSE m] # 0

\* What the database makes of the job: no contract with a monthly price ever gets an
\* invoice, only those whose rent is all usage do.
FeesNeverBilled == \A c \in Contracts : plan[c].fee => \A m \in BillingMonths : made[c][m] = 0

\* What was charged for stays a valid reading.
ChargedReadingStands == \A r \in Readings : reading[r].charged # Never => reading[r].state = "LIVE"

\* The readings of a counter together never count more than it shows, however they were
\* backdated and canceled: always of the black one, of the color one only where every
\* reading had it, canceled ones too.  After one without it the count starts from nothing.
NoneWithout(c, k) == \A r \in Readings : reading[r].on = c => reading[r].count[k] # None
NeverOvercounted ==
    \A c \in Contracts, k \in Counters : LiveOn(c) # {} /\ NoneWithout(c, k) =>
        \E r \in LiveOn(c) : UsageOf(k, LiveOn(c)) <= reading[r].count[k]

\* Both hold as long as requests keep out of each other's and the job's way: nobody pays
\* for a reading that was taken back, nor for more than the counter counted.
ReadingsAddUp == alone => ChargedReadingStands /\ NeverOvercounted

\* A reading is charged once, on the invoice of its own month, made in the same step.
ChargedOnce ==
    [][\A r \in Readings : reading'[r].charged # reading[r].charged =>
          /\ reading[r].charged = Never
          /\ reading'[r].charged = MonthOf(reading[r].date)
          /\ made[reading[r].on][MonthOf(reading[r].date)] = 0]_vars
=============================================================================
