---------------------------- MODULE Billing_proofs ----------------------------
(***************************************************************************)
(* Theorems about Billing, for any calendar, any contracts and meters, and *)
(* any number of requests in flight.                                       *)
(***************************************************************************)
EXTENDS Billing, Totals_proofs

-----------------------------------------------------------------------------
(* The calendar. *)

LEMMA Calendar ==
    /\ Len(FirstDay) \in Nat /\ Len(FirstDay) > 1 /\ FirstDay[1] = 1
    /\ \A m \in 1..Len(FirstDay) : FirstDay[m] \in Nat \ {0}
    /\ \A m \in Months : /\ m \in Nat \ {0} /\ m \in 1..Len(FirstDay) /\ m + 1 \in 1..Len(FirstDay)
                         /\ FirstDay[m] < FirstDay[m + 1]
    /\ 0 \in BillingMonths /\ Months \subseteq BillingMonths
    /\ \A m \in Months : m - 1 \in BillingMonths
<1>1. FirstDay \in Seq(Nat \ {0}) /\ Len(FirstDay) > 1 /\ FirstDay[1] = 1
      /\ \A m \in 1..Len(FirstDay) - 1 : FirstDay[m] < FirstDay[m + 1]
  BY ConstantsAssumption DEF ConstantsAssumption
<1>2. Len(FirstDay) \in Nat /\ \A m \in 1..Len(FirstDay) : FirstDay[m] \in Nat \ {0}
  BY <1>1
<1>. QED BY <1>1, <1>2 DEF Months, BillingMonths

\* Later months begin later.
LEMMA Rising ==
    ASSUME NEW i \in 1..Len(FirstDay), NEW j \in 1..Len(FirstDay), i < j
    PROVE  FirstDay[i] < FirstDay[j]
<1> SUFFICES ASSUME ~(FirstDay[i] < FirstDay[j]) PROVE FALSE
  OBVIOUS
<1> DEFINE T == {k \in 1..Len(FirstDay) : i < k /\ ~(FirstDay[i] < FirstDay[k])}
<1>1. T \in SUBSET Nat /\ T # {}
  BY Calendar
<1>2. PICK k \in T : \A m \in T : ~(m < k)
  BY <1>1, LeastNumber
<1>3. k \in Nat /\ i \in Nat /\ i < k /\ k - 1 \in 1..Len(FirstDay) /\ k - 1 \in Months /\ k - 1 \notin T
  BY <1>2, Calendar DEF Months
<1>4. FirstDay[k - 1] < FirstDay[k]
  BY <1>3, Calendar DEF Months
<1>5. i = k - 1 \/ FirstDay[i] < FirstDay[k - 1]
  BY <1>3
<1>6. FirstDay[i] \in Nat /\ FirstDay[k - 1] \in Nat /\ FirstDay[k] \in Nat
  BY <1>2, <1>3, Calendar
<1>. QED BY <1>2, <1>4, <1>5, <1>6

InMonth(n, m) == FirstDay[m] <= n /\ n < FirstDay[m + 1]

\* Every day is in one month.
LEMMA MonthOfDay ==
    ASSUME NEW n \in Days
    PROVE  /\ n \in Nat \ {0}
           /\ MonthOf(n) \in Months /\ InMonth(n, MonthOf(n))
           /\ \A m \in Months : InMonth(n, m) => m = MonthOf(n)
<1>0. n \in Nat \ {0} /\ n < FirstDay[Len(FirstDay)]
  BY Calendar DEF Days
<1>1. \E m \in Months : InMonth(n, m)
  <2> DEFINE T == {m \in Months : n < FirstDay[m + 1]}
  <2>1. Len(FirstDay) - 1 \in T
    <3>1. Len(FirstDay) - 1 \in Months /\ (Len(FirstDay) - 1) + 1 = Len(FirstDay)
      BY Calendar DEF Months
    <3>. QED BY <1>0, <3>1
  <2>2. T \in SUBSET Nat /\ T # {}
    BY <2>1, Calendar
  <2>3. PICK m \in T : \A k \in T : ~(k < m)
    BY <2>2, LeastNumber
  <2>4. m \in Months /\ m \in Nat \ {0} /\ n < FirstDay[m + 1]
    BY <2>3, Calendar
  <2>5. FirstDay[m] <= n
    <3>1. CASE m = 1
      BY <1>0, <3>1, Calendar
    <3>2. CASE m # 1
      <4>0. m - 1 \in Months /\ m - 1 < m
        BY <2>4, <3>2, Calendar DEF Months
      <4>1. m - 1 \in Months /\ m - 1 \notin T
        BY <2>3, <4>0
      <4>2. FirstDay[(m - 1) + 1] <= n
        BY <1>0, <4>1, Calendar
      <4>. QED BY <2>4, <4>2
    <3>. QED BY <3>1, <3>2
  <2>. QED BY <2>4, <2>5 DEF InMonth
<1>2. MonthOf(n) \in Months /\ InMonth(n, MonthOf(n))
  BY <1>1 DEF MonthOf, InMonth
<1>3. ASSUME NEW m \in Months, NEW k \in Months, InMonth(n, m), InMonth(n, k), m < k PROVE FALSE
  <2>1. m + 1 \in 1..Len(FirstDay) /\ k \in 1..Len(FirstDay) /\ m \in Nat /\ k \in Nat
    BY Calendar
  <2>2. m + 1 = k \/ FirstDay[m + 1] < FirstDay[k]
    BY <1>3, <2>1, Rising
  <2>3. FirstDay[m + 1] \in Nat /\ FirstDay[k] \in Nat
    BY <2>1, Calendar
  <2>. QED BY <1>0, <1>3, <2>2, <2>3 DEF InMonth
<1>4. \A m \in Months : m \in Nat
  BY Calendar
<1>5. \A m \in Months : InMonth(n, m) => m = MonthOf(n)
  BY <1>2, <1>3, <1>4
<1>. QED BY <1>0, <1>2, <1>5

\* The month a contract due on day n is billed for, if every month has its billing day.
LEMMA SafeBilling ==
    ASSUME now \in Days, NEW c \in Contracts, plan[c].day \in Nat, SafeDay(c), DueToday(c)
    PROVE  BillingMonth(c) = IF plan[c].timing = "POSTPAID" THEN MonthOf(now) - 1 ELSE MonthOf(now)
<1>1. MonthOf(now) \in Months /\ MonthOf(now) \in Nat \ {0}
  BY MonthOfDay, Calendar
<1>2. MonthOf(now) > 1 => MonthOf(now) - 1 \in Months
  BY <1>1, Calendar DEF Months
<1>3. MonthOf(now) > 1 => ~(Length(MonthOf(now) - 1) < DayOf(now))
  <2> SUFFICES ASSUME MonthOf(now) > 1 PROVE ~(Length(MonthOf(now) - 1) < DayOf(now))
    OBVIOUS
  <2>1. plan[c].day = DayOf(now) /\ plan[c].day <= Length(MonthOf(now) - 1)
    BY <1>2 DEF SafeDay, DueToday
  <2>2. Length(MonthOf(now) - 1) \in Int
    <3>1. FirstDay[MonthOf(now) - 1] \in Nat /\ FirstDay[(MonthOf(now) - 1) + 1] \in Nat
      BY <1>2, Calendar
    <3>. QED BY <3>1 DEF Length
  <2>. QED BY <2>1, <2>2
<1>. QED BY <1>1, <1>3 DEF BillingMonth

\* Invoicing day of month m: the day when a contract is due in that month.
LEMMA BillingDay ==
    ASSUME now \in Days, NEW c \in Contracts, plan[c].day \in Nat \ {0}, SafeDay(c), NEW m \in Months,
           FirstDay[m] + plan[c].day - 1 = now
    PROVE  MonthOf(now) = m /\ DueToday(c)
<1>1. FirstDay[m] \in Nat /\ FirstDay[m + 1] \in Nat /\ plan[c].day <= FirstDay[m + 1] - FirstDay[m]
  BY Calendar DEF SafeDay, Length
<1>2. InMonth(now, m)
  BY <1>1 DEF InMonth
<1>3. MonthOf(now) = m
  BY <1>2, MonthOfDay
<1>4. DayOf(now) = plan[c].day
  BY <1>1, <1>3 DEF DayOf
<1>. QED BY <1>3, <1>4 DEF DueToday

LEMMA BillingMonthType == ASSUME now \in Days, NEW c PROVE BillingMonth(c) \in BillingMonths
BY MonthOfDay, Calendar DEF BillingMonth

-----------------------------------------------------------------------------
(* Types. *)

JobType == [todo : SUBSET Contracts, on : Contracts \cup {None}, seen : SUBSET Readings]
RequestType == [op : {"idle", "enter", "cancel"}, at : {"start", "checked"},
                r : Readings \cup {None}, row : Row]

LEMMA Values ==
    /\ Zero \in Counts /\ \A k \in Counters : Zero[k] = 0
    /\ NoReading \in Row /\ NoReading.charged = Never /\ NoReading.on = None /\ NoReading.count = Zero
    /\ Idle \in RequestType /\ Idle.row = NoReading
    /\ JobIdle \in JobType /\ JobIdle.todo = {} /\ JobIdle.on = None /\ JobIdle.seen = {}
<1>1. Zero \in Counts /\ \A k \in Counters : Zero[k] = 0
  BY ConstantsAssumption DEF ConstantsAssumption, Zero, Counts, Counters
<1>2. NoReading \in Row /\ NoReading.charged = Never /\ NoReading.on = None /\ NoReading.count = Zero
  BY <1>1 DEF NoReading, Row
<1>. QED BY <1>1, <1>2 DEF Idle, RequestType, JobIdle, JobType

LEMMA InitTyped == Init => TypeOK /\ \A c \in Contracts : plan[c].day \in Nat \ {0}
<1> SUFFICES ASSUME Init PROVE TypeOK /\ \A c \in Contracts : plan[c].day \in Nat \ {0}
  OBVIOUS
<1>1. now \in Days
  <2>1. FirstDay[1] < FirstDay[Len(FirstDay)] /\ FirstDay[Len(FirstDay)] \in Nat
    BY Rising, Calendar
  <2>. QED BY <2>1, Calendar DEF Init, Days
<1>3. plan \in [Contracts -> Plans] /\ \A c \in Contracts : plan[c].day \in Nat \ {0}
  BY ConstantsAssumption DEF Init, ConstantsAssumption
<1>4. made \in [Contracts -> [BillingMonths -> BillingMonths]]
  BY Calendar DEF Init
<1>5. reading \in [Readings -> Row] /\ job \in JobType /\ req \in [Clients -> RequestType]
  BY Values DEF Init
<1>6. ran \in BOOLEAN /\ missed \in BOOLEAN /\ alone \in BOOLEAN
  BY DEF Init
<1>. QED BY <1>1, <1>3, <1>4, <1>5, <1>6 DEF TypeOK, JobType, RequestType

\* The reading that usage is counted from is one, if there is one.
LEMMA PreviousType == ASSUME TypeOK, NEW c PROVE Previous(c) \in Row
<1>0. reading \in [Readings -> Row]
  BY DEF TypeOK
<1>1. CASE LiveOn(c) = {}
  BY <1>1, Values DEF Previous
<1>2. CASE LiveOn(c) # {}
  <2> DEFINE last == FirstDay[Len(FirstDay)]
  <2> DEFINE T == {last - reading[r].date : r \in LiveOn(c)}
  <2>1. \A r \in LiveOn(c) : r \in Readings /\ reading[r].date \in Nat /\ last - reading[r].date \in Nat
    <3> SUFFICES ASSUME NEW r \in LiveOn(c)
                 PROVE  r \in Readings /\ reading[r].date \in Nat /\ last - reading[r].date \in Nat
      OBVIOUS
    <3>1. r \in Readings /\ reading[r].date \in {0} \cup Days
      BY <1>0 DEF LiveOn, Row
    <3>2. last \in Nat
      BY Calendar
    <3>. QED BY <3>1, <3>2 DEF Days
  <2>2. T \in SUBSET Nat /\ T # {}
    BY <1>2, <2>1
  <2>3. PICK n \in T : \A k \in T : ~(k < n)
    BY <2>2, LeastNumber
  <2>4. PICK r \in LiveOn(c) : n = last - reading[r].date
    BY <2>3
  <2>5. last \in Int
    BY Calendar
  <2> HIDE DEF last
  <2>6. \A s \in LiveOn(c) : reading[s].date <= reading[r].date
    <3> SUFFICES ASSUME NEW s \in LiveOn(c) PROVE reading[s].date <= reading[r].date
      OBVIOUS
    <3>1. ~(last - reading[s].date < last - reading[r].date)
      BY <2>3, <2>4
    <3>2. reading[s].date \in Nat /\ reading[r].date \in Nat
      BY <2>1
    <3>. QED BY <2>5, <3>1, <3>2
  <2>7. (CHOOSE x \in LiveOn(c) : \A s \in LiveOn(c) : reading[s].date <= reading[x].date) \in Readings
    BY <2>6 DEF LiveOn
  <2>. QED BY <1>0, <1>2, <2>7 DEF Previous
<1>. QED BY <1>1, <1>2

\* What a reading counts is as wide as what it shows.
LEMMA NumberType ==
    ASSUME NEW n \in Counts, NEW k \in Counters
    PROVE  /\ Number(n[k]) \in 0..MaxCount /\ Number(n[k]) \in Nat
           /\ n[k] # None => Number(n[k]) = n[k]
<1>1. MaxCount \in Nat
  BY ConstantsAssumption DEF ConstantsAssumption
<1>2. n[k] \in 0..MaxCount \cup {None}
  BY DEF Counts
<1>. QED BY <1>1, <1>2 DEF Number

LEMMA UsageCounts ==
    ASSUME NEW y \in Row, NEW count \in Counts, CountRises(y, count)
    PROVE  /\ UsageSince(y, count) \in Counts
           /\ \A k \in Counters : count[k] # None =>
                /\ UsageSince(y, count)[k] = count[k] - Number(y.count[k])
                /\ UsageSince(y, count)[k] # None
<1>1. \A k \in Counters : count[k] # None => count[k] - Number(y.count[k]) \in 0..MaxCount
  <2> SUFFICES ASSUME NEW k \in Counters, count[k] # None
               PROVE  count[k] - Number(y.count[k]) \in 0..MaxCount
    OBVIOUS
  <2>1. count[k] \in 0..MaxCount /\ MaxCount \in Nat /\ count[k] >= Number(y.count[k])
    BY ConstantsAssumption DEF ConstantsAssumption, CountRises, Counts
  <2>2. y.count \in Counts
    BY DEF Row
  <2>3. Number(y.count[k]) \in Nat
    BY <2>2, NumberType
  <2>. QED BY <2>1, <2>3
<1>2. None \notin 0..MaxCount /\ count["black"] # None /\ "black" \in Counters
  BY ConstantsAssumption DEF ConstantsAssumption, Counts, Counters
<1>. QED BY <1>1, <1>2 DEF UsageSince, Counts

\* What clients do leaves the job and the invoices alone.
LEMMA RequestsTyped ==
    ASSUME TypeOK, NEW w \in Clients,
           \/ Enter(w) \/ EnterInsert(w) \/ CancelCommit(w) \/ Abort(w)
           \/ \E r \in Readings : EnterCommit(w, r) \/ CancelBegin(w, r)
    PROVE  TypeOK' /\ UNCHANGED <<now, plan, made, job, ran, missed>>
<1>0. reading \in [Readings -> Row] /\ req \in [Clients -> RequestType] /\ req[w] \in RequestType
  BY DEF TypeOK, RequestType
<1>1. ASSUME NEW x \in RequestType, Remember(w, x) PROVE TypeOK' /\ UNCHANGED <<now, plan, made, job, ran, missed>>
  <2>1. req' \in [Clients -> RequestType] /\ alone' \in BOOLEAN /\ UNCHANGED <<now, rows, job, ran, missed>>
    BY <1>0, <1>1 DEF Remember, TypeOK
  <2>. QED BY <2>1 DEF TypeOK, RequestType, rows
<1>2. ASSUME Finish(w), reading' \in [Readings -> Row]
      PROVE  TypeOK' /\ UNCHANGED <<now, plan, made, job, ran, missed>>
  <2>1. req' \in [Clients -> RequestType] /\ UNCHANGED <<now, plan, made, job, ran, missed, alone>>
    BY <1>0, <1>2, Values DEF Finish
  <2>. QED BY <1>2, <2>1 DEF TypeOK, RequestType
<1>3. CASE Enter(w)
  <2>1. PICK c \in Contracts, back \in 0..Backdating, count \in Entered :
           now > back /\ EnterBegin(w, c, now - back, count)
    BY <1>3 DEF Enter
  <2>2. /\ count \in Counts /\ CountRises(Previous(c), count) /\ UsageSince(Previous(c), count) \in Counts
    BY <2>1, PreviousType, UsageCounts, ConstantsAssumption DEF EnterBegin, ConstantsAssumption
  <2>3. now - back \in Days
    <3>1. now \in Days /\ FirstDay[Len(FirstDay)] \in Nat
      BY Calendar DEF TypeOK
    <3>2. back \in Nat
      BY <2>1, ConstantsAssumption DEF ConstantsAssumption
    <3>. QED BY <2>1, <3>1, <3>2 DEF Days
  <2> DEFINE row == [state |-> "LIVE", on |-> c, date |-> now - back, count |-> count,
                     usage |-> UsageSince(Previous(c), count), charged |-> Never]
  <2>5. row \in Row
    BY <2>2, <2>3 DEF Row
  <2>6. Remember(w, [Idle EXCEPT !.op = "enter", !.row = row])
    BY <2>1 DEF EnterBegin
  <2> HIDE DEF row
  <2>7. [Idle EXCEPT !.op = "enter", !.row = row] \in RequestType
    BY <2>5, Values DEF RequestType
  <2>. QED BY <1>1, <2>6, <2>7
<1>4. CASE EnterInsert(w)
  <2>1. Remember(w, [req[w] EXCEPT !.at = "checked"])
    BY <1>4 DEF EnterInsert
  <2>2. [req[w] EXCEPT !.at = "checked"] \in RequestType
    BY <1>0 DEF RequestType
  <2>. QED BY <1>1, <2>1, <2>2
<1>5. ASSUME NEW r \in Readings, CancelBegin(w, r) PROVE TypeOK' /\ UNCHANGED <<now, plan, made, job, ran, missed>>
  <2>1. Remember(w, [Idle EXCEPT !.op = "cancel", !.r = r])
    BY <1>5 DEF CancelBegin
  <2>2. [Idle EXCEPT !.op = "cancel", !.r = r] \in RequestType
    BY Values DEF RequestType
  <2>. QED BY <1>1, <2>1, <2>2
<1>6. ASSUME NEW r \in Readings, EnterCommit(w, r) PROVE TypeOK' /\ UNCHANGED <<now, plan, made, job, ran, missed>>
  <2>1. req[w].row \in Row
    BY <1>0 DEF RequestType
  <2>. QED BY <1>0, <1>2, <1>6, <2>1 DEF EnterCommit
<1>7. CASE CancelCommit(w)
  <2>1. reading' \in [Readings -> Row]
    BY <1>0, <1>7 DEF CancelCommit, Row
  <2>. QED BY <1>2, <1>7, <2>1 DEF CancelCommit
<1>8. CASE Abort(w)
  BY <1>0, <1>2, <1>8 DEF Abort
<1>. QED BY <1>3, <1>4, <1>5, <1>6, <1>7, <1>8

JobStep == JobStart \/ JobWrite \/ JobFail \/ JobCrash \/ \E c \in Contracts : JobSkip(c) \/ JobRead(c)

LEMMA JobTyped == ASSUME TypeOK, JobStep PROVE TypeOK'
<1>0. job \in JobType /\ reading \in [Readings -> Row] /\ made \in [Contracts -> [BillingMonths -> BillingMonths]]
      /\ now \in Days
  BY DEF TypeOK, JobType
<1>1. job' \in JobType
  <2>1. CASE JobStart
    <3>1. {c \in Contracts : DueToday(c)} \in SUBSET Contracts
      OBVIOUS
    <3> DEFINE D == {c \in Contracts : DueToday(c)}
    <3>2. job' = [JobIdle EXCEPT !.todo = D] /\ D \in SUBSET Contracts
      BY <2>1, <3>1 DEF JobStart
    <3> HIDE DEF D
    <3>. QED BY <3>2, Values DEF JobType
  <2>2. CASE JobWrite \/ JobFail
    BY <1>0, <2>2 DEF JobWrite, JobFail, JobType
  <2>3. CASE JobCrash
    BY <2>3, Values DEF JobCrash
  <2>4. ASSUME NEW c \in Contracts, JobSkip(c) PROVE job' \in JobType
    BY <1>0, <2>4 DEF JobSkip, JobType
  <2>5. ASSUME NEW c \in Contracts, JobRead(c) PROVE job' \in JobType
    <3>1. ToCharge(c) \in SUBSET Readings
      BY DEF ToCharge, LiveOn
    <3>. QED BY <1>0, <2>5, <3>1 DEF JobRead, JobType
  <2>. QED BY <2>1, <2>2, <2>3, <2>4, <2>5 DEF JobStep
<1>2. reading' \in [Readings -> Row] /\ made' \in [Contracts -> [BillingMonths -> BillingMonths]]
  <2>1. CASE JobWrite
    <3> DEFINE m == BillingMonth(job.on)
    <3> DEFINE charge == \E k \in Counters : UsageOf(k, job.seen) > Free[k]
    <3>1. /\ made' = [made EXCEPT ![job.on][m] = MonthOf(now)]
          /\ reading' = [r \in Readings |-> IF charge /\ r \in job.seen
                                            THEN [reading[r] EXCEPT !.charged = m] ELSE reading[r]]
      BY <2>1 DEF JobWrite
    <3>2. m \in BillingMonths /\ MonthOf(now) \in BillingMonths
      BY <1>0, BillingMonthType, MonthOfDay, Calendar
    <3> HIDE DEF m, charge
    <3>3. \A r \in Readings : [reading[r] EXCEPT !.charged = m] \in Row
      BY <1>0, <3>2 DEF Row
    <3>. QED BY <1>0, <3>1, <3>2, <3>3
  <2>. QED BY <1>0, <2>1 DEF JobStep, JobStart, JobFail, JobCrash, JobSkip, JobRead, rows
<1>3. UNCHANGED <<now, plan, req>> /\ ran' \in BOOLEAN /\ missed' \in BOOLEAN /\ alone' \in BOOLEAN
  BY DEF JobStep, JobStart, JobWrite, JobFail, JobCrash, JobSkip, JobRead, rows, TypeOK
<1>. QED BY <1>1, <1>2, <1>3 DEF TypeOK, JobType

LEMMA NextTyped == ASSUME TypeOK, [Next]_vars PROVE TypeOK'
<1>1. CASE NextDay
  <2>1. now' \in Days /\ ran' \in BOOLEAN /\ missed' \in BOOLEAN /\ UNCHANGED <<rows, job, req, alone>>
    BY <1>1 DEF NextDay, TypeOK
  <2>. QED BY <2>1 DEF TypeOK, rows
<1>2. CASE UNCHANGED vars
  BY <1>2 DEF vars, rows, TypeOK
<1>. QED BY <1>1, <1>2, RequestsTyped, JobTyped DEF Next, JobStep

\* The day, the invoices, the readings, the job and its requests keep their shape.
THEOREM TypeCorrect == Spec => []TypeOK
<1>1. TypeOK /\ [Next]_vars => TypeOK'
  BY NextTyped
<1>2. Init => TypeOK
  BY InitTyped
<1>. QED BY <1>1, <1>2, PTL DEF Spec

-----------------------------------------------------------------------------
(* The monthly invoices.  The job works on contracts due today and, unless  *)
(* something fails, each of them is still to come, at work or billed.       *)

DueNow == \A c \in Contracts : c \in job.todo \/ c = job.on => DueToday(c)

Underway ==
    \A c \in Contracts : DueToday(c) /\ ran /\ ~missed /\ ~plan[c].fee =>
        c \in job.todo \/ c = job.on \/ Billed(c)

BilledBy(c, m) == made[c][IF plan[c].timing = "POSTPAID" THEN m - 1 ELSE m] # 0

PastBilled ==
    \A c \in Contracts, m \in Months :
        SafeDay(c) /\ ~plan[c].fee /\ ~missed /\ FirstDay[m] + plan[c].day - 1 < now => BilledBy(c, m)

Invoicing == /\ TypeOK /\ (\A c \in Contracts : plan[c].day \in Nat \ {0})
           /\ DueNow /\ Underway /\ PastBilled /\ BilledForItsMonth /\ FeesNeverBilled

LEMMA InitBilling == Init => Invoicing
<1> SUFFICES ASSUME Init PROVE Invoicing
  OBVIOUS
<1>1. TypeOK /\ \A c \in Contracts : plan[c].day \in Nat \ {0}
  BY InitTyped
<1>2. DueNow /\ Underway
  BY Values, ConstantsAssumption DEF Init, DueNow, Underway, ConstantsAssumption
<1>3. PastBilled
  <2> SUFFICES ASSUME NEW c \in Contracts, NEW m \in Months, FirstDay[m] + plan[c].day - 1 < now PROVE FALSE
    BY DEF PastBilled
  <2>1. FirstDay[m] \in Nat \ {0} /\ now = 1 /\ plan[c].day \in Nat \ {0}
    BY <1>1, Calendar DEF Init
  <2>. QED BY <2>1
<1>4. BilledForItsMonth /\ FeesNeverBilled
  BY DEF Init, BilledForItsMonth, FeesNeverBilled
<1>. QED BY <1>1, <1>2, <1>3, <1>4 DEF Invoicing

\* The job looks away: requests, and days on which nothing is made.
LEMMA BillingKept ==
    ASSUME Invoicing, TypeOK', UNCHANGED <<now, plan, made>>, DueNow', Underway', missed' \/ ~missed,
           missed \in BOOLEAN, missed' \in BOOLEAN, missed => missed'
    PROVE  Invoicing'
<1>1. PastBilled'
  BY DEF Invoicing, PastBilled, SafeDay, BilledBy
<1>2. BilledForItsMonth' /\ FeesNeverBilled'
  BY DEF Invoicing, BilledForItsMonth, FeesNeverBilled, SafeDay
<1>. QED BY <1>1, <1>2 DEF Invoicing

LEMMA QuietBilling ==
    ASSUME Invoicing, TypeOK', UNCHANGED <<now, plan, made, job, ran, missed>>
    PROVE  Invoicing'
<1>1. \A c \in Contracts : DueToday(c)' = DueToday(c) /\ BillingMonth(c)' = BillingMonth(c)
  BY DEF DueToday, BillingMonth, DayOf, MonthOf
<1>2. DueNow'
  BY <1>1 DEF Invoicing, DueNow
<1>3. Underway'
  BY <1>1 DEF Invoicing, Underway, Billed
<1>. QED BY <1>2, <1>3, BillingKept DEF Invoicing, TypeOK

LEMMA SameDay ==
    ASSUME UNCHANGED <<now, plan>>
    PROVE  \A c \in Contracts : DueToday(c)' = DueToday(c) /\ BillingMonth(c)' = BillingMonth(c)
BY DEF DueToday, BillingMonth, DayOf, MonthOf

LEMMA JobReads ==
    ASSUME Invoicing, JobStart \/ JobFail \/ JobCrash \/ \E c \in Contracts : JobSkip(c) \/ JobRead(c)
    PROVE  Invoicing'
<1>0. TypeOK /\ job \in JobType /\ None \notin Contracts /\ TypeOK'
  BY JobTyped, ConstantsAssumption DEF Invoicing, TypeOK, JobType, ConstantsAssumption, JobStep
<1>1. UNCHANGED <<now, plan, made>> /\ (missed => missed')
  <2>1. CASE JobStart
    BY <2>1 DEF JobStart, rows
  <2>2. CASE JobFail
    BY <2>2 DEF JobFail, rows
  <2>3. CASE JobCrash
    BY <2>3 DEF JobCrash, rows
  <2>4. CASE \E c \in Contracts : JobSkip(c) \/ JobRead(c)
    BY <2>4 DEF JobSkip, JobRead, rows
  <2>. QED BY <2>1, <2>2, <2>3, <2>4
<1>2. \A c \in Contracts : /\ DueToday(c)' = DueToday(c)
                           /\ Billed(c)' = Billed(c)
  BY <1>1, SameDay DEF Billed
<1>3. DueNow' /\ Underway'
  <2>1. CASE JobStart
    <3> DEFINE D == {c \in Contracts : DueToday(c)}
    <3>1. job' = [JobIdle EXCEPT !.todo = D]
      BY <2>1 DEF JobStart
    <3>2. \A c : c \in D <=> c \in Contracts /\ DueToday(c)
      OBVIOUS
    <3> HIDE DEF D
    <3>3. job'.todo = D /\ job'.on = None
      BY <3>1, Values DEF JobType
    <3>. QED BY <1>0, <1>2, <3>2, <3>3 DEF DueNow, Underway
  <2>2. CASE JobFail
    <3>1. job' = [job EXCEPT !.on = None, !.seen = {}] /\ missed' = (missed \/ LinesAccepted(job.on))
          /\ UNCHANGED <<plan, ran>>
      BY <2>2 DEF JobFail, rows
    <3>2. job'.on = None /\ job'.todo = job.todo
      BY <1>0, <3>1 DEF JobType
    <3>3. \A c \in Contracts : ~missed' /\ c = job.on => plan[c].fee
      BY <3>1 DEF LinesAccepted
    <3>. QED BY <1>0, <1>2, <3>1, <3>2, <3>3 DEF Invoicing, DueNow, Underway
  <2>3. CASE JobCrash
    <3>1. job' = JobIdle /\ missed' = TRUE
      BY <2>3 DEF JobCrash
    <3>. QED BY <1>0, <3>1, Values DEF DueNow, Underway
  <2>4. ASSUME NEW c \in Contracts, JobSkip(c) PROVE DueNow' /\ Underway'
    <3>1. job' = [job EXCEPT !.todo = @ \ {c}] /\ Billed(c) /\ UNCHANGED <<plan, ran, missed>>
      BY <2>4 DEF JobSkip, rows
    <3>2. job'.on = job.on /\ job'.todo = job.todo \ {c}
      BY <1>0, <3>1 DEF JobType
    <3>. QED BY <1>2, <3>1, <3>2 DEF Invoicing, DueNow, Underway
  <2>5. ASSUME NEW c \in Contracts, JobRead(c) PROVE DueNow' /\ Underway'
    <3>1. job' = [todo |-> job.todo \ {c}, on |-> c, seen |-> ToCharge(c)] /\ UNCHANGED <<plan, ran, missed>>
          /\ c \in job.todo /\ job.on = None
      BY <2>5 DEF JobRead, rows
    <3>2. job'.on = c /\ job'.todo = job.todo \ {c}
      BY <3>1
    <3>. QED BY <1>0, <1>2, <3>1, <3>2 DEF Invoicing, DueNow, Underway
  <2>. QED BY <2>1, <2>2, <2>3, <2>4, <2>5
<1>. QED BY <1>0, <1>1, <1>3, BillingKept DEF TypeOK

LEMMA JobBills == ASSUME Invoicing, JobWrite PROVE Invoicing'
<1> DEFINE c == job.on
<1> DEFINE m == BillingMonth(c)
<1>0. /\ TypeOK /\ job \in JobType /\ None \notin Contracts /\ TypeOK' /\ now \in Days
      /\ made \in [Contracts -> [BillingMonths -> BillingMonths]]
      /\ c \in Contracts /\ plan[c].day \in Nat \ {0} /\ DueToday(c)
      /\ plan \in [Contracts -> [day : Nat, timing : {"PREPAID", "POSTPAID"}, fee : BOOLEAN]]
  BY JobTyped, ConstantsAssumption DEF Invoicing, TypeOK, JobType, ConstantsAssumption, JobStep, JobWrite, DueNow
<1>1. /\ ~plan[c].fee /\ made[c][m] = 0
      /\ made' = [made EXCEPT ![c][m] = MonthOf(now)]
      /\ job' = [job EXCEPT !.on = None, !.seen = {}]
      /\ UNCHANGED <<now, plan, ran, missed>>
  BY DEF JobWrite, LinesAccepted
<1>2. m \in BillingMonths /\ MonthOf(now) \in Nat \ {0} /\ MonthOf(now) \in Months
  BY <1>0, BillingMonthType, MonthOfDay, Calendar
<1>3. SafeDay(c) => m = IF plan[c].timing = "POSTPAID" THEN MonthOf(now) - 1 ELSE MonthOf(now)
  BY <1>0, SafeBilling
<1>4. \A d \in Contracts : DueToday(d)' = DueToday(d) /\ BillingMonth(d)' = BillingMonth(d)
  BY <1>1, SameDay
<1>5. job'.on = None /\ job'.todo = job.todo
  BY <1>0, <1>1 DEF JobType
<1>6. BillingMonth(c) = m
  OBVIOUS
<1> HIDE DEF m, c
<1>7. \A d \in Contracts, k \in BillingMonths :
         made'[d][k] = IF d = c /\ k = m THEN MonthOf(now) ELSE made[d][k]
  <2>1. made' = [made EXCEPT ![c] = [made[c] EXCEPT ![m] = MonthOf(now)]]
    BY <1>1
  <2>2. \A d \in Contracts : made'[d] = IF d = c THEN [made[c] EXCEPT ![m] = MonthOf(now)] ELSE made[d]
    BY <1>0, <2>1
  <2>. QED BY <1>0, <1>2, <2>2
<1>8. DueNow'
  BY <1>0, <1>4, <1>5 DEF Invoicing, DueNow
<1>9. Underway'
  <2> SUFFICES ASSUME NEW d \in Contracts, DueToday(d), ran, ~missed, ~plan[d].fee
               PROVE  d \in job.todo \/ made'[d][BillingMonth(d)] # 0
    BY <1>1, <1>4, <1>5 DEF Underway, Billed
  <2>1. BillingMonth(d) \in BillingMonths
    BY <1>0, BillingMonthType
  <2>2. CASE d = c
    BY <1>2, <1>6, <1>7, <2>2
  <2>3. CASE d # c
    BY <1>7, <2>1, <2>3 DEF Invoicing, Underway, Billed, c
  <2>. QED BY <2>2, <2>3
<1>10. PastBilled'
  <2> SUFFICES ASSUME NEW d \in Contracts, NEW k \in Months, SafeDay(d), ~plan[d].fee, ~missed,
                      FirstDay[k] + plan[d].day - 1 < now
               PROVE  made'[d][IF plan[d].timing = "POSTPAID" THEN k - 1 ELSE k] # 0
    BY <1>1 DEF PastBilled, SafeDay, BilledBy
  <2>1. (IF plan[d].timing = "POSTPAID" THEN k - 1 ELSE k) \in BillingMonths
    BY Calendar
  <2>2. made[d][IF plan[d].timing = "POSTPAID" THEN k - 1 ELSE k] # 0
    BY DEF Invoicing, PastBilled, BilledBy
  <2>. QED BY <1>2, <1>7, <2>1, <2>2
<1>11. BilledForItsMonth'
  <2> SUFFICES ASSUME NEW d \in Contracts, NEW k \in BillingMonths, SafeDay(d), made'[d][k] # 0
               PROVE  made'[d][k] = IF plan[d].timing = "POSTPAID" THEN k + 1 ELSE k
    BY <1>1 DEF BilledForItsMonth, SafeDay
  <2>1. CASE d = c /\ k = m
    BY <1>2, <1>3, <1>7, <2>1
  <2>2. CASE d # c \/ k # m
    BY <1>7, <2>2 DEF Invoicing, BilledForItsMonth
  <2>. QED BY <2>1, <2>2
<1>12. FeesNeverBilled'
  BY <1>1, <1>7 DEF Invoicing, FeesNeverBilled
<1>. QED BY <1>0, <1>1, <1>8, <1>9, <1>10, <1>11, <1>12 DEF Invoicing

\* A contract due in month m is billed for it when its billing day is over.
LEMMA OverBilled ==
    ASSUME Invoicing, NEW c \in Contracts, NEW m \in Months, SafeDay(c), ~plan[c].fee, ~missed, BillingDayOver(c, m)
    PROVE  BilledBy(c, m)
<1>1. CASE FirstDay[m] + plan[c].day - 1 < now
  BY <1>1 DEF Invoicing, PastBilled
<1>2. CASE FirstDay[m] + plan[c].day - 1 = now /\ ran /\ job = JobIdle
  <2>1. now \in Days /\ plan[c].day \in Nat \ {0} /\ None \notin Contracts
    BY ConstantsAssumption DEF Invoicing, TypeOK, ConstantsAssumption
  <2>2. MonthOf(now) = m /\ DueToday(c)
    BY <1>2, <2>1, BillingDay
  <2>3. Billed(c)
    BY <1>2, <2>1, <2>2, Values DEF Invoicing, Underway
  <2>4. BillingMonth(c) = IF plan[c].timing = "POSTPAID" THEN m - 1 ELSE m
    BY <2>1, <2>2, SafeBilling
  <2>. QED BY <2>3, <2>4 DEF Billed, BilledBy
<1>. QED BY <1>1, <1>2 DEF BillingDayOver

LEMMA DayBilling == ASSUME Invoicing, NextDay PROVE Invoicing'
<1>0. TypeOK /\ TypeOK' /\ None \notin Contracts
  BY NextTyped, ConstantsAssumption DEF Invoicing, Next, ConstantsAssumption
<1>1. /\ job = JobIdle /\ job' = JobIdle /\ now' = now + 1 /\ ran' = FALSE /\ missed' = (missed \/ ~ran)
      /\ UNCHANGED <<plan, made>>
  BY DEF NextDay, rows
<1>2. DueNow' /\ Underway'
  BY <1>0, <1>1, Values DEF DueNow, Underway
<1>3. BilledForItsMonth' /\ FeesNeverBilled'
  BY <1>1 DEF Invoicing, BilledForItsMonth, FeesNeverBilled, SafeDay
<1>4. PastBilled'
  <2> SUFFICES ASSUME NEW c \in Contracts, NEW m \in Months, SafeDay(c), ~plan[c].fee, ~missed, ran,
                      FirstDay[m] + plan[c].day - 1 < now + 1
               PROVE  BilledBy(c, m)
    BY <1>1 DEF PastBilled, SafeDay, BilledBy
  <2>1. now \in Nat /\ FirstDay[m] \in Nat /\ plan[c].day \in Nat
    BY <1>0, Calendar, MonthOfDay DEF Invoicing, TypeOK
  <2>2. BillingDayOver(c, m)
    BY <1>1, <2>1 DEF BillingDayOver
  <2>. QED BY <2>2, OverBilled
<1>. QED BY <1>0, <1>1, <1>2, <1>3, <1>4 DEF Invoicing

LEMMA AlwaysBilling == Spec => []Invoicing
<1>1. ASSUME Invoicing, [Next]_vars PROVE Invoicing'
  <2>1. TypeOK /\ TypeOK'
    BY <1>1, NextTyped DEF Invoicing
  <2>2. ASSUME NEW w \in Clients,
               \/ Enter(w) \/ EnterInsert(w) \/ CancelCommit(w) \/ Abort(w)
               \/ \E r \in Readings : EnterCommit(w, r) \/ CancelBegin(w, r)
        PROVE  Invoicing'
    BY <1>1, <2>1, <2>2, RequestsTyped, QuietBilling
  <2>3. CASE UNCHANGED vars
    BY <1>1, <2>1, <2>3, QuietBilling DEF vars, rows
  <2>. QED BY <1>1, <2>2, <2>3, JobReads, JobBills, DayBilling DEF Next
<1>. QED BY <1>1, InitBilling, PTL DEF Spec

\* A contract whose billing day every month has is billed at its time: for the month
\* itself or the one before, whatever fails.
THEOREM MonthsAreBilledInTime == Spec => []BilledForItsMonth
<1>1. Invoicing => BilledForItsMonth
  BY DEF Invoicing
<1>. QED BY <1>1, AlwaysBilling, PTL

\* As long as the job runs every day and nothing fails, such a contract has an invoice for
\* every month whose billing day is over.
THEOREM EveryMonthIsBilled == Spec => []NoMonthLeftOut
<1>1. Invoicing => NoMonthLeftOut
  BY OverBilled DEF NoMonthLeftOut, BilledBy
<1>. QED BY <1>1, AlwaysBilling, PTL

\* No contract with a monthly price ever gets an invoice from the job.
THEOREM NoFeeIsBilled == Spec => []FeesNeverBilled
<1>1. Invoicing => FeesNeverBilled
  BY DEF Invoicing
<1>. QED BY <1>1, AlwaysBilling, PTL

-----------------------------------------------------------------------------
(* Usage charges.  What the job has read up stays as it was, whatever the   *)
(* clients do, until it writes the invoice.                                 *)

Found ==
    job.on # None => \A r \in job.seen :
        /\ reading[r].state # "NONE" /\ reading[r].on = job.on /\ reading[r].charged = Never
        /\ MonthOf(reading[r].date) = BillingMonth(job.on)

Charging == TypeOK /\ (\A w \in Clients : req[w].row.charged = Never) /\ Found

\* What a step may do to the charge of a reading.
ChargeStep ==
    \A r \in Readings : reading'[r].charged # reading[r].charged =>
          /\ reading[r].charged = Never
          /\ reading'[r].charged = MonthOf(reading[r].date)
          /\ made[reading[r].on][MonthOf(reading[r].date)] = 0

LEMMA FoundKept ==
    ASSUME Found, UNCHANGED <<now, plan>>, job' = job \/ job'.on = None, job.seen \subseteq Readings,
           \A r \in Readings : /\ reading'[r].on = reading[r].on \/ reading[r].state = "NONE"
                               /\ reading'[r].date = reading[r].date \/ reading[r].state = "NONE"
                               /\ reading'[r].charged = reading[r].charged
                               /\ reading[r].state # "NONE" => reading'[r].state # "NONE"
    PROVE  Found'
<1>. SUFFICES ASSUME job' = job, job.on # None, NEW r \in job.seen
              PROVE  /\ reading'[r].state # "NONE" /\ reading'[r].on = job.on /\ reading'[r].charged = Never
                     /\ MonthOf(reading'[r].date) = BillingMonth(job.on)
  <2>1. \A c : BillingMonth(c)' = BillingMonth(c)
    BY DEF BillingMonth, DayOf, MonthOf
  <2>. QED BY <2>1 DEF Found, MonthOf
<1>1. r \in Readings /\ reading[r].state # "NONE" /\ reading[r].on = job.on /\ reading[r].charged = Never
  BY DEF Found
<1>2. MonthOf(reading[r].date) = BillingMonth(job.on)
  BY DEF Found
<1>3. reading'[r].date = reading[r].date
  BY <1>1
<1>. QED BY <1>1, <1>2, <1>3

LEMMA ClientsCharge ==
    ASSUME Charging, NEW w \in Clients,
           \/ Enter(w) \/ EnterInsert(w) \/ CancelCommit(w) \/ Abort(w)
           \/ \E r \in Readings : EnterCommit(w, r) \/ CancelBegin(w, r)
    PROVE  Charging' /\ ChargeStep
<1>0. /\ reading \in [Readings -> Row] /\ req \in [Clients -> RequestType] /\ job \in JobType
      /\ TypeOK' /\ UNCHANGED <<now, plan, made, job, ran, missed>>
  BY RequestsTyped DEF Charging, TypeOK, RequestType, JobType
<1>1. ASSUME NEW x, x.row.charged = Never, req' = [req EXCEPT ![w] = x]
      PROVE  \A u \in Clients : req'[u].row.charged = Never
  BY <1>0, <1>1 DEF Charging
<1>2. CASE UNCHANGED reading
  <2>1. \A u \in Clients : req'[u].row.charged = Never
    <3>1. CASE Enter(w)
      <4>1. PICK c \in Contracts, back \in 0..Backdating, count \in Entered : EnterBegin(w, c, now - back, count)
        BY <3>1 DEF Enter
      <4> DEFINE row == [state |-> "LIVE", on |-> c, date |-> now - back, count |-> count,
                         usage |-> UsageSince(Previous(c), count), charged |-> Never]
      <4>2. req' = [req EXCEPT ![w] = [Idle EXCEPT !.op = "enter", !.row = row]] /\ row.charged = Never
        BY <4>1 DEF EnterBegin, Remember
      <4> HIDE DEF row
      <4>3. [Idle EXCEPT !.op = "enter", !.row = row].row = row
        BY DEF Idle
      <4>. QED BY <1>1, <4>2, <4>3
    <3>2. CASE EnterInsert(w)
      <4>1. req' = [req EXCEPT ![w] = [req[w] EXCEPT !.at = "checked"]]
        BY <3>2 DEF EnterInsert, Remember
      <4>2. [req[w] EXCEPT !.at = "checked"].row.charged = Never
        BY <1>0 DEF Charging, RequestType
      <4>. QED BY <1>1, <4>1, <4>2
    <3>3. ASSUME NEW r \in Readings, CancelBegin(w, r) PROVE \A u \in Clients : req'[u].row.charged = Never
      <4>1. req' = [req EXCEPT ![w] = [Idle EXCEPT !.op = "cancel", !.r = r]]
        BY <3>3 DEF CancelBegin, Remember
      <4>2. [Idle EXCEPT !.op = "cancel", !.r = r].row.charged = Never
        BY DEF Idle, NoReading
      <4>. QED BY <1>1, <4>1, <4>2
    <3>4. ASSUME Finish(w) PROVE \A u \in Clients : req'[u].row.charged = Never
      <4>1. req' = [req EXCEPT ![w] = Idle] /\ Idle.row.charged = Never
        BY <3>4 DEF Finish, Idle, NoReading
      <4>. QED BY <1>1, <4>1
    <3>. QED BY <3>1, <3>2, <3>3, <3>4 DEF CancelCommit, Abort, EnterCommit
  <2>2. Found'
    BY <1>0, <1>2, FoundKept DEF Charging, JobType
  <2>. QED BY <1>0, <1>2, <2>1, <2>2 DEF Charging, ChargeStep
<1>3. ASSUME NEW r \in Readings, EnterCommit(w, r) PROVE Charging' /\ ChargeStep
  <2>1. reading[r] = NoReading /\ reading' = [reading EXCEPT ![r] = req[w].row] /\ req' = [req EXCEPT ![w] = Idle]
    BY <1>3 DEF EnterCommit, Finish
  <2>2. reading[r].state = "NONE" /\ reading[r].charged = Never /\ req[w].row.charged = Never
    BY <2>1 DEF NoReading, Charging
  <2>3. \A s \in Readings : (s # r => reading'[s] = reading[s]) /\ reading'[s].charged = reading[s].charged
    BY <1>0, <2>1, <2>2
  <2>4. Found'
    BY <1>0, <2>2, <2>3, FoundKept DEF Charging, JobType
  <2>5. \A u \in Clients : req'[u].row.charged = Never
    BY <1>1, <2>1 DEF Idle, NoReading
  <2>. QED BY <1>0, <2>3, <2>4, <2>5 DEF Charging, ChargeStep
<1>4. CASE CancelCommit(w)
  <2>1. reading' = [reading EXCEPT ![req[w].r].state = "CANCELED"] /\ req' = [req EXCEPT ![w] = Idle]
    BY <1>4 DEF CancelCommit, Finish
  <2>2. \A s \in Readings : /\ reading'[s].on = reading[s].on /\ reading'[s].date = reading[s].date
                            /\ reading'[s].charged = reading[s].charged
                            /\ reading'[s].state = reading[s].state \/ reading'[s].state = "CANCELED"
    BY <1>0, <2>1 DEF Row
  <2>3. Found'
    BY <1>0, <2>2, FoundKept DEF Charging, JobType
  <2>4. \A u \in Clients : req'[u].row.charged = Never
    BY <1>1, <2>1 DEF Idle, NoReading
  <2>. QED BY <1>0, <2>2, <2>3, <2>4 DEF Charging, ChargeStep
<1>5. UNCHANGED reading \/ CancelCommit(w) \/ \E r \in Readings : EnterCommit(w, r)
  BY DEF Enter, EnterBegin, EnterInsert, CancelBegin, Remember, rows, Abort
<1>. QED BY <1>2, <1>3, <1>4, <1>5

LEMMA JobCharges == ASSUME Charging, JobStep PROVE Charging' /\ ChargeStep
<1>0. /\ reading \in [Readings -> Row] /\ job \in JobType /\ TypeOK' /\ None \notin Contracts
      /\ UNCHANGED <<now, plan, req>>
  BY JobTyped, ConstantsAssumption
  DEF Charging, TypeOK, JobType, ConstantsAssumption, JobStep, JobStart, JobWrite, JobFail, JobCrash,
      JobSkip, JobRead, rows
<1>1. \A c : BillingMonth(c)' = BillingMonth(c)
  BY <1>0 DEF BillingMonth, DayOf, MonthOf
<1>2. \A w \in Clients : req'[w].row.charged = Never
  BY <1>0 DEF Charging
<1>3. ASSUME NEW c \in Contracts, JobRead(c) PROVE Charging' /\ ChargeStep
  <2>1. job'.on = c /\ job'.seen = ToCharge(c) /\ reading' = reading
    BY <1>3 DEF JobRead, rows
  <2>2. Found'
    BY <1>1, <2>1 DEF Found, ToCharge, LiveOn, MonthOf
  <2>. QED BY <1>0, <1>2, <2>1, <2>2 DEF Charging, ChargeStep
<1>4. CASE JobWrite
  <2> DEFINE c == job.on
             m == BillingMonth(c)
             charge == \E k \in Counters : UsageOf(k, job.seen) > Free[k]
  <2>1. /\ job.on # None /\ made[c][m] = 0
        /\ reading' = [r \in Readings |-> IF charge /\ r \in job.seen
                                          THEN [reading[r] EXCEPT !.charged = m] ELSE reading[r]]
        /\ job' = [job EXCEPT !.on = None, !.seen = {}]
    BY <1>4 DEF JobWrite
  <2> HIDE DEF charge, m
  <2>2. Found'
    BY <1>0, <2>1 DEF Found, JobType
  <2>3. \A r \in job.seen : reading[r].on = c /\ reading[r].charged = Never /\ MonthOf(reading[r].date) = m
    BY <2>1 DEF Charging, Found, m
  <2>4. ASSUME NEW r \in Readings, reading'[r].charged # reading[r].charged
        PROVE  r \in job.seen /\ reading'[r].charged = m
    <3>1. r \in job.seen /\ reading'[r] = [reading[r] EXCEPT !.charged = m]
      BY <2>1, <2>4
    <3>. QED BY <1>0, <3>1 DEF Row
  <2>5. ChargeStep
    BY <2>1, <2>3, <2>4 DEF ChargeStep
  <2>. QED BY <1>0, <1>2, <2>2, <2>5 DEF Charging
<1>5. CASE JobStart \/ JobFail \/ JobCrash \/ \E c \in Contracts : JobSkip(c)
  <2>1. UNCHANGED reading
    BY <1>5 DEF JobStart, JobFail, JobCrash, JobSkip, rows
  <2>2. CASE JobStart \/ JobFail \/ JobCrash
    <3>1. job'.on = None
      BY <1>0, <2>2, Values DEF JobStart, JobFail, JobCrash, JobType, JobIdle
    <3>2. Found'
      BY <3>1 DEF Found
    <3>. QED BY <1>0, <1>2, <2>1, <3>2 DEF Charging, ChargeStep
  <2>3. ASSUME NEW c \in Contracts, JobSkip(c) PROVE Charging' /\ ChargeStep
    <3>1. job'.on = None
      BY <1>0, <2>3 DEF JobSkip, JobType
    <3>2. Found'
      BY <3>1 DEF Found
    <3>. QED BY <1>0, <1>2, <2>1, <3>2 DEF Charging, ChargeStep
  <2>. QED BY <1>5, <2>2, <2>3
<1>. QED BY <1>3, <1>4, <1>5 DEF JobStep

LEMMA NextCharges == ASSUME Charging, [Next]_vars PROVE Charging' /\ ChargeStep
<1>1. CASE NextDay
  <2>1. job'.on = None /\ UNCHANGED <<reading, req>> /\ TypeOK'
    BY <1>1, NextTyped DEF NextDay, JobIdle, rows, Charging, Next
  <2>2. Found'
    BY <2>1 DEF Found
  <2>. QED BY <2>1, <2>2 DEF Charging, ChargeStep
<1>2. CASE UNCHANGED vars
  <2>1. UNCHANGED <<now, rows, job, req>> /\ TypeOK' /\ job \in JobType
    BY <1>2, NextTyped DEF vars, Charging, TypeOK, JobType
  <2>2. Found'
    BY <2>1, FoundKept DEF Charging, rows, JobType
  <2>. QED BY <2>1, <2>2 DEF Charging, ChargeStep, rows
<1>. QED BY <1>1, <1>2, ClientsCharge, JobCharges DEF Next, JobStep

\* A reading is charged once, on the invoice of its own month, made in the same step;
\* whatever is entered or canceled while the job is at work.
THEOREM ReadingsAreChargedOnce == Spec => ChargedOnce
<1>1. Init => Charging
  BY InitTyped, Values DEF Init, Charging, Found, Idle, NoReading, JobIdle
<1>2. Charging /\ [Next]_vars => Charging'
  BY NextCharges
<1>3. Charging /\ [Next]_vars =>
        [\A r \in Readings : reading'[r].charged # reading[r].charged =>
            /\ reading[r].charged = Never
            /\ reading'[r].charged = MonthOf(reading[r].date)
            /\ made[reading[r].on][MonthOf(reading[r].date)] = 0]_vars
  BY NextCharges DEF ChargeStep
<1>. QED BY <1>1, <1>2, <1>3, PTL DEF Spec, ChargedOnce

-----------------------------------------------------------------------------
(* What a counter counted.  By date, no reading is less than one before it, *)
(* and up to each of them the usages come to no more than it shows: a       *)
(* reading that goes in between counts nothing, one that is taken back      *)
(* leaves less.  The lemmas are about any table rd of what one counter of   *)
(* each reading shows.                                                      *)

Line == [state : {"NONE", "LIVE", "CANCELED"}, on : Contracts \cup {None}, date : {0} \cup Days,
         count : 0..MaxCount, usage : 0..MaxCount]

Lives(rd, c) == {r \in Readings : rd[r].state = "LIVE" /\ rd[r].on = c}
UpTo(rd, c, r) == {s \in Lives(rd, c) : rd[s].date <= rd[r].date}
Counted(rd, S) == Total([r \in S |-> rd[r].usage])
Rises(rd, r, s) == rd[r].date # rd[s].date /\ (rd[r].date < rd[s].date => rd[r].count <= rd[s].count)

InLine(rd, c) ==
    \A r \in Lives(rd, c) : /\ Counted(rd, UpTo(rd, c, r)) <= rd[r].count
                            /\ \A s \in Lives(rd, c) \ {r} : Rises(rd, r, s)

Tables == [Readings -> Line]

LEMMA LineNumbers ==
    ASSUME NEW x \in Line
    PROVE  x.date \in Nat /\ x.count \in Nat /\ x.usage \in Nat /\ x.date <= FirstDay[Len(FirstDay)]
<1>1. FirstDay[Len(FirstDay)] \in Nat /\ MaxCount \in Nat
  BY Calendar, ConstantsAssumption DEF ConstantsAssumption
<1>2. x.date \in {0} \cup Days /\ x.count \in 0..MaxCount /\ x.usage \in 0..MaxCount
  BY DEF Line
<1>. QED BY <1>1, <1>2 DEF Days

LEMMA TableNumbers ==
    ASSUME NEW rd \in Tables, NEW r \in Readings
    PROVE  /\ rd[r].date \in Nat /\ rd[r].count \in Nat /\ rd[r].usage \in Nat
           /\ rd[r].date <= FirstDay[Len(FirstDay)]
BY LineNumbers DEF Tables

\* Among any readings there are a first and a last.
LEMMA FirstOf ==
    ASSUME NEW rd \in Tables, NEW S \in SUBSET Readings, S # {}
    PROVE  \E r \in S : \A s \in S : rd[r].date <= rd[s].date
<1> DEFINE T == {rd[r].date : r \in S}
<1>1. T \in SUBSET Nat /\ T # {}
  BY TableNumbers
<1>2. PICK n \in T : \A k \in T : ~(k < n)
  BY <1>1, LeastNumber
<1>3. PICK r \in S : n = rd[r].date
  BY <1>2
<1>4. \A s \in S : ~(rd[s].date < n) /\ rd[s].date \in Nat /\ n \in Nat
  BY <1>1, <1>2, TableNumbers
<1>5. \A s \in S : rd[r].date <= rd[s].date
  BY <1>3, <1>4
<1>. QED BY <1>5

LEMMA LastOf ==
    ASSUME NEW rd \in Tables, NEW S \in SUBSET Readings, S # {}
    PROVE  \E r \in S : \A s \in S : rd[s].date <= rd[r].date
<1>1. PICK last \in Nat : last = FirstDay[Len(FirstDay)]
  BY Calendar
<1> DEFINE T == {last - rd[r].date : r \in S}
<1>2. \A s \in S : rd[s].date \in Nat /\ last - rd[s].date \in Nat
  BY <1>1, TableNumbers
<1>3. T \in SUBSET Nat /\ T # {}
  BY <1>2
<1>4. PICK n \in T : \A k \in T : ~(k < n)
  BY <1>3, LeastNumber
<1>5. PICK r \in S : n = last - rd[r].date
  BY <1>4
<1>6. \A s \in S : ~(last - rd[s].date < last - rd[r].date)
  BY <1>4, <1>5
<1>7. \A s \in S : rd[s].date <= rd[r].date
  BY <1>2, <1>6
<1>. QED BY <1>7

LEMMA CountedMore ==
    ASSUME NEW rd \in Tables, NEW S \in SUBSET Readings, NEW r \in Readings, r \notin S
    PROVE  Counted(rd, S \cup {r}) = Counted(rd, S) + rd[r].usage
<1> DEFINE f == [x \in Readings |-> rd[x].usage]
<1>1. f \in [Readings -> Int]
  BY TableNumbers
<1>2. /\ Part(f, S) = [x \in S |-> rd[x].usage]
      /\ Part(f, S \cup {r}) = [x \in S \cup {r} |-> rd[x].usage]
      /\ f[r] = rd[r].usage
  BY DEF Part
<1>3. IsFiniteSet(Readings)
  BY ConstantsAssumption DEF ConstantsAssumption
<1> HIDE DEF f
<1>4. Total(Part(f, S \cup {r})) = Total(Part(f, S)) + f[r]
  BY <1>1, <1>3, TotalAdded
<1>. QED BY <1>2, <1>4 DEF Counted

LEMMA CountedFewer ==
    ASSUME NEW rd \in Tables, NEW S \in SUBSET Readings, NEW U \in SUBSET S
    PROVE  Counted(rd, U) \in Int /\ Counted(rd, S) \in Int /\ Counted(rd, U) <= Counted(rd, S)
<1> DEFINE f == [x \in Readings |-> rd[x].usage]
<1>1. f \in [Readings -> Nat]
  BY TableNumbers
<1>2. Part(f, S) = [x \in S |-> rd[x].usage] /\ Part(f, U) = [x \in U |-> rd[x].usage]
  BY DEF Part
<1>3. IsFiniteSet(Readings)
  BY ConstantsAssumption DEF ConstantsAssumption
<1> HIDE DEF f
<1>4. /\ Total(Part(f, U)) \in Int /\ Total(Part(f, S)) \in Int
      /\ Total(Part(f, U)) <= Total(Part(f, S))
  BY <1>1, <1>3, TotalOfFewer
<1>. QED BY <1>2, <1>4 DEF Counted

LEMMA CountedSame ==
    ASSUME NEW rd, NEW rd2, NEW S, \A s \in S : rd2[s].usage = rd[s].usage
    PROVE  Counted(rd2, S) = Counted(rd, S)
<1>1. [r \in S |-> rd2[r].usage] = [r \in S |-> rd[r].usage]
  OBVIOUS
<1>. QED BY <1>1 DEF Counted

LEMMA CountedNone == Counted([x \in Readings |-> [usage |-> 0]], {}) = 0
<1> DEFINE f == [r \in {} |-> 0]
<1>1. f \in [{} -> Int] /\ IsFiniteSet({})
  BY FS_EmptySet
<1>2. Total(f) = 0
  BY <1>1, TotalOfNothing
<1>3. [r \in {} |-> [x \in Readings |-> [usage |-> 0]][r].usage] = f
  OBVIOUS
<1>. QED BY <1>2, <1>3 DEF Counted

LEMMA CountedEmpty == ASSUME NEW rd PROVE Counted(rd, {}) = 0
BY CountedNone, CountedSame

\* Taking a reading back, or charging for it, leaves the others in line.
LEMMA LineOfFewer ==
    ASSUME NEW rd \in Tables, NEW rd2 \in Tables, NEW c, InLine(rd, c), Lives(rd2, c) \subseteq Lives(rd, c),
           \A s \in Lives(rd2, c) : /\ rd2[s].date = rd[s].date /\ rd2[s].count = rd[s].count
                                    /\ rd2[s].usage = rd[s].usage
    PROVE  InLine(rd2, c)
<1> SUFFICES ASSUME NEW r \in Lives(rd2, c)
             PROVE  /\ Counted(rd2, UpTo(rd2, c, r)) <= rd2[r].count
                    /\ \A s \in Lives(rd2, c) \ {r} : Rises(rd2, r, s)
  BY DEF InLine
<1>1. UpTo(rd2, c, r) \subseteq UpTo(rd, c, r)
  BY DEF UpTo
<1>2. UpTo(rd, c, r) \subseteq Readings /\ r \in Readings
  BY DEF UpTo, Lives
<1>3. Counted(rd2, UpTo(rd2, c, r)) = Counted(rd, UpTo(rd2, c, r))
  <2>1. \A s \in UpTo(rd2, c, r) : rd2[s].usage = rd[s].usage
    BY DEF UpTo
  <2>. QED BY <2>1, CountedSame
<1>4. /\ Counted(rd, UpTo(rd2, c, r)) \in Int /\ Counted(rd, UpTo(rd, c, r)) \in Int
      /\ Counted(rd, UpTo(rd2, c, r)) <= Counted(rd, UpTo(rd, c, r))
  BY <1>1, <1>2, CountedFewer
<1>5. Counted(rd, UpTo(rd, c, r)) <= rd[r].count /\ rd[r].count \in Nat
  BY <1>2, TableNumbers DEF InLine
<1>6. \A s \in Lives(rd2, c) \ {r} : Rises(rd2, r, s)
  BY DEF InLine, Rises
<1>7. rd2[r].count = rd[r].count
  OBVIOUS
<1>. QED BY <1>3, <1>4, <1>5, <1>6, <1>7
\* Where a reading x may go in: between the readings next to it, counted from the last.
Before(rd, c, x) == {s \in Lives(rd, c) : rd[s].date < x.date}
After(rd, c, x) == {s \in Lives(rd, c) : rd[s].date > x.date}
Follows(x, y) == y.count <= x.count /\ x.usage = x.count - y.count
Fits(rd, c, x) ==
    /\ \A s \in Lives(rd, c) : rd[s].date # x.date
    /\ \A y \in Before(rd, c, x) :
         (\A s \in Before(rd, c, x) : rd[s].date <= rd[y].date) => Follows(x, rd[y])
    /\ \A y \in After(rd, c, x) :
         (\A s \in After(rd, c, x) : rd[y].date <= rd[s].date) => x.count <= rd[y].count
    /\ \A y \in Lives(rd, c) :
         (\A s \in Lives(rd, c) : rd[s].date <= rd[y].date) => Follows(x, rd[y])
    /\ Lives(rd, c) = {} => x.usage <= x.count

LEMMA LineFits ==
    ASSUME NEW rd \in Tables, NEW c, NEW x \in Line, InLine(rd, c), Fits(rd, c, x)
    PROVE  /\ \A s \in Before(rd, c, x) : rd[s].count <= x.count
           /\ \A s \in After(rd, c, x) : x.count <= rd[s].count
           /\ After(rd, c, x) # {} => x.usage = 0
           /\ Counted(rd, Before(rd, c, x)) \in Int
           /\ Counted(rd, Before(rd, c, x)) + x.usage <= x.count
<1> DEFINE L == Lives(rd, c)
           B == Before(rd, c, x)
           A == After(rd, c, x)
<1>0. /\ B \subseteq L /\ A \subseteq L /\ L \subseteq Readings
      /\ B \subseteq Readings /\ A \subseteq Readings
  BY DEF Before, After, Lives
<1>n. /\ \A s \in Readings : rd[s].date \in Nat /\ rd[s].count \in Nat /\ rd[s].usage \in Nat
      /\ x.date \in Nat /\ x.count \in Nat /\ x.usage \in Nat
  BY TableNumbers, LineNumbers
<1>1. ASSUME NEW y \in L, NEW s \in L, rd[s].date <= rd[y].date
      PROVE  rd[s].count <= rd[y].count
  <2>1. CASE s = y
    BY <2>1, <1>0, <1>n
  <2>2. CASE s # y
    <3>1. Rises(rd, s, y)
      BY <2>2 DEF InLine
    <3>. QED BY <3>1, <1>0, <1>1, <1>n DEF Rises
  <2>. QED BY <2>1, <2>2
<1>2. Counted(rd, B) \in Int
  BY <1>0, CountedFewer
<1>3. ASSUME B # {} PROVE Counted(rd, B) + x.usage <= x.count /\ \A s \in B : rd[s].count <= x.count
  <2>1. PICK y \in B : \A s \in B : rd[s].date <= rd[y].date
    BY <1>0, <1>3, LastOf
  <2>2. y \in L /\ y \in Readings /\ rd[y].date < x.date
    BY <2>1, <1>0 DEF Before
  <2>3. rd[y].count <= x.count /\ x.usage = x.count - rd[y].count
    BY <2>1 DEF Fits, Follows
  <2>4. \A s \in B : rd[s].count <= x.count
    <3> TAKE s \in B
    <3>1. rd[s].count <= rd[y].count
      BY <1>0, <1>1, <2>1, <2>2
    <3>. QED BY <3>1, <2>2, <2>3, <1>0, <1>n
  <2>5. UpTo(rd, c, y) = B
    <3>1. \A s \in L : rd[s].date <= rd[y].date => rd[s].date < x.date
      BY <1>0, <1>n, <2>2
    <3>. QED BY <3>1, <2>1, <1>0 DEF UpTo, Before
  <2>6. Counted(rd, B) <= rd[y].count
    BY <2>2, <2>5 DEF InLine
  <2>7. rd[y].count \in Nat
    BY <2>2, <1>n
  <2>8. Counted(rd, B) + x.usage <= x.count
    <3> HIDE DEF B
    <3>. QED BY <2>3, <2>6, <2>7, <1>2, <1>n
  <2>. QED BY <2>4, <2>8
<1>4. ASSUME A # {} PROVE x.usage = 0 /\ \A s \in A : x.count <= rd[s].count
  <2>1. PICK z \in A : \A s \in A : rd[z].date <= rd[s].date
    BY <1>0, <1>4, FirstOf
  <2>2. x.count <= rd[z].count /\ z \in L /\ z \in Readings
    BY <2>1, <1>0 DEF Fits
  <2>3. \A s \in A : x.count <= rd[s].count
    <3> TAKE s \in A
    <3>1. rd[z].count <= rd[s].count
      BY <1>0, <1>1, <2>1, <2>2
    <3>. QED BY <3>1, <2>2, <1>0, <1>n
  <2>4. PICK l \in L : \A s \in L : rd[s].date <= rd[l].date
    BY <1>0, <1>4, LastOf
  <2>5. l \in A
    <3>1. rd[z].date > x.date /\ rd[z].date <= rd[l].date /\ l \in Readings
      BY <2>2, <2>4, <1>0 DEF After
    <3>. QED BY <3>1, <2>2, <2>4, <1>n DEF After
  <2>6. rd[l].count <= x.count /\ x.usage = x.count - rd[l].count
    BY <2>4 DEF Fits, Follows
  <2>7. x.count <= rd[l].count /\ rd[l].count \in Nat
    BY <2>3, <2>5, <1>0, <1>n
  <2>8. x.usage = 0
    BY <2>6, <2>7, <1>n
  <2>. QED BY <2>3, <2>8
<1>5. ASSUME B = {} PROVE Counted(rd, B) + x.usage <= x.count
  <2>1. Counted(rd, B) = 0
    BY <1>5, CountedEmpty
  <2>2. A = {} => Lives(rd, c) = {}
    BY <1>0, <1>5, <1>n DEF Fits, Before, After
  <2>3. A = {} => x.usage <= x.count
    BY <2>2 DEF Fits
  <2>4. x.usage <= x.count
    <3> HIDE DEF A
    <3>. QED BY <1>4, <2>3, <1>n
  <2> HIDE DEF A, B
  <2>. QED BY <2>1, <2>4, <1>n
<1> HIDE DEF A, B
<1>6. A # {} => x.usage = 0
  BY <1>4
<1>7. \A s \in A : x.count <= rd[s].count
  BY <1>4
<1>8. \A s \in B : rd[s].count <= x.count
  BY <1>3
<1>9. Counted(rd, B) + x.usage <= x.count
  BY <1>3, <1>5
<1>. QED BY <1>2, <1>6, <1>7, <1>8, <1>9 DEF A, B

LEMMA LinePlaced ==
    ASSUME NEW rd \in Tables, NEW c, NEW x \in Line, NEW r \in Readings,
           InLine(rd, c), Fits(rd, c, x),
           rd[r].state = "NONE", x.state = "LIVE", x.on = c
    PROVE  InLine([rd EXCEPT ![r] = x], c)
<1> DEFINE rd2 == [rd EXCEPT ![r] = x]
           L == Lives(rd, c)
           B == Before(rd, c, x)
           A == After(rd, c, x)
<1>1. /\ rd2 \in Tables /\ rd2[r] = x
      /\ \A s \in Readings \ {r} : rd2[s] = rd[s]
      /\ \A s \in L : s \in Readings /\ s # r
      /\ Lives(rd2, c) = L \cup {r}
  BY DEF Lives, Tables
<1> HIDE DEF rd2
<1>n. /\ \A s \in Readings : rd[s].date \in Nat /\ rd[s].count \in Nat /\ rd[s].usage \in Nat
      /\ x.date \in Nat /\ x.count \in Nat /\ x.usage \in Nat
  BY TableNumbers, LineNumbers
<1>2. /\ \A s \in B : rd[s].count <= x.count
      /\ \A s \in A : x.count <= rd[s].count
      /\ A # {} => x.usage = 0
      /\ Counted(rd, B) \in Int
      /\ Counted(rd, B) + x.usage <= x.count
  BY LineFits
<1>3. /\ \A s \in L : s \in B \/ s \in A
      /\ \A s \in B : s \in L /\ rd[s].date < x.date
      /\ \A s \in A : s \in L /\ rd[s].date > x.date
  BY <1>1, <1>n DEF Before, After, Fits
<1>4. \A S \in SUBSET L : Counted(rd2, S) = Counted(rd, S) /\ Counted(rd2, S \cup {r}) = Counted(rd, S) + x.usage
  <2> TAKE S \in SUBSET L
  <2>1. \A s \in S : rd2[s].usage = rd[s].usage
    BY <1>1
  <2>2. Counted(rd2, S) = Counted(rd, S)
    BY <2>1, CountedSame
  <2>3. S \in SUBSET Readings /\ r \notin S
    BY <1>1
  <2>4. Counted(rd2, S \cup {r}) = Counted(rd2, S) + rd2[r].usage
    BY <1>1, <2>3, CountedMore
  <2>. QED BY <1>1, <2>2, <2>4
<1>5. Counted(rd2, UpTo(rd2, c, r)) <= rd2[r].count
  <2>1. UpTo(rd2, c, r) = B \cup {r}
    <3>1. \A s \in L : rd2[s].date <= x.date <=> s \in B
      BY <1>1, <1>3, <1>n
    <3>2. rd2[r].date <= x.date /\ rd2[r].date = x.date
      BY <1>1, <1>n
    <3>. QED BY <1>1, <1>3, <3>1, <3>2 DEF UpTo
  <2>2. B \in SUBSET L
    BY <1>3
  <2>. QED BY <2>1, <2>2, <1>1, <1>2, <1>4
<1>6. \A s \in L : Counted(rd2, UpTo(rd2, c, s)) <= rd2[s].count
  <2> SUFFICES ASSUME NEW s \in L PROVE Counted(rd2, UpTo(rd2, c, s)) <= rd2[s].count
    OBVIOUS
  <2>1. UpTo(rd, c, s) \in SUBSET L /\ Counted(rd, UpTo(rd, c, s)) <= rd[s].count /\ rd2[s] = rd[s]
    BY <1>1 DEF UpTo, InLine
  <2>2. \A u \in L : rd2[u].date = rd[u].date
    BY <1>1
  <2>3. CASE s \in B
    <3>1. ~(rd2[r].date <= rd2[s].date)
      BY <2>3, <1>1, <1>3, <1>n
    <3>2. UpTo(rd2, c, s) = UpTo(rd, c, s)
      BY <1>1, <2>2, <3>1 DEF UpTo
    <3>. QED BY <2>1, <3>2, <1>4
  <2>4. CASE s \in A
    <3>1. rd2[r].date <= rd2[s].date
      BY <2>4, <1>1, <1>3, <1>n
    <3>2. UpTo(rd2, c, s) = UpTo(rd, c, s) \cup {r}
      BY <1>1, <2>2, <3>1 DEF UpTo
    <3>3. x.usage = 0
      BY <2>4, <1>2
    <3>4. Counted(rd, UpTo(rd, c, s)) \in Int
      <4>1. UpTo(rd, c, s) \in SUBSET Readings
        BY <1>1, <2>1
      <4>. QED BY <4>1, CountedFewer
    <3>. QED BY <2>1, <3>2, <3>3, <3>4, <1>4
  <2>. QED BY <2>3, <2>4, <1>3
<1>7. \A s \in L : Rises(rd2, s, r) /\ Rises(rd2, r, s)
  <2> TAKE s \in L
  <2>1. rd2[s] = rd[s] /\ rd2[r] = x /\ s \in Readings
    BY <1>1
  <2>. QED BY <2>1, <1>2, <1>3, <1>n DEF Rises
<1>8. \A s \in L : \A u \in L \ {s} : Rises(rd2, s, u)
  BY <1>1 DEF InLine, Rises
<1>9. InLine(rd2, c)
  BY <1>1, <1>5, <1>6, <1>7, <1>8 DEF InLine
<1>. QED BY <1>9 DEF rd2
-----------------------------------------------------------------------------
(* While no request is in flight with another or with the job, what each   *)
(* of them has read is still so when it writes: the reading that goes in    *)
(* still fits, the one taken back is still not charged, and those the job   *)
(* charges for are still there.                                             *)

Rows == [Readings -> Row]
Of(k, x) == [state |-> x.state, on |-> x.on, date |-> x.date,
             count |-> Number(x.count[k]), usage |-> Number(x.usage[k])]
Counter(k, rd) == [r \in Readings |-> Of(k, rd[r])]
Complete(rd, c, k) == \A r \in Readings : rd[r].on = c => rd[r].count[k] # None
Has(rd, x, k) == x.count[k] # None /\ Complete(rd, x.on, k)

CountedFrom(rd, x) ==
    /\ \A y \in Lives(rd, x.on) :
         (\A s \in Lives(rd, x.on) : rd[s].date <= rd[y].date) => Follows(x, rd[y])
    /\ Lives(rd, x.on) = {} => x.usage <= x.count
Entering(rd, x) ==
    /\ x.state = "LIVE" /\ x.charged = Never
    /\ \A k \in Counters : Has(rd, x, k) => CountedFrom(Counter(k, rd), Of(k, x))
Placed(rd, x) == \A k \in Counters : Has(rd, x, k) => Fits(Counter(k, rd), x.on, Of(k, x))
Carried(rd, q) ==
    /\ q.op = "enter" => Entering(rd, q.row)
    /\ q.at = "checked" => q.op = "enter" /\ Placed(rd, q.row)
    /\ q.op = "cancel" => q.r \in Readings /\ rd[q.r].state = "LIVE" /\ rd[q.r].charged = Never

Sole ==
    /\ job # JobIdle => \A w \in Clients : req[w] = Idle
    /\ \A w, u \in Clients : req[w] # Idle /\ req[u] # Idle => w = u
SeenLive == job.on # None => \A r \in job.seen : reading[r].state = "LIVE"
Settled(rd) ==
    /\ \A r \in Readings : rd[r].charged # Never => rd[r].state = "LIVE"
    /\ \A c \in Contracts, k \in Counters : Complete(rd, c, k) => InLine(Counter(k, rd), c)
AddingUp == alone => Sole /\ SeenLive /\ Settled(reading) /\ \A w \in Clients : Carried(reading, req[w])

\* One counter of a reading, and of all of them.
LEMMA OfRow ==
    ASSUME NEW k \in Counters, NEW x \in Row
    PROVE  /\ Of(k, x) \in Line
           /\ Of(k, x).state = x.state /\ Of(k, x).on = x.on /\ Of(k, x).date = x.date
           /\ Of(k, x).count = Number(x.count[k]) /\ Of(k, x).usage = Number(x.usage[k])
           /\ x.count[k] # None => Of(k, x).count = x.count[k] /\ x.count[k] \in Nat
<1>1. /\ x.count \in Counts /\ x.usage \in Counts
      /\ x.state \in {"NONE", "LIVE", "CANCELED"} /\ x.on \in Contracts \cup {None} /\ x.date \in {0} \cup Days
  BY DEF Row
<1>2. Number(x.count[k]) \in 0..MaxCount /\ Number(x.usage[k]) \in 0..MaxCount
      /\ Number(x.count[k]) \in Nat /\ (x.count[k] # None => Number(x.count[k]) = x.count[k])
  BY <1>1, NumberType
<1>. QED BY <1>1, <1>2 DEF Of, Line

LEMMA CounterTable ==
    ASSUME NEW k \in Counters, NEW rd \in Rows
    PROVE  /\ Counter(k, rd) \in Tables
           /\ \A r \in Readings : Counter(k, rd)[r] = Of(k, rd[r]) /\ Counter(k, rd)[r].date = rd[r].date
                                   /\ Counter(k, rd)[r].state = rd[r].state /\ rd[r] \in Row
           /\ \A c : Lives(Counter(k, rd), c) = Lives(rd, c)
<1>1. \A r \in Readings : rd[r] \in Row /\ Counter(k, rd)[r] = Of(k, rd[r])
  BY DEF Rows, Counter
<1>2. \A r \in Readings : /\ Of(k, rd[r]) \in Line /\ Of(k, rd[r]).state = rd[r].state
                           /\ Of(k, rd[r]).on = rd[r].on /\ Of(k, rd[r]).date = rd[r].date
  BY <1>1, OfRow
<1>3. Counter(k, rd) \in Tables
  BY <1>2 DEF Counter, Tables
<1>. QED BY <1>1, <1>2, <1>3 DEF Lives

\* A table with fewer live readings, otherwise the same, keeps every counter in line.
LEMMA FewerInLine ==
    ASSUME NEW rd \in Rows, NEW rd2 \in Rows, NEW c, NEW k \in Counters, InLine(Counter(k, rd), c),
           Lives(rd2, c) \subseteq Lives(rd, c),
           \A s \in Lives(rd2, c) : /\ rd2[s].date = rd[s].date /\ rd2[s].count = rd[s].count
                                    /\ rd2[s].usage = rd[s].usage
    PROVE  InLine(Counter(k, rd2), c)
<1>1. /\ Counter(k, rd) \in Tables /\ Counter(k, rd2) \in Tables
      /\ Lives(Counter(k, rd), c) = Lives(rd, c) /\ Lives(Counter(k, rd2), c) = Lives(rd2, c)
      /\ \A r \in Readings : Counter(k, rd)[r] = Of(k, rd[r]) /\ Counter(k, rd2)[r] = Of(k, rd2[r])
  BY CounterTable
<1>2. ASSUME NEW s \in Lives(rd2, c)
      PROVE  /\ Counter(k, rd2)[s].date = Counter(k, rd)[s].date
             /\ Counter(k, rd2)[s].count = Counter(k, rd)[s].count
             /\ Counter(k, rd2)[s].usage = Counter(k, rd)[s].usage
  <2>1. s \in Readings
    BY DEF Lives
  <2>2. rd2[s].date = rd[s].date /\ rd2[s].count = rd[s].count /\ rd2[s].usage = rd[s].usage
    BY <1>2
  <2>3. rd[s] \in Row /\ rd2[s] \in Row
    BY <2>1, CounterTable
  <2>4. /\ Of(k, rd2[s]).date = Of(k, rd[s]).date /\ Of(k, rd2[s]).count = Of(k, rd[s]).count
        /\ Of(k, rd2[s]).usage = Of(k, rd[s]).usage
    BY <2>2, <2>3, OfRow
  <2>5. Counter(k, rd)[s] = Of(k, rd[s]) /\ Counter(k, rd2)[s] = Of(k, rd2[s])
    BY <1>1, <2>1
  <2>. QED BY <2>4, <2>5
<1>. QED BY <1>1, <1>2, LineOfFewer

\* Nothing is carried by a client at rest.
LEMMA IdleCarries == ASSUME NEW rd PROVE Carried(rd, Idle) /\ Idle.op = "idle" /\ Idle.at = "start"
BY DEF Carried, Idle

LEMMA RequestBegins ==
    ASSUME TypeOK, AddingUp, NEW w \in Clients, NEW q, Remember(w, q),
           alone /\ (\A u \in Clients \ {w} : req[u] = Idle) => Carried(reading, q)
    PROVE  AddingUp'
<1> SUFFICES ASSUME alone' PROVE (Sole /\ SeenLive /\ Settled(reading) /\ \A u \in Clients : Carried(reading, req[u]))'
  BY DEF AddingUp
<1>1. /\ alone /\ job = JobIdle /\ \A u \in Clients \ {w} : req[u] = Idle
      /\ reading' = reading /\ job' = job
      /\ req'[w] = q /\ \A u \in Clients \ {w} : req'[u] = Idle
  BY DEF Remember, rows, TypeOK
<1>2. Sole'
  BY <1>1 DEF Sole
<1>3. SeenLive'
  BY <1>1 DEF SeenLive, JobIdle
<1>4. Settled(reading')
  BY <1>1 DEF AddingUp
<1>5. \A u \in Clients : Carried(reading', req'[u])
  BY <1>1, IdleCarries
<1>. QED BY <1>2, <1>3, <1>4, <1>5

LEMMA RequestEnds ==
    ASSUME TypeOK, AddingUp, NEW w \in Clients, req[w] # Idle, Finish(w), alone => Settled(reading')
    PROVE  AddingUp'
<1> SUFFICES ASSUME alone' PROVE (Sole /\ SeenLive /\ Settled(reading) /\ \A u \in Clients : Carried(reading, req[u]))'
  BY DEF AddingUp
<1>1. alone /\ job' = job /\ req' = [req EXCEPT ![w] = Idle]
  BY DEF Finish
<1>2. job = JobIdle /\ \A u \in Clients \ {w} : req[u] = Idle
  BY <1>1 DEF AddingUp, Sole
<1>3. \A u \in Clients : req'[u] = Idle
  BY <1>1, <1>2 DEF TypeOK
<1>4. Sole'
  BY <1>3 DEF Sole
<1>5. SeenLive'
  BY <1>1, <1>2 DEF SeenLive, JobIdle
<1>6. \A u \in Clients : Carried(reading', req'[u])
  BY <1>3, IdleCarries
<1>. QED BY <1>1, <1>4, <1>5, <1>6

\* The reading a new one is counted from is the last, and there is one last.
LEMMA PreviousIsLast ==
    ASSUME TypeOK, NEW c, NEW k \in Counters, InLine(Counter(k, reading), c), NEW y \in Lives(reading, c),
           \A s \in Lives(reading, c) : reading[s].date <= reading[y].date
    PROVE  Previous(c) = reading[y]
<1>0. /\ reading \in Rows /\ Counter(k, reading) \in Tables
      /\ Lives(Counter(k, reading), c) = Lives(reading, c)
      /\ \A r \in Readings : Counter(k, reading)[r].date = reading[r].date
  BY CounterTable DEF TypeOK, Rows
<1>1. LiveOn(c) = Lives(reading, c) /\ LiveOn(c) # {} /\ LiveOn(c) \subseteq Readings
  BY DEF LiveOn, Lives
<1>2. PICK l \in LiveOn(c) : /\ l = (CHOOSE r \in LiveOn(c) : \A s \in LiveOn(c) : reading[s].date <= reading[r].date)
                             /\ \A s \in LiveOn(c) : reading[s].date <= reading[l].date
  BY <1>1
<1>3. l = y
  <2> SUFFICES ASSUME l # y PROVE FALSE
    OBVIOUS
  <2>1. Rises(Counter(k, reading), l, y)
    BY <1>0, <1>1, <1>2 DEF InLine
  <2>2. reading[l].date <= reading[y].date /\ reading[y].date <= reading[l].date
    BY <1>1, <1>2
  <2>3. reading[l].date \in Nat /\ reading[y].date \in Nat /\ reading[l].date # reading[y].date
    <3>1. l \in Readings /\ y \in Readings
      BY <1>1, <1>2
    <3>2. Counter(k, reading)[l].date \in Nat /\ Counter(k, reading)[y].date \in Nat
      BY <1>0, <3>1, TableNumbers
    <3>. QED BY <1>0, <2>1, <3>1, <3>2 DEF Rises
  <2>. QED BY <2>2, <2>3
<1>. QED BY <1>1, <1>2, <1>3 DEF Previous

\* What is entered with counter k goes on from the latest reading.
LEMMA EntryCounted ==
    ASSUME TypeOK, NEW x \in Row, NEW k \in Counters, Has(reading, x, k),
           Complete(reading, x.on, k) => InLine(Counter(k, reading), x.on),
           CountRises(Previous(x.on), x.count), x.usage = UsageSince(Previous(x.on), x.count)
    PROVE  CountedFrom(Counter(k, reading), Of(k, x))
<1> DEFINE c == x.on
           rd == Counter(k, reading)
           z == Of(k, x)
           p == Previous(c)
<1>1. /\ reading \in Rows /\ rd \in Tables /\ Lives(rd, c) = Lives(reading, c)
      /\ \A r \in Readings : rd[r] = Of(k, reading[r]) /\ rd[r].date = reading[r].date
  BY CounterTable DEF TypeOK, Rows
<1>2. InLine(rd, c) /\ x.count[k] # None
  BY DEF Has
<1>3. p \in Row /\ x.count \in Counts /\ p.count \in Counts
  BY PreviousType DEF Row
<1>4. x.count[k] >= Number(p.count[k]) /\ x.count[k] \in Nat /\ Number(p.count[k]) \in Nat
  BY <1>2, <1>3, NumberType DEF CountRises
<1>5. x.usage[k] = x.count[k] - Number(p.count[k]) /\ x.usage[k] # None
  BY <1>2, <1>3, UsageCounts
<1>6. z.on = c /\ z.count = x.count[k] /\ z.usage = x.usage[k]
  BY <1>2, <1>5, OfRow DEF Number
<1>7. z.usage <= z.count
  <2> HIDE DEF z
  <2>. QED BY <1>4, <1>5, <1>6
<1>8. ASSUME NEW y \in Lives(rd, c), \A s \in Lives(rd, c) : rd[s].date <= rd[y].date
      PROVE  Follows(z, rd[y])
  <2>1. y \in Readings /\ y \in Lives(reading, c) /\ \A s \in Lives(reading, c) : reading[s].date <= reading[y].date
    BY <1>1, <1>8 DEF Lives
  <2>2. p = reading[y]
    BY <1>2, <2>1, PreviousIsLast
  <2>3. rd[y].count = Number(p.count[k])
    <3>1. rd[y] = Of(k, p)
      BY <1>1, <2>1, <2>2
    <3>. QED BY <1>3, <3>1, OfRow
  <2>. QED BY <1>4, <1>5, <1>6, <2>3 DEF Follows
<1>9. \A y \in Lives(rd, z.on) : (\A s \in Lives(rd, z.on) : rd[s].date <= rd[y].date) => Follows(z, rd[y])
  <2>1. z.on = c
    BY <1>6
  <2> HIDE DEF rd, z, c
  <2>. QED BY <1>8, <2>1
<1> HIDE DEF rd, z
<1>10. CountedFrom(rd, z)
  BY <1>7, <1>9 DEF CountedFrom
<1>. QED BY <1>10 DEF rd, z

LEMMA EnterAdds == ASSUME TypeOK, AddingUp, NEW w \in Clients, Enter(w) PROVE AddingUp'
<1>1. PICK c \in Contracts, back \in 0..Backdating, count \in Entered :
         now > back /\ EnterBegin(w, c, now - back, count)
  BY DEF Enter
<1> DEFINE x == [state |-> "LIVE", on |-> c, date |-> now - back, count |-> count,
                 usage |-> UsageSince(Previous(c), count), charged |-> Never]
           q == [Idle EXCEPT !.op = "enter", !.row = x]
<1>2. Remember(w, q)
  BY <1>1 DEF EnterBegin
<1>3. /\ x.on = c /\ x.state = "LIVE" /\ x.charged = Never /\ x.count = count
      /\ x.usage = UsageSince(Previous(c), count)
  OBVIOUS
<1>4. x \in Row /\ CountRises(Previous(c), count)
  <2>1. count \in Counts /\ CountRises(Previous(c), count)
    BY <1>1, ConstantsAssumption DEF EnterBegin, ConstantsAssumption
  <2>2. UsageSince(Previous(c), count) \in Counts
    BY <2>1, PreviousType, UsageCounts
  <2>3. now - back \in Days
    <3>1. now \in Days /\ FirstDay[Len(FirstDay)] \in Nat
      BY Calendar DEF TypeOK
    <3>2. back \in Nat /\ now > back
      BY <1>1, ConstantsAssumption DEF ConstantsAssumption
    <3>. QED BY <3>1, <3>2 DEF Days
  <2>. QED BY <2>1, <2>2, <2>3 DEF Row
<1> HIDE DEF x
<1>5. alone => Entering(reading, x)
  <2> SUFFICES ASSUME alone PROVE Entering(reading, x)
    OBVIOUS
  <2>1. ASSUME NEW k \in Counters, Has(reading, x, k) PROVE CountedFrom(Counter(k, reading), Of(k, x))
    <3>1. Complete(reading, x.on, k) => InLine(Counter(k, reading), x.on)
      BY <1>1, <1>3 DEF AddingUp, Settled
    <3>. QED BY <1>3, <1>4, <2>1, <3>1, EntryCounted
  <2>. QED BY <1>3, <2>1 DEF Entering
<1>6. q.op = "enter" /\ q.at = "start" /\ q.row = x
  BY DEF Idle
<1> HIDE DEF q
<1>7. alone => Carried(reading, q)
  BY <1>5, <1>6 DEF Carried
<1>. QED BY <1>2, <1>7, RequestBegins

\* The trigger and the index together: what is inserted fits, counter by counter.
LEMMA CheckedFits ==
    ASSUME TypeOK, NEW x \in Row, NEW k \in Counters, Has(reading, x, k),
           CountedFrom(Counter(k, reading), Of(k, x)), UsageFits(x),
           \A r \in Readings : reading[r].on = x.on => reading[r].date # x.date
    PROVE  Fits(Counter(k, reading), x.on, Of(k, x))
<1> DEFINE rd == Counter(k, reading)
           z == Of(k, x)
           live == {reading[r] : r \in LiveOn(x.on)}
           before == {y \in live : y.date < x.date}
           after == {y \in live : y.date > x.date}
<1>r. reading \in Rows
  BY DEF TypeOK, Rows
<1>l. LiveOn(x.on) = Lives(reading, x.on)
  BY DEF LiveOn, Lives
<1>0. /\ rd \in Tables /\ Lives(rd, x.on) = Lives(reading, x.on) /\ LiveOn(x.on) = Lives(reading, x.on)
      /\ \A r \in Readings : rd[r] = Of(k, reading[r]) /\ rd[r].date = reading[r].date /\ reading[r] \in Row
  BY <1>r, <1>l, CounterTable
<1>1. z.date = x.date /\ z.on = x.on /\ z.count = x.count[k] /\ x.count[k] \in Nat /\ x.count[k] # None
      /\ z.usage = Number(x.usage[k])
  BY OfRow DEF Has
<1>2. ASSUME NEW y \in Lives(reading, x.on)
      PROVE  /\ y \in Readings /\ reading[y].count[k] # None /\ reading[y].count[k] \in Nat
             /\ rd[y].count = reading[y].count[k]
  <2>1. y \in Readings /\ reading[y].on = x.on
    BY <1>2 DEF Lives
  <2>2. reading[y].count[k] # None
    BY <2>1 DEF Has, Complete
  <2>. QED BY <1>0, <2>1, <2>2, OfRow
<1>3. \A s \in Lives(rd, x.on) : rd[s].date # z.date
  BY <1>0, <1>1 DEF Lives
<1>4. ASSUME NEW y \in Before(rd, x.on, z),
             \A s \in Before(rd, x.on, z) : rd[s].date <= rd[y].date
      PROVE  Follows(z, rd[y])
  <2>0. y \in Lives(reading, x.on) /\ rd[y].date < z.date
    BY <1>0 DEF Before
  <2>1. reading[y] \in before
    BY <1>0, <1>1, <1>2, <2>0
  <2>2. \A u \in before : u.date <= reading[y].date
    <3> TAKE u \in before
    <3>1. PICK s \in Lives(reading, x.on) : u = reading[s] /\ reading[s].date < x.date
      BY <1>0
    <3>2. s \in Readings /\ y \in Readings
      BY <1>2, <2>0, <3>1
    <3>3. s \in Before(rd, x.on, z)
      BY <1>0, <1>1, <3>1, <3>2 DEF Before
    <3>. QED BY <1>0, <1>4, <3>1, <3>2, <3>3
  <2>3. Continues(reading[y], x)
    BY <2>1, <2>2 DEF UsageFits
  <2>4. reading[y].count[k] <= x.count[k] /\ x.usage[k] = x.count[k] - reading[y].count[k]
    BY <1>1, <1>2, <2>0, <2>3 DEF Continues
  <2>5. x.usage[k] \in Nat
    BY <1>1, <1>2, <2>0, <2>4
  <2>6. z.usage = x.usage[k]
    BY <1>1, <2>5, ConstantsAssumption DEF ConstantsAssumption, Number
  <2>. QED BY <1>1, <1>2, <2>0, <2>4, <2>6 DEF Follows
<1>5. ASSUME NEW y \in After(rd, x.on, z),
             \A s \in After(rd, x.on, z) : rd[y].date <= rd[s].date
      PROVE  z.count <= rd[y].count
  <2>0. y \in Lives(reading, x.on) /\ rd[y].date > z.date
    BY <1>0 DEF After
  <2>1. reading[y] \in after
    BY <1>0, <1>1, <1>2, <2>0
  <2>2. \A u \in after : u.date >= reading[y].date
    <3> TAKE u \in after
    <3>1. PICK s \in Lives(reading, x.on) : u = reading[s] /\ reading[s].date > x.date
      BY <1>0
    <3>2. s \in Readings /\ y \in Readings
      BY <1>2, <2>0, <3>1
    <3>3. s \in After(rd, x.on, z)
      BY <1>0, <1>1, <3>1, <3>2 DEF After
    <3>4. rd[y].date <= rd[s].date /\ rd[y].date \in Nat /\ rd[s].date \in Nat
      BY <1>0, <1>5, <3>2, <3>3, TableNumbers
    <3>. QED BY <1>0, <3>1, <3>2, <3>4
  <2>3. Continues(x, reading[y])
    BY <2>1, <2>2 DEF UsageFits
  <2>4. x.count[k] <= reading[y].count[k]
    BY <1>1, <1>2, <2>0, <2>3 DEF Continues
  <2>. QED BY <1>1, <1>2, <2>0, <2>4
<1>6. /\ \A y \in Lives(rd, x.on) : (\A s \in Lives(rd, x.on) : rd[s].date <= rd[y].date) => Follows(z, rd[y])
      /\ Lives(rd, x.on) = {} => z.usage <= z.count
  BY <1>1 DEF CountedFrom
<1> HIDE DEF rd, z
<1>7. Fits(rd, x.on, z)
  BY <1>3, <1>4, <1>5, <1>6 DEF Fits
<1>. QED BY <1>7 DEF rd, z

LEMMA InsertAdds == ASSUME TypeOK, AddingUp, NEW w \in Clients, EnterInsert(w) PROVE AddingUp'
<1> DEFINE x == req[w].row
           q == [req[w] EXCEPT !.at = "checked"]
<1>1. req[w].op = "enter" /\ UsageFits(x) /\ Remember(w, q)
  BY DEF EnterInsert
<1>2. \A r \in Readings : reading[r].on = x.on => reading[r].date # x.date
  BY DEF EnterInsert
<1>3. req[w] \in RequestType /\ x \in Row
  BY DEF TypeOK, RequestType
<1>4. q.op = "enter" /\ q.at = "checked" /\ q.row = x
  BY <1>1, <1>3 DEF RequestType
<1> HIDE DEF q
<1>5. alone => Entering(reading, x)
  BY <1>1 DEF AddingUp, Carried
<1> HIDE DEF x
<1>6. alone => Placed(reading, x)
  BY <1>1, <1>2, <1>3, <1>5, CheckedFits DEF Entering, Placed
<1>7. alone => Carried(reading, q)
  BY <1>4, <1>5, <1>6 DEF Carried
<1>. QED BY <1>1, <1>7, RequestBegins
LEMMA CommitAdds ==
    ASSUME TypeOK, AddingUp, NEW w \in Clients, NEW r \in Readings, EnterCommit(w, r)
    PROVE  AddingUp'
<1> DEFINE x == req[w].row
           rd == [reading EXCEPT ![r] = x]
<1>1. req[w].at = "checked" /\ reading[r] = NoReading /\ reading' = rd /\ Finish(w)
  BY DEF EnterCommit
<1>2. req[w] # Idle /\ x \in Row /\ reading \in Rows
  BY <1>1, IdleCarries DEF TypeOK, RequestType, Rows
<1>3. rd \in Rows /\ rd[r] = x /\ \A s \in Readings \ {r} : rd[s] = reading[s]
  BY <1>2 DEF Rows
<1>4. ASSUME alone PROVE Settled(rd)
  <2>1. Carried(reading, req[w]) /\ Settled(reading)
    BY <1>4 DEF AddingUp
  <2>2. req[w].op = "enter" /\ Placed(reading, x)
    BY <1>1, <2>1 DEF Carried
  <2>3. x.state = "LIVE" /\ x.charged = Never
    BY <2>1, <2>2 DEF Carried, Entering
  <2>4. reading[r].state = "NONE" /\ reading[r].on = None /\ None \notin Contracts
    BY <1>1, ConstantsAssumption DEF NoReading, ConstantsAssumption
  <2> HIDE DEF x
  <2>5. \A s \in Readings : rd[s].charged # Never => rd[s].state = "LIVE"
    <3> HIDE DEF rd
    <3>. QED BY <1>3, <2>1, <2>3 DEF Settled
  <2>6. ASSUME NEW c \in Contracts, NEW k \in Counters, Complete(rd, c, k) PROVE InLine(Counter(k, rd), c)
    <3>0. Complete(reading, c, k)
      <4> HIDE DEF rd
      <4>. QED BY <1>3, <2>4, <2>6 DEF Complete
    <3>1. InLine(Counter(k, reading), c)
      BY <2>1, <3>0 DEF Settled
    <3>2. CASE x.on = c
      <4>1. x.count[k] # None
        <5> HIDE DEF rd
        <5>. QED BY <1>3, <2>6, <3>2 DEF Complete
      <4>2. Fits(Counter(k, reading), c, Of(k, x))
        BY <2>2, <3>0, <3>2, <4>1 DEF Placed, Has
      <4>3. /\ Counter(k, reading) \in Tables /\ Counter(k, reading)[r].state = "NONE"
            /\ Of(k, x) \in Line /\ Of(k, x).state = "LIVE" /\ Of(k, x).on = c
        BY <1>2, <2>3, <2>4, <3>2, CounterTable, OfRow
      <4>4. InLine([Counter(k, reading) EXCEPT ![r] = Of(k, x)], c)
        BY <3>1, <4>2, <4>3, LinePlaced
      <4>5. Counter(k, rd) = [Counter(k, reading) EXCEPT ![r] = Of(k, x)]
        <5> HIDE DEF rd
        <5>. QED BY <1>3 DEF Counter
      <4>. QED BY <4>4, <4>5
    <3>3. CASE x.on # c
      <4> HIDE DEF rd
      <4>1. /\ Lives(rd, c) \subseteq Lives(reading, c)
            /\ \A s \in Lives(rd, c) : /\ rd[s].date = reading[s].date /\ rd[s].count = reading[s].count
                                       /\ rd[s].usage = reading[s].usage
        BY <1>3, <3>3 DEF Lives
      <4>. QED BY <1>2, <1>3, <3>1, <4>1, FewerInLine
    <3>. QED BY <3>2, <3>3
  <2> HIDE DEF rd
  <2>. QED BY <2>5, <2>6 DEF Settled
<1> HIDE DEF x, rd
<1>. QED BY <1>1, <1>2, <1>4, RequestEnds

LEMMA CancelAdds ==
    ASSUME TypeOK, AddingUp, NEW w \in Clients, CancelCommit(w)
    PROVE  AddingUp'
<1>1. PICK r : r = req[w].r
  OBVIOUS
<1> DEFINE rd == [reading EXCEPT ![r].state = "CANCELED"]
<1>2. req[w].op = "cancel" /\ reading' = rd /\ Finish(w)
  BY <1>1 DEF CancelCommit
<1>3. req[w] # Idle /\ reading \in Rows
  BY <1>2, IdleCarries DEF TypeOK, Rows
<1>4. ASSUME alone PROVE Settled(rd)
  <2>1. Carried(reading, req[w]) /\ Settled(reading)
    BY <1>4 DEF AddingUp
  <2>2. r \in Readings /\ reading[r].charged = Never
    BY <1>1, <1>2, <2>1 DEF Carried
  <2>3. /\ rd \in Rows /\ rd[r].state = "CANCELED"
        /\ rd[r].charged = reading[r].charged /\ rd[r].on = reading[r].on /\ rd[r].count = reading[r].count
        /\ \A s \in Readings \ {r} : rd[s] = reading[s]
    BY <1>3, <2>2 DEF Rows, Row
  <2> HIDE DEF rd
  <2>4. \A s \in Readings : rd[s].charged # Never => rd[s].state = "LIVE"
    BY <2>1, <2>2, <2>3 DEF Settled
  <2>5. ASSUME NEW c \in Contracts, NEW k \in Counters, Complete(rd, c, k) PROVE InLine(Counter(k, rd), c)
    <3>0. Complete(reading, c, k)
      BY <2>3, <2>5 DEF Complete
    <3>1. InLine(Counter(k, reading), c)
      BY <2>1, <3>0 DEF Settled
    <3>2. /\ Lives(rd, c) \subseteq Lives(reading, c)
          /\ \A s \in Lives(rd, c) : /\ rd[s].date = reading[s].date /\ rd[s].count = reading[s].count
                                     /\ rd[s].usage = reading[s].usage
      BY <2>3 DEF Lives
    <3>. QED BY <1>3, <2>3, <3>1, <3>2, FewerInLine
  <2>. QED BY <2>4, <2>5 DEF Settled
<1> HIDE DEF rd
<1>. QED BY <1>2, <1>3, <1>4, RequestEnds

LEMMA ClientsAdd ==
    ASSUME TypeOK, AddingUp, NEW w \in Clients,
           \/ Enter(w) \/ EnterInsert(w) \/ CancelCommit(w) \/ Abort(w)
           \/ \E r \in Readings : EnterCommit(w, r) \/ CancelBegin(w, r)
    PROVE  AddingUp'
<1>1. ASSUME NEW r \in Readings, CancelBegin(w, r) PROVE AddingUp'
  <2> DEFINE q == [Idle EXCEPT !.op = "cancel", !.r = r]
  <2>1. Remember(w, q) /\ reading[r].state = "LIVE" /\ reading[r].charged = Never
    BY <1>1 DEF CancelBegin, MayCancel
  <2>2. q.op = "cancel" /\ q.at = "start" /\ q.r = r
    BY DEF Idle
  <2> HIDE DEF q
  <2>3. Carried(reading, q)
    BY <2>1, <2>2 DEF Carried
  <2>. QED BY <2>1, <2>3, RequestBegins
<1>2. CASE Abort(w)
  <2>1. req[w] # Idle /\ Finish(w) /\ reading' = reading
    BY <1>2 DEF Abort
  <2>2. alone => Settled(reading')
    BY <2>1 DEF AddingUp
  <2>. QED BY <2>1, <2>2, RequestEnds
<1>. QED BY <1>1, <1>2, EnterAdds, InsertAdds, CommitAdds, CancelAdds

\* The job finds no request in flight; what it writes is the link of readings still there.
LEMMA JobAdds == ASSUME TypeOK, AddingUp, JobStep PROVE AddingUp'
<1> SUFFICES ASSUME alone' PROVE (Sole /\ SeenLive /\ Settled(reading) /\ \A w \in Clients : Carried(reading, req[w]))'
  BY DEF AddingUp
<1>1. alone /\ req' = req
  BY DEF JobStep, JobStart, JobSkip, JobRead, JobWrite, JobFail, JobCrash, TypeOK
<1>2. Sole /\ SeenLive /\ Settled(reading)
  BY <1>1 DEF AddingUp
<1>3. \A w \in Clients : req[w] = Idle
  <2>1. CASE JobStart
    BY <2>1 DEF JobStart, TypeOK
  <2>2. CASE ~JobStart
    <3>1. job # JobIdle
      <4>0. JobIdle.todo = {} /\ JobIdle.on = None
        BY DEF JobIdle
      <4>1. ASSUME NEW c \in Contracts, JobSkip(c) \/ JobRead(c) PROVE job # JobIdle
        BY <4>0, <4>1 DEF JobSkip, JobRead
      <4>2. CASE JobWrite \/ JobFail
        BY <4>0, <4>2 DEF JobWrite, JobFail
      <4>3. CASE JobCrash
        BY <4>3 DEF JobCrash
      <4>. QED BY <2>2, <4>1, <4>2, <4>3 DEF JobStep
    <3>. QED BY <1>2, <3>1 DEF Sole
  <2>. QED BY <2>1, <2>2
<1>4. Sole' /\ \A w \in Clients : Carried(reading', req'[w])
  BY <1>1, <1>3, IdleCarries DEF Sole
<1>5. SeenLive'
  <2>1. ASSUME NEW c \in Contracts, JobRead(c) PROVE SeenLive'
    <3>1. job'.seen = ToCharge(c) /\ reading' = reading
      BY <2>1 DEF JobRead, rows
    <3>. QED BY <3>1 DEF SeenLive, ToCharge, LiveOn
  <2>2. ASSUME NEW c \in Contracts, JobSkip(c) PROVE SeenLive'
    <3>1. job \in JobType
      BY DEF TypeOK, JobType
    <3>2. job'.on = None
      BY <2>2, <3>1 DEF JobSkip, JobType
    <3>. QED BY <3>2 DEF SeenLive
  <2>3. CASE JobStart \/ JobWrite \/ JobFail \/ JobCrash
    <3>1. job \in JobType
      BY DEF TypeOK, JobType
    <3>2. job'.on = None
      <4>1. CASE JobStart
        <5>1. \A D : [JobIdle EXCEPT !.todo = D].on = None
          BY DEF JobIdle
        <5>. QED BY <4>1, <5>1 DEF JobStart
      <4>2. CASE JobWrite \/ JobFail
        BY <3>1, <4>2 DEF JobWrite, JobFail, JobType
      <4>3. CASE JobCrash
        BY <4>3 DEF JobCrash, JobIdle
      <4>. QED BY <2>3, <4>1, <4>2, <4>3
    <3>. QED BY <3>2 DEF SeenLive
  <2>. QED BY <2>1, <2>2, <2>3 DEF JobStep
<1>6. Settled(reading')
  <2>1. CASE JobWrite
    <3>1. PICK m : m = BillingMonth(job.on)
      OBVIOUS
    <3>2. PICK S : S = IF \E k \in Counters : UsageOf(k, job.seen) > Free[k] THEN job.seen ELSE {}
      OBVIOUS
    <3>3. job.on # None /\ reading' = [r \in Readings |-> IF r \in S THEN [reading[r] EXCEPT !.charged = m]
                                                          ELSE reading[r]]
      BY <2>1, <3>1, <3>2 DEF JobWrite
    <3>4. \A r \in S : reading[r].state = "LIVE"
      BY <1>2, <3>2, <3>3 DEF SeenLive
    <3>5. reading \in Rows /\ reading' \in Rows
      BY JobTyped DEF TypeOK, Rows
    <3>6. \A r \in Readings : /\ reading'[r].state = reading[r].state /\ reading'[r].on = reading[r].on
                              /\ reading'[r].date = reading[r].date /\ reading'[r].count = reading[r].count
                              /\ reading'[r].usage = reading[r].usage
                              /\ r \notin S => reading'[r].charged = reading[r].charged
      <4> TAKE r \in Readings
      <4>1. reading[r] \in Row
        BY <3>5 DEF Rows
      <4>2. CASE r \in S
        BY <3>3, <4>1, <4>2 DEF Row
      <4>3. CASE r \notin S
        BY <3>3, <4>3
      <4>. QED BY <4>2, <4>3
    <3>7. \A r \in Readings : reading'[r].charged # Never => reading'[r].state = "LIVE"
      BY <1>2, <3>4, <3>6 DEF Settled
    <3>8. ASSUME NEW c \in Contracts, NEW k \in Counters, Complete(reading', c, k)
          PROVE  InLine(Counter(k, reading'), c)
      <4>0. Complete(reading, c, k)
        BY <3>6, <3>8 DEF Complete
      <4>1. InLine(Counter(k, reading), c)
        BY <1>2, <4>0 DEF Settled
      <4>2. Lives(reading', c) \subseteq Lives(reading, c) /\ Lives(reading', c) \subseteq Readings
        BY <3>6 DEF Lives
      <4>. QED BY <3>5, <3>6, <4>1, <4>2, FewerInLine
    <3>. QED BY <3>7, <3>8 DEF Settled
  <2>2. CASE ~JobWrite
    <3>1. reading' = reading
      BY <2>2 DEF JobStep, JobStart, JobSkip, JobRead, JobFail, JobCrash, rows
    <3>. QED BY <1>2, <3>1
  <2>. QED BY <2>1, <2>2
<1>. QED BY <1>4, <1>5, <1>6

LEMMA NextAdds == ASSUME TypeOK, AddingUp, [Next]_vars PROVE AddingUp'
<1>1. CASE NextDay \/ UNCHANGED vars
  <2>1. reading' = reading /\ job' = job /\ req' = req /\ alone' = alone
    BY <1>1 DEF NextDay, vars, rows
  <2>. QED BY <2>1 DEF AddingUp, Sole, SeenLive
<1>. QED BY <1>1, ClientsAdd, JobAdds DEF Next, JobStep

LEMMA InitAdds == Init => AddingUp
<1> SUFFICES ASSUME Init PROVE Sole /\ SeenLive /\ Settled(reading) /\ \A w \in Clients : Carried(reading, req[w])
  BY DEF AddingUp
<1>1. reading = [r \in Readings |-> NoReading] /\ job = JobIdle /\ \A w \in Clients : req[w] = Idle
  BY DEF Init
<1>2. \A c \in Contracts, k \in Counters : Lives(Counter(k, reading), c) = {}
  BY <1>1 DEF Lives, NoReading, Counter, Of
<1>3. Settled(reading)
  BY <1>1, <1>2 DEF Settled, InLine, NoReading
<1>. QED BY <1>1, <1>3, IdleCarries DEF Sole, SeenLive, JobIdle

\* As long as requests keep out of each other's and the job's way, what was charged for
\* stays a valid reading, and the readings of a counter, in whatever order of dates they
\* were entered and canceled, never count more than it shows: of the color counter, where
\* no reading left it out.
THEOREM MetersAddUp == Spec => []ReadingsAddUp
<1>1. Init => TypeOK /\ AddingUp
  BY InitTyped, InitAdds
<1>2. TypeOK /\ AddingUp /\ [Next]_vars => (TypeOK /\ AddingUp)'
  BY NextTyped, NextAdds
<1>3. TypeOK /\ AddingUp => ReadingsAddUp
  <2> SUFFICES ASSUME TypeOK, AddingUp, alone PROVE ChargedReadingStands /\ NeverOvercounted
    BY DEF ReadingsAddUp
  <2>1. Settled(reading) /\ reading \in Rows
    BY DEF AddingUp, TypeOK, Rows
  <2>2. ChargedReadingStands
    BY <2>1 DEF Settled, ChargedReadingStands
  <2>3. ASSUME NEW c \in Contracts, NEW k \in Counters, LiveOn(c) # {}, NoneWithout(c, k)
        PROVE  \E r \in LiveOn(c) : UsageOf(k, LiveOn(c)) <= reading[r].count[k]
    <3> DEFINE rd == Counter(k, reading)
    <3>0. InLine(rd, c)
      BY <2>1, <2>3 DEF Settled, Complete, NoneWithout
    <3>1. /\ rd \in Tables /\ LiveOn(c) = Lives(rd, c) /\ LiveOn(c) \in SUBSET Readings
          /\ \A r \in Readings : rd[r] = Of(k, reading[r]) /\ reading[r] \in Row
      BY <2>1, CounterTable DEF LiveOn, Lives
    <3>2. PICK r \in LiveOn(c) : \A s \in LiveOn(c) : rd[s].date <= rd[r].date
      BY <2>3, <3>1, LastOf
    <3>3. UpTo(rd, c, r) = LiveOn(c)
      BY <3>1, <3>2 DEF UpTo
    <3>4. Counted(rd, LiveOn(c)) <= rd[r].count
      BY <3>0, <3>1, <3>3 DEF InLine
    <3>5. rd[r].count = reading[r].count[k]
      BY <2>3, <3>1, <3>2, OfRow DEF NoneWithout, LiveOn
    <3>6. Counted(rd, LiveOn(c)) = UsageOf(k, LiveOn(c))
      <4>1. [s \in LiveOn(c) |-> rd[s].usage] = [s \in LiveOn(c) |-> Number(reading[s].usage[k])]
        <5> SUFFICES ASSUME NEW s \in LiveOn(c) PROVE rd[s].usage = Number(reading[s].usage[k])
          OBVIOUS
        <5>1. s \in Readings
          BY <3>1
        <5>2. rd[s] = Of(k, reading[s]) /\ reading[s] \in Row
          BY <3>1, <5>1
        <5> HIDE DEF rd
        <5>. QED BY <5>2, OfRow
      <4>. QED BY <4>1 DEF Counted, UsageOf
    <3>. QED BY <3>4, <3>5, <3>6
  <2>. QED BY <2>2, <2>3 DEF NeverOvercounted
<1>. QED BY <1>1, <1>2, <1>3, PTL DEF Spec

=============================================================================
