--------------------------- MODULE InvoiceBilling ---------------------------
(***************************************************************************)
(* Recurring billing: BillingJobsService (the daily renewal, retry and     *)
(* downgrade) and InvoiceBillingService (generation of an invoice, charge, *)
(* dunning, retry), with the requests that touch the same rows: a call     *)
(* whose usage is recorded, a customer who generates an invoice, and the   *)
(* gateway's notice of a failed payment.                                   *)
(*                                                                         *)
(* Several server instances run the same cron.  Every database statement   *)
(* is one action; time passes in days, and only between the daily runs.    *)
(***************************************************************************)
EXTENDS Integers, FiniteSets, Sequences

CONSTANTS
    Customers,
    Cancelling,   \* customers with cancelAtPeriodEnd
    LastCycle,    \* the cycle in which the observation ends
    Jobs,         \* server instances, each with its daily run
    Reqs,         \* requests and webhook notices; each is made at most once
    Ops,          \* what the requests of an instance do
    Nobody,       \* the invoice of a process that is working on none
    Schedule,     \* DUNNING_RETRY_SCHEDULE_DAYS, <<1, 3, 7>> in the code
    GraceDays,    \* 7 in the code
    Free,         \* minutes of a cycle that are not charged
    MaxLost,      \* charges whose success the server does not learn of
    MaxFaults,    \* how many database statements may fail
    MaxCrashes    \* how many times the servers may restart

VARIABLES
    account,      \* Subscription.status
    period,       \* Subscription.currentPeriodStart, as a number of cycles
    ended,        \* Subscription.currentPeriodEnd has passed
    grace,        \* days until Subscription.gracePeriodEndsAt
    used,         \* minutes recorded in the Usage row of a cycle
    state,        \* UsageInvoice.status; "none" for a row not created yet
    total,        \* UsageInvoice.totalPaise
    retryIn,      \* days until UsageInvoice.nextRetryAt, or Never
    begun,        \* days since UsageInvoice.dunningStartedAt
    tries,        \* UsageInvoice.retryCount
    pc,           \* next statement of a process
    phase,        \* part of the daily run that a job is in
    ran,          \* the instance has started its run of the day
    todo,         \* rows that a loop of the run has still to visit
    at,           \* the invoice that a process works on
    amount,       \* the total that generateInvoiceForCycle has computed
    seen,         \* retryCount and age of dunning that a retry has read
    rolls,        \* history: how often a cycle was closed
    asked,        \* history: how often the gateway was asked for the money
    reopens,      \* history: how often a retry put back to open what was not
    taken,        \* history: how often the gateway took the money
    faults, crashes, lost

subscription == <<account, period, ended, grace>>
row == <<state, total, retryIn, begun, tries>>
locals == <<pc, phase, ran, todo, at, amount, seen>>
history == <<rolls, asked, reopens, taken>>
bounds == <<faults, crashes, lost>>
vars == <<subscription, used, row, locals, history, bounds>>

Cycles == 0..LastCycle
Invoices == Customers \X Cycles
InvoicesOf(c) == {c} \X Cycles
Procs == Jobs \cup Reqs

AllOps == {"record", "generate", "notice"}
Account == {"ACTIVE", "PAST_DUE", "CANCELED"}
InvoiceStates == {"none", "open", "processing", "paid", "dunning", "failed"}
Phases == {"renew", "retry", "downgrade"}

(* Days until a moment: 0 is some time today, Passed any earlier day. *)
Passed == -1
Never == -2
Offsets == {Schedule[n] : n \in 1..Len(Schedule)}

ASSUME InvoiceAssumption ==
    /\ Ops \subseteq AllOps
    /\ Cancelling \subseteq Customers
    /\ Jobs \cap Reqs = {}
    /\ LastCycle \in Nat
    /\ Nobody \notin Invoices
    /\ Schedule \in Seq(Nat) /\ Len(Schedule) > 0
    /\ GraceDays \in Nat /\ Free \in Nat
    /\ MaxLost \in Nat /\ MaxFaults \in Nat /\ MaxCrashes \in Nat

(* Ages are counted no further than any comparison with them can tell. *)
MaxAge == CHOOSE d \in Offsets : \A e \in Offsets : e <= d
Older(d) == IF d <= MaxAge THEN d + 1 ELSE d
Sooner(d) == IF d >= 0 THEN d - 1 ELSE d
DaysUntil(d) == IF d >= 0 THEN d ELSE Passed

(* The moments before "now" in a query: all that have passed, and of those *)
(* that lie on this day the ones whose hour has come.                      *)
ComeToday(days, X) == SUBSET {x \in X : days[x] = 0}
Come(days, X) ==
    LET passed == {x \in X : days[x] = Passed}
        today == {x \in X : days[x] = 0}
    IN  {passed \cup Y : Y \in SUBSET today}

Billable(minutes) == IF minutes > Free THEN minutes - Free ELSE 0

GeneratePCs == {"existing", "usage", "create"}
ChargePCs == {"charge", "claim", "gateway", "paid", "clear", "dun"}
JobPCs == {"idle", "next", "reopen", "resched", "reset"}
              \cup GeneratePCs \cup ChargePCs
ReqPCs == {"fresh", "record", "done"} \cup GeneratePCs
PCs == JobPCs \cup ReqPCs
RestPCs == {"idle", "fresh", "done"}

Init ==
    /\ account = [c \in Customers |-> "ACTIVE"]
    /\ period = [c \in Customers |-> 0]
    /\ ended = [c \in Customers |-> FALSE]
    /\ grace = [c \in Customers |-> Passed]
    /\ used = [i \in Invoices |-> 0]
    /\ state = [i \in Invoices |-> "none"]
    /\ total = [i \in Invoices |-> 0]
    /\ retryIn = [i \in Invoices |-> Never]
    /\ begun = [i \in Invoices |-> 0]
    /\ tries = [i \in Invoices |-> 0]
    /\ pc = [p \in Procs |-> IF p \in Jobs THEN "idle" ELSE "fresh"]
    /\ phase = [j \in Jobs |-> "renew"]
    /\ ran = [j \in Jobs |-> FALSE]
    /\ todo = [j \in Jobs |-> {}]
    /\ at = [p \in Procs |-> Nobody]
    /\ amount = [p \in Procs |-> 0]
    /\ seen = [j \in Jobs |-> [tries |-> 0, begun |-> 0]]
    /\ rolls = [i \in Invoices |-> 0]
    /\ asked = [i \in Invoices |-> 0]
    /\ reopens = [i \in Invoices |-> 0]
    /\ taken = [i \in Invoices |-> 0]
    /\ faults = 0
    /\ crashes = 0
    /\ lost = 0

----------------------------------------------------------------------------
(* Time.  A run takes less than a day.                                     *)

PeriodEnds(c) ==
    /\ ~ended[c]
    /\ period[c] < LastCycle
    /\ ended' = [ended EXCEPT ![c] = TRUE]
    /\ UNCHANGED <<account, period, grace, used, row, locals, history, bounds>>

NextDay ==
    /\ \A j \in Jobs : pc[j] = "idle"
    /\ ran' = [j \in Jobs |-> FALSE]
    /\ grace' = [c \in Customers |-> Sooner(grace[c])]
    /\ retryIn' = [i \in Invoices |-> Sooner(retryIn[i])]
    /\ begun' = [i \in Invoices |->
                    IF state[i] = "dunning" THEN Older(begun[i]) ELSE begun[i]]
    /\ UNCHANGED <<account, period, ended, used, state, total, tries, pc, phase,
                   todo, at, amount, seen, rolls, asked, reopens, taken, bounds>>

----------------------------------------------------------------------------
(* The daily run: handleDailyBilling and its three loops.  A loop visits   *)
(* the rows it read at its start, however they have changed since.         *)

InFlight(p) == pc[p] \notin RestPCs

Goto(p, label) == pc' = [pc EXCEPT ![p] = label]
TakeUp(p, i) == at' = [at EXCEPT ![p] = i]
Visited(j, i) == todo' = [todo EXCEPT ![j] = @ \ {i}]

StartJob(j) ==
    /\ pc[j] = "idle"
    /\ ~ran[j]
    /\ ran' = [ran EXCEPT ![j] = TRUE]
    /\ phase' = [phase EXCEPT ![j] = "renew"]
    /\ todo' = [todo EXCEPT ![j] =
                    {i \in Invoices : /\ account[i[1]] = "ACTIVE"
                                      /\ ended[i[1]]
                                      /\ i[2] = period[i[1]]}]
    /\ Goto(j, "next")
    /\ UNCHANGED <<subscription, used, row, at, amount, seen, history, bounds>>

LoopEnds(j, ph) == pc[j] = "next" /\ phase[j] = ph /\ todo[j] = {}

StartRetries(j) ==
    /\ LoopEnds(j, "renew")
    /\ phase' = [phase EXCEPT ![j] = "retry"]
    /\ \E I \in Come(retryIn, {i \in Invoices : state[i] = "dunning"}) :
        todo' = [todo EXCEPT ![j] = I]
    /\ UNCHANGED <<subscription, used, row, pc, ran, at, amount, seen, history, bounds>>

(* The customers are represented by the invoice of their current cycle. *)
StartDowngrades(j) ==
    /\ LoopEnds(j, "retry")
    /\ phase' = [phase EXCEPT ![j] = "downgrade"]
    /\ \E C \in Come(grace, {c \in Customers : account[c] = "PAST_DUE"}) :
        todo' = [todo EXCEPT ![j] = {<<c, period[c]>> : c \in C}]
    /\ UNCHANGED <<subscription, used, row, pc, ran, at, amount, seen, history, bounds>>

FinishJob(j) ==
    /\ LoopEnds(j, "downgrade")
    /\ Goto(j, "idle")
    /\ UNCHANGED <<subscription, used, row, phase, ran, todo, at, amount, seen,
                   history, bounds>>

(* The condition of the conditional update that closes a cycle. *)
StillReadAlways(i) == TRUE
StillRead(i) == period[i[1]] = i[2]

(* renewOne of a customer who leaves: only who cancels bills the cycle. *)
CancelAtPeriodEnd(j, i) ==
    /\ pc[j] = "next" /\ phase[j] = "renew" /\ i \in todo[j]
    /\ i[1] \in Cancelling
    /\ Visited(j, i)
    /\ \/ /\ account[i[1]] = "ACTIVE"
          /\ account' = [account EXCEPT ![i[1]] = "CANCELED"]
          /\ TakeUp(j, i)
          /\ Goto(j, "existing")
       \/ /\ account[i[1]] # "ACTIVE"
          /\ UNCHANGED <<account, at, pc>>
    /\ UNCHANGED <<period, ended, grace, used, row, phase, ran, amount, seen,
                   history, bounds>>

(* renewOne otherwise: the claim holds only if the cycle is still the one read. *)
Roll(j, i) ==
    /\ pc[j] = "next" /\ phase[j] = "renew" /\ i \in todo[j]
    /\ i[1] \notin Cancelling
    /\ Visited(j, i)
    /\ \/ /\ StillRead(i)
          /\ period' = [period EXCEPT ![i[1]] = i[2] + 1]
          /\ ended' = [ended EXCEPT ![i[1]] = FALSE]
          /\ rolls' = [rolls EXCEPT ![i] = @ + 1]
          /\ TakeUp(j, i)
          /\ Goto(j, "existing")
       \/ /\ ~StillRead(i)
          /\ UNCHANGED <<period, ended, rolls, at, pc>>
    /\ UNCHANGED <<account, grace, used, row, phase, ran, amount, seen,
                   asked, reopens, taken, bounds>>

(* After its last statement on an invoice a process is back in its loop,   *)
(* and a request is answered.                                              *)
LoopHead(p) == IF p \in Jobs THEN "next" ELSE "done"
Leave(p) ==
    /\ Goto(p, LoopHead(p))
    /\ TakeUp(p, Nobody)

----------------------------------------------------------------------------
(* generateInvoiceForCycle, by the renewal and by a request.               *)

(* The invoice is looked up by its customer and its cycle. *)
ExistsOfCustomer(i) == \E k \in InvoicesOf(i[1]) : state[k] # "none"
Exists(i) == state[i] # "none"

(* The renewal charges an invoice with something to pay. *)
ToPayAlways(sum) == TRUE
ToPay(sum) == sum > 0
Generated(p, sum) ==
    IF p \in Jobs /\ ToPay(sum)
    THEN Goto(p, "charge") /\ UNCHANGED at
    ELSE Leave(p)

FindExisting(p) ==
    /\ pc[p] = "existing"
    /\ \/ Exists(at[p]) /\ Generated(p, total[at[p]])
       \/ ~Exists(at[p]) /\ Goto(p, "usage") /\ UNCHANGED at
    /\ UNCHANGED <<subscription, used, row, phase, ran, todo, amount, seen,
                   history, bounds>>

ReadUsage(p) ==
    /\ pc[p] = "usage"
    /\ amount' = [amount EXCEPT ![p] = Billable(used[at[p]])]
    /\ Goto(p, "create")
    /\ UNCHANGED <<subscription, used, row, phase, ran, todo, at, seen, history, bounds>>

(* The unique index on customer and cycle refuses a second row; the error  *)
(* ends the work on this invoice.                                          *)
CreateInvoice(p) ==
    /\ pc[p] = "create"
    /\ amount' = [amount EXCEPT ![p] = 0]
    /\ \/ /\ state[at[p]] = "none"
          /\ state' = [state EXCEPT ![at[p]] = "open"]
          /\ total' = [total EXCEPT ![at[p]] = amount[p]]
          /\ Generated(p, amount[p])
       \/ /\ state[at[p]] # "none"
          /\ Leave(p)
          /\ UNCHANGED <<state, total>>
    /\ UNCHANGED <<subscription, used, retryIn, begun, tries, phase, ran, todo, seen,
                   history, bounds>>

----------------------------------------------------------------------------
(* chargeInvoice and enterDunning.                                         *)

(* A retry goes on to write the next date unless the invoice was paid. *)
Forgotten == [tries |-> 0, begun |-> 0]
Charged(j, paid) ==
    IF phase[j] = "retry" /\ ~paid
    THEN Goto(j, "resched") /\ UNCHANGED <<at, seen>>
    ELSE Leave(j) /\ seen' = [seen EXCEPT ![j] = Forgotten]

ReadForCharge(j) ==
    /\ pc[j] = "charge"
    /\ \/ state[at[j]] = "paid" /\ Charged(j, TRUE)
       \/ state[at[j]] # "paid" /\ Goto(j, "claim") /\ UNCHANGED <<at, seen>>
    /\ UNCHANGED <<subscription, used, row, phase, ran, todo, amount, history, bounds>>

ClaimableAlways(i) == TRUE
Claimable(i) == state[i] = "open"

(* updateMany where status = 'open'; who fails to claim returns the row. *)
ClaimInvoice(j) ==
    /\ pc[j] = "claim"
    /\ \/ /\ Claimable(at[j])
          /\ state' = [state EXCEPT ![at[j]] = "processing"]
          /\ Goto(j, "gateway")
          /\ UNCHANGED <<at, seen>>
       \/ /\ ~Claimable(at[j])
          /\ Charged(j, state[at[j]] = "paid")
          /\ UNCHANGED state
    /\ UNCHANGED <<subscription, used, total, retryIn, begun, tries, phase, ran, todo,
                   amount, history, bounds>>

Asked(j) == asked' = [asked EXCEPT ![at[j]] = @ + 1]

(* createPaymentIntent.  A customer without a payment method is one whose  *)
(* payment is declined.                                                    *)
GatewayCaptures(j) ==
    /\ pc[j] = "gateway"
    /\ Asked(j)
    /\ taken' = [taken EXCEPT ![at[j]] = @ + 1]
    /\ Goto(j, "paid")
    /\ UNCHANGED <<subscription, used, row, phase, ran, todo, at, amount, seen,
                   rolls, reopens, bounds>>

AfterDeclineLoop == "next"
AfterDecline == "dun"

GatewayDeclines(j) ==
    /\ pc[j] = "gateway"
    /\ Asked(j)
    /\ Goto(j, AfterDecline)
    /\ UNCHANGED <<subscription, used, row, phase, ran, todo, at, amount, seen,
                   rolls, reopens, taken, bounds>>

(* The payment is captured after the answer, or the answer is lost. *)
GatewayCapturesLate(j) ==
    /\ pc[j] = "gateway"
    /\ lost < MaxLost
    /\ lost' = lost + 1
    /\ Asked(j)
    /\ taken' = [taken EXCEPT ![at[j]] = @ + 1]
    /\ Goto(j, "dun")
    /\ UNCHANGED <<subscription, used, row, phase, ran, todo, at, amount, seen,
                   rolls, reopens, faults, crashes>>

MarkPaid(j) ==
    /\ pc[j] = "paid"
    /\ state' = [state EXCEPT ![at[j]] = "paid"]
    /\ retryIn' = [retryIn EXCEPT ![at[j]] = Never]
    /\ Goto(j, "clear")
    /\ UNCHANGED <<subscription, used, total, begun, tries, phase, ran, todo, at,
                   amount, seen, history, bounds>>

ClearDunning(j) ==
    /\ pc[j] = "clear"
    /\ LET c == at[j][1] IN
        \/ /\ account[c] = "PAST_DUE"
           /\ account' = [account EXCEPT ![c] = "ACTIVE"]
           /\ grace' = [grace EXCEPT ![c] = Passed]
        \/ /\ account[c] # "PAST_DUE"
           /\ UNCHANGED <<account, grace>>
    /\ Charged(j, TRUE)
    /\ UNCHANGED <<period, ended, used, row, phase, ran, todo, amount, history, bounds>>

(* The two updates of enterDunning, which are sent together. *)
UnpaidPastDue == "past_due"
Unpaid == "dunning"
DunInvoice(i) ==
    /\ state' = [state EXCEPT ![i] = Unpaid]
    /\ retryIn' = [retryIn EXCEPT ![i] = Schedule[1]]
    /\ begun' = [begun EXCEPT ![i] = 0]
    /\ tries' = [tries EXCEPT ![i] = 0]
DunAccount(c) ==
    /\ account' = [account EXCEPT ![c] = "PAST_DUE"]
    /\ grace' = [grace EXCEPT ![c] = GraceDays]

EnterDunning(j) ==
    /\ pc[j] = "dun"
    /\ DunInvoice(at[j])
    /\ DunAccount(at[j][1])
    /\ Charged(j, FALSE)
    /\ UNCHANGED <<period, ended, used, total, phase, ran, todo, amount, history, bounds>>

----------------------------------------------------------------------------
(* retryChargeInvoice.                                                     *)

ReadForRetry(j, i) ==
    /\ pc[j] = "next" /\ phase[j] = "retry" /\ i \in todo[j]
    /\ Visited(j, i)
    /\ \/ /\ state[i] = "dunning"
          /\ seen' = [seen EXCEPT ![j] = [tries |-> tries[i], begun |-> begun[i]]]
          /\ TakeUp(j, i)
          /\ Goto(j, "reopen")
       \/ /\ state[i] # "dunning"
          /\ UNCHANGED <<seen, at, pc>>
    /\ UNCHANGED <<subscription, used, row, phase, ran, amount, history, bounds>>

(* Unconditional, whatever another run has made of the invoice. *)
Reopen(j) ==
    /\ pc[j] = "reopen"
    /\ state' = [state EXCEPT ![at[j]] = "open"]
    /\ reopens' = [reopens EXCEPT ![at[j]] = IF state[at[j]] = "open" THEN @ ELSE @ + 1]
    /\ Goto(j, "charge")
    /\ UNCHANGED <<subscription, used, total, retryIn, begun, tries, phase, ran, todo,
                   at, amount, seen, rolls, asked, taken, bounds>>

(* The days until retry n of a dunning that began d days ago; after the    *)
(* last slot of the schedule there is none.                                *)
NextSlot(n, d) ==
    IF n < Len(Schedule) THEN DaysUntil(Schedule[n + 1] - d) ELSE Never

(* Unconditional too, from the counter and the date read at the start. *)
Reschedule(j) ==
    /\ pc[j] = "resched"
    /\ LET n == seen[j].tries + 1 IN
        /\ state' = [state EXCEPT ![at[j]] = "dunning"]
        /\ tries' = [tries EXCEPT ![at[j]] = n]
        /\ retryIn' = [retryIn EXCEPT ![at[j]] = NextSlot(n, seen[j].begun)]
    /\ Leave(j)
    /\ seen' = [seen EXCEPT ![j] = Forgotten]
    /\ UNCHANGED <<subscription, used, total, begun, phase, ran, todo, amount,
                   history, bounds>>

----------------------------------------------------------------------------
(* downgradePastDueSubscriptions.                                          *)

(* The invoices that are given up with the collection. *)
SealedNone(c) == {}
SealedIssued(c) == {k \in InvoicesOf(c) : state[k] # "none"}
Sealed(c) == {k \in InvoicesOf(c) : state[k] = "dunning"}

SealFailed(j, i) ==
    /\ pc[j] = "next" /\ phase[j] = "downgrade" /\ i \in todo[j]
    /\ Visited(j, i)
    /\ state' = [k \in Invoices |->
                    IF k \in Sealed(i[1]) THEN "failed" ELSE state[k]]
    /\ retryIn' = [k \in Invoices |->
                    IF k \in Sealed(i[1]) THEN Never ELSE retryIn[k]]
    /\ TakeUp(j, i)
    /\ Goto(j, "reset")
    /\ UNCHANGED <<subscription, used, total, begun, tries, phase, ran, amount, seen,
                   history, bounds>>

ResetAccount(j) ==
    /\ pc[j] = "reset"
    /\ account' = [account EXCEPT ![at[j][1]] =
                      IF at[j][1] \in Cancelling THEN "CANCELED" ELSE "ACTIVE"]
    /\ grace' = [grace EXCEPT ![at[j][1]] = Passed]
    /\ Leave(j)
    /\ UNCHANGED <<period, ended, used, row, phase, ran, todo, amount, seen,
                   history, bounds>>

----------------------------------------------------------------------------
(* Requests.                                                               *)

(* recordCallUsage and POST usage-invoices/generate take the cycle that is *)
(* current when they begin.                                                *)
StartRecording(r, c) ==
    /\ pc[r] = "fresh" /\ "record" \in Ops
    /\ TakeUp(r, <<c, period[c]>>)
    /\ Goto(r, "record")
    /\ UNCHANGED <<subscription, used, row, phase, ran, todo, amount, seen, history, bounds>>

RecordUsage(r) ==
    /\ pc[r] = "record"
    /\ used' = [used EXCEPT ![at[r]] = @ + 1]
    /\ Leave(r)
    /\ UNCHANGED <<subscription, row, phase, ran, todo, amount, seen, history, bounds>>

StartGenerating(r, c) ==
    /\ pc[r] = "fresh" /\ "generate" \in Ops
    /\ TakeUp(r, <<c, period[c]>>)
    /\ Goto(r, "existing")
    /\ UNCHANGED <<subscription, used, row, phase, ran, todo, amount, seen, history, bounds>>

(* handlePaymentFailedEvent: the notice names the customer, not the invoice. *)
PaymentFailedNotice(r, c) ==
    /\ pc[r] = "fresh" /\ "notice" \in Ops
    /\ DunAccount(c)
    /\ Goto(r, "done")
    /\ UNCHANGED <<period, ended, used, row, phase, ran, todo, at, amount, seen,
                   history, bounds>>

----------------------------------------------------------------------------
(* Failures.                                                               *)

Fault == faults < MaxFaults /\ faults' = faults + 1

(* The loops of the renewal and of the retries go on after an error. *)
WorkFails(p) ==
    /\ pc[p] \in {"record", "charge", "claim", "gateway", "reopen", "resched"}
                    \cup GeneratePCs
    /\ Fault
    /\ Leave(p)
    /\ amount' = [amount EXCEPT ![p] = 0]
    /\ seen' = IF p \in Jobs THEN [seen EXCEPT ![p] = Forgotten] ELSE seen
    /\ UNCHANGED <<subscription, used, row, phase, ran, todo, history, crashes, lost>>

VisitFails(j, i) ==
    /\ pc[j] = "next" /\ phase[j] \in {"renew", "retry"} /\ i \in todo[j]
    /\ Fault
    /\ Visited(j, i)
    /\ UNCHANGED <<subscription, used, row, pc, phase, ran, at, amount, seen, history,
                   crashes, lost>>

(* A query fails, or a statement of the downgrade: the run is over. *)
RunFails(j) ==
    /\ \/ pc[j] = "next" /\ (phase[j] = "downgrade" \/ todo[j] = {})
       \/ pc[j] = "reset"
    /\ Fault
    /\ Goto(j, "idle")
    /\ TakeUp(j, Nobody)
    /\ todo' = [todo EXCEPT ![j] = {}]
    /\ UNCHANGED <<subscription, used, row, phase, ran, amount, seen, history,
                   crashes, lost>>

(* A charge that went through is treated as one that did not. *)
AccountingFails(j) ==
    /\ pc[j] \in {"paid", "clear"}
    /\ Fault
    /\ Goto(j, "dun")
    /\ UNCHANGED <<subscription, used, row, phase, ran, todo, at, amount, seen, history,
                   crashes, lost>>

(* Of the two updates of enterDunning either may have been made. *)
DunningFails(j) ==
    /\ pc[j] = "dun"
    /\ Fault
    /\ DunInvoice(at[j]) \/ UNCHANGED <<state, retryIn, begun, tries>>
    /\ DunAccount(at[j][1]) \/ UNCHANGED <<account, grace>>
    /\ Leave(j)
    /\ seen' = [seen EXCEPT ![j] = Forgotten]
    /\ UNCHANGED <<period, ended, used, total, phase, ran, todo, amount, history,
                   crashes, lost>>

(* The runs in progress are lost until tomorrow, the requests for good. *)
CrashAndRestart ==
    /\ crashes < MaxCrashes
    /\ \E p \in Procs : InFlight(p)
    /\ crashes' = crashes + 1
    /\ pc' = [p \in Procs |-> IF ~InFlight(p) THEN pc[p]
                              ELSE IF p \in Jobs THEN "idle" ELSE "done"]
    /\ at' = [p \in Procs |-> Nobody]
    /\ todo' = [j \in Jobs |-> {}]
    /\ amount' = [p \in Procs |-> 0]
    /\ seen' = [j \in Jobs |-> Forgotten]
    /\ UNCHANGED <<subscription, used, row, phase, ran, history, faults, lost>>

----------------------------------------------------------------------------
ChargeStep(j) ==
    \/ ReadForCharge(j)
    \/ ClaimInvoice(j)
    \/ GatewayCaptures(j)
    \/ GatewayDeclines(j)
    \/ GatewayCapturesLate(j)
    \/ MarkPaid(j)
    \/ ClearDunning(j)
    \/ EnterDunning(j)

GenerateStep(p) ==
    \/ FindExisting(p)
    \/ ReadUsage(p)
    \/ CreateInvoice(p)

JobStep(j) ==
    \/ StartRetries(j)
    \/ StartDowngrades(j)
    \/ FinishJob(j)
    \/ \E i \in Invoices :
        \/ CancelAtPeriodEnd(j, i)
        \/ Roll(j, i)
        \/ ReadForRetry(j, i)
        \/ SealFailed(j, i)
    \/ GenerateStep(j)
    \/ ChargeStep(j)
    \/ Reopen(j)
    \/ Reschedule(j)
    \/ ResetAccount(j)

RequestStep(r) ==
    \/ \E c \in Customers :
        \/ StartRecording(r, c)
        \/ StartGenerating(r, c)
        \/ PaymentFailedNotice(r, c)
    \/ RecordUsage(r)
    \/ GenerateStep(r)

Failure ==
    \/ \E p \in Procs : WorkFails(p)
    \/ \E j \in Jobs :
        \/ \E i \in Invoices : VisitFails(j, i)
        \/ RunFails(j)
        \/ AccountingFails(j)
        \/ DunningFails(j)
    \/ CrashAndRestart

Next ==
    \/ \E c \in Customers : PeriodEnds(c)
    \/ NextDay
    \/ \E j \in Jobs : StartJob(j) \/ JobStep(j)
    \/ \E r \in Reqs : RequestStep(r)
    \/ Failure

Spec == Init /\ [][Next]_vars

(* Days pass, the cron fires, and what has started continues. *)
Fairness ==
    /\ WF_vars(NextDay)
    /\ \A j \in Jobs : WF_vars(StartJob(j)) /\ WF_vars(JobStep(j))
    /\ \A r \in Reqs : WF_vars(RecordUsage(r)) /\ WF_vars(GenerateStep(r))

FairSpec == Spec /\ Fairness

----------------------------------------------------------------------------
(* What is claimed of it.                                                  *)

(* Every variable has its type. *)
RowsOK ==
    /\ account \in [Customers -> Account]
    /\ period \in [Customers -> Cycles]
    /\ ended \in [Customers -> BOOLEAN]
    /\ grace \in [Customers -> Int]
    /\ used \in [Invoices -> Nat]
    /\ state \in [Invoices -> InvoiceStates]
    /\ total \in [Invoices -> Nat]
    /\ retryIn \in [Invoices -> Int]
    /\ begun \in [Invoices -> Nat]
    /\ tries \in [Invoices -> Nat]

LocalsOK ==
    /\ pc \in [Procs -> PCs]
    /\ phase \in [Jobs -> Phases]
    /\ ran \in [Jobs -> BOOLEAN]
    /\ todo \in [Jobs -> SUBSET Invoices]
    /\ at \in [Procs -> Invoices \cup {Nobody}]
    /\ amount \in [Procs -> Nat]
    /\ seen \in [Jobs -> [tries : Nat, begun : Nat]]

CountersOK ==
    /\ rolls \in [Invoices -> Nat]
    /\ asked \in [Invoices -> Nat]
    /\ reopens \in [Invoices -> Nat]
    /\ taken \in [Invoices -> Nat]
    /\ faults \in Nat /\ crashes \in Nat /\ lost \in Nat

TypeOK == RowsOK /\ LocalsOK /\ CountersOK

(* However many instances run, a cycle is closed at most once: the         *)
(* conditional update of renewOne admits one of the runs that read the row *)
(* when it was due, and none that come back to it later.                   *)
CycleClosesOnce ==
    \A i \in Invoices : rolls[i] = IF i[2] < period[i[1]] THEN 1 ELSE 0

(* The run that closed a cycle leaves an invoice for it, unless something  *)
(* failed on the way.                                                      *)
ClosedCycleIsInvoiced ==
    \A i \in Invoices :
        i[2] < period[i[1]] =>
            \/ state[i] # "none"
            \/ faults + crashes > 0
            \/ \E j \in Jobs : at[j] = i /\ pc[j] \in GeneratePCs

(* The claim of chargeInvoice is exclusive: the gateway is asked for the   *)
(* money once, and once more each time a retry put the invoice back,       *)
(* however many runs go for it.                                            *)
AtGateway(i) == {j \in Jobs : at[j] = i /\ pc[j] = "gateway"}
ChargesFollowClaims ==
    \A i \in Invoices : asked[i] + Cardinality(AtGateway(i)) <= 1 + reopens[i]

(* The cycle was closed, or its customer has left at its end. *)
Over(i) ==
    \/ i[2] < period[i[1]]
    \/ i[1] \in Cancelling /\ i[2] = period[i[1]] /\ ended[i[1]]

(* Money is taken for a cycle that is over, and for no more than was used  *)
(* in it.                                                                  *)
ChargedWhenOver ==
    \A i \in Invoices :
        taken[i] > 0 => Over(i) /\ total[i] \in 1..Billable(used[i])

AtRest == \A j \in Jobs : pc[j] \in RestPCs

(* One instance: between two runs, an unpaid invoice keeps its customer    *)
(* past due, so that no further cycle of theirs is renewed until it is     *)
(* paid or given up; and no customer owes two.                             *)
DebtBlocksRenewal ==
    AtRest =>
        \A c \in Customers :
            /\ \A i \in InvoicesOf(c) :
                state[i] = "dunning" => account[c] = "PAST_DUE"
            /\ \A i, k \in InvoicesOf(c) :
                state[i] = "dunning" /\ state[k] = "dunning" => i = k

(* BillingJobsService:18-23: "a re-run or an overlapping instance can never *)
(* ... double-charge one".                                                 *)
NeverDoubleCharged == \A i \in Invoices : taken[i] <= 1

(* A customer does not stay past due for ever: a retry is paid, or the     *)
(* grace period runs out.                                                  *)
PastDueEnds ==
    \A c \in Customers : (account[c] = "PAST_DUE") ~> (account[c] # "PAST_DUE")

(* What is owed for a cycle that is over is collected or given up in the   *)
(* end, unless the server was restarted before it had asked for the money. *)
DebtIsSettled ==
    \A i \in Invoices :
        (state[i] = "open" /\ total[i] > 0 /\ Over(i))
            ~> (state[i] \in {"paid", "failed"} \/ crashes > 0)

(* One instance, nothing but restarts failing: the promise is kept. *)
BillOf(i) ==
    CASE state[i] = "none" -> "none"
      [] state[i] = "paid" -> "settled"
      [] state[i] = "failed" -> "waived"
      [] OTHER -> "due"

Promise == INSTANCE InvoiceProtocol
               WITH closed <- period,
                    bill <- [i \in Invoices |-> BillOf(i)]
KeepsPromise == Promise!Spec
=============================================================================
