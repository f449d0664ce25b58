---------------------------- MODULE UsageAccount ----------------------------
(***************************************************************************)
(* The account of one customer: BillingService (the subscription that      *)
(* anchors the cycle, the gateway's payment notices), UsageBillingService  *)
(* (admission of a call, recording of its usage, the spending limit) and   *)
(* the part of the daily renewal that opens the Usage row of a new cycle.  *)
(*                                                                         *)
(* Every database statement is one action.  Sign-ins, calls, deliveries of *)
(* notices and the daily job interleave; a notice may be delivered several *)
(* times and in any order.  A process may stop anywhere, which is what a   *)
(* statement that fails, a lost reply or a restart make of it: what it has *)
(* written stays, and the gateway delivers its notice again.  What happens *)
(* to a call in between is in CallLifecycle, and to an invoice in          *)
(* InvoiceBilling.                                                         *)
(***************************************************************************)
EXTENDS Integers, Sequences, FiniteSetsExt

CONSTANTS
    Calls,        \* requests of the customer: for a call, or to sign in
    Deliveries,   \* deliveries of a notice by the gateway
    Job,          \* the daily run
    Payments,     \* payments that a notice may be about
    TopUps,       \* payments whose notes ask for purchased minutes
    NoPayment,    \* the payment of a process that handles none
    Media,        \* kinds of minutes
    Gated,        \* the type of a call, whose allowance is checked
    Free,         \* minutes of each kind that are free in a cycle
    Rate,         \* paise per minute of each kind
    Uses,         \* minutes that a call may turn out to use
    Limits,       \* spending limits that the customer may set
    MaxSubs,      \* how many subscription rows an instance considers
    LastCycle,    \* the cycle in which the observation ends
    MaxChanges    \* how often the customer changes the card or the limit

VARIABLES
    subs,         \* number of Subscription rows; the last one is the newest
    status,       \* Subscription.status
    cycle,        \* Subscription.currentPeriodStart, in cycles
    attempts,     \* Subscription.dunningAttempts
    rows,         \* Usage rows, keyed by the start of a cycle
    minutes,      \* Usage.audioMinutes and the like
    bought,       \* Usage.minutesPurchased
    lines,        \* CallUsage rows of a Usage row, oldest first
    card,         \* User.razorpayTokenId is set
    limit,        \* User.spendingLimitPaise; null and 0 are not told apart
    payment,      \* Payment.paymentStatus
    credits,      \* history: how often a payment was credited
    proc,         \* what each process is doing: its next statement, where it
                  \* goes on after getOrCreateUsage, the Usage row it works
                  \* with, a value it has read (the limit, or the purchased
                  \* minutes that are carried over) and the notice it handles
    barred,       \* history: what has spoken against a call ever since it was
                  \* asked for
    changes       \* how often the card or the limit was changed

subscription == <<subs, status, cycle, attempts>>
usage == <<rows, minutes, bought, lines>>
customer == <<card, limit, changes>>
ledger == <<payment, credits>>
vars == <<subscription, usage, customer, ledger, proc, barred>>

Subs == 1..MaxSubs
Cycles == 0..LastCycle
Rows == Subs \X Cycles
NoRow == <<0, 0>>
Procs == Calls \cup Deliveries \cup {Job}

Kinds == {"payment.captured", "payment.failed"}
NoNotice == <<NoPayment, "none">>
Notices == Payments \X Kinds

pc(p) == proc[p].pc
mine(p) == proc[p].row
PaymentOf(d) == proc[d].about[1]
KindOf(d) == proc[d].about[2]

AccountPCs == {"sub", "newSub", "find", "create"}
CheckPCs == {"totals", "standing", "card", "cap", "cost"}
CallPCs == CheckPCs \cup {"start", "live", "record"}
DeliveryPCs == {"seen", "insert", "credit", "dun"}
JobPCs == {"claim", "old", "carry", "reset"}
RestPCs == {"idle", "live", "done"}
PCs == AccountPCs \cup CallPCs \cup DeliveryPCs \cup JobPCs \cup RestPCs
Grounds == {"no card", "cannot pay", "at limit"}
CallSteps == {"totals", "cost", "record"}
Continuations == CallSteps \cup {"insert", "done"}

Processes == [pc : PCs, then : Continuations, row : Rows \cup {NoRow}, held : Nat,
              about : Notices \cup {NoNotice}]
Resting(label) == [pc |-> label, then |-> "done", row |-> NoRow, held |-> 0,
                   about |-> NoNotice]

ASSUME AccountAssumption ==
    /\ Calls \cap Deliveries = {} /\ Job \notin Calls \cup Deliveries
    /\ IsFiniteSet(Payments) /\ TopUps \subseteq Payments /\ NoPayment \notin Payments
    /\ IsFiniteSet(Media) /\ Gated \in Media
    /\ Free \in [Media -> Nat] /\ Rate \in [Media -> Nat]
    /\ Uses \subseteq [Media -> Nat]
    /\ Limits \subseteq Nat
    /\ MaxSubs \in Nat /\ LastCycle \in Nat /\ MaxChanges \in Nat

(***************************************************************************)
(* Minutes and money.                                                      *)
(***************************************************************************)
Excess(a, b) == IF a > b THEN a - b ELSE 0

(* getAggregatedCallUsage *)
Total(r, m) == SumFunction([k \in DOMAIN lines[r] |-> lines[r][k][m]])

(* The allowance that getCallUsage has left after the first k calls, and   *)
(* the minutes that it bills for the calls of a cycle one by one.          *)
LeftAfter(r, m) ==
    LET left[k \in 0..Len(lines[r])] ==
            IF k = 0 THEN Free[m] ELSE Excess(left[k - 1], lines[r][k][m])
    IN  left
LineBill(r, m, k) == Excess(lines[r][k][m], LeftAfter(r, m)[k - 1])
BilledByLine(r, m) == SumFunction([k \in DOMAIN lines[r] |-> LineBill(r, m, k)])

(* getCurrentUsage's billable cost of a cycle. *)
Cost(r) == SumFunction([m \in Media |-> Rate[m] * Excess(Total(r, m), Free[m])])

Exhausted(r) == Total(r, Gated) >= Free[Gated]

NewestRow == IF subs = 0 THEN NoRow ELSE <<subs, cycle[subs]>>

Init ==
    /\ subs = 0
    /\ status = [n \in Subs |-> "ACTIVE"]
    /\ cycle = [n \in Subs |-> 0]
    /\ attempts = [n \in Subs |-> 0]
    /\ rows = {}
    /\ minutes = [r \in Rows |-> [m \in Media |-> 0]]
    /\ bought = [r \in Rows |-> 0]
    /\ lines = [r \in Rows |-> <<>>]
    /\ card \in BOOLEAN  \* it can be saved before there is a subscription
    /\ limit = 0
    /\ payment = [p \in Payments |-> "none"]
    /\ credits = [p \in Payments |-> 0]
    /\ proc = [p \in Procs |-> Resting("idle")]
    /\ barred = [c \in Calls |-> {}]
    /\ changes = 0

(* A process moves on to a statement; at rest it has nothing in hand.      *)
At(s, label) == IF label \in RestPCs THEN Resting(label) ELSE [s EXCEPT !.pc = label]
Goto(p, label) == proc' = [proc EXCEPT ![p] = At(@, label)]
Enter(p, goOn) == proc' = [proc EXCEPT ![p].pc = "sub", ![p].then = goOn]

(***************************************************************************)
(* What may speak against a call that is being asked for, and the history  *)
(* of what has done so all the time since.                                 *)
(***************************************************************************)
Asking(c) ==
    \/ pc(c) \in CheckPCs \cup {"start"}
    \/ pc(c) \in AccountPCs /\ proc[c].then \in {"totals", "cost"}

UsedUp == NewestRow \in rows /\ Exhausted(NewestRow)
Objections ==
    {g \in Grounds :
        /\ UsedUp
        /\ g = "no card" => ~card
        /\ g = "cannot pay" => ~card /\ status[subs] # "ACTIVE"
        /\ g = "at limit" => limit > 0 /\ Cost(NewestRow) >= limit}

Observe ==
    barred' = [c \in Calls |->
                  IF ~Asking(c)' THEN {}
                  ELSE IF Asking(c) THEN barred[c] \cap Objections'
                  ELSE Objections']

(***************************************************************************)
(* getOrCreateFreeSubscription and getOrCreateUsage.  A call goes on to    *)
(* the row of the current cycle; the others only need the subscription.    *)
(***************************************************************************)
FindSubscription(p) ==
    /\ pc(p) = "sub"
    /\ proc' = [proc EXCEPT ![p] =
                   At([@ EXCEPT !.row = NewestRow],
                      IF subs = 0 THEN "newSub"
                      ELSE IF @.then \in CallSteps THEN "find" ELSE @.then)]
    /\ UNCHANGED <<subscription, usage, customer, ledger>>

CreateSubscription(p) ==
    /\ pc(p) = "newSub"
    /\ subs < MaxSubs
    /\ subs' = subs + 1
    /\ proc' = [proc EXCEPT ![p].row = <<subs + 1, 0>>, ![p].pc = "find"]
    /\ UNCHANGED <<status, cycle, attempts, usage, customer, ledger>>

FindRow(p) ==
    /\ pc(p) = "find"
    /\ Goto(p, IF mine(p) \in rows THEN proc[p].then ELSE "create")
    /\ UNCHANGED <<subscription, usage, customer, ledger>>

(* A row that was created in the meantime is refused by the unique index   *)
(* on company and cycle, and the request ends with the error.              *)
CreateRow(p) ==
    /\ pc(p) = "create"
    /\ rows' = rows \cup {mine(p)}
    /\ Goto(p, IF mine(p) \in rows THEN "done" ELSE proc[p].then)
    /\ UNCHANGED <<subscription, minutes, bought, lines, customer, ledger>>

(* A sign-in sets up the subscription on the side. *)
SignIn(s) ==
    /\ pc(s) = "idle"
    /\ Enter(s, "done")
    /\ UNCHANGED <<subscription, usage, customer, ledger>>

(***************************************************************************)
(* canStartCall, as BillingGuard and createCall run it, and the call.      *)
(***************************************************************************)
AskForCall(c) ==
    /\ pc(c) = "idle"
    /\ Enter(c, "totals")
    /\ UNCHANGED <<subscription, usage, customer, ledger>>

(* One statement of the check: a read that decides where to go on. *)
Check(c, at, goOn) ==
    /\ pc(c) = at
    /\ Goto(c, goOn)
    /\ UNCHANGED <<subscription, usage, customer, ledger>>

ReadAllowance(c) ==
    Check(c, "totals", IF Exhausted(mine(c)) THEN "standing" ELSE "start")

GoodStanding == subs > 0 /\ status[subs] = "ACTIVE"

(* hasPaymentMethod: good standing counts as one. *)
ReadStanding(c) == Check(c, "standing", IF GoodStanding THEN "cap" ELSE "card")
ReadCard(c) == Check(c, "card", IF card THEN "cap" ELSE "done")

(* checkSpendingLimit *)
ReadLimit(c) ==
    /\ pc(c) = "cap"
    /\ IF limit = 0
          THEN Goto(c, "start")
          ELSE proc' = [proc EXCEPT ![c].pc = "sub", ![c].then = "cost", ![c].held = limit]
    /\ UNCHANGED <<subscription, usage, customer, ledger>>

(* The limit that the cost is compared with is the one that was read.      *)
ReachedStrictly(c) == Cost(mine(c)) > proc[c].held
Reached(c) == Cost(mine(c)) >= proc[c].held

ReadCost(c) == Check(c, "cost", IF Reached(c) THEN "done" ELSE "start")

StartCall(c) == Check(c, "start", "live")

EndCall(c) ==
    /\ pc(c) = "live"
    /\ Enter(c, "record")
    /\ UNCHANGED <<subscription, usage, customer, ledger>>

LineRowNewest(c) == NewestRow
LineRow(c) == mine(c)

(* recordCallUsage's transaction: the totals and the line together.        *)
RecordUsage(c) ==
    /\ pc(c) = "record"
    /\ \E use \in Uses :
          /\ minutes' = [minutes EXCEPT ![mine(c)] =
                            [m \in Media |-> @[m] + use[m]]]
          /\ lines' = [lines EXCEPT ![LineRow(c)] = Append(@, use)]
    /\ Goto(c, "done")
    /\ UNCHANGED <<subscription, rows, bought, customer, ledger>>

(***************************************************************************)
(* The gateway's notices: handlePaymentCaptured and                        *)
(* handlePaymentFailedEvent.                                               *)
(***************************************************************************)
Deliver(d, p, kind) ==
    /\ pc(d) = "idle"
    /\ proc' = [proc EXCEPT ![d].pc = "seen", ![d].about = <<p, kind>>]
    /\ UNCHANGED <<subscription, usage, customer, ledger>>

FindPayment(d) ==
    /\ pc(d) = "seen"
    /\ IF payment[PaymentOf(d)] = "none"
          THEN Enter(d, "insert")
          ELSE Goto(d, "done")
    /\ UNCHANGED <<subscription, usage, customer, ledger>>

(* The unique index on the gateway's payment id is the backstop. *)
AcceptedTwice(p) == TRUE
Accepted(p) == payment[p] = "none"

FollowUpCredits(d) == IF PaymentOf(d) \in TopUps THEN "credit" ELSE "done"
FollowUp(d) ==
    IF KindOf(d) = "payment.failed" THEN "dun"
    ELSE IF PaymentOf(d) \in TopUps THEN "credit" ELSE "done"

InsertPayment(d) ==
    /\ pc(d) = "insert"
    /\ IF Accepted(PaymentOf(d))
          THEN /\ payment' = [payment EXCEPT ![PaymentOf(d)] =
                                 IF KindOf(d) = "payment.failed" THEN "FAILED" ELSE "PAID"]
               /\ Goto(d, FollowUp(d))
          ELSE Goto(d, "done") /\ UNCHANGED payment
    /\ UNCHANGED <<subscription, usage, customer, credits>>

(* creditPurchasedMinutes, to the cycle that was current when the          *)
(* subscription was read.  A purchase is one unit of minutes.              *)
Credit(d) ==
    /\ pc(d) = "credit"
    /\ rows' = rows \cup {mine(d)}
    /\ bought' = [bought EXCEPT ![mine(d)] = @ + 1]
    /\ credits' = [credits EXCEPT ![PaymentOf(d)] = @ + 1]
    /\ Goto(d, "done")
    /\ UNCHANGED <<subscription, minutes, lines, customer, payment>>

EnterDunning(d) ==
    LET n == mine(d)[1] IN
    /\ pc(d) = "dun"
    /\ status' = [status EXCEPT ![n] = "PAST_DUE"]
    /\ attempts' = [attempts EXCEPT ![n] = @ + 1]
    /\ Goto(d, "done")
    /\ UNCHANGED <<subs, cycle, usage, customer, ledger>>

(***************************************************************************)
(* The daily run, on one subscription at a time: renewOne up to the        *)
(* invoice, and downgradePastDueSubscriptions.  When a cycle or a grace    *)
(* period ends is left open.                                               *)
(***************************************************************************)
FindDue(n) ==
    /\ pc(Job) = "idle"
    /\ n <= subs /\ cycle[n] < LastCycle
    /\ status[n] = "ACTIVE"
    /\ proc' = [proc EXCEPT ![Job].pc = "claim", ![Job].row = <<n, cycle[n]>>]
    /\ UNCHANGED <<subscription, usage, customer, ledger>>

ClaimCycle ==
    /\ pc(Job) = "claim"
    /\ cycle' = [cycle EXCEPT ![mine(Job)[1]] = @ + 1]
    /\ Goto(Job, "old")
    /\ UNCHANGED <<subs, status, attempts, usage, customer, ledger>>

ReadOldRow ==
    /\ pc(Job) = "old"
    /\ proc' = [proc EXCEPT ![Job].pc = "carry", ![Job].held = bought[mine(Job)]]
    /\ UNCHANGED <<subscription, usage, customer, ledger>>

NextRow(r) == <<r[1], r[2] + 1>>

(* The upsert leaves a row alone that somebody created in the meantime.    *)
CarryOver ==
    LET r == NextRow(mine(Job)) IN
    /\ pc(Job) = "carry"
    /\ rows' = rows \cup {r}
    /\ bought' = [bought EXCEPT ![r] = IF r \in rows THEN @ ELSE proc[Job].held]
    /\ Goto(Job, "idle")
    /\ UNCHANGED <<subscription, minutes, lines, customer, ledger>>

FindPastDue(n) ==
    /\ pc(Job) = "idle"
    /\ n <= subs /\ status[n] = "PAST_DUE"
    /\ proc' = [proc EXCEPT ![Job].pc = "reset", ![Job].row = <<n, cycle[n]>>]
    /\ UNCHANGED <<subscription, usage, customer, ledger>>

ResetPastDue ==
    LET n == mine(Job)[1] IN
    /\ pc(Job) = "reset"
    /\ status' = [status EXCEPT ![n] = "ACTIVE"]
    /\ attempts' = [attempts EXCEPT ![n] = 0]
    /\ Goto(Job, "idle")
    /\ UNCHANGED <<subs, cycle, usage, customer, ledger>>

(***************************************************************************)
(* The customer's settings.                                                *)
(***************************************************************************)
Changes == changes < MaxChanges /\ changes' = changes + 1

AttachCard ==
    /\ Changes
    /\ ~card /\ card' = TRUE
    /\ UNCHANGED <<subscription, usage, limit, ledger, proc>>

(* The last card; removing another one leaves the customer with a card.    *)
RemoveCard ==
    /\ Changes
    /\ card /\ card' = FALSE
    /\ UNCHANGED <<subscription, usage, limit, ledger, proc>>

SetLimit(l) ==
    /\ Changes
    /\ l # limit
    /\ limit' = l
    /\ UNCHANGED <<subscription, usage, card, ledger, proc>>

----------------------------------------------------------------------------
AccountStep(p) ==
    FindSubscription(p) \/ CreateSubscription(p) \/ FindRow(p) \/ CreateRow(p)
CallStep(c) ==
    \/ SignIn(c) \/ AskForCall(c) \/ ReadAllowance(c) \/ ReadStanding(c) \/ ReadCard(c)
    \/ ReadLimit(c) \/ ReadCost(c) \/ StartCall(c) \/ EndCall(c) \/ RecordUsage(c)
DeliveryStep(d) ==
    \/ \E p \in Payments, kind \in Kinds : Deliver(d, p, kind)
    \/ FindPayment(d) \/ InsertPayment(d) \/ Credit(d) \/ EnterDunning(d)
JobStep ==
    \/ \E n \in Subs : FindDue(n) \/ FindPastDue(n)
    \/ ClaimCycle \/ ReadOldRow \/ CarryOver \/ ResetPastDue
CustomerStep == AttachCard \/ RemoveCard \/ \E l \in Limits : SetLimit(l)

Next ==
    /\ \/ \E p \in Procs : AccountStep(p)
       \/ \E c \in Calls : CallStep(c)
       \/ \E d \in Deliveries : DeliveryStep(d)
       \/ JobStep
       \/ CustomerStep
    /\ Observe

Spec == Init /\ [][Next]_vars

----------------------------------------------------------------------------
TypeOK ==
    /\ subs \in 0..MaxSubs
    /\ status \in [Subs -> {"ACTIVE", "PAST_DUE"}]
    /\ cycle \in [Subs -> Cycles]
    /\ attempts \in [Subs -> Nat]
    /\ rows \subseteq Rows
    /\ minutes \in [Rows -> [Media -> Nat]]
    /\ bought \in [Rows -> Nat]
    /\ lines \in [Rows -> Seq([Media -> Nat])]
    /\ card \in BOOLEAN
    /\ limit \in Nat
    /\ payment \in [Payments -> {"none", "PAID", "FAILED"}]
    /\ credits \in [Payments -> Nat]
    /\ proc \in [Procs -> Processes]
    /\ barred \in [Calls -> SUBSET Grounds]
    /\ changes \in 0..MaxChanges

(* A payment is credited at most once, however often and in whatever order *)
(* its notices are delivered, and whichever of their statements fail.      *)
CreditedOnce == \A p \in Payments : credits[p] <= 1

(* The minutes a cycle shows as purchased were paid for: what is carried   *)
(* over is never added to what it already contains.                        *)
PurchasedIsPaidFor ==
    \A r \in Rows : bought[r] <= Cardinality({p \in TopUps : payment[p] = "PAID"})

(* A failed payment counts against the customer once, in one subscription. *)
DunnedOnce ==
    SumFunction(attempts) <= Cardinality({p \in Payments : payment[p] = "FAILED"})

(* The charges shown for the calls of a cycle, which are computed one by   *)
(* one, add up to what the cycle is invoiced for, whatever cycle ends      *)
(* while usage is being recorded.                                          *)
ShownIsCharged ==
    \A r \in Rows, m \in Media : BilledByLine(r, m) = Excess(minutes[r][m], Free[m])

(* A customer who is beyond the allowance and cannot pay, or has reached   *)
(* the spending limit, gets no call that was asked for after that, however *)
(* the statements of the check fall between other changes of the account.  *)
Starts(c) == pc(c) = "start" /\ pc(c)' = "live"
BarredCallsAreRefused ==
    [][\A c \in Calls : Starts(c) => barred[c] \subseteq {"no card"}]_vars

(* Beyond the free allowance a call needs a card that will pay for it.     *)
CardBacksPaidUsage == [][\A c \in Calls : Starts(c) => "no card" \notin barred[c]]_vars

=============================================================================
