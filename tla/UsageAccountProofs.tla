------------------------- MODULE UsageAccountProofs -------------------------
(***************************************************************************)
(* Theorems about UsageAccount for every number of requests, deliveries,   *)
(* payments, subscriptions and cycles, and every allowance and rate.       *)
(***************************************************************************)
EXTENDS UsageAccount, FiniteSums

USE DEF subscription, usage, customer, ledger, pc, mine

(* Where a process has the Usage row that it reads or writes in hand.      *)
RowPCs == {"find", "create", "insert", "credit", "dun", "record"} \cup CheckPCs \cup JobPCs

RowsAtHand == \A p \in Procs : pc(p) \in RowPCs => mine(p) \in Rows

(* The daily run renews only a cycle that is not the last of the instance, *)
(* and the one that is current until it has closed it.                     *)
JobInside ==
    /\ pc(Job) \in {"idle"} \cup JobPCs
    /\ pc(Job) \in {"claim", "old", "carry"} => mine(Job)[2] < LastCycle
    /\ pc(Job) = "claim" => cycle[mine(Job)[1]] = mine(Job)[2]

TypeInv == TypeOK /\ RowsAtHand /\ JobInside

(* The tables, that is TypeOK without the processes and the history.       *)
Tables ==
    /\ subs \in 0..MaxSubs
    /\ status \in [Subs -> {"ACTIVE", "PAST_DUE"}]
    /\ cycle \in [Subs -> Cycles]
    /\ attempts \in [Subs -> Nat]
    /\ rows \subseteq Rows
    /\ minutes \in [Rows -> [Media -> Nat]]
    /\ bought \in [Rows -> Nat]
    /\ lines \in [Rows -> Seq([Media -> Nat])]
    /\ card \in BOOLEAN
    /\ limit \in Nat
    /\ payment \in [Payments -> {"none", "PAID", "FAILED"}]
    /\ credits \in [Payments -> Nat]
    /\ changes \in 0..MaxChanges

(* A process takes a step that leaves it in the state new.                 *)
Moves(p, new) ==
    /\ new \in Processes
    /\ new.pc \in RowPCs => new.row \in Rows
    /\ proc' = [proc EXCEPT ![p] = new]

----------------------------------------------------------------------------
(* How processes move.                                                     *)
LEMMA Labels ==
    /\ RowPCs \cap RestPCs = {} /\ Continuations \subseteq PCs
    /\ RowPCs \subseteq PCs /\ RestPCs \subseteq PCs /\ AccountPCs \subseteq PCs
    /\ "credit" \notin Continuations /\ "carry" \notin Continuations
BY DEF RowPCs, RestPCs, PCs, Continuations, CallSteps, CallPCs, CheckPCs, JobPCs,
       DeliveryPCs, AccountPCs

LEMMA ProcessParts ==
    ASSUME NEW s \in Processes
    PROVE  /\ s.pc \in PCs /\ s.then \in Continuations /\ s.row \in Rows \cup {NoRow}
           /\ s.held \in Nat /\ s.about \in Notices \cup {NoNotice}
BY DEF Processes

LEMMA AtType ==
    ASSUME NEW s \in Processes, NEW label \in PCs,
           label \in RowPCs => s.row \in Rows
    PROVE  /\ At(s, label) \in Processes
           /\ At(s, label).pc = label
           /\ label \in RowPCs => At(s, label).row \in Rows
           /\ label \notin RestPCs => At(s, label) = [s EXCEPT !.pc = label]
<1>1. CASE label \in RestPCs
  <2>1. Resting(label) \in Processes /\ Resting(label).pc = label
    BY DEF Resting, Processes, Continuations
  <2> QED
    BY <1>1, <2>1, Labels DEF At
<1>2. CASE label \notin RestPCs
  <2>1. /\ [s EXCEPT !.pc = label] \in Processes
        /\ [s EXCEPT !.pc = label].pc = label
        /\ [s EXCEPT !.pc = label].row = s.row
    BY DEF Processes
  <2> QED
    BY <1>2, <2>1 DEF At
<1> QED
  BY <1>1, <1>2

LEMMA GotoMoves ==
    ASSUME TypeOK, NEW p \in Procs, NEW label \in PCs,
           label \in RowPCs => mine(p) \in Rows,
           Goto(p, label)
    PROVE  Moves(p, At(proc[p], label)) /\ At(proc[p], label).pc = label
<1>1. proc[p] \in Processes
  BY DEF TypeOK
<1>2. proc' = [proc EXCEPT ![p] = At(proc[p], label)]
  BY DEF Goto
<1> QED
  BY <1>1, <1>2, AtType DEF Moves

LEMMA EnterMoves ==
    ASSUME TypeOK, NEW p \in Procs, NEW goOn \in Continuations, Enter(p, goOn)
    PROVE  Moves(p, [proc[p] EXCEPT !.pc = "sub", !.then = goOn])
<1>1. proc[p] \in Processes
  BY DEF TypeOK
<1>2. proc' = [proc EXCEPT ![p] = [proc[p] EXCEPT !.pc = "sub", !.then = goOn]]
  BY DEF Enter
<1>3. "sub" \in PCs /\ "sub" \notin RowPCs
  BY DEF PCs, AccountPCs, RowPCs, CheckPCs, JobPCs
<1>4. [proc[p] EXCEPT !.pc = "sub", !.then = goOn] \in Processes
  BY <1>1, <1>3 DEF Processes
<1>5. [proc[p] EXCEPT !.pc = "sub", !.then = goOn].pc = "sub"
  BY <1>1 DEF Processes
<1> QED
  BY <1>2, <1>3, <1>4, <1>5 DEF Moves

(* A step of a process leaves every process well-formed, and the others    *)
(* where they are.                                                         *)
LEMMA MovesKeep ==
    ASSUME TypeOK, RowsAtHand, NEW p \in Procs, NEW new, Moves(p, new)
    PROVE  /\ proc' \in [Procs -> Processes]
           /\ RowsAtHand'
           /\ proc'[p] = new
           /\ \A q \in Procs \ {p} : proc'[q] = proc[q]
<1>1. proc \in [Procs -> Processes] /\ new \in Processes
  BY DEF TypeOK, Moves
<1>2. /\ proc' \in [Procs -> Processes] /\ proc'[p] = new
      /\ \A q \in Procs \ {p} : proc'[q] = proc[q]
  BY <1>1 DEF Moves
<1>3. RowsAtHand'
  BY <1>2 DEF RowsAtHand, Moves
<1> QED
  BY <1>2, <1>3

LEMMA ObservedType ==
    ASSUME barred \in [Calls -> SUBSET Grounds], Observe
    PROVE  barred' \in [Calls -> SUBSET Grounds]
<1>1. Objections' \in SUBSET Grounds
  BY DEF Objections
<1>2. \A c \in Calls : barred[c] \cap Objections' \in SUBSET Grounds
  BY <1>1
<1> QED
  BY <1>1, <1>2 DEF Observe

LEMMA JobIsApart ==
    ASSUME AccountAssumption
    PROVE  Job \in Procs /\ \A p \in Calls \cup Deliveries : p \in Procs \ {Job}
BY DEF AccountAssumption, Procs

LEMMA RowParts ==
    ASSUME NEW r \in Rows
    PROVE  r[1] \in Subs /\ r[2] \in Cycles /\ r = <<r[1], r[2]>>
BY DEF Rows

----------------------------------------------------------------------------
(* The steps, one by one.  Most of them touch no payment, no purchased     *)
(* minutes and no cycle, and lead to no credit.                            *)
Quiet(p) ==
    /\ \E new : Moves(p, new) /\ new.pc # "credit"
    /\ UNCHANGED <<cycle, bought, payment, credits>>

LEMMA QuietGoto ==
    ASSUME TypeOK, NEW p \in Procs, NEW label \in PCs \ {"credit"},
           label \in RowPCs => mine(p) \in Rows, Goto(p, label),
           UNCHANGED <<cycle, bought, payment, credits>>
    PROVE  Quiet(p)
BY GotoMoves DEF Quiet

LEMMA QuietEnter ==
    ASSUME TypeOK, NEW p \in Procs, NEW goOn \in Continuations, Enter(p, goOn),
           UNCHANGED <<cycle, bought, payment, credits>>
    PROVE  Quiet(p)
<1>1. proc[p] \in Processes
  BY DEF TypeOK
<1>2. [proc[p] EXCEPT !.pc = "sub", !.then = goOn].pc = "sub"
  BY <1>1 DEF Processes
<1> QED
  BY <1>2, EnterMoves DEF Quiet

LEMMA NewestRowType ==
    ASSUME AccountAssumption, TypeOK
    PROVE  NewestRow \in Rows \cup {NoRow} /\ (subs # 0 => NewestRow \in Rows)
<1>1. CASE subs = 0
  BY <1>1 DEF NewestRow
<1>2. CASE subs # 0
  <2>1. subs \in Subs
    BY <1>2 DEF AccountAssumption, TypeOK, Subs
  <2>2. <<subs, cycle[subs]>> \in Rows
    BY <2>1 DEF TypeOK, Rows
  <2> QED
    BY <1>2, <2>2 DEF NewestRow
<1> QED
  BY <1>1, <1>2

LEMMA FindSubscriptionStep ==
    ASSUME AccountAssumption, TypeInv, NEW p \in Procs, FindSubscription(p)
    PROVE  Tables' /\ Quiet(p)
<1> DEFINE s == [proc[p] EXCEPT !.row = NewestRow]
           label == IF subs = 0 THEN "newSub"
                    ELSE IF s.then \in CallSteps THEN "find" ELSE s.then
<1>1. proc[p] \in Processes
  BY DEF TypeInv, TypeOK
<1>2. s \in Processes /\ s.row = NewestRow /\ s.then \in Continuations
  BY <1>1, NewestRowType DEF TypeInv, Processes
<1>3. label \in PCs /\ label # "credit" /\ (label \in RowPCs => subs # 0)
  BY <1>2, Labels DEF PCs, AccountPCs, RowPCs, CheckPCs, JobPCs
<1>4. label \in RowPCs => s.row \in Rows
  BY <1>2, <1>3, NewestRowType DEF TypeInv
<1>5. At(s, label) \in Processes /\ At(s, label).pc = label
      /\ (label \in RowPCs => At(s, label).row \in Rows)
  <2> HIDE DEF s, label
  <2> QED
    BY <1>2, <1>3, <1>4, AtType
<1>6. proc' = [proc EXCEPT ![p] = At(s, label)]
  BY DEF FindSubscription
<1>7. Moves(p, At(s, label)) /\ At(s, label).pc # "credit"
  BY <1>3, <1>5, <1>6 DEF Moves
<1> QED
  BY <1>7 DEF FindSubscription, Quiet, Tables, TypeInv, TypeOK

LEMMA CreateSubscriptionStep ==
    ASSUME AccountAssumption, TypeInv, NEW p \in Procs, CreateSubscription(p)
    PROVE  Tables' /\ Quiet(p)
<1> DEFINE new == [proc[p] EXCEPT !.row = <<subs + 1, 0>>, !.pc = "find"]
<1>1. proc[p] \in Processes
  BY DEF TypeInv, TypeOK
<1>2. subs + 1 \in 0..MaxSubs /\ <<subs + 1, 0>> \in Rows
  BY DEF AccountAssumption, TypeInv, TypeOK, CreateSubscription, Rows, Subs, Cycles
<1>3. "find" \in PCs
  BY DEF PCs, AccountPCs
<1>4. new \in Processes /\ new.pc = "find" /\ new.row = <<subs + 1, 0>>
  BY <1>1, <1>2, <1>3 DEF Processes
<1>5. proc' = [proc EXCEPT ![p] = new]
  BY DEF CreateSubscription
<1>6. Moves(p, new) /\ new.pc # "credit"
  BY <1>2, <1>4, <1>5 DEF Moves
<1> QED
  BY <1>2, <1>6 DEF CreateSubscription, Quiet, Tables, TypeInv, TypeOK

(* Where getOrCreateUsage returns to, it returns with its row.             *)
LEMMA Returns ==
    ASSUME TypeInv, NEW p \in Procs, pc(p) \in {"find", "create"}
    PROVE  mine(p) \in Rows /\ proc[p].then \in PCs \ {"credit"}
<1>1. proc[p] \in Processes
  BY DEF TypeInv, TypeOK
<1>2. proc[p].then \in Continuations
  BY <1>1, ProcessParts
<1> QED
  BY <1>2, Labels DEF TypeInv, RowsAtHand, RowPCs

LEMMA StepsOfAccount ==
    ASSUME AccountAssumption, TypeInv, NEW p \in Procs, AccountStep(p)
    PROVE  Tables' /\ Quiet(p)
<1>0. TypeOK /\ {"create", "done"} \subseteq PCs \ {"credit"}
  BY DEF TypeInv, PCs, AccountPCs, RestPCs
<1>1. CASE FindSubscription(p)
  BY <1>1, FindSubscriptionStep
<1>2. CASE CreateSubscription(p)
  BY <1>2, CreateSubscriptionStep
<1>3. CASE FindRow(p)
  <2>1. /\ Goto(p, IF mine(p) \in rows THEN proc[p].then ELSE "create")
        /\ mine(p) \in Rows /\ proc[p].then \in PCs \ {"credit"}
    BY <1>3, Returns DEF FindRow
  <2>2. UNCHANGED <<cycle, bought, payment, credits>>
    BY <1>3 DEF FindRow
  <2>3. Quiet(p)
    BY <1>0, <2>1, <2>2, QuietGoto
  <2> QED
    BY <1>3, <2>3 DEF FindRow, Tables, TypeInv, TypeOK
<1>4. CASE CreateRow(p)
  <2>1. /\ Goto(p, IF mine(p) \in rows THEN "done" ELSE proc[p].then)
        /\ mine(p) \in Rows /\ proc[p].then \in PCs \ {"credit"}
    BY <1>4, Returns DEF CreateRow
  <2>2. UNCHANGED <<cycle, bought, payment, credits>>
    BY <1>4 DEF CreateRow
  <2>3. Quiet(p)
    BY <1>0, <2>1, <2>2, QuietGoto
  <2> QED
    BY <1>4, <2>1, <2>3 DEF CreateRow, Tables, TypeInv, TypeOK
<1> QED
  BY <1>1, <1>2, <1>3, <1>4 DEF AccountStep

LEMMA CheckStep ==
    ASSUME AccountAssumption, TypeInv, NEW c \in Calls, NEW at,
           NEW goOn \in PCs \ {"credit"}, Check(c, at, goOn),
           at \in RowPCs \/ goOn \notin RowPCs
    PROVE  Tables' /\ Quiet(c)
<1>1. c \in Procs /\ pc(c) = at /\ Goto(c, goOn)
  BY DEF Check, Procs
<1>2. goOn \in RowPCs => mine(c) \in Rows
  BY <1>1 DEF TypeInv, RowsAtHand
<1>3. UNCHANGED <<cycle, bought, payment, credits>>
  BY DEF Check
<1>4. Quiet(c)
  BY <1>1, <1>2, <1>3, QuietGoto DEF TypeInv
<1> QED
  BY <1>4 DEF Check, Tables, TypeInv, TypeOK

LEMMA EnterStep ==
    ASSUME TypeInv, NEW p \in Procs, NEW goOn \in Continuations, Enter(p, goOn),
           UNCHANGED <<subscription, usage, customer, ledger>>
    PROVE  Tables' /\ Quiet(p)
<1>1. Quiet(p)
  BY QuietEnter DEF TypeInv
<1> QED
  BY <1>1 DEF Tables, TypeInv, TypeOK

LEMMA ReadLimitStep ==
    ASSUME AccountAssumption, TypeInv, NEW c \in Calls, ReadLimit(c)
    PROVE  Tables' /\ Quiet(c)
<1>1. c \in Procs /\ TypeOK /\ proc[c] \in Processes
  BY DEF Procs, TypeInv, TypeOK
<1>2. UNCHANGED <<subscription, usage, customer, ledger>>
  BY DEF ReadLimit
<1>3. CASE limit = 0
  <2>1. Goto(c, "start")
    BY <1>3 DEF ReadLimit
  <2>2. "start" \in PCs \ {"credit"} /\ "start" \notin RowPCs
    BY DEF PCs, CallPCs, RowPCs, CheckPCs, JobPCs
  <2>3. Quiet(c)
    BY <1>1, <1>2, <2>1, <2>2, QuietGoto
  <2> QED
    BY <1>2, <2>3 DEF Tables, TypeInv, TypeOK
<1>4. CASE limit # 0
  <2> DEFINE new == [proc[c] EXCEPT !.pc = "sub", !.then = "cost", !.held = limit]
  <2>1. proc' = [proc EXCEPT ![c] = new]
    BY <1>4 DEF ReadLimit
  <2>2. "sub" \in PCs /\ "sub" \notin RowPCs /\ "cost" \in Continuations
    BY DEF PCs, AccountPCs, RowPCs, CheckPCs, JobPCs, Continuations, CallSteps
  <2>3. new \in Processes /\ new.pc = "sub"
    BY <1>1, <2>2 DEF TypeOK, Processes
  <2>4. Moves(c, new) /\ new.pc # "credit"
    BY <2>1, <2>2, <2>3 DEF Moves
  <2> QED
    BY <1>2, <2>4 DEF Quiet, Tables, TypeInv, TypeOK
<1> QED
  BY <1>3, <1>4

LEMMA RecordUsageStep ==
    ASSUME AccountAssumption, TypeInv, NEW c \in Calls, RecordUsage(c)
    PROVE  Tables' /\ Quiet(c)
<1>1. c \in Procs /\ TypeOK /\ mine(c) \in Rows
  BY DEF Procs, TypeInv, RowsAtHand, RowPCs, RecordUsage
<1>2. UNCHANGED <<cycle, bought, payment, credits>> /\ Goto(c, "done")
  BY DEF RecordUsage
<1>3. "done" \in PCs \ {"credit"} /\ "done" \notin RowPCs
  BY DEF PCs, RestPCs, RowPCs, CheckPCs, JobPCs
<1>4. Quiet(c)
  BY <1>1, <1>2, <1>3, QuietGoto
<1>5. PICK use \in Uses :
         /\ minutes' = [minutes EXCEPT ![mine(c)] = [m \in Media |-> @[m] + use[m]]]
         /\ lines' = [lines EXCEPT ![mine(c)] = Append(@, use)]
  BY DEF RecordUsage, LineRow
<1>6. use \in [Media -> Nat]
  BY DEF AccountAssumption
<1>7. [m \in Media |-> minutes[mine(c)][m] + use[m]] \in [Media -> Nat]
  BY <1>1, <1>6 DEF TypeOK
<1>8. minutes' \in [Rows -> [Media -> Nat]]
  BY <1>1, <1>5, <1>7 DEF TypeOK
<1>9. lines' \in [Rows -> Seq([Media -> Nat])]
  BY <1>1, <1>5, <1>6 DEF TypeOK
<1> QED
  BY <1>1, <1>4, <1>8, <1>9 DEF RecordUsage, Tables, TypeOK

LEMMA StepsOfCalls ==
    ASSUME AccountAssumption, TypeInv, NEW c \in Calls, CallStep(c)
    PROVE  Tables' /\ Quiet(c)
<1>0. /\ c \in Procs /\ {"done", "totals", "record"} \subseteq Continuations
      /\ {"totals", "standing", "card", "cap", "cost"} \subseteq RowPCs
      /\ {"totals", "standing", "card", "cap", "cost", "start", "live", "done"}
            \subseteq PCs \ {"credit"}
      /\ "live" \notin RowPCs
  BY DEF Procs, Continuations, CallSteps, RowPCs, CheckPCs, JobPCs, PCs, CallPCs, RestPCs
<1>1. CASE SignIn(c)
  BY <1>0, <1>1, EnterStep DEF SignIn
<1>2. CASE AskForCall(c)
  BY <1>0, <1>2, EnterStep DEF AskForCall
<1>3. CASE EndCall(c)
  BY <1>0, <1>3, EnterStep DEF EndCall
<1>4. CASE ReadAllowance(c)
  BY <1>0, <1>4, CheckStep DEF ReadAllowance
<1>5. CASE ReadStanding(c)
  BY <1>0, <1>5, CheckStep DEF ReadStanding
<1>6. CASE ReadCard(c)
  BY <1>0, <1>6, CheckStep DEF ReadCard
<1>7. CASE ReadCost(c)
  BY <1>0, <1>7, CheckStep DEF ReadCost
<1>8. CASE StartCall(c)
  BY <1>0, <1>8, CheckStep DEF StartCall
<1>9. CASE ReadLimit(c)
  BY <1>9, ReadLimitStep
<1>10. CASE RecordUsage(c)
  BY <1>10, RecordUsageStep
<1> QED
  BY <1>1, <1>2, <1>3, <1>4, <1>5, <1>6, <1>7, <1>8, <1>9, <1>10 DEF CallStep

LEMMA DeliverStep ==
    ASSUME AccountAssumption, TypeInv, NEW d \in Deliveries, NEW p \in Payments,
           NEW kind \in Kinds, Deliver(d, p, kind)
    PROVE  Tables' /\ Quiet(d)
<1> DEFINE new == [proc[d] EXCEPT !.pc = "seen", !.about = <<p, kind>>]
<1>1. d \in Procs /\ proc[d] \in Processes
  BY DEF Procs, TypeInv, TypeOK
<1>2. "seen" \in PCs /\ "seen" \notin RowPCs /\ <<p, kind>> \in Notices
  BY DEF PCs, DeliveryPCs, RowPCs, CheckPCs, JobPCs, Notices
<1>3. new \in Processes /\ new.pc = "seen"
  BY <1>1, <1>2 DEF Processes
<1>4. proc' = [proc EXCEPT ![d] = new]
  BY DEF Deliver
<1>5. Moves(d, new) /\ new.pc # "credit"
  BY <1>2, <1>3, <1>4 DEF Moves
<1> QED
  BY <1>5 DEF Deliver, Quiet, Tables, TypeInv, TypeOK

LEMMA FindPaymentStep ==
    ASSUME AccountAssumption, TypeInv, NEW d \in Deliveries, FindPayment(d)
    PROVE  Tables' /\ Quiet(d)
<1>1. /\ d \in Procs /\ TypeOK /\ "insert" \in Continuations
      /\ "done" \in PCs \ {"credit"} /\ "done" \notin RowPCs
  BY DEF Procs, TypeInv, Continuations, CallSteps, PCs, RestPCs, RowPCs, CheckPCs, JobPCs
<1>2. UNCHANGED <<subscription, usage, customer, ledger>>
  BY DEF FindPayment
<1>3. Enter(d, "insert") \/ Goto(d, "done")
  BY DEF FindPayment
<1>4. Quiet(d)
  BY <1>1, <1>2, <1>3, QuietEnter, QuietGoto
<1> QED
  BY <1>2, <1>4 DEF Tables, TypeInv, TypeOK

LEMMA EnterDunningStep ==
    ASSUME AccountAssumption, TypeInv, NEW d \in Deliveries, EnterDunning(d)
    PROVE  Tables' /\ Quiet(d)
<1>1. /\ d \in Procs /\ TypeOK /\ mine(d)[1] \in Subs
      /\ "done" \in PCs \ {"credit"} /\ "done" \notin RowPCs
  BY RowParts DEF Procs, TypeInv, RowsAtHand, EnterDunning, PCs, RestPCs, RowPCs,
                  CheckPCs, JobPCs
<1>2. UNCHANGED <<cycle, bought, payment, credits>> /\ Goto(d, "done")
  BY DEF EnterDunning
<1>3. Quiet(d)
  BY <1>1, <1>2, QuietGoto
<1> QED
  BY <1>1, <1>3 DEF EnterDunning, Tables, TypeOK

----------------------------------------------------------------------------
(* The steps of a notice that write a payment or a credit.                 *)
LEMMA RefusedInsertStep ==
    ASSUME AccountAssumption, TypeInv, NEW d \in Deliveries, InsertPayment(d),
           ~Accepted(PaymentOf(d))
    PROVE  Tables' /\ Quiet(d)
<1>1. /\ d \in Procs /\ TypeOK
      /\ "done" \in PCs \ {"credit"} /\ "done" \notin RowPCs
  BY DEF Procs, TypeInv, PCs, RestPCs, RowPCs, CheckPCs, JobPCs
<1>2. UNCHANGED <<cycle, bought, payment, credits>> /\ Goto(d, "done")
  BY DEF InsertPayment
<1>3. Quiet(d)
  BY <1>1, <1>2, QuietGoto
<1> QED
  BY <1>3 DEF InsertPayment, Tables, TypeInv, TypeOK

(* A payment that is inserted was unknown, and it is credited only if it   *)
(* was captured and is a purchase.                                         *)
Inserts(d, new) ==
    /\ Moves(d, new)
    /\ \A p \in Payments \ {PaymentOf(d)} : payment'[p] = payment[p]
    /\ PaymentOf(d) \in Payments => payment[PaymentOf(d)] = "none"
    /\ new.pc = "credit" =>
          /\ PaymentOf(d) \in TopUps
          /\ new.about = proc[d].about
          /\ payment'[PaymentOf(d)] = "PAID"

LEMMA AcceptedInsertStep ==
    ASSUME AccountAssumption, TypeInv, NEW d \in Deliveries, InsertPayment(d),
           Accepted(PaymentOf(d))
    PROVE  /\ Tables'
           /\ UNCHANGED <<cycle, bought, credits>>
           /\ \E new : Inserts(d, new)
<1> DEFINE new == At(proc[d], FollowUp(d))
<1>1. d \in Procs /\ TypeOK /\ mine(d) \in Rows /\ proc[d] \in Processes
  BY DEF Procs, TypeInv, TypeOK, RowsAtHand, RowPCs, InsertPayment
<1>2. FollowUp(d) \in PCs /\ FollowUp(d) \in {"credit", "dun", "done"}
  BY DEF FollowUp, PCs, DeliveryPCs, RestPCs
<1>3. /\ Goto(d, FollowUp(d))
      /\ payment' = [payment EXCEPT ![PaymentOf(d)] =
                        IF KindOf(d) = "payment.failed" THEN "FAILED" ELSE "PAID"]
      /\ UNCHANGED <<cycle, bought, credits>>
  BY DEF InsertPayment
<1>4. Moves(d, new) /\ new.pc = FollowUp(d)
  BY <1>1, <1>2, <1>3, GotoMoves
<1>5. ASSUME FollowUp(d) = "credit"
      PROVE  /\ PaymentOf(d) \in TopUps /\ new.about = proc[d].about
             /\ payment'[PaymentOf(d)] = "PAID"
  <2>1. PaymentOf(d) \in TopUps /\ KindOf(d) # "payment.failed"
    BY <1>5 DEF FollowUp
  <2>2. PaymentOf(d) \in Payments
    BY <2>1 DEF AccountAssumption
  <2>3. new = [proc[d] EXCEPT !.pc = "credit"]
    BY <1>5 DEF At, RestPCs
  <2>4. new.about = proc[d].about
    BY <1>1, <2>3 DEF Processes
  <2> QED
    BY <1>1, <1>3, <2>1, <2>2, <2>4 DEF TypeOK
<1>6. Inserts(d, new)
  <2> HIDE DEF new
  <2> QED
    BY <1>1, <1>3, <1>4, <1>5 DEF Inserts, Accepted, TypeOK
<1>7. payment' \in [Payments -> {"none", "PAID", "FAILED"}]
  BY <1>1, <1>3 DEF TypeOK
<1> QED
  BY <1>1, <1>3, <1>6, <1>7 DEF InsertPayment, Tables, TypeOK

LEMMA CreditStep ==
    ASSUME AccountAssumption, TypeInv, NEW d \in Deliveries, Credit(d)
    PROVE  /\ Tables'
           /\ UNCHANGED <<cycle, payment>>
           /\ \E new : Moves(d, new) /\ new.pc = "done"
<1>1. /\ d \in Procs /\ TypeOK /\ mine(d) \in Rows
      /\ "done" \in PCs /\ "done" \notin RowPCs
  BY DEF Procs, TypeInv, RowsAtHand, RowPCs, Credit, PCs, RestPCs, CheckPCs, JobPCs
<1>2. Goto(d, "done")
  BY DEF Credit
<1>3. \E new : Moves(d, new) /\ new.pc = "done"
  BY <1>1, <1>2, GotoMoves
<1>4. bought' \in [Rows -> Nat]
  BY <1>1 DEF Credit, TypeOK
<1>5. credits' \in [Payments -> Nat]
  <2> DEFINE x == PaymentOf(d)
  <2>1. credits' = [credits EXCEPT ![x] = @ + 1]
    BY DEF Credit
  <2>2. credits \in [Payments -> Nat]
    BY <1>1 DEF TypeOK
  <2> HIDE DEF x
  <2>3. CASE x \in Payments
    BY <2>1, <2>2, <2>3
  <2>4. CASE x \notin Payments
    <3>1. \A q \in Payments : credits'[q] = credits[q]
      BY <2>1, <2>2, <2>4
    <3> QED
      BY <2>1, <2>2, <3>1
  <2> QED
    BY <2>3, <2>4
<1> QED
  BY <1>1, <1>3, <1>4, <1>5 DEF Credit, Tables, TypeOK

----------------------------------------------------------------------------
(* The daily run.  What it holds for the next cycle is what the cycle that *)
(* it closed had bought when it read it.                                   *)
JobMoves(new) ==
    /\ Moves(Job, new)
    /\ new.pc \in {"idle"} \cup JobPCs
    /\ UNCHANGED <<payment, credits>>

JobKeepsInside(new) ==
    /\ new.pc \in {"claim", "old", "carry"} => new.row[2] < LastCycle
    /\ new.pc = "claim" => cycle'[new.row[1]] = new.row[2]

LEMMA FindStep ==
    ASSUME AccountAssumption, TypeInv, NEW n \in Subs, FindDue(n) \/ FindPastDue(n)
    PROVE  /\ Tables' /\ UNCHANGED bought
           /\ \E new : JobMoves(new) /\ JobKeepsInside(new) /\ new.pc # "carry"
<1>1. proc[Job] \in Processes /\ <<n, cycle[n]>> \in Rows
  BY DEF Procs, TypeInv, TypeOK, Rows
<1>2. "claim" \in PCs /\ "reset" \in PCs
  BY DEF PCs, JobPCs
<1>3. CASE FindDue(n)
  <2> DEFINE new == [proc[Job] EXCEPT !.pc = "claim", !.row = <<n, cycle[n]>>]
  <2>1. /\ new \in Processes /\ new.pc = "claim" /\ new.row = <<n, cycle[n]>>
    BY <1>1, <1>2 DEF Processes
  <2>2. proc' = [proc EXCEPT ![Job] = new] /\ cycle[n] < LastCycle
        /\ UNCHANGED <<cycle, bought, payment, credits>>
    BY <1>3 DEF FindDue
  <2>3. JobMoves(new) /\ JobKeepsInside(new)
    BY <1>1, <2>1, <2>2 DEF JobMoves, Moves, JobPCs, JobKeepsInside
  <2> QED
    BY <1>3, <2>1, <2>2, <2>3 DEF FindDue, Tables, TypeInv, TypeOK
<1>4. CASE FindPastDue(n)
  <2> DEFINE new == [proc[Job] EXCEPT !.pc = "reset", !.row = <<n, cycle[n]>>]
  <2>1. /\ new \in Processes /\ new.pc = "reset" /\ new.row = <<n, cycle[n]>>
    BY <1>1, <1>2 DEF Processes
  <2>2. proc' = [proc EXCEPT ![Job] = new]
        /\ UNCHANGED <<cycle, bought, payment, credits>>
    BY <1>4 DEF FindPastDue
  <2>3. JobMoves(new) /\ JobKeepsInside(new)
    BY <1>1, <2>1, <2>2 DEF JobMoves, Moves, JobPCs, JobKeepsInside
  <2> QED
    BY <1>4, <2>1, <2>2, <2>3 DEF FindPastDue, Tables, TypeInv, TypeOK
<1> QED
  BY <1>3, <1>4

LEMMA ClaimCycleStep ==
    ASSUME AccountAssumption, TypeInv, ClaimCycle
    PROVE  /\ Tables' /\ UNCHANGED bought
           /\ \E new : JobMoves(new) /\ JobKeepsInside(new) /\ new.pc # "carry"
<1> DEFINE new == [proc[Job] EXCEPT !.pc = "old"]
<1>1. /\ proc[Job] \in Processes /\ mine(Job) \in Rows /\ mine(Job)[1] \in Subs
      /\ mine(Job)[2] < LastCycle /\ cycle[mine(Job)[1]] = mine(Job)[2]
  BY RowParts DEF Procs, TypeInv, TypeOK, RowsAtHand, RowPCs, JobPCs, JobInside, ClaimCycle
<1>2. "old" \in PCs /\ "old" \notin RestPCs /\ Goto(Job, "old")
  BY DEF PCs, JobPCs, RestPCs, ClaimCycle
<1>3. proc' = [proc EXCEPT ![Job] = new]
  BY <1>2 DEF Goto, At
<1>4. new \in Processes /\ new.pc = "old" /\ new.row = mine(Job)
  BY <1>1, <1>2 DEF Processes
<1>5. JobMoves(new) /\ JobKeepsInside(new)
  BY <1>1, <1>3, <1>4 DEF JobMoves, Moves, JobPCs, JobKeepsInside, ClaimCycle
<1>6. cycle' \in [Subs -> Cycles]
  <2>1. cycle[mine(Job)[1]] + 1 \in Cycles
    BY <1>1, RowParts DEF Cycles, AccountAssumption
  <2> QED
    BY <1>1, <2>1 DEF ClaimCycle, TypeInv, TypeOK
<1> QED
  BY <1>4, <1>5, <1>6 DEF ClaimCycle, Tables, TypeInv, TypeOK

LEMMA ReadOldRowStep ==
    ASSUME AccountAssumption, TypeInv, ReadOldRow
    PROVE  /\ Tables' /\ UNCHANGED bought
           /\ \E new : /\ JobMoves(new) /\ JobKeepsInside(new)
                       /\ mine(Job) \in Rows /\ new.held = bought[mine(Job)]
<1> DEFINE new == [proc[Job] EXCEPT !.pc = "carry", !.held = bought[mine(Job)]]
<1>1. /\ proc[Job] \in Processes /\ mine(Job) \in Rows
      /\ mine(Job)[2] < LastCycle /\ bought[mine(Job)] \in Nat
  BY DEF Procs, TypeInv, TypeOK, RowsAtHand, RowPCs, JobPCs, JobInside, ReadOldRow
<1>2. "carry" \in PCs /\ proc' = [proc EXCEPT ![Job] = new]
  BY DEF PCs, JobPCs, ReadOldRow
<1>3. /\ new \in Processes /\ new.pc = "carry" /\ new.row = mine(Job)
      /\ new.held = bought[mine(Job)]
  BY <1>1, <1>2 DEF Processes
<1>4. JobMoves(new) /\ JobKeepsInside(new)
  BY <1>1, <1>2, <1>3 DEF JobMoves, Moves, JobPCs, JobKeepsInside, ReadOldRow
<1> QED
  BY <1>1, <1>3, <1>4 DEF ReadOldRow, Tables, TypeInv, TypeOK

LEMMA CarryOverStep ==
    ASSUME AccountAssumption, TypeInv, CarryOver
    PROVE  /\ Tables'
           /\ \A r \in Rows : bought'[r] \in {bought[r], proc[Job].held}
           /\ \E new : JobMoves(new) /\ JobKeepsInside(new) /\ new.pc = "idle"
<1>1. /\ Job \in Procs /\ TypeOK /\ proc[Job] \in Processes /\ mine(Job) \in Rows
      /\ mine(Job)[2] < LastCycle
  BY DEF Procs, TypeInv, TypeOK, RowsAtHand, RowPCs, JobPCs, JobInside, CarryOver
<1>2. NextRow(mine(Job)) \in Rows
  BY <1>1, RowParts DEF NextRow, Rows, Cycles, AccountAssumption
<1>3. "idle" \in PCs /\ "idle" \notin RowPCs /\ Goto(Job, "idle")
  BY DEF PCs, RestPCs, RowPCs, CheckPCs, JobPCs, CarryOver
<1>4. PICK new : Moves(Job, new) /\ new.pc = "idle"
  BY <1>1, <1>3, GotoMoves
<1>5. JobMoves(new) /\ JobKeepsInside(new)
  BY <1>4 DEF JobMoves, JobKeepsInside, CarryOver
<1>6. proc[Job].held \in Nat
  BY <1>1 DEF Processes
<1>7. /\ rows' \subseteq Rows /\ bought' \in [Rows -> Nat]
      /\ \A r \in Rows : bought'[r] \in {bought[r], proc[Job].held}
  BY <1>1, <1>2, <1>6 DEF CarryOver, TypeOK
<1> QED
  BY <1>1, <1>4, <1>5, <1>7 DEF CarryOver, Tables, TypeOK

LEMMA ResetPastDueStep ==
    ASSUME AccountAssumption, TypeInv, ResetPastDue
    PROVE  /\ Tables' /\ UNCHANGED bought
           /\ \E new : JobMoves(new) /\ JobKeepsInside(new) /\ new.pc # "carry"
<1>1. Job \in Procs /\ TypeOK /\ mine(Job)[1] \in Subs
  BY RowParts DEF Procs, TypeInv, RowsAtHand, RowPCs, JobPCs, ResetPastDue
<1>2. "idle" \in PCs /\ "idle" \notin RowPCs /\ Goto(Job, "idle")
  BY DEF PCs, RestPCs, RowPCs, CheckPCs, JobPCs, ResetPastDue
<1>3. PICK new : Moves(Job, new) /\ new.pc = "idle"
  BY <1>1, <1>2, GotoMoves
<1>4. JobMoves(new) /\ JobKeepsInside(new)
  BY <1>3 DEF JobMoves, JobKeepsInside, ResetPastDue
<1> QED
  BY <1>1, <1>3, <1>4 DEF ResetPastDue, Tables, TypeOK

----------------------------------------------------------------------------
(* Every step is of one of five kinds.                                     *)
Carries(new) ==
    \/ /\ UNCHANGED bought
       /\ new.pc = "carry" => mine(Job) \in Rows /\ new.held = bought[mine(Job)]
    \/ /\ pc(Job) = "carry" /\ new.pc # "carry"
       /\ \A r \in Rows : bought'[r] \in {bought[r], proc[Job].held}

QuietStep == \E p \in Calls \cup Deliveries : Quiet(p)
InsertStep ==
    /\ UNCHANGED <<cycle, bought, credits>>
    /\ \E d \in Deliveries, new \in Processes : Inserts(d, new)
CreditingStep == \E d \in Deliveries : Credit(d)
RunStep == \E new \in Processes : JobMoves(new) /\ JobKeepsInside(new) /\ Carries(new)
SettingStep == UNCHANGED <<cycle, bought, payment, credits, proc>>

LEMMA StepsOfJob ==
    ASSUME AccountAssumption, TypeInv, JobStep
    PROVE  Tables' /\ RunStep
<1>1. CASE \E n \in Subs : FindDue(n) \/ FindPastDue(n)
  BY <1>1, FindStep DEF RunStep, Carries, JobMoves, Moves
<1>2. CASE ClaimCycle
  BY <1>2, ClaimCycleStep DEF RunStep, Carries, JobMoves, Moves
<1>3. CASE ReadOldRow
  BY <1>3, ReadOldRowStep DEF RunStep, Carries, JobMoves, Moves
<1>4. CASE CarryOver
  <2>1. pc(Job) = "carry"
    BY <1>4 DEF CarryOver
  <2> QED
    BY <1>4, <2>1, CarryOverStep DEF RunStep, Carries, JobMoves, Moves
<1>5. CASE ResetPastDue
  BY <1>5, ResetPastDueStep DEF RunStep, Carries, JobMoves, Moves
<1> QED
  BY <1>1, <1>2, <1>3, <1>4, <1>5 DEF JobStep

LEMMA StepsOfCustomer ==
    ASSUME AccountAssumption, TypeInv, CustomerStep
    PROVE  Tables' /\ SettingStep
<1>1. Changes => changes' \in 0..MaxChanges
  BY DEF AccountAssumption, TypeInv, TypeOK, Changes
<1>2. CASE AttachCard
  BY <1>1, <1>2 DEF AttachCard, SettingStep, Tables, TypeInv, TypeOK
<1>3. CASE RemoveCard
  BY <1>1, <1>3 DEF RemoveCard, SettingStep, Tables, TypeInv, TypeOK
<1>4. CASE \E l \in Limits : SetLimit(l)
  <2>1. limit' \in Nat
    BY <1>4 DEF SetLimit, AccountAssumption
  <2> QED
    BY <1>1, <1>4, <2>1 DEF SetLimit, SettingStep, Tables, TypeInv, TypeOK
<1> QED
  BY <1>2, <1>3, <1>4 DEF CustomerStep

LEMMA StepsOfDelivery ==
    ASSUME AccountAssumption, TypeInv, NEW d \in Deliveries, DeliveryStep(d)
    PROVE  Tables' /\ (QuietStep \/ InsertStep \/ CreditingStep)
<1>1. CASE \E p \in Payments, kind \in Kinds : Deliver(d, p, kind)
  BY <1>1, DeliverStep DEF QuietStep
<1>2. CASE FindPayment(d)
  BY <1>2, FindPaymentStep DEF QuietStep
<1>3. CASE InsertPayment(d)
  BY <1>3, RefusedInsertStep, AcceptedInsertStep DEF QuietStep, InsertStep, Inserts, Moves
<1>4. CASE Credit(d)
  BY <1>4, CreditStep DEF CreditingStep
<1>5. CASE EnterDunning(d)
  BY <1>5, EnterDunningStep DEF QuietStep
<1> QED
  BY <1>1, <1>2, <1>3, <1>4, <1>5 DEF DeliveryStep

(* The daily run sets up no account.                                       *)
LEMMA JobHasNoAccount ==
    ASSUME TypeInv PROVE ~AccountStep(Job)
<1>1. pc(Job) \notin {"sub", "newSub", "find", "create"}
  BY DEF TypeInv, JobInside, JobPCs
<1> QED
  BY <1>1 DEF AccountStep, FindSubscription, CreateSubscription, FindRow, CreateRow

LEMMA StepKinds ==
    ASSUME AccountAssumption, TypeInv, Next
    PROVE  /\ Tables' /\ Observe
           /\ QuietStep \/ InsertStep \/ CreditingStep \/ RunStep \/ SettingStep
<1>1. CASE \E p \in Procs : AccountStep(p)
  <2>1. PICK p \in Procs : AccountStep(p)
    BY <1>1
  <2>2. p \in Calls \cup Deliveries
    BY <2>1, JobHasNoAccount DEF Procs
  <2>3. Tables' /\ Quiet(p)
    BY <2>1, StepsOfAccount
  <2> QED
    BY <2>2, <2>3 DEF QuietStep, Next
<1>2. CASE \E c \in Calls : CallStep(c)
  BY <1>2, StepsOfCalls DEF QuietStep, Next
<1>3. CASE \E d \in Deliveries : DeliveryStep(d)
  BY <1>3, StepsOfDelivery DEF Next
<1>4. CASE JobStep
  BY <1>4, StepsOfJob DEF Next
<1>5. CASE CustomerStep
  BY <1>5, StepsOfCustomer DEF Next
<1> QED
  BY <1>1, <1>2, <1>3, <1>4, <1>5 DEF Next

----------------------------------------------------------------------------
(* Type correctness.                                                       *)
LEMMA TypeFromParts ==
    ASSUME Tables', proc' \in [Procs -> Processes], barred' \in [Calls -> SUBSET Grounds]
    PROVE  TypeOK'
BY DEF Tables, TypeOK

LEMMA OthersKeepJob ==
    ASSUME AccountAssumption, TypeInv, NEW p \in Calls \cup Deliveries, NEW new,
           Moves(p, new), UNCHANGED cycle
    PROVE  JobInside'
<1>1. proc'[Job] = proc[Job]
  BY JobIsApart, MovesKeep DEF TypeInv
<1> QED
  BY <1>1 DEF TypeInv, JobInside

LEMMA InitTypeInv == ASSUME AccountAssumption, Init PROVE TypeInv
<1>1. Resting("idle") \in Processes /\ Resting("idle").pc = "idle" /\ "idle" \notin RowPCs
  BY DEF Resting, Processes, Continuations, PCs, RestPCs, RowPCs, CheckPCs, JobPCs
<1>2. 0 \in Cycles
  BY DEF AccountAssumption, Cycles
<1>3. TypeOK
  BY <1>1, <1>2 DEF Init, TypeOK, AccountAssumption
<1>4. RowsAtHand
  BY <1>1 DEF Init, RowsAtHand
<1>5. JobInside
  BY <1>1, JobIsApart DEF Init, JobInside
<1> QED
  BY <1>3, <1>4, <1>5 DEF TypeInv

LEMMA NextTypeInv ==
    ASSUME AccountAssumption, TypeInv, [Next]_vars
    PROVE  TypeInv'
<1>1. CASE UNCHANGED vars
  BY <1>1 DEF vars, TypeInv, TypeOK, RowsAtHand, JobInside
<1>2. ASSUME Next PROVE TypeInv'
  <2> USE <1>2
  <2>1. Tables' /\ Observe /\ TypeOK /\ RowsAtHand
    BY StepKinds DEF TypeInv
  <2>2. barred' \in [Calls -> SUBSET Grounds]
    BY <2>1, ObservedType DEF TypeOK
  <2>3. CASE QuietStep
    <3>1. PICK p \in Calls \cup Deliveries, new \in Processes : Moves(p, new) /\ UNCHANGED cycle
      BY <2>3 DEF QuietStep, Quiet, Moves
    <3>2. JobInside'
      BY <3>1, OthersKeepJob
    <3> QED
      BY <2>1, <2>2, <3>1, <3>2, MovesKeep, TypeFromParts DEF TypeInv, Procs
  <2>4. CASE InsertStep
    <3>1. PICK d \in Deliveries, new \in Processes : Moves(d, new) /\ UNCHANGED cycle
      BY <2>4 DEF InsertStep, Inserts
    <3>2. JobInside'
      BY <3>1, OthersKeepJob
    <3> QED
      BY <2>1, <2>2, <3>1, <3>2, MovesKeep, TypeFromParts DEF TypeInv, Procs
  <2>5. CASE CreditingStep
    <3>1. PICK d \in Deliveries, new \in Processes : Moves(d, new) /\ UNCHANGED cycle
      BY <2>5, CreditStep DEF CreditingStep, Moves
    <3>2. JobInside'
      BY <3>1, OthersKeepJob
    <3> QED
      BY <2>1, <2>2, <3>1, <3>2, MovesKeep, TypeFromParts DEF TypeInv, Procs
  <2>6. CASE RunStep
    <3>1. PICK new : JobMoves(new) /\ JobKeepsInside(new)
      BY <2>6 DEF RunStep
    <3>2. /\ proc' \in [Procs -> Processes] /\ RowsAtHand' /\ proc'[Job] = new
      BY <2>1, <3>1, JobIsApart, MovesKeep DEF JobMoves
    <3>3. JobInside'
      BY <3>1, <3>2 DEF JobInside, JobMoves, JobKeepsInside
    <3> QED
      BY <2>1, <2>2, <3>2, <3>3, TypeFromParts DEF TypeInv
  <2>7. CASE SettingStep
    <3>1. RowsAtHand' /\ JobInside' /\ proc' \in [Procs -> Processes]
      BY <2>7 DEF SettingStep, TypeInv, TypeOK, RowsAtHand, JobInside
    <3> QED
      BY <2>1, <2>2, <3>1, TypeFromParts DEF TypeInv
  <2> QED
    BY <2>3, <2>4, <2>5, <2>6, <2>7, StepKinds
<1> QED
  BY <1>1, <1>2

----------------------------------------------------------------------------
(* Credits.  A delivery that is about to credit a payment has inserted it: *)
(* the payment is a purchase that was captured, it has not been credited,  *)
(* and no other delivery is about to credit it.                            *)
AtCredit(d, p) == pc(d) = "credit" /\ PaymentOf(d) = p

CreditInv ==
    /\ \A p \in Payments : credits[p] <= 1
    /\ \A p \in Payments : credits[p] # 0 => p \in TopUps /\ payment[p] = "PAID"
    /\ \A d \in Deliveries, p \in Payments :
          AtCredit(d, p) => payment[p] = "PAID" /\ credits[p] = 0
    /\ \A d \in Deliveries : pc(d) = "credit" => PaymentOf(d) \in TopUps
    /\ \A d, e \in Deliveries, p \in Payments : AtCredit(d, p) /\ AtCredit(e, p) => d = e

LEMMA InitCreditInv == ASSUME AccountAssumption, Init PROVE CreditInv
<1>1. \A d \in Deliveries : pc(d) # "credit"
  BY DEF Init, Resting, Procs
<1>2. \A p \in Payments : credits[p] = 0
  BY DEF Init
<1>3. \A p \in Payments : credits[p] <= 1
  BY <1>2
<1>4. \A d \in Deliveries, p \in Payments : ~ AtCredit(d, p)
  BY <1>1 DEF AtCredit
<1> QED
  BY <1>1, <1>2, <1>3, <1>4, Zenon DEF CreditInv

(* Nothing changes for the credits when a process moves elsewhere.         *)
LEMMA ElsewhereKeepsCredits ==
    ASSUME TypeInv, CreditInv, NEW p \in Procs, NEW new, Moves(p, new),
           new.pc # "credit", UNCHANGED <<payment, credits>>
    PROVE  CreditInv'
<1>1. \A d \in Deliveries : d \in Procs
  BY DEF Procs
<1>2. \A d \in Deliveries : proc'[d].pc = "credit" => proc'[d] = proc[d]
  BY <1>1, MovesKeep DEF TypeInv
<1> QED
  BY <1>2 DEF CreditInv, AtCredit, PaymentOf

LEMMA InsertKeepsCredits ==
    ASSUME AccountAssumption, TypeInv, CreditInv, NEW d \in Deliveries, NEW new,
           Inserts(d, new), UNCHANGED credits
    PROVE  CreditInv'
<1> DEFINE x == PaymentOf(d)
<1>1. /\ proc'[d] = new /\ \A e \in Deliveries \ {d} : proc'[e] = proc[e]
  BY MovesKeep DEF Inserts, TypeInv, Procs
<1>2. /\ \A p \in Payments \ {x} : payment'[p] = payment[p]
      /\ x \in Payments => payment[x] = "none"
  BY DEF Inserts
<1>3. x \in Payments => credits[x] = 0 /\ \A e \in Deliveries : ~AtCredit(e, x)
  BY <1>2 DEF CreditInv
<1>4. new.pc = "credit" =>
        x \in TopUps /\ x \in Payments /\ new.about[1] = x /\ payment'[x] = "PAID"
  BY DEF Inserts, PaymentOf, AccountAssumption
<1>5. \A e \in Deliveries, p \in Payments :
        AtCredit(e, p)' => IF e = d THEN new.pc = "credit" /\ p = x
                           ELSE AtCredit(e, p) /\ p # x
  <2>1. \A e \in Deliveries \ {d}, p \in Payments : AtCredit(e, p)' => AtCredit(e, p)
    BY <1>1 DEF AtCredit, PaymentOf
  <2>2. \A p \in Payments : AtCredit(d, p)' => new.pc = "credit" /\ p = x
    BY <1>1, <1>4 DEF AtCredit, PaymentOf
  <2> QED
    BY <1>3, <2>1, <2>2
<1>6. \A p \in Payments : credits'[p] <= 1
  BY DEF CreditInv
<1>7. \A p \in Payments : credits'[p] # 0 => p \in TopUps /\ payment'[p] = "PAID"
  BY <1>2, <1>3 DEF CreditInv
<1>8. \A e \in Deliveries, p \in Payments :
        AtCredit(e, p)' => payment'[p] = "PAID" /\ credits'[p] = 0
  BY <1>2, <1>3, <1>4, <1>5 DEF CreditInv
<1>9. \A e \in Deliveries : pc(e)' = "credit" => PaymentOf(e)' \in TopUps
  BY <1>1, <1>4 DEF CreditInv, PaymentOf
<1>10. \A e, f \in Deliveries, p \in Payments : AtCredit(e, p)' /\ AtCredit(f, p)' => e = f
  BY <1>5 DEF CreditInv
<1> QED
  BY <1>6, <1>7, <1>8, <1>9, <1>10 DEF CreditInv

(* What a delivery that credits finds and leaves.                          *)
LEMMA CreditingFacts ==
    ASSUME AccountAssumption, TypeInv, CreditInv, NEW d \in Deliveries, Credit(d)
    PROVE  /\ PaymentOf(d) \in TopUps /\ PaymentOf(d) \in Payments
           /\ payment[PaymentOf(d)] = "PAID" /\ credits[PaymentOf(d)] = 0
           /\ credits' = [credits EXCEPT ![PaymentOf(d)] = 1]
<1>1. pc(d) = "credit" /\ PaymentOf(d) \in TopUps /\ PaymentOf(d) \in Payments
  BY DEF Credit, CreditInv, AccountAssumption
<1>2. payment[PaymentOf(d)] = "PAID" /\ credits[PaymentOf(d)] = 0
  BY <1>1 DEF CreditInv, AtCredit
<1>3. credits' = [credits EXCEPT ![PaymentOf(d)] = credits[PaymentOf(d)] + 1]
  BY DEF Credit
<1> QED
  BY <1>1, <1>2, <1>3

LEMMA CreditKeepsCredits ==
    ASSUME AccountAssumption, TypeInv, CreditInv, NEW d \in Deliveries, Credit(d)
    PROVE  CreditInv'
<1> DEFINE x == PaymentOf(d)
<1>1. /\ x \in TopUps /\ x \in Payments /\ payment[x] = "PAID" /\ payment' = payment
      /\ credits \in [Payments -> Nat] /\ credits' = [credits EXCEPT ![x] = 1]
  BY CreditingFacts, CreditStep DEF TypeInv, TypeOK
<1>2. PICK new : Moves(d, new) /\ new.pc = "done"
  BY CreditStep
<1>3. \A e \in Deliveries : proc'[e].pc = "credit" => e # d /\ proc'[e] = proc[e]
  BY <1>2, MovesKeep DEF TypeInv, Procs
<1>4. \A e \in Deliveries : pc(e)' = "credit" => pc(e) = "credit" /\ PaymentOf(e)' = PaymentOf(e)
  BY <1>3 DEF PaymentOf
<1>5. \A e \in Deliveries, p \in Payments : AtCredit(e, p)' => AtCredit(e, p) /\ p # x
  <2>1. AtCredit(d, x)
    BY DEF AtCredit, Credit
  <2>2. \A e \in Deliveries, p \in Payments : AtCredit(e, p)' => AtCredit(e, p) /\ e # d
    BY <1>3, <1>4 DEF AtCredit
  <2> QED
    BY <1>1, <2>1, <2>2 DEF CreditInv
<1> HIDE DEF x
<1>6. \A p \in Payments : credits'[p] = IF p = x THEN 1 ELSE credits[p]
  BY <1>1
<1>7. \A p \in Payments : credits'[p] <= 1
  BY <1>6 DEF CreditInv
<1>8. \A p \in Payments : credits'[p] # 0 => p \in TopUps /\ payment'[p] = "PAID"
  BY <1>1, <1>6 DEF CreditInv
<1>9. \A e \in Deliveries, p \in Payments :
        AtCredit(e, p)' => payment'[p] = "PAID" /\ credits'[p] = 0
  BY <1>1, <1>5, <1>6 DEF CreditInv
<1>10. \A e \in Deliveries : pc(e)' = "credit" => PaymentOf(e)' \in TopUps
  BY <1>4 DEF CreditInv
<1>11. \A e, f \in Deliveries, p \in Payments : AtCredit(e, p)' /\ AtCredit(f, p)' => e = f
  BY <1>5 DEF CreditInv
<1> QED
  BY <1>7, <1>8, <1>9, <1>10, <1>11 DEF CreditInv

LEMMA NextCreditInv ==
    ASSUME AccountAssumption, TypeInv, CreditInv, [Next]_vars
    PROVE  CreditInv'
<1>1. CASE UNCHANGED vars
  BY <1>1 DEF vars, CreditInv, AtCredit, PaymentOf
<1>2. CASE Next
  <2>1. CASE QuietStep
    BY <2>1, ElsewhereKeepsCredits DEF QuietStep, Quiet, Procs
  <2>2. CASE InsertStep
    BY <2>2, InsertKeepsCredits DEF InsertStep
  <2>3. CASE CreditingStep
    BY <2>3, CreditKeepsCredits DEF CreditingStep
  <2>4. CASE RunStep
    <3>1. PICK new : Moves(Job, new) /\ new.pc # "credit" /\ UNCHANGED <<payment, credits>>
      BY <2>4 DEF RunStep, JobMoves, JobPCs
    <3> QED
      BY <3>1, JobIsApart, ElsewhereKeepsCredits
  <2>5. CASE SettingStep
    BY <2>5 DEF SettingStep, CreditInv, AtCredit, PaymentOf
  <2> QED
    BY <1>2, <2>1, <2>2, <2>3, <2>4, <2>5, StepKinds
<1> QED
  BY <1>1, <1>2

----------------------------------------------------------------------------
(* Purchased minutes.  No row shows more of them than payments have been   *)
(* credited, and the daily run carries over no more than that.             *)
Credited == {p \in TopUps : credits[p] = 1}

PurchaseInv ==
    /\ \A r \in Rows : bought[r] <= Cardinality(Credited)
    /\ pc(Job) = "carry" => proc[Job].held <= Cardinality(Credited)

LEMMA CreditedIsFinite ==
    ASSUME AccountAssumption
    PROVE  /\ IsFiniteSet(Credited) /\ Cardinality(Credited) \in Nat
           /\ IsFiniteSet(Credited') /\ Cardinality(Credited') \in Nat
BY FS_Subset, FS_CardinalityType DEF Credited, AccountAssumption

LEMMA InitPurchaseInv == ASSUME AccountAssumption, Init PROVE PurchaseInv
<1>1. \A r \in Rows : bought[r] = 0
  BY DEF Init
<1>2. pc(Job) = "idle"
  BY JobIsApart DEF Init, Resting
<1> QED
  BY <1>1, <1>2, CreditedIsFinite DEF PurchaseInv

LEMMA KeepsPurchases ==
    ASSUME AccountAssumption, TypeInv, PurchaseInv, UNCHANGED <<bought, credits>>,
           proc'[Job] = proc[Job]
    PROVE  PurchaseInv'
<1>1. Credited' = Credited
  BY DEF Credited
<1> QED
  BY <1>1 DEF PurchaseInv

LEMMA RunKeepsPurchases ==
    ASSUME AccountAssumption, TypeInv, PurchaseInv, RunStep
    PROVE  PurchaseInv'
<1>1. PICK new : JobMoves(new) /\ Carries(new)
  BY DEF RunStep
<1>2. proc'[Job] = new
  BY <1>1, MovesKeep, JobIsApart DEF JobMoves, TypeInv
<1>3. Credited' = Credited
  BY <1>1 DEF JobMoves, Credited
<1>4. \A r \in Rows : bought'[r] <= Cardinality(Credited)
  BY <1>1 DEF Carries, PurchaseInv
<1>5. new.pc = "carry" => new.held <= Cardinality(Credited)
  BY <1>1 DEF Carries, PurchaseInv
<1> QED
  BY <1>2, <1>3, <1>4, <1>5 DEF PurchaseInv

LEMMA CreditKeepsPurchases ==
    ASSUME AccountAssumption, TypeInv, CreditInv, PurchaseInv, NEW d \in Deliveries, Credit(d)
    PROVE  PurchaseInv'
<1> DEFINE x == PaymentOf(d)
<1>1. /\ x \in TopUps /\ x \in Payments /\ credits[x] = 0
      /\ credits' = [credits EXCEPT ![x] = 1]
  BY CreditingFacts
<1>2. credits \in [Payments -> Nat] /\ TopUps \subseteq Payments
  BY DEF TypeInv, TypeOK, AccountAssumption
<1>3. Credited' = Credited \cup {x} /\ x \notin Credited
  <2> HIDE DEF x
  <2>1. \A p \in TopUps : credits'[p] = IF p = x THEN 1 ELSE credits[p]
    BY <1>1, <1>2
  <2> QED
    BY <1>1, <2>1 DEF Credited
<1>4. Cardinality(Credited') = Cardinality(Credited) + 1
  BY <1>3, CreditedIsFinite, FS_AddElement
<1>5. mine(d) \in Rows
  BY DEF TypeInv, RowsAtHand, RowPCs, Credit, Procs
<1>6. \A r \in Rows : bought'[r] <= bought[r] + 1 /\ bought[r] \in Nat
  <2>1. bought \in [Rows -> Nat] /\ bought' = [bought EXCEPT ![mine(d)] = bought[mine(d)] + 1]
    BY DEF TypeInv, TypeOK, Credit
  <2> QED
    BY <1>5, <2>1
<1>7. \A r \in Rows : bought'[r] <= Cardinality(Credited')
  <2>1. \A r \in Rows : bought[r] <= Cardinality(Credited) /\ bought'[r] \in Nat
    BY CreditStep DEF PurchaseInv, Tables
  <2> QED
    BY <1>4, <1>6, <2>1, CreditedIsFinite
<1>8. proc'[Job] = proc[Job] /\ proc[Job].held \in Nat
  <2>1. PICK new : Moves(d, new)
    BY CreditStep
  <2> QED
    BY <2>1, MovesKeep, JobIsApart DEF TypeInv, TypeOK, Processes
<1>9. pc(Job)' = "carry" => proc'[Job].held <= Cardinality(Credited')
  BY <1>4, <1>8, CreditedIsFinite DEF PurchaseInv
<1> QED
  BY <1>7, <1>9 DEF PurchaseInv

LEMMA NextPurchaseInv ==
    ASSUME AccountAssumption, TypeInv, CreditInv, PurchaseInv, [Next]_vars
    PROVE  PurchaseInv'
<1>1. CASE UNCHANGED vars
  BY <1>1, KeepsPurchases DEF vars
<1>2. CASE Next
  <2>1. CASE QuietStep
    <3>1. PICK p \in Calls \cup Deliveries, new \in Processes :
             Moves(p, new) /\ UNCHANGED <<bought, credits>>
      BY <2>1 DEF QuietStep, Quiet, Moves
    <3>2. proc'[Job] = proc[Job]
      BY <3>1, MovesKeep, JobIsApart DEF TypeInv
    <3> QED
      BY <3>1, <3>2, KeepsPurchases
  <2>2. CASE InsertStep
    <3>1. PICK d \in Deliveries, new \in Processes : Moves(d, new) /\ UNCHANGED <<bought, credits>>
      BY <2>2 DEF InsertStep, Inserts
    <3>2. proc'[Job] = proc[Job]
      BY <3>1, MovesKeep, JobIsApart DEF TypeInv
    <3> QED
      BY <3>1, <3>2, KeepsPurchases
  <2>3. CASE CreditingStep
    BY <2>3, CreditKeepsPurchases DEF CreditingStep
  <2>4. CASE RunStep
    BY <2>4, RunKeepsPurchases
  <2>5. CASE SettingStep
    BY <2>5, KeepsPurchases DEF SettingStep
  <2> QED
    BY <1>2, <2>1, <2>2, <2>3, <2>4, <2>5, StepKinds
<1> QED
  BY <1>1, <1>2

----------------------------------------------------------------------------
(* The lines of a cycle: what getCallUsage bills for them one by one is    *)
(* what the invoice bills for their total.                                 *)
LEMMA ExcessOfMore ==
    ASSUME NEW a \in Nat, NEW b \in Nat, NEW c \in Nat
    PROVE  /\ Excess(a, b) \in Nat
           /\ Excess(b + c, a) = Excess(b, a) + Excess(c, Excess(a, b))
           /\ a <= b => Excess(a, c) <= Excess(b, c)
BY DEF Excess

LEMMA ExcessInTurn ==
    ASSUME NEW a \in Nat, NEW b \in Nat, NEW c \in Nat
    PROVE  Excess(Excess(a, b), c) = Excess(a, b + c)
BY DEF Excess

(* The sum of the first k values, and what is left of an allowance when    *)
(* they have been taken from it.                                           *)
First(F, k) == SumFunctionOnSet(F, 1..k)

Naturals(F, n) == \A k \in 1..n : F[k] \in Nat

LEMMA FirstNone == ASSUME NEW F PROVE First(F, 0) = 0
<1>1. 1..0 = {}
  OBVIOUS
<1> QED
  BY <1>1, SumEmpty DEF First

LEMMA FirstOneMore ==
    ASSUME NEW F, NEW n \in Nat, Naturals(F, n), NEW k \in 1..n
    PROVE  /\ First(F, k) = First(F, k - 1) + F[k]
           /\ First(F, k - 1) \in Nat /\ First(F, k) \in Nat /\ F[k] \in Nat
<1> DEFINE j == k - 1
<1>1. j \in Nat /\ k = j + 1 /\ \A i \in 1..k : F[i] \in Nat
  BY DEF Naturals
<1>2. IntegersOn(F, 1..j) /\ IntegersOn(F, 1..(j + 1)) /\ Same(F, F, 1..j)
  BY <1>1 DEF IntegersOn, Same
<1>3. SumFunctionOnSet(F, 1..(j + 1)) = SumFunctionOnSet(F, 1..j) + F[j + 1]
  <2> HIDE DEF j
  <2> QED
    BY <1>1, <1>2, SumAppend
<1>4. IsFiniteSet(1..j) /\ IsFiniteSet(1..k)
  BY <1>1, FS_Interval
<1>5. SumFunctionOnSet(F, 1..j) \in Nat /\ SumFunctionOnSet(F, 1..k) \in Nat
  <2>1. \A i \in 1..j : F[i] \in Nat
    BY <1>1
  <2> HIDE DEF j
  <2> QED
    BY <1>1, <1>4, <2>1, SumOfNaturals
<1> QED
  BY <1>1, <1>3, <1>5 DEF First

LEMMA FirstType ==
    ASSUME NEW F, NEW n \in Nat, Naturals(F, n), NEW k \in 0..n
    PROVE  First(F, k) \in Nat
<1>1. CASE k = 0
  BY <1>1, FirstNone
<1>2. CASE k # 0
  <2>1. k \in 1..n
    BY <1>2
  <2> QED
    BY <2>1, FirstOneMore
<1> QED
  BY <1>1, <1>2

(* What getCallUsage has left after each call.                             *)
Leaves(left, F, n, free) ==
    left = [k \in 0..n |-> IF k = 0 THEN free ELSE Excess(left[k - 1], F[k])]
Remains(F, n, free) == [k \in 0..n |-> Excess(free, First(F, k))]

LEMMA RemainsIsLeft ==
    ASSUME NEW F, NEW n \in Nat, Naturals(F, n), NEW free \in Nat
    PROVE  Leaves(Remains(F, n, free), F, n, free)
<1> DEFINE h == Remains(F, n, free)
<1>1. h[0] = free
  BY FirstNone DEF Remains, Excess
<1>2. ASSUME NEW k \in 1..n
      PROVE  h[k] = Excess(h[k - 1], F[k])
  <2>1. k \in 0..n /\ k - 1 \in 0..n
    OBVIOUS
  <2>2. /\ First(F, k) = First(F, k - 1) + F[k]
        /\ First(F, k - 1) \in Nat /\ F[k] \in Nat
    BY FirstOneMore
  <2>3. h[k] = Excess(free, First(F, k)) /\ h[k - 1] = Excess(free, First(F, k - 1))
    BY <2>1 DEF Remains
  <2>4. Excess(free, First(F, k - 1) + F[k]) = Excess(Excess(free, First(F, k - 1)), F[k])
    BY <2>2, ExcessInTurn, Zenon
  <2> HIDE DEF h
  <2> QED
    BY <2>2, <2>3, <2>4, Zenon
<1>3. \A k \in 0..n : h[k] = IF k = 0 THEN free ELSE Excess(h[k - 1], F[k])
  BY <1>1, <1>2
<1> QED
  BY <1>3 DEF Leaves, Remains

LEMMA LeftIsRemains ==
    ASSUME NEW F, NEW n \in Nat, Naturals(F, n), NEW free \in Nat,
           NEW left, Leaves(left, F, n, free), NEW k \in 0..n
    PROVE  left[k] = Excess(free, First(F, k))
<1> DEFINE C == {i \in Nat : i \in 0..n => left[i] = Excess(free, First(F, i))}
<1>1. 0 \in C
  BY FirstNone DEF Leaves, Excess
<1>2. ASSUME NEW i \in Nat, i \in C PROVE i + 1 \in C
  <2>1. ASSUME i + 1 \in 0..n PROVE left[i + 1] = Excess(free, First(F, i + 1))
    <3>1. i + 1 \in 1..n /\ i \in 0..n /\ (i + 1) - 1 = i /\ i + 1 # 0
      BY <2>1
    <3>2. left[i + 1] = Excess(left[i], F[i + 1])
      BY <2>1, <3>1 DEF Leaves
    <3>3. /\ First(F, i + 1) = First(F, i) + F[i + 1]
          /\ First(F, i) \in Nat /\ F[i + 1] \in Nat
      BY <3>1, FirstOneMore
    <3>4. left[i] = Excess(free, First(F, i))
      BY <1>2, <3>1
    <3>5. Excess(free, First(F, i) + F[i + 1]) = Excess(Excess(free, First(F, i)), F[i + 1])
      BY <3>3, ExcessInTurn, Zenon
    <3> QED
      BY <3>2, <3>3, <3>4, <3>5, Zenon
  <2> QED
    BY <2>1
<1>3. k \in Nat /\ k \in 0..n
  OBVIOUS
<1>4. k \in C
  <2> HIDE DEF C
  <2> QED
    BY <1>1, <1>2, <1>3, NaturalsByStages
<1> QED
  BY <1>3, <1>4

(* What getCallUsage bills call by call adds up to what the total exceeds  *)
(* the allowance by.                                                       *)
Bills(F, n, free) == [k \in 1..n |-> Excess(F[k], Excess(free, First(F, k - 1)))]

LEMMA BillsAddUp ==
    ASSUME NEW F, NEW n \in Nat, Naturals(F, n), NEW free \in Nat
    PROVE  SumFunctionOnSet(Bills(F, n, free), 1..n) = Excess(First(F, n), free)
<1> DEFINE B == Bills(F, n, free)
           C == {i \in Nat : i \in 0..n => First(B, i) = Excess(First(F, i), free)}
<1>1. 0 \in C
  BY FirstNone DEF Excess
<1>2. ASSUME NEW k \in 1..n
      PROVE  B[k] = Excess(F[k], Excess(free, First(F, k - 1))) /\ B[k] \in Nat
  <2>1. F[k] \in Nat /\ First(F, k - 1) \in Nat
    BY FirstOneMore
  <2> QED
    BY <2>1, ExcessOfMore DEF Bills
<1>3. Naturals(B, n)
  BY <1>2 DEF Naturals
<1>4. ASSUME NEW i \in Nat, i \in C PROVE i + 1 \in C
  <2>1. ASSUME i + 1 \in 0..n PROVE First(B, i + 1) = Excess(First(F, i + 1), free)
    <3> HIDE DEF B
    <3>1. i + 1 \in 1..n /\ i \in 0..n /\ (i + 1) - 1 = i
      BY <2>1
    <3>2. /\ First(F, i + 1) = First(F, i) + F[i + 1]
          /\ First(F, i) \in Nat /\ F[i + 1] \in Nat
      BY <3>1, FirstOneMore
    <3>3. First(B, i + 1) = First(B, i) + B[i + 1]
      BY <1>3, <3>1, FirstOneMore
    <3>4. B[i + 1] = Excess(F[i + 1], Excess(free, First(F, i)))
      BY <1>2, <3>1
    <3>5. First(B, i) = Excess(First(F, i), free)
      BY <1>4, <3>1
    <3>6. Excess(First(F, i) + F[i + 1], free)
            = Excess(First(F, i), free) + Excess(F[i + 1], Excess(free, First(F, i)))
      BY <3>2, ExcessOfMore
    <3> QED
      BY <3>2, <3>3, <3>4, <3>5, <3>6, Zenon
  <2> QED
    BY <2>1
<1>5. n \in C
  <2> HIDE DEF C
  <2> QED
    BY <1>1, <1>4, NaturalsByStages
<1> QED
  BY <1>5 DEF First

(* The lines of a Usage row.                                               *)
MinutesOf(s, m) == [k \in 1..Len(s) |-> s[k][m]]

LEMMA LineFacts ==
    ASSUME NEW s \in Seq([Media -> Nat]), NEW m \in Media
    PROVE  /\ DOMAIN s = 1..Len(s) /\ Len(s) \in Nat
           /\ Naturals(MinutesOf(s, m), Len(s))
           /\ \A k \in 1..Len(s) : s[k] \in [Media -> Nat]
BY DEF MinutesOf, Naturals

LEMMA TotalIsFirst ==
    ASSUME TypeOK, NEW r \in Rows, NEW m \in Media
    PROVE  /\ Total(r, m) = First(MinutesOf(lines[r], m), Len(lines[r]))
           /\ Total(r, m) \in Nat
<1>1. lines[r] \in Seq([Media -> Nat])
  BY DEF TypeOK
<1>2. /\ DOMAIN lines[r] = 1..Len(lines[r]) /\ Len(lines[r]) \in Nat
      /\ Naturals(MinutesOf(lines[r], m), Len(lines[r]))
  BY <1>1, LineFacts
<1>3. Total(r, m) = First(MinutesOf(lines[r], m), Len(lines[r]))
  BY <1>2 DEF Total, SumFunction, First, MinutesOf
<1> QED
  BY <1>2, <1>3, FirstType

LEMMA LinesAddUp ==
    ASSUME AccountAssumption, TypeOK, NEW r \in Rows, NEW m \in Media
    PROVE  BilledByLine(r, m) = Excess(Total(r, m), Free[m])
<1> DEFINE F == MinutesOf(lines[r], m)
           n == Len(lines[r])
           left == LeftAfter(r, m)
<1>1. /\ DOMAIN lines[r] = 1..n /\ n \in Nat /\ Naturals(F, n) /\ Free[m] \in Nat
      /\ \A k \in 1..n : F[k] = lines[r][k][m]
  BY LineFacts DEF TypeOK, AccountAssumption, MinutesOf
<1>2. left = CHOOSE h : Leaves(h, F, n, Free[m])
  <2>1. \A h : Leaves(h, F, n, Free[m]) <=>
               h = [k \in 0..n |-> IF k = 0 THEN Free[m] ELSE Excess(h[k - 1], lines[r][k][m])]
    <3>1. ASSUME NEW k \in 0..n, k # 0 PROVE F[k] = lines[r][k][m]
      BY <1>1, <3>1
    <3> QED
      BY <3>1 DEF Leaves
  <2> QED
    BY <2>1 DEF LeftAfter
<1>3. Leaves(left, F, n, Free[m])
  <2> HIDE DEF F, n, left
  <2> QED
    BY <1>1, <1>2, RemainsIsLeft
<1>4. ASSUME NEW k \in 1..n
      PROVE  LineBill(r, m, k) = Bills(F, n, Free[m])[k]
  <2>1. k - 1 \in 0..n
    BY <1>1
  <2>2. left[k - 1] = Excess(Free[m], First(F, k - 1))
    <3> HIDE DEF F, n, left
    <3> QED
      BY <1>1, <1>3, <2>1, LeftIsRemains
  <2> QED
    BY <1>1, <2>2 DEF LineBill, Bills
<1>5. [k \in 1..n |-> LineBill(r, m, k)] = Bills(F, n, Free[m])
  BY <1>4 DEF Bills
<1>6. BilledByLine(r, m) = SumFunctionOnSet(Bills(F, n, Free[m]), 1..n)
  BY <1>1, <1>5 DEF BilledByLine, SumFunction
<1> HIDE DEF F, n, left
<1>7. BilledByLine(r, m) = Excess(First(F, n), Free[m])
  BY <1>1, <1>6, BillsAddUp
<1> QED
  BY <1>7, TotalIsFirst DEF F, n

----------------------------------------------------------------------------
(* The minutes of a cycle are those of its lines.                          *)
TallyInv == \A r \in Rows, m \in Media : minutes[r][m] = Total(r, m)

LEMMA OnlyRecordsChangeLines ==
    ASSUME Next
    PROVE  (\E c \in Calls : RecordUsage(c)) \/ UNCHANGED <<minutes, lines>>
<1>1. CASE \E p \in Procs : AccountStep(p)
  BY <1>1 DEF AccountStep, FindSubscription, CreateSubscription, FindRow, CreateRow
<1>2. CASE \E c \in Calls : CallStep(c)
  BY <1>2 DEF CallStep, SignIn, AskForCall, ReadAllowance, ReadStanding, ReadCard,
              ReadLimit, ReadCost, StartCall, EndCall, Check
<1>3. CASE \E d \in Deliveries : DeliveryStep(d)
  BY <1>3 DEF DeliveryStep, Deliver, FindPayment, InsertPayment, Credit, EnterDunning
<1>4. CASE JobStep
  BY <1>4 DEF JobStep, FindDue, FindPastDue, ClaimCycle, ReadOldRow, CarryOver, ResetPastDue
<1>5. CASE CustomerStep
  BY <1>5 DEF CustomerStep, AttachCard, RemoveCard, SetLimit
<1> QED
  BY <1>1, <1>2, <1>3, <1>4, <1>5 DEF Next

LEMMA TotalAppends ==
    ASSUME AccountAssumption, TypeInv, TypeOK', NEW r \in Rows, NEW m \in Media,
           NEW use \in [Media -> Nat], lines'[r] = Append(lines[r], use)
    PROVE  Total(r, m)' = Total(r, m) + use[m]
<1> DEFINE n == Len(lines[r])
           F == MinutesOf(lines[r], m)
           G == MinutesOf(lines'[r], m)
<1>1. lines[r] \in Seq([Media -> Nat]) /\ lines'[r] \in Seq([Media -> Nat])
  BY DEF TypeInv, TypeOK
<1>2. /\ DOMAIN lines[r] = 1..n /\ n \in Nat /\ Len(lines'[r]) = n + 1
      /\ DOMAIN lines'[r] = 1..(n + 1)
      /\ \A k \in 1..n : lines'[r][k] = lines[r][k]
      /\ lines'[r][n + 1] = use
  BY <1>1
<1>3. /\ IntegersOn(F, 1..n) /\ IntegersOn(G, 1..(n + 1)) /\ Same(F, G, 1..n)
      /\ G[n + 1] = use[m]
  <2>1. \A k \in 1..n : lines[r][k] \in [Media -> Nat]
    BY <1>1, LineFacts
  <2>2. \A k \in 1..(n + 1) : lines'[r][k] \in [Media -> Nat]
    BY <1>1, <1>2, LineFacts
  <2> QED
    BY <1>2, <2>1, <2>2 DEF IntegersOn, Same, MinutesOf
<1>4. Total(r, m) = SumFunctionOnSet(F, 1..n)
  BY <1>2 DEF Total, SumFunction, MinutesOf
<1>5. Total(r, m)' = SumFunctionOnSet(G, 1..(n + 1))
  BY <1>2 DEF Total, SumFunction, MinutesOf
<1> HIDE DEF n, F, G
<1>6. SumFunctionOnSet(G, 1..(n + 1)) = SumFunctionOnSet(F, 1..n) + G[n + 1]
  BY <1>2, <1>3, SumAppend
<1> QED
  BY <1>3, <1>4, <1>5, <1>6, Zenon

LEMMA TotalKeeps ==
    ASSUME NEW r \in Rows, NEW m \in Media, lines'[r] = lines[r]
    PROVE  Total(r, m)' = Total(r, m)
BY DEF Total

LEMMA InitTally == ASSUME Init PROVE TallyInv
<1>1. ASSUME NEW r \in Rows, NEW m \in Media PROVE minutes[r][m] = Total(r, m)
  <2>1. DOMAIN lines[r] = {} /\ minutes[r][m] = 0
    BY DEF Init
  <2>2. Total(r, m) = SumFunctionOnSet([k \in {} |-> lines[r][k][m]], {})
    BY <2>1 DEF Total, SumFunction
  <2> QED
    BY <2>1, <2>2, SumEmpty
<1> QED
  BY <1>1 DEF TallyInv

LEMMA NextTally ==
    ASSUME AccountAssumption, TypeInv, TypeOK', TallyInv, [Next]_vars
    PROVE  TallyInv'
<1>1. CASE UNCHANGED <<minutes, lines>>
  <2>1. \A r \in Rows, m \in Media : Total(r, m)' = Total(r, m)
    BY <1>1, TotalKeeps
  <2> QED
    BY <1>1, <2>1 DEF TallyInv
<1>2. ASSUME NEW c \in Calls, RecordUsage(c) PROVE TallyInv'
  <2>1. PICK use \in Uses :
           /\ minutes' = [minutes EXCEPT ![mine(c)] = [m \in Media |-> @[m] + use[m]]]
           /\ lines' = [lines EXCEPT ![mine(c)] = Append(@, use)]
    BY <1>2 DEF RecordUsage, LineRow
  <2>2. use \in [Media -> Nat] /\ TypeOK
    BY DEF AccountAssumption, TypeInv
  <2>3. ASSUME NEW r \in Rows, NEW m \in Media PROVE minutes'[r][m] = Total(r, m)'
    <3>1. minutes[r][m] = Total(r, m)
      BY DEF TallyInv
    <3>2. CASE r = mine(c)
      <4>1. lines'[r] = Append(lines[r], use)
        BY <2>1, <2>2, <3>2 DEF TypeOK
      <4>2. minutes'[r][m] = minutes[r][m] + use[m]
        BY <2>1, <2>2, <3>2 DEF TypeOK
      <4>3. Total(r, m)' = Total(r, m) + use[m]
        BY <2>2, <4>1, TotalAppends
      <4> QED
        BY <3>1, <4>2, <4>3, Zenon
    <3>3. CASE r # mine(c)
      <4>1. lines'[r] = lines[r] /\ minutes'[r] = minutes[r]
        BY <2>1, <2>2, <3>3 DEF TypeOK
      <4> QED
        BY <3>1, <4>1, TotalKeeps
    <3> QED
      BY <3>2, <3>3
  <2> QED
    BY <2>3 DEF TallyInv
<1>3. UNCHANGED vars => UNCHANGED <<minutes, lines>>
  BY DEF vars
<1> QED
  BY <1>1, <1>2, <1>3, OnlyRecordsChangeLines

----------------------------------------------------------------------------
(* The rows that are stored or that a process has in hand belong to cycles *)
(* that have begun, and the daily run has begun the one after the cycle it *)
(* closes; and a delivery knows which notice it handles.                   *)
Known(r) == r = NoRow \/ (r[1] \in 1..subs /\ r[2] <= cycle[r[1]])
JobBehind == pc(Job) \in {"old", "carry"} => mine(Job)[2] < cycle[mine(Job)[1]]

HandInv ==
    /\ \A p \in Procs : Known(mine(p))
    /\ \A r \in rows : Known(r)
    /\ JobBehind
    /\ \A d \in Deliveries : pc(d) \notin RestPCs => proc[d].about \in Notices

Grows == subs <= subs' /\ \A n \in Subs : cycle[n] <= cycle'[n]

(* The same after a step, for a row that may be read from the state before. *)
KnownNext(r) == r = NoRow \/ (r[1] \in 1..subs' /\ r[2] <= cycle'[r[1]])

LEMMA KnownGrows ==
    ASSUME TypeInv, Tables', Grows, NEW r \in Rows \cup {NoRow}, Known(r)
    PROVE  KnownNext(r)
<1>1. CASE r = NoRow
  BY <1>1 DEF KnownNext
<1>2. CASE r # NoRow
  <2>1. r[1] \in 1..subs /\ r[1] \in Subs /\ r[2] \in Nat /\ r[2] <= cycle[r[1]]
    BY <1>2, RowParts DEF Known, Cycles
  <2>2. /\ subs \in Nat /\ subs' \in Nat /\ cycle[r[1]] \in Nat /\ cycle'[r[1]] \in Nat
        /\ cycle[r[1]] <= cycle'[r[1]] /\ subs <= subs'
    BY <2>1 DEF TypeInv, TypeOK, Tables, Cycles, Grows
  <2>3. r[1] \in 1..subs' /\ r[2] <= cycle'[r[1]]
    BY <2>1, <2>2
  <2> QED
    BY <2>3 DEF KnownNext
<1> QED
  BY <1>1, <1>2

(* A process takes a step after which its row and its notice are in order. *)
Holds(p, new) ==
    /\ KnownNext(new.row)
    /\ p \in Deliveries /\ new.pc \notin RestPCs => new.about \in Notices
Turn(p) == \E new : proc' = [proc EXCEPT ![p] = new] /\ Holds(p, new)
Turns(p) == Turn(p) /\ UNCHANGED <<subs, cycle>>

LEMMA ProcRows ==
    ASSUME TypeInv, NEW p \in Procs
    PROVE  /\ proc[p] \in Processes /\ proc \in [Procs -> Processes]
           /\ mine(p) \in Rows \cup {NoRow}
BY ProcessParts DEF TypeInv, TypeOK

LEMMA TurnKeeps ==
    ASSUME AccountAssumption, TypeInv, Tables', HandInv, NEW p \in Procs, Turn(p), Grows,
           \A r \in rows' : r \in rows \/ KnownNext(r), JobBehind'
    PROVE  HandInv'
<1>1. PICK new : proc' = [proc EXCEPT ![p] = new] /\ Holds(p, new)
  BY DEF Turn
<1>2. proc'[p] = new /\ \A q \in Procs \ {p} : proc'[q] = proc[q]
  BY <1>1, ProcRows
<1>3. \A q \in Procs : Known(mine(q))'
  <2>1. \A q \in Procs \ {p} : Known(mine(q))'
    <3>1. ASSUME NEW q \in Procs \ {p} PROVE KnownNext(mine(q))
      BY ProcRows, KnownGrows DEF HandInv
    <3> QED
      BY <1>2, <3>1 DEF Known, KnownNext
  <2>2. Known(mine(p))'
    BY <1>1, <1>2 DEF Holds, Known, KnownNext
  <2> QED
    BY <2>1, <2>2
<1>4. \A r \in rows' : Known(r)'
  <2>1. \A r \in rows : r \in Rows \cup {NoRow} /\ Known(r)
    BY DEF TypeInv, TypeOK, HandInv
  <2> QED
    BY <2>1, KnownGrows DEF Known, KnownNext
<1>5. \A d \in Deliveries : pc(d)' \notin RestPCs => proc'[d].about \in Notices
  BY <1>1, <1>2 DEF HandInv, Holds, Procs
<1> QED
  BY <1>3, <1>4, <1>5 DEF HandInv

(* Most steps create no row, no subscription and no cycle.                 *)
LEMMA TurnsKeep ==
    ASSUME AccountAssumption, TypeInv, Tables', HandInv, NEW p \in Calls \cup Deliveries,
           Turns(p), rows' \subseteq rows \cup {mine(p)}
    PROVE  HandInv'
<1>1. p \in Procs /\ p # Job /\ Job \in Procs
  BY JobIsApart
<1>2. proc'[Job] = proc[Job]
  BY <1>1, ProcRows DEF Turns, Turn
<1>3. Grows
  BY DEF Grows, Turns, TypeInv, TypeOK, Cycles
<1>4. JobBehind'
  BY <1>2 DEF JobBehind, HandInv, Turns
<1>5. KnownNext(mine(p))
  BY <1>1 DEF HandInv, Known, KnownNext, Turns
<1>6. \A r \in rows' : r \in rows \/ KnownNext(r)
  BY <1>5
<1> QED
  BY <1>1, <1>3, <1>4, <1>6, TurnKeeps DEF Turns

LEMMA GotoTurns ==
    ASSUME TypeInv, HandInv, NEW p \in Procs, NEW label,
           p \in Deliveries => pc(p) \notin RestPCs,
           Goto(p, label), UNCHANGED <<subs, cycle>>
    PROVE  Turns(p)
<1> DEFINE new == At(proc[p], label)
<1>1. proc' = [proc EXCEPT ![p] = new]
  BY DEF Goto
<1>2. Known(mine(p)) /\ (p \in Deliveries => proc[p].about \in Notices) /\ proc[p] \in Processes
  BY ProcRows DEF HandInv
<1>3. \/ new.row = NoRow /\ new.pc \in RestPCs
      \/ new.row = mine(p) /\ new.about = proc[p].about
  <2>1. CASE label \in RestPCs
    BY <2>1 DEF At, Resting
  <2>2. CASE label \notin RestPCs
    BY <1>2, <2>2 DEF At, Processes
  <2> QED
    BY <2>1, <2>2
<1>4. Holds(p, new)
  <2> HIDE DEF new
  <2> QED
    BY <1>2, <1>3 DEF Holds, Known, KnownNext, Turns
<1> QED
  BY <1>1, <1>4 DEF Turns, Turn

LEMMA EnterTurns ==
    ASSUME TypeInv, HandInv, NEW p \in Procs, NEW goOn,
           p \in Deliveries => pc(p) \notin RestPCs,
           Enter(p, goOn), UNCHANGED <<subs, cycle>>
    PROVE  Turns(p)
<1> DEFINE new == [proc[p] EXCEPT !.pc = "sub", !.then = goOn]
<1>1. proc' = [proc EXCEPT ![p] = new]
  BY DEF Enter
<1>2. Known(mine(p)) /\ (p \in Deliveries => proc[p].about \in Notices) /\ proc[p] \in Processes
  BY ProcRows DEF HandInv
<1>3. new.row = mine(p) /\ new.about = proc[p].about
  BY <1>2 DEF Processes
<1>4. Holds(p, new)
  BY <1>2, <1>3 DEF Holds, Known, KnownNext, Turns
<1> QED
  BY <1>1, <1>4 DEF Turns, Turn

LEMMA NewestRowKnown ==
    ASSUME AccountAssumption, TypeInv
    PROVE  Known(NewestRow)
<1>1. CASE subs = 0
  BY <1>1 DEF NewestRow, Known
<1>2. CASE subs # 0
  <2>1. subs \in 1..subs /\ cycle[subs] \in Nat
    BY <1>2 DEF AccountAssumption, TypeInv, TypeOK, Subs, Cycles
  <2> QED
    BY <1>2, <2>1 DEF NewestRow, Known
<1> QED
  BY <1>1, <1>2

LEMMA AccountHands ==
    ASSUME AccountAssumption, TypeInv, Tables', HandInv, NEW p \in Calls \cup Deliveries,
           AccountStep(p)
    PROVE  HandInv'
<1>0. p \in Procs /\ proc[p] \in Processes /\ Job \in Procs /\ p # Job
  BY JobIsApart, ProcRows
<1>1. ASSUME FindSubscription(p) PROVE HandInv'
  <2> DEFINE s == [proc[p] EXCEPT !.row = NewestRow]
             label == IF subs = 0 THEN "newSub"
                      ELSE IF s.then \in CallSteps THEN "find" ELSE s.then
             new == At(s, label)
  <2>1. proc' = [proc EXCEPT ![p] = new] /\ UNCHANGED <<subs, cycle, rows>>
    BY <1>1 DEF FindSubscription
  <2>2. \/ new.row = NoRow /\ new.pc \in RestPCs
        \/ new.row = NewestRow /\ new.about = proc[p].about
    <3>1. s.row = NewestRow /\ s.about = proc[p].about
      BY <1>0 DEF Processes
    <3>2. CASE label \in RestPCs
      BY <3>2 DEF At, Resting
    <3>3. CASE label \notin RestPCs
      <4>1. new = [s EXCEPT !.pc = label]
        BY <3>3 DEF At
      <4>2. new.row = s.row /\ new.about = s.about
        BY <1>0, <4>1 DEF Processes
      <4> QED
        BY <3>1, <4>2
    <3> QED
      BY <3>2, <3>3
  <2>3. p \in Deliveries => proc[p].about \in Notices
    BY <1>1 DEF FindSubscription, HandInv, RestPCs
  <2>4. Holds(p, new)
    <3> HIDE DEF new
    <3> QED
      BY <2>1, <2>2, <2>3, NewestRowKnown DEF Holds, Known, KnownNext
  <2>5. Turns(p)
    <3> HIDE DEF new
    <3> QED
      BY <2>1, <2>4 DEF Turns, Turn
  <2> QED
    BY <2>1, <2>5, TurnsKeep
<1>2. ASSUME CreateSubscription(p) PROVE HandInv'
  <2> DEFINE new == [proc[p] EXCEPT !.row = <<subs + 1, 0>>, !.pc = "find"]
  <2>1. /\ proc' = [proc EXCEPT ![p] = new] /\ UNCHANGED <<cycle, rows>>
        /\ subs' = subs + 1 /\ subs < MaxSubs
    BY <1>2 DEF CreateSubscription
  <2>2. new.row = <<subs + 1, 0>> /\ new.about = proc[p].about
    BY <1>0 DEF Processes
  <2>3. p \in Deliveries => proc[p].about \in Notices
    BY <1>2 DEF CreateSubscription, HandInv, RestPCs
  <2>4. subs \in Nat /\ subs + 1 \in Subs /\ \A n \in Subs : cycle[n] \in Nat
    BY <2>1 DEF TypeInv, TypeOK, AccountAssumption, Subs, Cycles
  <2>5. Holds(p, new)
    BY <2>1, <2>2, <2>3, <2>4 DEF Holds, KnownNext
  <2>6. Turn(p)
    BY <2>1, <2>5 DEF Turn
  <2>7. Grows
    BY <2>1, <2>4 DEF Grows
  <2>8. JobBehind'
    <3>1. proc'[Job] = proc[Job]
      BY <1>0, <2>1, ProcRows
    <3> QED
      BY <2>1, <3>1 DEF JobBehind, HandInv
  <2> QED
    BY <1>0, <2>1, <2>6, <2>7, <2>8, TurnKeeps
<1>3. ASSUME FindRow(p) PROVE HandInv'
  <2>1. Goto(p, IF mine(p) \in rows THEN proc[p].then ELSE "create")
    BY <1>3 DEF FindRow
  <2>2. pc(p) \notin RestPCs /\ UNCHANGED <<subs, cycle, rows>>
    BY <1>3 DEF FindRow, RestPCs
  <2>3. Turns(p)
    BY <1>0, <2>1, <2>2, GotoTurns
  <2> QED
    BY <2>2, <2>3, TurnsKeep
<1>4. ASSUME CreateRow(p) PROVE HandInv'
  <2>1. Goto(p, IF mine(p) \in rows THEN "done" ELSE proc[p].then)
    BY <1>4 DEF CreateRow
  <2>2. pc(p) \notin RestPCs /\ UNCHANGED <<subs, cycle>> /\ rows' = rows \cup {mine(p)}
    BY <1>4 DEF CreateRow, RestPCs
  <2>3. Turns(p)
    BY <1>0, <2>1, <2>2, GotoTurns
  <2> QED
    BY <2>2, <2>3, TurnsKeep
<1> QED
  BY <1>1, <1>2, <1>3, <1>4 DEF AccountStep

LEMMA CallHands ==
    ASSUME AccountAssumption, TypeInv, Tables', HandInv, NEW c \in Calls, CallStep(c)
    PROVE  HandInv'
<1>1. c \in Procs /\ c \notin Deliveries
  BY DEF AccountAssumption, Procs
<1>2. UNCHANGED <<subs, cycle, rows>>
  BY DEF CallStep, SignIn, AskForCall, ReadAllowance, ReadStanding, ReadCard, ReadLimit,
         ReadCost, StartCall, EndCall, RecordUsage, Check
<1>3. CASE SignIn(c) \/ AskForCall(c) \/ EndCall(c)
  <2>1. Enter(c, "done") \/ Enter(c, "totals") \/ Enter(c, "record")
    BY <1>3 DEF SignIn, AskForCall, EndCall
  <2> QED
    BY <1>1, <1>2, <2>1, EnterTurns, TurnsKeep
<1>4. CASE \/ ReadAllowance(c) \/ ReadStanding(c) \/ ReadCard(c) \/ ReadCost(c)
           \/ StartCall(c) \/ RecordUsage(c)
  <2>1. \E label : Goto(c, label)
    BY <1>4 DEF ReadAllowance, ReadStanding, ReadCard, ReadCost, StartCall, RecordUsage, Check
  <2> QED
    BY <1>1, <1>2, <2>1, GotoTurns, TurnsKeep
<1>5. CASE ReadLimit(c)
  <2>1. CASE limit = 0
    <3>1. Goto(c, "start")
      BY <1>5, <2>1 DEF ReadLimit
    <3> QED
      BY <1>1, <1>2, <3>1, GotoTurns, TurnsKeep
  <2>2. CASE limit # 0
    <3> DEFINE new == [proc[c] EXCEPT !.pc = "sub", !.then = "cost", !.held = limit]
    <3>1. proc' = [proc EXCEPT ![c] = new]
      BY <1>5, <2>2 DEF ReadLimit
    <3>2. new.row = mine(c)
      BY <1>1, ProcRows DEF Processes
    <3>3. Holds(c, new)
      BY <1>1, <1>2, <3>2 DEF Holds, HandInv, Known, KnownNext
    <3>4. Turns(c)
      BY <1>2, <3>1, <3>3 DEF Turns, Turn
    <3> QED
      BY <1>2, <3>4, TurnsKeep
  <2> QED
    BY <2>1, <2>2
<1> QED
  BY <1>3, <1>4, <1>5 DEF CallStep

LEMMA DeliveryHands ==
    ASSUME AccountAssumption, TypeInv, Tables', HandInv, NEW d \in Deliveries, DeliveryStep(d)
    PROVE  HandInv'
<1>1. d \in Procs
  BY DEF Procs
<1>2. UNCHANGED <<subs, cycle>> /\ rows' \subseteq rows \cup {mine(d)}
  BY DEF DeliveryStep, Deliver, FindPayment, InsertPayment, Credit, EnterDunning
<1>3. ASSUME NEW p \in Payments, NEW kind \in Kinds, Deliver(d, p, kind) PROVE HandInv'
  <2> DEFINE new == [proc[d] EXCEPT !.pc = "seen", !.about = <<p, kind>>]
  <2>1. proc' = [proc EXCEPT ![d] = new]
    BY <1>3 DEF Deliver
  <2>2. new.row = mine(d) /\ new.about \in Notices
    BY <1>1, ProcRows DEF Processes, Notices
  <2>3. Holds(d, new)
    BY <1>1, <1>2, <2>2 DEF Holds, HandInv, Known, KnownNext
  <2>4. Turns(d)
    BY <1>2, <2>1, <2>3 DEF Turns, Turn
  <2> QED
    BY <1>2, <2>4, TurnsKeep
<1>4. CASE FindPayment(d) \/ InsertPayment(d) \/ Credit(d) \/ EnterDunning(d)
  <2>1. (\E label : Goto(d, label)) \/ (\E goOn : Enter(d, goOn))
    BY <1>4 DEF FindPayment, InsertPayment, Credit, EnterDunning
  <2>2. pc(d) \notin RestPCs
    BY <1>4 DEF FindPayment, InsertPayment, Credit, EnterDunning, RestPCs
  <2> QED
    BY <1>1, <1>2, <2>1, <2>2, GotoTurns, EnterTurns, TurnsKeep
<1> QED
  BY <1>3, <1>4 DEF DeliveryStep

LEMMA JobHands ==
    ASSUME AccountAssumption, TypeInv, Tables', HandInv, JobStep
    PROVE  HandInv'
<1>0. Job \in Procs /\ Job \notin Deliveries /\ proc[Job] \in Processes
  BY JobIsApart, ProcRows
<1>1. ASSUME NEW n \in Subs, FindDue(n) \/ FindPastDue(n) PROVE HandInv'
  <2>1. PICK label \in {"claim", "reset"} :
           proc' = [proc EXCEPT ![Job] = [proc[Job] EXCEPT !.pc = label, !.row = <<n, cycle[n]>>]]
    BY <1>1 DEF FindDue, FindPastDue
  <2> DEFINE new == [proc[Job] EXCEPT !.pc = label, !.row = <<n, cycle[n]>>]
  <2>2. UNCHANGED <<subs, cycle, rows>> /\ n \in 1..subs /\ cycle[n] \in Nat
    BY <1>1 DEF FindDue, FindPastDue, Subs, Cycles, TypeInv, TypeOK
  <2>3. new.row = <<n, cycle[n]>> /\ new.pc = label
    BY <1>0 DEF Processes
  <2>4. Turn(Job)
    <3>1. Holds(Job, new)
      BY <1>0, <2>2, <2>3 DEF Holds, KnownNext
    <3> QED
      BY <2>1, <3>1 DEF Turn
  <2>5. Grows
    BY <2>2 DEF Grows, TypeInv, TypeOK, Cycles
  <2>6. JobBehind'
    BY <1>0, <2>1, <2>3, ProcRows DEF JobBehind
  <2> QED
    BY <1>0, <2>2, <2>4, <2>5, <2>6, TurnKeeps
<1>2. ASSUME ClaimCycle PROVE HandInv'
  <2> DEFINE n == mine(Job)[1]
  <2>1. /\ mine(Job) \in Rows /\ n \in Subs /\ cycle[n] = mine(Job)[2]
        /\ cycle[n] \in Nat /\ \A i \in Subs : cycle[i] \in Nat
    BY <1>0, <1>2, RowParts DEF TypeInv, TypeOK, RowsAtHand, RowPCs, JobPCs, JobInside,
                                ClaimCycle, Cycles
  <2>2. /\ cycle' = [cycle EXCEPT ![n] = cycle[n] + 1] /\ UNCHANGED <<subs, rows>>
        /\ proc' = [proc EXCEPT ![Job] = [proc[Job] EXCEPT !.pc = "old"]]
    BY <1>2 DEF ClaimCycle, Goto, At, RestPCs
  <2>3. [proc[Job] EXCEPT !.pc = "old"].row = mine(Job)
    BY <1>0 DEF Processes
  <2>4. \A i \in Subs : cycle'[i] = IF i = n THEN cycle[n] + 1 ELSE cycle[i]
    BY <2>1, <2>2 DEF TypeInv, TypeOK
  <2>5. Grows
    <3>1. \A i \in Subs : cycle[i] <= cycle'[i]
      BY ONLY <2>1, <2>4
    <3>2. subs <= subs'
      BY <2>2 DEF TypeInv, TypeOK, AccountAssumption
    <3> QED
      BY <3>1, <3>2 DEF Grows
  <2>6. KnownNext(mine(Job))
    BY <1>0, <2>5, ProcRows, KnownGrows DEF HandInv
  <2>7. Turn(Job)
    BY <1>0, <2>2, <2>3, <2>6 DEF Turn, Holds
  <2>8. JobBehind'
    <3>1. proc'[Job].row = mine(Job)
      BY <1>0, <2>2, <2>3, ProcRows
    <3>2. mine(Job)[2] < cycle'[n]
      BY <2>1, <2>4
    <3> QED
      BY <3>1, <3>2 DEF JobBehind
  <2> QED
    BY <1>0, <2>2, <2>5, <2>7, <2>8, TurnKeeps
<1>3. ASSUME ReadOldRow PROVE HandInv'
  <2> DEFINE new == [proc[Job] EXCEPT !.pc = "carry", !.held = bought[mine(Job)]]
  <2>1. /\ proc' = [proc EXCEPT ![Job] = new] /\ UNCHANGED <<subs, cycle, rows>>
        /\ pc(Job) = "old"
    BY <1>3 DEF ReadOldRow
  <2>2. new.row = mine(Job)
    BY <1>0 DEF Processes
  <2>3. Turn(Job)
    BY <1>0, <2>1, <2>2 DEF Turn, Holds, HandInv, Known, KnownNext
  <2>4. Grows
    BY <2>1 DEF Grows, TypeInv, TypeOK, Cycles
  <2>5. JobBehind'
    <3>1. proc'[Job].row = mine(Job)
      BY <1>0, <2>1, <2>2, ProcRows
    <3> QED
      BY <2>1, <3>1 DEF JobBehind, HandInv
  <2> QED
    BY <1>0, <2>1, <2>3, <2>4, <2>5, TurnKeeps
<1>4. ASSUME CarryOver PROVE HandInv'
  <2> DEFINE r == NextRow(mine(Job))
  <2>1. /\ Goto(Job, "idle") /\ UNCHANGED <<subs, cycle>> /\ rows' = rows \cup {r}
        /\ pc(Job) = "carry"
    BY <1>4 DEF CarryOver
  <2>2. Turn(Job)
    BY <1>0, <2>1, GotoTurns DEF Turns
  <2>3. Grows
    BY <2>1 DEF Grows, TypeInv, TypeOK, Cycles
  <2>4. JobBehind'
    <3>1. proc'[Job] = Resting("idle")
      BY <1>0, <2>1, ProcRows DEF Goto, At, RestPCs
    <3> QED
      BY <3>1 DEF JobBehind, Resting
  <2>5. KnownNext(r)
    <3>1. mine(Job) \in Rows
      BY <1>0, <2>1 DEF TypeInv, RowsAtHand, RowPCs, JobPCs
    <3>2. mine(Job)[1] \in Subs /\ mine(Job)[2] \in Nat /\ cycle[mine(Job)[1]] \in Nat
      BY <3>1, RowParts DEF Cycles, TypeInv, TypeOK
    <3>3. mine(Job)[1] \in 1..subs
      <4>1. mine(Job) # NoRow
        BY <3>2 DEF NoRow, Subs
      <4> QED
        BY <1>0, <4>1 DEF HandInv, Known
    <3>4. mine(Job)[2] < cycle[mine(Job)[1]]
      BY <2>1 DEF HandInv, JobBehind
    <3>5. mine(Job)[2] + 1 <= cycle[mine(Job)[1]]
      BY <3>2, <3>4
    <3> QED
      BY <2>1, <3>3, <3>5 DEF KnownNext, NextRow
  <2> QED
    BY <1>0, <2>1, <2>2, <2>3, <2>4, <2>5, TurnKeeps
<1>5. ASSUME ResetPastDue PROVE HandInv'
  <2>1. Goto(Job, "idle") /\ UNCHANGED <<subs, cycle, rows>>
    BY <1>5 DEF ResetPastDue
  <2>2. Turn(Job)
    BY <1>0, <2>1, GotoTurns DEF Turns
  <2>3. Grows
    BY <2>1 DEF Grows, TypeInv, TypeOK, Cycles
  <2>4. JobBehind'
    <3>1. proc'[Job] = Resting("idle")
      BY <1>0, <2>1, ProcRows DEF Goto, At, RestPCs
    <3> QED
      BY <3>1 DEF JobBehind, Resting
  <2> QED
    BY <1>0, <2>1, <2>2, <2>3, <2>4, TurnKeeps
<1> QED
  BY <1>1, <1>2, <1>3, <1>4, <1>5 DEF JobStep

LEMMA InitHands == ASSUME AccountAssumption, Init PROVE HandInv
<1>1. \A p \in Procs : proc[p] = Resting("idle")
  BY DEF Init
<1>2. Job \in Procs /\ \A d \in Deliveries : d \in Procs
  BY DEF Procs
<1> QED
  BY <1>1, <1>2 DEF HandInv, Known, JobBehind, Resting, RestPCs, Init

LEMMA NextHands ==
    ASSUME AccountAssumption, TypeInv, HandInv, [Next]_vars
    PROVE  HandInv'
<1>1. CASE UNCHANGED vars
  BY <1>1 DEF vars, HandInv, Known, JobBehind
<1>2. ASSUME Next PROVE HandInv'
  <2>0. Tables'
    BY <1>2, StepKinds
  <2>1. ASSUME NEW p \in Procs, AccountStep(p) PROVE HandInv'
    <3>1. p \in Calls \cup Deliveries
      BY <2>1, JobHasNoAccount DEF Procs
    <3> QED
      BY <2>0, <2>1, <3>1, AccountHands
  <2>2. CASE \E c \in Calls : CallStep(c)
    BY <2>0, <2>2, CallHands
  <2>3. CASE \E d \in Deliveries : DeliveryStep(d)
    BY <2>0, <2>3, DeliveryHands
  <2>4. CASE JobStep
    BY <2>0, <2>4, JobHands
  <2>5. CASE CustomerStep
    <3>1. UNCHANGED <<subs, cycle, rows, proc>>
      BY <2>5 DEF CustomerStep, AttachCard, RemoveCard, SetLimit
    <3> QED
      BY <3>1 DEF HandInv, Known, JobBehind
  <2> QED
    BY <1>2, <2>1, <2>2, <2>3, <2>4, <2>5 DEF Next
<1> QED
  BY <1>1, <1>2

----------------------------------------------------------------------------
(* Dunning.  A delivery that is about to dun has recorded its payment as   *)
(* failed, nobody else is about to dun for it, and the attempts of all     *)
(* subscriptions together are no more than the failed payments for which   *)
(* nobody is about to.                                                     *)
AtDun(d, p) == pc(d) = "dun" /\ PaymentOf(d) = p
Awaited(p) == \E d \in Deliveries : AtDun(d, p)
Counted == {p \in Payments : payment[p] = "FAILED" /\ ~Awaited(p)}

DunInv ==
    /\ \A d \in Deliveries, p \in Payments : AtDun(d, p) => payment[p] = "FAILED"
    /\ \A d, e \in Deliveries, p \in Payments : AtDun(d, p) /\ AtDun(e, p) => d = e
    /\ SumFunctionOnSet(attempts, Subs) <= Cardinality(Counted)

(* A step of a process that has nothing to do with dunning.                *)
Elsewhere(p) ==
    /\ pc(p) # "dun"
    /\ \E new : proc' = [proc EXCEPT ![p] = new] /\ new.pc # "dun"

LEMMA GotoElsewhere ==
    ASSUME TypeInv, NEW p \in Procs, NEW label, label # "dun", pc(p) # "dun", Goto(p, label)
    PROVE  Elsewhere(p)
<1> DEFINE new == At(proc[p], label)
<1>1. proc' = [proc EXCEPT ![p] = new]
  BY DEF Goto
<1>2. new.pc = label
  <2>1. CASE label \in RestPCs
    BY <2>1 DEF At, Resting
  <2>2. CASE label \notin RestPCs
    BY <2>2, ProcRows DEF At, Processes
  <2> QED
    BY <2>1, <2>2
<1> HIDE DEF new
<1> QED
  BY <1>1, <1>2 DEF Elsewhere

LEMMA EnterElsewhere ==
    ASSUME TypeInv, NEW p \in Procs, NEW goOn, pc(p) # "dun", Enter(p, goOn)
    PROVE  Elsewhere(p)
<1> DEFINE new == [proc[p] EXCEPT !.pc = "sub", !.then = goOn]
<1>1. proc' = [proc EXCEPT ![p] = new]
  BY DEF Enter
<1>2. new.pc = "sub"
  BY ProcRows DEF Processes
<1> HIDE DEF new
<1> QED
  BY <1>1, <1>2 DEF Elsewhere

LEMMA ThenIsElsewhere ==
    ASSUME TypeInv, NEW p \in Procs PROVE proc[p].then # "dun"
<1>1. proc[p].then \in Continuations
  BY ProcRows DEF Processes
<1> QED
  BY <1>1 DEF Continuations, CallSteps

LEMMA AccountElsewhere ==
    ASSUME TypeInv, NEW p \in Procs, AccountStep(p)
    PROVE  Elsewhere(p) /\ UNCHANGED <<attempts, payment>>
<1>0. proc[p].then # "dun" /\ proc[p] \in Processes
  BY ThenIsElsewhere, ProcRows
<1>1. CASE FindSubscription(p)
  <2> DEFINE s == [proc[p] EXCEPT !.row = NewestRow]
             label == IF subs = 0 THEN "newSub"
                      ELSE IF s.then \in CallSteps THEN "find" ELSE s.then
             new == At(s, label)
  <2>1. label # "dun"
    BY <1>0 DEF Processes
  <2>2. new.pc = label
    <3>1. CASE label \in RestPCs
      BY <3>1 DEF At, Resting
    <3>2. CASE label \notin RestPCs
      BY <1>0, <3>2 DEF At, Processes
    <3> QED
      BY <3>1, <3>2
  <2>3. proc' = [proc EXCEPT ![p] = new] /\ pc(p) = "sub" /\ UNCHANGED <<attempts, payment>>
    BY <1>1 DEF FindSubscription
  <2> HIDE DEF new, label
  <2> QED
    BY <2>1, <2>2, <2>3 DEF Elsewhere
<1>2. CASE CreateSubscription(p)
  <2> DEFINE new == [proc[p] EXCEPT !.row = <<subs + 1, 0>>, !.pc = "find"]
  <2>1. new.pc = "find"
    BY <1>0 DEF Processes
  <2>2. proc' = [proc EXCEPT ![p] = new] /\ pc(p) = "newSub" /\ UNCHANGED <<attempts, payment>>
    BY <1>2 DEF CreateSubscription
  <2> HIDE DEF new
  <2> QED
    BY <2>1, <2>2 DEF Elsewhere
<1>3. CASE FindRow(p)
  BY <1>0, <1>3, GotoElsewhere DEF FindRow
<1>4. CASE CreateRow(p)
  BY <1>0, <1>4, GotoElsewhere DEF CreateRow
<1> QED
  BY <1>1, <1>2, <1>3, <1>4 DEF AccountStep

LEMMA CallElsewhere ==
    ASSUME TypeInv, NEW c \in Calls, CallStep(c)
    PROVE  Elsewhere(c) /\ UNCHANGED <<attempts, payment>>
<1>1. c \in Procs /\ proc[c] \in Processes
  BY ProcRows DEF Procs
<1>2. UNCHANGED <<attempts, payment>> /\ pc(c) # "dun"
  BY DEF CallStep, SignIn, AskForCall, ReadAllowance, ReadStanding, ReadCard, ReadLimit,
         ReadCost, StartCall, EndCall, RecordUsage, Check
<1>3. CASE SignIn(c) \/ AskForCall(c) \/ EndCall(c)
  BY <1>1, <1>2, <1>3, EnterElsewhere DEF SignIn, AskForCall, EndCall
<1>4. CASE \/ ReadAllowance(c) \/ ReadStanding(c) \/ ReadCard(c) \/ ReadCost(c)
           \/ StartCall(c) \/ RecordUsage(c)
  <2>1. \E label : Goto(c, label) /\ label # "dun"
    BY <1>4 DEF ReadAllowance, ReadStanding, ReadCard, ReadCost, StartCall, RecordUsage, Check
  <2> QED
    BY <1>1, <1>2, <2>1, GotoElsewhere
<1>5. CASE ReadLimit(c)
  <2>1. CASE limit = 0
    BY <1>1, <1>2, <1>5, <2>1, GotoElsewhere DEF ReadLimit
  <2>2. CASE limit # 0
    <3> DEFINE new == [proc[c] EXCEPT !.pc = "sub", !.then = "cost", !.held = limit]
    <3>1. proc' = [proc EXCEPT ![c] = new]
      BY <1>5, <2>2 DEF ReadLimit
    <3>2. new.pc = "sub"
      BY <1>1 DEF Processes
    <3> HIDE DEF new
    <3> QED
      BY <1>2, <3>1, <3>2 DEF Elsewhere
  <2> QED
    BY <2>1, <2>2
<1> QED
  BY <1>3, <1>4, <1>5 DEF CallStep

LEMMA DeliveryElsewhere ==
    ASSUME TypeInv, NEW d \in Deliveries, DeliveryStep(d),
           ~EnterDunning(d), ~(InsertPayment(d) /\ Accepted(PaymentOf(d)))
    PROVE  Elsewhere(d) /\ UNCHANGED <<attempts, payment>>
<1>1. d \in Procs /\ proc[d] \in Processes
  BY ProcRows DEF Procs
<1>2. UNCHANGED <<attempts, payment>> /\ pc(d) # "dun"
  BY DEF DeliveryStep, Deliver, FindPayment, InsertPayment, Credit
<1>3. ASSUME NEW p \in Payments, NEW kind \in Kinds, Deliver(d, p, kind) PROVE Elsewhere(d)
  <2> DEFINE new == [proc[d] EXCEPT !.pc = "seen", !.about = <<p, kind>>]
  <2>1. proc' = [proc EXCEPT ![d] = new]
    BY <1>3 DEF Deliver
  <2>2. new.pc = "seen"
    BY <1>1 DEF Processes
  <2> HIDE DEF new
  <2> QED
    BY <1>2, <2>1, <2>2 DEF Elsewhere
<1>4. CASE FindPayment(d)
  BY <1>1, <1>2, <1>4, GotoElsewhere, EnterElsewhere DEF FindPayment
<1>5. CASE InsertPayment(d) \/ Credit(d)
  BY <1>1, <1>2, <1>5, GotoElsewhere DEF InsertPayment, Credit
<1> QED
  BY <1>2, <1>3, <1>4, <1>5 DEF DeliveryStep

LEMMA DunType ==
    ASSUME AccountAssumption, TypeInv, Tables'
    PROVE  /\ IsFiniteSet(Subs)
           /\ IntegersOn(attempts, Subs) /\ IntegersOn(attempts', Subs)
           /\ SumFunctionOnSet(attempts, Subs) \in Nat
           /\ SumFunctionOnSet(attempts', Subs) \in Nat
           /\ IsFiniteSet(Counted) /\ Cardinality(Counted) \in Nat
           /\ IsFiniteSet(Counted') /\ Cardinality(Counted') \in Nat
<1>1. IsFiniteSet(Subs)
  BY FS_Interval DEF AccountAssumption, Subs
<1>2. (\A n \in Subs : attempts[n] \in Nat) /\ (\A n \in Subs : attempts'[n] \in Nat)
  BY DEF TypeInv, TypeOK, Tables
<1>3. IntegersOn(attempts, Subs) /\ IntegersOn(attempts', Subs)
  BY <1>2 DEF IntegersOn
<1>4. /\ SumFunctionOnSet(attempts, Subs) \in Nat
      /\ SumFunctionOnSet(attempts', Subs) \in Nat
  BY <1>1, <1>2, SumOfNaturals
<1>5. /\ IsFiniteSet(Counted) /\ Cardinality(Counted) \in Nat
      /\ IsFiniteSet(Counted') /\ Cardinality(Counted') \in Nat
  BY FS_Subset, FS_CardinalityType DEF Counted, AccountAssumption
<1> QED
  BY <1>1, <1>3, <1>4, <1>5

(* Nobody comes to dun or goes from it.                                    *)
LEMMA ElsewhereKeepsDunning ==
    ASSUME TypeInv, DunInv, UNCHANGED payment,
           SumFunctionOnSet(attempts', Subs) <= SumFunctionOnSet(attempts, Subs),
           AccountAssumption, Tables',
           UNCHANGED proc \/ \E p \in Procs : Elsewhere(p)
    PROVE  DunInv'
<1>1. \A d \in Deliveries, x \in Payments : AtDun(d, x)' <=> AtDun(d, x)
  <2>1. \A d \in Deliveries :
           proc'[d] = proc[d] \/ (proc[d].pc # "dun" /\ proc'[d].pc # "dun")
    <3>1. proc \in [Procs -> Processes] /\ Deliveries \subseteq Procs
      BY DEF TypeInv, TypeOK, Procs
    <3> QED
      BY <3>1 DEF Elsewhere
  <2> QED
    BY <2>1 DEF AtDun, PaymentOf
<1>2. Counted' = Counted
  BY <1>1 DEF Counted, Awaited
<1>3. SumFunctionOnSet(attempts', Subs) <= Cardinality(Counted')
  BY <1>2, DunType DEF DunInv
<1> QED
  BY <1>1, <1>3 DEF DunInv

LEMMA InsertKeepsDunning ==
    ASSUME AccountAssumption, TypeInv, Tables', HandInv, DunInv, NEW d \in Deliveries,
           InsertPayment(d), Accepted(PaymentOf(d))
    PROVE  DunInv'
<1> DEFINE x == PaymentOf(d)
           new == At(proc[d], FollowUp(d))
<1>1. /\ x \in Payments /\ d \in Procs /\ proc[d] \in Processes
      /\ proc \in [Procs -> Processes] /\ payment \in [Payments -> {"none", "PAID", "FAILED"}]
  <2>1. proc[d].about \in Notices
    BY DEF HandInv, InsertPayment, RestPCs
  <2> QED
    BY <2>1, ProcRows DEF Notices, PaymentOf, Procs, TypeInv, TypeOK
<1>2. /\ proc' = [proc EXCEPT ![d] = new] /\ payment[x] = "none" /\ UNCHANGED attempts
      /\ payment' = [payment EXCEPT ![x] =
                        IF KindOf(d) = "payment.failed" THEN "FAILED" ELSE "PAID"]
      /\ pc(d) # "dun"
  BY DEF InsertPayment, Accepted, Goto
<1>3. /\ new.pc = FollowUp(d)
      /\ new.pc = "dun" => new.about = proc[d].about
  <2>1. CASE FollowUp(d) \in RestPCs
    BY <2>1 DEF At, Resting, RestPCs
  <2>2. CASE FollowUp(d) \notin RestPCs
    BY <1>1, <2>2 DEF At, Processes
  <2> QED
    BY <2>1, <2>2
<1>4. FollowUp(d) = "dun" <=> KindOf(d) = "payment.failed"
  BY DEF FollowUp
<1>5. \A e \in Deliveries : ~AtDun(e, x)
  BY <1>1, <1>2 DEF DunInv
<1>6. /\ \A e \in Deliveries \ {d}, p \in Payments : AtDun(e, p)' <=> AtDun(e, p)
      /\ \A p \in Payments : AtDun(d, p)' <=> KindOf(d) = "payment.failed" /\ p = x
      /\ \A p \in Payments : ~AtDun(d, p)
  <2>1. proc'[d] = new /\ \A e \in Deliveries \ {d} : proc'[e] = proc[e]
    <3> HIDE DEF new
    <3> QED
      BY <1>1, <1>2 DEF Procs
  <2> HIDE DEF new
  <2> QED
    BY <1>2, <1>3, <1>4, <2>1 DEF AtDun, PaymentOf
<1>7. /\ \A p \in Payments \ {x} : payment'[p] = payment[p]
      /\ payment'[x] = IF KindOf(d) = "payment.failed" THEN "FAILED" ELSE "PAID"
  BY <1>1, <1>2
<1> HIDE DEF x, new
<1>8. \A p \in Payments : p \in Counted' <=> p \in Counted
  <2>1. x \notin Counted /\ x \notin Counted'
    BY <1>1, <1>2, <1>6, <1>7 DEF Counted, Awaited
  <2>2. \A p \in Payments \ {x} : Awaited(p)' <=> Awaited(p)
    BY <1>6 DEF Awaited
  <2>3. \A p \in Payments \ {x} : p \in Counted' <=> p \in Counted
    BY <1>7, <2>2 DEF Counted
  <2> QED
    BY <2>1, <2>3
<1>9. Counted' = Counted
  BY <1>8 DEF Counted
<1>10. SumFunctionOnSet(attempts', Subs) <= Cardinality(Counted')
  BY <1>2, <1>9 DEF DunInv
<1>11. \A e \in Deliveries, p \in Payments : AtDun(e, p)' => payment'[p] = "FAILED"
  BY <1>5, <1>6, <1>7 DEF DunInv
<1>12. \A e, f \in Deliveries, p \in Payments : AtDun(e, p)' /\ AtDun(f, p)' => e = f
  BY <1>5, <1>6 DEF DunInv
<1> QED
  BY <1>10, <1>11, <1>12 DEF DunInv

LEMMA DunningKeepsDunning ==
    ASSUME AccountAssumption, TypeInv, Tables', HandInv, DunInv, NEW d \in Deliveries,
           EnterDunning(d)
    PROVE  DunInv'
<1> DEFINE x == PaymentOf(d)
           n == mine(d)[1]
<1>1. /\ x \in Payments /\ d \in Procs /\ proc \in [Procs -> Processes]
      /\ n \in Subs /\ attempts \in [Subs -> Nat]
  <2>1. proc[d].about \in Notices /\ mine(d) \in Rows
    BY DEF HandInv, EnterDunning, RestPCs, TypeInv, RowsAtHand, RowPCs, Procs
  <2> QED
    BY <2>1, RowParts DEF Notices, PaymentOf, Procs, TypeInv, TypeOK
<1>2. /\ proc' = [proc EXCEPT ![d] = Resting("done")] /\ UNCHANGED payment
      /\ attempts' = [attempts EXCEPT ![n] = attempts[n] + 1]
      /\ pc(d) = "dun"
  BY DEF EnterDunning, Goto, At, RestPCs
<1>3. /\ \A e \in Deliveries \ {d}, p \in Payments : AtDun(e, p)' <=> AtDun(e, p)
      /\ \A p \in Payments : ~AtDun(d, p)'
      /\ \A p \in Payments : AtDun(d, p) <=> p = x
  <2>1. proc'[d].pc = "done" /\ \A e \in Deliveries \ {d} : proc'[e] = proc[e]
    BY <1>1, <1>2 DEF Procs, Resting
  <2> QED
    BY <1>2, <2>1 DEF AtDun, PaymentOf
<1>4. payment[x] = "FAILED" /\ \A e \in Deliveries \ {d} : ~AtDun(e, x)
  BY <1>1, <1>3 DEF DunInv
<1>5. Counted' = Counted \cup {x} /\ x \notin Counted
  <2> HIDE DEF x, n
  <2>1. \A p \in Payments : Awaited(p)' <=> Awaited(p) /\ p # x
    BY <1>1, <1>3, <1>4 DEF Awaited
  <2>2. Awaited(x)
    BY <1>1, <1>3 DEF Awaited
  <2> QED
    BY <1>1, <1>2, <1>4, <2>1, <2>2 DEF Counted
<1>6. Cardinality(Counted') = Cardinality(Counted) + 1
  BY <1>5, DunType, FS_AddElement
<1>7. SumFunctionOnSet(attempts', Subs) = SumFunctionOnSet(attempts, Subs) + 1
  <2> HIDE DEF n
  <2>1. Same(attempts, attempts', Subs \ {n}) /\ attempts'[n] - attempts[n] = 1
    BY <1>1, <1>2 DEF Same
  <2>2. SumFunctionOnSet(attempts', Subs)
          = SumFunctionOnSet(attempts, Subs) + (attempts'[n] - attempts[n])
    BY <1>1, <2>1, DunType, SumChangesWithOne
  <2> QED
    BY <2>1, <2>2
<1>8. SumFunctionOnSet(attempts', Subs) <= Cardinality(Counted')
  <2>1. SumFunctionOnSet(attempts, Subs) <= Cardinality(Counted)
    BY DEF DunInv
  <2> QED
    BY <1>6, <1>7, <2>1, DunType
<1>9. \A e \in Deliveries, p \in Payments : AtDun(e, p)' => payment'[p] = "FAILED"
  BY <1>2, <1>3 DEF DunInv
<1>10. \A e, f \in Deliveries, p \in Payments : AtDun(e, p)' /\ AtDun(f, p)' => e = f
  BY <1>3 DEF DunInv
<1> QED
  BY <1>8, <1>9, <1>10 DEF DunInv

LEMMA JobKeepsDunning ==
    ASSUME AccountAssumption, TypeInv, Tables', DunInv, JobStep
    PROVE  DunInv'
<1>0. Job \in Procs /\ proc[Job] \in Processes /\ pc(Job) # "dun"
  BY JobIsApart, ProcRows DEF TypeInv, JobInside, JobPCs
<1>1. UNCHANGED payment /\ SumFunctionOnSet(attempts', Subs) <= SumFunctionOnSet(attempts, Subs)
  <2>1. CASE UNCHANGED attempts
    BY <2>1, DunType DEF JobStep, FindDue, FindPastDue, ClaimCycle, ReadOldRow, CarryOver,
                         ResetPastDue
  <2>2. CASE ResetPastDue
    <3>1. \A n \in Subs : attempts'[n] <= attempts[n]
      BY <2>2 DEF ResetPastDue, TypeInv, TypeOK
    <3>2. Below(attempts', attempts, Subs)
      BY <3>1 DEF Below
    <3> QED
      BY <2>2, <3>2, DunType, SumCompare DEF ResetPastDue
  <2> QED
    BY <2>1, <2>2 DEF JobStep, FindDue, FindPastDue, ClaimCycle, ReadOldRow, CarryOver
<1>2. Elsewhere(Job)
  <2>1. ASSUME NEW n \in Subs, FindDue(n) \/ FindPastDue(n) PROVE Elsewhere(Job)
    <3>1. PICK label \in {"claim", "reset"} :
             proc' = [proc EXCEPT ![Job] = [proc[Job] EXCEPT !.pc = label, !.row = <<n, cycle[n]>>]]
      BY <2>1 DEF FindDue, FindPastDue
    <3>2. [proc[Job] EXCEPT !.pc = label, !.row = <<n, cycle[n]>>].pc # "dun"
      BY <1>0 DEF Processes
    <3> QED
      BY <1>0, <3>1, <3>2 DEF Elsewhere
  <2>2. CASE ClaimCycle \/ CarryOver \/ ResetPastDue
    BY <1>0, <2>2, GotoElsewhere DEF ClaimCycle, CarryOver, ResetPastDue
  <2>3. CASE ReadOldRow
    <3>1. proc' = [proc EXCEPT ![Job] = [proc[Job] EXCEPT !.pc = "carry", !.held = bought[mine(Job)]]]
      BY <2>3 DEF ReadOldRow
    <3>2. [proc[Job] EXCEPT !.pc = "carry", !.held = bought[mine(Job)]].pc # "dun"
      BY <1>0 DEF Processes
    <3> QED
      BY <1>0, <3>1, <3>2 DEF Elsewhere
  <2> QED
    BY <2>1, <2>2, <2>3 DEF JobStep
<1> QED
  BY <1>0, <1>1, <1>2, ElsewhereKeepsDunning

LEMMA InitDunning == ASSUME AccountAssumption, Init PROVE DunInv
<1>1. \A d \in Deliveries : pc(d) # "dun"
  BY DEF Init, Resting, Procs
<1>2. Counted = {}
  BY DEF Init, Counted
<1>3. IsFiniteSet(Subs) /\ \A n \in Subs : attempts[n] = 0
  BY FS_Interval DEF AccountAssumption, Subs, Init
<1>4. SumFunctionOnSet(attempts, Subs) = 0
  BY <1>3, SumOfZeros
<1> QED
  BY <1>1, <1>2, <1>4, FS_EmptySet DEF DunInv, AtDun

LEMMA NextDunning ==
    ASSUME AccountAssumption, TypeInv, Tables', HandInv, DunInv, [Next]_vars
    PROVE  DunInv'
<1>0. UNCHANGED attempts => SumFunctionOnSet(attempts', Subs) <= SumFunctionOnSet(attempts, Subs)
  BY DunType
<1>1. CASE UNCHANGED vars
  BY <1>0, <1>1, ElsewhereKeepsDunning DEF vars
<1>2. CASE \E p \in Procs : AccountStep(p)
  BY <1>0, <1>2, AccountElsewhere, ElsewhereKeepsDunning
<1>3. CASE \E c \in Calls : CallStep(c)
  BY <1>0, <1>3, CallElsewhere, ElsewhereKeepsDunning DEF Procs
<1>4. ASSUME NEW d \in Deliveries, DeliveryStep(d) PROVE DunInv'
  BY <1>0, <1>4, DeliveryElsewhere, ElsewhereKeepsDunning, InsertKeepsDunning,
     DunningKeepsDunning DEF Procs
<1>5. CASE JobStep
  BY <1>5, JobKeepsDunning
<1>6. CASE CustomerStep
  <2>1. UNCHANGED <<attempts, payment, proc>>
    BY <1>6 DEF CustomerStep, AttachCard, RemoveCard, SetLimit
  <2> QED
    BY <1>0, <2>1, ElsewhereKeepsDunning
<1> QED
  BY <1>1, <1>2, <1>3, <1>4, <1>5, <1>6 DEF Next

----------------------------------------------------------------------------
(* Admission.  While something has spoken against a call ever since it was *)
(* asked for, no cycle and no subscription has been added; so the row that *)
(* the call looks at is the newest one, the standing and the card have not *)
(* let it pass, and the limit that it has read, if any, is reached.        *)
ForCost(c) == pc(c) \in AccountPCs /\ proc[c].then = "cost"
Bar(c) ==
    barred[c] # {} =>
        /\ Asking(c) /\ barred[c] \subseteq Objections /\ pc(c) # "newSub"
        /\ pc(c) # "sub" => mine(c) = NewestRow
        /\ "cannot pay" \in barred[c] => pc(c) \notin {"cap", "cost", "start"} /\ ~ForCost(c)
        /\ "at limit" \in barred[c] =>
              /\ pc(c) # "start"
              /\ pc(c) = "cost" \/ ForCost(c) => proc[c].held <= Cost(NewestRow)
BarInv == \A c \in Calls : Bar(c)

(* Costs only grow.                                                        *)
LEMMA TimesGrows ==
    ASSUME NEW r \in Nat, NEW a \in Nat, NEW b \in Nat, a <= b
    PROVE  r * a <= r * b /\ r * a \in Nat /\ r * b \in Nat
<1>1. PICK d \in Nat : b = a + d
  <2>1. b - a \in Nat /\ b = a + (b - a)
    OBVIOUS
  <2> QED
    BY <2>1
<1>2. r * b = r * a + r * d /\ r * a \in Nat /\ r * d \in Nat
  BY <1>1
<1> QED
  BY <1>2

LEMMA TotalGrows ==
    ASSUME AccountAssumption, TypeInv, TypeOK', [Next]_vars, NEW r \in Rows, NEW m \in Media
    PROVE  Total(r, m) \in Nat /\ Total(r, m)' \in Nat /\ Total(r, m) <= Total(r, m)'
<1>1. Total(r, m) \in Nat
  BY TotalIsFirst DEF TypeInv
<1>2. CASE lines'[r] = lines[r]
  BY <1>1, <1>2, TotalKeeps
<1>3. ASSUME NEW c \in Calls, RecordUsage(c), lines'[r] # lines[r]
      PROVE  Total(r, m)' \in Nat /\ Total(r, m) <= Total(r, m)'
  <2>1. PICK use \in Uses : lines' = [lines EXCEPT ![mine(c)] = Append(@, use)]
    BY <1>3 DEF RecordUsage, LineRow
  <2>2. use \in [Media -> Nat] /\ lines'[r] = Append(lines[r], use)
    BY <1>3, <2>1 DEF AccountAssumption, TypeInv, TypeOK
  <2>3. Total(r, m)' = Total(r, m) + use[m] /\ use[m] \in Nat
    BY <2>2, TotalAppends
  <2> QED
    BY <1>1, <2>3
<1> QED
  BY <1>1, <1>2, <1>3, OnlyRecordsChangeLines DEF vars

CostOf(m, r) == Rate[m] * Excess(Total(r, m), Free[m])

LEMMA CostGrows ==
    ASSUME AccountAssumption, TypeInv, TypeOK', [Next]_vars, NEW r \in Rows
    PROVE  Cost(r) \in Nat /\ Cost(r)' \in Nat /\ Cost(r) <= Cost(r)'
<1> DEFINE F == [m \in Media |-> CostOf(m, r)]
           G == [m \in Media |-> CostOf(m, r)']
<1>1. ASSUME NEW m \in Media
      PROVE  CostOf(m, r) \in Nat /\ CostOf(m, r)' \in Nat /\ CostOf(m, r) <= CostOf(m, r)'
  <2>1. Rate[m] \in Nat /\ Free[m] \in Nat
    BY DEF AccountAssumption
  <2>2. Total(r, m) \in Nat /\ Total(r, m)' \in Nat /\ Total(r, m) <= Total(r, m)'
    BY TotalGrows
  <2>3. /\ Excess(Total(r, m), Free[m]) \in Nat
        /\ Excess(Total(r, m)', Free[m]) \in Nat
        /\ Excess(Total(r, m), Free[m]) <= Excess(Total(r, m)', Free[m])
    BY <2>1, <2>2 DEF Excess
  <2> QED
    BY <2>1, <2>3, TimesGrows DEF CostOf
<1>2. /\ \A m \in Media : F[m] \in Nat
      /\ \A m \in Media : G[m] \in Nat
      /\ Below(F, G, Media)
  BY <1>1 DEF Below
<1>3. IsFiniteSet(Media) /\ IntegersOn(F, Media) /\ IntegersOn(G, Media)
  BY <1>2 DEF AccountAssumption, IntegersOn
<1>4. Cost(r) = SumFunctionOnSet(F, Media) /\ Cost(r)' = SumFunctionOnSet(G, Media)
  BY DEF Cost, SumFunction, CostOf
<1> HIDE DEF F, G
<1>5. SumFunctionOnSet(F, Media) \in Nat /\ SumFunctionOnSet(G, Media) \in Nat
  BY <1>2, <1>3, SumOfNaturals
<1>6. SumFunctionOnSet(F, Media) <= SumFunctionOnSet(G, Media)
  BY <1>2, <1>3, SumCompare
<1> QED
  BY <1>4, <1>5, <1>6

(* A cycle or subscription that has just been added has no row yet.        *)
LEMMA CycleSteps ==
    ASSUME Next
    PROVE  \/ UNCHANGED <<subs, cycle>>
           \/ UNCHANGED rows /\ subs' = subs + 1 /\ UNCHANGED cycle
           \/ UNCHANGED <<rows, subs>> /\ ClaimCycle
<1>1. CASE \E p \in Procs : AccountStep(p)
  BY <1>1 DEF AccountStep, FindSubscription, CreateSubscription, FindRow, CreateRow
<1>2. CASE \E c \in Calls : CallStep(c)
  BY <1>2 DEF CallStep, SignIn, AskForCall, ReadAllowance, ReadStanding, ReadCard,
              ReadLimit, ReadCost, StartCall, EndCall, RecordUsage, Check
<1>3. CASE \E d \in Deliveries : DeliveryStep(d)
  BY <1>3 DEF DeliveryStep, Deliver, FindPayment, InsertPayment, Credit, EnterDunning
<1>4. CASE JobStep
  BY <1>4 DEF JobStep, FindDue, FindPastDue, ClaimCycle, ReadOldRow, CarryOver, ResetPastDue
<1>5. CASE CustomerStep
  BY <1>5 DEF CustomerStep, AttachCard, RemoveCard, SetLimit
<1> QED
  BY <1>1, <1>2, <1>3, <1>4, <1>5 DEF Next

LEMMA NewestStands ==
    ASSUME AccountAssumption, TypeInv, Tables', HandInv, Next, UsedUp'
    PROVE  NewestRow' = NewestRow /\ NewestRow \in Rows
<1>1. NewestRow' \in rows' /\ NewestRow' \in Rows
  BY DEF UsedUp, Tables
<1>2. NewestRow' # NoRow /\ subs' # 0 /\ NewestRow' = <<subs', cycle'[subs']>>
  <2>1. NoRow \notin Rows
    BY DEF NoRow, Rows, Subs
  <2> QED
    BY <1>1, <2>1 DEF NewestRow
<1>3. CASE UNCHANGED <<subs, cycle>>
  BY <1>1, <1>3 DEF NewestRow
<1>4. CASE UNCHANGED rows /\ subs' = subs + 1 /\ UNCHANGED cycle
  <2>1. Known(NewestRow')
    BY <1>1, <1>4 DEF HandInv
  <2>2. subs' <= subs
    BY <1>2, <2>1 DEF Known
  <2>3. subs \in Nat
    BY DEF TypeInv, TypeOK, AccountAssumption
  <2> QED
    BY <1>4, <2>2, <2>3
<1>5. CASE UNCHANGED <<rows, subs>> /\ ClaimCycle
  <2>1. Known(NewestRow') /\ subs \in Subs /\ subs # 0
    BY <1>1, <1>2, <1>5, RowParts DEF HandInv
  <2>2. cycle'[subs] <= cycle[subs]
    BY <1>2, <1>5, <2>1 DEF Known
  <2>3. /\ cycle \in [Subs -> Cycles] /\ cycle[subs] \in Nat
        /\ cycle' = [cycle EXCEPT ![mine(Job)[1]] = @ + 1]
    BY <1>5, <2>1 DEF TypeInv, TypeOK, Cycles, ClaimCycle
  <2>4. cycle'[subs] = cycle[subs] \/ cycle'[subs] = cycle[subs] + 1
    BY <2>1, <2>3
  <2>5. cycle'[subs] = cycle[subs]
    BY <2>2, <2>3, <2>4
  <2> QED
    BY <1>1, <1>2, <1>5, <2>1, <2>5 DEF NewestRow
<1> QED
  BY <1>3, <1>4, <1>5, CycleSteps

(* What still speaks against a call after a step.                          *)
LEMMA BarredAfter ==
    ASSUME AccountAssumption, TypeInv, TypeOK', Tables', HandInv, Next,
           NEW c \in Calls, barred'[c] # {}
    PROVE  /\ Asking(c)'
           /\ barred'[c] \subseteq Objections'
           /\ UsedUp' /\ NewestRow' = NewestRow
           /\ Cost(NewestRow) \in Nat /\ Cost(NewestRow)' \in Nat
           /\ Cost(NewestRow) <= Cost(NewestRow)'
           /\ Asking(c) => barred'[c] \subseteq barred[c]
<1>1. /\ Asking(c)'
      /\ barred'[c] \subseteq Objections'
      /\ Asking(c) => barred'[c] \subseteq barred[c]
  BY DEF Next, Observe
<1>2. UsedUp'
  BY <1>1 DEF Objections
<1>3. NewestRow' = NewestRow /\ NewestRow \in Rows
  BY <1>2, NewestStands
<1>4. Cost(NewestRow) \in Nat /\ Cost(NewestRow)' \in Nat /\ Cost(NewestRow) <= Cost(NewestRow)'
  <2> DEFINE r == NewestRow
  <2>1. ASSUME NEW x \in Rows PROVE Cost(x) \in Nat /\ Cost(x)' \in Nat /\ Cost(x) <= Cost(x)'
    BY CostGrows
  <2>2. \A x \in Rows : x = NewestRow' => Cost(NewestRow)' = Cost(x)'
    BY DEF Cost, Total
  <2> QED
    BY <1>3, <2>1, <2>2
<1> QED
  BY <1>1, <1>2, <1>3, <1>4

(* A call that takes no step.                                              *)
LEMMA OthersKeepBar ==
    ASSUME AccountAssumption, TypeInv, TypeOK', Tables', HandInv, BarInv, Next,
           NEW c \in Calls, proc'[c] = proc[c]
    PROVE  Bar(c)'
<1>1. SUFFICES ASSUME barred'[c] # {} PROVE Bar(c)'
  BY DEF Bar
<1>2. /\ Asking(c)' /\ barred'[c] \subseteq Objections' /\ NewestRow' = NewestRow
      /\ Cost(NewestRow) \in Nat /\ Cost(NewestRow)' \in Nat
      /\ Cost(NewestRow) <= Cost(NewestRow)'
      /\ Asking(c) => barred'[c] \subseteq barred[c]
  BY <1>1, BarredAfter
<1>3. Asking(c) /\ (ForCost(c)' <=> ForCost(c))
  BY <1>2 DEF Asking, ForCost
<1>4. Bar(c) /\ barred[c] # {} /\ proc[c].held \in Nat
  BY <1>1, <1>2, <1>3, ProcRows DEF BarInv, Procs, Processes
<1>5. /\ pc(c)' # "newSub"
      /\ pc(c)' # "sub" => mine(c)' = NewestRow'
      /\ "cannot pay" \in barred'[c] => pc(c)' \notin {"cap", "cost", "start"} /\ ~ForCost(c)'
      /\ "at limit" \in barred'[c] => pc(c)' # "start"
  BY <1>2, <1>3, <1>4 DEF Bar
<1>6. ASSUME "at limit" \in barred'[c], pc(c)' = "cost" \/ ForCost(c)'
      PROVE  proc'[c].held <= Cost(NewestRow)'
  <2>1. proc[c].held <= Cost(NewestRow)
    BY <1>2, <1>3, <1>4, <1>6 DEF Bar
  <2> QED
    BY <1>2, <1>4, <2>1
<1> QED
  BY <1>2, <1>5, <1>6 DEF Bar

LEMMA GotoNew ==
    ASSUME TypeInv, NEW p \in Procs, NEW label, Goto(p, label)
    PROVE  /\ proc'[p].pc = label
           /\ label \notin RestPCs => /\ proc'[p].row = mine(p) /\ proc'[p].then = proc[p].then
                                      /\ proc'[p].held = proc[p].held
<1>1. proc'[p] = At(proc[p], label) /\ proc[p] \in Processes
  BY ProcRows DEF Goto
<1>2. CASE label \in RestPCs
  BY <1>1, <1>2 DEF At, Resting
<1>3. CASE label \notin RestPCs
  BY <1>1, <1>3 DEF At, Processes
<1> QED
  BY <1>2, <1>3

LEMMA RestsUnasked ==
    ASSUME NEW c, proc'[c].pc \in RestPCs
    PROVE  ~Asking(c)'
BY DEF Asking, RestPCs, CheckPCs, AccountPCs

(* A step of the check that goes on with the same row and limit.           *)
LEMMA CheckKeepsBar ==
    ASSUME AccountAssumption, TypeInv, TypeOK', Tables', HandInv, BarInv, Next,
           NEW c \in Calls, NEW label, Goto(c, label), label \notin {"sub", "newSub"},
           barred'[c] # {}, Asking(c), pc(c) # "sub",
           "cannot pay" \in barred'[c] => label \notin {"cap", "cost", "start"} /\ ~ForCost(c)',
           "at limit" \in barred'[c] => label # "start",
           label = "cost" \/ ForCost(c)' => pc(c) = "cost" \/ ForCost(c)
    PROVE  Bar(c)'
<1>1. /\ Asking(c)' /\ barred'[c] \subseteq Objections' /\ NewestRow' = NewestRow
      /\ Cost(NewestRow) \in Nat /\ Cost(NewestRow)' \in Nat
      /\ Cost(NewestRow) <= Cost(NewestRow)'
      /\ barred'[c] \subseteq barred[c]
  BY BarredAfter
<1>2. c \in Procs /\ Bar(c) /\ barred[c] # {} /\ proc[c].held \in Nat
  BY <1>1, ProcRows DEF BarInv, Procs, Processes
<1>3. /\ proc'[c].pc = label /\ proc'[c].row = mine(c) /\ proc'[c].held = proc[c].held
  BY <1>1, <1>2, GotoNew, RestsUnasked
<1>4. mine(c) = NewestRow
  BY <1>2 DEF Bar
<1>5. ASSUME "at limit" \in barred'[c], pc(c)' = "cost" \/ ForCost(c)'
      PROVE  proc'[c].held <= Cost(NewestRow)'
  <2>1. proc[c].held <= Cost(NewestRow)
    BY <1>1, <1>2, <1>3, <1>5 DEF Bar
  <2>2. /\ proc[c].held \in Nat /\ Cost(NewestRow) \in Nat /\ Cost(NewestRow)' \in Nat
        /\ Cost(NewestRow) <= Cost(NewestRow)'
    BY <1>1, <1>2
  <2>3. proc[c].held <= Cost(NewestRow)'
    BY ONLY <2>1, <2>2
  <2> QED
    BY <1>3, <2>3
<1> QED
  BY <1>1, <1>3, <1>4, <1>5 DEF Bar

LEMMA FindSubscriptionKeepsBar ==
    ASSUME AccountAssumption, TypeInv, TypeOK', Tables', HandInv, BarInv, Next,
           NEW c \in Calls, FindSubscription(c), barred'[c] # {}
    PROVE  Bar(c)'
<1> DEFINE s == [proc[c] EXCEPT !.row = NewestRow]
           label == IF subs = 0 THEN "newSub"
                    ELSE IF s.then \in CallSteps THEN "find" ELSE s.then
<1>1. /\ Asking(c)' /\ barred'[c] \subseteq Objections' /\ UsedUp' /\ NewestRow' = NewestRow
      /\ Cost(NewestRow) \in Nat /\ Cost(NewestRow)' \in Nat
      /\ Cost(NewestRow) <= Cost(NewestRow)'
      /\ Asking(c) => barred'[c] \subseteq barred[c]
  BY BarredAfter
<1>2. c \in Procs /\ proc[c] \in Processes /\ proc[c].held \in Nat
  BY ProcRows DEF Procs, Processes
<1>3. proc'[c] = At(s, label) /\ pc(c) = "sub"
  BY <1>2, ProcRows DEF FindSubscription
<1>4. subs # 0
  <2>1. NewestRow' \in rows' /\ rows' \subseteq Rows
    BY <1>1 DEF UsedUp, Tables
  <2>2. NewestRow # NoRow
    BY <1>1, <2>1 DEF NoRow, Rows, Subs
  <2> QED
    BY <2>2 DEF NewestRow
<1>5. label \notin RestPCs
  <2>1. proc'[c].pc = label \/ label \notin RestPCs
    BY <1>3 DEF At, Resting
  <2> QED
    BY <1>1, <2>1, RestsUnasked
<1>6. proc'[c] = [s EXCEPT !.pc = label]
  BY <1>3, <1>5 DEF At
<1>7. /\ proc'[c].pc = label /\ proc'[c].row = NewestRow
      /\ proc'[c].then = proc[c].then /\ proc'[c].held = proc[c].held
  BY <1>2, <1>6 DEF Processes
<1>8. s.then = proc[c].then
  BY <1>2 DEF Processes
<1>9. label = "find" /\ proc[c].then \in {"totals", "cost"}
  <2>1. label = "find" \/ (label = proc[c].then /\ proc[c].then \in Continuations \ CallSteps)
    BY <1>2, <1>4, <1>8 DEF Processes
  <2> QED
    BY <1>1, <1>5, <1>7, <2>1 DEF Asking, Continuations, CallSteps, CheckPCs, AccountPCs, RestPCs
<1> HIDE DEF s, label
<1>10. Asking(c) /\ (ForCost(c)' <=> ForCost(c))
  BY <1>3, <1>7, <1>9 DEF Asking, AccountPCs, ForCost
<1>11. Bar(c) /\ barred[c] # {}
  BY <1>1, <1>10 DEF BarInv
<1>12. ASSUME "at limit" \in barred'[c], pc(c)' = "cost" \/ ForCost(c)'
       PROVE  proc'[c].held <= Cost(NewestRow)'
  <2>1. proc[c].held <= Cost(NewestRow)
    BY <1>1, <1>7, <1>9, <1>10, <1>11, <1>12 DEF Bar
  <2> QED
    BY <1>1, <1>2, <1>7, <2>1
<1> QED
  BY <1>1, <1>7, <1>9, <1>10, <1>11, <1>12 DEF Bar

LEMMA AccountKeepsBar ==
    ASSUME AccountAssumption, TypeInv, TypeOK', Tables', HandInv, BarInv, Next,
           NEW c \in Calls, AccountStep(c)
    PROVE  Bar(c)'
<1> SUFFICES ASSUME barred'[c] # {} PROVE Bar(c)'
  BY DEF Bar
<1>1. /\ Asking(c)' /\ NewestRow' = NewestRow /\ c \in Procs
      /\ Asking(c) => barred'[c] \subseteq barred[c]
  BY BarredAfter DEF Procs
<1>2. CASE FindSubscription(c)
  BY <1>2, FindSubscriptionKeepsBar
<1>3. CASE CreateSubscription(c)
  <2>1. subs' = subs + 1 /\ subs \in Nat
    BY <1>3 DEF CreateSubscription, TypeInv, TypeOK, AccountAssumption
  <2>2. NewestRow'[1] = subs + 1
    BY <2>1 DEF NewestRow
  <2>3. NewestRow[1] = subs
    <3>1. NoRow[1] = 0
      BY DEF NoRow
    <3> QED
      BY <3>1 DEF NewestRow
  <2>4. subs + 1 # subs
    BY ONLY <2>1
  <2> QED
    BY <1>1, <2>2, <2>3, <2>4
<1>4. ASSUME NEW label, pc(c) \in {"find", "create"}, Goto(c, label),
             label \in {"create", "done", proc[c].then}
      PROVE  Bar(c)'
  <2>1. proc'[c].pc = label /\ proc[c].then \in Continuations
    BY <1>1, <1>4, GotoNew, ProcRows DEF Processes
  <2>2. label \notin RestPCs
    BY <1>1, <2>1, RestsUnasked
  <2>3. proc'[c].then = proc[c].then
    BY <1>1, <1>4, <2>2, GotoNew
  <2>4. label \in {"create", "totals", "cost"} /\ proc[c].then \in {"totals", "cost"}
    BY <1>1, <1>4, <2>1, <2>2, <2>3 DEF Asking, Continuations, CallSteps, CheckPCs, AccountPCs,
                                        RestPCs
  <2>5. Asking(c)
    BY <1>4, <2>4 DEF Asking, AccountPCs
  <2>6. label = "cost" \/ ForCost(c)' => ForCost(c)
    BY <1>4, <2>1, <2>3, <2>4 DEF ForCost, AccountPCs
  <2>7. "cannot pay" \in barred'[c] => ~ForCost(c)
    BY <1>1, <2>5 DEF BarInv, Bar
  <2> QED
    BY <1>4, <2>4, <2>5, <2>6, <2>7, CheckKeepsBar
<1>5. CASE FindRow(c) \/ CreateRow(c)
  <2>1. PICK label \in {"create", "done", proc[c].then} : Goto(c, label)
    BY <1>5 DEF FindRow, CreateRow
  <2>2. pc(c) \in {"find", "create"}
    BY <1>5 DEF FindRow, CreateRow
  <2> QED
    BY <1>4, <2>1, <2>2
<1> QED
  BY <1>2, <1>3, <1>5 DEF AccountStep

(* What speaks against a call is the same after a step that only reads.    *)
LEMMA ReadsObject ==
    ASSUME UNCHANGED <<subscription, usage, customer, ledger>>
    PROVE  Objections' = Objections /\ Cost(NewestRow)' = Cost(NewestRow)
BY DEF Objections, UsedUp, Exhausted, NewestRow, Cost, Total

LEMMA CallKeepsBar ==
    ASSUME AccountAssumption, TypeInv, TypeOK', Tables', HandInv, BarInv, Next,
           NEW c \in Calls, CallStep(c)
    PROVE  Bar(c)'
<1> SUFFICES ASSUME barred'[c] # {} PROVE Bar(c)'
  BY DEF Bar
<1>1. /\ Asking(c)' /\ barred'[c] \subseteq Objections' /\ NewestRow' = NewestRow
      /\ Asking(c) => barred'[c] \subseteq barred[c]
      /\ c \in Procs /\ proc[c] \in Processes
  BY BarredAfter, ProcRows DEF Procs
<1>2. ASSUME NEW goOn, Enter(c, goOn)
      PROVE  proc'[c].pc = "sub" /\ proc'[c].then = goOn
  BY <1>1, <1>2, ProcRows DEF Enter, Processes
<1>3. CASE SignIn(c) \/ EndCall(c)
  <2>1. proc'[c].pc = "sub" /\ proc'[c].then \in {"done", "record"}
    BY <1>2, <1>3 DEF SignIn, EndCall
  <2> QED
    BY <1>1, <2>1 DEF Asking, CheckPCs
<1>4. CASE AskForCall(c)
  <2>1. proc'[c].pc = "sub" /\ proc'[c].then = "totals"
    BY <1>2, <1>4 DEF AskForCall
  <2> QED
    BY <1>1, <2>1 DEF Bar, ForCost
<1>5. CASE StartCall(c) \/ RecordUsage(c)
  <2>1. proc'[c].pc \in RestPCs
    BY <1>1, <1>5, GotoNew DEF StartCall, RecordUsage, Check, RestPCs
  <2> QED
    BY <1>1, <2>1, RestsUnasked
<1>6. ASSUME pc(c) \in CheckPCs, UNCHANGED <<subscription, usage, customer, ledger>>
      PROVE  /\ Asking(c) /\ barred'[c] \subseteq barred[c] /\ Bar(c) /\ ~ForCost(c)
             /\ barred'[c] \subseteq Objections /\ UsedUp /\ mine(c) = NewestRow
             /\ Cost(NewestRow)' = Cost(NewestRow)
  <2>1. Asking(c) /\ pc(c) # "sub"
    BY <1>6 DEF Asking, CheckPCs
  <2>2. barred'[c] \subseteq barred[c] /\ barred[c] # {} /\ Bar(c)
    BY <1>1, <2>1 DEF BarInv
  <2>3. barred'[c] \subseteq Objections /\ Cost(NewestRow)' = Cost(NewestRow)
    BY <1>1, <1>6, ReadsObject
  <2>4. UsedUp
    BY <2>3 DEF Objections
  <2>5. ~ForCost(c)
    BY <1>6 DEF ForCost, CheckPCs, AccountPCs
  <2> QED
    BY <2>1, <2>2, <2>3, <2>4, <2>5 DEF Bar
<1>7. ASSUME NEW label, Goto(c, label), pc(c) \in CheckPCs,
             UNCHANGED <<subscription, usage, customer, ledger>>,
             label \in {"standing", "card", "cap", "start", "done"},
             "cannot pay" \in barred'[c] => label \notin {"cap", "start"},
             "at limit" \in barred'[c] => label # "start"
      PROVE  Bar(c)'
  <2>1. Asking(c) /\ pc(c) # "sub"
    BY <1>6, <1>7 DEF CheckPCs
  <2>2. proc'[c].pc = label
    BY <1>1, <1>7, GotoNew
  <2>3. ~ForCost(c)'
    BY <1>7, <2>2 DEF ForCost, AccountPCs
  <2> QED
    BY <1>7, <2>1, <2>3, CheckKeepsBar
<1>8. CASE ReadAllowance(c)
  <2>1. pc(c) \in CheckPCs /\ UNCHANGED <<subscription, usage, customer, ledger>>
    BY <1>8 DEF ReadAllowance, Check, CheckPCs
  <2>2. Exhausted(mine(c))
    BY <1>6, <2>1 DEF UsedUp
  <2>3. Goto(c, "standing")
    BY <1>8, <2>2 DEF ReadAllowance, Check
  <2> QED
    BY <1>7, <2>1, <2>3
<1>9. CASE ReadStanding(c)
  <2>1. pc(c) \in CheckPCs /\ UNCHANGED <<subscription, usage, customer, ledger>>
    BY <1>9 DEF ReadStanding, Check, CheckPCs
  <2>2. GoodStanding => "cannot pay" \notin barred'[c]
    BY <1>6, <2>1 DEF GoodStanding, Objections
  <2>3. Goto(c, IF GoodStanding THEN "cap" ELSE "card")
    BY <1>9 DEF ReadStanding, Check
  <2> QED
    BY <1>7, <2>1, <2>2, <2>3
<1>10. CASE ReadCard(c)
  <2>1. pc(c) \in CheckPCs /\ UNCHANGED <<subscription, usage, customer, ledger>>
    BY <1>10 DEF ReadCard, Check, CheckPCs
  <2>2. card => "cannot pay" \notin barred'[c]
    BY <1>6, <2>1 DEF Objections
  <2>3. Goto(c, IF card THEN "cap" ELSE "done")
    BY <1>10 DEF ReadCard, Check
  <2> QED
    BY <1>7, <2>1, <2>2, <2>3
<1>11. CASE ReadCost(c)
  <2>1. pc(c) = "cost" /\ UNCHANGED <<subscription, usage, customer, ledger>>
    BY <1>11 DEF ReadCost, Check
  <2>2. /\ Bar(c) /\ barred[c] # {} /\ barred'[c] \subseteq barred[c] /\ mine(c) = NewestRow
    BY <1>6, <2>1 DEF CheckPCs
  <2>3. "cannot pay" \notin barred'[c]
    BY <2>1, <2>2 DEF Bar
  <2>4. "at limit" \in barred'[c] => Reached(c)
    <3>1. "at limit" \in barred'[c] => proc[c].held <= Cost(mine(c))
      BY <2>1, <2>2 DEF Bar
    <3>2. proc[c].held \in Nat /\ Cost(mine(c)) \in Nat
      BY <1>1, <2>2, BarredAfter DEF Processes
    <3> QED
      BY <3>1, <3>2 DEF Reached
  <2>5. Goto(c, IF Reached(c) THEN "done" ELSE "start")
    BY <1>11 DEF ReadCost, Check
  <2> QED
    BY <1>7, <2>1, <2>3, <2>4, <2>5 DEF CheckPCs
<1>12. CASE ReadLimit(c)
  <2>1. pc(c) = "cap" /\ UNCHANGED <<subscription, usage, customer, ledger>>
    BY <1>12 DEF ReadLimit
  <2>2. /\ Bar(c) /\ barred[c] # {} /\ barred'[c] \subseteq barred[c] /\ mine(c) = NewestRow
        /\ barred'[c] \subseteq Objections /\ Cost(NewestRow)' = Cost(NewestRow)
    BY <1>6, <2>1 DEF CheckPCs
  <2>3. "cannot pay" \notin barred'[c]
    BY <2>1, <2>2 DEF Bar
  <2>4. "at limit" \in barred'[c] => limit > 0 /\ Cost(NewestRow) >= limit
    BY <2>2 DEF Objections
  <2>5. limit \in Nat /\ Cost(NewestRow) \in Nat
    BY BarredAfter DEF TypeInv, TypeOK
  <2>6. CASE limit = 0
    <3>1. Goto(c, "start")
      BY <1>12, <2>6 DEF ReadLimit
    <3> QED
      <4>1. pc(c) \in CheckPCs
        BY <2>1 DEF CheckPCs
      <4>2. "at limit" \notin barred'[c]
        <5>1. ~(limit > 0)
          BY <2>6
        <5> QED
          BY <2>4, <5>1, Zenon
      <4> QED
        BY <1>7, <2>1, <2>3, <3>1, <4>1, <4>2
  <2>7. CASE limit # 0
    <3>1. proc'[c] = [proc[c] EXCEPT !.pc = "sub", !.then = "cost", !.held = limit]
      BY <1>1, <1>12, <2>7, ProcRows DEF ReadLimit
    <3>2. proc'[c].pc = "sub" /\ proc'[c].held = limit
      BY <1>1, <3>1 DEF Processes
    <3>3. "at limit" \in barred'[c] => proc'[c].held <= Cost(NewestRow)'
      BY <2>2, <2>4, <2>5, <3>2
    <3> QED
      BY <1>1, <2>3, <3>2, <3>3 DEF Bar
  <2> QED
    BY <2>6, <2>7
<1> QED
  BY <1>3, <1>4, <1>5, <1>8, <1>9, <1>10, <1>11, <1>12 DEF CallStep

LEMMA InitBar == ASSUME Init PROVE BarInv
BY DEF Init, BarInv, Bar

LEMMA NextBar ==
    ASSUME AccountAssumption, TypeInv, TypeOK', Tables', HandInv, BarInv, [Next]_vars
    PROVE  BarInv'
<1>1. CASE UNCHANGED vars
  <2>1. Objections' = Objections /\ Cost(NewestRow)' = Cost(NewestRow) /\ NewestRow' = NewestRow
    BY <1>1, ReadsObject DEF vars, NewestRow
  <2> QED
    BY <1>1, <2>1 DEF vars, BarInv, Bar, Asking, ForCost
<1>2. ASSUME Next, NEW c \in Calls PROVE Bar(c)'
  <2>1. CASE AccountStep(c)
    BY <1>2, <2>1, AccountKeepsBar
  <2>2. CASE CallStep(c)
    BY <1>2, <2>2, CallKeepsBar
  <2>3. CASE ~AccountStep(c) /\ ~CallStep(c)
    <3>1. proc'[c] = proc[c]
      <4>0. c \in Procs /\ c # Job /\ c \notin Deliveries /\ proc \in [Procs -> Processes]
        BY ProcRows DEF AccountAssumption, Procs
      <4>1. ASSUME NEW p \in Procs, p # c, Elsewhere(p) PROVE proc'[c] = proc[c]
        BY <4>0, <4>1 DEF Elsewhere
      <4>2. CASE \E p \in Procs : AccountStep(p)
        BY <2>3, <4>1, <4>2, AccountElsewhere
      <4>3. CASE \E e \in Calls : CallStep(e)
        BY <2>3, <4>1, <4>3, CallElsewhere DEF Procs
      <4>4. ASSUME NEW d \in Deliveries, DeliveryStep(d) PROVE proc'[c] = proc[c]
        <5>1. \E new : proc' = [proc EXCEPT ![d] = new]
          BY <4>4 DEF DeliveryStep, Deliver, FindPayment, InsertPayment, Credit, EnterDunning,
                      Goto, Enter
        <5> QED
          BY <4>0, <5>1
      <4>5. ASSUME JobStep PROVE proc'[c] = proc[c]
        <5>1. \E new : proc' = [proc EXCEPT ![Job] = new]
          BY <4>5 DEF JobStep, FindDue, FindPastDue, ClaimCycle, ReadOldRow, CarryOver,
                      ResetPastDue, Goto
        <5> QED
          BY <4>0, <5>1
      <4>6. CASE CustomerStep
        BY <4>6 DEF CustomerStep, AttachCard, RemoveCard, SetLimit
      <4> QED
        BY <1>2, <4>2, <4>3, <4>4, <4>5, <4>6 DEF Next
    <3> QED
      BY <1>2, <3>1, OthersKeepBar
  <2> QED
    BY <2>1, <2>2, <2>3
<1> QED
  BY <1>1, <1>2 DEF BarInv

----------------------------------------------------------------------------
AccountInv ==
    TypeInv /\ CreditInv /\ PurchaseInv /\ TallyInv /\ HandInv /\ DunInv /\ BarInv

LEMMA AccountInvariant == Spec => []AccountInv
<1>1. Init => AccountInv
  BY AccountAssumption, InitTypeInv, InitCreditInv, InitPurchaseInv, InitTally, InitHands,
     InitDunning, InitBar DEF AccountInv
<1>2. ASSUME AccountInv, [Next]_vars PROVE AccountInv'
  <2>1. TypeInv' /\ TypeOK' /\ Tables'
    BY <1>2, AccountAssumption, NextTypeInv DEF AccountInv, TypeInv, TypeOK, Tables
  <2>2. CreditInv' /\ PurchaseInv' /\ HandInv'
    BY <1>2, AccountAssumption, NextCreditInv, NextPurchaseInv, NextHands DEF AccountInv
  <2>3. TallyInv' /\ DunInv' /\ BarInv'
    BY <1>2, <2>1, AccountAssumption, NextTally, NextDunning, NextBar DEF AccountInv
  <2> QED
    BY <2>1, <2>2, <2>3 DEF AccountInv
<1> QED
  BY <1>1, <1>2, PTL DEF Spec

(* Every table, process and history keeps its type, for every instance.    *)
THEOREM AccountTypeCorrect == Spec => []TypeOK
<1>1. AccountInv => TypeOK
  BY DEF AccountInv, TypeInv
<1> QED
  BY <1>1, AccountInvariant, PTL

(* However many deliveries there are, in whatever order their statements   *)
(* fall, and whichever of them stop halfway: handlePaymentCaptured credits *)
(* a payment at most once.                                                 *)
THEOREM PaymentsAreCreditedOnce == Spec => []CreditedOnce
<1>1. AccountInv => CreditedOnce
  BY DEF AccountInv, CreditInv, CreditedOnce
<1> QED
  BY <1>1, AccountInvariant, PTL

(* No cycle shows more purchased minutes than were paid for, although the  *)
(* renewal copies them from cycle to cycle while they are being credited.  *)
THEOREM PurchasesArePaidFor == Spec => []PurchasedIsPaidFor
<1> DEFINE Paid == {p \in TopUps : payment[p] = "PAID"}
<1>1. ASSUME AccountInv PROVE PurchasedIsPaidFor
  <2> USE <1>1 DEF AccountInv
  <2>1. Credited \subseteq Paid
    BY AccountAssumption DEF Credited, CreditInv, AccountAssumption
  <2>2. IsFiniteSet(Paid)
    BY FS_Subset, AccountAssumption DEF AccountAssumption
  <2>3. Cardinality(Credited) <= Cardinality(Paid) /\ Cardinality(Paid) \in Nat
    BY <2>1, <2>2, FS_Subset, FS_CardinalityType
  <2>4. \A r \in Rows : bought[r] \in Nat /\ bought[r] <= Cardinality(Credited)
    BY DEF TypeInv, TypeOK, PurchaseInv
  <2> QED
    BY <2>3, <2>4, AccountAssumption, CreditedIsFinite DEF PurchasedIsPaidFor
<1> QED
  BY <1>1, AccountInvariant, PTL

(* A failed payment is counted against the customer once: EnterDunning     *)
(* runs at most once for it, in one subscription, however often and in     *)
(* whatever order its notices are delivered while the daily run clears     *)
(* subscriptions that are past due.                                        *)
THEOREM FailuresAreDunnedOnce == Spec => []DunnedOnce
<1> DEFINE Failed == {p \in Payments : payment[p] = "FAILED"}
<1>1. ASSUME AccountInv PROVE DunnedOnce
  <2> USE <1>1 DEF AccountInv
  <2>1. IsFiniteSet(Failed) /\ Counted \subseteq Failed
    BY FS_Subset, AccountAssumption DEF AccountAssumption, Counted
  <2>2. /\ Cardinality(Counted) <= Cardinality(Failed)
        /\ Cardinality(Counted) \in Nat /\ Cardinality(Failed) \in Nat
    BY <2>1, FS_Subset, FS_CardinalityType
  <2>3. IsFiniteSet(Subs)
    BY FS_Interval, AccountAssumption DEF AccountAssumption, Subs
  <2>4. \A n \in Subs : attempts[n] \in Nat
    BY DEF TypeInv, TypeOK
  <2>5. SumFunctionOnSet(attempts, Subs) \in Nat
    BY <2>3, <2>4, SumOfNaturals
  <2>6. SumFunctionOnSet(attempts, Subs) <= Cardinality(Failed)
    BY <2>2, <2>5 DEF DunInv
  <2>7. DOMAIN attempts = Subs
    BY DEF TypeInv, TypeOK
  <2> QED
    BY <2>6, <2>7 DEF DunnedOnce, SumFunction
<1> QED
  BY <1>1, AccountInvariant, PTL

(* What getCallUsage shows for the calls of a cycle, one after the other,  *)
(* adds up to what getCurrentUsage and the invoice charge for its total,   *)
(* for any number of calls of any length: by induction over the lines.     *)
THEOREM LinesAddUpToTheCharge == Spec => []ShownIsCharged
<1>1. ASSUME AccountInv PROVE ShownIsCharged
  <2>1. ASSUME NEW r \in Rows, NEW m \in Media
        PROVE  BilledByLine(r, m) = Excess(minutes[r][m], Free[m])
    <3>1. BilledByLine(r, m) = Excess(Total(r, m), Free[m])
      BY <1>1, AccountAssumption, LinesAddUp DEF AccountInv, TypeInv
    <3> QED
      BY <1>1, <3>1 DEF AccountInv, TallyInv
  <2> QED
    BY <2>1 DEF ShownIsCharged
<1> QED
  BY <1>1, AccountInvariant, PTL

(* canStartCall lets no call through against an objection that has stood   *)
(* ever since the call was asked for, although the limit and the costs     *)
(* that it compares are read in different statements.                      *)
THEOREM BarredCallsGetNoCall == Spec => BarredCallsAreRefused
<1>1. ASSUME AccountInv, NEW c \in Calls, Starts(c)
      PROVE  barred[c] \subseteq {"no card"}
  <2>1. Bar(c) /\ pc(c) = "start" /\ barred[c] \subseteq Grounds
    BY <1>1 DEF AccountInv, BarInv, TypeInv, TypeOK, Starts
  <2>2. "cannot pay" \notin barred[c] /\ "at limit" \notin barred[c]
    BY <2>1 DEF Bar
  <2> QED
    BY <2>1, <2>2 DEF Grounds
<1>2. AccountInv /\ [Next]_vars =>
        [\A c \in Calls : Starts(c) => barred[c] \subseteq {"no card"}]_vars
  BY <1>1
<1> QED
  BY <1>2, AccountInvariant, PTL DEF Spec, BarredCallsAreRefused
=============================================================================
