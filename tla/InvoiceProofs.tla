--------------------------- MODULE InvoiceProofs ---------------------------
(***************************************************************************)
(* Theorems about InvoiceBilling for every set of customers, server        *)
(* instances and requests, every number of cycles, every schedule, and     *)
(* every number of failures, lost answers and restarts.                    *)
(***************************************************************************)
EXTENDS InvoiceBilling, FiniteSetTheorems, TLAPS

USE DEF subscription, row, locals, history, bounds

(* Whoever is past the head of a loop, or of a request, works on an invoice. *)
WorkPCs == PCs \ (RestPCs \cup {"next"})
Working == \A p \in Procs : pc[p] \in WorkPCs => at[p] \in Invoices

(* The last cycle does not end, and so is on no list of due renewals. *)
EndsInside == \A c \in Customers : ended[c] => period[c] < LastCycle
ListsInside ==
    \A j \in Jobs : phase[j] = "renew" => \A i \in todo[j] : i[2] < LastCycle

TypeInv == TypeOK /\ Working /\ EndsInside /\ ListsInside

(* Where processes go. *)
LEMMA Labels ==
    /\ WorkPCs \subseteq PCs
    /\ {"existing", "usage", "create", "charge", "claim", "gateway", "paid", "clear",
        "dun", "reopen", "resched", "reset", "record"} \subseteq WorkPCs
    /\ {"next", "idle", "done", "fresh"} \subseteq PCs
    /\ {"next", "idle", "done", "fresh"} \cap WorkPCs = {}
  BY DEF WorkPCs, PCs, JobPCs, ReqPCs, GeneratePCs, ChargePCs, RestPCs

LEMMA ProcessMoves ==
    ASSUME TypeInv, NEW p \in Procs, NEW label \in PCs, NEW i \in Invoices \cup {Nobody},
           pc' = [pc EXCEPT ![p] = label], at' = [at EXCEPT ![p] = i],
           label \in WorkPCs => i \in Invoices
    PROVE  /\ pc' \in [Procs -> PCs] /\ at' \in [Procs -> Invoices \cup {Nobody}]
           /\ Working'
  BY DEF TypeInv, TypeOK, LocalsOK, Working

LEMMA GoesOn ==
    ASSUME TypeInv, NEW p \in Procs, NEW label \in PCs, pc[p] \in WorkPCs,
           Goto(p, label), UNCHANGED at
    PROVE  /\ pc' \in [Procs -> PCs] /\ at' \in [Procs -> Invoices \cup {Nobody}]
           /\ Working'
  BY DEF TypeInv, TypeOK, LocalsOK, Working, Goto

LEMMA Rests ==
    ASSUME TypeInv, NEW p \in Procs, NEW label \in PCs \ WorkPCs,
           Goto(p, label), UNCHANGED at
    PROVE  /\ pc' \in [Procs -> PCs] /\ at' \in [Procs -> Invoices \cup {Nobody}]
           /\ Working'
  BY DEF TypeInv, TypeOK, LocalsOK, Working, Goto

LEMMA TakesUp ==
    ASSUME TypeInv, NEW p \in Procs, NEW label \in PCs, NEW i \in Invoices,
           Goto(p, label), TakeUp(p, i)
    PROVE  /\ pc' \in [Procs -> PCs] /\ at' \in [Procs -> Invoices \cup {Nobody}]
           /\ Working'
  BY ProcessMoves DEF Goto, TakeUp

LEMMA Leaves ==
    ASSUME TypeInv, NEW p \in Procs, Leave(p)
    PROVE  /\ pc' \in [Procs -> PCs] /\ at' \in [Procs -> Invoices \cup {Nobody}]
           /\ Working'
<1>1. LoopHead(p) \in PCs /\ LoopHead(p) \notin WorkPCs
  BY Labels DEF LoopHead
<1> QED
  BY <1>1, ProcessMoves DEF Leave, Goto, TakeUp

(* Lists only get shorter within a loop, and no period ends. *)
LEMMA BoundsKept ==
    ASSUME TypeInv, UNCHANGED <<period, ended, phase>>,
           \A j \in Jobs : todo'[j] \subseteq todo[j]
    PROVE  EndsInside' /\ ListsInside'
  BY DEF TypeInv, EndsInside, ListsInside

LEMMA Visits ==
    ASSUME TypeInv, NEW j \in Jobs, NEW i, Visited(j, i)
    PROVE  /\ todo' \in [Jobs -> SUBSET Invoices]
           /\ \A k \in Jobs : todo'[k] \subseteq todo[k]
  BY DEF TypeInv, TypeOK, LocalsOK, Visited

LEMMA InitTypeInv == ASSUME InvoiceAssumption, Init PROVE TypeInv
<1> USE DEF Init
<1>0. 0 \in Cycles
  BY InvoiceAssumption DEF InvoiceAssumption, Cycles
<1>1. RowsOK
  <2>1. Passed \in Int /\ Never \in Int
    BY DEF Passed, Never
  <2> QED
    BY <1>0, <2>1 DEF RowsOK, Account, InvoiceStates
<1>2. LocalsOK
  BY Labels DEF LocalsOK, Phases
<1>3. CountersOK
  BY DEF CountersOK
<1>4. Working
  BY Labels DEF Working
<1> QED
  BY <1>1, <1>2, <1>3, <1>4 DEF TypeInv, TypeOK, EndsInside, ListsInside

----------------------------------------------------------------------------
(* Time and the daily run.                                                 *)

LEMMA PeriodEndsType == ASSUME TypeInv, NEW c \in Customers, PeriodEnds(c) PROVE TypeInv'
<1> USE DEF PeriodEnds
<1>1. RowsOK' /\ LocalsOK' /\ CountersOK'
  BY DEF TypeInv, TypeOK, RowsOK, LocalsOK, CountersOK
<1>2. Working' /\ ListsInside'
  BY DEF TypeInv, Working, ListsInside
<1>3. EndsInside'
  BY DEF TypeInv, TypeOK, RowsOK, EndsInside
<1> QED
  BY <1>1, <1>2, <1>3 DEF TypeInv, TypeOK

LEMMA NextDayType == ASSUME TypeInv, NextDay PROVE TypeInv'
<1> USE DEF NextDay
<1>1. RowsOK'
  <2>1. \A d \in Int : Sooner(d) \in Int
    BY DEF Sooner
  <2>2. \A d \in Nat : Older(d) \in Nat
    BY DEF Older
  <2> QED
    BY <2>1, <2>2 DEF TypeInv, TypeOK, RowsOK
<1>2. LocalsOK' /\ CountersOK'
  BY DEF TypeInv, TypeOK, LocalsOK, CountersOK
<1>3. Working' /\ ListsInside' /\ EndsInside'
  BY DEF TypeInv, Working, ListsInside, EndsInside
<1> QED
  BY <1>1, <1>2, <1>3 DEF TypeInv, TypeOK

LEMMA StartJobType == ASSUME TypeInv, NEW j \in Jobs, StartJob(j) PROVE TypeInv'
<1> USE DEF StartJob
<1>1. /\ pc' \in [Procs -> PCs] /\ at' \in [Procs -> Invoices \cup {Nobody}]
      /\ Working'
  BY Rests, Labels DEF Procs
<1>2. RowsOK' /\ CountersOK'
  BY DEF TypeInv, TypeOK, RowsOK, CountersOK
<1>3. LocalsOK'
  BY <1>1 DEF TypeInv, TypeOK, LocalsOK, Phases
<1>4. EndsInside'
  BY DEF TypeInv, EndsInside
<1>5. ListsInside'
  <2> SUFFICES ASSUME NEW k \in Jobs, phase'[k] = "renew", NEW i \in todo'[k]
               PROVE  i[2] < LastCycle
    BY DEF ListsInside
  <2>1. CASE k = j
    <3>1. ended[i[1]] /\ i[2] = period[i[1]] /\ i[1] \in Customers
      BY <2>1 DEF TypeInv, TypeOK, LocalsOK, Invoices
    <3> QED
      BY <3>1 DEF TypeInv, EndsInside
  <2>2. CASE k # j
    BY <2>2 DEF TypeInv, TypeOK, LocalsOK, ListsInside
  <2> QED
    BY <2>1, <2>2
<1> QED
  BY <1>1, <1>2, <1>3, <1>4, <1>5 DEF TypeInv, TypeOK

LEMMA StartLoopType ==
    ASSUME TypeInv, NEW j \in Jobs, StartRetries(j) \/ StartDowngrades(j) \/ FinishJob(j)
    PROVE  TypeInv'
<1> USE DEF StartRetries, StartDowngrades, FinishJob, LoopEnds
<1>1. RowsOK' /\ CountersOK' /\ EndsInside'
  BY DEF TypeInv, TypeOK, RowsOK, CountersOK, EndsInside
<1>2. CASE StartRetries(j)
  <2>1. PICK I \in Come(retryIn, {i \in Invoices : state[i] = "dunning"}) :
            todo' = [todo EXCEPT ![j] = I]
    BY <1>2
  <2>2. I \subseteq Invoices
    BY <2>1 DEF Come
  <2>3. LocalsOK' /\ Working'
    BY <1>2, <2>1, <2>2 DEF TypeInv, TypeOK, LocalsOK, Phases, Working
  <2>4. ListsInside'
    BY <1>2, <2>1 DEF TypeInv, TypeOK, LocalsOK, ListsInside
  <2> QED
    BY <1>1, <2>3, <2>4 DEF TypeInv, TypeOK
<1>3. CASE StartDowngrades(j)
  <2>1. PICK C \in Come(grace, {c \in Customers : account[c] = "PAST_DUE"}) :
            todo' = [todo EXCEPT ![j] = {<<c, period[c]>> : c \in C}]
    BY <1>3
  <2>2. C \subseteq Customers
    BY <2>1 DEF Come
  <2>3. {<<c, period[c]>> : c \in C} \subseteq Invoices
    BY <2>2 DEF Invoices, TypeInv, TypeOK, RowsOK
  <2>4. LocalsOK' /\ Working'
    BY <1>3, <2>1, <2>3 DEF TypeInv, TypeOK, LocalsOK, Phases, Working
  <2>5. ListsInside'
    BY <1>3, <2>1 DEF TypeInv, TypeOK, LocalsOK, ListsInside
  <2> QED
    BY <1>1, <2>4, <2>5 DEF TypeInv, TypeOK
<1>4. CASE FinishJob(j)
  <2>1. /\ pc' \in [Procs -> PCs] /\ at' \in [Procs -> Invoices \cup {Nobody}]
        /\ Working'
    BY <1>4, Rests, Labels DEF Procs
  <2>2. LocalsOK' /\ ListsInside'
    BY <1>4, <2>1 DEF TypeInv, TypeOK, LocalsOK, ListsInside
  <2> QED
    BY <1>1, <2>1, <2>2 DEF TypeInv, TypeOK
<1> QED
  BY <1>2, <1>3, <1>4

LEMMA CancelType ==
    ASSUME TypeInv, NEW j \in Jobs, NEW i \in Invoices, CancelAtPeriodEnd(j, i)
    PROVE  TypeInv'
<1> USE DEF CancelAtPeriodEnd
<1>1. RowsOK' /\ CountersOK'
  BY DEF TypeInv, TypeOK, RowsOK, CountersOK, Account, Invoices
<1>2. /\ pc' \in [Procs -> PCs] /\ at' \in [Procs -> Invoices \cup {Nobody}]
      /\ Working'
  <2>1. CASE account[i[1]] = "ACTIVE"
    BY <2>1, TakesUp, Labels DEF Procs
  <2>2. CASE account[i[1]] # "ACTIVE"
    BY <2>2 DEF TypeInv, TypeOK, LocalsOK, Working
  <2> QED
    BY <2>1, <2>2
<1>3. LocalsOK' /\ EndsInside' /\ ListsInside'
  BY <1>2, Visits, BoundsKept DEF TypeInv, TypeOK, LocalsOK
<1> QED
  BY <1>1, <1>2, <1>3 DEF TypeInv, TypeOK

LEMMA RollType ==
    ASSUME InvoiceAssumption, TypeInv, NEW j \in Jobs, NEW i \in Invoices, Roll(j, i)
    PROVE  TypeInv'
<1> USE DEF Roll
<1>1. i[1] \in Customers /\ i[2] \in Cycles /\ i[2] < LastCycle
  BY DEF TypeInv, ListsInside, Invoices
<1>2. i[2] + 1 \in Cycles
  BY <1>1, InvoiceAssumption DEF Cycles, InvoiceAssumption
<1>3. RowsOK' /\ CountersOK'
  <2>1. CASE StillRead(i)
    <3>1. /\ period' = [period EXCEPT ![i[1]] = i[2] + 1]
          /\ ended' = [ended EXCEPT ![i[1]] = FALSE]
          /\ rolls' = [rolls EXCEPT ![i] = @ + 1]
      BY <2>1
    <3>2. period' \in [Customers -> Cycles] /\ ended' \in [Customers -> BOOLEAN]
      BY <3>1, <1>2 DEF TypeInv, TypeOK, RowsOK
    <3>3. rolls \in [Invoices -> Nat]
      BY DEF TypeInv, TypeOK, CountersOK
    <3>4. rolls' \in [Invoices -> Nat]
      BY ONLY <3>1, <3>3, i \in Invoices
    <3> QED
      BY <3>2, <3>4 DEF TypeInv, TypeOK, RowsOK, CountersOK
  <2>2. CASE ~StillRead(i)
    BY <2>2 DEF TypeInv, TypeOK, RowsOK, CountersOK
  <2> QED
    BY <2>1, <2>2
<1>4. /\ pc' \in [Procs -> PCs] /\ at' \in [Procs -> Invoices \cup {Nobody}]
      /\ Working'
  <2>1. CASE StillRead(i)
    BY <2>1, TakesUp, Labels DEF Procs
  <2>2. CASE ~StillRead(i)
    BY <2>2 DEF TypeInv, TypeOK, LocalsOK, Working
  <2> QED
    BY <2>1, <2>2
<1>5. LocalsOK' /\ ListsInside'
  BY <1>4, Visits DEF TypeInv, TypeOK, LocalsOK, ListsInside
<1>6. EndsInside'
  BY <1>1 DEF TypeInv, TypeOK, RowsOK, EndsInside
<1> QED
  BY <1>3, <1>4, <1>5, <1>6 DEF TypeInv, TypeOK

----------------------------------------------------------------------------
(* Frames for the statements on one invoice.                               *)

LEMMA Updated ==
    ASSUME NEW S, NEW T, NEW f \in [S -> T], NEW x, NEW y \in T
    PROVE  [f EXCEPT ![x] = y] \in [S -> T]
  OBVIOUS

LEMMA CountedUp ==
    ASSUME NEW S, NEW f \in [S -> Nat], NEW x \in S
    PROVE  [f EXCEPT ![x] = @ + 1] \in [S -> Nat]
  OBVIOUS

LEMMA WorksOn ==
    ASSUME TypeInv, NEW p \in Procs, pc[p] \in WorkPCs
    PROVE  at[p] \in Invoices /\ at[p][1] \in Customers /\ at[p][2] \in Cycles
  BY DEF TypeInv, Working, Invoices

LEMMA RowsKept ==
    ASSUME TypeInv, UNCHANGED <<subscription, used, row>>
    PROVE  RowsOK'
  BY DEF TypeInv, TypeOK, RowsOK

LEMMA CountersKept ==
    ASSUME TypeInv, UNCHANGED <<history, bounds>>
    PROVE  CountersOK'
  BY DEF TypeInv, TypeOK, CountersOK

LEMMA LocalsTyped ==
    ASSUME TypeInv,
           pc' \in [Procs -> PCs], at' \in [Procs -> Invoices \cup {Nobody}],
           amount' \in [Procs -> Nat], seen' \in [Jobs -> [tries : Nat, begun : Nat]],
           UNCHANGED <<phase, ran, todo>>
    PROVE  LocalsOK'
  BY DEF TypeInv, TypeOK, LocalsOK

LEMMA LocalTypes ==
    ASSUME TypeInv
    PROVE  /\ amount \in [Procs -> Nat] /\ seen \in [Jobs -> [tries : Nat, begun : Nat]]
           /\ pc \in [Procs -> PCs] /\ at \in [Procs -> Invoices \cup {Nobody}]
           /\ todo \in [Jobs -> SUBSET Invoices]
  BY DEF TypeInv, TypeOK, LocalsOK

LEMMA GeneratedMoves ==
    ASSUME TypeInv, NEW p \in Procs, NEW sum, pc[p] \in WorkPCs, Generated(p, sum)
    PROVE  /\ pc' \in [Procs -> PCs] /\ at' \in [Procs -> Invoices \cup {Nobody}]
           /\ Working'
<1>1. CASE p \in Jobs /\ ToPay(sum)
  <2>1. Goto(p, "charge") /\ UNCHANGED at
    BY <1>1 DEF Generated
  <2> QED
    BY <2>1, GoesOn, Labels
<1>2. CASE ~(p \in Jobs /\ ToPay(sum))
  BY <1>2, Leaves DEF Generated
<1> QED
  BY <1>1, <1>2

LEMMA Forgets == Forgotten \in [tries : Nat, begun : Nat]
  BY DEF Forgotten

LEMMA ChargedMoves ==
    ASSUME TypeInv, NEW j \in Jobs, NEW paid \in BOOLEAN, pc[j] \in WorkPCs,
           Charged(j, paid)
    PROVE  /\ pc' \in [Procs -> PCs] /\ at' \in [Procs -> Invoices \cup {Nobody}]
           /\ Working' /\ seen' \in [Jobs -> [tries : Nat, begun : Nat]]
<1> j \in Procs
  BY DEF Procs
<1>1. CASE phase[j] = "retry" /\ ~paid
  <2>1. Goto(j, "resched") /\ UNCHANGED <<at, seen>>
    BY <1>1 DEF Charged
  <2> QED
    BY <2>1, GoesOn, Labels, LocalTypes
<1>2. CASE ~(phase[j] = "retry" /\ ~paid)
  <2>1. Leave(j) /\ seen' = [seen EXCEPT ![j] = Forgotten]
    BY <1>2 DEF Charged
  <2> QED
    BY <2>1, Leaves, Forgets, Updated, LocalTypes
<1> QED
  BY <1>1, <1>2

----------------------------------------------------------------------------
(* Generation and charge.                                                  *)

LEMMA FindExistingType ==
    ASSUME TypeInv, NEW p \in Procs, FindExisting(p) PROVE TypeInv'
<1> USE DEF FindExisting
<1>1. pc[p] \in WorkPCs
  BY Labels
<1>2. /\ pc' \in [Procs -> PCs] /\ at' \in [Procs -> Invoices \cup {Nobody}]
      /\ Working'
  BY <1>1, GeneratedMoves, GoesOn, Labels
<1>3. RowsOK' /\ CountersOK' /\ LocalsOK'
  BY <1>2, RowsKept, CountersKept, LocalsTyped, LocalTypes
<1>4. EndsInside' /\ ListsInside'
  BY BoundsKept
<1> QED
  BY <1>2, <1>3, <1>4 DEF TypeInv, TypeOK

LEMMA ReadUsageType ==
    ASSUME InvoiceAssumption, TypeInv, NEW p \in Procs, ReadUsage(p) PROVE TypeInv'
<1> USE DEF ReadUsage
<1>1. pc[p] \in WorkPCs
  BY Labels
<1>2. /\ pc' \in [Procs -> PCs] /\ at' \in [Procs -> Invoices \cup {Nobody}]
      /\ Working'
  BY <1>1, GoesOn, Labels
<1>3. Billable(used[at[p]]) \in Nat
  <2>1. used[at[p]] \in Nat
    BY <1>1, WorksOn DEF TypeInv, TypeOK, RowsOK
  <2> QED
    BY <2>1, InvoiceAssumption DEF Billable, InvoiceAssumption
<1>4. amount' \in [Procs -> Nat]
  BY <1>3, Updated, LocalTypes
<1>5. RowsOK' /\ CountersOK' /\ LocalsOK'
  BY <1>2, <1>4, RowsKept, CountersKept, LocalsTyped, LocalTypes
<1>6. EndsInside' /\ ListsInside'
  BY BoundsKept
<1> QED
  BY <1>2, <1>5, <1>6 DEF TypeInv, TypeOK

LEMMA CreateInvoiceType ==
    ASSUME TypeInv, NEW p \in Procs, CreateInvoice(p) PROVE TypeInv'
<1> USE DEF CreateInvoice
<1>1. pc[p] \in WorkPCs
  BY Labels
<1>2. /\ pc' \in [Procs -> PCs] /\ at' \in [Procs -> Invoices \cup {Nobody}]
      /\ Working'
  BY <1>1, GeneratedMoves, Leaves
<1>3. amount' \in [Procs -> Nat]
  BY Updated, LocalTypes
<1>4. state' \in [Invoices -> InvoiceStates] /\ total' \in [Invoices -> Nat]
  <2>1. /\ state \in [Invoices -> InvoiceStates] /\ total \in [Invoices -> Nat]
        /\ "open" \in InvoiceStates /\ amount[p] \in Nat
    BY DEF TypeInv, TypeOK, RowsOK, LocalsOK, InvoiceStates
  <2> QED
    BY <2>1, Updated
<1>5. RowsOK' /\ CountersOK' /\ LocalsOK'
  BY <1>2, <1>3, <1>4, CountersKept, LocalsTyped, LocalTypes DEF TypeInv, TypeOK, RowsOK
<1>6. EndsInside' /\ ListsInside'
  BY BoundsKept
<1> QED
  BY <1>2, <1>5, <1>6 DEF TypeInv, TypeOK

LEMMA ReadForChargeType ==
    ASSUME TypeInv, NEW j \in Jobs, ReadForCharge(j) PROVE TypeInv'
<1> USE DEF ReadForCharge
<1>1. j \in Procs /\ pc[j] \in WorkPCs
  BY Labels DEF Procs
<1>2. /\ pc' \in [Procs -> PCs] /\ at' \in [Procs -> Invoices \cup {Nobody}]
      /\ Working' /\ seen' \in [Jobs -> [tries : Nat, begun : Nat]]
  BY <1>1, ChargedMoves, GoesOn, Labels, LocalTypes
<1>3. RowsOK' /\ CountersOK' /\ LocalsOK'
  BY <1>2, RowsKept, CountersKept, LocalsTyped, LocalTypes
<1>4. EndsInside' /\ ListsInside'
  BY BoundsKept
<1> QED
  BY <1>2, <1>3, <1>4 DEF TypeInv, TypeOK

LEMMA ClaimInvoiceType ==
    ASSUME TypeInv, NEW j \in Jobs, ClaimInvoice(j) PROVE TypeInv'
<1> USE DEF ClaimInvoice
<1>1. j \in Procs /\ pc[j] \in WorkPCs
  BY Labels DEF Procs
<1>2. /\ pc' \in [Procs -> PCs] /\ at' \in [Procs -> Invoices \cup {Nobody}]
      /\ Working' /\ seen' \in [Jobs -> [tries : Nat, begun : Nat]]
  BY <1>1, ChargedMoves, GoesOn, Labels, LocalTypes
<1>3. RowsOK'
  <2>1. state' \in [Invoices -> InvoiceStates]
    BY DEF TypeInv, TypeOK, RowsOK, InvoiceStates
  <2> QED
    BY <2>1 DEF TypeInv, TypeOK, RowsOK
<1>4. CountersOK' /\ LocalsOK'
  BY <1>2, CountersKept, LocalsTyped, LocalTypes
<1>5. EndsInside' /\ ListsInside'
  BY BoundsKept
<1> QED
  BY <1>2, <1>3, <1>4, <1>5 DEF TypeInv, TypeOK

LEMMA GatewayType ==
    ASSUME TypeInv, NEW j \in Jobs,
           GatewayCaptures(j) \/ GatewayDeclines(j) \/ GatewayCapturesLate(j)
    PROVE  TypeInv'
<1> USE DEF GatewayCaptures, GatewayDeclines, GatewayCapturesLate, AfterDecline, Asked
<1>1. j \in Procs /\ pc[j] \in WorkPCs
  BY Labels DEF Procs
<1>2. /\ pc' \in [Procs -> PCs] /\ at' \in [Procs -> Invoices \cup {Nobody}]
      /\ Working'
  BY <1>1, GoesOn, Labels
<1>3. CountersOK'
  <2>1. asked' \in [Invoices -> Nat] /\ taken' \in [Invoices -> Nat]
    <3>1. asked \in [Invoices -> Nat] /\ taken \in [Invoices -> Nat]
      BY DEF TypeInv, TypeOK, CountersOK
    <3> QED
      BY <1>1, <3>1, CountedUp, WorksOn
  <2>2. lost' \in Nat
    BY DEF TypeInv, TypeOK, CountersOK
  <2> QED
    BY <2>1, <2>2 DEF TypeInv, TypeOK, CountersOK
<1>4. RowsOK' /\ LocalsOK'
  BY <1>2, RowsKept, LocalsTyped, LocalTypes
<1>5. EndsInside' /\ ListsInside'
  BY BoundsKept
<1> QED
  BY <1>2, <1>3, <1>4, <1>5 DEF TypeInv, TypeOK

LEMMA MarkPaidType == ASSUME TypeInv, NEW j \in Jobs, MarkPaid(j) PROVE TypeInv'
<1> USE DEF MarkPaid
<1>1. j \in Procs /\ pc[j] \in WorkPCs
  BY Labels DEF Procs
<1>2. /\ pc' \in [Procs -> PCs] /\ at' \in [Procs -> Invoices \cup {Nobody}]
      /\ Working'
  BY <1>1, GoesOn, Labels
<1>3. RowsOK'
  <2>1. /\ state \in [Invoices -> InvoiceStates] /\ retryIn \in [Invoices -> Int]
        /\ "paid" \in InvoiceStates /\ Never \in Int
    BY DEF TypeInv, TypeOK, RowsOK, InvoiceStates, Never
  <2>2. state' \in [Invoices -> InvoiceStates] /\ retryIn' \in [Invoices -> Int]
    BY <2>1, Updated
  <2> QED
    BY <2>2 DEF TypeInv, TypeOK, RowsOK
<1>4. CountersOK' /\ LocalsOK'
  BY <1>2, CountersKept, LocalsTyped, LocalTypes
<1>5. EndsInside' /\ ListsInside'
  BY BoundsKept
<1> QED
  BY <1>2, <1>3, <1>4, <1>5 DEF TypeInv, TypeOK

LEMMA ClearDunningType == ASSUME TypeInv, NEW j \in Jobs, ClearDunning(j) PROVE TypeInv'
<1> USE DEF ClearDunning
<1>1. j \in Procs /\ pc[j] \in WorkPCs
  BY Labels DEF Procs
<1>2. /\ pc' \in [Procs -> PCs] /\ at' \in [Procs -> Invoices \cup {Nobody}]
      /\ Working' /\ seen' \in [Jobs -> [tries : Nat, begun : Nat]]
  BY <1>1, ChargedMoves
<1>3. RowsOK'
  <2>1. account' \in [Customers -> Account] /\ grace' \in [Customers -> Int]
    <3>1. /\ account \in [Customers -> Account] /\ grace \in [Customers -> Int]
          /\ "ACTIVE" \in Account /\ Passed \in Int
      BY DEF TypeInv, TypeOK, RowsOK, Account, Passed
    <3>2. CASE account[at[j][1]] = "PAST_DUE"
      BY <3>1, <3>2, Updated
    <3>3. CASE account[at[j][1]] # "PAST_DUE"
      BY <3>1, <3>3
    <3> QED
      BY <3>2, <3>3
  <2> QED
    BY <2>1 DEF TypeInv, TypeOK, RowsOK
<1>4. CountersOK' /\ LocalsOK'
  BY <1>2, CountersKept, LocalsTyped, LocalTypes
<1>5. EndsInside' /\ ListsInside'
  BY BoundsKept
<1> QED
  BY <1>2, <1>3, <1>4, <1>5 DEF TypeInv, TypeOK

(* The first slot of the schedule, and the slots after it. *)
LEMMA FirstSlot == ASSUME InvoiceAssumption PROVE Schedule[1] \in Nat
  BY InvoiceAssumption DEF InvoiceAssumption

LEMMA SlotsAreDays ==
    ASSUME InvoiceAssumption, NEW n \in Nat, NEW d \in Nat
    PROVE  NextSlot(n, d) \in Int
<1>1. CASE n < Len(Schedule)
  <2>1. Schedule[n + 1] \in Nat
    BY <1>1, InvoiceAssumption DEF InvoiceAssumption
  <2> QED
    BY <1>1, <2>1 DEF NextSlot, DaysUntil, Passed
<1>2. CASE ~(n < Len(Schedule))
  BY <1>2 DEF NextSlot, Never
<1> QED
  BY <1>1, <1>2

LEMMA DunInvoiceTypes ==
    ASSUME InvoiceAssumption, TypeInv, NEW i \in Invoices, DunInvoice(i)
    PROVE  /\ state' \in [Invoices -> InvoiceStates] /\ retryIn' \in [Invoices -> Int]
           /\ begun' \in [Invoices -> Nat] /\ tries' \in [Invoices -> Nat]
<1>1. Schedule[1] \in Nat /\ Unpaid \in InvoiceStates
  BY FirstSlot DEF Unpaid, InvoiceStates
<1> QED
  BY <1>1 DEF DunInvoice, TypeInv, TypeOK, RowsOK

LEMMA DunAccountTypes ==
    ASSUME InvoiceAssumption, TypeInv, NEW c \in Customers, DunAccount(c)
    PROVE  account' \in [Customers -> Account] /\ grace' \in [Customers -> Int]
  BY InvoiceAssumption DEF InvoiceAssumption, DunAccount, TypeInv, TypeOK, RowsOK, Account

LEMMA EnterDunningType ==
    ASSUME InvoiceAssumption, TypeInv, NEW j \in Jobs, EnterDunning(j) PROVE TypeInv'
<1> USE DEF EnterDunning
<1>1. j \in Procs /\ pc[j] \in WorkPCs
  BY Labels DEF Procs
<1>2. /\ pc' \in [Procs -> PCs] /\ at' \in [Procs -> Invoices \cup {Nobody}]
      /\ Working' /\ seen' \in [Jobs -> [tries : Nat, begun : Nat]]
  BY <1>1, ChargedMoves
<1>3. RowsOK'
  BY <1>1, WorksOn, DunInvoiceTypes, DunAccountTypes DEF TypeInv, TypeOK, RowsOK
<1>4. CountersOK' /\ LocalsOK'
  BY <1>2, CountersKept, LocalsTyped, LocalTypes
<1>5. EndsInside' /\ ListsInside'
  BY BoundsKept
<1> QED
  BY <1>2, <1>3, <1>4, <1>5 DEF TypeInv, TypeOK

----------------------------------------------------------------------------
(* Retry, downgrade and requests.                                          *)

LEMMA ReadForRetryType ==
    ASSUME TypeInv, NEW j \in Jobs, NEW i \in Invoices, ReadForRetry(j, i) PROVE TypeInv'
<1> USE DEF ReadForRetry
<1>1. j \in Procs
  BY DEF Procs
<1>2. /\ pc' \in [Procs -> PCs] /\ at' \in [Procs -> Invoices \cup {Nobody}]
      /\ Working'
  <2>1. CASE state[i] = "dunning"
    BY <1>1, <2>1, TakesUp, Labels
  <2>2. CASE state[i] # "dunning"
    BY <2>2 DEF TypeInv, TypeOK, LocalsOK, Working
  <2> QED
    BY <2>1, <2>2
<1>3. seen' \in [Jobs -> [tries : Nat, begun : Nat]]
  <2>1. [tries |-> tries[i], begun |-> begun[i]] \in [tries : Nat, begun : Nat]
    BY DEF TypeInv, TypeOK, RowsOK
  <2> QED
    BY <2>1, Updated, LocalTypes
<1>4. LocalsOK'
  BY <1>2, <1>3, Visits DEF TypeInv, TypeOK, LocalsOK
<1>5. RowsOK' /\ CountersOK'
  BY RowsKept, CountersKept
<1>6. EndsInside' /\ ListsInside'
  BY BoundsKept, Visits
<1> QED
  BY <1>2, <1>4, <1>5, <1>6 DEF TypeInv, TypeOK

LEMMA ReopenType == ASSUME TypeInv, NEW j \in Jobs, Reopen(j) PROVE TypeInv'
<1> USE DEF Reopen
<1>1. j \in Procs /\ pc[j] \in WorkPCs
  BY Labels DEF Procs
<1>2. /\ pc' \in [Procs -> PCs] /\ at' \in [Procs -> Invoices \cup {Nobody}]
      /\ Working'
  BY <1>1, GoesOn, Labels
<1>3. RowsOK'
  <2>1. state' \in [Invoices -> InvoiceStates]
    BY DEF TypeInv, TypeOK, RowsOK, InvoiceStates
  <2> QED
    BY <2>1 DEF TypeInv, TypeOK, RowsOK
<1>4. CountersOK'
  <2>1. reopens \in [Invoices -> Nat] /\ reopens[at[j]] \in Nat
    BY <1>1, WorksOn DEF TypeInv, TypeOK, CountersOK
  <2>2. (IF state[at[j]] = "open" THEN reopens[at[j]] ELSE reopens[at[j]] + 1) \in Nat
    BY <2>1
  <2>3. reopens' \in [Invoices -> Nat]
    BY <2>1, <2>2, Updated
  <2> QED
    BY <2>3 DEF TypeInv, TypeOK, CountersOK
<1>5. LocalsOK'
  BY <1>2, LocalsTyped, LocalTypes
<1>6. EndsInside' /\ ListsInside'
  BY BoundsKept
<1> QED
  BY <1>2, <1>3, <1>4, <1>5, <1>6 DEF TypeInv, TypeOK

LEMMA RescheduleType ==
    ASSUME InvoiceAssumption, TypeInv, NEW j \in Jobs, Reschedule(j) PROVE TypeInv'
<1> USE DEF Reschedule
<1>1. j \in Procs /\ pc[j] \in WorkPCs
  BY Labels DEF Procs
<1>2. /\ pc' \in [Procs -> PCs] /\ at' \in [Procs -> Invoices \cup {Nobody}]
      /\ Working'
  BY <1>1, Leaves
<1>3. RowsOK'
  <2>1. seen[j] \in [tries : Nat, begun : Nat]
    BY LocalTypes
  <2>2. seen[j].tries + 1 \in Nat /\ seen[j].begun \in Nat
    BY <2>1
  <2>3. NextSlot(seen[j].tries + 1, seen[j].begun) \in Int
    BY <2>2, SlotsAreDays
  <2>4. /\ state' \in [Invoices -> InvoiceStates] /\ tries' \in [Invoices -> Nat]
        /\ retryIn' \in [Invoices -> Int]
    BY <2>2, <2>3 DEF TypeInv, TypeOK, RowsOK, InvoiceStates
  <2> QED
    BY <2>4 DEF TypeInv, TypeOK, RowsOK
<1>4. seen' \in [Jobs -> [tries : Nat, begun : Nat]]
  BY Forgets, Updated, LocalTypes
<1>5. CountersOK' /\ LocalsOK'
  BY <1>2, <1>4, CountersKept, LocalsTyped, LocalTypes
<1>6. EndsInside' /\ ListsInside'
  BY BoundsKept
<1> QED
  BY <1>2, <1>3, <1>5, <1>6 DEF TypeInv, TypeOK

LEMMA SealFailedType ==
    ASSUME TypeInv, NEW j \in Jobs, NEW i \in Invoices, SealFailed(j, i) PROVE TypeInv'
<1> USE DEF SealFailed
<1>1. j \in Procs
  BY DEF Procs
<1>2. /\ pc' \in [Procs -> PCs] /\ at' \in [Procs -> Invoices \cup {Nobody}]
      /\ Working'
  BY <1>1, TakesUp, Labels
<1>3. RowsOK'
  <2>1. /\ state \in [Invoices -> InvoiceStates] /\ retryIn \in [Invoices -> Int]
        /\ "failed" \in InvoiceStates /\ Never \in Int
    BY DEF TypeInv, TypeOK, RowsOK, InvoiceStates, Never
  <2>2. state' \in [Invoices -> InvoiceStates]
    BY <2>1
  <2>3. retryIn' \in [Invoices -> Int]
    BY <2>1
  <2> QED
    BY <2>2, <2>3 DEF TypeInv, TypeOK, RowsOK
<1>4. LocalsOK'
  BY <1>2, Visits DEF TypeInv, TypeOK, LocalsOK
<1>5. CountersOK'
  BY CountersKept
<1>6. EndsInside' /\ ListsInside'
  BY BoundsKept, Visits
<1> QED
  BY <1>2, <1>3, <1>4, <1>5, <1>6 DEF TypeInv, TypeOK

LEMMA ResetAccountType == ASSUME TypeInv, NEW j \in Jobs, ResetAccount(j) PROVE TypeInv'
<1> USE DEF ResetAccount
<1>1. j \in Procs /\ pc[j] \in WorkPCs
  BY Labels DEF Procs
<1>2. /\ pc' \in [Procs -> PCs] /\ at' \in [Procs -> Invoices \cup {Nobody}]
      /\ Working'
  BY <1>1, Leaves
<1>3. RowsOK'
  <2>1. /\ account \in [Customers -> Account] /\ grace \in [Customers -> Int]
        /\ {"ACTIVE", "CANCELED"} \subseteq Account /\ Passed \in Int
    BY DEF TypeInv, TypeOK, RowsOK, Account, Passed
  <2>2. (IF at[j][1] \in Cancelling THEN "CANCELED" ELSE "ACTIVE") \in Account
    BY <2>1
  <2>3. account' \in [Customers -> Account] /\ grace' \in [Customers -> Int]
    BY <2>1, <2>2, Updated
  <2> QED
    BY <2>3 DEF TypeInv, TypeOK, RowsOK
<1>4. CountersOK' /\ LocalsOK'
  BY <1>2, CountersKept, LocalsTyped, LocalTypes
<1>5. EndsInside' /\ ListsInside'
  BY BoundsKept
<1> QED
  BY <1>2, <1>3, <1>4, <1>5 DEF TypeInv, TypeOK

LEMMA StartRequestType ==
    ASSUME TypeInv, NEW r \in Reqs, NEW c \in Customers,
           StartRecording(r, c) \/ StartGenerating(r, c)
    PROVE  TypeInv'
<1> USE DEF StartRecording, StartGenerating
<1>1. r \in Procs
  BY DEF Procs
<1>2. <<c, period[c]>> \in Invoices
  BY DEF TypeInv, TypeOK, RowsOK, Invoices
<1>3. /\ pc' \in [Procs -> PCs] /\ at' \in [Procs -> Invoices \cup {Nobody}]
      /\ Working'
  BY <1>1, <1>2, TakesUp, Labels
<1>4. RowsOK' /\ CountersOK' /\ LocalsOK'
  BY <1>3, RowsKept, CountersKept, LocalsTyped, LocalTypes
<1>5. EndsInside' /\ ListsInside'
  BY BoundsKept
<1> QED
  BY <1>3, <1>4, <1>5 DEF TypeInv, TypeOK

LEMMA RecordUsageType == ASSUME TypeInv, NEW r \in Reqs, RecordUsage(r) PROVE TypeInv'
<1> USE DEF RecordUsage
<1>1. r \in Procs /\ pc[r] \in WorkPCs
  BY Labels DEF Procs
<1>2. /\ pc' \in [Procs -> PCs] /\ at' \in [Procs -> Invoices \cup {Nobody}]
      /\ Working'
  BY <1>1, Leaves
<1>3. RowsOK'
  <2>1. used \in [Invoices -> Nat]
    BY DEF TypeInv, TypeOK, RowsOK
  <2>2. used' \in [Invoices -> Nat]
    BY <2>1, <1>1, CountedUp, WorksOn
  <2> QED
    BY <2>2 DEF TypeInv, TypeOK, RowsOK
<1>4. CountersOK' /\ LocalsOK'
  BY <1>2, CountersKept, LocalsTyped, LocalTypes
<1>5. EndsInside' /\ ListsInside'
  BY BoundsKept
<1> QED
  BY <1>2, <1>3, <1>4, <1>5 DEF TypeInv, TypeOK

LEMMA NoticeType ==
    ASSUME InvoiceAssumption, TypeInv, NEW r \in Reqs, NEW c \in Customers,
           PaymentFailedNotice(r, c)
    PROVE  TypeInv'
<1> USE DEF PaymentFailedNotice
<1>1. /\ pc' \in [Procs -> PCs] /\ at' \in [Procs -> Invoices \cup {Nobody}]
      /\ Working'
  BY Rests, Labels DEF Procs
<1>2. RowsOK'
  BY DunAccountTypes DEF TypeInv, TypeOK, RowsOK
<1>3. CountersOK' /\ LocalsOK'
  BY <1>1, CountersKept, LocalsTyped, LocalTypes
<1>4. EndsInside' /\ ListsInside'
  BY BoundsKept
<1> QED
  BY <1>1, <1>2, <1>3, <1>4 DEF TypeInv, TypeOK

----------------------------------------------------------------------------
(* Failures.                                                               *)

LEMMA FaultCounted ==
    ASSUME TypeInv, Fault, UNCHANGED <<history, crashes, lost>>
    PROVE  CountersOK'
  BY DEF TypeInv, TypeOK, CountersOK, Fault

LEMMA WorkFailsType == ASSUME TypeInv, NEW p \in Procs, WorkFails(p) PROVE TypeInv'
<1> USE DEF WorkFails
<1>1. /\ pc' \in [Procs -> PCs] /\ at' \in [Procs -> Invoices \cup {Nobody}]
      /\ Working'
  BY Leaves
<1>2. amount' \in [Procs -> Nat] /\ seen' \in [Jobs -> [tries : Nat, begun : Nat]]
  BY Updated, Forgets, LocalTypes
<1>3. RowsOK' /\ CountersOK' /\ LocalsOK'
  BY <1>1, <1>2, RowsKept, FaultCounted, LocalsTyped
<1>4. EndsInside' /\ ListsInside'
  BY BoundsKept
<1> QED
  BY <1>1, <1>3, <1>4 DEF TypeInv, TypeOK

LEMMA VisitFailsType ==
    ASSUME TypeInv, NEW j \in Jobs, NEW i \in Invoices, VisitFails(j, i) PROVE TypeInv'
<1> USE DEF VisitFails
<1>1. RowsOK' /\ CountersOK'
  BY RowsKept, FaultCounted
<1>2. LocalsOK' /\ Working'
  BY Visits DEF TypeInv, TypeOK, LocalsOK, Working
<1>3. EndsInside' /\ ListsInside'
  BY BoundsKept, Visits
<1> QED
  BY <1>1, <1>2, <1>3 DEF TypeInv, TypeOK

LEMMA RunFailsType == ASSUME TypeInv, NEW j \in Jobs, RunFails(j) PROVE TypeInv'
<1> USE DEF RunFails
<1>1. /\ pc' \in [Procs -> PCs] /\ at' \in [Procs -> Invoices \cup {Nobody}]
      /\ Working'
  BY ProcessMoves, Labels DEF Procs, Goto, TakeUp
<1>2. /\ todo' \in [Jobs -> SUBSET Invoices]
      /\ \A k \in Jobs : todo'[k] \subseteq todo[k]
  BY LocalTypes
<1>3. LocalsOK'
  BY <1>1, <1>2 DEF TypeInv, TypeOK, LocalsOK
<1>4. RowsOK' /\ CountersOK'
  BY RowsKept, FaultCounted
<1>5. EndsInside' /\ ListsInside'
  BY <1>2, BoundsKept
<1> QED
  BY <1>1, <1>3, <1>4, <1>5 DEF TypeInv, TypeOK

LEMMA AccountingFailsType ==
    ASSUME TypeInv, NEW j \in Jobs, AccountingFails(j) PROVE TypeInv'
<1> USE DEF AccountingFails
<1>1. j \in Procs /\ pc[j] \in WorkPCs
  BY Labels DEF Procs
<1>2. /\ pc' \in [Procs -> PCs] /\ at' \in [Procs -> Invoices \cup {Nobody}]
      /\ Working'
  BY <1>1, GoesOn, Labels
<1>3. RowsOK' /\ CountersOK' /\ LocalsOK'
  BY <1>2, RowsKept, FaultCounted, LocalsTyped, LocalTypes
<1>4. EndsInside' /\ ListsInside'
  BY BoundsKept
<1> QED
  BY <1>2, <1>3, <1>4 DEF TypeInv, TypeOK

LEMMA DunningFailsType ==
    ASSUME InvoiceAssumption, TypeInv, NEW j \in Jobs, DunningFails(j) PROVE TypeInv'
<1> USE DEF DunningFails
<1>1. j \in Procs /\ pc[j] \in WorkPCs
  BY Labels DEF Procs
<1>2. /\ pc' \in [Procs -> PCs] /\ at' \in [Procs -> Invoices \cup {Nobody}]
      /\ Working'
  BY <1>1, Leaves
<1>3. RowsOK'
  <2>1. /\ state' \in [Invoices -> InvoiceStates] /\ retryIn' \in [Invoices -> Int]
        /\ begun' \in [Invoices -> Nat] /\ tries' \in [Invoices -> Nat]
    BY <1>1, WorksOn, DunInvoiceTypes DEF TypeInv, TypeOK, RowsOK
  <2>2. account' \in [Customers -> Account] /\ grace' \in [Customers -> Int]
    BY <1>1, WorksOn, DunAccountTypes DEF TypeInv, TypeOK, RowsOK
  <2> QED
    BY <2>1, <2>2 DEF TypeInv, TypeOK, RowsOK
<1>4. seen' \in [Jobs -> [tries : Nat, begun : Nat]]
  BY Forgets, Updated, LocalTypes
<1>5. CountersOK' /\ LocalsOK'
  BY <1>2, <1>4, FaultCounted, LocalsTyped, LocalTypes
<1>6. EndsInside' /\ ListsInside'
  BY BoundsKept
<1> QED
  BY <1>2, <1>3, <1>5, <1>6 DEF TypeInv, TypeOK

LEMMA CrashType == ASSUME TypeInv, CrashAndRestart PROVE TypeInv'
<1> USE DEF CrashAndRestart
<1>1. pc' \in [Procs -> PCs] /\ Working'
  <2>1. \A p \in Procs : pc'[p] \in PCs /\ pc'[p] \notin WorkPCs
    BY Labels, LocalTypes DEF InFlight, WorkPCs
  <2> QED
    BY <2>1 DEF Working
<1>2. at' \in [Procs -> Invoices \cup {Nobody}] /\ amount' \in [Procs -> Nat]
  OBVIOUS
<1>3. /\ todo' \in [Jobs -> SUBSET Invoices]
      /\ \A j \in Jobs : todo'[j] \subseteq todo[j]
  OBVIOUS
<1>4. seen' \in [Jobs -> [tries : Nat, begun : Nat]]
  BY Forgets
<1>5. LocalsOK'
  BY <1>1, <1>2, <1>3, <1>4 DEF TypeInv, TypeOK, LocalsOK
<1>6. RowsOK' /\ CountersOK'
  BY RowsKept DEF TypeInv, TypeOK, CountersOK
<1>7. EndsInside' /\ ListsInside'
  BY <1>3, BoundsKept
<1> QED
  BY <1>1, <1>5, <1>6, <1>7 DEF TypeInv, TypeOK

LEMMA StutterType == ASSUME TypeInv, UNCHANGED vars PROVE TypeInv'
  BY DEF vars, TypeInv, TypeOK, RowsOK, LocalsOK, CountersOK, Working, EndsInside,
         ListsInside

LEMMA NextTypeInv ==
    ASSUME InvoiceAssumption, TypeInv, [Next]_vars
    PROVE  TypeInv'
<1>1. CASE \E c \in Customers : PeriodEnds(c)
  BY <1>1, PeriodEndsType
<1>2. CASE NextDay
  BY <1>2, NextDayType
<1>3. ASSUME NEW p \in Procs, GenerateStep(p) PROVE TypeInv'
  BY <1>3, FindExistingType, ReadUsageType, CreateInvoiceType DEF GenerateStep
<1>4. ASSUME NEW j \in Jobs, ChargeStep(j) PROVE TypeInv'
  BY <1>4, ReadForChargeType, ClaimInvoiceType, GatewayType, MarkPaidType,
     ClearDunningType, EnterDunningType DEF ChargeStep
<1>5. ASSUME NEW j \in Jobs, StartJob(j) \/ JobStep(j) PROVE TypeInv'
  <2>1. CASE StartJob(j)
    BY <2>1, StartJobType
  <2>2. CASE StartRetries(j) \/ StartDowngrades(j) \/ FinishJob(j)
    BY <2>2, StartLoopType
  <2>3. ASSUME NEW i \in Invoices,
               CancelAtPeriodEnd(j, i) \/ Roll(j, i) \/ ReadForRetry(j, i)
                   \/ SealFailed(j, i)
        PROVE  TypeInv'
    BY <2>3, CancelType, RollType, ReadForRetryType, SealFailedType
  <2>4. CASE GenerateStep(j) \/ ChargeStep(j)
    BY <1>3, <1>4, <2>4 DEF Procs
  <2>5. CASE Reopen(j) \/ Reschedule(j) \/ ResetAccount(j)
    BY <2>5, ReopenType, RescheduleType, ResetAccountType
  <2> QED
    BY <1>5, <2>1, <2>2, <2>3, <2>4, <2>5 DEF JobStep
<1>6. ASSUME NEW r \in Reqs, RequestStep(r) PROVE TypeInv'
  <2>1. CASE GenerateStep(r)
    BY <1>3, <2>1 DEF Procs
  <2>2. CASE RecordUsage(r)
    BY <2>2, RecordUsageType
  <2>3. ASSUME NEW c \in Customers,
               StartRecording(r, c) \/ StartGenerating(r, c) \/ PaymentFailedNotice(r, c)
        PROVE  TypeInv'
    BY <2>3, StartRequestType, NoticeType
  <2> QED
    BY <1>6, <2>1, <2>2, <2>3 DEF RequestStep
<1>7. CASE Failure
  BY <1>7, WorkFailsType, VisitFailsType, RunFailsType, AccountingFailsType,
     DunningFailsType, CrashType DEF Failure
<1>8. CASE UNCHANGED vars
  BY <1>8, StutterType
<1> QED
  BY <1>1, <1>2, <1>5, <1>6, <1>7, <1>8 DEF Next

THEOREM InvoiceTypeInvariant == Spec => []TypeInv
<1>1. Init => TypeInv
  BY InitTypeInv, InvoiceAssumption
<1>2. TypeInv /\ [Next]_vars => TypeInv'
  BY NextTypeInv, InvoiceAssumption
<1> QED
  BY <1>1, <1>2, PTL DEF Spec

(* Every variable keeps its type, whatever the runs of the instances, the  *)
(* requests and the failures do to the rows and to each other's work.      *)
THEOREM InvoiceTypeCorrect == Spec => []TypeOK
<1>1. TypeInv => TypeOK
  BY DEF TypeInv
<1> QED
  BY <1>1, InvoiceTypeInvariant, PTL

----------------------------------------------------------------------------
(* A cycle is closed once.                                                 *)

LEMMA OnlyRollCloses ==
    ASSUME [Next]_vars
    PROVE  UNCHANGED <<period, rolls>> \/ \E j \in Jobs : \E i \in Invoices : Roll(j, i)
<1>1. CASE (\E c \in Customers : PeriodEnds(c)) \/ NextDay \/ UNCHANGED vars
  BY <1>1 DEF PeriodEnds, NextDay, vars
<1>2. ASSUME NEW p \in Procs, GenerateStep(p) PROVE UNCHANGED <<period, rolls>>
  BY <1>2 DEF GenerateStep, FindExisting, ReadUsage, CreateInvoice
<1>3. ASSUME NEW j \in Jobs, ChargeStep(j) PROVE UNCHANGED <<period, rolls>>
  BY <1>3 DEF ChargeStep, ReadForCharge, ClaimInvoice, GatewayCaptures, GatewayDeclines,
              GatewayCapturesLate, MarkPaid, ClearDunning, EnterDunning
<1>4. ASSUME NEW j \in Jobs, StartJob(j) \/ JobStep(j),
             ~ \E i \in Invoices : Roll(j, i)
      PROVE  UNCHANGED <<period, rolls>>
  BY <1>2, <1>3, <1>4
     DEF Procs, JobStep, StartJob, StartRetries, StartDowngrades, FinishJob,
         CancelAtPeriodEnd, ReadForRetry, SealFailed, Reopen, Reschedule, ResetAccount
<1>5. ASSUME NEW r \in Reqs, RequestStep(r) PROVE UNCHANGED <<period, rolls>>
  BY <1>2, <1>5 DEF Procs, RequestStep, StartRecording, StartGenerating,
                    PaymentFailedNotice, RecordUsage
<1>6. CASE Failure
  BY <1>6 DEF Failure, WorkFails, VisitFails, RunFails, AccountingFails, DunningFails,
              CrashAndRestart
<1> QED
  BY <1>1, <1>4, <1>5, <1>6 DEF Next

(* However many instances run at once, and wherever one of them stops, a   *)
(* cycle is closed at most once, and a closed one by exactly one run.      *)
THEOREM InvoiceCycleClosesOnce == Spec => []CycleClosesOnce
<1>1. Init => CycleClosesOnce
  BY DEF Init, CycleClosesOnce, Invoices, Cycles
<1>2. ASSUME TypeInv, CycleClosesOnce, [Next]_vars PROVE CycleClosesOnce'
  <2>1. CASE UNCHANGED <<period, rolls>>
    BY <1>2, <2>1 DEF CycleClosesOnce
  <2>2. ASSUME NEW j \in Jobs, NEW i \in Invoices, Roll(j, i) PROVE CycleClosesOnce'
    <3> SUFFICES ASSUME NEW k \in Invoices
                 PROVE  rolls'[k] = IF k[2] < period'[k[1]] THEN 1 ELSE 0
      BY DEF CycleClosesOnce
    <3>1. /\ rolls[k] = IF k[2] < period[k[1]] THEN 1 ELSE 0
          /\ rolls[i] = IF i[2] < period[i[1]] THEN 1 ELSE 0
      BY <1>2 DEF CycleClosesOnce
    <3>2. CASE ~StillRead(i)
      BY <2>2, <3>1, <3>2 DEF Roll
    <3>3. CASE StillRead(i)
      <4>1. /\ period' = [period EXCEPT ![i[1]] = i[2] + 1]
            /\ rolls' = [rolls EXCEPT ![i] = @ + 1]
            /\ period[i[1]] = i[2]
        BY <2>2, <3>3 DEF Roll, StillRead
      <4>2. /\ period \in [Customers -> Cycles] /\ rolls \in [Invoices -> Nat]
            /\ i[1] \in Customers /\ k[1] \in Customers
            /\ i[2] \in Int /\ k[2] \in Int
            /\ i = <<i[1], i[2]>> /\ k = <<k[1], k[2]>>
        BY <1>2 DEF TypeInv, TypeOK, RowsOK, CountersOK, Invoices, Cycles
      <4>3. CASE k[1] # i[1]
        BY <3>1, <4>1, <4>2, <4>3
      <4>4. CASE k[1] = i[1] /\ k[2] # i[2]
        BY <3>1, <4>1, <4>2, <4>4
      <4>5. CASE k = i
        BY <3>1, <4>1, <4>2, <4>5
      <4> QED
        BY <4>2, <4>3, <4>4, <4>5
    <3> QED
      BY <3>2, <3>3
  <2> QED
    BY <1>2, <2>1, <2>2, OnlyRollCloses
<1>3. TypeInv /\ CycleClosesOnce /\ [Next]_vars => CycleClosesOnce'
  BY <1>2
<1> QED
  BY <1>1, <1>3, InvoiceTypeInvariant, PTL DEF Spec

----------------------------------------------------------------------------
(* The gateway is asked once for each time an invoice could be claimed.    *)

(* What most steps leave alone: nobody claims an invoice, none becomes     *)
(* claimable, and nobody asks the gateway.                                 *)
NobodyClaims ==
    \A k \in Jobs : pc'[k] = "gateway" => pc[k] = "gateway" /\ at'[k] = at[k]
ToClaim(s) == s \in {"none", "open"}
NoneReopened == \A i \in Invoices : ToClaim(state'[i]) => ToClaim(state[i])
Quiet == NobodyClaims /\ NoneReopened /\ UNCHANGED <<asked, reopens>>

LEMMA MovesOn ==
    ASSUME TypeInv, NEW p \in Procs, NEW label, label # "gateway",
           Goto(p, label), \A q \in Procs : q # p => at'[q] = at[q]
    PROVE  NobodyClaims
  BY LocalTypes DEF NobodyClaims, Goto, Procs

LEMMA LeavesQuietly == ASSUME TypeInv, NEW p \in Procs, Leave(p) PROVE NobodyClaims
<1>1. LoopHead(p) # "gateway"
  BY DEF LoopHead
<1> QED
  BY <1>1, MovesOn, LocalTypes DEF Leave, TakeUp

LEMMA TakesUpQuietly ==
    ASSUME TypeInv, NEW p \in Procs, NEW label, label # "gateway", NEW i,
           Goto(p, label), TakeUp(p, i)
    PROVE  NobodyClaims
  BY MovesOn, LocalTypes DEF TakeUp

LEMMA GeneratedQuietly ==
    ASSUME TypeInv, NEW p \in Procs, NEW sum, Generated(p, sum) PROVE NobodyClaims
  BY MovesOn, LeavesQuietly DEF Generated

LEMMA ChargedQuietly ==
    ASSUME TypeInv, NEW j \in Jobs, NEW paid, Charged(j, paid) PROVE NobodyClaims
  BY MovesOn, LeavesQuietly DEF Charged, Procs

LEMMA StaysQuiet == ASSUME UNCHANGED <<pc, at>> PROVE NobodyClaims
  BY DEF NobodyClaims

LEMMA StateKept == ASSUME UNCHANGED state PROVE NoneReopened
  BY DEF NoneReopened

LEMMA QuietGeneration ==
    ASSUME TypeInv, NEW p \in Procs, GenerateStep(p) PROVE Quiet
<1>1. CASE FindExisting(p)
  BY <1>1, MovesOn, GeneratedQuietly, StateKept DEF FindExisting, Quiet
<1>2. CASE ReadUsage(p)
  BY <1>2, MovesOn, StateKept DEF ReadUsage, Quiet
<1>3. CASE CreateInvoice(p)
  <2>1. NobodyClaims
    BY <1>3, GeneratedQuietly, LeavesQuietly DEF CreateInvoice
  <2>2. NoneReopened
    BY <1>3 DEF CreateInvoice, NoneReopened, ToClaim, TypeInv, TypeOK, RowsOK
  <2> QED
    BY <1>3, <2>1, <2>2 DEF CreateInvoice, Quiet
<1> QED
  BY <1>1, <1>2, <1>3 DEF GenerateStep

LEMMA QuietCharge ==
    ASSUME TypeInv, NEW j \in Jobs,
           \/ ReadForCharge(j) \/ MarkPaid(j) \/ ClearDunning(j) \/ EnterDunning(j)
           \/ Reschedule(j) \/ ResetAccount(j)
    PROVE  Quiet
<1> j \in Procs
  BY DEF Procs
<1>1. CASE ReadForCharge(j)
  BY <1>1, MovesOn, ChargedQuietly, StateKept DEF ReadForCharge, Quiet
<1>2. CASE MarkPaid(j)
  <2>1. NoneReopened
    BY <1>2 DEF MarkPaid, NoneReopened, ToClaim, TypeInv, TypeOK, RowsOK
  <2> QED
    BY <1>2, <2>1, MovesOn DEF MarkPaid, Quiet
<1>3. CASE ClearDunning(j)
  BY <1>3, ChargedQuietly, StateKept DEF ClearDunning, Quiet
<1>4. CASE EnterDunning(j)
  <2>1. NoneReopened
    BY <1>4 DEF EnterDunning, DunInvoice, Unpaid, NoneReopened, ToClaim, TypeInv, TypeOK,
                RowsOK
  <2> QED
    BY <1>4, <2>1, ChargedQuietly DEF EnterDunning, Quiet
<1>5. CASE Reschedule(j)
  <2>1. NoneReopened
    BY <1>5 DEF Reschedule, NoneReopened, ToClaim, TypeInv, TypeOK, RowsOK
  <2> QED
    BY <1>5, <2>1, LeavesQuietly DEF Reschedule, Quiet
<1>6. CASE ResetAccount(j)
  BY <1>6, LeavesQuietly, StateKept DEF ResetAccount, Quiet
<1> QED
  BY <1>1, <1>2, <1>3, <1>4, <1>5, <1>6

LEMMA QuietRun ==
    ASSUME TypeInv, NEW j \in Jobs,
           \/ StartJob(j) \/ StartRetries(j) \/ StartDowngrades(j) \/ FinishJob(j)
           \/ \E i \in Invoices : \/ CancelAtPeriodEnd(j, i) \/ Roll(j, i)
                                  \/ ReadForRetry(j, i) \/ SealFailed(j, i)
    PROVE  Quiet
<1> j \in Procs
  BY DEF Procs
<1>1. CASE StartJob(j) \/ FinishJob(j)
  BY <1>1, MovesOn, StateKept DEF StartJob, FinishJob, Quiet
<1>2. CASE StartRetries(j) \/ StartDowngrades(j)
  BY <1>2, StaysQuiet, StateKept DEF StartRetries, StartDowngrades, Quiet
<1>3. ASSUME NEW i \in Invoices, CancelAtPeriodEnd(j, i) \/ Roll(j, i) PROVE Quiet
  BY <1>3, TakesUpQuietly, StaysQuiet, StateKept DEF CancelAtPeriodEnd, Roll, Quiet
<1>4. ASSUME NEW i \in Invoices, ReadForRetry(j, i) PROVE Quiet
  BY <1>4, TakesUpQuietly, StaysQuiet, StateKept DEF ReadForRetry, Quiet
<1>5. ASSUME NEW i \in Invoices, SealFailed(j, i) PROVE Quiet
  <2>1. NoneReopened
    BY <1>5 DEF SealFailed, NoneReopened, ToClaim
  <2> QED
    BY <1>5, <2>1, TakesUpQuietly DEF SealFailed, Quiet
<1> QED
  BY <1>1, <1>2, <1>3, <1>4, <1>5

LEMMA QuietRequest ==
    ASSUME TypeInv, NEW r \in Reqs, RequestStep(r) PROVE Quiet
<1> r \in Procs
  BY DEF Procs
<1>1. CASE RecordUsage(r)
  BY <1>1, LeavesQuietly, StateKept DEF RecordUsage, Quiet
<1>2. ASSUME NEW c \in Customers, StartRecording(r, c) \/ StartGenerating(r, c)
      PROVE  Quiet
  BY <1>2, TakesUpQuietly, StateKept DEF StartRecording, StartGenerating, Quiet
<1>3. ASSUME NEW c \in Customers, PaymentFailedNotice(r, c) PROVE Quiet
  BY <1>3, MovesOn, StateKept DEF PaymentFailedNotice, Quiet
<1> QED
  BY <1>1, <1>2, <1>3, QuietGeneration DEF RequestStep

LEMMA QuietFailure == ASSUME TypeInv, Failure PROVE Quiet
<1>1. ASSUME NEW p \in Procs, WorkFails(p) PROVE Quiet
  BY <1>1, LeavesQuietly, StateKept DEF WorkFails, Quiet
<1>2. ASSUME NEW j \in Jobs, \/ \E i \in Invoices : VisitFails(j, i)
                             \/ RunFails(j) \/ AccountingFails(j)
      PROVE  Quiet
  BY <1>2, StaysQuiet, TakesUpQuietly, MovesOn, StateKept
     DEF Procs, VisitFails, RunFails, AccountingFails, Quiet
<1>3. ASSUME NEW j \in Jobs, DunningFails(j) PROVE Quiet
  <2>1. NoneReopened
    BY <1>3 DEF DunningFails, DunInvoice, Unpaid, NoneReopened, ToClaim, TypeInv, TypeOK,
                RowsOK
  <2> QED
    BY <1>3, <2>1, LeavesQuietly DEF DunningFails, Quiet, Procs
<1>4. CASE CrashAndRestart
  <2>1. NobodyClaims
    BY <1>4 DEF CrashAndRestart, NobodyClaims, InFlight, RestPCs, Procs
  <2> QED
    BY <1>4, <2>1, StateKept DEF CrashAndRestart, Quiet
<1> QED
  BY <1>1, <1>2, <1>3, <1>4 DEF Failure

LEMMA QuietOrCharge ==
    ASSUME TypeInv, [Next]_vars
    PROVE  \/ Quiet
           \/ \E j \in Jobs : \/ ClaimInvoice(j) \/ Reopen(j) \/ GatewayCaptures(j)
                              \/ GatewayDeclines(j) \/ GatewayCapturesLate(j)
<1>1. CASE (\E c \in Customers : PeriodEnds(c)) \/ NextDay \/ UNCHANGED vars
  BY <1>1, StaysQuiet, StateKept DEF PeriodEnds, NextDay, vars, Quiet
<1> QED
  BY <1>1, QuietRun, QuietGeneration, QuietCharge, QuietRequest, QuietFailure
     DEF Next, JobStep, ChargeStep, Procs

(* The invariant behind it: an invoice that can still be claimed has one   *)
(* request to the gateway left.                                            *)
Left(i) == IF ToClaim(state[i]) THEN 1 ELSE 0
ClaimsCounted ==
    \A i \in Invoices :
        /\ IsFiniteSet(AtGateway(i))
        /\ asked[i] + Cardinality(AtGateway(i)) + Left(i) <= 1 + reopens[i]

LEMMA InitClaims == ASSUME Init PROVE ClaimsCounted
<1> SUFFICES ASSUME NEW i \in Invoices
             PROVE  /\ IsFiniteSet(AtGateway(i))
                    /\ asked[i] + Cardinality(AtGateway(i)) + Left(i) <= 1 + reopens[i]
  BY DEF ClaimsCounted
<1>1. AtGateway(i) = {}
  BY DEF Init, AtGateway, Procs
<1>2. asked[i] = 0 /\ reopens[i] = 0 /\ Left(i) = 1
  BY DEF Init, Left, ToClaim
<1> QED
  BY <1>1, <1>2, FS_EmptySet

LEMMA QuietKeepsClaims ==
    ASSUME TypeInv, ClaimsCounted, Quiet
    PROVE  ClaimsCounted'
<1> SUFFICES ASSUME NEW i \in Invoices
             PROVE  /\ IsFiniteSet(AtGateway(i)')
                    /\ asked'[i] + Cardinality(AtGateway(i)') + Left(i)' <= 1 + reopens'[i]
  BY DEF ClaimsCounted
<1>1. /\ IsFiniteSet(AtGateway(i))
      /\ asked[i] + Cardinality(AtGateway(i)) + Left(i) <= 1 + reopens[i]
  BY DEF ClaimsCounted
<1>2. AtGateway(i)' \subseteq AtGateway(i)
  BY DEF Quiet, NobodyClaims, AtGateway
<1>3. /\ IsFiniteSet(AtGateway(i)') /\ Cardinality(AtGateway(i)') \in Nat
      /\ Cardinality(AtGateway(i)) \in Nat
      /\ Cardinality(AtGateway(i)') <= Cardinality(AtGateway(i))
  BY <1>1, <1>2, FS_Subset, FS_CardinalityType
<1>4. Left(i)' \in {0, 1} /\ Left(i) \in {0, 1} /\ Left(i)' <= Left(i)
  BY DEF Left, Quiet, NoneReopened
<1>5. asked[i] \in Nat /\ reopens[i] \in Nat /\ asked'[i] = asked[i] /\ reopens'[i] = reopens[i]
  BY DEF TypeInv, TypeOK, CountersOK, Quiet
<1>6. asked'[i] + Cardinality(AtGateway(i)') + Left(i)' <= 1 + reopens'[i]
  BY ONLY <1>1, <1>3, <1>4, <1>5
<1> QED
  BY <1>3, <1>6

LEMMA ReopenKeepsClaims ==
    ASSUME TypeInv, ClaimsCounted, NEW j \in Jobs, Reopen(j)
    PROVE  ClaimsCounted'
<1> SUFFICES ASSUME NEW i \in Invoices
             PROVE  /\ IsFiniteSet(AtGateway(i)')
                    /\ asked'[i] + Cardinality(AtGateway(i)') + Left(i)' <= 1 + reopens'[i]
  BY DEF ClaimsCounted
<1>1. /\ IsFiniteSet(AtGateway(i))
      /\ asked[i] + Cardinality(AtGateway(i)) + Left(i) <= 1 + reopens[i]
      /\ asked[i] \in Nat /\ reopens[i] \in Nat
  BY DEF ClaimsCounted, TypeInv, TypeOK, CountersOK
<1>2. AtGateway(i)' = AtGateway(i)
  BY LocalTypes DEF Reopen, Goto, AtGateway, Procs
<1>3. Cardinality(AtGateway(i)) \in Nat
  BY <1>1, FS_CardinalityType
<1>4. asked'[i] = asked[i] /\ Left(i)' \in {0, 1} /\ Left(i) \in {0, 1}
  BY DEF Reopen, Left
<1>5. reopens'[i] + Left(i) >= reopens[i] + Left(i)'
  <2>1. /\ state \in [Invoices -> InvoiceStates] /\ reopens \in [Invoices -> Nat]
        /\ state' = [state EXCEPT ![at[j]] = "open"]
        /\ reopens' = [reopens EXCEPT ![at[j]] =
                          IF state[at[j]] = "open" THEN reopens[at[j]] ELSE reopens[at[j]] + 1]
    BY DEF Reopen, TypeInv, TypeOK, RowsOK, CountersOK
  <2>2. CASE i # at[j]
    <3>1. state'[i] = state[i] /\ reopens'[i] = reopens[i]
      BY <2>1, <2>2
    <3> QED
      BY <3>1, <1>1 DEF Left
  <2>3. CASE i = at[j] /\ state[i] = "open"
    <3>1. state'[i] = "open" /\ reopens'[i] = reopens[i]
      BY <2>1, <2>3
    <3> QED
      BY <2>3, <3>1, <1>1 DEF Left
  <2>4. CASE i = at[j] /\ state[i] # "open"
    <3>1. reopens'[i] = reopens[i] + 1
      BY <2>1, <2>4
    <3> QED
      BY <3>1, <1>1, <1>4
  <2> QED
    BY <2>2, <2>3, <2>4
<1>6. reopens'[i] \in Int
  BY DEF Reopen, TypeInv, TypeOK, CountersOK
<1>7. asked'[i] + Cardinality(AtGateway(i)') + Left(i)' <= 1 + reopens'[i]
  <2>1. Cardinality(AtGateway(i)') = Cardinality(AtGateway(i))
    BY <1>2
  <2> QED
    BY ONLY <1>1, <1>3, <1>4, <1>5, <1>6, <2>1
<1> QED
  BY <1>1, <1>2, <1>7

LEMMA ClaimKeepsClaims ==
    ASSUME TypeInv, ClaimsCounted, NEW j \in Jobs, ClaimInvoice(j)
    PROVE  ClaimsCounted'
<1> j \in Procs
  BY DEF Procs
<1>1. CASE ~Claimable(at[j])
  <2>1. Quiet
    BY <1>1, ChargedQuietly, StateKept DEF ClaimInvoice, Quiet
  <2> QED
    BY <2>1, QuietKeepsClaims
<1>2. CASE Claimable(at[j])
  <2> SUFFICES ASSUME NEW i \in Invoices
               PROVE  /\ IsFiniteSet(AtGateway(i)')
                      /\ asked'[i] + Cardinality(AtGateway(i)') + Left(i)' <= 1 + reopens'[i]
    BY DEF ClaimsCounted
  <2>1. /\ IsFiniteSet(AtGateway(i))
        /\ asked[i] + Cardinality(AtGateway(i)) + Left(i) <= 1 + reopens[i]
        /\ asked[i] \in Nat /\ reopens[i] \in Nat
        /\ asked'[i] = asked[i] /\ reopens'[i] = reopens[i]
    BY DEF ClaimsCounted, TypeInv, TypeOK, CountersOK, ClaimInvoice
  <2>2. /\ state[at[j]] = "open" /\ state' = [state EXCEPT ![at[j]] = "processing"]
        /\ pc' = [pc EXCEPT ![j] = "gateway"] /\ pc[j] = "claim" /\ at' = at
        /\ state \in [Invoices -> InvoiceStates] /\ pc \in [Procs -> PCs]
    BY <1>2 DEF ClaimInvoice, Claimable, Goto, TypeInv, TypeOK, RowsOK, LocalsOK
  <2>3. CASE i # at[j]
    <3>1. AtGateway(i)' = AtGateway(i) /\ Left(i)' = Left(i)
      BY <2>2, <2>3 DEF AtGateway, Left, Procs
    <3> QED
      BY <2>1, <3>1
  <2>4. CASE i = at[j]
    <3>1. AtGateway(i)' = AtGateway(i) \cup {j} /\ j \notin AtGateway(i)
      BY <2>2, <2>4 DEF AtGateway, Procs
    <3>2. Left(i) = 1 /\ Left(i)' = 0
      BY <2>2, <2>4 DEF Left, ToClaim
    <3>3. /\ IsFiniteSet(AtGateway(i)') /\ Cardinality(AtGateway(i)) \in Nat
          /\ Cardinality(AtGateway(i)') = Cardinality(AtGateway(i)) + 1
      BY <2>1, <3>1, FS_AddElement, FS_CardinalityType
    <3> QED
      BY <2>1, <3>2, <3>3
  <2> QED
    BY <2>3, <2>4
<1> QED
  BY <1>1, <1>2

LEMMA AskKeepsClaims ==
    ASSUME TypeInv, ClaimsCounted, NEW j \in Jobs,
           GatewayCaptures(j) \/ GatewayDeclines(j) \/ GatewayCapturesLate(j)
    PROVE  ClaimsCounted'
<1> SUFFICES ASSUME NEW i \in Invoices
             PROVE  /\ IsFiniteSet(AtGateway(i)')
                    /\ asked'[i] + Cardinality(AtGateway(i)') + Left(i)' <= 1 + reopens'[i]
  BY DEF ClaimsCounted
<1>1. /\ asked' = [asked EXCEPT ![at[j]] = @ + 1] /\ pc[j] = "gateway"
      /\ at' = at /\ reopens' = reopens /\ state' = state
  BY DEF GatewayCaptures, GatewayDeclines, GatewayCapturesLate, Asked
<1>2. \A k \in Jobs : pc'[k] = "gateway" <=> k # j /\ pc[k] = "gateway"
  BY LocalTypes DEF GatewayCaptures, GatewayDeclines, GatewayCapturesLate, AfterDecline,
                    Goto, Procs
<1>3. /\ IsFiniteSet(AtGateway(i))
      /\ asked[i] + Cardinality(AtGateway(i)) + Left(i) <= 1 + reopens[i]
      /\ asked \in [Invoices -> Nat] /\ reopens[i] \in Nat
  BY DEF ClaimsCounted, TypeInv, TypeOK, CountersOK
<1>4. Left(i)' = Left(i) /\ Left(i) \in {0, 1}
  BY <1>1 DEF Left
<1>5. CASE i # at[j]
  <2>1. AtGateway(i)' = AtGateway(i) /\ asked'[i] = asked[i]
    BY <1>1, <1>2, <1>3, <1>5 DEF AtGateway
  <2> QED
    BY <1>1, <1>3, <1>4, <2>1
<1>6. CASE i = at[j]
  <2>1. AtGateway(i)' = AtGateway(i) \ {j} /\ j \in AtGateway(i)
    BY <1>1, <1>2, <1>6 DEF AtGateway
  <2>2. /\ IsFiniteSet(AtGateway(i)') /\ Cardinality(AtGateway(i)) \in Nat
        /\ Cardinality(AtGateway(i)') = Cardinality(AtGateway(i)) - 1
    BY <1>3, <2>1, FS_RemoveElement, FS_CardinalityType
  <2>3. asked'[i] = asked[i] + 1 /\ asked[i] \in Nat /\ reopens'[i] = reopens[i]
    BY <1>1, <1>3, <1>6
  <2>4. asked'[i] + Cardinality(AtGateway(i)') + Left(i)' <= 1 + reopens'[i]
    BY ONLY <1>3, <1>4, <2>2, <2>3
  <2> QED
    BY <2>2, <2>4
<1> QED
  BY <1>5, <1>6

(* The gateway is asked for the money of an invoice once, and once more    *)
(* for each time a retry put it back to open, however many instances run   *)
(* their jobs at once, and whatever else happens to the invoice.           *)
THEOREM InvoiceChargesFollowClaims == Spec => []ChargesFollowClaims
<1>1. Init => ClaimsCounted
  BY InitClaims
<1>2. TypeInv /\ ClaimsCounted /\ [Next]_vars => ClaimsCounted'
  BY QuietOrCharge, QuietKeepsClaims, ReopenKeepsClaims, ClaimKeepsClaims, AskKeepsClaims
<1>3. TypeInv /\ ClaimsCounted => ChargesFollowClaims
  <2> SUFFICES ASSUME TypeInv, ClaimsCounted, NEW i \in Invoices
               PROVE  asked[i] + Cardinality(AtGateway(i)) <= 1 + reopens[i]
    BY DEF ChargesFollowClaims
  <2>1. /\ IsFiniteSet(AtGateway(i))
        /\ asked[i] + Cardinality(AtGateway(i)) + Left(i) <= 1 + reopens[i]
        /\ asked[i] \in Nat /\ reopens[i] \in Nat
    BY DEF ClaimsCounted, TypeInv, TypeOK, CountersOK
  <2>2. Cardinality(AtGateway(i)) \in Nat /\ Left(i) \in {0, 1}
    BY <2>1, FS_CardinalityType DEF Left
  <2> QED
    BY ONLY <2>1, <2>2
<1> QED
  BY <1>1, <1>2, <1>3, InvoiceTypeInvariant, PTL DEF Spec

----------------------------------------------------------------------------
(* What a step leaves to the other processes, and to every row.            *)
Alone(p) ==
    \A q \in Procs \ {p} :
        /\ pc'[q] = pc[q] /\ at'[q] = at[q] /\ amount'[q] = amount[q]
        /\ q \in Jobs => phase'[q] = phase[q] /\ todo'[q] \subseteq todo[q]
Nobodys == UNCHANGED <<pc, at, amount, phase, todo>>

LEMMA MovesAlone ==
    ASSUME TypeInv, NEW p \in Procs,
           (\E l : Goto(p, l)) \/ UNCHANGED pc,
           (\E i : TakeUp(p, i)) \/ UNCHANGED at,
           (\E n : amount' = [amount EXCEPT ![p] = n]) \/ UNCHANGED amount,
           (\E f : phase' = [phase EXCEPT ![p] = f]) \/ UNCHANGED phase,
           (\E S : todo' = [todo EXCEPT ![p] = S]) \/ UNCHANGED todo
    PROVE  Alone(p)
<1> SUFFICES ASSUME NEW q \in Procs, q # p
             PROVE  /\ pc'[q] = pc[q] /\ at'[q] = at[q] /\ amount'[q] = amount[q]
                    /\ q \in Jobs => phase'[q] = phase[q] /\ todo'[q] \subseteq todo[q]
  BY DEF Alone
<1>1. pc'[q] = pc[q]
  BY LocalTypes DEF Goto
<1>2. at'[q] = at[q]
  BY LocalTypes DEF TakeUp
<1>3. amount'[q] = amount[q]
  BY LocalTypes
<1>4. q \in Jobs => phase'[q] = phase[q]
  BY DEF TypeInv, TypeOK, LocalsOK
<1>5. q \in Jobs => todo'[q] = todo[q]
  BY LocalTypes
<1> QED
  BY <1>1, <1>2, <1>3, <1>4, <1>5

LEMMA GenerateAlone == ASSUME TypeInv, NEW p \in Procs, GenerateStep(p) PROVE Alone(p)
<1>1. CASE FindExisting(p)
  BY <1>1, MovesAlone DEF FindExisting, Generated, Leave
<1>2. CASE ReadUsage(p)
  BY <1>2, MovesAlone DEF ReadUsage
<1>3. CASE CreateInvoice(p)
  BY <1>3, MovesAlone DEF CreateInvoice, Generated, Leave
<1> QED
  BY <1>1, <1>2, <1>3 DEF GenerateStep

LEMMA ChargeAlone == ASSUME TypeInv, NEW j \in Jobs, ChargeStep(j) PROVE Alone(j)
<1> j \in Procs
  BY DEF Procs
<1>1. CASE ReadForCharge(j) \/ ClaimInvoice(j) \/ ClearDunning(j) \/ EnterDunning(j)
  BY <1>1, MovesAlone
     DEF ReadForCharge, ClaimInvoice, ClearDunning, EnterDunning, Charged, Leave
<1>2. CASE GatewayCaptures(j) \/ GatewayDeclines(j) \/ GatewayCapturesLate(j) \/ MarkPaid(j)
  BY <1>2, MovesAlone DEF GatewayCaptures, GatewayDeclines, GatewayCapturesLate, MarkPaid
<1> QED
  BY <1>1, <1>2 DEF ChargeStep

LEMMA JobAlone ==
    ASSUME TypeInv, NEW j \in Jobs, StartJob(j) \/ JobStep(j) PROVE Alone(j)
<1> j \in Procs
  BY DEF Procs
<1>1. CASE StartJob(j)
  BY <1>1, MovesAlone DEF StartJob
<1>2. CASE StartRetries(j) \/ StartDowngrades(j) \/ FinishJob(j)
  BY <1>2, MovesAlone DEF StartRetries, StartDowngrades, FinishJob
<1>3. ASSUME NEW i \in Invoices,
             CancelAtPeriodEnd(j, i) \/ Roll(j, i) \/ ReadForRetry(j, i) \/ SealFailed(j, i)
      PROVE  Alone(j)
  BY <1>3, MovesAlone DEF CancelAtPeriodEnd, Roll, ReadForRetry, SealFailed, Visited
<1>4. CASE Reopen(j) \/ Reschedule(j) \/ ResetAccount(j)
  BY <1>4, MovesAlone DEF Reopen, Reschedule, ResetAccount, Leave
<1> QED
  BY <1>1, <1>2, <1>3, <1>4, GenerateAlone, ChargeAlone DEF JobStep

LEMMA RequestAlone == ASSUME TypeInv, NEW r \in Reqs, RequestStep(r) PROVE Alone(r)
<1> r \in Procs
  BY DEF Procs
<1>1. ASSUME NEW c \in Customers,
             StartRecording(r, c) \/ StartGenerating(r, c) \/ PaymentFailedNotice(r, c)
      PROVE  Alone(r)
  BY <1>1, MovesAlone DEF StartRecording, StartGenerating, PaymentFailedNotice
<1>2. CASE RecordUsage(r)
  BY <1>2, MovesAlone DEF RecordUsage, Leave
<1> QED
  BY <1>1, <1>2, GenerateAlone DEF RequestStep

LEMMA FailureAlone ==
    ASSUME TypeInv, NEW p \in Procs,
           \/ WorkFails(p)
           \/ p \in Jobs /\ \/ \E i \in Invoices : VisitFails(p, i)
                            \/ RunFails(p) \/ AccountingFails(p) \/ DunningFails(p)
    PROVE  Alone(p)
<1>1. CASE WorkFails(p)
  BY <1>1, MovesAlone DEF WorkFails, Leave
<1>2. ASSUME NEW i \in Invoices, VisitFails(p, i) PROVE Alone(p)
  BY <1>2, MovesAlone DEF VisitFails, Visited
<1>3. CASE RunFails(p) \/ AccountingFails(p) \/ DunningFails(p)
  BY <1>3, MovesAlone DEF RunFails, AccountingFails, DunningFails, Leave
<1> QED
  BY <1>1, <1>2, <1>3

(* A row once created stays with its total, and minutes are only added.    *)
RowsGrow ==
    /\ \A i \in Invoices : state[i] # "none" => state'[i] # "none" /\ total'[i] = total[i]
    /\ \A i \in Invoices : used[i] <= used'[i]

LEMMA RowsStay == ASSUME TypeInv, UNCHANGED <<state, total, used>> PROVE RowsGrow
BY DEF RowsGrow, TypeInv, TypeOK, RowsOK

LEMMA RowMoves ==
    ASSUME TypeInv, NEW i, NEW s, s # "none",
           state' = [state EXCEPT ![i] = s], UNCHANGED <<total, used>>
    PROVE  RowsGrow
BY DEF RowsGrow, TypeInv, TypeOK, RowsOK

LEMMA GenerateGrows == ASSUME TypeInv, NEW p \in Procs, GenerateStep(p) PROVE RowsGrow
<1>1. CASE FindExisting(p) \/ ReadUsage(p)
  BY <1>1, RowsStay DEF FindExisting, ReadUsage
<1>2. CASE CreateInvoice(p)
  BY <1>2, RowsStay DEF CreateInvoice, RowsGrow, TypeInv, TypeOK, RowsOK
<1> QED
  BY <1>1, <1>2 DEF GenerateStep

LEMMA ChargeGrows == ASSUME TypeInv, NEW j \in Jobs, ChargeStep(j) PROVE RowsGrow
<1>1. CASE ReadForCharge(j) \/ ClaimInvoice(j) \/ MarkPaid(j)
  BY <1>1, RowsStay, RowMoves DEF ReadForCharge, ClaimInvoice, MarkPaid
<1>2. CASE GatewayCaptures(j) \/ GatewayDeclines(j) \/ GatewayCapturesLate(j)
  BY <1>2, RowsStay DEF GatewayCaptures, GatewayDeclines, GatewayCapturesLate
<1>3. CASE ClearDunning(j) \/ EnterDunning(j)
  BY <1>3, RowsStay, RowMoves DEF ClearDunning, EnterDunning, DunInvoice, Unpaid
<1> QED
  BY <1>1, <1>2, <1>3 DEF ChargeStep

LEMMA StepsGrow == ASSUME TypeInv, [Next]_vars PROVE RowsGrow
<1>1. CASE (\E c \in Customers : PeriodEnds(c)) \/ NextDay \/ UNCHANGED vars
  BY <1>1, RowsStay DEF PeriodEnds, NextDay, vars
<1>2. ASSUME NEW j \in Jobs, StartJob(j) \/ JobStep(j) PROVE RowsGrow
  <2>1. CASE StartJob(j) \/ StartRetries(j) \/ StartDowngrades(j) \/ FinishJob(j)
    BY <2>1, RowsStay DEF StartJob, StartRetries, StartDowngrades, FinishJob
  <2>2. ASSUME NEW i \in Invoices, CancelAtPeriodEnd(j, i) \/ Roll(j, i) \/ ReadForRetry(j, i)
        PROVE  RowsGrow
    BY <2>2, RowsStay DEF CancelAtPeriodEnd, Roll, ReadForRetry
  <2>3. ASSUME NEW i \in Invoices, SealFailed(j, i) PROVE RowsGrow
    BY <2>3 DEF SealFailed, RowsGrow, TypeInv, TypeOK, RowsOK
  <2>4. CASE Reopen(j) \/ Reschedule(j) \/ ResetAccount(j)
    BY <2>4, RowsStay, RowMoves DEF Reopen, Reschedule, ResetAccount
  <2> QED
    BY <1>2, <2>1, <2>2, <2>3, <2>4, GenerateGrows, ChargeGrows DEF JobStep, Procs
<1>3. ASSUME NEW r \in Reqs, RequestStep(r) PROVE RowsGrow
  <2>1. CASE RecordUsage(r)
    BY <2>1 DEF RecordUsage, RowsGrow, TypeInv, TypeOK, RowsOK
  <2>2. ASSUME NEW c \in Customers,
               StartRecording(r, c) \/ StartGenerating(r, c) \/ PaymentFailedNotice(r, c)
        PROVE  RowsGrow
    BY <2>2, RowsStay DEF StartRecording, StartGenerating, PaymentFailedNotice
  <2> QED
    BY <1>3, <2>1, <2>2, GenerateGrows DEF RequestStep, Procs
<1>4. CASE Failure
  <2>1. ASSUME NEW j \in Jobs, DunningFails(j) PROVE RowsGrow
    BY <2>1, RowsStay, RowMoves DEF DunningFails, DunInvoice, Unpaid
  <2>2. ASSUME NEW j \in Jobs, NEW i \in Invoices, VisitFails(j, i) PROVE RowsGrow
    BY <2>2, RowsStay DEF VisitFails
  <2>3. ASSUME NEW j \in Jobs, RunFails(j) \/ AccountingFails(j) PROVE RowsGrow
    BY <2>3, RowsStay DEF RunFails, AccountingFails
  <2>4. ASSUME NEW p \in Procs, WorkFails(p) PROVE RowsGrow
    BY <2>4, RowsStay DEF WorkFails
  <2>5. CASE CrashAndRestart
    BY <2>5, RowsStay DEF CrashAndRestart
  <2> QED
    BY <1>4, <2>1, <2>2, <2>3, <2>4, <2>5 DEF Failure
<1> QED
  BY <1>1, <1>2, <1>3, <1>4 DEF Next

----------------------------------------------------------------------------
(* A closed cycle is invoiced.                                             *)

(* The run that is to create an invoice does not leave before it is there. *)
Holds(j, i) == at[j] = i /\ pc[j] \in GeneratePCs
NoneDropped ==
    \A i \in Invoices : \A j \in Jobs : Holds(j, i) => Holds(j, i)' \/ state'[i] # "none"

LEMMA StepFaults ==
    ASSUME TypeInv, [Next]_vars
    PROVE  UNCHANGED <<faults, crashes>> \/ faults' + crashes' > 0
<1>1. CASE (\E c \in Customers : PeriodEnds(c)) \/ NextDay \/ UNCHANGED vars
  BY <1>1 DEF PeriodEnds, NextDay, vars
<1>2. ASSUME NEW p \in Procs, GenerateStep(p) PROVE UNCHANGED <<faults, crashes>>
  BY <1>2 DEF GenerateStep, FindExisting, ReadUsage, CreateInvoice
<1>3. ASSUME NEW j \in Jobs, ChargeStep(j) PROVE UNCHANGED <<faults, crashes>>
  BY <1>3 DEF ChargeStep, ReadForCharge, ClaimInvoice, GatewayCaptures, GatewayDeclines,
              GatewayCapturesLate, MarkPaid, ClearDunning, EnterDunning
<1>4. ASSUME NEW j \in Jobs, StartJob(j) \/ JobStep(j) PROVE UNCHANGED <<faults, crashes>>
  BY <1>2, <1>3, <1>4
     DEF Procs, JobStep, StartJob, StartRetries, StartDowngrades, FinishJob,
         CancelAtPeriodEnd, Roll, ReadForRetry, SealFailed, Reopen, Reschedule, ResetAccount
<1>5. ASSUME NEW r \in Reqs, RequestStep(r) PROVE UNCHANGED <<faults, crashes>>
  BY <1>2, <1>5 DEF Procs, RequestStep, StartRecording, StartGenerating,
                    PaymentFailedNotice, RecordUsage
<1>6. CASE Failure
  BY <1>6 DEF Failure, WorkFails, VisitFails, RunFails, AccountingFails, DunningFails,
              CrashAndRestart, Fault, TypeInv, TypeOK, CountersOK
<1> QED
  BY <1>1, <1>4, <1>5, <1>6 DEF Next

LEMMA GenerateHolds ==
    ASSUME TypeInv, NEW j \in Jobs, GenerateStep(j), NEW i \in Invoices, Holds(j, i)
    PROVE  Holds(j, i)' \/ state'[i] # "none"
<1> j \in Procs
  BY DEF Procs
<1>1. CASE FindExisting(j)
  BY <1>1, LocalTypes DEF FindExisting, Holds, Exists, Goto, GeneratePCs
<1>2. CASE ReadUsage(j)
  BY <1>2, LocalTypes DEF ReadUsage, Holds, Goto, GeneratePCs
<1>3. CASE CreateInvoice(j)
  BY <1>3 DEF CreateInvoice, Holds, TypeInv, TypeOK, RowsOK
<1> QED
  BY <1>1, <1>2, <1>3 DEF GenerateStep

LEMMA StepsHold ==
    ASSUME InvoiceAssumption, TypeInv, [Next]_vars, ~Failure
    PROVE  NoneDropped
<1> SUFFICES ASSUME NEW i \in Invoices, NEW j \in Jobs, Holds(j, i)
             PROVE  Holds(j, i)' \/ state'[i] # "none"
  BY DEF NoneDropped
<1> j \in Procs /\ j \notin Reqs
  BY InvoiceAssumption DEF Procs, InvoiceAssumption
<1>1. CASE (\E c \in Customers : PeriodEnds(c)) \/ NextDay \/ UNCHANGED vars
  BY <1>1 DEF PeriodEnds, NextDay, vars, Holds
<1>2. ASSUME NEW p \in Procs \ {j}, Alone(p) PROVE Holds(j, i)'
  BY <1>2 DEF Alone, Holds
<1>3. CASE StartJob(j) \/ JobStep(j)
  <2>1. GenerateStep(j)
    BY <1>3
       DEF JobStep, ChargeStep, Holds, GeneratePCs, StartJob, StartRetries, StartDowngrades,
           FinishJob, LoopEnds, CancelAtPeriodEnd, Roll, ReadForRetry, SealFailed, Reopen,
           Reschedule, ResetAccount, ReadForCharge, ClaimInvoice, GatewayCaptures,
           GatewayDeclines, GatewayCapturesLate, MarkPaid, ClearDunning, EnterDunning
  <2> QED
    BY <2>1, GenerateHolds
<1>4. ASSUME NEW k \in Jobs \ {j}, StartJob(k) \/ JobStep(k) PROVE Holds(j, i)'
  BY <1>2, <1>4, JobAlone DEF Procs
<1>5. ASSUME NEW r \in Reqs, RequestStep(r) PROVE Holds(j, i)'
  BY <1>2, <1>5, RequestAlone DEF Procs
<1> QED
  BY <1>1, <1>3, <1>4, <1>5 DEF Next

(* Whatever the instances do to each other's work, a cycle that was closed *)
(* has its invoice, or the run that closed it is about to create one,      *)
(* unless a statement failed or the servers were restarted.                *)
THEOREM InvoiceFollowsClosing == Spec => []ClosedCycleIsInvoiced
<1>1. Init => ClosedCycleIsInvoiced
  BY DEF Init, ClosedCycleIsInvoiced, Invoices, Cycles
<1>2. ASSUME TypeInv, ClosedCycleIsInvoiced, [Next]_vars PROVE ClosedCycleIsInvoiced'
  <2> SUFFICES ASSUME NEW i \in Invoices, i[2] < period'[i[1]],
                      state'[i] = "none", UNCHANGED <<faults, crashes>>, ~Failure,
                      ~(faults + crashes > 0)
               PROVE  \E j \in Jobs : Holds(j, i)'
    <3>1. Failure => faults' + crashes' > 0
      BY <1>2 DEF Failure, WorkFails, VisitFails, RunFails, AccountingFails, DunningFails,
                  CrashAndRestart, Fault, TypeInv, TypeOK, CountersOK
    <3> QED
      BY <1>2, <3>1, StepFaults DEF ClosedCycleIsInvoiced, Holds
  <2>1. state[i] = "none"
    BY <1>2, StepsGrow DEF RowsGrow
  <2>2. CASE i[2] < period[i[1]]
    <3>1. PICK j \in Jobs : Holds(j, i)
      BY <1>2, <2>1, <2>2 DEF ClosedCycleIsInvoiced, Holds
    <3> QED
      BY <1>2, <3>1, StepsHold, InvoiceAssumption DEF NoneDropped
  <2>3. CASE ~(i[2] < period[i[1]])
    <3>1. PICK j \in Jobs, k \in Invoices : Roll(j, k) /\ period' # period
      BY <1>2, <2>3, OnlyRollCloses
    <3>2. /\ period' = [period EXCEPT ![k[1]] = k[2] + 1] /\ period[k[1]] = k[2]
          /\ TakeUp(j, k) /\ Goto(j, "existing")
      BY <3>1 DEF Roll, StillRead
    <3>3. /\ period \in [Customers -> Cycles]
          /\ i[1] \in Customers /\ k[1] \in Customers /\ i[2] \in Int /\ k[2] \in Int
          /\ i = <<i[1], i[2]>> /\ k = <<k[1], k[2]>>
      BY <1>2 DEF TypeInv, TypeOK, RowsOK, Invoices, Cycles
    <3>4. i[1] = k[1] /\ i[2] = k[2]
      BY <2>3, <3>2, <3>3
    <3>5. k = i
      BY <3>3, <3>4
    <3>6. Holds(j, k)'
      BY <1>2, <3>2, LocalTypes DEF Holds, TakeUp, Goto, GeneratePCs, Procs
    <3> QED
      BY <3>5, <3>6
  <2> QED
    BY <2>2, <2>3
<1>3. TypeInv /\ ClosedCycleIsInvoiced /\ [Next]_vars => ClosedCycleIsInvoiced'
  BY <1>2
<1> QED
  BY <1>1, <1>3, InvoiceTypeInvariant, PTL DEF Spec

----------------------------------------------------------------------------
(* Money is taken for a cycle that is over, and for what was used in it.   *)

(* What can be charged, and what every process that will have it charged   *)
(* knows: once true of an invoice it stays true.                           *)
Payable(i) == Over(i) /\ total[i] > 0 /\ state[i] # "none"
DuePCs == ChargePCs \cup {"reopen", "resched"}
Sound(p) ==
    /\ pc[p] = "create" => amount[p] <= Billable(used[at[p]])
    /\ p \in Jobs =>
        /\ pc[p] \in GeneratePCs => Over(at[p])
        /\ pc[p] \in DuePCs => Payable(at[p])
        /\ phase[p] = "renew" => \A i \in todo[p] : i[1] \in Cancelling => Over(i)
RowsSound ==
    \A i \in Invoices :
        /\ total[i] <= Billable(used[i])
        /\ state[i] = "dunning" => Payable(i)
        /\ taken[i] > 0 => Payable(i)
ChargeInv == RowsSound /\ \A p \in Procs : Sound(p)

LEMMA BillableGrows ==
    ASSUME InvoiceAssumption, NEW m \in Nat, NEW n \in Nat, m <= n
    PROVE  /\ Billable(m) \in Nat /\ Billable(n) \in Nat
           /\ Billable(m) <= Billable(n)
BY DEF InvoiceAssumption, Billable

(* Only a period that ends or is closed makes a difference to it.          *)
OverStays == \A i \in Invoices : Over(i) => Over(i)'

LEMMA PeriodsAlike == ASSUME UNCHANGED <<period, ended>> PROVE OverStays
BY DEF OverStays, Over

LEMMA StepsKeepOver == ASSUME TypeInv, [Next]_vars PROVE OverStays
<1>1. ASSUME NEW c \in Customers, PeriodEnds(c) PROVE OverStays
  BY <1>1 DEF PeriodEnds, OverStays, Over, TypeInv, TypeOK, RowsOK, Invoices
<1>2. CASE NextDay \/ UNCHANGED vars
  BY <1>2, PeriodsAlike DEF NextDay, vars
<1>3. ASSUME NEW p \in Procs, GenerateStep(p) PROVE OverStays
  BY <1>3, PeriodsAlike DEF GenerateStep, FindExisting, ReadUsage, CreateInvoice
<1>4. ASSUME NEW j \in Jobs, ChargeStep(j) PROVE OverStays
  <2>1. UNCHANGED <<period, ended>>
    BY <1>4 DEF ChargeStep, ReadForCharge, ClaimInvoice, GatewayCaptures, GatewayDeclines,
                GatewayCapturesLate, MarkPaid, ClearDunning, EnterDunning
  <2> QED
    BY <2>1, PeriodsAlike
<1>5. ASSUME NEW j \in Jobs, NEW k \in Invoices, Roll(j, k) PROVE OverStays
  <2>1. CASE ~StillRead(k)
    BY <1>5, <2>1, PeriodsAlike DEF Roll
  <2>2. CASE StillRead(k)
    <3>1. /\ period' = [period EXCEPT ![k[1]] = k[2] + 1] /\ period[k[1]] = k[2]
          /\ ended' = [ended EXCEPT ![k[1]] = FALSE] /\ k[1] \notin Cancelling
      BY <1>5, <2>2 DEF Roll, StillRead
    <3> SUFFICES ASSUME NEW i \in Invoices, Over(i) PROVE Over(i)'
      BY DEF OverStays
    <3>2. /\ period \in [Customers -> Cycles] /\ ended \in [Customers -> BOOLEAN]
          /\ i[1] \in Customers /\ k[1] \in Customers /\ i[2] \in Int /\ k[2] \in Int
          /\ period[i[1]] \in Int
      BY DEF TypeInv, TypeOK, RowsOK, Invoices, Cycles
    <3>3. CASE i[1] = k[1]
      BY <3>1, <3>2, <3>3 DEF Over
    <3>4. CASE i[1] # k[1]
      BY <3>1, <3>2, <3>4 DEF Over
    <3> QED
      BY <3>3, <3>4
  <2> QED
    BY <2>1, <2>2
<1>6. ASSUME NEW j \in Jobs, StartJob(j) \/ JobStep(j),
             ~ \E k \in Invoices : Roll(j, k)
      PROVE  OverStays
  <2>1. CASE GenerateStep(j) \/ ChargeStep(j)
    BY <1>3, <1>4, <2>1 DEF Procs
  <2>2. CASE ~(GenerateStep(j) \/ ChargeStep(j))
    <3>1. UNCHANGED <<period, ended>>
      BY <1>6, <2>2
         DEF JobStep, StartJob, StartRetries, StartDowngrades, FinishJob,
             CancelAtPeriodEnd, ReadForRetry, SealFailed, Reopen, Reschedule, ResetAccount
    <3> QED
      BY <3>1, PeriodsAlike
  <2> QED
    BY <2>1, <2>2
<1>7. ASSUME NEW r \in Reqs, RequestStep(r) PROVE OverStays
  <2>1. CASE GenerateStep(r)
    BY <1>3, <2>1 DEF Procs
  <2>2. CASE ~GenerateStep(r)
    BY <1>7, <2>2, PeriodsAlike
       DEF RequestStep, StartRecording, StartGenerating, PaymentFailedNotice, RecordUsage,
           DunAccount
  <2> QED
    BY <2>1, <2>2
<1>8. CASE Failure
  <2>1. UNCHANGED <<period, ended>>
    BY <1>8 DEF Failure, WorkFails, VisitFails, RunFails, AccountingFails, DunningFails,
                CrashAndRestart
  <2> QED
    BY <2>1, PeriodsAlike
<1> QED
  BY <1>1, <1>2, <1>5, <1>6, <1>7, <1>8 DEF Next

Grows == OverStays /\ RowsGrow

LEMMA PayableStays ==
    ASSUME Grows, NEW i \in Invoices, Payable(i) PROVE Payable(i)'
BY DEF Grows, OverStays, RowsGrow, Payable

(* Who does not move goes on knowing what it knew.                         *)
LEMMA StaysSound ==
    ASSUME InvoiceAssumption, TypeInv, TypeInv', Grows, NEW p \in Procs, Sound(p),
           pc'[p] = pc[p], at'[p] = at[p], amount'[p] = amount[p],
           p \in Jobs => phase'[p] = phase[p] /\ todo'[p] \subseteq todo[p]
    PROVE  Sound(p)'
<1>1. pc[p] \in GeneratePCs \cup DuePCs => at[p] \in Invoices
  BY WorksOn DEF WorkPCs, PCs, JobPCs, RestPCs, DuePCs, ChargePCs, GeneratePCs
<1>2. ASSUME pc[p] = "create" PROVE amount[p] <= Billable(used'[at[p]])
  <2>1. at[p] \in Invoices
    BY <1>1, <1>2 DEF GeneratePCs
  <2>2. used[at[p]] \in Nat /\ used'[at[p]] \in Nat /\ used[at[p]] <= used'[at[p]]
    BY <2>1 DEF TypeInv, TypeOK, RowsOK, Grows, RowsGrow
  <2>3. amount[p] \in Nat /\ amount[p] <= Billable(used[at[p]])
    BY <1>2, LocalTypes DEF Sound
  <2>4. Billable(used[at[p]]) <= Billable(used'[at[p]]) /\ Billable(used[at[p]]) \in Nat
        /\ Billable(used'[at[p]]) \in Nat
    BY <2>2, BillableGrows
  <2> QED
    BY <2>3, <2>4
<1>3. ASSUME p \in Jobs, pc[p] \in GeneratePCs PROVE Over(at[p])'
  <2>1. Over(at[p]) /\ at[p] \in Invoices
    BY <1>1, <1>3 DEF Sound
  <2> QED
    BY <2>1 DEF Over, Grows, OverStays
<1>4. ASSUME p \in Jobs, pc[p] \in DuePCs PROVE Payable(at[p])'
  <2>1. Payable(at[p]) /\ at[p] \in Invoices
    BY <1>1, <1>4 DEF Sound
  <2>2. \A i \in Invoices : Payable(i) => Payable(i)'
    BY PayableStays
  <2> QED
    BY <2>1, <2>2 DEF Payable, Over
<1>5. ASSUME p \in Jobs, phase[p] = "renew", NEW i \in todo'[p], i[1] \in Cancelling
      PROVE  Over(i)'
  <2>1. i \in todo[p] /\ i \in Invoices
    BY <1>5, LocalTypes
  <2> QED
    BY <1>5, <2>1 DEF Sound, Grows, OverStays
<1> QED
  BY <1>2, <1>3, <1>4, <1>5 DEF Sound, Payable, Over

(* Where a total, a debt and a capture come from.                          *)
Sources ==
    \A i \in Invoices :
        /\ \/ total'[i] = total[i]
           \/ \E p \in Procs : pc[p] = "create" /\ at[p] = i /\ total'[i] = amount[p]
        /\ state'[i] = "dunning" =>
               state[i] = "dunning" \/ \E j \in Jobs : at[j] = i /\ pc[j] \in {"dun", "resched"}
        /\ taken'[i] > 0 =>
               taken[i] > 0 \/ \E j \in Jobs : at[j] = i /\ pc[j] = "gateway"

LEMMA NoSource == ASSUME UNCHANGED <<state, total, taken>> PROVE Sources
BY DEF Sources

LEMMA StateSource ==
    ASSUME TypeInv, NEW i, NEW s, state' = [state EXCEPT ![i] = s], UNCHANGED <<total, taken>>,
           s = "dunning" => \E j \in Jobs : at[j] = i /\ pc[j] \in {"dun", "resched"}
    PROVE  Sources
BY DEF Sources, TypeInv, TypeOK, RowsOK

LEMMA GenerateSources == ASSUME TypeInv, NEW p \in Procs, GenerateStep(p) PROVE Sources
<1>1. CASE FindExisting(p) \/ ReadUsage(p)
  BY <1>1, NoSource DEF FindExisting, ReadUsage
<1>2. CASE CreateInvoice(p)
  BY <1>2 DEF CreateInvoice, Sources, TypeInv, TypeOK, RowsOK
<1> QED
  BY <1>1, <1>2 DEF GenerateStep

LEMMA ChargeSources == ASSUME TypeInv, NEW j \in Jobs, ChargeStep(j) PROVE Sources
<1>1. CASE ReadForCharge(j) \/ ClaimInvoice(j) \/ MarkPaid(j)
  BY <1>1, NoSource, StateSource DEF ReadForCharge, ClaimInvoice, MarkPaid
<1>2. CASE GatewayCaptures(j) \/ GatewayCapturesLate(j)
  BY <1>2 DEF GatewayCaptures, GatewayCapturesLate, Sources, TypeInv, TypeOK, CountersOK
<1>3. CASE GatewayDeclines(j) \/ ClearDunning(j)
  BY <1>3, NoSource DEF GatewayDeclines, ClearDunning
<1>4. CASE EnterDunning(j)
  BY <1>4, StateSource DEF EnterDunning, DunInvoice
<1> QED
  BY <1>1, <1>2, <1>3, <1>4 DEF ChargeStep

LEMMA StepsSource == ASSUME TypeInv, [Next]_vars PROVE Sources
<1>1. CASE (\E c \in Customers : PeriodEnds(c)) \/ NextDay \/ UNCHANGED vars
  BY <1>1, NoSource DEF PeriodEnds, NextDay, vars
<1>2. ASSUME NEW j \in Jobs, StartJob(j) \/ JobStep(j) PROVE Sources
  <2>1. CASE StartJob(j) \/ StartRetries(j) \/ StartDowngrades(j) \/ FinishJob(j)
    BY <2>1, NoSource DEF StartJob, StartRetries, StartDowngrades, FinishJob
  <2>2. ASSUME NEW i \in Invoices, CancelAtPeriodEnd(j, i) \/ Roll(j, i) \/ ReadForRetry(j, i)
        PROVE  Sources
    BY <2>2, NoSource DEF CancelAtPeriodEnd, Roll, ReadForRetry
  <2>3. ASSUME NEW i \in Invoices, SealFailed(j, i) PROVE Sources
    BY <2>3 DEF SealFailed, Sources
  <2>4. CASE Reopen(j) \/ ResetAccount(j)
    BY <2>4, NoSource, StateSource DEF Reopen, ResetAccount
  <2>5. CASE Reschedule(j)
    BY <2>5, StateSource DEF Reschedule
  <2> QED
    BY <1>2, <2>1, <2>2, <2>3, <2>4, <2>5, GenerateSources, ChargeSources DEF JobStep, Procs
<1>3. ASSUME NEW r \in Reqs, RequestStep(r) PROVE Sources
  <2>1. ASSUME NEW c \in Customers,
               StartRecording(r, c) \/ StartGenerating(r, c) \/ PaymentFailedNotice(r, c)
        PROVE  Sources
    BY <2>1, NoSource DEF StartRecording, StartGenerating, PaymentFailedNotice
  <2>2. CASE RecordUsage(r)
    BY <2>2, NoSource DEF RecordUsage
  <2> QED
    BY <1>3, <2>1, <2>2, GenerateSources DEF RequestStep, Procs
<1>4. CASE Failure
  <2>1. ASSUME NEW j \in Jobs, DunningFails(j) PROVE Sources
    BY <2>1, NoSource, StateSource DEF DunningFails, DunInvoice
  <2>2. ASSUME NEW j \in Jobs, NEW i \in Invoices, VisitFails(j, i) PROVE Sources
    BY <2>2, NoSource DEF VisitFails
  <2>3. ASSUME NEW j \in Jobs, RunFails(j) \/ AccountingFails(j) PROVE Sources
    BY <2>3, NoSource DEF RunFails, AccountingFails
  <2>4. ASSUME NEW p \in Procs, WorkFails(p) PROVE Sources
    BY <2>4, NoSource DEF WorkFails
  <2>5. CASE CrashAndRestart
    BY <2>5, NoSource DEF CrashAndRestart
  <2> QED
    BY <1>4, <2>1, <2>2, <2>3, <2>4, <2>5 DEF Failure
<1> QED
  BY <1>1, <1>2, <1>3, <1>4 DEF Next

LEMMA RowsStaySound ==
    ASSUME InvoiceAssumption, TypeInv, TypeInv', Grows, Sources, ChargeInv
    PROVE  RowsSound'
<1> SUFFICES ASSUME NEW i \in Invoices
             PROVE  /\ total'[i] <= Billable(used'[i])
                    /\ state'[i] = "dunning" => Payable(i)'
                    /\ taken'[i] > 0 => Payable(i)'
  BY DEF RowsSound, Payable, Over
<1>1. total'[i] <= Billable(used'[i])
  <2>1. used[i] \in Nat /\ used'[i] \in Nat /\ used[i] <= used'[i]
    BY DEF TypeInv, TypeOK, RowsOK, Grows, RowsGrow
  <2>2. /\ Billable(used[i]) \in Nat /\ Billable(used'[i]) \in Nat
        /\ Billable(used[i]) <= Billable(used'[i])
    BY <2>1, BillableGrows
  <2>3. total'[i] \in Nat /\ total'[i] <= Billable(used[i])
    <3>1. CASE total'[i] = total[i]
      BY <3>1 DEF ChargeInv, RowsSound, TypeInv, TypeOK, RowsOK
    <3>2. ASSUME NEW p \in Procs, pc[p] = "create", at[p] = i, total'[i] = amount[p]
          PROVE  total'[i] \in Nat /\ total'[i] <= Billable(used[i])
      BY <3>2, LocalTypes DEF ChargeInv, Sound
    <3> QED
      BY <3>1, <3>2 DEF Sources
  <2> QED
    BY <2>2, <2>3
<1>2. ASSUME NEW j \in Jobs, at[j] = i, pc[j] \in {"dun", "resched", "gateway"}
      PROVE  Payable(i)
  BY <1>2 DEF ChargeInv, Sound, DuePCs, ChargePCs, Procs
<1>3. Payable(i) => Payable(i)'
  BY PayableStays
<1>4. state'[i] = "dunning" => Payable(i)
  BY <1>2 DEF Sources, ChargeInv, RowsSound
<1>5. taken'[i] > 0 => Payable(i)
  BY <1>2 DEF Sources, ChargeInv, RowsSound
<1> QED
  BY <1>1, <1>3, <1>4, <1>5

LEMMA OneMoves ==
    ASSUME InvoiceAssumption, TypeInv, TypeInv', Grows, Sources, ChargeInv,
           NEW p \in Procs, Alone(p), Sound(p)'
    PROVE  ChargeInv'
<1>1. ASSUME NEW q \in Procs PROVE Sound(q)'
  <2>1. CASE q = p
    BY <2>1
  <2>2. CASE q # p
    BY <2>2, StaysSound DEF Alone, ChargeInv
  <2> QED
    BY <2>1, <2>2
<1> QED
  BY <1>1, RowsStaySound DEF ChargeInv

(* Who moves knows what the statement found.                               *)
LEMMA LandsSound ==
    ASSUME TypeInv, Grows, NEW j \in Jobs, Sound(j), pc'[j] \notin GeneratePCs,
           pc'[j] \in DuePCs => Payable(at[j])' \/ (at'[j] = at[j] /\ pc[j] \in DuePCs),
           phase'[j] = "renew" => phase[j] = "renew" /\ todo'[j] \subseteq todo[j]
    PROVE  Sound(j)'
<1>1. pc[j] \in DuePCs => at[j] \in Invoices
  BY WorksOn DEF WorkPCs, PCs, JobPCs, RestPCs, DuePCs, ChargePCs, Procs
<1>2. ASSUME pc'[j] \in DuePCs PROVE Payable(at[j])'
  <2>1. CASE at'[j] = at[j] /\ pc[j] \in DuePCs
    <3>1. \A i \in Invoices : Payable(i) => Payable(i)'
      BY PayableStays
    <3> QED
      BY <1>1, <2>1, <3>1 DEF Sound, Payable, Over, Procs
  <2> QED
    BY <1>2, <2>1
<1>3. ASSUME phase'[j] = "renew", NEW i \in todo'[j], i[1] \in Cancelling PROVE Over(i)'
  <2>1. i \in todo[j] /\ i \in Invoices
    BY <1>3, LocalTypes
  <2> QED
    BY <1>3, <2>1 DEF Sound, Grows, OverStays, Procs
<1> QED
  BY <1>2, <1>3 DEF Sound, GeneratePCs

LEMMA RestsSound ==
    ASSUME NEW p \in Procs, pc'[p] \notin GeneratePCs \cup DuePCs,
           p \in Jobs => phase'[p] # "renew" \/ todo'[p] = {}
    PROVE  Sound(p)'
BY DEF Sound, GeneratePCs

LEMMA GenerateSound ==
    ASSUME InvoiceAssumption, TypeInv, TypeInv', Grows, Sources, ChargeInv,
           NEW p \in Procs, GenerateStep(p)
    PROVE  Sound(p)'
<1> USE DEF GenerateStep, FindExisting, ReadUsage, CreateInvoice
<1>1. Sound(p) /\ at[p] \in Invoices /\ pc[p] \in GeneratePCs
  <2>1. pc[p] \in GeneratePCs
    BY DEF GeneratePCs
  <2> QED
    BY <2>1, WorksOn DEF WorkPCs, PCs, JobPCs, RestPCs, GeneratePCs, ChargeInv
<1>2. p \in Jobs => Over(at[p])
  BY <1>1 DEF Sound
<1>3. UNCHANGED <<phase, todo>>
  OBVIOUS
<1>4. CASE Leave(p)
  <2>1. pc'[p] \in {"next", "done"} /\ (p \in Jobs => pc'[p] = "next")
    BY <1>4, LocalTypes DEF Leave, LoopHead, Goto
  <2>2. pc'[p] \notin GeneratePCs \cup DuePCs
    BY <2>1 DEF GeneratePCs, DuePCs, ChargePCs
  <2>3. CASE p \in Jobs
    BY <1>1, <1>3, <2>2, <2>3, LandsSound
  <2>4. CASE p \notin Jobs
    BY <2>2, <2>4 DEF Sound, GeneratePCs
  <2> QED
    BY <2>3, <2>4
<1>5. ASSUME NEW i \in todo[p], p \in Jobs, phase[p] = "renew", i[1] \in Cancelling
      PROVE  Over(i)'
  BY <1>1, <1>5, LocalTypes DEF Sound, Grows, OverStays
<1>6. p \in Jobs => \A i \in Invoices : i = at[p] => Over(i)'
  BY <1>2 DEF Grows, OverStays
<1>7. CASE UNCHANGED at /\ Goto(p, "usage")
  <2>1. pc'[p] = "usage"
    BY <1>7, LocalTypes DEF Goto
  <2> QED
    BY <1>1, <1>3, <1>5, <1>6, <1>7, <2>1 DEF Sound, Over, DuePCs, ChargePCs
<1>8. CASE ReadUsage(p)
  <2>1. pc'[p] = "create" /\ amount'[p] = Billable(used[at[p]]) /\ UNCHANGED <<at, used>>
    BY <1>8, LocalTypes DEF Goto
  <2>2. used[at[p]] \in Nat
    BY <1>1 DEF TypeInv, TypeOK, RowsOK
  <2>3. amount'[p] <= Billable(used'[at'[p]])
    BY <2>1, <2>2, BillableGrows
  <2> QED
    BY <1>1, <1>3, <1>5, <1>6, <2>1, <2>3 DEF Sound, Over, DuePCs, ChargePCs
<1>9. CASE p \in Jobs /\ Goto(p, "charge") /\ UNCHANGED at
  <2>1. pc'[p] = "charge"
    BY <1>9, LocalTypes DEF Goto
  <2>2. total'[at[p]] > 0 /\ state'[at[p]] # "none"
    <3>1. CASE FindExisting(p)
      BY <1>9, <3>1, <2>1, LocalTypes DEF Generated, ToPay, Exists, Leave, LoopHead, Goto
    <3>2. CASE CreateInvoice(p)
      <4>1. pc'[p] # "next"
        BY <2>1
      <4>2. /\ state' = [state EXCEPT ![at[p]] = "open"]
            /\ total' = [total EXCEPT ![at[p]] = amount[p]] /\ ToPay(amount[p])
        BY <1>9, <3>2, <4>1, LocalTypes DEF Generated, Leave, LoopHead, Goto
      <4> QED
        BY <1>1, <4>2 DEF ToPay, TypeInv, TypeOK, RowsOK
    <3> QED
      BY <2>1, <3>1, <3>2, LocalTypes DEF Goto
  <2>3. Payable(at[p])'
    BY <1>1, <1>6, <1>9, <2>2 DEF Payable, Over
  <2>4. pc'[p] \notin GeneratePCs
    BY <2>1 DEF GeneratePCs
  <2> QED
    BY <1>1, <1>3, <1>9, <2>3, <2>4, LandsSound
<1> QED
  BY <1>4, <1>7, <1>8, <1>9 DEF Generated

LEMMA ChargeSound ==
    ASSUME TypeInv, Grows, NEW j \in Jobs, Sound(j),
           ChargeStep(j) \/ Reopen(j) \/ Reschedule(j) \/ ResetAccount(j)
    PROVE  Sound(j)'
<1> j \in Procs
  BY DEF Procs
<1> USE DEF ChargeStep, ReadForCharge, ClaimInvoice, GatewayCaptures, GatewayDeclines,
            GatewayCapturesLate, MarkPaid, ClearDunning, EnterDunning, Reopen, Reschedule,
            ResetAccount
<1>1. UNCHANGED <<phase, todo>>
  OBVIOUS
<1>2. pc[j] \in DuePCs \/ ResetAccount(j)
  BY DEF DuePCs, ChargePCs
<1>3. \/ Leave(j)
      \/ UNCHANGED at /\ \E l \in {"claim", "gateway", "paid", "dun", "clear", "charge",
                                   "resched"} : Goto(j, l)
  BY DEF Charged, AfterDecline
<1>4. CASE Leave(j)
  <2>1. pc'[j] = "next"
    BY <1>4, LocalTypes DEF Leave, LoopHead, Goto
  <2> QED
    BY <1>1, <2>1, LandsSound DEF GeneratePCs, DuePCs, ChargePCs
<1>5. ASSUME NEW l \in {"claim", "gateway", "paid", "dun", "clear", "charge", "resched"},
             Goto(j, l), UNCHANGED at, pc[j] \in DuePCs
      PROVE  Sound(j)'
  <2>1. pc'[j] = l
    BY <1>5, LocalTypes DEF Goto
  <2> QED
    BY <1>1, <1>5, <2>1, LandsSound DEF GeneratePCs
<1> QED
  BY <1>2, <1>3, <1>4, <1>5

LEMMA HeadsSound ==
    ASSUME TypeInv, Grows, NEW j \in Jobs, Sound(j),
           StartJob(j) \/ StartRetries(j) \/ StartDowngrades(j) \/ FinishJob(j)
    PROVE  Sound(j)'
<1> j \in Procs
  BY DEF Procs
<1> USE DEF StartJob, StartRetries, StartDowngrades, FinishJob, LoopEnds
<1>1. pc'[j] \in {"next", "idle"}
  BY LocalTypes DEF Goto
<1>2. pc'[j] \notin GeneratePCs /\ pc'[j] \notin DuePCs
  BY <1>1 DEF GeneratePCs, DuePCs, ChargePCs
<1>3. CASE StartJob(j)
  <2>1. \A i \in todo'[j] : i \in Invoices /\ ended[i[1]] /\ i[2] = period[i[1]]
    BY <1>3, LocalTypes
  <2>2. \A i \in todo'[j] : i[1] \in Cancelling => Over(i)'
    BY <1>3, <2>1 DEF Over
  <2> QED
    BY <1>2, <2>2 DEF Sound, GeneratePCs
<1>4. CASE StartRetries(j) \/ StartDowngrades(j)
  <2>1. phase'[j] # "renew"
    BY <1>4 DEF TypeInv, TypeOK, LocalsOK
  <2> QED
    BY <1>2, <2>1, LandsSound
<1>5. CASE FinishJob(j)
  BY <1>2, <1>5, LandsSound
<1> QED
  BY <1>3, <1>4, <1>5

LEMMA VisitsSound ==
    ASSUME InvoiceAssumption, TypeInv, Grows, ChargeInv, NEW j \in Jobs, NEW i \in Invoices,
           CancelAtPeriodEnd(j, i) \/ Roll(j, i) \/ ReadForRetry(j, i) \/ SealFailed(j, i)
    PROVE  Sound(j)'
<1> j \in Procs
  BY DEF Procs
<1>1. Sound(j) /\ UNCHANGED <<phase, amount>> /\ todo'[j] \subseteq todo[j] /\ pc[j] = "next"
  BY Visits DEF ChargeInv, CancelAtPeriodEnd, Roll, ReadForRetry, SealFailed
<1>2. CASE UNCHANGED <<pc, at>>
  BY <1>1, <1>2, LandsSound DEF GeneratePCs, DuePCs, ChargePCs
<1>3. ASSUME pc'[j] = "existing", at'[j] = i, Over(i)' PROVE Sound(j)'
  <2>1. \A k \in todo'[j] : phase[j] = "renew" /\ k[1] \in Cancelling => Over(k)'
    BY <1>1, LocalTypes DEF Sound, Grows, OverStays
  <2> QED
    BY <1>1, <1>3, <2>1 DEF Sound, Over, DuePCs, ChargePCs
<1>4. CASE CancelAtPeriodEnd(j, i) /\ ~UNCHANGED <<pc, at>>
  <2>1. Over(i)
    BY <1>1, <1>4 DEF CancelAtPeriodEnd, Sound
  <2>2. pc'[j] = "existing" /\ at'[j] = i
    BY <1>4, LocalTypes DEF CancelAtPeriodEnd, TakeUp, Goto
  <2> QED
    BY <1>3, <2>1, <2>2 DEF Grows, OverStays
<1>5. CASE Roll(j, i) /\ ~UNCHANGED <<pc, at>>
  <2>1. period' = [period EXCEPT ![i[1]] = i[2] + 1]
    BY <1>5 DEF Roll
  <2>2. period \in [Customers -> Cycles] /\ i[1] \in Customers /\ i[2] \in Int
    BY DEF TypeInv, TypeOK, RowsOK, Invoices, Cycles
  <2>3. Over(i)'
    BY <2>1, <2>2 DEF Over
  <2>4. pc'[j] = "existing" /\ at'[j] = i
    BY <1>5, LocalTypes DEF Roll, TakeUp, Goto
  <2> QED
    BY <1>3, <2>3, <2>4
<1>6. CASE ReadForRetry(j, i) /\ ~UNCHANGED <<pc, at>>
  <2>1. state[i] = "dunning" /\ pc'[j] = "reopen" /\ at'[j] = i
    BY <1>6, LocalTypes DEF ReadForRetry, TakeUp, Goto
  <2>2. Payable(i)'
    BY <2>1, PayableStays DEF ChargeInv, RowsSound
  <2>3. Payable(at[j])'
    BY <2>1, <2>2 DEF Payable, Over
  <2> QED
    BY <1>1, <2>1, <2>3, LandsSound DEF GeneratePCs
<1>7. CASE SealFailed(j, i)
  <2>1. pc'[j] = "reset"
    BY <1>7, LocalTypes DEF SealFailed, Goto
  <2> QED
    BY <1>1, <2>1, LandsSound DEF GeneratePCs, DuePCs, ChargePCs
<1> QED
  BY <1>2, <1>4, <1>5, <1>6, <1>7

LEMMA RequestSound ==
    ASSUME InvoiceAssumption, TypeInv, TypeInv', Grows, Sources, ChargeInv,
           NEW r \in Reqs, RequestStep(r)
    PROVE  Sound(r)'
<1> r \in Procs /\ r \notin Jobs
  BY InvoiceAssumption DEF InvoiceAssumption, Procs
<1>1. CASE GenerateStep(r)
  BY <1>1, GenerateSound
<1>2. CASE ~GenerateStep(r)
  <2>1. pc'[r] # "create"
    BY <1>2, LocalTypes
       DEF RequestStep, StartRecording, StartGenerating, PaymentFailedNotice, RecordUsage,
           Leave, LoopHead, Goto
  <2> QED
    BY <2>1 DEF Sound
<1> QED
  BY <1>1, <1>2

LEMMA FailureSound ==
    ASSUME InvoiceAssumption, TypeInv, TypeInv', Grows, Sources, ChargeInv, Failure
    PROVE  ChargeInv'
<1>1. ASSUME NEW p \in Procs, WorkFails(p) PROVE ChargeInv'
  <2>1. pc'[p] = LoopHead(p) /\ UNCHANGED <<phase, todo>>
    BY <1>1, LocalTypes DEF WorkFails, Leave, Goto
  <2>2. pc'[p] \notin GeneratePCs /\ pc'[p] \notin DuePCs
    BY <2>1 DEF LoopHead, GeneratePCs, DuePCs, ChargePCs
  <2>3. CASE p \in Jobs
    BY <1>1, <2>1, <2>2, <2>3, LandsSound, OneMoves, FailureAlone DEF ChargeInv
  <2>4. CASE p \notin Jobs
    BY <1>1, <2>2, <2>4, RestsSound, OneMoves, FailureAlone
  <2> QED
    BY <2>3, <2>4
<1>2. ASSUME NEW j \in Jobs,
             \/ \E i \in Invoices : VisitFails(j, i)
             \/ RunFails(j) \/ AccountingFails(j) \/ DunningFails(j)
      PROVE  ChargeInv'
  <2> j \in Procs
    BY DEF Procs
  <2>1. Sound(j)
    BY DEF ChargeInv
  <2>2. UNCHANGED phase /\ todo'[j] \subseteq todo[j]
    BY <1>2, Visits, LocalTypes DEF VisitFails, RunFails, AccountingFails, DunningFails
  <2>3. \/ pc'[j] \in {"next", "idle"}
        \/ pc'[j] = "dun" /\ UNCHANGED at /\ pc[j] \in {"paid", "clear"}
    BY <1>2, LocalTypes
       DEF VisitFails, RunFails, AccountingFails, DunningFails, Leave, LoopHead, Goto
  <2>4. Sound(j)'
    BY <2>1, <2>2, <2>3, LandsSound DEF GeneratePCs, DuePCs, ChargePCs
  <2> QED
    BY <1>2, <2>4, FailureAlone, OneMoves
<1>3. CASE CrashAndRestart
  <2>1. \A p \in Procs : pc'[p] \in RestPCs
    BY <1>3 DEF CrashAndRestart, InFlight, RestPCs
  <2>2. \A p \in Jobs : todo'[p] = {}
    BY <1>3 DEF CrashAndRestart
  <2>3. \A p \in Procs : Sound(p)'
    BY <2>1, <2>2, RestsSound DEF RestPCs, GeneratePCs, DuePCs, ChargePCs
  <2> QED
    BY <2>3, RowsStaySound DEF ChargeInv
<1> QED
  BY <1>1, <1>2, <1>3 DEF Failure

LEMMA NextCharge ==
    ASSUME InvoiceAssumption, TypeInv, ChargeInv, [Next]_vars PROVE ChargeInv'
<1>1. TypeInv' /\ Grows /\ Sources
  BY NextTypeInv, StepsGrow, StepsKeepOver, StepsSource DEF Grows
<1>2. CASE (\E c \in Customers : PeriodEnds(c)) \/ NextDay \/ UNCHANGED vars
  <2>1. UNCHANGED <<pc, at, amount, phase, todo>>
    BY <1>2 DEF PeriodEnds, NextDay, vars
  <2>2. \A p \in Procs : Sound(p)'
    BY <1>1, <2>1, StaysSound DEF ChargeInv
  <2> QED
    BY <1>1, <2>2, RowsStaySound DEF ChargeInv
<1>3. ASSUME NEW j \in Jobs, StartJob(j) \/ JobStep(j) PROVE ChargeInv'
  <2> j \in Procs
    BY DEF Procs
  <2>1. Sound(j)
    BY DEF ChargeInv
  <2>2. Sound(j)'
    BY <1>1, <1>3, <2>1, HeadsSound, VisitsSound, GenerateSound, ChargeSound DEF JobStep
  <2> QED
    BY <1>1, <1>3, <2>2, JobAlone, OneMoves
<1>4. ASSUME NEW r \in Reqs, RequestStep(r) PROVE ChargeInv'
  BY <1>1, <1>4, RequestSound, RequestAlone, OneMoves DEF Procs
<1>5. CASE Failure
  BY <1>1, <1>5, FailureSound
<1> QED
  BY <1>2, <1>3, <1>4, <1>5 DEF Next

(* Whatever overlaps and whatever fails, money is taken only for a cycle   *)
(* that is over, and never more than what was used in it comes to.         *)
THEOREM InvoiceChargedWhenOver == Spec => []ChargedWhenOver
<1>1. Init => ChargeInv
  <2> SUFFICES ASSUME Init PROVE ChargeInv
    OBVIOUS
  <2>1. RowsSound
    BY InvoiceAssumption DEF Init, RowsSound, Billable, InvoiceAssumption
  <2>2. \A p \in Procs : Sound(p)
    BY DEF Init, Sound, GeneratePCs, DuePCs, ChargePCs, Procs
  <2> QED
    BY <2>1, <2>2 DEF ChargeInv
<1>2. TypeInv /\ ChargeInv /\ [Next]_vars => ChargeInv'
  BY NextCharge, InvoiceAssumption
<1>3. TypeInv /\ ChargeInv => ChargedWhenOver
  <2> SUFFICES ASSUME TypeInv, ChargeInv, NEW i \in Invoices, taken[i] > 0
               PROVE  Over(i) /\ total[i] \in 1..Billable(used[i])
    BY DEF ChargedWhenOver
  <2>1. Over(i) /\ total[i] > 0 /\ total[i] <= Billable(used[i])
    BY DEF ChargeInv, RowsSound, Payable
  <2>2. total[i] \in Nat /\ used[i] \in Nat
    BY DEF TypeInv, TypeOK, RowsOK
  <2>3. Billable(used[i]) \in Nat
    BY <2>2, BillableGrows, InvoiceAssumption
  <2> QED
    BY <2>1, <2>2, <2>3
<1> QED
  BY <1>1, <1>2, <1>3, InvoiceTypeInvariant, PTL DEF Spec

----------------------------------------------------------------------------
(***************************************************************************)
(* One server instance whose statements do not fail keeps the promise of   *)
(* InvoiceProtocol, on every schedule and after any number of restarts;    *)
(* and it renews nobody who owes for an earlier cycle.                     *)
(***************************************************************************)

Undisturbed ==
    /\ \A j, k \in Jobs : j = k
    /\ MaxFaults = 0
    /\ MaxLost = 0

(* What the run knows of the invoice it works on: its cycle is over, and   *)
(* the state that the last statement left or found still stands.           *)
RunPCs == GeneratePCs \cup ChargePCs \cup {"reopen", "resched"}
Knows(j) ==
    /\ pc[j] \in RunPCs => Promise!Ended(at[j])
    /\ pc[j] \in GeneratePCs => phase[j] = "renew"
    /\ pc[j] \in {"reopen", "resched"} => state[at[j]] = "dunning"
    /\ pc[j] = "reopen" => phase[j] = "retry"
    /\ pc[j] \in {"charge", "claim"} /\ phase[j] = "retry" => state[at[j]] = "open"
    /\ pc[j] \in {"gateway", "dun"} => state[at[j]] = "processing" /\ taken[at[j]] = 0
    /\ pc[j] = "paid" => state[at[j]] = "processing" /\ taken[at[j]] = 1

(* No invoice is generated for a cycle that has not begun.                 *)
Begun(i) == i[2] <= period[i[1]]
Generates(p) == pc[p] \in GeneratePCs => Begun(at[p])
Lists == \A j \in Jobs : phase[j] = "renew" => \A i \in todo[j] : Begun(i)

(* Money that can still be asked for has not been taken, and only cycles   *)
(* that are over are dunned.                                               *)
Unpaids ==
    \A i \in Invoices :
        /\ state[i] \in {"none", "open", "dunning"} => taken[i] = 0
        /\ state[i] = "dunning" => Promise!Ended(i)

PromiseInv ==
    /\ Unpaids
    /\ Lists
    /\ \A j \in Jobs : Knows(j)
    /\ \A p \in Procs : Generates(p)

(* The steps of the promise, seen from the rows.                           *)
Bill == [i \in Invoices |-> BillOf(i)]
Keeps == Promise!Next \/ UNCHANGED <<period, Bill, taken>>

----------------------------------------------------------------------------
(* Time and other processes.                                               *)
PeriodsGrow ==
    \A c \in Customers : period'[c] \in Cycles /\ period[c] <= period'[c]

LEMMA CyclesBegin ==
    ASSUME TypeInv, NEW i \in Invoices,
           PeriodsGrow
    PROVE  /\ Begun(i) => Begun(i)'
           /\ Promise!Ended(i) => Promise!Ended(i)'
<1>1. i[1] \in Customers /\ i[2] \in Int
  BY DEF Invoices, Cycles
<1>2. period[i[1]] \in Int /\ period[i[1]] <= period'[i[1]]
  BY <1>1 DEF TypeInv, TypeOK, RowsOK, PeriodsGrow, Cycles
<1>3. period'[i[1]] \in Int
  BY <1>1 DEF PeriodsGrow, Cycles
<1> QED
  BY <1>1, <1>2, <1>3 DEF Begun, Promise!Ended

LEMMA CyclesStay ==
    ASSUME UNCHANGED period
    PROVE  \A i : Begun(i)' = Begun(i) /\ Promise!Ended(i)' = Promise!Ended(i)
BY DEF Begun, Promise!Ended

LEMMA StateStays ==
    ASSUME UNCHANGED <<period, state, taken>>
    PROVE  Keeps /\ (Unpaids => Unpaids')
<1>1. Bill' = Bill
  BY DEF Bill, BillOf
<1> QED
  BY <1>1, CyclesStay DEF Keeps, Unpaids

LEMMA InitPromise == ASSUME InvoiceAssumption, Init PROVE PromiseInv /\ Promise!Init
<1>1. Promise!Init
  BY DEF Init, Promise!Init, BillOf, Promise!Invoices, Invoices
<1>2. \A p \in Procs : pc[p] \in {"idle", "fresh"}
  BY DEF Init
<1>3. Unpaids /\ Lists
  BY DEF Init, Unpaids, Lists
<1>4. \A j \in Jobs : Knows(j)
  BY <1>2 DEF Knows, Procs, RunPCs, GeneratePCs, ChargePCs
<1>5. \A p \in Procs : Generates(p)
  BY <1>2 DEF Generates, GeneratePCs
<1> QED
  BY <1>1, <1>3, <1>4, <1>5 DEF PromiseInv

(* Nobody moves, or who moves comes to rest.                               *)
LEMMA NobodyMoves ==
    ASSUME TypeInv, PromiseInv, UNCHANGED <<period, state, taken, pc, at, phase, todo>>
    PROVE  PromiseInv' /\ Keeps
<1>1. \A j \in Jobs : Knows(j)'
  BY CyclesStay DEF PromiseInv, Knows
<1>2. \A p \in Procs : Generates(p)'
  BY CyclesStay DEF PromiseInv, Generates
<1>3. Lists'
  BY CyclesStay DEF PromiseInv, Lists
<1> QED
  BY <1>1, <1>2, <1>3, StateStays DEF PromiseInv

(* The run moves: there is no other.                                       *)
LEMMA RunMoves ==
    ASSUME Undisturbed, TypeInv, PromiseInv, NEW j \in Jobs, NEW l, Goto(j, l),
           \A q \in Procs : q # j => at'[q] = at[q],
           PeriodsGrow,
           Unpaids', Lists', Knows(j)', l \in GeneratePCs => Begun(at[j])'
    PROVE  PromiseInv'
<1>1. \A k \in Jobs : Knows(k)'
  BY DEF Undisturbed
<1>2. ASSUME NEW p \in Procs PROVE Generates(p)'
  <2>1. CASE p = j
    BY <2>1, LocalTypes DEF Generates, Goto, Begun
  <2>2. CASE p # j
    <3>1. pc'[p] = pc[p] /\ at'[p] = at[p]
      BY <2>2, LocalTypes DEF Goto
    <3>2. pc[p] \in GeneratePCs => at[p] \in Invoices
      BY WorksOn DEF WorkPCs, PCs, JobPCs, RestPCs, GeneratePCs
    <3> QED
      BY <3>1, <3>2, CyclesBegin DEF PromiseInv, Generates, Begun
  <2> QED
    BY <2>1, <2>2
<1> QED
  BY <1>1, <1>2 DEF PromiseInv

LEMMA ListsShrink ==
    ASSUME TypeInv, Lists, UNCHANGED phase,
           \A j \in Jobs : todo'[j] \subseteq todo[j],
           PeriodsGrow
    PROVE  Lists'
<1>1. \A j \in Jobs : todo[j] \subseteq Invoices
  BY LocalTypes
<1> QED
  BY <1>1, CyclesBegin DEF Lists

LEMMA PeriodsStay ==
    ASSUME TypeInv, UNCHANGED period PROVE PeriodsGrow
BY DEF PeriodsGrow, TypeInv, TypeOK, RowsOK, Cycles

(* The run moves without a change of what is owed.                         *)
LEMMA RunMovesStill ==
    ASSUME Undisturbed, TypeInv, PromiseInv, NEW j \in Jobs, NEW l, Goto(j, l),
           \A q \in Procs : q # j => at'[q] = at[q],
           UNCHANGED <<period, state, taken, phase>>,
           \A k \in Jobs : todo'[k] \subseteq todo[k],
           Knows(j)', l \in GeneratePCs => Begun(at[j])'
    PROVE  PromiseInv' /\ Keeps
<1>1. Unpaids' /\ Keeps
  BY StateStays DEF PromiseInv
<1>2. Lists'
  BY ListsShrink, PeriodsStay DEF PromiseInv
<1> QED
  BY <1>1, <1>2, RunMoves, PeriodsStay

(* Back at the head of its loop it knows nothing.                          *)
LEMMA RunLeaves ==
    ASSUME Undisturbed, TypeInv, PromiseInv, NEW j \in Jobs, Leave(j),
           UNCHANGED <<period, state, taken, phase>>,
           \A k \in Jobs : todo'[k] \subseteq todo[k]
    PROVE  PromiseInv' /\ Keeps
<1>1. j \in Procs /\ LoopHead(j) = "next" /\ Goto(j, "next")
  BY DEF Leave, LoopHead, Procs
<1>2. pc'[j] = "next"
  BY <1>1, LocalTypes DEF Goto
<1>3. Knows(j)' /\ "next" \notin GeneratePCs
  BY <1>2 DEF Knows, RunPCs, GeneratePCs, ChargePCs
<1>4. \A q \in Procs : q # j => at'[q] = at[q]
  BY LocalTypes DEF Leave, TakeUp
<1> QED
  BY <1>1, <1>3, <1>4, RunMovesStill

(* A request moves.                                                        *)
LEMMA RequestMoves ==
    ASSUME InvoiceAssumption, TypeInv, PromiseInv, NEW r \in Reqs, NEW l, Goto(r, l),
           \A q \in Procs : q # r => at'[q] = at[q],
           UNCHANGED <<period, taken, phase, todo>>,
           \/ UNCHANGED state
           \/ \E i \in Invoices : state[i] = "none" /\ state' = [state EXCEPT ![i] = "open"],
           l \in GeneratePCs => Begun(at[r])'
    PROVE  PromiseInv'
<1> r \in Procs
  BY DEF Procs
<1>1. ASSUME NEW j \in Jobs PROVE Knows(j)'
  <2>1. j # r /\ j \in Procs /\ pc'[j] = pc[j] /\ at'[j] = at[j]
    BY InvoiceAssumption, LocalTypes DEF InvoiceAssumption, Goto, Procs
  <2>2. pc[j] \in RunPCs => at[j] \in Invoices
    BY <2>1, WorksOn DEF WorkPCs, PCs, JobPCs, RestPCs, RunPCs, GeneratePCs, ChargePCs
  <2>3. \A i \in Invoices : state[i] # "none" => state'[i] = state[i]
    BY DEF TypeInv, TypeOK, RowsOK
  <2> QED
    BY <2>1, <2>2, <2>3, CyclesStay DEF PromiseInv, Knows, RunPCs, ChargePCs
<1>2. ASSUME NEW p \in Procs PROVE Generates(p)'
  <2>1. CASE p = r
    BY <2>1, LocalTypes DEF Generates, Goto, Begun
  <2>2. CASE p # r
    BY <2>2, LocalTypes, CyclesStay DEF Generates, Goto, PromiseInv
  <2> QED
    BY <2>1, <2>2
<1>3. Unpaids'
  BY CyclesStay DEF PromiseInv, Unpaids, TypeInv, TypeOK, RowsOK
<1>4. Lists'
  BY CyclesStay DEF PromiseInv, Lists
<1> QED
  BY <1>1, <1>2, <1>3, <1>4 DEF PromiseInv

----------------------------------------------------------------------------
(* What a change of one row is to the promise.                             *)
Due == {"open", "processing", "dunning"}

LEMMA Issues ==
    ASSUME TypeInv, NEW i \in Invoices, state[i] = "none", Begun(i),
           state' = [state EXCEPT ![i] = "open"], UNCHANGED <<period, taken>>
    PROVE  Keeps
<1>1. Bill[i] = "none" /\ Bill' = [Bill EXCEPT ![i] = "due"]
  BY DEF Bill, BillOf, TypeInv, TypeOK, RowsOK
<1> QED
  BY <1>1 DEF Keeps, Bill, Begun, Promise!Next, Promise!Issue, Promise!Invoices, Invoices

LEMMA StaysDue ==
    ASSUME TypeInv, NEW i \in Invoices, state[i] \in Due, NEW s \in Due,
           state' = [state EXCEPT ![i] = s], UNCHANGED <<period, taken>>
    PROVE  Keeps
<1>1. Bill' = Bill
  BY DEF Due, Bill, BillOf, TypeInv, TypeOK, RowsOK
<1> QED
  BY <1>1 DEF Keeps

LEMMA Collects ==
    ASSUME TypeInv, NEW i \in Invoices, state[i] = "processing", taken[i] = 0,
           Promise!Ended(i), taken' = [taken EXCEPT ![i] = 1], UNCHANGED <<period, state>>
    PROVE  Keeps
<1>1. Bill[i] = "due" /\ Bill' = Bill
  BY DEF Bill, BillOf
<1> QED
  BY <1>1 DEF Keeps, Bill, Promise!Next, Promise!Collect, Promise!Invoices, Invoices

LEMMA Settles ==
    ASSUME TypeInv, NEW i \in Invoices, state[i] = "processing", taken[i] = 1,
           state' = [state EXCEPT ![i] = "paid"], UNCHANGED <<period, taken>>
    PROVE  Keeps
<1>1. Bill[i] = "due" /\ Bill' = [Bill EXCEPT ![i] = "settled"]
  BY DEF Bill, BillOf, TypeInv, TypeOK, RowsOK
<1> QED
  BY <1>1 DEF Keeps, Bill, Promise!Next, Promise!Settle, Promise!Invoices, Invoices

LEMMA Waives ==
    ASSUME TypeInv, Unpaids, NEW c \in Customers,
           state' = [k \in Invoices |-> IF k \in Sealed(c) THEN "failed" ELSE state[k]],
           UNCHANGED <<period, taken>>
    PROVE  Keeps
<1>1. Sealed(c) \in SUBSET ({c} \X Cycles) /\ Sealed(c) \subseteq Invoices
  BY DEF Sealed, InvoicesOf, Invoices
<1>2. \A k \in Sealed(c) : Bill[k] = "due" /\ taken[k] = 0
  BY <1>1 DEF Sealed, Bill, BillOf, Unpaids
<1>3. Bill' = [k \in Invoices |-> IF k \in Sealed(c) THEN "waived" ELSE Bill[k]]
  BY <1>1 DEF Bill, BillOf
<1>4. Promise!Waive(c)
  <2> HIDE DEF Sealed, Bill
  <2>1. /\ \A k \in Sealed(c) : Bill[k] = "due" /\ taken[k] = 0
        /\ Bill' = [k \in Customers \X Cycles |-> IF k \in Sealed(c) THEN "waived" ELSE Bill[k]]
    BY <1>2, <1>3 DEF Invoices
  <2> QED
    BY <1>1, <2>1 DEF Promise!Waive, Promise!Invoices, Bill
<1> QED
  BY <1>4 DEF Keeps, Promise!Next

LEMMA Closes ==
    ASSUME TypeInv, NEW c \in Customers, c \notin Cancelling,
           period' = [period EXCEPT ![c] = period[c] + 1], UNCHANGED <<state, taken>>
    PROVE  Keeps
<1>1. Bill' = Bill
  BY DEF Bill, BillOf
<1> QED
  BY <1>1 DEF Keeps, Bill, Promise!Next, Promise!Close

(* One row changes while the run goes on with it.                          *)
LEMMA UnpaidsKept ==
    ASSUME TypeInv, Unpaids, NEW i \in Invoices, NEW s,
           state' = [state EXCEPT ![i] = s], UNCHANGED <<period, taken>>,
           s \in {"none", "open", "dunning"} => taken[i] = 0,
           s = "dunning" => Promise!Ended(i)
    PROVE  Unpaids'
BY CyclesStay DEF Unpaids, TypeInv, TypeOK, RowsOK

LEMMA RunWrites ==
    ASSUME Undisturbed, TypeInv, PromiseInv, NEW j \in Jobs, NEW l, Goto(j, l),
           \A q \in Procs : q # j => at'[q] = at[q],
           l \notin GeneratePCs, UNCHANGED <<period, phase, todo>>,
           Unpaids', Knows(j)'
    PROVE  PromiseInv'
<1>1. Lists'
  BY PeriodsStay, ListsShrink DEF PromiseInv
<1> QED
  BY <1>1, PeriodsStay, RunMoves

----------------------------------------------------------------------------
(* The steps.                                                              *)
LEMMA TimePromise ==
    ASSUME TypeInv, PromiseInv, NextDay \/ \E c \in Customers : PeriodEnds(c)
    PROVE  PromiseInv' /\ Keeps
BY NobodyMoves DEF NextDay, PeriodEnds

LEMMA HeadsPromise ==
    ASSUME Undisturbed, TypeInv, PromiseInv, NEW j \in Jobs,
           StartJob(j) \/ StartRetries(j) \/ StartDowngrades(j) \/ FinishJob(j)
    PROVE  PromiseInv' /\ Keeps
<1> USE DEF StartJob, StartRetries, StartDowngrades, FinishJob, LoopEnds
<1>1. PICK l \in {"next", "idle"} : Goto(j, l)
  BY LocalTypes DEF Goto
<1>2. pc'[j] = l /\ l \notin GeneratePCs
  BY <1>1, LocalTypes DEF Goto, Procs, GeneratePCs
<1>3. Knows(j)'
  BY <1>2 DEF Knows, RunPCs, GeneratePCs, ChargePCs
<1>4. UNCHANGED <<period, state, taken, at>>
  OBVIOUS
<1>5. Lists'
  <2>1. CASE StartJob(j)
    <3>1. todo'[j] \subseteq {i \in Invoices : i[2] = period[i[1]]}
      BY <2>1, LocalTypes
    <3>2. \A i \in Invoices : period[i[1]] \in Int
      BY DEF Invoices, TypeInv, TypeOK, RowsOK, Cycles
    <3> QED
      BY <1>4, <3>1, <3>2 DEF Lists, Begun, Undisturbed
  <2>2. CASE StartRetries(j) \/ StartDowngrades(j)
    <3>1. phase'[j] # "renew"
      BY <2>2 DEF TypeInv, TypeOK, LocalsOK
    <3> QED
      BY <3>1 DEF Lists, Undisturbed
  <2>3. CASE FinishJob(j)
    BY <2>3, <1>4, CyclesStay DEF PromiseInv, Lists
  <2> QED
    BY <2>1, <2>2, <2>3
<1> QED
  BY <1>1, <1>2, <1>3, <1>4, <1>5, RunMoves, PeriodsStay, StateStays DEF PromiseInv

LEMMA CancelPromise ==
    ASSUME Undisturbed, TypeInv, PromiseInv, NEW j \in Jobs, NEW i \in Invoices,
           CancelAtPeriodEnd(j, i)
    PROVE  PromiseInv' /\ Keeps
<1> USE DEF CancelAtPeriodEnd
<1> j \in Procs
  BY DEF Procs
<1>1. UNCHANGED <<period, state, taken, phase>> /\ \A k \in Jobs : todo'[k] \subseteq todo[k]
  BY Visits
<1>2. Begun(i) /\ Promise!Ended(i)
  BY DEF PromiseInv, Lists, Promise!Ended
<1>3. CASE account[i[1]] = "ACTIVE"
  <2>1. TakeUp(j, i) /\ Goto(j, "existing")
    BY <1>3
  <2>2. at'[j] = i /\ pc'[j] = "existing" /\ \A q \in Procs : q # j => at'[q] = at[q]
    BY <2>1, LocalTypes DEF TakeUp, Goto
  <2>3. Knows(j)' /\ Begun(at[j])'
    BY <1>1, <1>2, <2>2, CyclesStay DEF Knows, Begun, Promise!Ended
  <2> QED
    BY <1>1, <2>1, <2>2, <2>3, RunMovesStill
<1>4. CASE account[i[1]] # "ACTIVE"
  <2>1. UNCHANGED <<at, pc>> /\ Goto(j, "next") /\ pc[j] = "next"
    BY <1>4, LocalTypes DEF Goto
  <2>2. Knows(j)' /\ "next" \notin GeneratePCs
    BY <2>1 DEF Knows, RunPCs, GeneratePCs, ChargePCs
  <2> QED
    BY <1>1, <2>1, <2>2, RunMovesStill
<1> QED
  BY <1>3, <1>4

LEMMA RollPromise ==
    ASSUME Undisturbed, TypeInv, TypeInv', PromiseInv, NEW j \in Jobs, NEW i \in Invoices,
           Roll(j, i)
    PROVE  PromiseInv' /\ Keeps
<1> USE DEF Roll
<1> j \in Procs
  BY DEF Procs
<1>1. UNCHANGED <<state, taken, phase>> /\ \A k \in Jobs : todo'[k] \subseteq todo[k]
  BY Visits
<1>2. CASE StillRead(i)
  <2>1. /\ TakeUp(j, i) /\ Goto(j, "existing")
        /\ period' = [period EXCEPT ![i[1]] = i[2] + 1]
        /\ period[i[1]] = i[2] /\ i[1] \in Customers /\ i[1] \notin Cancelling
        /\ i[2] \in Int
    BY <1>2 DEF StillRead, Invoices, Cycles
  <2>2. at'[j] = i /\ pc'[j] = "existing" /\ \A q \in Procs : q # j => at'[q] = at[q]
    BY <2>1, LocalTypes DEF TakeUp, Goto
  <2>3. PeriodsGrow /\ period'[i[1]] = i[2] + 1
    BY <2>1 DEF PeriodsGrow, TypeInv, TypeOK, RowsOK, Cycles
  <2>4. Knows(j)' /\ Begun(at[j])'
    BY <2>1, <2>2, <2>3 DEF Knows, Begun, Promise!Ended
  <2>5. Unpaids'
    BY <1>1, <2>3, CyclesBegin DEF PromiseInv, Unpaids
  <2>6. Lists'
    BY <1>1, <2>3, ListsShrink DEF PromiseInv
  <2>7. Keeps
    BY <1>1, <2>1, Closes
  <2> QED
    BY <2>1, <2>2, <2>3, <2>4, <2>5, <2>6, <2>7, RunMoves
<1>3. CASE ~StillRead(i)
  <2>1. UNCHANGED <<at, pc, period>> /\ Goto(j, "next") /\ pc[j] = "next"
    BY <1>3, LocalTypes DEF Goto
  <2>2. Knows(j)' /\ "next" \notin GeneratePCs
    BY <2>1 DEF Knows, RunPCs, GeneratePCs, ChargePCs
  <2> QED
    BY <1>1, <2>1, <2>2, RunMovesStill
<1> QED
  BY <1>2, <1>3

(* The run, and a request, generate an invoice.                            *)
LEMMA GeneratedGoes ==
    ASSUME TypeInv, NEW p \in Procs, NEW sum, Generated(p, sum)
    PROVE  \/ p \in Jobs /\ Goto(p, "charge") /\ UNCHANGED at
           \/ Leave(p)
BY DEF Generated

LEMMA RunGenerates ==
    ASSUME InvoiceAssumption, Undisturbed, TypeInv, PromiseInv, NEW j \in Jobs,
           GenerateStep(j)
    PROVE  PromiseInv' /\ Keeps
<1> j \in Procs
  BY DEF Procs
<1> USE DEF GenerateStep, FindExisting, ReadUsage, CreateInvoice
<1>1. /\ pc[j] \in GeneratePCs /\ at[j] \in Invoices /\ phase[j] = "renew"
      /\ Promise!Ended(at[j]) /\ Begun(at[j])
  <2>1. pc[j] \in GeneratePCs
    BY DEF GeneratePCs
  <2> QED
    BY <2>1, WorksOn DEF PromiseInv, Knows, Generates, RunPCs, WorkPCs, PCs, JobPCs,
                         RestPCs, GeneratePCs
<1>2. UNCHANGED <<period, taken, phase, todo>> /\ \A k \in Jobs : todo'[k] \subseteq todo[k]
  OBVIOUS
<1>3. ASSUME UNCHANGED <<state, at>>, NEW l \in {"usage", "create", "charge"}, Goto(j, l)
      PROVE  PromiseInv' /\ Keeps
  <2>1. pc'[j] = l
    BY <1>3, LocalTypes DEF Goto
  <2>2. Knows(j)' /\ Begun(at[j])'
    BY <1>1, <1>2, <1>3, <2>1, CyclesStay DEF Knows, GeneratePCs
  <2> QED
    BY <1>2, <1>3, <2>2, RunMovesStill
<1>4. ASSUME UNCHANGED state, Leave(j) PROVE PromiseInv' /\ Keeps
  BY <1>2, <1>4, RunLeaves
<1>5. CASE FindExisting(j) \/ ReadUsage(j)
  BY <1>3, <1>4, <1>5, GeneratedGoes
<1>6. CASE CreateInvoice(j) /\ UNCHANGED state
  BY <1>3, <1>4, <1>6, GeneratedGoes
<1>7. CASE CreateInvoice(j) /\ state' # state
  <2>1. /\ state[at[j]] = "none" /\ state' = [state EXCEPT ![at[j]] = "open"]
        /\ Generated(j, amount[j])
    BY <1>7
  <2>2. PICK l \in {"charge", "next"} : Goto(j, l)
    BY <2>1, GeneratedGoes DEF Leave, LoopHead
  <2>3. pc'[j] = l /\ l \notin GeneratePCs
    BY <2>2, LocalTypes DEF Goto, GeneratePCs
  <2>4. \A q \in Procs : q # j => at'[q] = at[q]
    BY <2>1, GeneratedGoes, LocalTypes DEF Leave, TakeUp
  <2>5. l = "charge" => UNCHANGED at
    BY <2>1, <2>2, <2>3, GeneratedGoes, LocalTypes DEF Leave, LoopHead, Goto
  <2>6. Knows(j)'
    BY <1>1, <1>2, <2>3, <2>5, CyclesStay DEF Knows, RunPCs, GeneratePCs, ChargePCs
  <2>7. Unpaids' /\ Keeps
    BY <1>1, <1>2, <2>1, Issues, UnpaidsKept DEF PromiseInv, Unpaids
  <2> QED
    BY <1>2, <2>2, <2>3, <2>4, <2>6, <2>7, RunWrites
<1> QED
  BY <1>5, <1>6, <1>7

LEMMA RequestGenerates ==
    ASSUME InvoiceAssumption, TypeInv, PromiseInv, NEW r \in Reqs, GenerateStep(r)
    PROVE  PromiseInv' /\ Keeps
<1> r \in Procs /\ r \notin Jobs
  BY InvoiceAssumption DEF InvoiceAssumption, Procs
<1> USE DEF GenerateStep, FindExisting, ReadUsage, CreateInvoice
<1>1. at[r] \in Invoices /\ Begun(at[r])
  <2>1. pc[r] \in GeneratePCs
    BY DEF GeneratePCs
  <2> QED
    BY <2>1, WorksOn DEF PromiseInv, Generates, WorkPCs, PCs, JobPCs, RestPCs, GeneratePCs
<1>2. UNCHANGED <<period, taken, phase, todo>>
  OBVIOUS
<1>3. \/ \E l \in {"usage", "create"} : Goto(r, l) /\ UNCHANGED <<at, state>>
      \/ Leave(r)
  BY GeneratedGoes
<1>4. \/ UNCHANGED state
      \/ state[at[r]] = "none" /\ state' = [state EXCEPT ![at[r]] = "open"]
  OBVIOUS
<1>5. Keeps
  BY <1>1, <1>2, <1>4, Issues, StateStays
<1>6. CASE \E l \in {"usage", "create"} : Goto(r, l) /\ UNCHANGED <<at, state>>
  <2>1. PICK l \in {"usage", "create"} : Goto(r, l) /\ UNCHANGED <<at, state>>
    BY <1>6
  <2>2. Begun(at[r])'
    BY <1>1, <1>2, <2>1 DEF Begun
  <2> QED
    BY <1>2, <1>5, <2>1, <2>2, RequestMoves
<1>7. CASE Leave(r)
  <2>1. Goto(r, "done") /\ "done" \notin GeneratePCs /\ \A q \in Procs : q # r => at'[q] = at[q]
    BY <1>7, LocalTypes DEF Leave, LoopHead, TakeUp, GeneratePCs
  <2> QED
    BY <1>1, <1>2, <1>4, <1>5, <2>1, RequestMoves
<1> QED
  BY <1>3, <1>6, <1>7

(* The run charges an invoice.                                             *)
LEMMA ChargedGoes ==
    ASSUME NEW j \in Jobs, NEW paid \in BOOLEAN, Charged(j, paid)
    PROVE  \/ phase[j] = "retry" /\ ~paid /\ Goto(j, "resched") /\ UNCHANGED at
           \/ Leave(j)
BY DEF Charged

LEMMA RunWorks ==
    ASSUME TypeInv, PromiseInv, NEW j \in Jobs,
           pc[j] \in ChargePCs \cup {"reopen", "resched"}
    PROVE  /\ j \in Procs /\ at[j] \in Invoices
           /\ Knows(j) /\ Promise!Ended(at[j])
<1>1. j \in Procs /\ pc[j] \in WorkPCs
  BY DEF Procs, WorkPCs, PCs, JobPCs, RestPCs, ChargePCs
<1> QED
  BY <1>1, WorksOn DEF PromiseInv, Knows, RunPCs

LEMMA ReadForChargePromise ==
    ASSUME Undisturbed, TypeInv, PromiseInv, NEW j \in Jobs, ReadForCharge(j)
    PROVE  PromiseInv' /\ Keeps
<1> USE DEF ReadForCharge
<1>1. /\ j \in Procs /\ at[j] \in Invoices /\ Knows(j) /\ Promise!Ended(at[j])
  BY RunWorks DEF ChargePCs
<1>2. UNCHANGED <<period, state, taken, phase, todo>>
  OBVIOUS
<1>3. CASE Leave(j)
  BY <1>2, <1>3, RunLeaves
<1>4. CASE Goto(j, "claim") /\ UNCHANGED at
  <2>1. pc'[j] = "claim" /\ "claim" \notin GeneratePCs
    BY <1>1, <1>4, LocalTypes DEF Goto, GeneratePCs
  <2>2. Knows(j)'
    BY <1>1, <1>2, <1>4, <2>1, CyclesStay DEF Knows
  <2> QED
    BY <1>2, <1>4, <2>1, <2>2, RunMovesStill
<1> QED
  BY <1>3, <1>4, ChargedGoes

LEMMA ClaimInvoicePromise ==
    ASSUME Undisturbed, TypeInv, PromiseInv, NEW j \in Jobs, ClaimInvoice(j)
    PROVE  PromiseInv' /\ Keeps
<1> USE DEF ClaimInvoice
<1>1. /\ j \in Procs /\ at[j] \in Invoices /\ Knows(j) /\ Promise!Ended(at[j])
  BY RunWorks DEF ChargePCs
<1>2. UNCHANGED <<period, taken, phase, todo>>
  OBVIOUS
<1>3. CASE Claimable(at[j])
  <2>1. /\ state[at[j]] = "open" /\ taken[at[j]] = 0
        /\ state' = [state EXCEPT ![at[j]] = "processing"]
        /\ Goto(j, "gateway") /\ UNCHANGED at
    BY <1>1, <1>3 DEF Claimable, PromiseInv, Unpaids
  <2>2. pc'[j] = "gateway" /\ "gateway" \notin GeneratePCs /\ state'[at[j]] = "processing"
    BY <1>1, <2>1, LocalTypes DEF Goto, GeneratePCs, TypeInv, TypeOK, RowsOK
  <2>3. Knows(j)'
    BY <1>1, <1>2, <2>1, <2>2, CyclesStay DEF Knows, GeneratePCs
  <2>4. Unpaids' /\ Keeps
    BY <1>1, <1>2, <2>1, StaysDue, UnpaidsKept DEF PromiseInv, Due
  <2> QED
    BY <1>2, <2>1, <2>2, <2>3, <2>4, RunWrites
<1>4. CASE ~Claimable(at[j])
  <2>1. phase[j] # "retry"
    BY <1>1, <1>4 DEF Claimable, Knows
  <2>2. Leave(j) /\ UNCHANGED state
    BY <1>4, <2>1, ChargedGoes
  <2> QED
    BY <1>2, <2>2, RunLeaves
<1> QED
  BY <1>3, <1>4

(* No answer is lost.                                                      *)
LEMMA GatewayPromise ==
    ASSUME Undisturbed, TypeInv, PromiseInv, NEW j \in Jobs,
           GatewayCaptures(j) \/ GatewayDeclines(j) \/ GatewayCapturesLate(j)
    PROVE  PromiseInv' /\ Keeps
<1> USE DEF GatewayCaptures, GatewayDeclines, GatewayCapturesLate
<1>1. /\ j \in Procs /\ at[j] \in Invoices /\ Knows(j) /\ Promise!Ended(at[j])
      /\ state[at[j]] = "processing" /\ taken[at[j]] = 0
  BY RunWorks DEF ChargePCs, Knows
<1>2. ~GatewayCapturesLate(j)
  BY DEF Undisturbed, TypeInv, TypeOK, CountersOK
<1>3. UNCHANGED <<period, state, phase, todo, at>>
  OBVIOUS
<1>4. CASE GatewayCaptures(j)
  <2>1. Goto(j, "paid") /\ taken' = [taken EXCEPT ![at[j]] = 1]
    BY <1>1, <1>4 DEF TypeInv, TypeOK, CountersOK
  <2>2. pc'[j] = "paid" /\ "paid" \notin GeneratePCs /\ taken'[at[j]] = 1
    BY <1>1, <2>1, LocalTypes DEF Goto, GeneratePCs, TypeInv, TypeOK, CountersOK
  <2>3. Knows(j)'
    BY <1>1, <1>3, <2>2, CyclesStay DEF Knows, GeneratePCs
  <2>4. Keeps
    BY <1>1, <1>3, <2>1, Collects
  <2>5. Unpaids'
    BY <1>1, <1>3, <2>1, CyclesStay DEF PromiseInv, Unpaids, TypeInv, TypeOK, CountersOK
  <2> QED
    BY <1>3, <2>1, <2>2, <2>3, <2>4, <2>5, RunWrites
<1>5. CASE GatewayDeclines(j)
  <2>1. Goto(j, "dun") /\ UNCHANGED taken
    BY <1>5 DEF AfterDecline
  <2>2. pc'[j] = "dun" /\ "dun" \notin GeneratePCs
    BY <1>1, <2>1, LocalTypes DEF Goto, GeneratePCs
  <2>3. Knows(j)'
    BY <1>1, <1>3, <2>1, <2>2, CyclesStay DEF Knows, GeneratePCs
  <2> QED
    BY <1>3, <2>1, <2>2, <2>3, RunMovesStill
<1> QED
  BY <1>2, <1>4, <1>5

LEMMA MarkPaidPromise ==
    ASSUME Undisturbed, TypeInv, PromiseInv, NEW j \in Jobs, MarkPaid(j)
    PROVE  PromiseInv' /\ Keeps
<1> USE DEF MarkPaid
<1>1. /\ j \in Procs /\ at[j] \in Invoices /\ Knows(j) /\ Promise!Ended(at[j])
      /\ state[at[j]] = "processing" /\ taken[at[j]] = 1
  BY RunWorks DEF ChargePCs, Knows
<1>2. pc'[j] = "clear" /\ "clear" \notin GeneratePCs
  BY <1>1, LocalTypes DEF Goto, GeneratePCs
<1>3. Knows(j)'
  BY <1>1, <1>2, CyclesStay DEF Knows, GeneratePCs
<1>4. Unpaids' /\ Keeps
  BY <1>1, Settles, UnpaidsKept DEF PromiseInv
<1> QED
  BY <1>2, <1>3, <1>4, RunWrites

LEMMA ClearDunningPromise ==
    ASSUME Undisturbed, TypeInv, PromiseInv, NEW j \in Jobs, ClearDunning(j)
    PROVE  PromiseInv' /\ Keeps
<1>1. Leave(j) /\ UNCHANGED <<period, state, taken, phase, todo>>
  BY ChargedGoes DEF ClearDunning
<1> QED
  BY <1>1, RunLeaves

LEMMA EnterDunningPromise ==
    ASSUME Undisturbed, TypeInv, PromiseInv, NEW j \in Jobs, EnterDunning(j)
    PROVE  PromiseInv' /\ Keeps
<1> USE DEF EnterDunning
<1>1. /\ j \in Procs /\ at[j] \in Invoices /\ Knows(j) /\ Promise!Ended(at[j])
      /\ state[at[j]] = "processing" /\ taken[at[j]] = 0
  BY RunWorks DEF ChargePCs, Knows
<1>2. /\ state' = [state EXCEPT ![at[j]] = "dunning"]
      /\ UNCHANGED <<period, taken, phase, todo>>
  BY DEF DunInvoice, Unpaid
<1>3. PICK l \in {"next", "resched"} : Goto(j, l)
  BY ChargedGoes DEF Leave, LoopHead
<1>4. pc'[j] = l /\ l \notin GeneratePCs
  BY <1>1, <1>3, LocalTypes DEF Goto, GeneratePCs
<1>5. \A q \in Procs : q # j => at'[q] = at[q]
  BY ChargedGoes, LocalTypes DEF Leave, TakeUp
<1>6. l = "resched" => UNCHANGED at
  BY <1>1, <1>3, <1>4, ChargedGoes, LocalTypes DEF Leave, LoopHead, Goto
<1>7. Knows(j)'
  BY <1>1, <1>2, <1>4, <1>6, CyclesStay
     DEF Knows, RunPCs, GeneratePCs, ChargePCs, TypeInv, TypeOK, RowsOK
<1>8. Unpaids' /\ Keeps
  BY <1>1, <1>2, StaysDue, UnpaidsKept DEF PromiseInv, Due
<1> QED
  BY <1>2, <1>3, <1>4, <1>5, <1>7, <1>8, RunWrites

----------------------------------------------------------------------------
(* The run tries again, and gives up.                                      *)
LEMMA ReadForRetryPromise ==
    ASSUME Undisturbed, TypeInv, PromiseInv, NEW j \in Jobs, NEW i \in Invoices,
           ReadForRetry(j, i)
    PROVE  PromiseInv' /\ Keeps
<1> USE DEF ReadForRetry
<1> j \in Procs
  BY DEF Procs
<1>1. /\ UNCHANGED <<period, state, taken, phase>> /\ phase[j] = "retry"
      /\ \A k \in Jobs : todo'[k] \subseteq todo[k]
  BY Visits
<1>2. CASE state[i] = "dunning"
  <2>1. TakeUp(j, i) /\ Goto(j, "reopen") /\ Promise!Ended(i)
    BY <1>2 DEF PromiseInv, Unpaids
  <2>2. /\ at'[j] = i /\ pc'[j] = "reopen" /\ "reopen" \notin GeneratePCs
        /\ \A q \in Procs : q # j => at'[q] = at[q]
    BY <2>1, LocalTypes DEF TakeUp, Goto, GeneratePCs
  <2>3. Knows(j)'
    BY <1>1, <1>2, <2>1, <2>2, CyclesStay DEF Knows
  <2> QED
    BY <1>1, <2>1, <2>2, <2>3, RunMovesStill
<1>3. CASE state[i] # "dunning"
  <2>1. UNCHANGED <<at, pc>> /\ Goto(j, "next") /\ pc[j] = "next"
    BY <1>3, LocalTypes DEF Goto
  <2>2. Knows(j)' /\ "next" \notin GeneratePCs
    BY <2>1 DEF Knows, RunPCs, GeneratePCs, ChargePCs
  <2> QED
    BY <1>1, <2>1, <2>2, RunMovesStill
<1> QED
  BY <1>2, <1>3

LEMMA ReopenPromise ==
    ASSUME Undisturbed, TypeInv, PromiseInv, NEW j \in Jobs, Reopen(j)
    PROVE  PromiseInv' /\ Keeps
<1> USE DEF Reopen
<1>1. /\ j \in Procs /\ at[j] \in Invoices /\ Promise!Ended(at[j])
      /\ state[at[j]] = "dunning" /\ taken[at[j]] = 0
  BY RunWorks DEF Knows, PromiseInv, Unpaids
<1>2. /\ pc'[j] = "charge" /\ "charge" \notin GeneratePCs
      /\ state'[at[j]] = "open"
  BY <1>1, LocalTypes DEF Goto, GeneratePCs, TypeInv, TypeOK, RowsOK
<1>3. Knows(j)'
  BY <1>1, <1>2, CyclesStay DEF Knows
<1>4. Unpaids' /\ Keeps
  BY <1>1, StaysDue, UnpaidsKept DEF PromiseInv, Due
<1> QED
  BY <1>2, <1>3, <1>4, RunWrites

LEMMA ReschedulePromise ==
    ASSUME Undisturbed, TypeInv, PromiseInv, NEW j \in Jobs, Reschedule(j)
    PROVE  PromiseInv' /\ Keeps
<1> USE DEF Reschedule
<1>1. /\ j \in Procs /\ at[j] \in Invoices /\ state[at[j]] = "dunning"
  BY RunWorks DEF Knows
<1>2. UNCHANGED <<period, state, taken, phase, todo>>
  BY <1>1 DEF TypeInv, TypeOK, RowsOK
<1> QED
  BY <1>2, RunLeaves

LEMMA SealFailedPromise ==
    ASSUME Undisturbed, TypeInv, PromiseInv, NEW j \in Jobs, NEW i \in Invoices,
           SealFailed(j, i)
    PROVE  PromiseInv' /\ Keeps
<1> USE DEF SealFailed
<1> j \in Procs /\ i[1] \in Customers
  BY DEF Procs, Invoices
<1>1. UNCHANGED <<period, taken, phase>> /\ \A k \in Jobs : todo'[k] \subseteq todo[k]
  BY Visits
<1>2. /\ pc'[j] = "reset" /\ "reset" \notin GeneratePCs
      /\ \A q \in Procs : q # j => at'[q] = at[q]
  BY LocalTypes DEF Goto, TakeUp, GeneratePCs
<1>3. Knows(j)'
  BY <1>2 DEF Knows, RunPCs, GeneratePCs, ChargePCs
<1>4. Unpaids'
  BY <1>1, CyclesStay DEF PromiseInv, Unpaids
<1>5. Keeps
  BY <1>1, Waives DEF PromiseInv
<1>6. Lists'
  BY <1>1, ListsShrink, PeriodsStay DEF PromiseInv
<1> QED
  BY <1>1, <1>2, <1>3, <1>4, <1>5, <1>6, PeriodsStay, RunMoves

LEMMA ResetAccountPromise ==
    ASSUME Undisturbed, TypeInv, PromiseInv, NEW j \in Jobs, ResetAccount(j)
    PROVE  PromiseInv' /\ Keeps
BY RunLeaves DEF ResetAccount

(* Requests.                                                               *)
LEMMA RequestPromise ==
    ASSUME InvoiceAssumption, TypeInv, PromiseInv, NEW r \in Reqs, RequestStep(r)
    PROVE  PromiseInv' /\ Keeps
<1> r \in Procs /\ r \notin Jobs
  BY InvoiceAssumption DEF InvoiceAssumption, Procs
<1>1. ASSUME NEW c \in Customers, StartRecording(r, c) \/ StartGenerating(r, c)
      PROVE  PromiseInv' /\ Keeps
  <2> USE DEF StartRecording, StartGenerating
  <2>1. PICK l \in {"record", "existing"} : Goto(r, l)
    BY <1>1
  <2>2. UNCHANGED <<period, state, taken, phase, todo>>
    BY <1>1
  <2>3. at'[r] = <<c, period[c]>> /\ \A q \in Procs : q # r => at'[q] = at[q]
    BY <1>1, LocalTypes DEF TakeUp
  <2>4. period[c] \in Int
    BY DEF TypeInv, TypeOK, RowsOK, Cycles
  <2>5. Begun(at[r])'
    BY <2>2, <2>3, <2>4 DEF Begun
  <2> QED
    BY <2>1, <2>2, <2>3, <2>5, RequestMoves, StateStays
<1>2. ASSUME NEW c \in Customers, PaymentFailedNotice(r, c) PROVE PromiseInv' /\ Keeps
  <2>1. Goto(r, "done") /\ UNCHANGED <<period, state, taken, phase, todo, at>>
    BY <1>2 DEF PaymentFailedNotice
  <2> QED
    BY <2>1, RequestMoves, StateStays DEF GeneratePCs
<1>3. CASE RecordUsage(r)
  <2>1. Goto(r, "done") /\ UNCHANGED <<period, state, taken, phase, todo>>
    BY <1>3 DEF RecordUsage, Leave, LoopHead
  <2>2. \A q \in Procs : q # r => at'[q] = at[q]
    BY <1>3, LocalTypes DEF RecordUsage, Leave, TakeUp
  <2> QED
    BY <2>1, <2>2, RequestMoves, StateStays DEF GeneratePCs
<1>4. CASE GenerateStep(r)
  BY <1>4, RequestGenerates
<1> QED
  BY <1>1, <1>2, <1>3, <1>4 DEF RequestStep

(* Statements do not fail; after a restart nobody remembers anything.      *)
LEMMA FailurePromise ==
    ASSUME Undisturbed, TypeInv, PromiseInv, Failure
    PROVE  PromiseInv' /\ Keeps
<1>1. ~Fault
  BY DEF Fault, Undisturbed, TypeInv, TypeOK, CountersOK
<1>2. CrashAndRestart
  BY <1>1 DEF Failure, WorkFails, VisitFails, RunFails, AccountingFails, DunningFails
<1>3. UNCHANGED <<period, state, taken>> /\ \A p \in Procs : pc'[p] \in RestPCs
  BY <1>2 DEF CrashAndRestart, InFlight, RestPCs
<1>4. \A j \in Jobs : Knows(j)'
  BY <1>3 DEF Knows, RunPCs, GeneratePCs, ChargePCs, RestPCs, Procs
<1>5. \A p \in Procs : Generates(p)'
  BY <1>3 DEF Generates, GeneratePCs, RestPCs
<1>6. Lists'
  BY <1>2 DEF Lists, CrashAndRestart
<1> QED
  BY <1>3, <1>4, <1>5, <1>6, StateStays DEF PromiseInv

LEMMA NextPromise ==
    ASSUME InvoiceAssumption, Undisturbed, TypeInv, PromiseInv, [Next]_vars
    PROVE  PromiseInv' /\ Keeps
<1>1. CASE NextDay \/ \E c \in Customers : PeriodEnds(c)
  BY <1>1, TimePromise
<1>2. ASSUME NEW j \in Jobs, StartJob(j) \/ JobStep(j) PROVE PromiseInv' /\ Keeps
  <2>1. CASE StartJob(j) \/ StartRetries(j) \/ StartDowngrades(j) \/ FinishJob(j)
    BY <2>1, HeadsPromise
  <2>2. ASSUME NEW i \in Invoices,
               CancelAtPeriodEnd(j, i) \/ Roll(j, i) \/ ReadForRetry(j, i)
                   \/ SealFailed(j, i)
        PROVE  PromiseInv' /\ Keeps
    BY <2>2, NextTypeInv, CancelPromise, RollPromise, ReadForRetryPromise,
       SealFailedPromise
  <2>3. CASE GenerateStep(j)
    BY <2>3, RunGenerates
  <2>4. CASE ChargeStep(j)
    BY <2>4, ReadForChargePromise, ClaimInvoicePromise, GatewayPromise, MarkPaidPromise,
       ClearDunningPromise, EnterDunningPromise DEF ChargeStep
  <2>5. CASE Reopen(j) \/ Reschedule(j) \/ ResetAccount(j)
    BY <2>5, ReopenPromise, ReschedulePromise, ResetAccountPromise
  <2> QED
    BY <1>2, <2>1, <2>2, <2>3, <2>4, <2>5 DEF JobStep
<1>3. ASSUME NEW r \in Reqs, RequestStep(r) PROVE PromiseInv' /\ Keeps
  BY <1>3, RequestPromise
<1>4. CASE Failure
  BY <1>4, FailurePromise
<1>5. CASE UNCHANGED vars
  BY <1>5, NobodyMoves DEF vars
<1> QED
  BY <1>1, <1>2, <1>3, <1>4, <1>5 DEF Next

(* When one instance runs the daily billing, its statements do not fail    *)
(* and the gateway's answers arrive, BillingJobsService and                *)
(* InvoiceBillingService keep the promise to the customer through any      *)
(* number of restarts and requests: a cycle is closed in order and         *)
(* invoiced once, an invoice is collected at most once and only after its  *)
(* cycle has ended, it is settled by that money or waived without any.     *)
THEOREM InvoiceKeepsPromise ==
    ASSUME Undisturbed
    PROVE  Spec => KeepsPromise
<1>1. Init => TypeInv /\ PromiseInv /\ Promise!Init
  BY InitTypeInv, InitPromise, InvoiceAssumption
<1>2. TypeInv /\ PromiseInv /\ [Next]_vars
          => PromiseInv' /\ [Promise!Next]_<<period, Bill, taken>>
  BY NextPromise, InvoiceAssumption DEF Keeps
<1> QED
  BY <1>1, <1>2, InvoiceTypeInvariant, PTL DEF Spec, KeepsPromise, Promise!Spec, Promise!vars, Bill

----------------------------------------------------------------------------
(* An unpaid invoice blocks the next renewal.                              *)

(* Nobody owes two invoices, who owes one is past due, and the run takes   *)
(* up, and asks the money of, only customers who owe nothing else.         *)
Clear(c) == \A i \in Invoices : i[1] = c => state[i] # "dunning"
ClearPCs == GeneratePCs \cup ChargePCs \cup {"reset"}
OweOne ==
    \A i, k \in Invoices :
        state[i] = "dunning" /\ state[k] = "dunning" /\ i[1] = k[1] => i = k
PastDue == \A i \in Invoices : state[i] = "dunning" => account[i[1]] = "PAST_DUE"
Unburdened(j) ==
    /\ phase[j] = "renew" =>
           \A i \in todo[j] : Clear(i[1]) /\ \A k \in todo[j] : i[1] = k[1] => i = k
    /\ pc[j] \in ClearPCs =>
           /\ Clear(at[j][1])
           /\ phase[j] = "renew" => \A i \in todo[j] : i[1] # at[j][1]
DebtInv == OweOne /\ PastDue /\ \A j \in Jobs : Unburdened(j)

(* Most steps send no invoice to dunning and let no debtor off.            *)
Shrinks == \A i \in Invoices : state'[i] = "dunning" => state[i] = "dunning"
AccountsHold ==
    \A c \in Customers : account[c] = "PAST_DUE" => account'[c] = "PAST_DUE" \/ Clear(c)

LEMMA DebtsShrink ==
    ASSUME TypeInv, OweOne, PastDue, Shrinks, AccountsHold PROVE OweOne' /\ PastDue'
<1>1. \A i \in Invoices : i[1] \in Customers
  BY DEF Invoices
<1> QED
  BY <1>1 DEF OweOne, PastDue, Shrinks, AccountsHold, Clear

LEMMA ClearStays == ASSUME Shrinks, NEW c, Clear(c) PROVE Clear(c)'
BY DEF Shrinks, Clear

LEMMA StaysUnburdened ==
    ASSUME Shrinks, NEW j \in Jobs, Unburdened(j),
           phase'[j] = "renew" => phase[j] = "renew" /\ todo'[j] \subseteq todo[j],
           pc'[j] \in ClearPCs => at'[j] = at[j] /\ pc[j] \in ClearPCs
    PROVE  Unburdened(j)'
BY DEF Unburdened, Shrinks, Clear

LEMMA RunStaysClear ==
    ASSUME Undisturbed, TypeInv, DebtInv, Shrinks, AccountsHold, NEW j \in Jobs,
           phase'[j] = "renew" => phase[j] = "renew" /\ todo'[j] \subseteq todo[j],
           pc'[j] \in ClearPCs => at'[j] = at[j] /\ pc[j] \in ClearPCs
    PROVE  DebtInv'
<1>1. Unburdened(j)'
  BY StaysUnburdened DEF DebtInv
<1> QED
  BY <1>1, DebtsShrink DEF DebtInv, Undisturbed

LEMMA OtherStaysClear ==
    ASSUME TypeInv, DebtInv, Shrinks, AccountsHold,
           \A j \in Jobs : /\ phase'[j] = phase[j] /\ todo'[j] \subseteq todo[j]
                          /\ pc'[j] = pc[j] /\ at'[j] = at[j]
    PROVE  DebtInv'
<1>1. \A j \in Jobs : Unburdened(j)'
  BY StaysUnburdened DEF DebtInv
<1> QED
  BY <1>1, DebtsShrink DEF DebtInv

LEMMA SameStates == ASSUME UNCHANGED state PROVE Shrinks
BY DEF Shrinks

LEMMA SameAccounts == ASSUME UNCHANGED account PROVE AccountsHold
BY DEF AccountsHold

LEMMA Undunned ==
    ASSUME TypeInv, NEW i, NEW s, s # "dunning", state' = [state EXCEPT ![i] = s]
    PROVE  Shrinks
BY DEF Shrinks, TypeInv, TypeOK, RowsOK

LEMMA HeadsDebt ==
    ASSUME Undisturbed, TypeInv, DebtInv, NEW j \in Jobs,
           StartJob(j) \/ StartRetries(j) \/ StartDowngrades(j) \/ FinishJob(j)
    PROVE  DebtInv'
<1> USE DEF StartJob, StartRetries, StartDowngrades, FinishJob, LoopEnds
<1>1. Shrinks /\ AccountsHold
  BY SameStates, SameAccounts
<1>2. pc'[j] \notin ClearPCs
  <2>1. pc'[j] \in {"next", "idle"}
    BY LocalTypes DEF Goto, Procs
  <2> QED
    BY <2>1 DEF ClearPCs, GeneratePCs, ChargePCs
<1>3. CASE StartJob(j)
  <2>1. \A i \in todo'[j] :
            i \in Invoices /\ account[i[1]] = "ACTIVE" /\ i[2] = period[i[1]]
    BY <1>3, LocalTypes
  <2>2. \A i \in todo'[j] : Clear(i[1])'
    BY <2>1, <1>3 DEF DebtInv, PastDue, Clear
  <2>3. \A i, k \in todo'[j] : i[1] = k[1] => i = k
    BY <2>1 DEF Invoices
  <2>4. Unburdened(j)'
    BY <1>2, <2>2, <2>3 DEF Unburdened
  <2> QED
    BY <1>1, <2>4, DebtsShrink DEF DebtInv, Undisturbed
<1>4. CASE StartRetries(j) \/ StartDowngrades(j)
  <2>1. phase'[j] # "renew"
    BY <1>4 DEF TypeInv, TypeOK, LocalsOK
  <2> QED
    BY <1>1, <1>2, <2>1, RunStaysClear
<1>5. CASE FinishJob(j)
  BY <1>1, <1>2, <1>5, RunStaysClear
<1> QED
  BY <1>3, <1>4, <1>5

LEMMA RenewalDebt ==
    ASSUME Undisturbed, TypeInv, DebtInv, NEW j \in Jobs, NEW i \in Invoices,
           CancelAtPeriodEnd(j, i) \/ Roll(j, i)
    PROVE  DebtInv'
<1> USE DEF CancelAtPeriodEnd, Roll
<1>1. /\ UNCHANGED <<state, phase>> /\ pc[j] = "next" /\ phase[j] = "renew"
      /\ i \in todo[j] /\ todo'[j] = todo[j] \ {i}
  BY LocalTypes DEF Visited
<1>2. Clear(i[1]) /\ \A k \in todo[j] : i[1] = k[1] => i = k
  BY <1>1 DEF DebtInv, Unburdened
<1>3. Shrinks /\ AccountsHold
  BY <1>2, SameStates, SameAccounts DEF AccountsHold, Clear, TypeInv, TypeOK, RowsOK
<1>4. CASE pc'[j] = "existing" /\ at'[j] = i
  <2>1. Unburdened(j)'
    BY <1>1, <1>2, <1>3, <1>4, ClearStays DEF DebtInv, Unburdened, Clear
  <2> QED
    BY <1>3, <2>1, DebtsShrink DEF DebtInv, Undisturbed
<1>5. CASE UNCHANGED <<pc, at>>
  BY <1>1, <1>3, <1>5, RunStaysClear DEF ClearPCs
<1> QED
  BY <1>4, <1>5, LocalTypes DEF Goto, TakeUp, Procs

LEMMA RetryDebt ==
    ASSUME Undisturbed, TypeInv, PromiseInv, DebtInv, NEW j \in Jobs,
           \/ \E i \in Invoices : ReadForRetry(j, i)
           \/ Reopen(j) \/ Reschedule(j)
    PROVE  DebtInv'
<1> j \in Procs
  BY DEF Procs
<1>1. ASSUME NEW i \in Invoices, ReadForRetry(j, i) PROVE DebtInv'
  <2>1. UNCHANGED <<state, account, phase>> /\ todo'[j] \subseteq todo[j] /\ pc[j] = "next"
    BY <1>1, Visits DEF ReadForRetry
  <2>2. pc'[j] \in {"next", "reopen"}
    BY <1>1, LocalTypes DEF ReadForRetry, Goto
  <2> QED
    BY <2>1, <2>2, SameStates, SameAccounts, RunStaysClear DEF ClearPCs, GeneratePCs, ChargePCs
<1>2. CASE Reopen(j)
  <2>1. /\ at[j] \in Invoices /\ state[at[j]] = "dunning" /\ phase[j] = "retry"
    BY <1>2, RunWorks DEF Reopen, Knows
  <2>2. /\ state' = [state EXCEPT ![at[j]] = "open"]
        /\ UNCHANGED <<account, phase, todo, at>>
    BY <1>2 DEF Reopen
  <2>3. Clear(at[j][1])'
    BY <2>1, <2>2 DEF DebtInv, OweOne, Clear, TypeInv, TypeOK, RowsOK
  <2>4. Unburdened(j)'
    BY <2>1, <2>2, <2>3 DEF Unburdened, Clear
  <2>5. Shrinks /\ AccountsHold
    BY <2>2, Undunned, SameAccounts
  <2> QED
    BY <2>4, <2>5, DebtsShrink DEF DebtInv, Undisturbed
<1>3. CASE Reschedule(j)
  <2>1. /\ at[j] \in Invoices /\ state[at[j]] = "dunning"
    BY <1>3, RunWorks DEF Reschedule, Knows
  <2>2. UNCHANGED <<state, account, phase, todo>>
    BY <1>3, <2>1 DEF Reschedule, TypeInv, TypeOK, RowsOK
  <2>3. pc'[j] = "next"
    BY <1>3, LocalTypes DEF Reschedule, Leave, LoopHead, Goto
  <2> QED
    BY <2>2, <2>3, SameStates, SameAccounts, RunStaysClear DEF ClearPCs, GeneratePCs, ChargePCs
<1> QED
  BY <1>1, <1>2, <1>3

LEMMA DowngradeDebt ==
    ASSUME Undisturbed, TypeInv, DebtInv, NEW j \in Jobs,
           (\E i \in Invoices : SealFailed(j, i)) \/ ResetAccount(j)
    PROVE  DebtInv'
<1> j \in Procs
  BY DEF Procs
<1>1. ASSUME NEW i \in Invoices, SealFailed(j, i) PROVE DebtInv'
  <2>1. /\ UNCHANGED <<account, phase>> /\ phase[j] = "downgrade" /\ at'[j] = i
        /\ state' = [k \in Invoices |-> IF k \in Sealed(i[1]) THEN "failed" ELSE state[k]]
    BY <1>1, LocalTypes DEF SealFailed, TakeUp
  <2>2. \A k \in Invoices : k[1] = i[1] /\ state[k] = "dunning" => k \in Sealed(i[1])
    BY DEF Sealed, InvoicesOf, Invoices
  <2>3. Clear(i[1])'
    BY <2>1, <2>2 DEF Clear
  <2>4. Unburdened(j)'
    BY <2>1, <2>3 DEF Unburdened, Clear
  <2>5. Shrinks /\ AccountsHold
    BY <2>1, SameAccounts DEF Shrinks
  <2> QED
    BY <2>4, <2>5, DebtsShrink DEF DebtInv, Undisturbed
<1>2. CASE ResetAccount(j)
  <2>1. Clear(at[j][1])
    BY <1>2 DEF ResetAccount, DebtInv, Unburdened, ClearPCs
  <2>2. UNCHANGED <<state, phase, todo>>
    BY <1>2 DEF ResetAccount
  <2>3. Shrinks /\ AccountsHold
    BY <1>2, <2>1, <2>2, SameStates
       DEF ResetAccount, AccountsHold, TypeInv, TypeOK, RowsOK
  <2>4. pc'[j] = "next"
    BY <1>2, LocalTypes DEF ResetAccount, Leave, LoopHead, Goto
  <2> QED
    BY <2>2, <2>3, <2>4, RunStaysClear DEF ClearPCs, GeneratePCs, ChargePCs
<1> QED
  BY <1>1, <1>2

LEMMA GenerateDebt ==
    ASSUME InvoiceAssumption, Undisturbed, TypeInv, DebtInv, NEW p \in Procs, GenerateStep(p)
    PROVE  DebtInv'
<1> USE DEF GenerateStep, FindExisting, ReadUsage, CreateInvoice
<1>1. UNCHANGED <<account, phase, todo>>
  OBVIOUS
<1>2. Shrinks
  <2>1. \/ UNCHANGED state
        \/ state' = [state EXCEPT ![at[p]] = "open"]
    OBVIOUS
  <2> QED
    BY <2>1, SameStates, Undunned
<1>3. pc[p] \in ClearPCs
  BY DEF ClearPCs, GeneratePCs
<1>4. ASSUME p \in Jobs, pc'[p] \in ClearPCs PROVE at'[p] = at[p]
  <2>1. pc'[p] # "next"
    BY <1>4 DEF ClearPCs, GeneratePCs, ChargePCs
  <2> QED
    BY <1>4, <2>1, LocalTypes DEF Generated, Leave, LoopHead, Goto
<1>5. CASE p \in Jobs
  BY <1>1, <1>2, <1>3, <1>4, <1>5, SameAccounts, RunStaysClear
<1>6. CASE p \notin Jobs
  <2>1. \A j \in Jobs : pc'[j] = pc[j] /\ at'[j] = at[j]
    BY <1>6, GenerateAlone DEF Alone, Procs
  <2> QED
    BY <1>1, <1>2, <2>1, SameAccounts, OtherStaysClear
<1> QED
  BY <1>5, <1>6

LEMMA ChargeDebt ==
    ASSUME Undisturbed, TypeInv, DebtInv, NEW j \in Jobs, ChargeStep(j)
    PROVE  DebtInv'
<1> j \in Procs
  BY DEF Procs
<1> USE DEF ChargeStep, ReadForCharge, ClaimInvoice, GatewayCaptures, GatewayDeclines,
            GatewayCapturesLate, MarkPaid, ClearDunning, EnterDunning
<1>1. pc[j] \in ClearPCs /\ UNCHANGED <<phase, todo>>
  BY DEF ClearPCs, ChargePCs
<1>2. at[j] \in Invoices /\ Clear(at[j][1])
  BY <1>1, WorksOn
     DEF DebtInv, Unburdened, ChargePCs, WorkPCs, PCs, JobPCs, RestPCs
<1>3. ASSUME pc'[j] \in ClearPCs PROVE at'[j] = at[j]
  <2>1. pc'[j] # "next"
    BY <1>3 DEF ClearPCs, GeneratePCs, ChargePCs
  <2> QED
    BY <1>3, <2>1, LocalTypes DEF Charged, Leave, LoopHead, Goto
<1>4. CASE ~EnterDunning(j)
  <2>1. Shrinks
    <3>1. \/ UNCHANGED state
          \/ \E s \in {"processing", "paid"} : state' = [state EXCEPT ![at[j]] = s]
      BY <1>4
    <3> QED
      BY <3>1, SameStates, Undunned
  <2>2. AccountsHold
    BY <1>2, <1>4 DEF AccountsHold, TypeInv, TypeOK, RowsOK
  <2> QED
    BY <1>1, <1>3, <2>1, <2>2, RunStaysClear
<1>5. CASE EnterDunning(j)
  <2>1. /\ state' = [state EXCEPT ![at[j]] = "dunning"]
        /\ account' = [account EXCEPT ![at[j][1]] = "PAST_DUE"]
    BY <1>5 DEF DunInvoice, DunAccount, Unpaid
  <2>2. \A i \in Invoices : i[1] \in Customers
    BY DEF Invoices
  <2>3. OweOne'
    BY <1>2, <2>1 DEF DebtInv, OweOne, Clear, TypeInv, TypeOK, RowsOK
  <2>4. PastDue'
    BY <1>2, <2>1, <2>2 DEF DebtInv, PastDue, TypeInv, TypeOK, RowsOK
  <2>5. pc'[j] \notin ClearPCs
    <3>1. pc'[j] \in {"next", "resched"}
      BY <1>5, LocalTypes DEF Charged, Leave, LoopHead, Goto
    <3> QED
      BY <3>1 DEF ClearPCs, GeneratePCs, ChargePCs
  <2>6. ASSUME phase[j] = "renew", NEW i \in todo[j] PROVE Clear(i[1])'
    <3>1. Clear(i[1]) /\ i[1] # at[j][1]
      BY <1>1, <2>6 DEF DebtInv, Unburdened
    <3> QED
      BY <2>1, <3>1 DEF Clear, TypeInv, TypeOK, RowsOK
  <2>7. Unburdened(j)'
    BY <1>1, <2>5, <2>6 DEF DebtInv, Unburdened, Clear
  <2> QED
    BY <2>3, <2>4, <2>7 DEF DebtInv, Undisturbed
<1> QED
  BY <1>4, <1>5

LEMMA RequestDebt ==
    ASSUME InvoiceAssumption, Undisturbed, TypeInv, DebtInv, NEW r \in Reqs, RequestStep(r)
    PROVE  DebtInv'
<1> r \in Procs /\ r \notin Jobs
  BY InvoiceAssumption DEF InvoiceAssumption, Procs
<1>1. CASE GenerateStep(r)
  BY <1>1, GenerateDebt
<1>2. CASE ~GenerateStep(r)
  <2>1. UNCHANGED <<state, phase, todo>>
    BY <1>2 DEF RequestStep, StartRecording, StartGenerating, PaymentFailedNotice, RecordUsage
  <2>2. AccountsHold
    BY <1>2, SameAccounts
       DEF RequestStep, StartRecording, StartGenerating, PaymentFailedNotice, RecordUsage,
           DunAccount, AccountsHold, TypeInv, TypeOK, RowsOK
  <2>3. \A j \in Jobs : pc'[j] = pc[j] /\ at'[j] = at[j]
    BY RequestAlone DEF Alone, Procs
  <2> QED
    BY <2>1, <2>2, <2>3, SameStates, OtherStaysClear
<1> QED
  BY <1>1, <1>2

LEMMA NextDebt ==
    ASSUME InvoiceAssumption, Undisturbed, TypeInv, PromiseInv, DebtInv, [Next]_vars
    PROVE  DebtInv'
<1>1. CASE (\E c \in Customers : PeriodEnds(c)) \/ NextDay \/ UNCHANGED vars
  BY <1>1, SameStates, SameAccounts, OtherStaysClear DEF PeriodEnds, NextDay, vars
<1>2. ASSUME NEW j \in Jobs, StartJob(j) \/ JobStep(j) PROVE DebtInv'
  BY <1>2, HeadsDebt, RenewalDebt, RetryDebt, DowngradeDebt, GenerateDebt, ChargeDebt
     DEF JobStep, Procs
<1>3. ASSUME NEW r \in Reqs, RequestStep(r) PROVE DebtInv'
  BY <1>3, RequestDebt
<1>4. CASE Failure
  <2>1. ~Fault
    BY DEF Fault, Undisturbed, TypeInv, TypeOK, CountersOK
  <2>2. CrashAndRestart
    BY <1>4, <2>1 DEF Failure, WorkFails, VisitFails, RunFails, AccountingFails, DunningFails
  <2>3. UNCHANGED <<state, account, phase>> /\ \A j \in Jobs : todo'[j] = {}
    BY <2>2 DEF CrashAndRestart
  <2>4. \A j \in Jobs : pc'[j] \in RestPCs
    BY <2>2 DEF CrashAndRestart, InFlight, RestPCs, Procs
  <2>5. \A j \in Jobs : Unburdened(j)'
    BY <2>3, <2>4 DEF Unburdened, ClearPCs, GeneratePCs, ChargePCs, RestPCs
  <2> QED
    BY <2>3, <2>5, SameStates, SameAccounts, DebtsShrink DEF DebtInv
<1> QED
  BY <1>1, <1>2, <1>3, <1>4 DEF Next

(* With one instance whose statements do not fail, between two runs of it  *)
(* an unpaid invoice keeps its customer past due, and so out of the next   *)
(* renewal, and nobody owes two; however often the servers restart, and    *)
(* whatever notices of failed payments and requests come in.               *)
THEOREM InvoiceDebtBlocksRenewal ==
    ASSUME Undisturbed
    PROVE  Spec => []DebtBlocksRenewal
<1>1. Init => TypeInv /\ PromiseInv /\ DebtInv
  <2> SUFFICES ASSUME Init PROVE DebtInv
    BY InitTypeInv, InitPromise, InvoiceAssumption
  <2> QED
    BY DEF Init, DebtInv, OweOne, PastDue, Unburdened, ClearPCs, GeneratePCs, ChargePCs, Procs
<1>2. TypeInv /\ PromiseInv /\ DebtInv /\ [Next]_vars => PromiseInv' /\ DebtInv'
  BY NextPromise, NextDebt, InvoiceAssumption
<1>3. DebtInv => DebtBlocksRenewal
  BY DEF DebtInv, OweOne, PastDue, DebtBlocksRenewal, InvoicesOf, Invoices
<1> QED
  BY <1>1, <1>2, <1>3, InvoiceTypeInvariant, PTL DEF Spec
=============================================================================
