------------------------ MODULE CallLifecycleProofs ------------------------
(***************************************************************************)
(* Theorems about CallLifecycle for every set of calls, users, requests    *)
(* and sweeps, every number of failures and every number of restarts.      *)
(***************************************************************************)
EXTENDS CallLifecycle, FiniteSetTheorems, TLAPS

USE DEF rows, logs, locals

(* The variables hold rows, requests and messages of the right kinds.  The *)
(* proof needs that a process working on a call has a call as its target.  *)
HasTarget ==
    \A p \in Procs :
        pc[p] \in {"created", "session"} \cup DecidePCs \cup EndPCs =>
            target[p] \in Calls

(* A sweep never leaves the loop of missExpiredCalls for another handler,  *)
(* and only a request for the operation "end" reaches endCall's statements *)
SweepsOnlyMiss ==
    /\ \A s \in Sweeps : pc[s] \in {"idle", "next"} \cup DecidePCs
    /\ \A r \in Reqs : pc[r] \in DecidePCs =>
          op[r] \in {"accept", "reject", "cancel", "end"}
    /\ \A r \in Reqs : pc[r] \in {"write", "notify"} => op[r] # "end"
    /\ \A r \in Reqs : pc[r] \in {"dup", "busy", "busyRow", "row"} =>
          want[r] \in Pairs

TypeInv == TypeOK /\ HasTarget /\ SweepsOnlyMiss

LEMMA InitTypeInv == ASSUME LifecycleAssumption, Init PROVE TypeInv
<1> USE LifecycleAssumption, Init DEF LifecycleAssumption, Init
<1>1. /\ status \in [Calls -> Status] /\ expired \in [Calls -> BOOLEAN]
      /\ started \in [Calls -> BOOLEAN] /\ session \in SUBSET Calls
      /\ reopens \in [Calls -> Nat] /\ claims \in [Calls -> SUBSET Reqs]
      /\ parties \in [Calls -> Pairs \cup {NoPair}]
  BY DEF Status
<1>2. /\ events \in [Calls -> SUBSET EventKinds]
      /\ sent \in [Calls -> SUBSET Messages]
      /\ usage \in [Calls -> SUBSET UsageRow]
  BY DEF EventKinds, Messages
<1>3. /\ pc \in [Procs -> PCs] /\ target \in [Procs -> Calls \cup {NoCall}]
      /\ todo \in [Sweeps -> SUBSET Calls] /\ faults \in Nat /\ crashes \in Nat
  BY DEF PCs, RestPCs
<1>4. /\ op \in [Reqs -> AllOps \cup {"none"}] /\ snap \in [Reqs -> BOOLEAN]
      /\ want \in [Reqs -> Pairs \cup {NoPair}] /\ timed \in [Reqs -> BOOLEAN]
  OBVIOUS
<1>5. HasTarget
  BY DEF HasTarget, DecidePCs, EndPCs, UsagePCs
<1>6. SweepsOnlyMiss
  BY DEF SweepsOnlyMiss, DecidePCs, Procs
<1> QED
  BY <1>1, <1>2, <1>3, <1>4, <1>5, <1>6 DEF TypeInv, TypeOK

(* What the decision tables yield. *)
LEMMA DecisionTables ==
    ASSUME NEW o \in Decisions
    PROVE  /\ Written(o) \in Status \ {"NONE", "ENDED"}
           /\ EventOf(o) \in EventKinds
           /\ NoticesOf(o) \in SUBSET Messages
<1>1. o \in {"accept", "reject", "cancel", "miss"}
  BY DEF Decisions
<1>2. /\ Written(o) \in Status \ {"NONE", "ENDED"}
      /\ EventOf(o) \in EventKinds
  BY <1>1 DEF Written, EventOf, Status, EventKinds, Decisions
<1>3. NoticesOf(o) \in SUBSET Messages
  BY DEF Messages
<1> QED
  BY <1>2, <1>3

LEMMA CreateTypeInv ==
    ASSUME TypeInv, NEW r \in Reqs, CreateStep(r), LifecycleAssumption
    PROVE  TypeInv'
<1> USE DEF TypeInv, TypeOK, HasTarget, SweepsOnlyMiss, PCs, RestPCs, ClosedPCs,
            CreatePCs, DecidePCs, EndPCs, UsagePCs, Procs, Goto, LifecycleAssumption
<1>1. CASE CreateCheckDuplicate(r)
  BY <1>1 DEF CreateCheckDuplicate
<1>2. CASE CreateCheckBusy(r)
  <2>1. PICK l \in {"busyRow", "row", "done"} : pc' = [pc EXCEPT ![r] = l]
    BY <1>2 DEF CreateCheckBusy
  <2>2. pc' \in [Procs -> PCs]
    BY <2>1
  <2> QED
    BY <1>2, <2>1, <2>2 DEF CreateCheckBusy
<1>3. CASE CreateBusyRow(r)
  BY <1>3 DEF CreateBusyRow, Unused, Status, Messages
<1>4. CASE CreateRow(r)
  BY <1>4 DEF CreateRow, Unused, Status
<1>5. CASE CreateLog(r)
  BY <1>5 DEF CreateLog, EventKinds
<1>6. CASE CreateSession(r)
  BY <1>6 DEF CreateSession, Messages
<1> QED
  BY <1>1, <1>2, <1>3, <1>4, <1>5, <1>6 DEF CreateStep

LEMMA DecideTypeInv ==
    ASSUME TypeInv, LifecycleAssumption, NEW p \in Procs, DecideStep(p)
    PROVE  TypeInv'
<1> USE DEF TypeInv, TypeOK, HasTarget, SweepsOnlyMiss, PCs, RestPCs, ClosedPCs,
            CreatePCs, DecidePCs, EndPCs, UsagePCs, Procs, Goto, LifecycleAssumption
<1> DEFINE o == OpOf(p)
<1>1. pc[p] \in {"write", "notify"} => o \in Decisions
  BY DEF OpOf, Decisions
<1>2. pc[p] \in {"write", "notify"} =>
          /\ Written(o) \in Status /\ EventOf(o) \in EventKinds
          /\ NoticesOf(o) \in SUBSET Messages
  BY <1>1, DecisionTables
<1>3. After(p) = IF p \in Sweeps THEN "next" ELSE "done"
  BY DEF After
<1> HIDE DEF o
<1>4. CASE DecideRead(p)
  <2>1. PICK l \in {"write", After(p)} : pc' = [pc EXCEPT ![p] = l]
    BY <1>4 DEF DecideRead
  <2>2. l = "write" => OpOf(p) \in Decisions
    BY <1>4 DEF DecideRead
  <2>3. l = "write" /\ p \in Reqs => op[p] # "end"
    BY <2>2 DEF OpOf, Decisions
  <2>4. pc' \in [Procs -> PCs]
    BY <2>1, <1>3
  <2> QED
    BY <1>4, <1>3, <2>1, <2>3, <2>4 DEF DecideRead
<1>5. CASE DecideWrite(p)
  BY <1>2, <1>5 DEF DecideWrite, o
<1>6. CASE DecideNotify(p)
  BY <1>2, <1>3, <1>6 DEF DecideNotify, o
<1> QED
  BY <1>4, <1>5, <1>6 DEF DecideStep

LEMMA EndTypeInv ==
    ASSUME TypeInv, LifecycleAssumption, NEW r \in Reqs, EndStep(r)
    PROVE  TypeInv'
<1> USE DEF TypeInv, TypeOK, HasTarget, SweepsOnlyMiss, PCs, RestPCs, ClosedPCs,
            CreatePCs, DecidePCs, EndPCs, UsagePCs, Procs, Goto, LifecycleAssumption
<1>1. CASE EndRead(r)
  BY <1>1 DEF EndRead
<1>2. CASE EndClaim(r)
  <2>0. target[r] \in Calls /\ pc[r] \in EndPCs /\ pc[r] \notin DecidePCs
    BY <1>2 DEF EndClaim
  <2>1. CASE Claimable(target[r])
    <3>1. /\ status' = [status EXCEPT ![target[r]] = "ENDED"]
          /\ claims' = [claims EXCEPT ![target[r]] = @ \cup {r}]
          /\ pc' = [pc EXCEPT ![r] = "log"]
      BY <1>2, <2>1 DEF EndClaim
    <3>2. status' \in [Calls -> Status] /\ claims' \in [Calls -> SUBSET Reqs]
      BY <2>0, <3>1 DEF Status
    <3> QED
      BY <1>2, <2>0, <3>1, <3>2 DEF EndClaim
  <2>2. CASE ~Claimable(target[r])
    <3>1. pc' = [pc EXCEPT ![r] = "done"] /\ UNCHANGED <<status, claims>>
      BY <1>2, <2>2 DEF EndClaim
    <3> QED
      BY <1>2, <2>0, <3>1 DEF EndClaim
  <2> QED
    BY <2>1, <2>2
<1>3. CASE EndLog(r)
  BY <1>3 DEF EndLog, EventKinds
<1>4. CASE EndEnsureStart(r)
  BY <1>4 DEF EndEnsureStart, StartEvent, EventKinds
<1>5. CASE EndRate(r)
  BY <1>5 DEF EndRate
<1>6. CASE RecordCheck(r)
  <2>1. PICK l \in {"hook", "insert", "finsert"} : pc' = [pc EXCEPT ![r] = l]
    BY <1>6 DEF RecordCheck
  <2>2. pc' \in [Procs -> PCs]
    BY <2>1
  <2> QED
    BY <1>6, <2>1, <2>2 DEF RecordCheck
<1>7. CASE RecordInsert(r)
  <2>1. RowOf(r) \in UsageRow
    BY DEF RowOf, UsageRow
  <2> QED
    BY <1>7, <2>1 DEF RecordInsert
<1>8. CASE EndHook(r)
  BY <1>8 DEF EndHook, Messages
<1> QED
  BY <1>1, <1>2, <1>3, <1>4, <1>5, <1>6, <1>7, <1>8 DEF EndStep

LEMMA BeginTypeInv ==
    ASSUME TypeInv, LifecycleAssumption, NEW r \in Reqs, Begin(r)
    PROVE  TypeInv'
<1> USE DEF TypeInv, TypeOK, HasTarget, SweepsOnlyMiss, PCs, RestPCs, ClosedPCs,
            CreatePCs, DecidePCs, EndPCs, UsagePCs, Procs, Goto, AllOps,
            LifecycleAssumption
<1>1. ASSUME NEW pr \in Pairs, BeginCreate(r, pr)
      PROVE  TypeInv'
  BY <1>1 DEF BeginCreate
<1>2. ASSUME NEW o \in AllOps, NEW c \in Calls, BeginOnCall(r, o, c)
      PROVE  TypeInv'
  BY <1>2 DEF BeginOnCall
<1>3. ASSUME NEW c \in Calls, AdminEnd(r, c)
      PROVE  TypeInv'
  BY <1>3 DEF AdminEnd, Status
<1> QED
  BY <1>1, <1>2, <1>3 DEF Begin

LEMMA SweepTypeInv ==
    ASSUME TypeInv, LifecycleAssumption, NEW s \in Sweeps, SweepStep(s)
    PROVE  TypeInv'
<1> USE DEF TypeInv, TypeOK, HasTarget, SweepsOnlyMiss, PCs, RestPCs, ClosedPCs,
            CreatePCs, DecidePCs, EndPCs, UsagePCs, Procs, Goto,
            LifecycleAssumption
<1>1. CASE SweepQuery(s)
  <2>1. PICK l \in {"idle", "next"} : pc' = [pc EXCEPT ![s] = l]
    BY <1>1 DEF SweepQuery
  <2>2. ExpiredCalls \in SUBSET Calls
    BY DEF ExpiredCalls
  <2>3. TypeOK'
    BY <1>1, <2>1, <2>2 DEF SweepQuery
  <2>4. HasTarget' /\ SweepsOnlyMiss'
    BY <1>1, <2>1 DEF SweepQuery
  <2> QED
    BY <2>3, <2>4
<1>2. CASE SweepNext(s)
  <2>1. CASE todo[s] = {}
    BY <1>2, <2>1 DEF SweepNext
  <2>2. CASE todo[s] # {}
    <3>1. PICK c \in todo[s] : /\ todo' = [todo EXCEPT ![s] = @ \ {c}]
                               /\ target' = [target EXCEPT ![s] = c]
                               /\ pc' = [pc EXCEPT ![s] = "read"]
      BY <1>2, <2>2 DEF SweepNext
    <3>2. c \in Calls
      OBVIOUS
    <3> QED
      BY <1>2, <3>1, <3>2 DEF SweepNext
  <2> QED
    BY <2>1, <2>2
<1>3. CASE DecideStep(s)
  BY <1>3, DecideTypeInv
<1> QED
  BY <1>1, <1>2, <1>3 DEF SweepStep

LEMMA FaultTypeInv ==
    ASSUME TypeInv, LifecycleAssumption, Fault
    PROVE  TypeInv'
<1> USE DEF TypeInv, TypeOK, HasTarget, SweepsOnlyMiss, PCs, RestPCs, ClosedPCs,
            CreatePCs, DecidePCs, EndPCs, UsagePCs, Procs, Goto,
            LifecycleAssumption
<1>1. ASSUME NEW p \in Procs, StatementFails(p)
      PROVE  TypeInv'
  <2>1. /\ AfterFault(p) \in {"fcheck", "hook", "next", "failed"}
        /\ p \in Sweeps => AfterFault(p) = "next"
        /\ p \in Reqs => AfterFault(p) # "next"
        /\ AfterFault(p) \in {"fcheck", "hook"} => target[p] \in Calls
    BY <1>1 DEF AfterFault, StatementFails
  <2>2. PICK l \in {"fcheck", "hook", "next", "failed"} :
            /\ l = AfterFault(p)
            /\ pc' = [pc EXCEPT ![p] = l]
    BY <1>1, <2>1 DEF StatementFails
  <2>3. pc' \in [Procs -> PCs]
    BY <2>2
  <2> QED
    BY <1>1, <2>1, <2>2, <2>3 DEF StatementFails
<1>2. ASSUME NEW r \in Reqs, InsertReplyLost(r)
      PROVE  TypeInv'
  <2>1. RowOf(r) \in UsageRow
    BY DEF RowOf, UsageRow
  <2> QED
    BY <1>2, <2>1 DEF InsertReplyLost
<1>3. CASE CrashAndRestart
  <2>1. pc' \in [Procs -> PCs]
    BY <1>3 DEF CrashAndRestart
  <2>2. \A p \in Procs : pc'[p] \in RestPCs
    BY <1>3 DEF CrashAndRestart, InFlight
  <2>3. \A r \in Reqs : pc'[r] = pc[r] \/ pc'[r] = "lost"
    BY <1>3 DEF CrashAndRestart
  <2>4. \A s \in Sweeps : pc'[s] = "idle"
    BY <1>3 DEF CrashAndRestart
  <2>5. HasTarget' /\ SweepsOnlyMiss'
    BY <1>3, <2>2, <2>3, <2>4 DEF CrashAndRestart
  <2> QED
    BY <1>3, <2>1, <2>5 DEF CrashAndRestart
<1> QED
  BY <1>1, <1>2, <1>3 DEF Fault

LEMMA NextTypeInv ==
    ASSUME TypeInv, LifecycleAssumption, [Next]_vars
    PROVE  TypeInv'
<1>1. ASSUME NEW r \in Reqs, Begin(r) \/ RequestStep(r)
      PROVE  TypeInv'
  BY <1>1, BeginTypeInv, CreateTypeInv, DecideTypeInv, EndTypeInv
     DEF RequestStep, Procs
<1>2. ASSUME NEW s \in Sweeps, SweepStep(s)
      PROVE  TypeInv'
  BY <1>2, SweepTypeInv
<1>3. ASSUME NEW c \in Calls, Expire(c) \/ SignalingStarted(c)
      PROVE  TypeInv'
  <2>1. CASE Expire(c)
    BY <2>1 DEF Expire, TypeInv, TypeOK, HasTarget, SweepsOnlyMiss
  <2>2. CASE SignalingStarted(c)
    <3>1. {"CALL_STARTED"} \in SUBSET EventKinds
      BY DEF EventKinds
    <3> QED
      BY <2>2, <3>1 DEF SignalingStarted, TypeInv, TypeOK, HasTarget, SweepsOnlyMiss
  <2> QED
    BY <1>3, <2>1, <2>2
<1>4. CASE Fault
  BY <1>4, FaultTypeInv
<1>5. CASE UNCHANGED vars
  BY <1>5 DEF vars, TypeInv, TypeOK, HasTarget, SweepsOnlyMiss
<1> QED
  BY <1>1, <1>2, <1>3, <1>4, <1>5 DEF Next

(* Every value the service stores or holds in a handler is of the right    *)
(* kind, in every execution and for every instance.                        *)
THEOREM TypeCorrect == Spec => []TypeOK
<1>1. Init => TypeInv
  BY InitTypeInv, LifecycleAssumption
<1>2. TypeInv /\ [Next]_vars => TypeInv'
  BY NextTypeInv, LifecycleAssumption
<1>3. TypeInv => TypeOK
  BY DEF TypeInv
<1> QED
  BY <1>1, <1>2, <1>3, PTL DEF Spec

---------------------------------------------------------------------------
(* The claims of a call, the strengthening that is inductive.              *)
Balanced ==
    \A c \in Calls :
        /\ IsFiniteSet(claims[c])
        /\ Cardinality(claims[c])
              <= reopens[c] + (IF status[c] = "ENDED" THEN 1 ELSE 0)

LEMMA BalancedQuiet ==
    ASSUME Balanced, UNCHANGED <<status, claims, reopens>>
    PROVE  Balanced'
  BY DEF Balanced

(* A write of status alone may not take ENDED away.                        *)
LEMMA BalancedWrite ==
    ASSUME TypeInv, Balanced, UNCHANGED <<claims, reopens>>,
           NEW c \in Calls, NEW st \in Status,
           status' = [status EXCEPT ![c] = st],
           status[c] = "ENDED" => st = "ENDED"
    PROVE  Balanced'
<1>1. \A d \in Calls : Cardinality(claims[d]) \in Nat
  BY FS_CardinalityType DEF Balanced
<1> QED
  BY <1>1 DEF Balanced, TypeInv, TypeOK

LEMMA BalancedStep ==
    ASSUME LifecycleAssumption, TypeInv, Balanced, [Next]_vars
    PROVE  Balanced'
<1>0. \A d \in Calls : Cardinality(claims[d]) \in Nat
  BY FS_CardinalityType DEF Balanced
<1>1. ASSUME NEW r \in Reqs, Begin(r)
      PROVE  Balanced'
  <2>1. ASSUME NEW c \in Calls, AdminEnd(r, c)
        PROVE  Balanced'
    BY <2>1, BalancedWrite DEF AdminEnd, Status
  <2> QED
    BY <1>1, <2>1, BalancedQuiet DEF Begin, BeginCreate, BeginOnCall
<1>2. ASSUME NEW r \in Reqs, CreateStep(r)
      PROVE  Balanced'
  <2>1. CASE CreateBusyRow(r)
    BY <2>1, BalancedWrite DEF CreateBusyRow, Unused, Status
  <2>2. CASE CreateRow(r)
    BY <2>2, BalancedWrite DEF CreateRow, Unused, Status
  <2> QED
    BY <1>2, <2>1, <2>2, BalancedQuiet
       DEF CreateStep, CreateCheckDuplicate, CreateCheckBusy, CreateLog,
           CreateSession
<1>3. ASSUME NEW p \in Procs, DecideStep(p)
      PROVE  Balanced'
  <2>1. CASE DecideWrite(p)
    <3>1. target[p] \in Calls
      BY <2>1 DEF DecideWrite, TypeInv, HasTarget, DecidePCs
    <3>2. OpOf(p) \in Decisions
      BY <2>1 DEF DecideWrite, TypeInv, SweepsOnlyMiss, OpOf, Decisions,
                  DecidePCs, Procs
    <3>3. Written(OpOf(p)) # "ENDED"
      BY <3>2, DecisionTables
    <3> QED
      BY <1>0, <2>1, <3>1, <3>3 DEF DecideWrite, Balanced, TypeInv, TypeOK
  <2> QED
    BY <1>3, <2>1, BalancedQuiet DEF DecideStep, DecideRead, DecideNotify
<1>4. ASSUME NEW r \in Reqs, EndStep(r)
      PROVE  Balanced'
  <2>1. CASE EndClaim(r)
    <3>1. CASE Claimable(target[r])
      <4>1. PICK c \in Calls : c = target[r]
        BY <2>1 DEF EndClaim, TypeInv, HasTarget, EndPCs, Procs
      <4>2. IsFiniteSet(claims[c]) /\ Cardinality(claims[c]) \in Nat
        BY <1>0, <4>1 DEF Balanced
      <4>3. /\ IsFiniteSet(claims[c] \cup {r})
            /\ Cardinality(claims[c] \cup {r}) <= Cardinality(claims[c]) + 1
        <5>1. /\ IsFiniteSet(claims[c] \cup {r})
              /\ Cardinality(claims[c] \cup {r}) =
                    IF r \in claims[c] THEN Cardinality(claims[c])
                    ELSE Cardinality(claims[c]) + 1
          BY <4>2, FS_AddElement, Zenon
        <5> QED
          BY <4>2, <5>1
      <4>4. /\ claims' = [claims EXCEPT ![c] = @ \cup {r}]
            /\ status' = [status EXCEPT ![c] = "ENDED"]
            /\ reopens' = reopens
            /\ status[c] # "ENDED"
        BY <2>1, <3>1, <4>1 DEF EndClaim, Claimable
      <4>5. Cardinality(claims[c]) <= reopens[c]
        BY <4>1, <4>4 DEF Balanced, TypeInv, TypeOK
      <4>6. /\ IsFiniteSet(claims'[c])
            /\ Cardinality(claims'[c]) <= reopens[c] + 1
            /\ status'[c] = "ENDED"
        <5>1. claims'[c] = claims[c] \cup {r} /\ status'[c] = "ENDED"
          BY <4>4 DEF TypeInv, TypeOK
        <5>2. Cardinality(claims[c] \cup {r}) \in Nat
          BY <4>3, FS_CardinalityType
        <5> QED
          BY <4>2, <4>3, <4>5, <5>1, <5>2 DEF TypeInv, TypeOK
      <4>7. \A d \in Calls \ {c} : claims'[d] = claims[d] /\ status'[d] = status[d]
        BY <4>4 DEF TypeInv, TypeOK
      <4> QED
        BY <4>4, <4>6, <4>7 DEF Balanced
    <3>2. CASE ~Claimable(target[r])
      BY <2>1, <3>2, BalancedQuiet DEF EndClaim
    <3> QED
      BY <3>1, <3>2
  <2> QED
    BY <1>4, <2>1, BalancedQuiet
       DEF EndStep, EndRead, EndLog, EndEnsureStart, EndRate, RecordCheck,
           RecordInsert, EndHook
<1>5. ASSUME NEW s \in Sweeps, SweepQuery(s) \/ SweepNext(s)
      PROVE  Balanced'
  BY <1>5, BalancedQuiet DEF SweepQuery, SweepNext
<1>6. ASSUME NEW c \in Calls, Expire(c) \/ SignalingStarted(c)
      PROVE  Balanced'
  BY <1>6, BalancedQuiet DEF Expire, SignalingStarted
<1>7. CASE Fault
  BY <1>7, BalancedQuiet DEF Fault, StatementFails, InsertReplyLost,
                             CrashAndRestart
<1>8. CASE UNCHANGED vars
  BY <1>8, BalancedQuiet DEF vars
<1> QED
  BY <1>1, <1>2, <1>3, <1>4, <1>5, <1>6, <1>7, <1>8
     DEF Next, RequestStep, SweepStep, Procs

(* The conditional update in endCall: the ends that are claimed outnumber  *)
(* the writes that took ENDED away by at most one, while it is ENDED.      *)
THEOREM ClaimsStayBalanced == Spec => []ClaimsAreBalanced
<1>1. Init => TypeInv /\ Balanced
  <2>1. ASSUME Init PROVE Balanced
    BY <2>1, FS_EmptySet DEF Init, Balanced
  <2> QED
    BY <2>1, InitTypeInv, LifecycleAssumption
<1>2. TypeInv /\ Balanced /\ [Next]_vars => (TypeInv /\ Balanced)'
  BY NextTypeInv, BalancedStep, LifecycleAssumption
<1>3. Balanced => ClaimsAreBalanced
  BY DEF Balanced, ClaimsAreBalanced
<1> QED
  BY <1>1, <1>2, <1>3, PTL DEF Spec

---------------------------------------------------------------------------
(* Who may write usage: a request past the claim has won it, and until its *)
(* insertion it has no row, nor any at its call when it inserts a second   *)
(* time.                                                                   *)
ClaimedPCs == {"log"} \cup UsagePCs
NoRowPCs == {"fresh", "read", "claim", "log", "start", "rate", "check", "insert"}

Winners ==
    /\ \A r \in Reqs : pc[r] \in ClaimedPCs => r \in claims[target[r]]
    /\ \A r \in Reqs : pc[r] \in NoRowPCs =>
          \A c \in Calls : \A u \in usage[c] : u.by # r
    /\ \A r \in Reqs : pc[r] = "finsert" =>
          \A u \in usage[target[r]] : u.by # r
    /\ UsageFromClaims

(* Steps that move one process and touch neither claims nor usage.         *)
LEMMA WinnersMove ==
    ASSUME TypeInv, Winners, LifecycleAssumption, UNCHANGED <<usage, claims>>,
           NEW p \in Procs, NEW l \in PCs, pc' = [pc EXCEPT ![p] = l],
           p \in Reqs /\ l \in ClaimedPCs =>
               pc[p] \in ClaimedPCs /\ (l = "finsert" => usage[target[p]] = {}),
           l \in NoRowPCs => pc[p] \in NoRowPCs,
           \A q \in Reqs : pc'[q] \in ClaimedPCs => target'[q] = target[q]
    PROVE  Winners'
<1> USE DEF TypeInv, TypeOK, Procs
<1>1. \A q \in Reqs : pc'[q] = IF q = p THEN l ELSE pc[q]
  OBVIOUS
<1>2. \A r \in Reqs : pc'[r] \in ClaimedPCs => r \in claims'[target'[r]]
  BY <1>1 DEF Winners
<1>3. \A r \in Reqs : pc'[r] \in NoRowPCs =>
          \A c \in Calls : \A u \in usage'[c] : u.by # r
  BY <1>1 DEF Winners
<1>4. \A r \in Reqs : pc'[r] = "finsert" => \A u \in usage'[target'[r]] : u.by # r
  BY <1>1 DEF Winners, ClaimedPCs, UsagePCs
<1>5. UsageFromClaims'
  BY DEF Winners, UsageFromClaims
<1> QED
  BY <1>2, <1>3, <1>4, <1>5 DEF Winners

(* The two ways a usage row is inserted.                                   *)
LEMMA WinnersInsert ==
    ASSUME TypeInv, Winners, LifecycleAssumption, NEW r \in Reqs,
           pc[r] \in {"insert", "finsert"}, UNCHANGED <<claims, target>>,
           usage' = [usage EXCEPT ![target[r]] = @ \cup {RowOf(r)}],
           NEW l \in {"hook", "fcheck"}, pc' = [pc EXCEPT ![r] = l]
    PROVE  Winners'
<1> USE DEF TypeInv, TypeOK, Procs, ClaimedPCs, NoRowPCs, UsagePCs
<1>1. PICK c \in Calls : c = target[r]
  BY DEF HasTarget, EndPCs
<1>2. r \in claims[c] /\ RowOf(r).by = r /\ \A u \in usage[c] : u.by # r
  BY <1>1 DEF Winners, RowOf
<1>3. /\ usage'[c] = usage[c] \cup {RowOf(r)}
      /\ \A d \in Calls \ {c} : usage'[d] = usage[d]
      /\ claims' = claims /\ target' = target
  BY <1>1
<1>4. \A q \in Reqs : pc'[q] = IF q = r THEN l ELSE pc[q]
  OBVIOUS
<1>5. \A q \in Reqs : pc'[q] \in ClaimedPCs => q \in claims'[target'[q]]
  BY <1>3, <1>4 DEF Winners
<1>6. \A d \in Calls : \A u \in usage'[d] : u \in usage[d] \/ u.by = r
  BY <1>2, <1>3
<1>7. \A q \in Reqs : pc'[q] \in NoRowPCs =>
          \A d \in Calls : \A u \in usage'[d] : u.by # q
  BY <1>4, <1>6 DEF Winners
<1>8. \A q \in Reqs : pc'[q] = "finsert" => \A u \in usage'[target'[q]] : u.by # q
  <2> SUFFICES ASSUME NEW q \in Reqs, pc'[q] = "finsert",
                      NEW u \in usage'[target'[q]]
               PROVE  u.by # q
    OBVIOUS
  <2>1. target[q] \in Calls /\ pc[q] = "finsert" /\ q # r
    BY <1>4 DEF HasTarget, EndPCs
  <2> QED
    BY <1>3, <1>6, <2>1 DEF Winners
<1>9. UsageFromClaims'
  BY <1>2, <1>3 DEF Winners, UsageFromClaims
<1> QED
  BY <1>5, <1>7, <1>8, <1>9 DEF Winners

LEMMA WinnersStep ==
    ASSUME LifecycleAssumption, TypeInv, Winners, [Next]_vars
    PROVE  Winners'
<1> USE DEF TypeInv, TypeOK, Procs, ClaimedPCs, NoRowPCs, UsagePCs, DecidePCs,
            EndPCs, PCs, RestPCs, ClosedPCs, CreatePCs, Goto, HasTarget
<1>1. ASSUME NEW r \in Reqs, Begin(r)
      PROVE  Winners'
  <2>1. ASSUME NEW pr \in Pairs, BeginCreate(r, pr)
        PROVE  Winners'
    BY <2>1, WinnersMove DEF BeginCreate
  <2>2. ASSUME NEW o \in AllOps, NEW c \in Calls, BeginOnCall(r, o, c)
        PROVE  Winners'
    BY <2>2, WinnersMove DEF BeginOnCall
  <2>3. ASSUME NEW c \in Calls, AdminEnd(r, c)
        PROVE  Winners'
    BY <2>3, WinnersMove DEF AdminEnd
  <2> QED
    BY <1>1, <2>1, <2>2, <2>3 DEF Begin
<1>2. ASSUME NEW r \in Reqs, CreateStep(r)
      PROVE  Winners'
  <2>1. CASE CreateCheckDuplicate(r)
    BY <2>1, WinnersMove DEF CreateCheckDuplicate
  <2>2. CASE CreateCheckBusy(r)
    <3>1. PICK l \in {"busyRow", "row", "done"} : Goto(r, l)
      BY <2>2 DEF CreateCheckBusy
    <3> QED
      BY <2>2, <3>1, WinnersMove DEF CreateCheckBusy
  <2>3. CASE CreateBusyRow(r)
    BY <2>3, WinnersMove DEF CreateBusyRow
  <2>4. CASE CreateRow(r)
    BY <2>4, WinnersMove DEF CreateRow
  <2>5. CASE CreateLog(r)
    BY <2>5, WinnersMove DEF CreateLog
  <2>6. CASE CreateSession(r)
    BY <2>6, WinnersMove DEF CreateSession
  <2> QED
    BY <1>2, <2>1, <2>2, <2>3, <2>4, <2>5, <2>6 DEF CreateStep
<1>3. ASSUME NEW p \in Procs, DecideStep(p)
      PROVE  Winners'
  <2>1. After(p) \in {"next", "done"}
    BY DEF After
  <2>2. CASE DecideRead(p)
    BY <2>1, <2>2, WinnersMove DEF DecideRead
  <2>3. CASE DecideWrite(p)
    BY <2>3, WinnersMove DEF DecideWrite
  <2>4. CASE DecideNotify(p)
    BY <2>1, <2>4, WinnersMove DEF DecideNotify
  <2> QED
    BY <1>3, <2>2, <2>3, <2>4 DEF DecideStep
<1>4. ASSUME NEW r \in Reqs, EndStep(r)
      PROVE  Winners'
  <2>1. CASE EndRead(r)
    BY <2>1, WinnersMove DEF EndRead
  <2>2. CASE EndClaim(r)
    <3>1. CASE Claimable(target[r])
      <4>1. PICK c \in Calls : c = target[r]
        BY <2>2 DEF EndClaim
      <4>2. /\ claims' = [claims EXCEPT ![c] = @ \cup {r}]
            /\ pc' = [pc EXCEPT ![r] = "log"] /\ pc[r] = "claim"
            /\ usage' = usage /\ target' = target
        BY <2>2, <3>1, <4>1 DEF EndClaim
      <4>3. \A q \in Reqs : pc'[q] \in ClaimedPCs => q \in claims'[target'[q]]
        BY <4>1, <4>2 DEF Winners
      <4>4. UsageFromClaims'
        BY <4>2 DEF Winners, UsageFromClaims
      <4> QED
        BY <4>2, <4>3, <4>4 DEF Winners
    <3>2. CASE ~Claimable(target[r])
      BY <2>2, <3>2, WinnersMove DEF EndClaim
    <3> QED
      BY <3>1, <3>2
  <2>3. CASE EndLog(r)
    BY <2>3, WinnersMove DEF EndLog
  <2>4. CASE EndEnsureStart(r)
    BY <2>4, WinnersMove DEF EndEnsureStart
  <2>5. CASE EndRate(r)
    BY <2>5, WinnersMove DEF EndRate
  <2>6. CASE RecordCheck(r)
    BY <2>6, WinnersMove DEF RecordCheck, AlreadyRecorded
  <2>7. CASE RecordInsert(r)
    BY <2>7, WinnersInsert DEF RecordInsert
  <2>8. CASE EndHook(r)
    BY <2>8, WinnersMove DEF EndHook
  <2> QED
    BY <1>4, <2>1, <2>2, <2>3, <2>4, <2>5, <2>6, <2>7, <2>8 DEF EndStep
<1>5. ASSUME NEW s \in Sweeps, SweepQuery(s) \/ SweepNext(s)
      PROVE  Winners'
  <2>1. CASE SweepQuery(s)
    BY <2>1, WinnersMove DEF SweepQuery
  <2>2. CASE SweepNext(s)
    <3>1. /\ pc' = [pc EXCEPT ![s] = "idle"] \/ pc' = [pc EXCEPT ![s] = "read"]
          /\ \A r \in Reqs : target'[r] = target[r] /\ pc'[r] = pc[r]
          /\ usage' = usage /\ claims' = claims
      BY <2>2 DEF SweepNext, LifecycleAssumption
    <3> QED
      BY <3>1 DEF Winners, UsageFromClaims
  <2> QED
    BY <1>5, <2>1, <2>2
<1>6. ASSUME NEW c \in Calls, Expire(c) \/ SignalingStarted(c)
      PROVE  Winners'
  BY <1>6 DEF Expire, SignalingStarted, Winners, UsageFromClaims
<1>7. ASSUME NEW p \in Procs, StatementFails(p)
      PROVE  Winners'
  <2>1. /\ AfterFault(p) \in {"fcheck", "hook", "next", "failed"}
        /\ AfterFault(p) = "fcheck" => pc[p] \in ClaimedPCs
    BY DEF AfterFault
  <2> QED
    BY <1>7, <2>1, WinnersMove DEF StatementFails
<1>8. ASSUME NEW r \in Reqs, InsertReplyLost(r)
      PROVE  Winners'
  BY <1>8, WinnersInsert DEF InsertReplyLost
<1>9. CASE CrashAndRestart
  <2>1. \A r \in Reqs : pc'[r] \in RestPCs /\ (pc'[r] = "fresh" => pc[r] = "fresh")
    BY <1>9 DEF CrashAndRestart, InFlight
  <2> QED
    BY <1>9, <2>1 DEF CrashAndRestart, Winners, UsageFromClaims
<1>10. CASE UNCHANGED vars
  BY <1>10 DEF vars, Winners, UsageFromClaims
<1> QED
  BY <1>1, <1>2, <1>3, <1>4, <1>5, <1>6, <1>7, <1>8, <1>9, <1>10
     DEF Next, RequestStep, SweepStep, Fault

(* recordCallUsage runs at most once for each claim that was won: a usage  *)
(* row names a request that won the claim, and no request has two rows of  *)
(* one call, even when it saw a committed insertion fail and fell back.    *)
THEOREM UsageComesFromClaims == Spec => []UsageFromClaims
<1>1. Init => TypeInv /\ Winners
  <2>1. ASSUME Init PROVE Winners
    BY <2>1 DEF Init, Winners, UsageFromClaims, Procs, ClaimedPCs, UsagePCs
  <2> QED
    BY <2>1, InitTypeInv, LifecycleAssumption
<1>2. TypeInv /\ Winners /\ [Next]_vars => (TypeInv /\ Winners)'
  BY NextTypeInv, WinnersStep, LifecycleAssumption
<1>3. Winners => UsageFromClaims
  BY DEF Winners
<1> QED
  BY <1>1, <1>2, <1>3, PTL DEF Spec

(* The rows of a call inject into its claims.                              *)
LEMMA RowsInjectIntoClaims ==
    ASSUME TypeInv, Balanced, UsageFromClaims, NEW c \in Calls
    PROVE  Cardinality(usage[c]) <= reopens[c] + 1
<1> DEFINE f == [u \in usage[c] |-> u.by]
<1>1. f \in Injection(usage[c], claims[c])
  BY DEF UsageFromClaims, Injection, IsInjective
<1>2. IsFiniteSet(claims[c])
  BY DEF Balanced
<1> HIDE DEF f
<1>3. IsFiniteSet(usage[c]) /\ Cardinality(usage[c]) <= Cardinality(claims[c])
  BY <1>1, <1>2, FS_Injection, Zenon
<1>4. Cardinality(usage[c]) \in Nat /\ Cardinality(claims[c]) \in Nat
  BY <1>2, <1>3, FS_CardinalityType
<1>5. Cardinality(claims[c]) <= reopens[c] + 1
  BY <1>4 DEF Balanced, TypeInv, TypeOK
<1> QED
  BY <1>3, <1>4, <1>5 DEF TypeInv, TypeOK

(* A call is billed at most once more than ENDED was overwritten: without  *)
(* a stale write over ENDED there is at most one usage row.                *)
THEOREM BillsAreBounded == Spec => []UsageIsBounded
<1>1. Spec => [](TypeInv /\ Balanced /\ UsageFromClaims)
  <2>1. Init => TypeInv /\ Balanced /\ Winners
    <3>1. ASSUME Init PROVE Balanced
      BY <3>1, FS_EmptySet DEF Init, Balanced
    <3>2. ASSUME Init PROVE Winners
      BY <3>2 DEF Init, Winners, UsageFromClaims, Procs, ClaimedPCs, UsagePCs
    <3> QED
      BY <3>1, <3>2, InitTypeInv, LifecycleAssumption
  <2>2. TypeInv /\ Balanced /\ Winners /\ [Next]_vars
            => (TypeInv /\ Balanced /\ Winners)'
    BY NextTypeInv, BalancedStep, WinnersStep, LifecycleAssumption
  <2>3. Winners => UsageFromClaims
    BY DEF Winners
  <2> QED
    BY <2>1, <2>2, <2>3, PTL DEF Spec
<1>2. TypeInv /\ Balanced /\ UsageFromClaims => UsageIsBounded
  BY RowsInjectIntoClaims DEF UsageIsBounded
<1> QED
  BY <1>1, <1>2, PTL
=============================================================================
