-------------------------- MODULE CallSerialProofs --------------------------
(***************************************************************************)
(* CallLifecycle implements CallProtocol when its operations do not        *)
(* overlap: for every set of calls, users, requests and sweeps, and with   *)
(* any number of failed statements, lost replies and restarts.             *)
(***************************************************************************)
EXTENDS CallLifecycleProofs

USE DEF rows, logs, locals

AtRestPC(p) == pc[p] \in RestPCs

(* A call that participants can reach has been placed.                     *)
Placed == \A c \in session : status[c] \notin {"NONE", "BUSY"}

(* What a process knows between two statements while nothing else runs:    *)
(* the status it tested still stands, the call it claimed is still ENDED,  *)
(* and the call it is about to bill has no usage row.                      *)
Knows(p) ==
    /\ pc[p] \in {"read", "claim"} /\ p \in Reqs => target[p] \in session
    /\ pc[p] \in {"created", "session"} => status[target[p]] = "RINGING"
    /\ pc[p] = "write" => /\ OpOf(p) \in Decisions
                          /\ status[target[p]] \in Guard(OpOf(p))
    /\ pc[p] \in {"log", "hook"} \cup UsagePCs => status[target[p]] = "ENDED"
    /\ pc[p] \in {"insert", "finsert"} => usage[target[p]] = {}

OneInFlight == \A p, q \in Procs : InFlight(p) /\ InFlight(q) => p = q

SerialInv ==
    /\ TypeInv
    /\ OneInFlight
    /\ Placed
    /\ \A p \in Procs : Knows(p)

LEMMA RestKnows ==
    ASSUME NEW p \in Procs, AtRestPC(p)
    PROVE  Knows(p)
  BY DEF AtRestPC, Knows, RestPCs, ClosedPCs, UsagePCs

LEMMA InitSerialInv == ASSUME LifecycleAssumption, Init PROVE SerialInv
<1>1. TypeInv
  BY InitTypeInv
<1>2. \A p \in Procs : AtRestPC(p)
  BY DEF Init, AtRestPC, RestPCs, Procs
<1>3. OneInFlight
  BY <1>2 DEF OneInFlight, InFlight, AtRestPC
<1>4. Placed
  BY LifecycleAssumption DEF Init, Placed, LifecycleAssumption
<1> QED
  BY <1>1, <1>2, <1>3, <1>4, RestKnows DEF SerialInv

(* While p moves, every other process is at rest and knows nothing.        *)
LEMMA OthersRest ==
    ASSUME SerialInv, OneInFlight', NEW p \in Procs, NEW l \in PCs,
           pc' = [pc EXCEPT ![p] = l],
           ~AtRestPC(p) \/ l \notin RestPCs,
           NEW q \in Procs, q # p
    PROVE  Knows(q)'
<1>1. pc'[p] = l /\ pc'[q] = pc[q]
  BY DEF SerialInv, TypeInv, TypeOK
<1>2. AtRestPC(q)'
  BY <1>1 DEF SerialInv, OneInFlight, InFlight, AtRestPC
<1> QED
  BY <1>2 DEF AtRestPC, Knows, RestPCs, ClosedPCs, UsagePCs

(* A step of p that takes it to l keeps SerialInv if what is known of      *)
(* sessions and of p itself stays true.                                    *)
LEMMA OneMoves ==
    ASSUME SerialInv, OneInFlight', TypeInv', Placed', NEW p \in Procs, NEW l \in PCs,
           pc' = [pc EXCEPT ![p] = l],
           ~AtRestPC(p) \/ l \notin RestPCs,
           Knows(p)'
    PROVE  SerialInv'
<1>1. \A q \in Procs : Knows(q)'
  BY OthersRest
<1> QED
  BY <1>1 DEF SerialInv

(* The same when p comes to rest, where there is nothing to know.          *)
LEMMA OneStops ==
    ASSUME SerialInv, OneInFlight', TypeInv', Placed', NEW p \in Procs, NEW l \in RestPCs,
           pc' = [pc EXCEPT ![p] = l],
           ~AtRestPC(p)
    PROVE  SerialInv'
<1>1. l \in PCs /\ pc'[p] = l
  BY DEF PCs, SerialInv, TypeInv, TypeOK
<1>2. Knows(p)'
  BY <1>1 DEF Knows, RestPCs, ClosedPCs, UsagePCs
<1> QED
  BY <1>1, <1>2, OneMoves

(* The steps of the abstract protocol, seen from the concrete state.       *)
Bills == [c \in Calls |-> Cardinality(usage[c])]
Maps == Protocol!Next \/ UNCHANGED <<status, Bills>>

LEMMA Stutter == ASSUME UNCHANGED <<status, usage>> PROVE Maps
  BY DEF Maps, Bills

LEMMA Moves ==
    ASSUME UNCHANGED usage, NEW c \in Calls, NEW to,
           status' = [status EXCEPT ![c] = to],
           \/ status[c] = "NONE" /\ to \in {"RINGING", "BUSY"}
           \/ status[c] = "RINGING" /\ to \in {"ACCEPTED", "REJECTED", "CANCELLED", "MISSED"}
           \/ /\ status[c] \in {"RINGING", "ACCEPTED", "REJECTED", "CANCELLED", "MISSED"}
              /\ to = "ENDED"
    PROVE  Maps
<1>1. UNCHANGED Bills
  BY DEF Bills
<1> QED
  BY <1>1 DEF Maps, Bills, Protocol!Next, Protocol!Place, Protocol!RefuseBusy,
       Protocol!Answer, Protocol!GoUnanswered, Protocol!End, Protocol!Move

LEMMA BillsOnce ==
    ASSUME UNCHANGED status, TypeOK, NEW c \in Calls, NEW row,
           status[c] = "ENDED", usage[c] = {},
           usage' = [usage EXCEPT ![c] = @ \cup {row}]
    PROVE  Maps
<1>1. Cardinality({}) = 0 /\ Cardinality({row}) = 1
  BY FS_EmptySet, FS_Singleton
<1>2. usage' = [usage EXCEPT ![c] = {row}]
  OBVIOUS
<1>3. Bills[c] = 0 /\ Bills' = [Bills EXCEPT ![c] = 1]
  BY <1>1, <1>2 DEF Bills, TypeOK
<1> QED
  BY <1>3 DEF Maps, Bills, Protocol!Next, Protocol!Bill

---------------------------------------------------------------------------
LEMMA CreateSerial ==
    ASSUME SerialInv, OneInFlight', TypeInv', NEW r \in Reqs, CreateStep(r),
           LifecycleAssumption
    PROVE  SerialInv' /\ Maps
<1> USE DEF Goto, SerialInv, TypeInv, TypeOK, HasTarget
<1>0. r \in Procs /\ "done" \in RestPCs
  BY DEF Procs, RestPCs, ClosedPCs
<1>1. ASSUME UNCHANGED <<status, session>>
      PROVE  Placed'
  BY <1>1 DEF Placed
<1>2. CASE CreateCheckDuplicate(r)
  <2>1. PICK l \in {"done", "busy"} : pc' = [pc EXCEPT ![r] = l]
    BY <1>2 DEF CreateCheckDuplicate
  <2>2. ~AtRestPC(r) /\ Knows(r)' /\ l \in PCs
    BY <1>0, <1>2, <2>1
       DEF CreateCheckDuplicate, AtRestPC, RestPCs, ClosedPCs, Knows, UsagePCs, PCs, CreatePCs
  <2>3. Placed' /\ UNCHANGED <<status, usage>>
    BY <1>1, <1>2 DEF CreateCheckDuplicate
  <2> QED
    BY <1>0, <2>1, <2>2, <2>3, OneMoves, Stutter
<1>3. CASE CreateCheckBusy(r)
  <2>1. PICK l \in {"busyRow", "row", "done"} : pc' = [pc EXCEPT ![r] = l]
    BY <1>3 DEF CreateCheckBusy
  <2>2. ~AtRestPC(r) /\ Knows(r)' /\ l \in PCs
    BY <1>0, <1>3, <2>1
       DEF CreateCheckBusy, AtRestPC, RestPCs, ClosedPCs, Knows, UsagePCs, PCs, CreatePCs
  <2>3. Placed' /\ UNCHANGED <<status, usage>>
    BY <1>1, <1>3 DEF CreateCheckBusy
  <2> QED
    BY <1>0, <2>1, <2>2, <2>3, OneMoves, Stutter
<1>4. CASE CreateBusyRow(r)
  <2>1. PICK c \in Calls : status[c] = "NONE" /\ status' = [status EXCEPT ![c] = "BUSY"]
    BY <1>4 DEF CreateBusyRow, Unused
  <2>2. Placed'
    BY <1>4, <2>1 DEF CreateBusyRow, Placed
  <2>3. ~AtRestPC(r)
    BY <1>4 DEF CreateBusyRow, AtRestPC, RestPCs, ClosedPCs
  <2>4. SerialInv'
    BY <1>0, <1>4, <2>2, <2>3, OneStops DEF CreateBusyRow
  <2> QED
    BY <1>4, <2>1, <2>4, Moves DEF CreateBusyRow
<1>5. CASE CreateRow(r)
  <2>1. PICK c \in Calls : /\ status[c] = "NONE"
                           /\ status' = [status EXCEPT ![c] = "RINGING"]
                           /\ target' = [target EXCEPT ![r] = c]
    BY <1>5 DEF CreateRow, Unused
  <2>2. Placed'
    BY <1>5, <2>1 DEF CreateRow, Placed
  <2>3. ~AtRestPC(r) /\ "created" \in PCs
    BY <1>5 DEF CreateRow, AtRestPC, RestPCs, ClosedPCs, PCs, CreatePCs
  <2>4. Knows(r)'
    BY <1>0, <1>5, <2>1 DEF CreateRow, Knows, UsagePCs
  <2>5. SerialInv'
    BY <1>0, <1>5, <2>2, <2>3, <2>4, OneMoves DEF CreateRow
  <2> QED
    BY <1>5, <2>1, <2>5, Moves DEF CreateRow
<1>6. CASE CreateLog(r)
  <2>1. ~AtRestPC(r) /\ "session" \in PCs /\ Placed'
    BY <1>1, <1>6 DEF CreateLog, AtRestPC, RestPCs, ClosedPCs, PCs, CreatePCs
  <2>2. Knows(r)'
    BY <1>0, <1>6 DEF CreateLog, Knows, UsagePCs
  <2> QED
    BY <1>0, <1>6, <2>1, <2>2, OneMoves, Stutter DEF CreateLog
<1>7. CASE CreateSession(r)
  <2>1. status[target[r]] = "RINGING"
    BY <1>0, <1>7 DEF CreateSession, Knows
  <2>2. Placed'
    BY <1>7, <2>1 DEF CreateSession, Placed
  <2>3. ~AtRestPC(r)
    BY <1>7 DEF CreateSession, AtRestPC, RestPCs, ClosedPCs
  <2> QED
    BY <1>0, <1>7, <2>2, <2>3, OneStops, Stutter DEF CreateSession
<1> QED
  BY <1>2, <1>3, <1>4, <1>5, <1>6, <1>7 DEF CreateStep

LEMMA DecideSerial ==
    ASSUME SerialInv, OneInFlight', TypeInv', NEW p \in Procs, DecideStep(p),
           LifecycleAssumption
    PROVE  SerialInv' /\ Maps
<1> USE DEF Goto, SerialInv, TypeInv, TypeOK, HasTarget
<1>0. After(p) \in {"next", "done"} /\ {"next", "done", "write", "notify"} \subseteq PCs
  BY DEF After, PCs, RestPCs, ClosedPCs, DecidePCs
<1>1. ASSUME NEW l \in {"next", "done", "notify"}, pc'[p] = l
      PROVE  Knows(p)'
  BY <1>1 DEF Knows, UsagePCs
<1>2. CASE DecideRead(p)
  <2>1. PICK l \in {"write", After(p)} :
           /\ pc' = [pc EXCEPT ![p] = l]
           /\ l = "write" => status[target[p]] \in Guard(OpOf(p))
    BY <1>2, <1>0 DEF DecideRead
  <2>2. l \in PCs /\ pc'[p] = l /\ ~AtRestPC(p)
    BY <1>0, <1>2, <2>1 DEF DecideRead, AtRestPC, RestPCs, ClosedPCs
  <2>3. CASE l = "write"
    <3>1. Knows(p)'
      BY <1>2, <2>1, <2>2, <2>3 DEF DecideRead, Knows, UsagePCs, OpOf, Guard
    <3>2. Placed'
      BY <1>2 DEF DecideRead, Placed
    <3> QED
      BY <1>2, <2>1, <2>2, <3>1, <3>2, OneMoves, Stutter DEF DecideRead
  <2>4. CASE l = After(p)
    <3>1. Knows(p)'
      BY <1>0, <1>1, <2>2, <2>4
    <3>2. Placed'
      BY <1>2 DEF DecideRead, Placed
    <3> QED
      BY <1>2, <2>1, <2>2, <3>1, <3>2, OneMoves, Stutter DEF DecideRead
  <2> QED
    BY <2>1, <2>3, <2>4
<1>3. CASE DecideWrite(p)
  <2> DEFINE c == target[p]
             o == OpOf(p)
  <2>1. /\ pc[p] = "write" /\ pc' = [pc EXCEPT ![p] = "notify"]
        /\ status' = [status EXCEPT ![c] = Written(o)]
        /\ UNCHANGED <<usage, session>>
    BY <1>3 DEF DecideWrite
  <2>2. c \in Calls /\ o \in Decisions /\ status[c] \in Guard(o)
    BY <2>1 DEF DecidePCs, Knows
  <2>3. \/ status[c] = "RINGING"
        \/ status[c] = "ACCEPTED" /\ o = "accept"
    BY <2>2 DEF Guard
  <2>4. /\ Written(o) \in {"ACCEPTED", "REJECTED", "CANCELLED", "MISSED"}
        /\ o = "accept" => Written(o) = "ACCEPTED"
    BY <2>2 DEF Written, Decisions
  <2>5. Placed'
    BY <2>1, <2>2, <2>4 DEF Placed
  <2>6. SerialInv'
    BY <1>0, <1>1, <2>1, <2>5, OneMoves DEF AtRestPC, RestPCs, ClosedPCs
  <2>7. CASE status[c] = "RINGING"
    BY <2>1, <2>2, <2>4, <2>6, <2>7, Moves
  <2>8. CASE status[c] = "ACCEPTED" /\ o = "accept"
    <3>1. UNCHANGED <<status, usage>>
      BY <2>1, <2>2, <2>4, <2>8
    <3> QED
      BY <2>6, <3>1, Stutter
  <2> QED
    BY <2>3, <2>7, <2>8
<1>4. CASE DecideNotify(p)
  <2>1. /\ pc[p] = "notify" /\ pc' = [pc EXCEPT ![p] = After(p)]
        /\ UNCHANGED <<status, session, usage>>
    BY <1>4 DEF DecideNotify
  <2>2. Placed' /\ ~AtRestPC(p)
    BY <2>1 DEF Placed, AtRestPC, RestPCs, ClosedPCs
  <2>3. Knows(p)'
    BY <1>0, <1>1, <2>1
  <2> QED
    BY <1>0, <2>1, <2>2, <2>3, OneMoves, Stutter
<1> QED
  BY <1>2, <1>3, <1>4 DEF DecideStep

LEMMA EndSerial ==
    ASSUME SerialInv, OneInFlight', TypeInv', NEW r \in Reqs, EndStep(r),
           LifecycleAssumption
    PROVE  SerialInv' /\ Maps
<1> USE DEF Goto, SerialInv, TypeInv, TypeOK, HasTarget
<1>0. /\ r \in Procs
      /\ {"claim", "log", "start", "rate", "check", "insert", "finsert", "hook"} \subseteq PCs
      /\ "done" \in RestPCs
  BY DEF Procs, PCs, EndPCs, UsagePCs, RestPCs, ClosedPCs
<1>1. pc[r] \in {"log", "hook"} \cup UsagePCs =>
          ~AtRestPC(r) /\ target[r] \in Calls /\ status[target[r]] = "ENDED"
  BY <1>0 DEF AtRestPC, RestPCs, ClosedPCs, UsagePCs, EndPCs, Knows
(* Between the claim and the webhook, the call stays ENDED.                *)
<1>2. ASSUME pc[r] \in {"log", "hook"} \cup UsagePCs,
             NEW l \in {"start", "rate", "check", "insert", "finsert", "hook"},
             pc' = [pc EXCEPT ![r] = l],
             UNCHANGED <<status, session, target>>,
             l \in {"insert", "finsert"} => usage'[target[r]] = {}
      PROVE  SerialInv'
  <2>1. Knows(r)'
    BY <1>0, <1>1, <1>2 DEF Knows, UsagePCs
  <2>2. Placed'
    BY <1>2 DEF Placed
  <2> QED
    BY <1>0, <1>1, <1>2, <2>1, <2>2, OneMoves
<1>3. CASE EndRead(r)
  <2>1. Knows(r)'
    BY <1>0, <1>3 DEF EndRead, Knows, UsagePCs
  <2>2. Placed' /\ ~AtRestPC(r)
    BY <1>3 DEF EndRead, Placed, AtRestPC, RestPCs, ClosedPCs
  <2> QED
    BY <1>0, <1>3, <2>1, <2>2, OneMoves, Stutter DEF EndRead
<1>4. CASE EndClaim(r)
  <2> DEFINE c == target[r]
  <2>1. c \in session /\ c \in Calls /\ ~AtRestPC(r) /\ pc[r] = "claim"
    BY <1>0, <1>4 DEF EndClaim, Knows, AtRestPC, RestPCs, ClosedPCs
  <2>2. status[c] \notin {"NONE", "BUSY"}
    BY <2>1 DEF Placed
  <2>3. CASE Claimable(c)
    <3>1. /\ status' = [status EXCEPT ![c] = "ENDED"]
          /\ pc' = [pc EXCEPT ![r] = "log"]
          /\ UNCHANGED <<usage, session, target>>
      BY <1>4, <2>3 DEF EndClaim
    <3>2. status[c] \in {"RINGING", "ACCEPTED", "REJECTED", "CANCELLED", "MISSED"}
      BY <2>1, <2>2, <2>3 DEF Claimable, Status
    <3>3. Placed' /\ Knows(r)'
      BY <1>0, <2>1, <3>1 DEF Placed, Knows, UsagePCs
    <3>4. Maps
      BY <2>1, <3>1, <3>2, Moves
    <3> QED
      BY <1>0, <2>1, <3>1, <3>3, <3>4, OneMoves
  <2>4. CASE ~Claimable(c)
    <3>1. /\ pc' = [pc EXCEPT ![r] = "done"]
          /\ UNCHANGED <<status, usage, session>>
      BY <1>4, <2>4 DEF EndClaim
    <3>2. Placed'
      BY <3>1 DEF Placed
    <3> QED
      BY <1>0, <2>1, <3>1, <3>2, OneStops, Stutter
  <2> QED
    BY <2>3, <2>4
<1>5. CASE EndLog(r)
  BY <1>2, <1>5, Stutter DEF EndLog
<1>6. CASE EndEnsureStart(r)
  BY <1>2, <1>6, Stutter DEF EndEnsureStart, UsagePCs
<1>7. CASE EndRate(r)
  BY <1>2, <1>7, Stutter DEF EndRate, UsagePCs
<1>8. CASE RecordCheck(r)
  <2>1. PICK l \in {"hook", "insert", "finsert"} :
           /\ pc' = [pc EXCEPT ![r] = l]
           /\ l \in {"insert", "finsert"} => usage[target[r]] = {}
    BY <1>8 DEF RecordCheck, AlreadyRecorded
  <2> QED
    BY <1>2, <1>8, <2>1, Stutter DEF RecordCheck, UsagePCs
<1>9. CASE RecordInsert(r)
  <2>1. usage[target[r]] = {}
    BY <1>0, <1>9 DEF RecordInsert, Knows
  <2>2. Maps
    BY <1>1, <1>9, <2>1, BillsOnce DEF RecordInsert, UsagePCs
  <2> QED
    BY <1>2, <1>9, <2>2 DEF RecordInsert, UsagePCs
<1>10. CASE EndHook(r)
  <2>1. Placed'
    BY <1>10 DEF EndHook, Placed
  <2> QED
    BY <1>0, <1>1, <1>10, <2>1, OneStops, Stutter DEF EndHook
<1> QED
  BY <1>3, <1>4, <1>5, <1>6, <1>7, <1>8, <1>9, <1>10 DEF EndStep

LEMMA BeginSerial ==
    ASSUME SerialInv, OneInFlight', TypeInv', NEW r \in Reqs, Begin(r),
           "adminEnd" \notin Ops, LifecycleAssumption
    PROVE  SerialInv' /\ Maps
<1> USE DEF Goto, SerialInv, TypeInv, TypeOK
<1>0. /\ r \in Procs /\ {"dup", "read"} \subseteq PCs
      /\ "dup" \notin RestPCs /\ "read" \notin RestPCs
  BY DEF Procs, PCs, CreatePCs, DecidePCs, RestPCs, ClosedPCs
<1>1. ASSUME NEW pr \in Pairs, BeginCreate(r, pr)
      PROVE  SerialInv' /\ Maps
  <2>1. Knows(r)' /\ Placed'
    BY <1>0, <1>1 DEF BeginCreate, Knows, UsagePCs, Placed
  <2> QED
    BY <1>0, <1>1, <2>1, OneMoves, Stutter DEF BeginCreate
<1>2. ASSUME NEW o \in AllOps, NEW c \in Calls, BeginOnCall(r, o, c)
      PROVE  SerialInv' /\ Maps
  <2>1. Knows(r)' /\ Placed'
    BY <1>0, <1>2 DEF BeginOnCall, Knows, UsagePCs, Placed
  <2> QED
    BY <1>0, <1>2, <2>1, OneMoves, Stutter DEF BeginOnCall
<1> QED
  BY <1>1, <1>2 DEF Begin, AdminEnd

LEMMA SweepSerial ==
    ASSUME SerialInv, OneInFlight', TypeInv', NEW s \in Sweeps, SweepStep(s),
           LifecycleAssumption
    PROVE  SerialInv' /\ Maps
<1> USE DEF Goto, SerialInv, TypeInv, TypeOK
<1>0. /\ s \in Procs /\ s \notin Reqs
      /\ {"idle", "next", "read"} \subseteq PCs /\ "idle" \in RestPCs
      /\ "next" \notin RestPCs
  BY DEF Procs, PCs, DecidePCs, RestPCs, ClosedPCs, LifecycleAssumption
<1>1. ASSUME NEW l \in {"idle", "next", "read"}, pc'[s] = l
      PROVE  Knows(s)'
  BY <1>0, <1>1 DEF Knows, UsagePCs
<1>2. CASE SweepQuery(s)
  <2>1. Placed' /\ UNCHANGED <<status, usage>> /\ pc[s] = "idle"
    BY <1>2 DEF SweepQuery, Placed
  <2>2. CASE ExpiredCalls = {}
    <3>1. UNCHANGED pc
      BY <1>0, <1>2, <2>2 DEF SweepQuery
    <3>2. \A q \in Procs : Knows(q)'
      BY <1>2, <3>1 DEF SweepQuery, Knows, OpOf
    <3> QED
      BY <2>1, <3>2, Stutter
  <2>3. CASE ExpiredCalls # {}
    BY <1>0, <1>1, <1>2, <2>1, <2>3, OneMoves, Stutter DEF SweepQuery
  <2> QED
    BY <2>2, <2>3
<1>3. CASE SweepNext(s)
  <2>1. PICK l \in {"idle", "read"} : pc' = [pc EXCEPT ![s] = l]
    BY <1>3 DEF SweepNext
  <2>2. Placed' /\ UNCHANGED <<status, usage>> /\ ~AtRestPC(s)
    BY <1>0, <1>3 DEF SweepNext, Placed, AtRestPC
  <2>3. Knows(s)'
    BY <1>0, <1>1, <2>1
  <2> QED
    BY <1>0, <2>1, <2>2, <2>3, OneMoves, Stutter
<1>4. CASE DecideStep(s)
  BY <1>0, <1>4, DecideSerial
<1> QED
  BY <1>2, <1>3, <1>4 DEF SweepStep

LEMMA FaultSerial ==
    ASSUME SerialInv, OneInFlight', TypeInv', Fault, LifecycleAssumption
    PROVE  SerialInv' /\ Maps
<1> USE DEF Goto, SerialInv, TypeInv, TypeOK, HasTarget
<1>1. ASSUME NEW p \in Procs, StatementFails(p)
      PROVE  SerialInv' /\ Maps
  <2>1. /\ pc' = [pc EXCEPT ![p] = AfterFault(p)] /\ ~AtRestPC(p)
        /\ UNCHANGED <<status, session, usage, target>>
    BY <1>1 DEF StatementFails, InFlight, AtRestPC
  <2>2. /\ AfterFault(p) \in {"fcheck", "hook", "next", "failed"}
        /\ AfterFault(p) \in {"fcheck", "hook"} => pc[p] \in UsagePCs
    BY DEF AfterFault, UsagePCs
  <2>3. AfterFault(p) \in PCs
    BY <2>2 DEF PCs, RestPCs, ClosedPCs, EndPCs, UsagePCs
  <2>4. Knows(p)'
    BY <2>1, <2>2 DEF Knows, UsagePCs
  <2>5. Placed'
    BY <2>1 DEF Placed
  <2> QED
    BY <2>1, <2>3, <2>4, <2>5, OneMoves, Stutter
<1>2. ASSUME NEW r \in Reqs, InsertReplyLost(r)
      PROVE  SerialInv' /\ Maps
  <2>1. /\ r \in Procs /\ pc[r] = "insert" /\ ~AtRestPC(r)
        /\ "fcheck" \in PCs /\ pc' = [pc EXCEPT ![r] = "fcheck"]
        /\ UNCHANGED <<status, session, target>>
    BY <1>2 DEF InsertReplyLost, Procs, AtRestPC, RestPCs, ClosedPCs, PCs, EndPCs, UsagePCs
  <2>2. /\ target[r] \in Calls /\ status[target[r]] = "ENDED"
        /\ usage[target[r]] = {}
    BY <2>1 DEF EndPCs, UsagePCs, Knows
  <2>3. Knows(r)' /\ Placed'
    BY <2>1, <2>2 DEF Knows, UsagePCs, Placed
  <2>4. Maps
    BY <1>2, <2>1, <2>2, BillsOnce DEF InsertReplyLost
  <2> QED
    BY <2>1, <2>3, <2>4, OneMoves
<1>3. CASE CrashAndRestart
  <2>1. UNCHANGED <<status, session, usage>>
    BY <1>3 DEF CrashAndRestart
  <2>2. \A p \in Procs : AtRestPC(p)'
    BY <1>3 DEF CrashAndRestart, InFlight, AtRestPC, RestPCs, ClosedPCs
  <2>3. \A p \in Procs : Knows(p)'
    BY <2>2 DEF AtRestPC, Knows, RestPCs, ClosedPCs, UsagePCs
  <2>4. Placed'
    BY <2>1 DEF Placed
  <2> QED
    BY <2>1, <2>3, <2>4, Stutter
<1> QED
  BY <1>1, <1>2, <1>3 DEF Fault

---------------------------------------------------------------------------
(* A process begins only while all are at rest, and goes on alone.         *)
LEMMA MovesAlone ==
    ASSUME SerialInv, NEW p \in Procs, NEW l, pc' = [pc EXCEPT ![p] = l],
           InFlight(p) \/ AtRest
    PROVE  OneInFlight'
BY DEF SerialInv, TypeInv, TypeOK, OneInFlight, InFlight, AtRest

LEMMA StepMovesOne ==
    ASSUME NEW p \in Procs,
           \/ p \in Reqs /\ RequestStep(p)
           \/ p \in Sweeps /\ (SweepNext(p) \/ DecideStep(p))
    PROVE  InFlight(p) /\ \E l : pc' = [pc EXCEPT ![p] = l]
<1> USE DEF Goto, InFlight, RestPCs, ClosedPCs
<1>1. CASE CreateStep(p)
  BY <1>1 DEF CreateStep, CreateCheckDuplicate, CreateCheckBusy, CreateBusyRow, CreateRow,
       CreateLog, CreateSession
<1>2. CASE DecideStep(p)
  BY <1>2 DEF DecideStep, DecideRead, DecideWrite, DecideNotify
<1>3. CASE EndStep(p)
  <2>1. CASE EndRead(p) \/ EndClaim(p) \/ EndLog(p) \/ EndEnsureStart(p)
    BY <2>1 DEF EndRead, EndClaim, EndLog, EndEnsureStart
  <2>2. CASE EndRate(p) \/ RecordCheck(p) \/ RecordInsert(p) \/ EndHook(p)
    BY <2>2 DEF EndRate, RecordCheck, RecordInsert, EndHook
  <2> QED
    BY <1>3, <2>1, <2>2 DEF EndStep
<1>4. CASE SweepNext(p)
  BY <1>4 DEF SweepNext
<1> QED
  BY <1>1, <1>2, <1>3, <1>4 DEF RequestStep

LEMMA SerialIsNext == ASSUME SerialNext PROVE Next
BY DEF SerialNext, Next, SweepStep

LEMMA StaysOneInFlight ==
    ASSUME SerialInv, SerialNext, "adminEnd" \notin Ops
    PROVE  OneInFlight'
<1>1. ASSUME NEW r \in Reqs, AtRest, Begin(r)
      PROVE  OneInFlight'
  <2>1. \E l : pc' = [pc EXCEPT ![r] = l]
    BY <1>1 DEF Begin, BeginCreate, BeginOnCall, AdminEnd, Goto
  <2> QED
    BY <1>1, <2>1, MovesAlone DEF Procs
<1>2. ASSUME NEW s \in Sweeps, AtRest, SweepQuery(s)
      PROVE  OneInFlight'
  <2>1. \E l : pc' = [pc EXCEPT ![s] = l]
    BY <1>2 DEF SweepQuery, Goto
  <2> QED
    BY <1>2, <2>1, MovesAlone DEF Procs
<1>3. ASSUME NEW p \in Procs,
             \/ p \in Reqs /\ RequestStep(p)
             \/ p \in Sweeps /\ (SweepNext(p) \/ DecideStep(p))
      PROVE  OneInFlight'
  BY <1>3, StepMovesOne, MovesAlone
<1>4. ASSUME NEW c \in Calls, Expire(c) \/ SignalingStarted(c)
      PROVE  OneInFlight'
  BY <1>4 DEF Expire, SignalingStarted, SerialInv, OneInFlight, InFlight, locals
<1>5. CASE Fault
  <2>1. ASSUME NEW p \in Procs, StatementFails(p)
        PROVE  OneInFlight'
    BY <2>1, MovesAlone DEF StatementFails, Goto
  <2>2. ASSUME NEW r \in Reqs, InsertReplyLost(r)
        PROVE  OneInFlight'
    BY <2>2, MovesAlone DEF InsertReplyLost, Goto, InFlight, RestPCs, ClosedPCs, Procs
  <2>3. CASE CrashAndRestart
    BY <2>3 DEF CrashAndRestart, OneInFlight, InFlight, RestPCs, ClosedPCs
  <2> QED
    BY <1>5, <2>1, <2>2, <2>3 DEF Fault
<1> QED
  BY <1>1, <1>2, <1>3, <1>4, <1>5 DEF SerialNext, Procs

LEMMA NextSerial ==
    ASSUME SerialInv, [SerialNext]_vars, "adminEnd" \notin Ops, LifecycleAssumption
    PROVE  SerialInv' /\ Maps
<1>1. TypeInv'
  BY NextTypeInv, SerialIsNext DEF SerialInv
<1>2. CASE UNCHANGED vars
  <2>1. OneInFlight' /\ Placed' /\ UNCHANGED <<status, usage>>
    BY <1>2 DEF vars, SerialInv, OneInFlight, InFlight, Placed
  <2>2. \A p \in Procs : Knows(p)'
    BY <1>2 DEF vars, SerialInv, Knows, OpOf
  <2> QED
    BY <1>1, <2>1, <2>2, Stutter DEF SerialInv
<1> SUFFICES ASSUME Next, OneInFlight'
             PROVE  SerialInv' /\ Maps
  BY <1>2, SerialIsNext, StaysOneInFlight
<1>3. ASSUME NEW r \in Reqs, Begin(r) \/ RequestStep(r)
      PROVE  SerialInv' /\ Maps
  BY <1>1, <1>3, BeginSerial, CreateSerial, DecideSerial, EndSerial
     DEF RequestStep, Procs
<1>4. ASSUME NEW s \in Sweeps, SweepStep(s)
      PROVE  SerialInv' /\ Maps
  BY <1>1, <1>4, SweepSerial
<1>5. ASSUME NEW c \in Calls, Expire(c) \/ SignalingStarted(c)
      PROVE  SerialInv' /\ Maps
  <2>1. UNCHANGED <<status, session, usage, pc, op, target>>
    BY <1>5 DEF Expire, SignalingStarted
  <2>2. Placed' /\ \A p \in Procs : Knows(p)'
    BY <2>1 DEF SerialInv, Placed, Knows, OpOf
  <2> QED
    BY <1>1, <2>1, <2>2, Stutter DEF SerialInv
<1>6. CASE Fault
  BY <1>1, <1>6, FaultSerial
<1> QED
  BY <1>3, <1>4, <1>5, <1>6 DEF Next

(* With operations that do not overlap, and without the administrator's    *)
(* end, the service keeps the protocol: outcomes are final, a call ends    *)
(* once and is billed at most once, and only after it has ended, whatever  *)
(* statements fail and however often the server restarts.                  *)
THEOREM SerialKeepsProtocol ==
    ASSUME "adminEnd" \notin Ops
    PROVE  SerialSpec => KeepsProtocol
<1>1. Init => SerialInv
  BY InitSerialInv, LifecycleAssumption
<1>2. Init => Protocol!Init
  BY FS_EmptySet, LifecycleAssumption DEF Init, Protocol!Init, LifecycleAssumption
<1>3. SerialInv /\ [SerialNext]_vars => SerialInv' /\ [Protocol!Next]_<<status, Bills>>
  BY NextSerial, LifecycleAssumption DEF Maps
<1> QED
  BY <1>1, <1>2, <1>3, PTL DEF SerialSpec, KeepsProtocol, Protocol!Spec, Bills

----------------------------------------------------------------------------
(***************************************************************************)
(* What a call's participants are told and what its owner is billed, when  *)
(* operations do not overlap.                                              *)
(***************************************************************************)

(* The message that tells participants of a decision, and the statuses of  *)
(* a call of which they have been told so.                                 *)
Outcomes == {"call-accepted", "call-rejected", "call-cancelled", "call-missed"}
Told(c) == sent[c] \cap Outcomes
NoticeOf(o) ==
    CASE o = "accept" -> "call-accepted"
      [] o = "reject" -> "call-rejected"
      [] o = "cancel" -> "call-cancelled"
      [] o = "miss"   -> "call-missed"
Since(m) ==
    CASE m = "call-accepted"  -> {"ACCEPTED", "ENDED"}
      [] m = "call-rejected"  -> {"REJECTED", "ENDED"}
      [] m = "call-cancelled" -> {"CANCELLED", "ENDED"}
      [] m = "call-missed"    -> {"MISSED", "ENDED"}

(* The statements between the claim of ENDED and the webhook.              *)
RecordPCs == {"log"} \cup UsagePCs
Recording(c) == \E r \in Reqs : target[r] = c /\ pc[r] \in RecordPCs

NothingFailed == faults = 0 /\ crashes = 0

(* A call's participants were told of one outcome, which stands until the  *)
(* call ends; a bill goes with the end, is the only one and knows of the   *)
(* start; and an ended call is billed or about to be.                      *)
CallInv(c) ==
    /\ \A m \in Told(c) : status[c] \in Since(m)
    /\ \A m, n \in Told(c) : m = n
    /\ \A u \in usage[c] : started[c] => u.timed
    /\ \A u, v \in usage[c] : u = v
    /\ usage[c] # {} => status[c] = "ENDED"
    /\ NothingFailed /\ status[c] = "ENDED" => usage[c] # {} \/ Recording(c)

(* What a process knows beyond Knows: the decision it is about to announce *)
(* stands and no other was announced, the receiver it found free still is, *)
(* and the start time it read or derived is the call's.                    *)
Remembers(p) ==
    /\ pc[p] = "notify" =>
          /\ status[target[p]] = Written(OpOf(p))
          /\ Told(target[p]) \subseteq {NoticeOf(OpOf(p))}
    /\ p \in Reqs =>
          /\ pc[p] = "row" => ~ReceiverBusy(want[p])
          /\ pc[p] \in {"claim"} \cup RecordPCs => snap[p] = started[target[p]]
          /\ pc[p] = "rate" /\ snap[p] => "CALL_STARTED" \in events[target[p]]
          /\ pc[p] \in {"check", "insert"} /\ started[target[p]] => timed[p]

BillInv ==
    /\ \A c \in Calls : CallInv(c)
    /\ \A p \in Procs : Remembers(p)

---------------------------------------------------------------------------
(* At rest there is nothing to remember, and while p moves all others rest. *)
LEMMA RestRemembers ==
    ASSUME NEW p \in Procs, AtRestPC(p)
    PROVE  Remembers(p)
  BY DEF AtRestPC, Remembers, RecordPCs, RestPCs, ClosedPCs, UsagePCs

LEMMA OthersRemember ==
    ASSUME SerialInv, OneInFlight', NEW p \in Procs, NEW l \in PCs,
           pc' = [pc EXCEPT ![p] = l],
           ~AtRestPC(p) \/ l \notin RestPCs,
           NEW q \in Procs, q # p
    PROVE  Remembers(q)'
<1>1. pc'[p] = l /\ pc'[q] = pc[q]
  BY DEF SerialInv, TypeInv, TypeOK
<1>2. AtRestPC(q)'
  BY <1>1 DEF SerialInv, OneInFlight, InFlight, AtRestPC
<1> QED
  BY <1>2 DEF AtRestPC, Remembers, RecordPCs, RestPCs, ClosedPCs, UsagePCs

LEMMA Combine ==
    ASSUME SerialInv, OneInFlight', NEW p \in Procs, NEW l \in PCs,
           pc' = [pc EXCEPT ![p] = l],
           ~AtRestPC(p) \/ l \notin RestPCs,
           Remembers(p)', \A c \in Calls : CallInv(c)'
    PROVE  BillInv'
BY OthersRemember DEF BillInv

LEMMA SameWords == ASSUME UNCHANGED sent PROVE \A c : Told(c)' = Told(c)
BY DEF Told

(* When an outcome has been announced, and what it says of the status.      *)
LEMMA SinceWords ==
    ASSUME NEW m \in Outcomes
    PROVE  /\ Since(m) \cap {"NONE", "BUSY", "RINGING"} = {}
           /\ "ACCEPTED" \in Since(m) => m = "call-accepted"
           /\ "ENDED" \in Since(m)
BY DEF Outcomes, Since

LEMMA Unannounced ==
    ASSUME BillInv, NEW c \in Calls, status[c] \in {"NONE", "BUSY", "RINGING"}
    PROVE  Told(c) = {} /\ usage[c] = {}
<1>1. \A m \in Told(c) : m \in Outcomes /\ status[c] \in Since(m)
  BY DEF BillInv, CallInv, Told
<1>2. Told(c) = {}
  BY <1>1, SinceWords
<1> QED
  BY <1>2 DEF BillInv, CallInv

(* A call stays in order while its row, messages and bills are left alone.  *)
LEMMA SameCall ==
    ASSUME NEW c \in Calls, CallInv(c),
           status'[c] = status[c], started'[c] = started[c], usage'[c] = usage[c],
           Told(c)' = Told(c), NothingFailed' => NothingFailed,
           Recording(c) => Recording(c)' \/ usage[c] # {} \/ ~NothingFailed'
    PROVE  CallInv(c)'
BY DEF CallInv

(* Who records a call goes on doing so until it comes to the webhook.       *)
LEMMA KeepsRecording ==
    ASSUME TypeInv, NEW p \in Procs, NEW l, pc' = [pc EXCEPT ![p] = l],
           pc[p] \in RecordPCs => l \in RecordPCs,
           \A r \in Reqs : pc[r] \in RecordPCs => target'[r] = target[r],
           NEW c, Recording(c)
    PROVE  Recording(c)'
<1>1. PICK r \in Reqs : target[r] = c /\ pc[r] \in RecordPCs
  BY DEF Recording
<1>2. pc'[r] \in RecordPCs /\ target'[r] = c
  BY <1>1 DEF TypeInv, TypeOK, Procs
<1> QED
  BY <1>2 DEF Recording

LEMMA QuietStep ==
    ASSUME SerialInv, BillInv, OneInFlight', NEW p \in Procs, NEW l \in PCs,
           pc' = [pc EXCEPT ![p] = l],
           ~AtRestPC(p) \/ l \notin RestPCs,
           pc[p] \in RecordPCs => l \in RecordPCs,
           \A r \in Reqs : pc[r] \in RecordPCs => target'[r] = target[r],
           UNCHANGED <<status, started, usage, faults, crashes>>,
           \A c \in Calls : Told(c)' = Told(c),
           Remembers(p)'
    PROVE  BillInv'
<1>1. ASSUME NEW c \in Calls PROVE CallInv(c)'
  BY SameCall, KeepsRecording DEF BillInv, SerialInv, NothingFailed
<1> QED
  BY <1>1, Combine

(* Nothing changes but, at most, that more events are recorded.             *)
LEMMA SameState ==
    ASSUME SerialInv, SerialInv', BillInv,
           UNCHANGED <<status, started, sent, usage, faults, crashes, pc, target, op,
                       snap, want, timed, parties>>,
           \A c \in Calls : events[c] \subseteq events'[c]
    PROVE  BillInv'
<1>1. ASSUME NEW c \in Calls PROVE CallInv(c)'
  <2>1. Recording(c)' = Recording(c) /\ NothingFailed' = NothingFailed
    BY DEF Recording, NothingFailed
  <2> QED
    BY <2>1, SameCall, SameWords DEF BillInv
<1>2. ASSUME NEW p \in Procs PROVE Remembers(p)'
  <2>1. OpOf(p)' = OpOf(p) /\ Told(target[p])' = Told(target[p])
    BY DEF OpOf, Told
  <2>2. p \in Reqs /\ pc[p] = "rate" => target[p] \in Calls
    BY DEF SerialInv, TypeInv, HasTarget, EndPCs, UsagePCs
  <2>3. p \in Reqs => (ReceiverBusy(want[p]) <=> ReceiverBusy(want[p])')
    BY DEF ReceiverBusy
  <2> QED
    BY <2>1, <2>2, <2>3 DEF BillInv, Remembers
<1> QED
  BY <1>1, <1>2 DEF BillInv

---------------------------------------------------------------------------
LEMMA CreateBills ==
    ASSUME SerialInv, SerialInv', BillInv, NEW r \in Reqs, CreateStep(r)
    PROVE  BillInv'
<1> USE DEF Goto, SerialInv, TypeInv, TypeOK, HasTarget
<1>0. r \in Procs /\ {"done", "busy", "busyRow", "row", "created", "session"} \subseteq PCs
  BY DEF Procs, PCs, CreatePCs, RestPCs, ClosedPCs
<1>1. /\ ~AtRestPC(r) /\ pc[r] \notin RecordPCs
      /\ UNCHANGED <<started, usage, faults, crashes, snap>>
      /\ \A q \in Reqs : pc[q] \in RecordPCs => target'[q] = target[q]
  <2> USE DEF AtRestPC, RestPCs, ClosedPCs, RecordPCs, UsagePCs
  <2>1. CASE CreateCheckDuplicate(r) \/ CreateCheckBusy(r)
    BY <2>1 DEF CreateCheckDuplicate, CreateCheckBusy
  <2>2. CASE CreateBusyRow(r) \/ CreateLog(r) \/ CreateSession(r)
    BY <2>2 DEF CreateBusyRow, CreateLog, CreateSession
  <2>3. CASE CreateRow(r)
    BY <1>0, <2>3 DEF CreateRow
  <2> QED
    BY <2>1, <2>2, <2>3 DEF CreateStep
<1>2. ASSUME NEW l \in {"done", "busy", "busyRow", "created", "session"}, pc'[r] = l
      PROVE  Remembers(r)'
  BY <1>0, <1>2 DEF Remembers, RecordPCs, UsagePCs
<1>3. ASSUME NEW l \in {"done", "busy", "busyRow", "created", "session"},
             pc' = [pc EXCEPT ![r] = l], UNCHANGED status, \A c \in Calls : Told(c)' = Told(c)
      PROVE  BillInv'
  BY <1>0, <1>1, <1>2, <1>3, QuietStep
<1>4. CASE CreateCheckDuplicate(r)
  <2>1. PICK l \in {"done", "busy"} : pc' = [pc EXCEPT ![r] = l]
    BY <1>4 DEF CreateCheckDuplicate
  <2> QED
    BY <1>3, <1>4, <2>1, SameWords DEF CreateCheckDuplicate
<1>5. CASE CreateCheckBusy(r)
  <2>1. CASE ~ReceiverBusy(want[r]) /\ pc' = [pc EXCEPT ![r] = "row"]
    <3>1. /\ ~ReceiverBusy(want[r])'
          /\ UNCHANGED <<status, sent>> /\ pc'[r] = "row" /\ "row" \notin RecordPCs
      BY <1>0, <1>5, <2>1 DEF CreateCheckBusy, ReceiverBusy, RecordPCs, UsagePCs
    <3>2. Remembers(r)'
      BY <1>0, <3>1 DEF Remembers, RecordPCs, UsagePCs
    <3> QED
      BY <1>0, <1>1, <2>1, <3>1, <3>2, QuietStep, SameWords
  <2>2. CASE pc' = [pc EXCEPT ![r] = "busyRow"] \/ pc' = [pc EXCEPT ![r] = "done"]
    <3>1. UNCHANGED <<status, sent>>
      BY <1>5 DEF CreateCheckBusy
    <3> QED
      BY <1>3, <2>2, <3>1, SameWords
  <2> QED
    BY <1>5, <2>1, <2>2 DEF CreateCheckBusy
(* A row that is used for the first time has no messages and no bills.      *)
<1>6. ASSUME NEW c \in Calls, status[c] = "NONE", NEW to \in {"RINGING", "BUSY"},
             status' = [status EXCEPT ![c] = to], \A d \in Calls : Told(d)' = Told(d),
             NEW l \in {"done", "created"}, pc' = [pc EXCEPT ![r] = l]
      PROVE  BillInv'
  <2>1. Told(c) = {} /\ usage[c] = {}
    BY <1>6, Unannounced
  <2>2. CallInv(c)'
    BY <1>1, <1>6, <2>1 DEF CallInv
  <2>3. ASSUME NEW d \in Calls, d # c PROVE CallInv(d)'
    BY <1>0, <1>1, <1>6, <2>3, SameCall, KeepsRecording DEF BillInv, NothingFailed
  <2> QED
    BY <1>0, <1>1, <1>2, <1>6, <2>2, <2>3, Combine
<1>7. CASE CreateBusyRow(r)
  <2>1. PICK c \in Calls : /\ status[c] = "NONE"
                           /\ status' = [status EXCEPT ![c] = "BUSY"]
                           /\ sent' = [sent EXCEPT ![c] = @ \cup {"call.busy"}]
    BY <1>7 DEF CreateBusyRow, Unused
  <2>2. \A d \in Calls : Told(d)' = Told(d)
    BY <2>1 DEF Told, Outcomes
  <2> QED
    BY <1>6, <1>7, <2>1, <2>2 DEF CreateBusyRow
<1>8. CASE CreateRow(r)
  <2>1. PICK c \in Calls : /\ status[c] = "NONE"
                           /\ status' = [status EXCEPT ![c] = "RINGING"]
    BY <1>8 DEF CreateRow, Unused
  <2>2. UNCHANGED sent /\ pc' = [pc EXCEPT ![r] = "created"]
    BY <1>8 DEF CreateRow
  <2> QED
    BY <1>6, <2>1, <2>2, SameWords
<1>9. CASE CreateLog(r)
  <2>1. UNCHANGED <<status, sent>> /\ pc' = [pc EXCEPT ![r] = "session"]
    BY <1>9 DEF CreateLog
  <2> QED
    BY <1>3, <2>1, SameWords
<1>10. CASE CreateSession(r)
  <2>1. \A d \in Calls : Told(d)' = Told(d)
    BY <1>10 DEF CreateSession, Told, Outcomes
  <2> QED
    BY <1>3, <1>10, <2>1 DEF CreateSession
<1> QED
  BY <1>4, <1>5, <1>7, <1>8, <1>9, <1>10 DEF CreateStep

LEMMA DecisionWords ==
    ASSUME NEW o \in Decisions
    PROVE  /\ NoticesOf(o) \cap Outcomes = {NoticeOf(o)}
           /\ Since(NoticeOf(o)) = {Written(o), "ENDED"}
           /\ Written(o) \notin {"ENDED", "RINGING", "NONE", "BUSY"}
           /\ o # "accept" => Written(o) # "ACCEPTED"
<1>1. o \in {"accept", "reject", "cancel", "miss"}
  BY DEF Decisions
<1> QED
  BY <1>1 DEF NoticesOf, NoticeOf, Outcomes, Since, Written

LEMMA DecideBills ==
    ASSUME SerialInv, SerialInv', BillInv, NEW p \in Procs, DecideStep(p)
    PROVE  BillInv'
<1> USE DEF Goto, SerialInv, TypeInv, TypeOK, HasTarget
<1>0. After(p) \in {"next", "done"} /\ {"next", "done", "write", "notify"} \subseteq PCs
  BY DEF After, PCs, RestPCs, ClosedPCs, DecidePCs
<1>1. /\ pc[p] \in DecidePCs /\ ~AtRestPC(p) /\ pc[p] \notin RecordPCs /\ target[p] \in Calls
      /\ UNCHANGED <<usage, faults, crashes, snap, target, op>>
      /\ pc[p] \in {"write", "notify"} => OpOf(p) \in Decisions
  <2>1. pc[p] \in DecidePCs /\ UNCHANGED <<usage, faults, crashes, snap, target, op>>
    BY DEF DecideStep, DecideRead, DecideWrite, DecideNotify, DecidePCs
  <2>2. ~AtRestPC(p) /\ pc[p] \notin RecordPCs /\ target[p] \in Calls
    BY <2>1 DEF DecidePCs, AtRestPC, RestPCs, ClosedPCs, RecordPCs, UsagePCs
  <2>3. pc[p] \in {"write", "notify"} => OpOf(p) \in Decisions
    BY DEF SweepsOnlyMiss, DecidePCs, OpOf, Decisions, Procs
  <2> QED
    BY <2>1, <2>2, <2>3
<1>c. PICK c \in Calls : c = target[p]
  BY <1>1
<1>o. PICK o : o = OpOf(p)
  OBVIOUS
<1>2. ASSUME NEW l \in {"next", "done", "write"}, pc'[p] = l
      PROVE  Remembers(p)'
  BY <1>2 DEF Remembers, RecordPCs, UsagePCs
<1>3. CASE DecideRead(p)
  <2>1. PICK l \in {"next", "done", "write"} : pc' = [pc EXCEPT ![p] = l]
    BY <1>0, <1>3 DEF DecideRead
  <2>2. UNCHANGED <<status, started, sent>>
    BY <1>3 DEF DecideRead
  <2>3. l \in PCs /\ Remembers(p)'
    BY <1>0, <1>1, <1>2, <2>1
  <2> QED
    BY <1>1, <2>1, <2>2, <2>3, QuietStep, SameWords
<1>4. CASE DecideWrite(p)
  <2> USE <1>c, <1>o
  <2>1. /\ pc[p] = "write" /\ pc' = [pc EXCEPT ![p] = "notify"]
        /\ status' = [status EXCEPT ![c] = Written(o)]
        /\ started' = [started EXCEPT ![c] = @ \/ o = "accept"]
        /\ UNCHANGED sent
    BY <1>4 DEF DecideWrite
  <2>2. /\ o \in Decisions
        /\ status[c] = "RINGING" \/ (status[c] = "ACCEPTED" /\ o = "accept")
    <3>1. o \in Decisions /\ status[c] \in Guard(o)
      BY <2>1 DEF Knows
    <3> QED
      BY <3>1 DEF Guard
  <2>3. Told(c) \subseteq {NoticeOf(o)} /\ usage[c] = {}
    <3>1. CASE status[c] = "RINGING"
      BY <1>1, <3>1, Unannounced
    <3>2. CASE status[c] = "ACCEPTED" /\ o = "accept"
      <4>1. \A m \in Told(c) : m \in Outcomes /\ status[c] \in Since(m)
        BY <1>1 DEF BillInv, CallInv, Told
      <4>2. \A m \in Told(c) : m = NoticeOf(o)
        BY <3>2, <4>1, SinceWords DEF NoticeOf
      <4> QED
        BY <1>1, <3>2, <4>2 DEF BillInv, CallInv
    <3> QED
      BY <2>2, <3>1, <3>2
  <2>4. CallInv(c)'
    <3>1. Told(c)' = Told(c) /\ usage'[c] = {} /\ status'[c] = Written(o)
      BY <1>1, <2>1, <2>3 DEF Told
    <3>2. status'[c] \in Since(NoticeOf(o)) /\ status'[c] # "ENDED"
      BY <2>2, <3>1, DecisionWords
    <3> QED
      BY <2>3, <3>1, <3>2 DEF CallInv
  <2>5. ASSUME NEW d \in Calls, d # c PROVE CallInv(d)'
    <3>1. /\ status'[d] = status[d] /\ started'[d] = started[d] /\ Told(d)' = Told(d)
          /\ Recording(d) => Recording(d)'
      BY <1>1, <2>1, <2>5, KeepsRecording DEF Told
    <3> QED
      BY <1>1, <3>1, SameCall DEF BillInv, NothingFailed
  <2>6. Remembers(p)'
    BY <1>1, <2>1, <2>3 DEF Remembers, Told, OpOf, RecordPCs, UsagePCs
  <2> QED
    BY <1>0, <1>1, <2>1, <2>4, <2>5, <2>6, Combine
<1>5. CASE DecideNotify(p)
  <2> USE <1>c, <1>o
  <2>1. /\ pc[p] = "notify" /\ pc' = [pc EXCEPT ![p] = After(p)]
        /\ sent' = [sent EXCEPT ![c] = @ \cup NoticesOf(o)]
        /\ UNCHANGED <<status, started>>
    BY <1>5 DEF DecideNotify
  <2>2. /\ o \in Decisions /\ status[c] = Written(o) /\ Told(c) \subseteq {NoticeOf(o)}
    BY <1>1, <2>1 DEF BillInv, Remembers
  <2>3. Told(c)' = {NoticeOf(o)}
    BY <1>1, <2>1, <2>2, DecisionWords DEF Told
  <2>4. CallInv(c)'
    <3>1. usage[c] = {}
      BY <1>1, <2>2, DecisionWords DEF BillInv, CallInv
    <3>2. /\ status'[c] \in Since(NoticeOf(o)) /\ status'[c] # "ENDED"
          /\ usage'[c] = {}
      BY <1>1, <2>1, <2>2, <3>1, DecisionWords
    <3> QED
      BY <2>3, <3>2 DEF CallInv
  <2>5. ASSUME NEW d \in Calls, d # c PROVE CallInv(d)'
    <3>1. /\ Told(d)' = Told(d)
          /\ Recording(d) => Recording(d)'
      BY <1>1, <2>1, <2>5, KeepsRecording DEF Told
    <3> QED
      BY <1>1, <2>1, <3>1, SameCall DEF BillInv, NothingFailed
  <2>6. Remembers(p)'
    BY <1>0, <1>2, <2>1
  <2> QED
    BY <1>0, <1>1, <2>1, <2>4, <2>5, <2>6, Combine
<1> QED
  BY <1>3, <1>4, <1>5 DEF DecideStep

---------------------------------------------------------------------------
(* endCall: from the claim to the webhook the call stays ENDED and is being *)
(* recorded; leaving that section without a bill takes a failure.           *)
LEMMA EndQuiet ==
    ASSUME SerialInv, BillInv, OneInFlight', NEW r \in Reqs, NEW l \in PCs,
           pc' = [pc EXCEPT ![r] = l], ~AtRestPC(r),
           \/ pc[r] \in RecordPCs => l \in RecordPCs
           \/ usage[target[r]] # {}
           \/ ~NothingFailed',
           NothingFailed' => NothingFailed,
           UNCHANGED <<status, started, usage, target>>,
           \A c \in Calls : Told(c)' = Told(c),
           Remembers(r)'
    PROVE  BillInv'
<1>0. r \in Procs
  BY DEF Procs
<1>1. ASSUME NEW c \in Calls PROVE CallInv(c)'
  <2>1. Recording(c) => Recording(c)' \/ usage[c] # {} \/ ~NothingFailed'
    <3> SUFFICES ASSUME Recording(c) PROVE Recording(c)' \/ usage[c] # {} \/ ~NothingFailed'
      OBVIOUS
    <3>1. PICK q \in Reqs : target[q] = c /\ pc[q] \in RecordPCs
      BY DEF Recording
    <3>2. CASE q = r /\ l \notin RecordPCs
      BY <3>1, <3>2
    <3>3. CASE q # r \/ l \in RecordPCs
      <4>1. pc'[q] \in RecordPCs /\ target'[q] = c
        BY <1>0, <3>1, <3>3 DEF SerialInv, TypeInv, TypeOK, Procs
      <4> QED
        BY <4>1 DEF Recording
    <3> QED
      BY <3>2, <3>3
  <2> QED
    BY <2>1, SameCall DEF BillInv
<1> QED
  BY <1>0, <1>1, Combine

(* The first bill of an ended call, with the start time if it has one.      *)
LEMMA BillsInOrder ==
    ASSUME SerialInv, BillInv, OneInFlight', NEW r \in Reqs, NEW c \in Calls,
           c = target[r], pc[r] \in {"insert", "finsert"},
           status[c] = "ENDED", usage[c] = {},
           NEW l \in {"hook", "fcheck"}, pc' = [pc EXCEPT ![r] = l],
           NEW u, usage' = [usage EXCEPT ![c] = {u}], started[c] => u.timed,
           UNCHANGED <<status, started, sent, target, snap>>,
           NothingFailed' => NothingFailed
    PROVE  BillInv'
<1> USE DEF SerialInv, TypeInv, TypeOK, RecordPCs, UsagePCs
<1>0. r \in Procs /\ l \in PCs /\ ~AtRestPC(r)
  BY DEF Procs, PCs, EndPCs, AtRestPC, RestPCs, ClosedPCs
<1>1. CallInv(c)'
  <2>1. usage'[c] = {u} /\ Told(c)' = Told(c)
    BY SameWords
  <2>2. \A x \in usage'[c] : started'[c] => x.timed
    BY <2>1
  <2>3. \A m \in Told(c)' : status'[c] \in Since(m)
    BY <2>1 DEF BillInv, CallInv
  <2>4. \A m, n \in Told(c)' : m = n
    BY <2>1 DEF BillInv, CallInv
  <2> QED
    BY <2>1, <2>2, <2>3, <2>4 DEF CallInv
<1>2. ASSUME NEW d \in Calls, d # c PROVE CallInv(d)'
  <2>1. Recording(d) => Recording(d)'
    <3> SUFFICES ASSUME Recording(d) PROVE Recording(d)'
      OBVIOUS
    <3>1. PICK q \in Reqs : target[q] = d /\ pc[q] \in RecordPCs
      BY DEF Recording
    <3>2. pc'[q] = pc[q] /\ target'[q] = d
      BY <1>0, <1>2, <3>1 DEF Procs
    <3> QED
      BY <3>1, <3>2 DEF Recording
  <2> QED
    BY <1>2, <2>1, SameCall, SameWords DEF BillInv
<1>3. Remembers(r)'
  BY <1>0 DEF BillInv, Remembers
<1> QED
  BY <1>0, <1>1, <1>2, <1>3, Combine

LEMMA EndBills ==
    ASSUME SerialInv, SerialInv', BillInv, NEW r \in Reqs, EndStep(r)
    PROVE  BillInv'
<1> USE DEF Goto, SerialInv, TypeInv, TypeOK, HasTarget
<1>0. /\ r \in Procs
      /\ {"claim", "log", "start", "rate", "check", "insert", "fcheck", "finsert",
          "hook", "done"} \subseteq PCs
  BY DEF Procs, PCs, EndPCs, UsagePCs, RestPCs, ClosedPCs
<1>1. /\ pc[r] \in EndPCs /\ ~AtRestPC(r) /\ target[r] \in Calls
      /\ UNCHANGED <<started, faults, crashes, target>>
  <2>1. CASE EndRead(r) \/ EndClaim(r) \/ EndLog(r) \/ EndEnsureStart(r)
    BY <1>0, <2>1 DEF EndRead, EndClaim, EndLog, EndEnsureStart, AtRestPC, RestPCs,
         ClosedPCs, EndPCs, UsagePCs
  <2>2. CASE EndRate(r) \/ RecordCheck(r) \/ RecordInsert(r) \/ EndHook(r)
    BY <1>0, <2>2 DEF EndRate, RecordCheck, RecordInsert, EndHook, AtRestPC, RestPCs,
         ClosedPCs, EndPCs, UsagePCs
  <2> QED
    BY <2>1, <2>2 DEF EndStep
<1>c. PICK c \in Calls : c = target[r]
  BY <1>1
<1>2. /\ pc[r] \in {"claim"} \cup RecordPCs => snap[r] = started[c]
      /\ pc[r] = "rate" /\ snap[r] => "CALL_STARTED" \in events[c]
      /\ pc[r] \in {"check", "insert"} /\ started[c] => timed[r]
      /\ pc[r] \in {"hook"} \cup RecordPCs => status[c] = "ENDED"
      /\ pc[r] \in {"insert", "finsert"} => usage[c] = {}
  BY <1>0, <1>c DEF BillInv, Remembers, Knows, RecordPCs
<1>3. NothingFailed' = NothingFailed
  BY <1>1 DEF NothingFailed
<1>4. CASE EndRead(r)
  <2>1. UNCHANGED <<status, usage, sent>> /\ pc' = [pc EXCEPT ![r] = "claim"]
        /\ snap'[r] = started'[target'[r]] /\ pc[r] \notin RecordPCs
    BY <1>0, <1>1, <1>4 DEF EndRead, RecordPCs, UsagePCs
  <2>2. Remembers(r)'
    BY <1>0, <2>1 DEF Remembers, RecordPCs, UsagePCs
  <2> QED
    BY <1>0, <1>1, <1>3, <2>1, <2>2, EndQuiet, SameWords
<1>5. CASE EndClaim(r) /\ ~Claimable(target[r])
  <2>1. UNCHANGED <<status, usage, sent>> /\ pc' = [pc EXCEPT ![r] = "done"]
        /\ pc[r] \notin RecordPCs
    BY <1>0, <1>1, <1>5 DEF EndClaim, RecordPCs, UsagePCs
  <2>2. Remembers(r)'
    BY <1>0, <2>1 DEF Remembers, RecordPCs, UsagePCs
  <2> QED
    BY <1>0, <1>1, <1>3, <2>1, <2>2, EndQuiet, SameWords
<1>6. CASE EndClaim(r) /\ Claimable(target[r])
  <2>1. /\ pc[r] = "claim" /\ pc' = [pc EXCEPT ![r] = "log"]
        /\ status' = [status EXCEPT ![c] = "ENDED"]
        /\ UNCHANGED <<usage, sent, snap>>
    BY <1>c, <1>6 DEF EndClaim
  <2>2. status[c] # "ENDED"
    BY <1>c, <1>6 DEF Claimable
  <2>3. CallInv(c)'
    <3>1. Recording(c)'
      BY <1>0, <1>1, <1>c, <2>1 DEF Recording, RecordPCs
    <3>2. \A m \in Told(c) : "ENDED" \in Since(m)
      BY SinceWords DEF Told
    <3> QED
      BY <1>1, <2>1, <2>2, <3>1, <3>2, SameWords DEF BillInv, CallInv
  <2>4. ASSUME NEW d \in Calls, d # c PROVE CallInv(d)'
    <3>1. Recording(d) => Recording(d)'
      BY <1>0, <1>1, <2>1, KeepsRecording DEF RecordPCs, UsagePCs
    <3> QED
      BY <1>1, <1>3, <2>1, <2>4, <3>1, SameCall, SameWords DEF BillInv
  <2>5. Remembers(r)'
    BY <1>0, <1>1, <1>2, <1>c, <2>1 DEF Remembers, RecordPCs, UsagePCs
  <2> QED
    BY <1>0, <1>1, <2>1, <2>3, <2>4, <2>5, Combine
<1>7. CASE EndLog(r)
  <2>1. /\ UNCHANGED <<status, usage, sent, snap>> /\ pc' = [pc EXCEPT ![r] = "start"]
        /\ pc[r] = "log"
    BY <1>7 DEF EndLog
  <2>2. Remembers(r)'
    BY <1>0, <1>1, <1>2, <1>c, <2>1 DEF Remembers, RecordPCs, UsagePCs
  <2> QED
    BY <1>0, <1>1, <1>3, <2>1, <2>2, EndQuiet, SameWords DEF RecordPCs, UsagePCs
<1>8. CASE EndEnsureStart(r)
  <2>1. /\ UNCHANGED <<status, usage, sent, snap>> /\ pc' = [pc EXCEPT ![r] = "rate"]
        /\ pc[r] = "start"
        /\ snap[r] => "CALL_STARTED" \in events'[c]
    BY <1>c, <1>8 DEF EndEnsureStart, StartEvent
  <2>2. Remembers(r)'
    BY <1>0, <1>1, <1>2, <1>c, <2>1 DEF Remembers, RecordPCs, UsagePCs
  <2> QED
    BY <1>0, <1>1, <1>3, <2>1, <2>2, EndQuiet, SameWords DEF RecordPCs, UsagePCs
<1>9. CASE EndRate(r)
  <2>1. /\ UNCHANGED <<status, usage, sent, snap>> /\ pc' = [pc EXCEPT ![r] = "check"]
        /\ pc[r] = "rate" /\ timed'[r] = ("CALL_STARTED" \in events[c])
    BY <1>c, <1>9 DEF EndRate
  <2>2. started[c] => timed'[r]
    BY <1>2, <2>1 DEF RecordPCs, UsagePCs
  <2>3. Remembers(r)'
    BY <1>0, <1>1, <1>2, <1>c, <2>1, <2>2 DEF Remembers, RecordPCs, UsagePCs
  <2> QED
    BY <1>0, <1>1, <1>3, <2>1, <2>3, EndQuiet, SameWords DEF RecordPCs, UsagePCs
<1>10. CASE RecordCheck(r)
  <2>1. PICK l \in {"hook", "insert", "finsert"} :
           /\ pc' = [pc EXCEPT ![r] = l]
           /\ pc[r] \in {"check", "fcheck"}
           /\ l = "hook" => usage[target[r]] # {}
           /\ l = "insert" => pc[r] = "check"
    BY <1>10 DEF RecordCheck, AlreadyRecorded
  <2>2. UNCHANGED <<status, usage, sent, snap, timed>>
    BY <1>10 DEF RecordCheck
  <2>3. Remembers(r)'
    BY <1>0, <1>1, <1>2, <1>c, <2>1, <2>2 DEF Remembers, RecordPCs, UsagePCs
  <2>4. l \in PCs
    BY <1>0
  <2> QED
    BY <1>0, <1>1, <1>3, <2>1, <2>2, <2>3, <2>4, EndQuiet, SameWords DEF RecordPCs, UsagePCs
<1>11. CASE RecordInsert(r)
  <2>1. /\ pc[r] \in {"insert", "finsert"} /\ pc' = [pc EXCEPT ![r] = "hook"]
        /\ UNCHANGED <<status, sent, snap>>
    BY <1>11 DEF RecordInsert
  <2>2. PICK u : u = RowOf(r)
    OBVIOUS
  <2>3. usage' = [usage EXCEPT ![c] = {u}]
    BY <1>2, <1>c, <1>11, <2>2 DEF RecordInsert
  <2>4. started[c] => u.timed
    BY <1>2, <2>1, <2>2 DEF RowOf, RecordPCs, UsagePCs
  <2>5. status[c] = "ENDED" /\ usage[c] = {}
    BY <1>2, <2>1 DEF RecordPCs, UsagePCs
  <2> QED
    BY <1>1, <1>3, <1>c, <2>1, <2>3, <2>4, <2>5, BillsInOrder
<1>12. CASE EndHook(r)
  <2>1. /\ UNCHANGED <<status, usage>> /\ pc' = [pc EXCEPT ![r] = "done"]
        /\ pc[r] \notin RecordPCs
        /\ sent' = [sent EXCEPT ![target[r]] = @ \cup {"call.ended"}]
    BY <1>12 DEF EndHook, RecordPCs, UsagePCs
  <2>2. \A d \in Calls : Told(d)' = Told(d)
    BY <2>1 DEF Told, Outcomes
  <2>3. Remembers(r)'
    BY <1>0, <2>1 DEF Remembers, RecordPCs, UsagePCs
  <2> QED
    BY <1>0, <1>1, <1>3, <2>1, <2>2, <2>3, EndQuiet
<1> QED
  BY <1>4, <1>5, <1>6, <1>7, <1>8, <1>9, <1>10, <1>11, <1>12 DEF EndStep

---------------------------------------------------------------------------
LEMMA BeginBills ==
    ASSUME SerialInv, SerialInv', BillInv, NEW r \in Reqs, Begin(r),
           "adminEnd" \notin Ops
    PROVE  BillInv'
<1> USE DEF Goto, SerialInv, TypeInv, TypeOK
<1>0. /\ r \in Procs /\ {"dup", "read"} \subseteq PCs
      /\ "dup" \notin RestPCs /\ "read" \notin RestPCs
  BY DEF Procs, PCs, CreatePCs, DecidePCs, RestPCs, ClosedPCs
<1>1. \E l \in {"dup", "read"} :
         /\ pc[r] = "fresh"
         /\ pc' = [pc EXCEPT ![r] = l]
         /\ UNCHANGED <<status, started, sent, usage, faults, crashes>>
         /\ \A q \in Reqs : pc[q] \in RecordPCs => target'[q] = target[q]
  <2>1. ASSUME NEW pr \in Pairs, BeginCreate(r, pr)
        PROVE  <1>1!:
    BY <2>1 DEF BeginCreate
  <2>2. ASSUME NEW o \in AllOps, NEW c \in Calls, BeginOnCall(r, o, c)
        PROVE  <1>1!:
    BY <2>2 DEF BeginOnCall, RecordPCs, UsagePCs
  <2> QED
    BY <2>1, <2>2 DEF Begin, AdminEnd
<1>2. PICK l \in {"dup", "read"} : <1>1!(l)
  BY <1>1
<1>3. Remembers(r)' /\ l \in PCs /\ l \notin RestPCs /\ pc[r] \notin RecordPCs
  BY <1>0, <1>2 DEF Remembers, RecordPCs, UsagePCs
<1> QED
  BY <1>0, <1>2, <1>3, QuietStep, SameWords

LEMMA SweepBills ==
    ASSUME SerialInv, SerialInv', BillInv, NEW s \in Sweeps,
           SweepQuery(s) \/ SweepNext(s), LifecycleAssumption
    PROVE  BillInv'
<1> USE DEF Goto, SerialInv, TypeInv, TypeOK
<1>0. /\ s \in Procs /\ s \notin Reqs
      /\ {"idle", "next", "read"} \subseteq PCs
  BY DEF Procs, PCs, DecidePCs, RestPCs, ClosedPCs, LifecycleAssumption
<1>1. /\ pc[s] \in {"idle", "next"}
      /\ UNCHANGED <<status, started, sent, usage, faults, crashes>>
      /\ \A q \in Reqs : target'[q] = target[q]
  <2>1. CASE SweepQuery(s)
    BY <2>1 DEF SweepQuery
  <2>2. CASE SweepNext(s)
    <3>1. target' = target \/ \E c : target' = [target EXCEPT ![s] = c]
      BY <2>2 DEF SweepNext
    <3>2. \A q \in Reqs : target'[q] = target[q]
      BY <1>0, <3>1 DEF Procs
    <3>3. /\ pc[s] = "next"
          /\ UNCHANGED <<status, started, sent, usage, faults, crashes>>
      BY <2>2 DEF SweepNext
    <3> QED
      BY <3>2, <3>3
  <2> QED
    BY <2>1, <2>2
<1>2. PICK l \in {"idle", "next", "read"} : pc' = [pc EXCEPT ![s] = l]
  BY DEF SweepQuery, SweepNext
<1>3. Remembers(s)' /\ l \in PCs /\ pc[s] \notin RecordPCs
  BY <1>0, <1>1, <1>2 DEF Remembers, RecordPCs, UsagePCs
<1>4. CASE ~AtRestPC(s) \/ l \notin RestPCs
  BY <1>0, <1>1, <1>2, <1>3, <1>4, QuietStep, SameWords
(* A query that finds nothing changes nothing.                              *)
<1>5. CASE AtRestPC(s) /\ l \in RestPCs
  <2>1. SweepQuery(s) /\ l = "idle" /\ pc[s] = "idle"
    BY <1>1, <1>2, <1>5 DEF SweepQuery, SweepNext, AtRestPC, RestPCs, ClosedPCs
  <2>2. UNCHANGED <<status, started, sent, usage, faults, crashes, pc, target, op, snap,
                    want, timed, events, parties>>
    BY <1>0, <1>2, <2>1 DEF SweepQuery
  <2> QED
    BY <2>2, SameState
<1> QED
  BY <1>4, <1>5

LEMMA FaultBills ==
    ASSUME SerialInv, SerialInv', BillInv, Fault
    PROVE  BillInv'
<1> USE DEF Goto, SerialInv, TypeInv, TypeOK, HasTarget
<1>1. ASSUME NEW p \in Procs, StatementFails(p) PROVE BillInv'
  <2>1. PICK l : l = AfterFault(p)
    OBVIOUS
  <2>2. /\ pc' = [pc EXCEPT ![p] = l] /\ ~AtRestPC(p)
        /\ UNCHANGED <<status, started, sent, usage, target, snap, op>>
        /\ ~NothingFailed'
    BY <1>1, <2>1 DEF StatementFails, InFlight, AtRestPC, NothingFailed
  <2>3. /\ l \in {"fcheck", "hook", "next", "failed"} /\ l \in PCs
        /\ l = "fcheck" => pc[p] \in RecordPCs
    BY <2>1 DEF AfterFault, RecordPCs, UsagePCs, PCs, RestPCs, ClosedPCs, EndPCs
  <2>4. Remembers(p)'
    BY <2>2, <2>3 DEF BillInv, Remembers, RecordPCs, UsagePCs
  <2>5. ASSUME NEW c \in Calls PROVE CallInv(c)'
    BY <2>2, SameCall, SameWords DEF BillInv
  <2> QED
    BY <2>2, <2>3, <2>4, <2>5, Combine
<1>2. ASSUME NEW r \in Reqs, InsertReplyLost(r) PROVE BillInv'
  <2>1. /\ r \in Procs /\ pc[r] = "insert"
        /\ pc' = [pc EXCEPT ![r] = "fcheck"]
        /\ UNCHANGED <<status, started, sent, target, snap>>
        /\ ~NothingFailed'
    BY <1>2 DEF InsertReplyLost, Procs, NothingFailed
  <2>2. PICK c \in Calls : c = target[r]
    BY <2>1 DEF EndPCs, UsagePCs
  <2>3. /\ status[c] = "ENDED" /\ usage[c] = {}
        /\ started[c] => timed[r]
    BY <2>1, <2>2 DEF Knows, UsagePCs, BillInv, Remembers
  <2>4. PICK u : u = RowOf(r)
    OBVIOUS
  <2>5. usage' = [usage EXCEPT ![c] = {u}] /\ (started[c] => u.timed)
    BY <1>2, <2>1, <2>2, <2>3, <2>4 DEF InsertReplyLost, RowOf
  <2> QED
    BY <2>1, <2>2, <2>3, <2>5, BillsInOrder
<1>3. CASE CrashAndRestart
  <2>1. UNCHANGED <<status, started, sent, usage>> /\ ~NothingFailed'
    BY <1>3 DEF CrashAndRestart, NothingFailed
  <2>2. \A p \in Procs : AtRestPC(p)'
    BY <1>3 DEF CrashAndRestart, InFlight, AtRestPC, RestPCs, ClosedPCs
  <2>3. \A p \in Procs : Remembers(p)'
    BY <2>2 DEF AtRestPC, Remembers, RecordPCs, RestPCs, ClosedPCs, UsagePCs
  <2>4. ASSUME NEW c \in Calls PROVE CallInv(c)'
    BY <2>1, SameCall, SameWords DEF BillInv
  <2> QED
    BY <2>3, <2>4 DEF BillInv
<1> QED
  BY <1>1, <1>2, <1>3 DEF Fault

(* A participant's call.started adds an event, and time passes.             *)
LEMMA WorldBills ==
    ASSUME SerialInv, SerialInv', BillInv, NEW c \in Calls, Expire(c) \/ SignalingStarted(c)
    PROVE  BillInv'
<1>1. UNCHANGED <<status, started, sent, usage, faults, crashes, pc, target, op, snap,
                  want, timed, parties>>
  BY DEF Expire, SignalingStarted
<1>2. \A d \in Calls : events[d] \subseteq events'[d]
  BY DEF Expire, SignalingStarted, SerialInv, TypeInv, TypeOK
<1> QED
  BY <1>1, <1>2, SameState

LEMMA InitBillInv == ASSUME LifecycleAssumption, Init PROVE BillInv
<1>1. \A p \in Procs : AtRestPC(p)
  BY DEF Init, AtRestPC, RestPCs, Procs
<1>2. ASSUME NEW c \in Calls PROVE CallInv(c)
  <2>1. usage[c] = {} /\ status[c] # "ENDED" /\ sent[c] \subseteq {"call.created"}
    BY DEF Init
  <2>2. Told(c) = {}
    BY <2>1 DEF Told, Outcomes
  <2> QED
    BY <2>1, <2>2 DEF CallInv
<1> QED
  BY <1>1, <1>2, RestRemembers DEF BillInv

LEMMA NextBillInv ==
    ASSUME SerialInv, BillInv, [SerialNext]_vars, "adminEnd" \notin Ops,
           LifecycleAssumption
    PROVE  SerialInv' /\ BillInv'
<1>1. SerialInv'
  BY NextSerial
<1>2. CASE UNCHANGED vars
  <2>1. UNCHANGED <<status, started, sent, usage, faults, crashes, pc, target, op, snap,
                    want, timed, events, parties>>
    BY <1>2 DEF vars
  <2> QED
    BY <1>1, <2>1, SameState
<1>3. CASE SerialNext
  BY <1>1, <1>3, BeginBills, CreateBills, DecideBills, EndBills, SweepBills, FaultBills,
     WorldBills DEF SerialNext, RequestStep, Procs
<1> QED
  BY <1>1, <1>2, <1>3

(* Only the insertion of createCall makes a call ring.                      *)
LEMMA OnlyRowsRing ==
    ASSUME SerialInv, [SerialNext]_vars, NEW c \in Calls,
           status[c] = "NONE", status'[c] = "RINGING"
    PROVE  \E r \in Reqs : CreateRow(r)
<1> USE DEF SerialInv, TypeInv, TypeOK
<1>1. SerialNext
  BY DEF vars
<1>2. ASSUME NEW r \in Reqs, Begin(r) PROVE FALSE
  <2>1. UNCHANGED status \/ \E d : status' = [status EXCEPT ![d] = "ENDED"]
    BY <1>2 DEF Begin, BeginCreate, BeginOnCall, AdminEnd
  <2> QED
    BY <2>1
<1>3. ASSUME NEW s \in Sweeps, SweepQuery(s) \/ SweepNext(s) PROVE FALSE
  BY <1>3 DEF SweepQuery, SweepNext
<1>4. ASSUME NEW p \in Procs, DecideStep(p) PROVE FALSE
  <2>1. pc[p] = "write" => OpOf(p) \in Decisions
    BY DEF SweepsOnlyMiss, DecidePCs, Knows
  <2>2. CASE DecideRead(p) \/ DecideNotify(p)
    BY <2>2 DEF DecideRead, DecideNotify
  <2>3. CASE DecideWrite(p)
    <3>1. Written(OpOf(p)) # "RINGING"
      BY <2>1, <2>3, DecisionWords DEF DecideWrite
    <3> QED
      BY <2>3, <3>1 DEF DecideWrite
  <2> QED
    BY <1>4, <2>2, <2>3 DEF DecideStep
<1>5. ASSUME NEW r \in Reqs, EndStep(r) PROVE FALSE
  <2>1. UNCHANGED status \/ \E d : status' = [status EXCEPT ![d] = "ENDED"]
    <3>1. CASE EndRead(r) \/ EndClaim(r) \/ EndLog(r) \/ EndEnsureStart(r)
      BY <3>1 DEF EndRead, EndClaim, EndLog, EndEnsureStart
    <3>2. CASE EndRate(r) \/ RecordCheck(r) \/ RecordInsert(r) \/ EndHook(r)
      BY <3>2 DEF EndRate, RecordCheck, RecordInsert, EndHook
    <3> QED
      BY <1>5, <3>1, <3>2 DEF EndStep
  <2> QED
    BY <2>1
<1>6. ASSUME NEW d \in Calls, Expire(d) \/ SignalingStarted(d) PROVE FALSE
  BY <1>6 DEF Expire, SignalingStarted
<1>7. ASSUME Fault PROVE FALSE
  BY <1>7 DEF Fault, StatementFails, InsertReplyLost, CrashAndRestart
<1>8. PICK r \in Reqs : CreateStep(r)
  BY <1>1, <1>2, <1>3, <1>4, <1>5, <1>6, <1>7 DEF SerialNext, RequestStep, Procs
<1>9. ~(CreateCheckDuplicate(r) \/ CreateCheckBusy(r) \/ CreateLog(r) \/ CreateSession(r))
  BY DEF CreateCheckDuplicate, CreateCheckBusy, CreateLog, CreateSession
<1>10. ~CreateBusyRow(r)
  BY DEF CreateBusyRow
<1> QED
  BY <1>8, <1>9, <1>10 DEF CreateStep

LEMMA BillInvHolds ==
    ASSUME "adminEnd" \notin Ops
    PROVE  SerialSpec => [](SerialInv /\ BillInv)
<1>1. Init => SerialInv /\ BillInv
  BY InitSerialInv, InitBillInv, LifecycleAssumption
<1>2. SerialInv /\ BillInv /\ [SerialNext]_vars => (SerialInv /\ BillInv)'
  BY NextBillInv, LifecycleAssumption
<1> QED
  BY <1>1, <1>2, PTL DEF SerialSpec

---------------------------------------------------------------------------
(* The participants of a call are never told of two different outcomes,    *)
(* whatever statements fail and however often the server restarts between  *)
(* the write of a decision and its messages.                               *)
THEOREM SerialNoticesAgree ==
    ASSUME "adminEnd" \notin Ops
    PROVE  SerialSpec => []NoticesAgree
<1>1. BillInv => NoticesAgree
  BY DEF BillInv, CallInv, Told, Outcomes, NoticesAgree
<1> QED
  BY <1>1, BillInvHolds, PTL

(* A call that was answered is billed from its start, with the rated usage *)
(* and with the fallback alike: the start the ending request read or added *)
(* is the call's, because no decision comes between its statements.        *)
THEOREM SerialBilledFromStart ==
    ASSUME "adminEnd" \notin Ops
    PROVE  SerialSpec => []BilledFromStart
<1>1. BillInv => BilledFromStart
  BY DEF BillInv, CallInv, BilledFromStart
<1> QED
  BY <1>1, BillInvHolds, PTL

(* When everything is quiet and nothing has failed, a call that was        *)
(* answered and has ended has exactly one usage record (endCall's own      *)
(* comment), although the claim and the record are seven statements apart. *)
THEOREM SerialAnsweredIsBilled ==
    ASSUME "adminEnd" \notin Ops
    PROVE  SerialSpec => []AnsweredCallIsBilled
<1>1. ASSUME SerialInv, BillInv PROVE AnsweredCallIsBilled
  <2> SUFFICES ASSUME AtRest, NothingFailed, NEW c \in Calls, status[c] = "ENDED"
               PROVE  Cardinality(usage[c]) = 1
    BY DEF AnsweredCallIsBilled, NothingFailed
  <2>1. ~Recording(c)
    BY DEF AtRest, InFlight, Recording, RecordPCs, UsagePCs, RestPCs, ClosedPCs, Procs
  <2>2. PICK u : u \in usage[c]
    BY <1>1, <2>1 DEF BillInv, CallInv
  <2>3. usage[c] = {u}
    BY <1>1, <2>2 DEF BillInv, CallInv
  <2> QED
    BY <2>3, FS_Singleton
<1> QED
  BY <1>1, BillInvHolds, PTL

(* A call begins to ring only while its receiver is in no active call: the *)
(* busy check still holds when the row is inserted, two statements later.  *)
THEOREM SerialRingsOnlyFree ==
    ASSUME "adminEnd" \notin Ops
    PROVE  SerialSpec => RingsOnlyFreeReceiver
<1> DEFINE Free == \A c \in Calls : status[c] = "NONE" /\ status'[c] = "RINGING" =>
                     ~\E d \in Calls \ {c} :
                        /\ status[d] \in Active
                        /\ parties'[c][2] \in {parties[d][1], parties[d][2]}
<1>1. ASSUME SerialInv, BillInv, [SerialNext]_vars PROVE [Free]_vars
  <2> SUFFICES ASSUME NEW c \in Calls, status[c] = "NONE", status'[c] = "RINGING"
               PROVE  ~ReceiverBusy(parties'[c])
    BY DEF ReceiverBusy
  <2>1. PICK r \in Reqs : CreateRow(r)
    BY <1>1, OnlyRowsRing
  <2>2. parties'[c] = want[r]
    BY <1>1, <2>1 DEF CreateRow, Unused, SerialInv, TypeInv, TypeOK
  <2>3. ~ReceiverBusy(want[r])
    BY <1>1, <2>1 DEF CreateRow, BillInv, Remembers, Procs
  <2> QED
    BY <2>2, <2>3
<1> QED
  BY <1>1, BillInvHolds, PTL DEF SerialSpec, RingsOnlyFreeReceiver
=============================================================================
