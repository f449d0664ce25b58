--------------------------- MODULE CallLifecycle ---------------------------
(***************************************************************************)
(* The life of a call in the server: CallService (create, accept, reject,  *)
(* cancel, miss, end), the sweeper that misses unanswered calls, the       *)
(* administrator's end, and the billing of an ended call.                  *)
(*                                                                         *)
(* Every handler is asynchronous: between two of its database statements   *)
(* any other handler may run, the statement may fail, and the server may   *)
(* restart.  A request therefore has a program counter that names the      *)
(* statement it executes next, and each statement is one action.           *)
(***************************************************************************)
EXTENDS Naturals, FiniteSets

CONSTANTS
    Calls,       \* identifiers of call rows
    Users,       \* participant identifiers of one project
    Reqs,        \* HTTP requests; each is made at most once
    Sweeps,      \* runs of the 10 s timer that may overlap
    Ops,         \* the operations that the requests of an instance perform
    NoCall,      \* the target of a process that is at rest
    Preset,      \* calls that have already been created and are ringing
    MaxFaults,   \* how many database statements may fail
    MaxCrashes   \* how many times the server may restart

VARIABLES
    status,      \* Call.status; "NONE" for a row not created yet
    parties,     \* <<Call.callerId, Call.receiverId>>
    expired,     \* Call.createdAt is older than the ring timeout
    started,     \* Call.startedAt is set
    session,     \* calls that have a CallSession row
    events,      \* kinds of CallEvent rows of a call
    sent,        \* socket messages and webhooks emitted for a call
    usage,       \* CallUsage rows of a call
    claims,      \* requests whose conditional update ended the call
    reopens,     \* how often a write replaced the status ENDED
    pc,          \* next statement of a request or of a sweep
    op,          \* operation of a request
    target,      \* call of a request or of a sweep
    want,        \* parties a create request was made for
    snap,        \* startedAt # null in the row that endCall read
    timed,       \* the rated segments begin at a CALL_STARTED event
    todo,        \* expired calls that a sweep has still to miss
    faults,      \* failed statements so far
    crashes      \* restarts so far

rows == <<status, parties, expired, started, session>>
logs == <<events, sent, usage, claims, reopens>>
locals == <<pc, op, target, want, snap, timed, todo>>
vars == <<rows, logs, locals, faults, crashes>>

AllOps == {"create", "accept", "reject", "cancel", "end", "adminEnd"}
Decisions == {"accept", "reject", "cancel", "miss"}
Status == {"NONE", "RINGING", "ACCEPTED", "MISSED", "REJECTED", "CANCELLED",
           "BUSY", "ENDED"}
Active == {"RINGING", "ACCEPTED"}

Procs == Reqs \cup Sweeps
NoPair == <<>>
Pairs == {pr \in Users \X Users : pr[1] # pr[2]}

ASSUME LifecycleAssumption ==
    /\ Ops \subseteq AllOps
    /\ Reqs \cap Sweeps = {}
    /\ NoCall \notin Calls
    /\ Preset \subseteq Calls
    /\ \A c, d \in Preset : c = d
    /\ MaxFaults \in Nat
    /\ MaxCrashes \in Nat

(***************************************************************************)
(* What each decision tests and writes.  INITIATED, the column's default,  *)
(* is never stored: createCall writes RINGING.                             *)
(***************************************************************************)
GuardNotEnded(o) == Status \ {"NONE", "ENDED", "BUSY"}
Guard(o) == IF o = "accept" THEN {"RINGING", "ACCEPTED"} ELSE {"RINGING"}

WrittenUnknown(o) == IF o = "accept" THEN "ANSWERED" ELSE "MISSED"
Written(o) ==
    CASE o = "accept" -> "ACCEPTED"
      [] o = "reject" -> "REJECTED"
      [] o = "cancel" -> "CANCELLED"
      [] o = "miss"   -> "MISSED"

EventOf(o) ==
    CASE o = "accept" -> "CALL_ACCEPTED"
      [] o = "reject" -> "CALL_REJECTED"
      [] o = "cancel" -> "CALL_CANCELLED"
      [] o = "miss"   -> "CALL_MISSED"

(* The socket message and the webhook of a decision. *)
NoticesOf(o) ==
    CASE o = "accept" -> {"call-accepted", "call.accepted"}
      [] o = "reject" -> {"call-rejected", "call.rejected"}
      [] o = "cancel" -> {"call-cancelled", "call.cancelled"}
      [] o = "miss"   -> {"call-missed", "call.missed"}

EventKinds == {"CALL_CREATED", "CALL_STARTED", "CALL_ENDED"}
                  \cup {EventOf(o) : o \in Decisions}
Messages == {"call.created", "call.busy", "call.ended"}
                  \cup UNION {NoticesOf(o) : o \in Decisions}

UsageRow == [by : Reqs, kind : {"rated", "coarse"}, timed : BOOLEAN]

CreatePCs == {"dup", "busy", "busyRow", "row", "created", "session"}
DecidePCs == {"read", "write", "notify"}
UsagePCs == {"start", "rate", "check", "insert", "fcheck", "finsert"}
EndPCs == {"read", "claim", "log", "hook"} \cup UsagePCs
ClosedPCs == {"done", "failed", "lost"}
RestPCs == {"fresh", "idle"} \cup ClosedPCs
PCs == RestPCs \cup {"next"} \cup CreatePCs \cup DecidePCs \cup EndPCs

InFlight(p) == pc[p] \notin RestPCs

(* The operation a process executes; a sweep only ever misses calls. *)
OpOf(p) == IF p \in Sweeps THEN "miss" ELSE op[p]

(* Where a process continues after its last statement on a call. *)
After(p) == IF p \in Sweeps THEN "next" ELSE "done"

Init ==
    /\ status = [c \in Calls |-> IF c \in Preset THEN "RINGING" ELSE "NONE"]
    /\ \E pr \in Pairs :
          parties = [c \in Calls |-> IF c \in Preset THEN pr ELSE NoPair]
    /\ expired = [c \in Calls |-> FALSE]
    /\ started = [c \in Calls |-> FALSE]
    /\ session = Preset
    /\ events = [c \in Calls |-> IF c \in Preset THEN {"CALL_CREATED"} ELSE {}]
    /\ sent = [c \in Calls |-> IF c \in Preset THEN {"call.created"} ELSE {}]
    /\ usage = [c \in Calls |-> {}]
    /\ claims = [c \in Calls |-> {}]
    /\ reopens = [c \in Calls |-> 0]
    /\ pc = [p \in Procs |-> IF p \in Reqs THEN "fresh" ELSE "idle"]
    /\ op = [r \in Reqs |-> "none"]
    /\ target = [p \in Procs |-> NoCall]
    /\ want = [r \in Reqs |-> NoPair]
    /\ snap = [r \in Reqs |-> FALSE]
    /\ timed = [r \in Reqs |-> FALSE]
    /\ todo = [s \in Sweeps |-> {}]
    /\ faults = 0
    /\ crashes = 0

Goto(p, l) == pc' = [pc EXCEPT ![p] = l]

(***************************************************************************)
(* createCall                                                              *)
(***************************************************************************)
Pending == {r \in Reqs : pc[r] \in {"dup", "busy", "busyRow", "row"}}
Unused == {c \in Calls : status[c] = "NONE"}

(* Bound: a create only starts while a row is left for it. *)
BeginCreate(r, pr) ==
    /\ "create" \in Ops
    /\ pc[r] = "fresh"
    /\ Cardinality(Unused) > Cardinality(Pending)
    /\ Goto(r, "dup")
    /\ op' = [op EXCEPT ![r] = "create"]
    /\ want' = [want EXCEPT ![r] = pr]
    /\ UNCHANGED <<rows, logs, target, snap, timed, todo, faults, crashes>>

IsDuplicate(pr) == \E c \in Calls : parties[c] = pr /\ status[c] \in Active

ReceiverBusyAsCalleeOnly(pr) ==
    \E c \in Calls : /\ status[c] \in Active
                     /\ parties[c][2] = pr[2]

ReceiverBusy(pr) ==
    \E c \in Calls : /\ status[c] \in Active
                     /\ pr[2] \in {parties[c][1], parties[c][2]}

CreateCheckDuplicate(r) ==
    /\ pc[r] = "dup"
    /\ Goto(r, IF IsDuplicate(want[r]) THEN "done" ELSE "busy")
    /\ UNCHANGED <<rows, logs, op, target, want, snap, timed, todo,
                   faults, crashes>>

(* A free receiver leads on to the usage check, whose outcome is left open: *)
(* the request goes on to the insertion or is refused.                      *)
CreateCheckBusy(r) ==
    /\ pc[r] = "busy"
    /\ IF ReceiverBusy(want[r])
          THEN Goto(r, "busyRow")
          ELSE Goto(r, "row") \/ Goto(r, "done")
    /\ UNCHANGED <<rows, logs, op, target, want, snap, timed, todo,
                   faults, crashes>>

CreateBusyRow(r) ==
    /\ pc[r] = "busyRow"
    /\ \E c \in Unused :
          /\ status' = [status EXCEPT ![c] = "BUSY"]
          /\ parties' = [parties EXCEPT ![c] = want[r]]
          /\ sent' = [sent EXCEPT ![c] = @ \cup {"call.busy"}]
    /\ Goto(r, "done")
    /\ UNCHANGED <<expired, started, session, events, usage, claims, reopens,
                   op, target, want, snap, timed, todo, faults, crashes>>

CreateRow(r) ==
    /\ pc[r] = "row"
    /\ \E c \in Unused :
          /\ status' = [status EXCEPT ![c] = "RINGING"]
          /\ parties' = [parties EXCEPT ![c] = want[r]]
          /\ target' = [target EXCEPT ![r] = c]
    /\ Goto(r, "created")
    /\ UNCHANGED <<expired, started, session, logs, op, want, snap, timed,
                   todo, faults, crashes>>

CreateLog(r) ==
    /\ pc[r] = "created"
    /\ events' = [events EXCEPT ![target[r]] = @ \cup {"CALL_CREATED"}]
    /\ Goto(r, "session")
    /\ UNCHANGED <<rows, sent, usage, claims, reopens, op, target, want, snap,
                   timed, todo, faults, crashes>>

CreateSession(r) ==
    /\ pc[r] = "session"
    /\ session' = session \cup {target[r]}
    /\ sent' = [sent EXCEPT ![target[r]] = @ \cup {"call.created"}]
    /\ Goto(r, "done")
    /\ UNCHANGED <<status, parties, expired, started, events, usage, claims,
                   reopens, op, target, want, snap, timed, todo, faults,
                   crashes>>

(***************************************************************************)
(* acceptCall, rejectCall, cancelCall, and missCall on behalf of a sweep:  *)
(* read the row and test its status, write it unconditionally, record the  *)
(* event and notify.  CallSessionGuard admits only a call with a session.  *)
(***************************************************************************)
BeginOnCall(r, o, c) ==
    /\ o \in Ops \ {"create", "adminEnd"}
    /\ pc[r] = "fresh"
    /\ c \in session
    /\ Goto(r, "read")
    /\ op' = [op EXCEPT ![r] = o]
    /\ target' = [target EXCEPT ![r] = c]
    /\ UNCHANGED <<rows, logs, want, snap, timed, todo, faults, crashes>>

DecideRead(p) ==
    /\ pc[p] = "read"
    /\ OpOf(p) \in Decisions
    /\ Goto(p, IF status[target[p]] \in Guard(OpOf(p)) THEN "write" ELSE After(p))
    /\ UNCHANGED <<rows, logs, op, target, want, snap, timed, todo,
                   faults, crashes>>

DecideWrite(p) ==
    LET c == target[p] IN
    /\ pc[p] = "write"
    /\ status' = [status EXCEPT ![c] = Written(OpOf(p))]
    /\ started' = [started EXCEPT ![c] = @ \/ OpOf(p) = "accept"]
    /\ reopens' = [reopens EXCEPT ![c] = IF status[c] = "ENDED" THEN @ + 1 ELSE @]
    /\ Goto(p, "notify")
    /\ UNCHANGED <<parties, expired, session, events, sent, usage, claims, op,
                   target, want, snap, timed, todo, faults, crashes>>

DecideNotify(p) ==
    LET c == target[p] IN
    /\ pc[p] = "notify"
    /\ events' = [events EXCEPT ![c] = @ \cup {EventOf(OpOf(p))}]
    /\ sent' = [sent EXCEPT ![c] = @ \cup NoticesOf(OpOf(p))]
    /\ Goto(p, After(p))
    /\ UNCHANGED <<rows, usage, claims, reopens, op, target, want, snap, timed,
                   todo, faults, crashes>>

(***************************************************************************)
(* endCall: claim the transition to ENDED, record the event, rebuild and   *)
(* rate the media segments, record the usage, fire the webhook.            *)
(***************************************************************************)
EndRead(r) ==
    /\ pc[r] = "read"
    /\ op[r] = "end"
    /\ snap' = [snap EXCEPT ![r] = started[target[r]]]
    /\ Goto(r, "claim")
    /\ UNCHANGED <<rows, logs, op, target, want, timed, todo, faults, crashes>>

ClaimableAlways(c) == TRUE
Claimable(c) == status[c] # "ENDED"

EndClaim(r) ==
    LET c == target[r] IN
    /\ pc[r] = "claim"
    /\ IF Claimable(c)
          THEN /\ status' = [status EXCEPT ![c] = "ENDED"]
               /\ claims' = [claims EXCEPT ![c] = @ \cup {r}]
               /\ Goto(r, "log")
          ELSE Goto(r, "done") /\ UNCHANGED <<status, claims>>
    /\ UNCHANGED <<parties, expired, started, session, events, sent, usage,
                   reopens, op, target, want, snap, timed, todo, faults, crashes>>

EndLog(r) ==
    /\ pc[r] = "log"
    /\ events' = [events EXCEPT ![target[r]] = @ \cup {"CALL_ENDED"}]
    /\ Goto(r, "start")
    /\ UNCHANGED <<rows, sent, usage, claims, reopens, op, target, want, snap,
                   timed, todo, faults, crashes>>

NoStartEvent(r) == {}
StartEvent(r) == IF snap[r] THEN {"CALL_STARTED"} ELSE {}

EndEnsureStart(r) ==
    /\ pc[r] = "start"
    /\ events' = [events EXCEPT ![target[r]] = @ \cup StartEvent(r)]
    /\ Goto(r, "rate")
    /\ UNCHANGED <<rows, sent, usage, claims, reopens, op, target, want, snap,
                   timed, todo, faults, crashes>>

EndRate(r) ==
    /\ pc[r] = "rate"
    /\ timed' = [timed EXCEPT ![r] = "CALL_STARTED" \in events[target[r]]]
    /\ Goto(r, "check")
    /\ UNCHANGED <<rows, logs, op, target, want, snap, todo, faults, crashes>>

(* recordCallUsage: the existence check, then the insertion.  The fallback *)
(* after a failure repeats both with the coarse aggregate.                 *)
AlreadyRecordedIfEnded(c) == status[c] = "ENDED"
AlreadyRecorded(c) == usage[c] # {}

RecordCheck(r) ==
    /\ pc[r] \in {"check", "fcheck"}
    /\ Goto(r, IF AlreadyRecorded(target[r]) THEN "hook"
               ELSE IF pc[r] = "check" THEN "insert" ELSE "finsert")
    /\ UNCHANGED <<rows, logs, op, target, want, snap, timed, todo,
                   faults, crashes>>

RowOf(r) ==
    IF pc[r] = "insert"
       THEN [by |-> r, kind |-> "rated", timed |-> timed[r]]
       ELSE [by |-> r, kind |-> "coarse", timed |-> snap[r]]

RecordInsert(r) ==
    /\ pc[r] \in {"insert", "finsert"}
    /\ usage' = [usage EXCEPT ![target[r]] = @ \cup {RowOf(r)}]
    /\ Goto(r, "hook")
    /\ UNCHANGED <<rows, events, sent, claims, reopens, op, target, want, snap,
                   timed, todo, faults, crashes>>

EndHook(r) ==
    /\ pc[r] = "hook"
    /\ sent' = [sent EXCEPT ![target[r]] = @ \cup {"call.ended"}]
    /\ Goto(r, "done")
    /\ UNCHANGED <<rows, events, usage, claims, reopens, op, target, want, snap,
                   timed, todo, faults, crashes>>

(***************************************************************************)
(* AdminService.endCall: one unconditional update, nothing else.           *)
(***************************************************************************)
AdminEnd(r, c) ==
    /\ "adminEnd" \in Ops
    /\ pc[r] = "fresh"
    /\ status[c] # "NONE"
    /\ status' = [status EXCEPT ![c] = "ENDED"]
    /\ op' = [op EXCEPT ![r] = "adminEnd"]
    /\ Goto(r, "done")
    /\ UNCHANGED <<parties, expired, started, session, logs, target, want, snap,
                   timed, todo, faults, crashes>>

(***************************************************************************)
(* missExpiredCalls: query the expired calls, then miss them one by one.   *)
(***************************************************************************)
Expire(c) ==
    /\ status[c] = "RINGING"
    /\ ~expired[c]
    /\ expired' = [expired EXCEPT ![c] = TRUE]
    /\ UNCHANGED <<status, parties, started, session, logs, locals, faults,
                   crashes>>

ExpiredWithSession == {c \in session : status[c] = "RINGING" /\ expired[c]}
ExpiredCalls == {c \in Calls : status[c] = "RINGING" /\ expired[c]}

SweepQuery(s) ==
    /\ pc[s] = "idle"
    /\ todo' = [todo EXCEPT ![s] = ExpiredCalls]
    /\ Goto(s, IF ExpiredCalls = {} THEN "idle" ELSE "next")
    /\ UNCHANGED <<rows, logs, op, target, want, snap, timed, faults, crashes>>

SweepNext(s) ==
    /\ pc[s] = "next"
    /\ \/ /\ todo[s] = {}
          /\ Goto(s, "idle")
          /\ target' = [target EXCEPT ![s] = NoCall]
          /\ UNCHANGED todo
       \/ \E c \in todo[s] :
             /\ todo' = [todo EXCEPT ![s] = @ \ {c}]
             /\ target' = [target EXCEPT ![s] = c]
             /\ Goto(s, "read")
    /\ UNCHANGED <<rows, logs, op, want, snap, timed, faults, crashes>>

(***************************************************************************)
(* The gateway's call.started handler, driven by a participant's client.   *)
(***************************************************************************)
SignalingStarted(c) ==
    /\ c \in session
    /\ "CALL_STARTED" \notin events[c]
    /\ events' = [events EXCEPT ![c] = @ \cup {"CALL_STARTED"}]
    /\ UNCHANGED <<rows, sent, usage, claims, reopens, locals, faults, crashes>>

(***************************************************************************)
(* Failures.  A failed statement ends the request, or the miss of a sweep, *)
(* except inside endCall's recording of usage, which falls back to the     *)
(* coarse aggregate and then gives up on it.                               *)
(***************************************************************************)
AfterFault(p) ==
    CASE pc[p] \in {"start", "rate", "check", "insert"} -> "fcheck"
      [] pc[p] \in {"fcheck", "finsert"}                -> "hook"
      [] p \in Sweeps                                   -> "next"
      [] OTHER                                          -> "failed"

StatementFails(p) ==
    /\ faults < MaxFaults
    /\ InFlight(p)
    /\ pc[p] \notin {"next", "hook"}
    /\ Goto(p, AfterFault(p))
    /\ faults' = faults + 1
    /\ UNCHANGED <<rows, logs, op, target, want, snap, timed, todo, crashes>>

(* The usage row is committed but the request sees an error. *)
InsertReplyLost(r) ==
    /\ faults < MaxFaults
    /\ pc[r] = "insert"
    /\ usage' = [usage EXCEPT ![target[r]] = @ \cup {RowOf(r)}]
    /\ Goto(r, "fcheck")
    /\ faults' = faults + 1
    /\ UNCHANGED <<rows, events, sent, claims, reopens, op, target, want, snap,
                   timed, todo, crashes>>

(* Requests in flight are gone; the sweeper starts again on boot. *)
CrashAndRestart ==
    /\ crashes < MaxCrashes
    /\ \E p \in Procs : InFlight(p)
    /\ pc' = [p \in Procs |-> IF p \in Sweeps THEN "idle"
                              ELSE IF InFlight(p) THEN "lost" ELSE pc[p]]
    /\ todo' = [s \in Sweeps |-> {}]
    /\ crashes' = crashes + 1
    /\ UNCHANGED <<rows, logs, op, target, want, snap, timed, faults>>

---------------------------------------------------------------------------
CreateStep(r) ==
    \/ CreateCheckDuplicate(r)
    \/ CreateCheckBusy(r)
    \/ CreateBusyRow(r)
    \/ CreateRow(r)
    \/ CreateLog(r)
    \/ CreateSession(r)

DecideStep(p) == DecideRead(p) \/ DecideWrite(p) \/ DecideNotify(p)

EndStep(r) ==
    \/ EndRead(r)
    \/ EndClaim(r)
    \/ EndLog(r)
    \/ EndEnsureStart(r)
    \/ EndRate(r)
    \/ RecordCheck(r)
    \/ RecordInsert(r)
    \/ EndHook(r)

RequestStep(r) == CreateStep(r) \/ DecideStep(r) \/ EndStep(r)
SweepStep(s) == SweepQuery(s) \/ SweepNext(s) \/ DecideStep(s)

Begin(r) ==
    \/ \E pr \in Pairs : BeginCreate(r, pr)
    \/ \E o \in AllOps, c \in Calls : BeginOnCall(r, o, c)
    \/ \E c \in Calls : AdminEnd(r, c)

Fault ==
    \/ \E p \in Procs : StatementFails(p)
    \/ \E r \in Reqs : InsertReplyLost(r)
    \/ CrashAndRestart

Next ==
    \/ \E r \in Reqs : Begin(r) \/ RequestStep(r)
    \/ \E s \in Sweeps : SweepStep(s)
    \/ \E c \in Calls : Expire(c) \/ SignalingStarted(c)
    \/ Fault

Spec == Init /\ [][Next]_vars

(* The event loop continues every handler it has started, the timer fires  *)
(* and time passes.  Nothing obliges a client to make a request.           *)
Fairness ==
    /\ \A r \in Reqs : WF_vars(RequestStep(r))
    /\ \A s \in Sweeps : WF_vars(SweepStep(s))
    /\ \A c \in Calls : WF_vars(Expire(c))

FairSpec == Spec /\ Fairness

(* Requests and sweeps one at a time: a process leaves rest only while all *)
(* the others are at rest.                                                 *)
AtRest == \A p \in Procs : ~InFlight(p)
SerialNext ==
    \/ AtRest /\ \E r \in Reqs : Begin(r)
    \/ AtRest /\ \E s \in Sweeps : SweepQuery(s)
    \/ \E r \in Reqs : RequestStep(r)
    \/ \E s \in Sweeps : SweepNext(s) \/ DecideStep(s)
    \/ \E c \in Calls : Expire(c) \/ SignalingStarted(c)
    \/ Fault
SerialSpec == Init /\ [][SerialNext]_vars

---------------------------------------------------------------------------
TypeOK ==
    /\ status \in [Calls -> Status]
    /\ parties \in [Calls -> Pairs \cup {NoPair}]
    /\ expired \in [Calls -> BOOLEAN]
    /\ started \in [Calls -> BOOLEAN]
    /\ session \in SUBSET Calls
    /\ events \in [Calls -> SUBSET EventKinds]
    /\ sent \in [Calls -> SUBSET Messages]
    /\ usage \in [Calls -> SUBSET UsageRow]
    /\ claims \in [Calls -> SUBSET Reqs]
    /\ reopens \in [Calls -> Nat]
    /\ pc \in [Procs -> PCs]
    /\ op \in [Reqs -> AllOps \cup {"none"}]
    /\ target \in [Procs -> Calls \cup {NoCall}]
    /\ want \in [Reqs -> Pairs \cup {NoPair}]
    /\ snap \in [Reqs -> BOOLEAN]
    /\ timed \in [Reqs -> BOOLEAN]
    /\ todo \in [Sweeps -> SUBSET Calls]
    /\ faults \in Nat
    /\ crashes \in Nat

(* Every claim of ENDED but the first needs a write that took ENDED away.  *)
(* The conditional update in endCall is what makes it so.                  *)
ClaimsAreBalanced ==
    \A c \in Calls :
        Cardinality(claims[c]) <= reopens[c] + (IF status[c] = "ENDED" THEN 1 ELSE 0)

(* Usage is only recorded by a request that won the claim, and by each of  *)
(* them once, even when an insertion it saw fail had been committed.       *)
UsageFromClaims ==
    \A c \in Calls : \A u, v \in usage[c] :
        u.by \in claims[c] /\ (u.by = v.by => u = v)

(* At most one usage row more than there were overwrites of ENDED.         *)
UsageIsBounded ==
    \A c \in Calls : Cardinality(usage[c]) <= reopens[c] + 1

(* A call that was answered and has ended has been billed once everything  *)
(* is quiet and unless something failed (endCall's comment: "exactly one   *)
(* billable usage record").                                                *)
AnsweredCallIsBilled ==
    AtRest /\ faults = 0 /\ crashes = 0 => \A c \in Calls :
        started[c] /\ status[c] = "ENDED" => Cardinality(usage[c]) = 1

(* An answered call is billed from its start, not for zero minutes.        *)
BilledFromStart ==
    \A c \in Calls : \A u \in usage[c] : started[c] => u.timed

(* What the participants were told last agrees with the row: the messages  *)
(* of two different outcomes of the ringing phase are never both sent.     *)
NoticesAgree ==
    \A c \in Calls : \A m, n \in
        sent[c] \cap {"call-accepted", "call-rejected", "call-cancelled", "call-missed"} :
            m = n

(* Duplicate protection and busy detection of createCall: a call starts to *)
(* ring only if no active call has the same parties or its receiver.       *)
RingsOnlyFreeReceiver ==
    [][\A c \in Calls : status[c] = "NONE" /\ status'[c] = "RINGING" =>
          ~\E d \in Calls \ {c} :
              /\ status[d] \in Active
              /\ parties'[c][2] \in {parties[d][1], parties[d][2]}]_vars

(* An unanswered call stops ringing: the sweep misses it, even after a     *)
(* restart or a failed statement, and even without a session row.          *)
RingingEnds == \A c \in Calls : (status[c] = "RINGING") ~> (status[c] # "RINGING")

(* An end that won its claim is billed in the end unless something failed. *)
ClaimLeadsToUsage ==
    \A c \in Calls :
        (claims[c] # {}) ~> (usage[c] # {} \/ faults > 0 \/ crashes > 0)

(* With operations that do not overlap, the service keeps the protocol: a  *)
(* call has one outcome, outcomes are final, an ended call is billed once. *)
Protocol == INSTANCE CallProtocol WITH
    phase <- status, bills <- [c \in Calls |-> Cardinality(usage[c])]
KeepsProtocol == Protocol!Spec
=============================================================================
