-------------------------- MODULE HostedCallPage --------------------------
(***************************************************************************)
(* The hosted call page (apps/web/app/call/page.tsx) as the two parties    *)
(* run it: screens, the RTCPeerConnection of each, the negotiation over    *)
(* the gateway's relay, ICE recovery, devices and hanging up.              *)
(*                                                                         *)
(* A handler runs without interruption up to an await; `op' says which     *)
(* await each asynchronous function of a page is in.  The server's part is *)
(* the status of the call, decided by the first request (CallLifecycle has *)
(* the requests that overlap), and the relay: whatever it sends to a page  *)
(* whose socket is not authenticated is lost.                              *)
(*                                                                         *)
(* A description or candidate is the number of the negotiation it belongs  *)
(* to, 0 for none; the number grows with every ICE restart.                *)
(***************************************************************************)
EXTENDS Integers, Sequences, Functions

CONSTANTS
    Disturbances,   \* the kinds of fault that an instance considers
    MaxFaults       \* how many of them it has

\* A connection between open pages drops, a socket is lost, a request gets no
\* good reply, a page is closed, a prompt is refused.
Kinds == {"drop", "blip", "loss", "exit", "denied"}

ASSUME PageAssumption == Disturbances \subseteq Kinds /\ MaxFaults \in Nat

Pages == {"CALLER", "RECEIVER"}
Other(p) == IF p = "CALLER" THEN "RECEIVER" ELSE "CALLER"

\* The asynchronous functions; each has its own place in op[p].
Functions == {"answered", "accept", "reject", "cancel", "end", "offer", "answer",
              "restart"}

VARIABLES
    status,     \* Call.status
    online,     \* the page's socket is authenticated
    inbox,      \* what the gateway has sent to the page, in order
    screen,     \* state
    pc,         \* the peer connection, see NoPeer
    pending,    \* pendingCandidatesRef
    stream,     \* localStreamRef holds a live stream
    late,       \* history: a prompt was open when the page cleaned up
    issue,      \* connectionIssue is "reconnecting"
    watch,      \* reconnectFailTimerRef is set
    due,        \* the timer of an ICE restart is running
    told,       \* the negotiation whose description the page is applying
    asked,      \* lifecycleEndedRef: the page asked for the end of the call
    op,         \* the await that each function is in, "" when it does not run
    faults      \* how many of each kind there were

media == <<stream, late>>
trouble == <<issue, watch, due>>
rtc == <<pc, pending, media, trouble, told>>
vars == <<status, online, inbox, screen, rtc, asked, op, faults>>

Terminal == {"rejected", "cancelled", "missed", "ended", "connection-failed", "error"}
Screens == Terminal \cup {"connecting", "lobby", "waiting", "incoming", "in-call", "closed"}

(***************************************************************************)
(* A peer connection: whether pcRef holds it, its signalling state, the    *)
(* negotiations of its descriptions and candidates, its senders and the    *)
(* state of ICE ("new" stands for new and checking).                       *)
(***************************************************************************)
NoPeer ==
    [open |-> FALSE, offered |-> FALSE, loc |-> 0, rem |-> 0, cands |-> {},
     sends |-> FALSE, ice |-> "new"]
FreshPeer == [NoPeer EXCEPT !.open = TRUE]

Init ==
    /\ status = "RINGING"
    /\ online = [p \in Pages |-> FALSE]
    /\ inbox = [p \in Pages |-> <<>>]
    /\ screen = [p \in Pages |-> "connecting"]
    /\ pc = [p \in Pages |-> NoPeer]
    /\ pending = [p \in Pages |-> {}]
    /\ stream = [p \in Pages |-> FALSE]
    /\ late = [p \in Pages |-> FALSE]
    /\ issue = [p \in Pages |-> FALSE] /\ watch = [p \in Pages |-> FALSE]
    /\ due = [p \in Pages |-> FALSE] /\ told = [p \in Pages |-> 0]
    /\ asked = [p \in Pages |-> FALSE]
    /\ op = [p \in Pages |-> [f \in Functions |-> ""]]
    /\ faults = [k \in Kinds |-> 0]

-----------------------------------------------------------------------------
(***************************************************************************)
(* Shared pieces of the actions.                                           *)
(***************************************************************************)
\* One more fault of a kind, within the bound.
Fault(kind) ==
    /\ kind \in Disturbances /\ FoldFunction(+, 0, faults) < MaxFaults
    /\ faults' = [faults EXCEPT ![kind] = @ + 1]

Msg(kind, n) == [kind |-> kind, n |-> n]

\* The inboxes after the gateway sent msgs to p.
Sent(box, p, msgs) ==
    [box EXCEPT ![p] = IF online[p] THEN @ \o msgs ELSE @]

\* The inboxes after page p emitted msgs to the other party.
Relayed(box, p, msgs) == IF online[p] THEN Sent(box, Other(p), msgs) ELSE box

Took(p) == [inbox EXCEPT ![p] = Tail(@)]
Next1(p) == inbox[p] # <<>> /\ screen[p] # "closed"
Gets(p, kind) == Next1(p) /\ Head(inbox[p]).kind = kind

At(p, f, step) == op[p][f] = step
Goes(p, f, step) == op' = [op EXCEPT ![p][f] = step]
Shows(p, s) == screen' = [screen EXCEPT ![p] = s]

\* createPeer, unless pcRef holds one already.
WithPeer(p) == IF pc[p].open THEN pc[p] ELSE FreshPeer

Prompting(p) == \E f \in Functions : op[p][f] = "media"

CleanupButDevices(p) ==
    /\ pc' = [pc EXCEPT ![p] = NoPeer]
    /\ pending' = [pending EXCEPT ![p] = {}]
    /\ issue' = [issue EXCEPT ![p] = FALSE] /\ watch' = [watch EXCEPT ![p] = FALSE]
    /\ late' = [late EXCEPT ![p] = @ \/ Prompting(p)]
    /\ UNCHANGED <<stream, due, told>>

\* cleanup(): the streams are stopped, the connection closed, the watchdog
\* cleared; the timer of a restart is left running.
Cleanup(p) ==
    /\ pc' = [pc EXCEPT ![p] = NoPeer]
    /\ pending' = [pending EXCEPT ![p] = {}]
    /\ stream' = [stream EXCEPT ![p] = FALSE]
    /\ issue' = [issue EXCEPT ![p] = FALSE]
    /\ watch' = [watch EXCEPT ![p] = FALSE]
    /\ late' = [late EXCEPT ![p] = @ \/ Prompting(p)]
    /\ UNCHANGED <<due, told>>

\* attachMedia with its fallback to audio: a stream, kept in localStreamRef and
\* sent unless the connection was closed meanwhile, or none.
Attached(p) ==
    /\ \/ /\ stream' = [stream EXCEPT ![p] = TRUE]
          /\ pc' = [pc EXCEPT ![p].sends = pc[p].open]
          /\ UNCHANGED faults
       \/ Fault("denied") /\ UNCHANGED <<stream, pc>>
    /\ UNCHANGED late

\* An offer becomes the local description and is sent, and candidates follow it.
Offers(p) ==
    LET n == pc[p].loc + 1 IN
    /\ pc' = [pc EXCEPT ![p] = [@ EXCEPT !.loc = n, !.offered = TRUE]]
    /\ inbox' = Relayed(inbox, p, <<Msg("offer", n), Msg("ice-candidate", n)>>)

\* The server decides the call as the first request asks.
Decide(s) == status = "RINGING" /\ status' = s

-----------------------------------------------------------------------------
(***************************************************************************)
(* The socket.                                                             *)
(***************************************************************************)
OnStatus ==
    CASE status \in {"RINGING", "ACCEPTED"} -> "incoming-call"
      [] status = "MISSED"    -> "call-missed"
      [] status = "REJECTED"  -> "call-rejected"
      [] status = "CANCELLED" -> "call-cancelled"
      [] status = "ENDED"     -> "call-ended"

\* "connect": authenticate; the gateway tells the receiver how the call stands
\* and acknowledges.
Authenticate(p) ==
    /\ ~online[p] /\ screen[p] # "closed"
    /\ online' = [online EXCEPT ![p] = TRUE]
    /\ inbox' = [inbox EXCEPT ![p] =
                   Append(@, Msg(IF p = "CALLER" THEN "acknowledged" ELSE OnStatus, 0))]
    /\ UNCHANGED <<asked, status, screen, rtc, op, faults>>

\* The socket is lost, with what was under way to the page.
Blip(p) ==
    /\ online[p] /\ Fault("blip")
    /\ online' = [online EXCEPT ![p] = FALSE]
    /\ inbox' = [inbox EXCEPT ![p] = <<>>]
    /\ UNCHANGED <<asked, status, screen, rtc, op>>

\* The acknowledgement shows the caller the lobby, incoming-call the ring
\* screen: whatever the page showed before.
OnAcknowledged(p) ==
    /\ Gets(p, "acknowledged")
    /\ inbox' = Took(p) /\ Shows(p, "lobby")
    /\ UNCHANGED <<asked, status, online, rtc, op, faults>>

OnIncoming(p) ==
    /\ Gets(p, "incoming-call")
    /\ inbox' = Took(p) /\ Shows(p, "incoming")
    /\ UNCHANGED <<asked, status, online, rtc, op, faults>>

OnRejected(p) ==
    /\ Gets(p, "call-rejected")
    /\ inbox' = Took(p) /\ Shows(p, "rejected")
    /\ UNCHANGED <<asked, status, online, rtc, op, faults>>

\* The screens that call-cancelled, call-missed and call-ended do not touch.
Ignores ==
    [e \in {"call-cancelled", "call-missed", "call-ended"} |->
        CASE e = "call-cancelled" -> {"ended", "cancelled"}
          [] e = "call-missed"    -> {"ended", "missed"}
          [] e = "call-ended"     -> {"ended"}]
ShownFor ==
    [e \in DOMAIN Ignores |->
        CASE e = "call-cancelled" -> "cancelled"
          [] e = "call-missed"    -> "missed"
          [] e = "call-ended"     -> "ended"]

OnOver(p, e) ==
    /\ Gets(p, e)
    /\ inbox' = Took(p)
    /\ IF screen[p] \in Ignores[e]
       THEN UNCHANGED <<screen, rtc>>
       ELSE Cleanup(p) /\ Shows(p, ShownFor[e])
    /\ UNCHANGED <<asked, status, online, op, faults>>

(***************************************************************************)
(* The caller: lobby, waiting, and call-accepted.                          *)
(***************************************************************************)
StartCallFlow ==
    /\ screen["CALLER"] = "lobby"
    /\ Shows("CALLER", "waiting")
    /\ UNCHANGED <<asked, status, online, inbox, rtc, op, faults>>

OnAccepted(p) ==
    /\ Gets(p, "call-accepted") /\ At(p, "answered", "")
    /\ inbox' = Took(p)
    /\ pc' = [pc EXCEPT ![p] = WithPeer(p)]
    /\ Goes(p, "answered", "media")
    /\ UNCHANGED <<asked, status, online, screen, pending, media, trouble, told, faults>>

\* With or without media the call screen is shown; createOffer does nothing
\* when pcRef is null.
AnsweredMedia(p) ==
    /\ At(p, "answered", "media")
    /\ Attached(p)
    /\ Shows(p, "in-call")
    /\ Goes(p, "answered", IF pc[p].open THEN "offer" ELSE "")
    /\ UNCHANGED <<asked, status, online, inbox, pending, trouble, told>>

\* createOffer, then setLocalDescription, which fails on a closed connection.
AnsweredOffer(p) ==
    /\ At(p, "answered", "offer")
    /\ Goes(p, "answered", "")
    /\ IF pc[p].open
       THEN Offers(p) /\ UNCHANGED screen
       ELSE Shows(p, "error") /\ UNCHANGED <<pc, inbox>>
    /\ UNCHANGED <<asked, status, online, pending, media, trouble, told, faults>>

Cancel ==
    /\ screen["CALLER"] = "waiting" /\ At("CALLER", "cancel", "")
    /\ Goes("CALLER", "cancel", "post")
    /\ asked' = [asked EXCEPT !["CALLER"] = TRUE]
    /\ UNCHANGED <<status, online, inbox, screen, rtc, faults>>

CancelPosted ==
    /\ At("CALLER", "cancel", "post")
    /\ Goes("CALLER", "cancel", "reply")
    /\ \/ /\ Decide("CANCELLED")
          /\ inbox' = Sent(inbox, "RECEIVER", <<Msg("call-cancelled", 0)>>)
       \/ status # "RINGING" /\ UNCHANGED <<status, inbox>>
    /\ UNCHANGED <<asked, online, screen, rtc, faults>>

\* A refused cancellation is logged, and the screen says cancelled all the same.
CancelDone ==
    /\ At("CALLER", "cancel", "reply")
    /\ Goes("CALLER", "cancel", "")
    /\ Cleanup("CALLER") /\ Shows("CALLER", "cancelled")
    /\ UNCHANGED <<asked, status, online, inbox, faults>>

(***************************************************************************)
(* The receiver: accept and reject.                                        *)
(***************************************************************************)
Accept ==
    /\ screen["RECEIVER"] = "incoming"
    /\ \A f \in Functions : At("RECEIVER", f, "")
    /\ pc' = [pc EXCEPT !["RECEIVER"] = WithPeer("RECEIVER")]
    /\ Goes("RECEIVER", "accept", "media")
    /\ UNCHANGED <<asked, status, online, inbox, screen, pending, media, trouble, told, faults>>

AcceptMedia ==
    /\ At("RECEIVER", "accept", "media")
    /\ Attached("RECEIVER")
    /\ Goes("RECEIVER", "accept", "post")
    /\ UNCHANGED <<asked, status, online, inbox, screen, pending, trouble, told>>

AcceptPosted ==
    /\ At("RECEIVER", "accept", "post")
    /\ \/ /\ Decide("ACCEPTED")
          /\ inbox' = Sent(inbox, "CALLER", <<Msg("call-accepted", 0)>>)
          /\ Goes("RECEIVER", "accept", "reply")
       \/ /\ status # "RINGING"
          /\ Goes("RECEIVER", "accept", "refused")
          /\ UNCHANGED <<status, inbox>>
    /\ UNCHANGED <<asked, online, screen, rtc, faults>>

AcceptDoneUnchecked ==
    /\ op["RECEIVER"]["accept"] \in {"reply", "refused"}
    /\ Shows("RECEIVER", "in-call") /\ Goes("RECEIVER", "accept", "")
    /\ UNCHANGED <<asked, status, online, inbox, rtc, faults>>

\* The reply of accept, and that of join.
AcceptDone ==
    /\ op["RECEIVER"]["accept"] \in {"reply", "refused"}
    /\ Shows("RECEIVER", IF At("RECEIVER", "accept", "reply") THEN "in-call" ELSE "error")
    /\ Goes("RECEIVER", "accept", "")
    /\ UNCHANGED <<asked, status, online, inbox, rtc, faults>>

Reject ==
    /\ screen["RECEIVER"] = "incoming" /\ At("RECEIVER", "reject", "")
    /\ Goes("RECEIVER", "reject", "post")
    /\ UNCHANGED <<asked, status, online, inbox, screen, rtc, faults>>

RejectPosted ==
    /\ At("RECEIVER", "reject", "post")
    /\ Goes("RECEIVER", "reject", "reply")
    /\ \/ /\ Decide("REJECTED")
          /\ inbox' = Sent(inbox, "CALLER", <<Msg("call-rejected", 0)>>)
       \/ status # "RINGING" /\ UNCHANGED <<status, inbox>>
    /\ UNCHANGED <<asked, online, screen, rtc, faults>>

RejectDone ==
    /\ At("RECEIVER", "reject", "reply")
    /\ Goes("RECEIVER", "reject", "") /\ Shows("RECEIVER", "rejected")
    /\ UNCHANGED <<asked, status, online, inbox, rtc, faults>>

\* A request gets no good reply: it was not carried out, or the reply was lost.
Lose(p, f) ==
    /\ f \in {"accept", "reject", "cancel", "end"}
    /\ op[p][f] \in {"post", "reply"}
    /\ Fault("loss")
    /\ Goes(p, f, IF f = "accept" THEN "refused" ELSE "reply")
    /\ UNCHANGED <<asked, status, online, inbox, screen, rtc>>

\* Nobody answers: the server's sweep.
Miss ==
    /\ Decide("MISSED")
    /\ inbox' = Sent(Sent(inbox, "CALLER", <<Msg("call-missed", 0)>>),
                     "RECEIVER", <<Msg("call-missed", 0)>>)
    /\ UNCHANGED <<asked, online, screen, rtc, op, faults>>

(***************************************************************************)
(* Negotiation.  Only the caller offers.                                   *)
(***************************************************************************)
Applied(p) ==
    IF At(p, "offer", "remote") \/ At(p, "answer", "remote") THEN {told[p]} ELSE {}

AddCandidateUnqueued(p, n) ==
    /\ pc' = [pc EXCEPT ![p].cands =
                IF n \in ({pc[p].rem} \ {0}) \cup Applied(p) THEN @ \cup {n} ELSE @]
    /\ UNCHANGED pending

\* A description being applied makes the browser hold back the candidates that
\* follow it; those of another negotiation are refused.
AddCandidate(p, n) ==
    IF pc[p].rem = 0 THEN /\ pending' = [pending EXCEPT ![p] = @ \cup {n}]
                          /\ UNCHANGED pc
    ELSE /\ pc' = [pc EXCEPT ![p].cands =
                     IF n \in {pc[p].rem} \cup Applied(p) THEN @ \cup {n} ELSE @]
         /\ UNCHANGED pending

OnCandidate(p) ==
    /\ Gets(p, "ice-candidate")
    /\ inbox' = Took(p)
    /\ IF pc[p].open THEN AddCandidate(p, Head(inbox[p]).n) ELSE UNCHANGED <<pc, pending>>
    /\ UNCHANGED <<asked, status, online, screen, media, trouble, told, op, faults>>

RemoteUnflushed(p, n) ==
    [pc[p] EXCEPT !.rem = n, !.cands = @ \cap {n}, !.ice = IF @ = "failed" THEN "new" ELSE @]

\* The peer once the description of negotiation n is applied, and the queue
\* flushed into it: what failed is tried again.
Remote(p, n) ==
    [pc[p] EXCEPT !.rem = n, !.cands = (@ \cup pending[p]) \cap {n},
                  !.ice = IF @ = "failed" THEN "new" ELSE @]

\* Media first when the connection sends nothing.
OnOffer(p) ==
    /\ Gets(p, "offer") /\ At(p, "offer", "")
    /\ inbox' = Took(p)
    /\ IF pc[p].open
       THEN /\ Goes(p, "offer", IF pc[p].sends THEN "remote" ELSE "media")
            /\ told' = [told EXCEPT ![p] = Head(inbox[p]).n]
       ELSE UNCHANGED <<op, told>>
    /\ UNCHANGED <<asked, status, online, screen, pc, pending, media, trouble, faults>>

OfferMedia(p) ==
    /\ At(p, "offer", "media")
    /\ Attached(p) /\ Goes(p, "offer", "remote")
    /\ UNCHANGED <<asked, status, online, inbox, screen, pending, trouble, told>>

Forgets(p) == told' = [told EXCEPT ![p] = 0]

OfferRemote(p) ==
    /\ At(p, "offer", "remote")
    /\ IF pc[p].open
       THEN /\ pc' = [pc EXCEPT ![p] = Remote(p, told[p])]
            /\ pending' = [pending EXCEPT ![p] = {}]
            /\ Goes(p, "offer", "local")
            /\ UNCHANGED told
       ELSE Goes(p, "offer", "") /\ Forgets(p) /\ UNCHANGED <<pc, pending>>
    /\ UNCHANGED <<asked, status, online, inbox, screen, media, trouble, faults>>

OfferAnswer(p) ==
    /\ At(p, "offer", "local")
    /\ Goes(p, "offer", "") /\ Forgets(p)
    /\ IF pc[p].open
       THEN /\ pc' = [pc EXCEPT ![p].loc = told[p]]
            /\ inbox' = Relayed(inbox, p, <<Msg("answer", told[p]),
                                            Msg("ice-candidate", told[p])>>)
       ELSE UNCHANGED <<pc, inbox>>
    /\ UNCHANGED <<asked, status, online, screen, pending, media, trouble, faults>>

OnAnswer(p) ==
    /\ Gets(p, "answer") /\ At(p, "answer", "")
    /\ inbox' = Took(p)
    /\ IF pc[p].open
       THEN Goes(p, "answer", "remote") /\ told' = [told EXCEPT ![p] = Head(inbox[p]).n]
       ELSE UNCHANGED <<op, told>>
    /\ UNCHANGED <<asked, status, online, screen, pc, pending, media, trouble, faults>>

\* Refused on a closed connection and when no offer of ours is open.
AnswerRemote(p) ==
    /\ At(p, "answer", "remote")
    /\ Goes(p, "answer", "") /\ Forgets(p)
    /\ IF pc[p].open /\ pc[p].offered
       THEN /\ pc' = [pc EXCEPT ![p] = [Remote(p, told[p]) EXCEPT !.offered = FALSE]]
            /\ pending' = [pending EXCEPT ![p] = {}]
       ELSE UNCHANGED <<pc, pending>>
    /\ UNCHANGED <<asked, status, online, inbox, screen, media, trouble, faults>>

(***************************************************************************)
(* ICE, which the browser runs once a remote description is set, and what  *)
(* oniceconnectionstatechange makes of it.                                 *)
(***************************************************************************)
\* The pages hold the two descriptions of one negotiation, and one of them a
\* candidate of the other.
Agreed(p) ==
    LET a == pc[p]  b == pc[Other(p)] IN
    /\ a.open /\ b.open /\ a.loc # 0
    /\ {a.loc, a.rem, b.loc, b.rem} = {a.loc}
    /\ a.loc \in a.cands \cup b.cands

IceConnect(p) ==
    /\ Agreed(p) /\ pc[p].ice \in {"new", "disconnected"}
    /\ pc' = [pc EXCEPT ![p].ice = "connected"]
    /\ issue' = [issue EXCEPT ![p] = FALSE]
    /\ watch' = [watch EXCEPT ![p] = FALSE]
    /\ UNCHANGED <<asked, status, online, inbox, screen, pending, media, due, told, op, faults>>

TroubledUnwatched(p) ==
    /\ issue' = [issue EXCEPT ![p] = TRUE]
    /\ due' = [due EXCEPT ![p] = @ \/ (p = "CALLER" /\ ~watch[p])]
    /\ UNCHANGED watch

\* The first sign of trouble starts the watchdog and the timer of the restart,
\* which only has an effect at the caller.
Troubled(p) ==
    /\ issue' = [issue EXCEPT ![p] = TRUE]
    /\ watch' = [watch EXCEPT ![p] = TRUE]
    /\ due' = [due EXCEPT ![p] = @ \/ (p = "CALLER" /\ ~watch[p])]

IceDrop(p) ==
    /\ pc[p].open /\ pc[p].rem # 0
    /\ \E s \in (CASE pc[p].ice = "connected" -> {"disconnected", "failed"}
                   [] pc[p].ice = "new" -> {"failed"}
                   [] OTHER -> {}) :
        pc' = [pc EXCEPT ![p].ice = s]
    /\ IF pc[Other(p)].open THEN Fault("drop") ELSE UNCHANGED faults
    /\ Troubled(p)
    /\ UNCHANGED <<asked, status, online, inbox, screen, pending, media, told, op>>

\* Only the caller negotiates anew, and one negotiation at a time.
RestartTimer(p) ==
    /\ due[p]
    /\ due' = [due EXCEPT ![p] = FALSE]
    /\ IF pc[p].open /\ p = "CALLER" /\ At(p, "restart", "")
       THEN Goes(p, "restart", "offer") ELSE UNCHANGED op
    /\ UNCHANGED <<asked, status, online, inbox, screen, pc, pending, media, issue, watch, told, faults>>

\* createOffer with iceRestart and setLocalDescription; on a closed connection
\* the restart fails and is logged.
Restart(p) ==
    /\ At(p, "restart", "offer")
    /\ Goes(p, "restart", "")
    /\ IF pc[p].open THEN Offers(p) ELSE UNCHANGED <<pc, inbox>>
    /\ UNCHANGED <<asked, status, online, screen, pending, media, trouble, told, faults>>

WatchdogOnlyHides(p) ==
    /\ watch[p] /\ ~due[p]
    /\ watch' = [watch EXCEPT ![p] = FALSE] /\ issue' = [issue EXCEPT ![p] = FALSE]
    /\ UNCHANGED <<asked, status, online, inbox, screen, pc, pending, media, due, told, op, faults>>

\* Fifteen seconds after the first sign; the restart's timer is shorter.
Watchdog(p) ==
    /\ watch[p] /\ ~due[p]
    /\ watch' = [watch EXCEPT ![p] = FALSE]
    /\ IF pc[p].open /\ pc[p].ice # "connected"
       THEN issue' = [issue EXCEPT ![p] = FALSE] /\ Shows(p, "connection-failed")
       ELSE UNCHANGED <<issue, screen>>
    /\ UNCHANGED <<asked, status, online, inbox, pc, pending, media, due, told, op, faults>>

(***************************************************************************)
(* Hanging up, and closing the page.                                       *)
(***************************************************************************)
HangUp(p) ==
    /\ screen[p] = "in-call" /\ At(p, "end", "")
    /\ inbox' = Relayed(inbox, p, <<Msg("call-ended", 0)>>)
    /\ Goes(p, "end", "post")
    /\ asked' = [asked EXCEPT ![p] = TRUE]
    /\ UNCHANGED <<status, online, screen, rtc, faults>>

\* The request to leave only records an event; that to end ends any call.
EndPosted(p) ==
    /\ At(p, "end", "post")
    /\ status' = "ENDED" /\ Goes(p, "end", "reply")
    /\ UNCHANGED <<asked, online, inbox, screen, rtc, faults>>

EndDone(p) ==
    /\ At(p, "end", "reply")
    /\ Goes(p, "end", "")
    /\ Cleanup(p) /\ Shows(p, "ended")
    /\ UNCHANGED <<asked, status, online, inbox, faults>>

\* pagehide: a call on the screen is ended, unless the page has asked for its
\* end or its cancellation before.
PageExit(p) ==
    /\ screen[p] # "closed" /\ Shows(p, "closed") /\ Fault("exit")
    /\ status' = IF screen[p] = "in-call" /\ ~asked[p] THEN "ENDED" ELSE status
    /\ inbox' = [inbox EXCEPT ![p] = <<>>]
    /\ pc' = [pc EXCEPT ![p] = NoPeer]
    /\ pending' = [pending EXCEPT ![p] = {}]
    /\ Forgets(p)
    /\ op' = [op EXCEPT ![p] = [f \in Functions |-> ""]]
    /\ LET No(flag) == [flag EXCEPT ![p] = FALSE] IN
       /\ online' = No(online) /\ asked' = No(asked)
       /\ stream' = No(stream) /\ late' = No(late)
       /\ issue' = No(issue) /\ watch' = No(watch) /\ due' = No(due)

-----------------------------------------------------------------------------
Handler(p) ==
    \/ Authenticate(p) \/ OnAcknowledged(p) \/ OnIncoming(p) \/ OnRejected(p)
    \/ \E e \in DOMAIN Ignores : OnOver(p, e)
    \/ OnAccepted(p) \/ AnsweredMedia(p) \/ AnsweredOffer(p)
    \/ OnOffer(p) \/ OfferMedia(p) \/ OfferRemote(p) \/ OfferAnswer(p)
    \/ OnAnswer(p) \/ AnswerRemote(p) \/ OnCandidate(p)
    \/ RestartTimer(p) \/ Restart(p) \/ Watchdog(p)
    \/ EndPosted(p) \/ EndDone(p)

Request == CancelPosted \/ CancelDone \/ AcceptMedia \/ AcceptPosted \/ AcceptDone
           \/ RejectPosted \/ RejectDone

User(p) == HangUp(p) \/ PageExit(p)

Next ==
    \/ StartCallFlow \/ Cancel \/ Accept \/ Reject \/ Request \/ Miss
    \/ \E p \in Pages :
        \/ Handler(p) \/ User(p) \/ Blip(p) \/ IceConnect(p) \/ IceDrop(p)
        \/ \E f \in Functions : Lose(p, f)

(***************************************************************************)
(* Replies, messages and timers come; ICE connects what can be connected,  *)
(* and notices that the other end is gone.  Users need not do anything.    *)
(* A page only ever has finitely much to do, so that it is enough that the *)
(* system as a whole goes on.                                              *)
(***************************************************************************)
System ==
    \/ Request
    \/ \E p \in Pages :
        \/ Handler(p) \/ IceConnect(p)
        \/ IceDrop(p) /\ UNCHANGED faults

Spec == Init /\ [][Next]_vars
FairSpec == Spec /\ WF_vars(System)

-----------------------------------------------------------------------------
(***************************************************************************)
(* Properties.                                                             *)
(***************************************************************************)
Messages == {"acknowledged", "incoming-call", "call-accepted", "call-rejected", "offer",
          "answer", "ice-candidate"} \cup DOMAIN Ignores
Peers == [open : BOOLEAN, offered : BOOLEAN, loc : Nat, rem : Nat,
          cands : SUBSET Nat, sends : BOOLEAN,
          ice : {"new", "connected", "disconnected", "failed"}]
Steps == {"", "media", "offer", "post", "reply", "refused", "remote", "local"}

\* The state of both pages has its declared shape.
TypeOK ==
    /\ status \in {"RINGING", "ACCEPTED", "REJECTED", "CANCELLED", "MISSED", "ENDED"}
    /\ screen \in [Pages -> Screens]
    /\ {online, stream, late, issue, watch, due, asked} \subseteq [Pages -> BOOLEAN]
    /\ pc \in [Pages -> Peers] /\ pending \in [Pages -> SUBSET Nat]
    /\ told \in [Pages -> Nat]
    /\ op \in [Pages -> [Functions -> Steps]]
    /\ \A p \in Pages : \A i \in DOMAIN inbox[p] :
           inbox[p][i] \in [kind : Messages, n : Nat]

\* A page shows the call screen only for a call that was accepted, however its
\* prompts, requests and messages are ordered (setState("in-call") in the
\* call-accepted handler and in acceptCall).
InCallWasAccepted ==
    \A p \in Pages : screen[p] = "in-call" => status \in {"ACCEPTED", "ENDED"}

\* Once a page says that the call is over, its camera and microphone are off,
\* unless a prompt was open when it cleaned up or answered too late (cleanup).
DevicesAreReleased ==
    \A p \in Pages :
        screen[p] \in {"ended", "cancelled", "missed"} /\ ~late[p] => ~stream[p]

\* No candidate of the first negotiation gets lost, whether it comes before or
\* after the description it belongs to is applied (pendingCandidatesRef).
FirstCandidatesAreKept ==
    faults.blip = 0 =>
        \A p \in Pages : pc[p].open /\ pc[p].rem = 1 =>
            1 \in pc[p].cands \/ Msg("ice-candidate", 1) \in {inbox[p][i] : i \in DOMAIN inbox[p]}

\* An accepted call that both pages show connects, unless the caller had asked to
\* cancel it, the network fails, a socket is lost or somebody leaves
\* (call-accepted, offer, answer).
AnsweredCallConnects ==
    ((\A p \in Pages : screen[p] = "in-call") /\ ~asked["CALLER"])
        ~> \/ \A p \in Pages : pc[p].ice = "connected"
           \/ faults.drop > 0 \/ faults.blip > 0
           \/ \E p \in Pages : screen[p] # "in-call"

\* A page does not say "reconnecting" for ever: the connection comes back or the
\* page gives it up or is cleaned up (the watchdog of oniceconnectionstatechange).
RecoversOrGivesUp == \A p \in Pages : issue[p] ~> ~issue[p]

\* Whoever was connected learns that the other party is gone, by message or by
\* ICE, even when call-ended is lost with the socket.
DepartureIsNoticed ==
    \A p \in Pages :
        (screen[p] = "in-call" /\ pc[p].open /\ pc[p].ice = "connected" /\ ~pc[Other(p)].open)
            ~> screen[p] # "in-call"

\* "Create the peer connection synchronously so the offer is never dropped" (the
\* call-accepted handler): a caller on the call screen has made its offer.
OfferIsNeverDropped ==
    screen["CALLER"] = "in-call" /\ At("CALLER", "answered", "") => pc["CALLER"].loc > 0
=============================================================================
