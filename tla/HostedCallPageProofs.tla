------------------------ MODULE HostedCallPageProofs ------------------------
(***************************************************************************)
(* Theorems about HostedCallPage for every kind and number of faults.      *)
(***************************************************************************)
EXTENDS HostedCallPage, TLAPS

USE DEF media, trouble, rtc

(* TypeOK with a type for the inboxes, of which it speaks entry by entry.  *)
MessageSet == [kind : Messages, n : Nat]
InboxOK == inbox \in [Pages -> Seq(MessageSet)]
StateOK ==
    /\ status \in {"RINGING", "ACCEPTED", "REJECTED", "CANCELLED", "MISSED", "ENDED"}
    /\ screen \in [Pages -> Screens]
    /\ online \in [Pages -> BOOLEAN] /\ stream \in [Pages -> BOOLEAN]
    /\ late \in [Pages -> BOOLEAN] /\ issue \in [Pages -> BOOLEAN]
    /\ watch \in [Pages -> BOOLEAN] /\ due \in [Pages -> BOOLEAN]
    /\ asked \in [Pages -> BOOLEAN]
    /\ pc \in [Pages -> Peers] /\ pending \in [Pages -> SUBSET Nat]
    /\ told \in [Pages -> Nat]
    /\ op \in [Pages -> [Functions -> Steps]]

TypeInv == StateOK /\ InboxOK

(* A message of a kind is among some, or under way to a page; and no kind  *)
(* is under way that was not before, but for messages to one page.         *)
Among(msgs, kind) == \E i \in DOMAIN msgs : msgs[i].kind = kind
Carries(p, kind) == Among(inbox[p], kind)
NothingNewBut(p, msgs) ==
    \A q \in Pages, kind \in Messages :
        Carries(q, kind)' => Carries(q, kind) \/ (q = p /\ Among(msgs, kind))

(***************************************************************************)
(* The inductive invariant.  An answered call stays answered; each page    *)
(* keeps to its role; whatever leads to the call screen, a message, a      *)
(* reply or a handler under way, presupposes an answered call.             *)
(***************************************************************************)
Answered == status \in {"ACCEPTED", "ENDED"}

Roles ==
    /\ ~Carries("CALLER", "offer") /\ ~Carries("RECEIVER", "call-accepted")
    /\ op["CALLER"]["offer"] = "" /\ op["CALLER"]["accept"] = ""
    /\ op["RECEIVER"]["answered"] = "" /\ op["RECEIVER"]["restart"] = ""

AnswerInv == ~Answered =>
    /\ ~Carries("CALLER", "call-accepted")
    /\ op["CALLER"]["answered"] = "" /\ op["RECEIVER"]["accept"] # "reply"
    /\ \A p \in Pages : screen[p] # "in-call"

(* A page that has cleaned up with no prompt open has no stream, and       *)
(* nothing under way that would give it one while that screen is shown.    *)
Silent(p) ==
    /\ ~stream[p]
    /\ p = "RECEIVER" => ~pc[p].open /\ op[p]["accept"] # "media" /\ op[p]["offer"] # "media"
DeviceInv ==
    \A p \in Pages :
        screen[p] \in {"ended", "cancelled", "missed"} /\ ~late[p] => Silent(p)

PageInv == TypeInv /\ Roles /\ AnswerInv /\ DeviceInv

(* What a step may put under way: nothing of which the invariant speaks,   *)
(* but for the answer to the caller and offers to the receiver.            *)
MailOK ==
    /\ InboxOK'
    /\ \A q \in Pages :
        /\ Carries(q, "offer")' => Carries(q, "offer") \/ q = "RECEIVER"
        /\ Carries(q, "call-accepted")' => Carries(q, "call-accepted") \/ (q = "CALLER" /\ Answered')

----------------------------------------------------------------------------
(* Inboxes.                                                                *)
LEMMA MsgType == ASSUME NEW kind \in Messages, NEW n \in Nat PROVE Msg(kind, n) \in MessageSet
BY DEF Msg, MessageSet

LEMMA Appended ==
    ASSUME TypeInv, NEW p \in Pages, NEW msgs \in Seq(MessageSet),
           inbox' = [inbox EXCEPT ![p] = inbox[p] \o msgs]
    PROVE  InboxOK' /\ NothingNewBut(p, msgs)
<1>1. inbox \in [Pages -> Seq(MessageSet)]
  BY DEF TypeInv, InboxOK
<1>2. inbox[p] \o msgs \in Seq(MessageSet)
  BY <1>1
<1>3. \A i \in DOMAIN (inbox[p] \o msgs) :
        \/ i \in DOMAIN inbox[p] /\ (inbox[p] \o msgs)[i] = inbox[p][i]
        \/ i - Len(inbox[p]) \in DOMAIN msgs
           /\ (inbox[p] \o msgs)[i] = msgs[i - Len(inbox[p])]
  BY <1>1
<1> QED
  BY <1>1, <1>2, <1>3 DEF InboxOK, NothingNewBut, Carries, Among

LEMMA SentArrives ==
    ASSUME TypeInv, NEW p \in Pages, NEW msgs \in Seq(MessageSet),
           inbox' = Sent(inbox, p, msgs)
    PROVE  InboxOK' /\ NothingNewBut(p, msgs)
<1>1. CASE online[p]
  <2>1. inbox' = [inbox EXCEPT ![p] = inbox[p] \o msgs]
    BY <1>1 DEF Sent
  <2> QED
    BY <2>1, Appended
<1>2. CASE ~online[p]
  <2>1. inbox' = inbox
    BY <1>2 DEF Sent, TypeInv, InboxOK
  <2> QED
    BY <2>1 DEF TypeInv, InboxOK, NothingNewBut, Carries
<1> QED
  BY <1>1, <1>2

LEMMA TakenOff ==
    ASSUME TypeInv, NEW p \in Pages, inbox[p] # <<>>, inbox' = Took(p)
    PROVE  /\ InboxOK'
           /\ \A q \in Pages, kind \in Messages : Carries(q, kind)' => Carries(q, kind)
           /\ Head(inbox[p]) \in MessageSet
           /\ Carries(p, Head(inbox[p]).kind)
<1>1. inbox \in [Pages -> Seq(MessageSet)] /\ inbox' = [inbox EXCEPT ![p] = Tail(inbox[p])]
  BY DEF TypeInv, InboxOK, Took
<1>2. /\ Tail(inbox[p]) \in Seq(MessageSet)
      /\ \A i \in DOMAIN Tail(inbox[p]) :
            i + 1 \in DOMAIN inbox[p] /\ Tail(inbox[p])[i] = inbox[p][i + 1]
      /\ 1 \in DOMAIN inbox[p] /\ Head(inbox[p]) = inbox[p][1]
  BY <1>1
<1>3. InboxOK'
  BY <1>1, <1>2 DEF InboxOK
<1>4. \A q \in Pages, kind \in Messages : Carries(q, kind)' => Carries(q, kind)
  BY <1>1, <1>2 DEF Carries, Among
<1>5. Head(inbox[p]) \in MessageSet /\ Carries(p, Head(inbox[p]).kind)
  BY <1>1, <1>2 DEF Carries, Among
<1> QED
  BY <1>3, <1>4, <1>5

LEMMA MailKept == ASSUME TypeInv, UNCHANGED inbox PROVE MailOK
BY DEF MailOK, TypeInv, InboxOK, Carries

LEMMA MailTaken ==
    ASSUME TypeInv, NEW p \in Pages, inbox[p] # <<>>, inbox' = Took(p)
    PROVE  MailOK /\ Head(inbox[p]) \in MessageSet /\ Carries(p, Head(inbox[p]).kind)
<1>1. {"offer", "call-accepted"} \subseteq Messages
  BY DEF Messages
<1> QED
  BY <1>1, TakenOff DEF MailOK

LEMMA MailCleared ==
    ASSUME TypeInv, NEW p \in Pages, inbox' = [inbox EXCEPT ![p] = <<>>]
    PROVE  MailOK
BY DEF MailOK, TypeInv, InboxOK, Carries, Among

LEMMA MailSent ==
    ASSUME TypeInv, NEW p \in Pages, NEW msgs \in Seq(MessageSet),
           inbox' = Sent(inbox, p, msgs),
           Among(msgs, "offer") => p = "RECEIVER",
           Among(msgs, "call-accepted") => p = "CALLER" /\ Answered'
    PROVE  MailOK
<1>1. {"offer", "call-accepted"} \subseteq Messages
  BY DEF Messages
<1> QED
  BY <1>1, SentArrives DEF MailOK, NothingNewBut

LEMMA MailRelayed ==
    ASSUME TypeInv, NEW p \in Pages, NEW msgs \in Seq(MessageSet),
           inbox' = Relayed(inbox, p, msgs),
           Among(msgs, "offer") => p = "CALLER",
           ~Among(msgs, "call-accepted")
    PROVE  MailOK
<1>1. Other(p) \in Pages /\ (p = "CALLER" => Other(p) = "RECEIVER")
  BY DEF Other, Pages
<1> QED
  BY <1>1, MailSent, MailKept DEF Relayed

----------------------------------------------------------------------------
(* The rest of the state.                                                  *)
LEMMA GoesTo ==
    ASSUME StateOK, NEW p \in Pages, NEW f \in Functions, NEW step \in Steps, Goes(p, f, step)
    PROVE  /\ op' \in [Pages -> [Functions -> Steps]]
           /\ op'[p][f] = step
           /\ \A q \in Pages, g \in Functions : q # p \/ g # f => op'[q][g] = op[q][g]
BY DEF StateOK, Goes

LEMMA PeerParts ==
    ASSUME NEW a \in Peers
    PROVE  /\ a.open \in BOOLEAN /\ a.offered \in BOOLEAN /\ a.sends \in BOOLEAN
           /\ a.loc \in Nat /\ a.rem \in Nat /\ a.cands \in SUBSET Nat
BY DEF Peers

LEMMA PeerTypes == NoPeer \in Peers /\ FreshPeer \in Peers
BY DEF Peers, NoPeer, FreshPeer

LEMMA CleanupType ==
    ASSUME StateOK, NEW p \in Pages, Cleanup(p)
    PROVE  /\ pc' \in [Pages -> Peers] /\ pending' \in [Pages -> SUBSET Nat]
           /\ stream' \in [Pages -> BOOLEAN] /\ late' \in [Pages -> BOOLEAN]
           /\ issue' \in [Pages -> BOOLEAN] /\ watch' \in [Pages -> BOOLEAN]
           /\ due' \in [Pages -> BOOLEAN] /\ told' \in [Pages -> Nat]
<1>1. late' \in [Pages -> BOOLEAN]
  BY DEF Cleanup, StateOK, Prompting
<1> QED
  BY <1>1, PeerTypes DEF Cleanup, StateOK

LEMMA AttachedType ==
    ASSUME StateOK, NEW p \in Pages, Attached(p)
    PROVE  /\ pc' \in [Pages -> Peers] /\ stream' \in [Pages -> BOOLEAN]
           /\ late' \in [Pages -> BOOLEAN]
           /\ \A q \in Pages : pc'[q].open = pc[q].open
           /\ \A q \in Pages : q # p => stream'[q] = stream[q]
<1>1. CASE UNCHANGED <<stream, pc>> /\ UNCHANGED late
  BY <1>1 DEF StateOK
<1>2. CASE /\ stream' = [stream EXCEPT ![p] = TRUE]
           /\ pc' = [pc EXCEPT ![p].sends = pc[p].open]
           /\ UNCHANGED late
  <2>1. [pc[p] EXCEPT !.sends = pc[p].open] \in Peers
    BY DEF StateOK, Peers
  <2> QED
    BY <1>2, <2>1 DEF StateOK, Peers
<1> QED
  BY <1>1, <1>2 DEF Attached

(* What is left to show of a step.                                         *)
OpsOK ==
    /\ op["CALLER"]["offer"] = "" /\ op["CALLER"]["accept"] = ""
    /\ op["RECEIVER"]["answered"] = "" /\ op["RECEIVER"]["restart"] = ""
    /\ ~Answered =>
        /\ op["CALLER"]["answered"] = "" /\ op["RECEIVER"]["accept"] # "reply"
        /\ \A p \in Pages : screen[p] # "in-call"
StepOK ==
    /\ StateOK'
    /\ Answered => Answered'
    /\ OpsOK'
    /\ DeviceInv'

LEMMA Combined == ASSUME PageInv, MailOK, StepOK PROVE PageInv'
<1>1. {"CALLER", "RECEIVER"} \subseteq Pages
  BY DEF Pages
<1>2. ~Carries("CALLER", "offer")' /\ ~Carries("RECEIVER", "call-accepted")'
  BY <1>1 DEF PageInv, Roles, MailOK
<1>3. Carries("CALLER", "call-accepted")' => Answered'
  BY <1>1 DEF PageInv, AnswerInv, MailOK, StepOK
<1>4. TypeInv' /\ DeviceInv'
  BY DEF TypeInv, MailOK, StepOK
<1>5. Roles'
  BY <1>2 DEF Roles, StepOK, OpsOK
<1>6. AnswerInv'
  BY <1>3 DEF AnswerInv, StepOK, OpsOK
<1> QED
  BY <1>4, <1>5, <1>6 DEF PageInv

LEMMA OneSent ==
    ASSUME TypeInv, NEW p \in Pages, NEW kind \in Messages, NEW n \in Nat,
           kind # "offer", kind # "call-accepted" \/ (p = "CALLER" /\ Answered'),
           inbox' = Sent(inbox, p, <<Msg(kind, n)>>)
    PROVE  MailOK
<1>1. <<Msg(kind, n)>> \in Seq(MessageSet)
  BY MsgType
<1>2. ~Among(<<Msg(kind, n)>>, "offer")
      /\ (Among(<<Msg(kind, n)>>, "call-accepted") => kind = "call-accepted")
  BY DEF Among, Msg
<1> QED
  BY <1>1, <1>2, MailSent

LEMMA OneRelayed ==
    ASSUME TypeInv, NEW p \in Pages, NEW kind \in Messages, NEW n \in Nat,
           kind # "offer", kind # "call-accepted",
           inbox' = Relayed(inbox, p, <<Msg(kind, n)>>)
    PROVE  MailOK
<1>1. Other(p) \in Pages
  BY DEF Other, Pages
<1> QED
  BY <1>1, OneSent, MailKept DEF Relayed

----------------------------------------------------------------------------
(* One lemma per action.                                                   *)
LEMMA GotHead ==
    ASSUME PageInv, NEW p \in Pages, NEW kind, Gets(p, kind), inbox' = Took(p)
    PROVE  MailOK /\ Head(inbox[p]).n \in Nat /\ Carries(p, kind)
<1>1. inbox[p] # <<>> /\ Head(inbox[p]).kind = kind
  BY DEF Gets, Next1
<1> QED
  BY <1>1, MailTaken DEF PageInv, MessageSet

LEMMA AppendIsConcat ==
    ASSUME NEW S, NEW seq \in Seq(S), NEW e \in S
    PROVE  Append(seq, e) = seq \o <<e>>
OBVIOUS

LEMMA AuthenticateStep == ASSUME PageInv, NEW p \in Pages, Authenticate(p) PROVE PageInv'
<1>1. MailOK
  <2> DEFINE m == Msg(IF p = "CALLER" THEN "acknowledged" ELSE OnStatus, 0)
  <2>1. /\ m \in MessageSet /\ m.kind # "offer" /\ m.kind # "call-accepted"
    BY DEF PageInv, TypeInv, StateOK, OnStatus, Msg, MessageSet, Messages, Ignores
  <2>2. inbox' = [inbox EXCEPT ![p] = inbox[p] \o <<m>>]
    <3>1. inbox' = [inbox EXCEPT ![p] = Append(inbox[p], m)]
      BY DEF Authenticate
    <3>2. inbox[p] \in Seq(MessageSet)
      BY DEF PageInv, TypeInv, InboxOK
    <3>3. Append(inbox[p], m) = inbox[p] \o <<m>>
      BY <2>1, <3>2, AppendIsConcat
    <3> QED
      BY <3>1, <3>3
  <2>3. <<m>> \in Seq(MessageSet) /\ ~Among(<<m>>, "offer") /\ ~Among(<<m>>, "call-accepted")
    BY <2>1 DEF Among
  <2>4. {"offer", "call-accepted"} \subseteq Messages
    BY DEF Messages
  <2> QED
    BY <2>2, <2>3, <2>4, Appended DEF PageInv, MailOK, NothingNewBut
<1>2. StateOK'
  BY DEF Authenticate, PageInv, TypeInv, StateOK
<1>3. OpsOK' /\ DeviceInv' /\ (Answered => Answered')
  BY DEF Authenticate, PageInv, Roles, AnswerInv, OpsOK, DeviceInv, Silent, Answered
<1> QED
  BY <1>1, <1>2, <1>3, Combined DEF StepOK

LEMMA BlipStep == ASSUME PageInv, NEW p \in Pages, Blip(p) PROVE PageInv'
<1>1. MailOK
  BY MailCleared DEF Blip, PageInv
<1>2. StateOK'
  BY DEF Blip, PageInv, TypeInv, StateOK
<1>3. OpsOK' /\ DeviceInv' /\ (Answered => Answered')
  BY DEF Blip, PageInv, Roles, AnswerInv, OpsOK, DeviceInv, Silent, Answered
<1> QED
  BY <1>1, <1>2, <1>3, Combined DEF StepOK

LEMMA ScreenSteps ==
    ASSUME PageInv, NEW p \in Pages, OnAcknowledged(p) \/ OnIncoming(p) \/ OnRejected(p)
    PROVE  PageInv'
<1>1. MailOK
  BY GotHead DEF OnAcknowledged, OnIncoming, OnRejected
<1>2. PICK s \in {"lobby", "incoming", "rejected"} : screen' = [screen EXCEPT ![p] = s]
  BY DEF OnAcknowledged, OnIncoming, OnRejected, Shows
<1>3. UNCHANGED <<asked, status, online, rtc, op>>
  BY DEF OnAcknowledged, OnIncoming, OnRejected
<1>4. StateOK'
  BY <1>2, <1>3 DEF PageInv, TypeInv, StateOK, Screens, Terminal
<1>5. OpsOK' /\ DeviceInv' /\ (Answered => Answered')
  BY <1>2, <1>3 DEF PageInv, TypeInv, StateOK, Roles, AnswerInv, OpsOK, DeviceInv, Silent, Answered
<1> QED
  BY <1>1, <1>4, <1>5, Combined DEF StepOK

(* Cleaning up shows a page that is silent, unless a prompt is open.       *)
LEMMA CleanedUp ==
    ASSUME PageInv, NEW p \in Pages, NEW s \in {"ended", "cancelled", "missed"},
           Cleanup(p), Shows(p, s), NEW f \in Functions, NEW t \in Steps, t # "media",
           UNCHANGED op \/ Goes(p, f, t)
    PROVE  DeviceInv'
<1>1. StateOK
  BY DEF PageInv, TypeInv
<1>2. /\ pc'[p].open = FALSE /\ stream'[p] = FALSE
      /\ late'[p] = (late[p] \/ Prompting(p))
  BY <1>1 DEF StateOK, Cleanup, NoPeer
<1>3. \A q \in Pages : q # p =>
        pc'[q] = pc[q] /\ stream'[q] = stream[q] /\ late'[q] = late[q] /\ screen'[q] = screen[q]
  BY <1>1 DEF StateOK, Cleanup, Shows
<1>4. \A q \in Pages, g \in Functions : op'[q][g] = "media" => op[q][g] = "media"
  BY <1>1, GoesTo
<1>5. \A q \in Pages, g \in Functions : q # p => op'[q][g] = op[q][g]
  BY <1>1, GoesTo
<1>6. {"accept", "offer"} \subseteq Functions
  BY DEF Functions
<1>7. ~late'[p] => op'[p]["accept"] # "media" /\ op'[p]["offer"] # "media"
  BY <1>2, <1>4, <1>6 DEF Prompting
<1> QED
  BY <1>2, <1>3, <1>5, <1>6, <1>7 DEF PageInv, DeviceInv, Silent

LEMMA OnOverStep ==
    ASSUME PageInv, NEW p \in Pages, NEW e \in DOMAIN Ignores, OnOver(p, e)
    PROVE  PageInv'
<1>1. MailOK
  BY GotHead DEF OnOver
<1>2. UNCHANGED <<asked, status, online, op>>
  BY DEF OnOver
<1>3. CASE screen[p] \in Ignores[e]
  <2>1. UNCHANGED <<screen, rtc>>
    BY <1>3 DEF OnOver
  <2>2. StateOK' /\ OpsOK' /\ DeviceInv' /\ (Answered => Answered')
    BY <1>2, <2>1 DEF PageInv, TypeInv, StateOK, Roles, AnswerInv, OpsOK, DeviceInv, Silent, Answered
  <2> QED
    BY <1>1, <2>2, Combined DEF StepOK
<1>4. CASE screen[p] \notin Ignores[e]
  <2>1. PICK s \in {"ended", "cancelled", "missed"} : Shows(p, s)
    BY <1>4 DEF OnOver, Ignores, ShownFor
  <2>2. Cleanup(p)
    BY <1>4 DEF OnOver
  <2>3. StateOK'
    BY <1>2, <2>1, <2>2, CleanupType DEF PageInv, TypeInv, StateOK, Shows, Screens, Terminal
  <2>4. OpsOK' /\ (Answered => Answered')
    BY <1>2, <2>1 DEF PageInv, TypeInv, StateOK, Roles, AnswerInv, OpsOK, Answered, Shows
  <2>5. "end" \in Functions /\ "" \in Steps
    BY DEF Functions, Steps
  <2>6. DeviceInv'
    BY <1>2, <2>1, <2>2, <2>5, CleanedUp
  <2> QED
    BY <1>1, <2>3, <2>4, <2>6, Combined DEF StepOK
<1> QED
  BY <1>3, <1>4

(* The caller.                                                             *)
LEMMA StartCallFlowStep == ASSUME PageInv, StartCallFlow PROVE PageInv'
<1>1. MailOK
  BY MailKept DEF StartCallFlow, PageInv
<1>2. StateOK'
  BY DEF StartCallFlow, Shows, PageInv, TypeInv, StateOK, Screens
<1>3. OpsOK' /\ DeviceInv' /\ (Answered => Answered')
  BY DEF StartCallFlow, Shows, PageInv, TypeInv, StateOK, Roles, AnswerInv, OpsOK, DeviceInv,
         Silent, Answered
<1> QED
  BY <1>1, <1>2, <1>3, Combined DEF StepOK

LEMMA WithPeerType ==
    ASSUME StateOK, NEW p \in Pages
    PROVE  /\ WithPeer(p) \in Peers
           /\ pc' = [pc EXCEPT ![p] = WithPeer(p)] => pc' \in [Pages -> Peers]
BY PeerTypes DEF WithPeer, StateOK

LEMMA OnAcceptedStep == ASSUME PageInv, NEW p \in Pages, OnAccepted(p) PROVE PageInv'
<1> USE DEF PageInv, TypeInv
<1>1. MailOK /\ Carries(p, "call-accepted")
  BY GotHead DEF OnAccepted
<1>2. p = "CALLER" /\ Answered
  BY <1>1 DEF Roles, AnswerInv, Pages
<1>3. {"answered", "offer", "accept", "restart"} \subseteq Functions /\ "media" \in Steps
  BY DEF Functions, Steps
<1>4. /\ op' \in [Pages -> [Functions -> Steps]]
      /\ \A q \in Pages, g \in Functions : q # p \/ g # "answered" => op'[q][g] = op[q][g]
  BY <1>3, GoesTo DEF OnAccepted
<1>5. StateOK'
  BY <1>4, WithPeerType DEF OnAccepted, StateOK
<1>6. OpsOK' /\ Answered'
  BY <1>2, <1>3, <1>4 DEF OnAccepted, Roles, OpsOK, Answered, Pages
<1>7. DeviceInv'
  BY <1>2, <1>3, <1>4 DEF OnAccepted, DeviceInv, Silent, StateOK
<1> QED
  BY <1>1, <1>5, <1>6, <1>7, Combined DEF StepOK

LEMMA AnsweredMediaStep == ASSUME PageInv, NEW p \in Pages, AnsweredMedia(p) PROVE PageInv'
<1> USE DEF PageInv, TypeInv
<1>1. MailOK
  BY MailKept DEF AnsweredMedia
<1>2. {"answered", "offer", "accept", "restart"} \subseteq Functions
      /\ {"offer", "", "media"} \subseteq Steps
  BY DEF Functions, Steps
<1>3. p = "CALLER" /\ Answered
  BY <1>2 DEF AnsweredMedia, At, Roles, AnswerInv, Pages
<1>4. /\ op' \in [Pages -> [Functions -> Steps]]
      /\ \A q \in Pages, g \in Functions : q # p \/ g # "answered" => op'[q][g] = op[q][g]
  <2>1. PICK t \in {"offer", ""} : Goes(p, "answered", t)
    BY DEF AnsweredMedia
  <2>2. t \in Steps /\ "answered" \in Functions /\ StateOK
    BY <1>2
  <2> QED
    BY <2>1, <2>2, GoesTo
<1>5. StateOK'
  BY <1>4, AttachedType DEF AnsweredMedia, StateOK, Shows, Screens
<1>6. OpsOK' /\ Answered'
  BY <1>2, <1>3, <1>4 DEF AnsweredMedia, Roles, OpsOK, Answered, Pages
<1>7. DeviceInv'
  <2>1. \A q \in Pages : q # p =>
          stream'[q] = stream[q] /\ pc'[q].open = pc[q].open /\ screen'[q] = screen[q]
    BY AttachedType DEF AnsweredMedia, Shows, StateOK
  <2>2. screen'[p] = "in-call" /\ UNCHANGED late
    BY DEF AnsweredMedia, Attached, Shows, StateOK
  <2> QED
    BY <1>2, <1>4, <2>1, <2>2 DEF DeviceInv, Silent
<1> QED
  BY <1>1, <1>5, <1>6, <1>7, Combined DEF StepOK

(* A connection that makes an offer, and what it sends.                    *)
LEMMA OffersStep ==
    ASSUME TypeInv, NEW p \in Pages, p = "CALLER", Offers(p)
    PROVE  MailOK /\ pc' \in [Pages -> Peers] /\ \A q \in Pages : pc'[q].open = pc[q].open
<1> DEFINE n == pc[p].loc + 1
<1> DEFINE m == <<Msg("offer", n), Msg("ice-candidate", n)>>
<1>1. pc[p] \in Peers /\ n \in Nat
  BY PeerParts DEF TypeInv, StateOK
<1>2. [pc[p] EXCEPT !.loc = n, !.offered = TRUE] \in Peers
  BY <1>1 DEF Peers
<1>3. pc' = [pc EXCEPT ![p] = [pc[p] EXCEPT !.loc = n, !.offered = TRUE]]
  BY DEF Offers
<1>4. pc' \in [Pages -> Peers] /\ \A q \in Pages : pc'[q].open = pc[q].open
  <2> HIDE DEF n
  <2> QED
    BY <1>1, <1>2, <1>3 DEF TypeInv, StateOK, Peers
<1>5. m \in Seq(MessageSet) /\ ~Among(m, "call-accepted")
  <2> HIDE DEF n
  <2>1. {"offer", "ice-candidate"} \subseteq Messages
    BY DEF Messages
  <2>2. Msg("offer", n) \in MessageSet /\ Msg("ice-candidate", n) \in MessageSet
    BY <1>1, <2>1, MsgType
  <2> QED
    BY <2>2 DEF Among, Msg
<1>6. inbox' = Relayed(inbox, p, m)
  BY DEF Offers
<1>7. MailOK
  <2> HIDE DEF m
  <2> QED
    BY <1>5, <1>6, MailRelayed
<1> QED
  BY <1>4, <1>7

LEMMA AnsweredOfferStep == ASSUME PageInv, NEW p \in Pages, AnsweredOffer(p) PROVE PageInv'
<1> USE DEF PageInv, TypeInv
<1>1. {"answered", "offer", "accept", "restart"} \subseteq Functions /\ "" \in Steps
  BY DEF Functions, Steps
<1>2. p = "CALLER" /\ Answered
  BY <1>1 DEF AnsweredOffer, At, Roles, AnswerInv, Pages
<1>3. /\ op' \in [Pages -> [Functions -> Steps]]
      /\ \A q \in Pages, g \in Functions : q # p \/ g # "answered" => op'[q][g] = op[q][g]
  BY <1>1, GoesTo DEF AnsweredOffer
<1>4. OpsOK' /\ Answered'
  BY <1>1, <1>2, <1>3 DEF AnsweredOffer, Roles, OpsOK, Answered, Pages
<1>5. /\ MailOK /\ pc' \in [Pages -> Peers] /\ \A q \in Pages : pc'[q].open = pc[q].open
      /\ screen' \in [Pages -> Screens]
      /\ \A q \in Pages : screen'[q] = screen[q] \/ screen'[q] = "error"
  <2>1. CASE pc[p].open
    BY <1>2, <2>1, OffersStep DEF AnsweredOffer, StateOK
  <2>2. CASE ~pc[p].open
    BY <2>2, MailKept DEF AnsweredOffer, StateOK, Shows, Screens, Terminal
  <2> QED
    BY <2>1, <2>2
<1>6. StateOK'
  BY <1>3, <1>5 DEF AnsweredOffer, StateOK
<1>7. DeviceInv'
  BY <1>1, <1>2, <1>3, <1>5 DEF AnsweredOffer, DeviceInv, Silent
<1> QED
  BY <1>4, <1>5, <1>6, <1>7, Combined DEF StepOK

LEMMA CancelStep == ASSUME PageInv, Cancel \/ CancelPosted PROVE PageInv'
<1> USE DEF PageInv, TypeInv
<1>1. {"answered", "offer", "accept", "restart", "cancel"} \subseteq Functions
      /\ {"post", "reply"} \subseteq Steps /\ {"CALLER", "RECEIVER"} \subseteq Pages
  BY DEF Functions, Steps, Pages
<1>2. PICK t \in {"post", "reply"} : Goes("CALLER", "cancel", t)
  BY DEF Cancel, CancelPosted
<1>3. /\ op' \in [Pages -> [Functions -> Steps]]
      /\ \A q \in Pages, g \in Functions : q # "CALLER" \/ g # "cancel" => op'[q][g] = op[q][g]
  BY <1>1, <1>2, GoesTo
<1>4. UNCHANGED <<online, screen, rtc>> /\ asked' \in [Pages -> BOOLEAN]
  BY DEF Cancel, CancelPosted, StateOK
<1>5. /\ Answered => Answered'
      /\ status' \in {"RINGING", "ACCEPTED", "REJECTED", "CANCELLED", "MISSED", "ENDED"}
      /\ ~Answered' => ~Answered
  BY DEF Cancel, CancelPosted, Decide, Answered, StateOK
<1>6. MailOK
  <2>1. CASE UNCHANGED inbox
    BY <2>1, MailKept
  <2>2. CASE inbox' = Sent(inbox, "RECEIVER", <<Msg("call-cancelled", 0)>>)
    BY <1>1, <2>2, OneSent DEF Messages, Ignores
  <2> QED
    BY <2>1, <2>2 DEF Cancel, CancelPosted
<1>7. StateOK'
  BY <1>3, <1>4, <1>5 DEF StateOK
<1>8. OpsOK' /\ DeviceInv'
  BY <1>1, <1>3, <1>4, <1>5 DEF Roles, AnswerInv, OpsOK, DeviceInv, Silent
<1> QED
  BY <1>5, <1>6, <1>7, <1>8, Combined DEF StepOK

(* A function of a page moves on: what it leaves alone.                    *)
LEMMA Moved ==
    ASSUME PageInv, NEW p \in Pages, NEW f \in Functions, NEW t \in Steps, Goes(p, f, t)
    PROVE  /\ op' \in [Pages -> [Functions -> Steps]]
           /\ op'[p][f] = t
           /\ \A q \in Pages, g \in Functions : q # p \/ g # f => op'[q][g] = op[q][g]
  BY GoesTo DEF PageInv, TypeInv

LEMMA Names ==
    /\ {"answered", "accept", "reject", "cancel", "end", "offer", "answer", "restart"}
            = Functions
    /\ {"", "media", "offer", "post", "reply", "refused", "remote", "local"} = Steps
    /\ {"CALLER", "RECEIVER"} = Pages
  BY DEF Functions, Steps, Pages

LEMMA DevicesKept ==
    ASSUME PageInv, UNCHANGED <<screen, rtc>>,
           \A q \in Pages :
              /\ op'[q]["accept"] = "media" => op[q]["accept"] = "media"
              /\ op'[q]["offer"] = "media" => op[q]["offer"] = "media"
    PROVE  DeviceInv'
  BY DEF PageInv, DeviceInv, Silent

(* Hanging up or cancelling: the page cleans up and says so.               *)
LEMMA DoneStep ==
    ASSUME PageInv, NEW p \in Pages, NEW f \in {"cancel", "end"}, NEW s \in {"ended", "cancelled"},
           Goes(p, f, ""), Cleanup(p), Shows(p, s), UNCHANGED <<asked, status, online, inbox>>
    PROVE  PageInv'
<1> USE DEF PageInv, TypeInv
<1>1. f \in Functions /\ "" \in Steps
  BY Names
<1>2. MailOK
  BY MailKept
<1>3. /\ op' \in [Pages -> [Functions -> Steps]]
      /\ \A q \in Pages, g \in Functions : q # p \/ g # f => op'[q][g] = op[q][g]
  BY <1>1, Moved
<1>4. StateOK'
  BY <1>3, CleanupType DEF StateOK, Shows, Screens, Terminal
<1>5. OpsOK' /\ (Answered => Answered')
  BY <1>1, <1>3, Names DEF Roles, AnswerInv, OpsOK, Answered, Shows, StateOK
<1>6. DeviceInv'
  BY <1>1, CleanedUp
<1> QED
  BY <1>2, <1>4, <1>5, <1>6, Combined DEF StepOK

LEMMA DoneSteps ==
    ASSUME PageInv, NEW p \in Pages, CancelDone \/ EndDone(p)
    PROVE  PageInv'
  BY DoneStep, Names DEF CancelDone, EndDone

(* The receiver.                                                           *)
LEMMA AcceptStep == ASSUME PageInv, Accept PROVE PageInv'
<1> USE DEF PageInv, TypeInv
<1>1. MailOK
  BY MailKept DEF Accept
<1>2. /\ op' \in [Pages -> [Functions -> Steps]]
      /\ op'["RECEIVER"]["accept"] = "media"
      /\ \A q \in Pages, g \in Functions : q # "RECEIVER" \/ g # "accept" => op'[q][g] = op[q][g]
  BY Moved, Names DEF Accept
<1>3. pc' \in [Pages -> Peers] /\ pc'["CALLER"] = pc["CALLER"]
  BY WithPeerType, Names DEF Accept, StateOK
<1>4. StateOK'
  BY <1>2, <1>3 DEF Accept, StateOK
<1>5. OpsOK' /\ (Answered => Answered')
  BY <1>2, Names DEF Accept, Roles, AnswerInv, OpsOK, Answered
<1>6. DeviceInv'
  BY <1>2, <1>3, Names DEF Accept, DeviceInv, Silent, Pages
<1> QED
  BY <1>1, <1>4, <1>5, <1>6, Combined DEF StepOK

(* A stream that a prompt gives to the receiver: no silent screen had been *)
(* shown without the prompt having been noticed.                           *)
LEMMA PromptStep ==
    ASSUME PageInv, NEW f \in {"accept", "offer"}, NEW t \in {"post", "remote"},
           NEW p \in Pages, At(p, f, "media"), Attached(p), Goes(p, f, t),
           UNCHANGED <<asked, status, online, inbox, screen, pending, trouble, told>>
    PROVE  PageInv'
<1> USE DEF PageInv, TypeInv
<1>1. f \in Functions /\ t \in Steps
  BY Names
<1>2. MailOK
  BY MailKept
<1>3. p = "RECEIVER"
  BY Names DEF At, Roles
<1>4. /\ op' \in [Pages -> [Functions -> Steps]]
      /\ op'[p][f] = t
      /\ \A q \in Pages, g \in Functions : q # p \/ g # f => op'[q][g] = op[q][g]
  BY <1>1, Moved
<1>5. StateOK'
  BY <1>4, AttachedType DEF StateOK
<1>6. OpsOK' /\ (Answered => Answered')
  BY <1>3, <1>4, Names DEF Roles, AnswerInv, OpsOK, Answered
<1>7. DeviceInv'
  <2>1. ~(screen[p] \in {"ended", "cancelled", "missed"} /\ ~late[p])
    BY <1>3, Names DEF At, DeviceInv, Silent
  <2>2. UNCHANGED <<late, screen>>
    BY DEF Attached
  <2>3. \A q \in Pages : q # p => stream'[q] = stream[q] /\ pc'[q].open = pc[q].open
    BY AttachedType
  <2> QED
    BY <1>3, <1>4, <2>1, <2>2, <2>3, Names DEF DeviceInv, Silent
<1> QED
  BY <1>2, <1>5, <1>6, <1>7, Combined DEF StepOK

LEMMA PromptSteps ==
    ASSUME PageInv, NEW p \in Pages, AcceptMedia \/ OfferMedia(p)
    PROVE  PageInv'
  BY PromptStep, Names DEF AcceptMedia, OfferMedia

LEMMA AcceptPostedStep == ASSUME PageInv, AcceptPosted PROVE PageInv'
<1> USE DEF PageInv, TypeInv
<1>1. PICK t \in {"reply", "refused"} :
        /\ Goes("RECEIVER", "accept", t)
        /\ \/ /\ Decide("ACCEPTED")
              /\ inbox' = Sent(inbox, "CALLER", <<Msg("call-accepted", 0)>>)
           \/ UNCHANGED <<status, inbox>> /\ t = "refused"
  BY DEF AcceptPosted
<1>2. UNCHANGED <<asked, online, screen, rtc>>
  BY DEF AcceptPosted
<1>3. /\ op' \in [Pages -> [Functions -> Steps]]
      /\ op'["RECEIVER"]["accept"] = t
      /\ \A q \in Pages, g \in Functions : q # "RECEIVER" \/ g # "accept" => op'[q][g] = op[q][g]
  <2>1. t \in Steps /\ "RECEIVER" \in Pages /\ "accept" \in Functions
    BY Names
  <2> QED
    BY <1>1, <2>1, Moved
<1>4. /\ Answered => Answered'
      /\ Answered' \/ (t = "refused" /\ UNCHANGED <<status, inbox>>)
      /\ status' \in {"RINGING", "ACCEPTED", "REJECTED", "CANCELLED", "MISSED", "ENDED"}
  BY <1>1 DEF Decide, Answered, StateOK
<1>5. MailOK
  <2>1. CASE UNCHANGED inbox
    BY <2>1, MailKept
  <2>2. CASE Answered' /\ inbox' = Sent(inbox, "CALLER", <<Msg("call-accepted", 0)>>)
    BY <2>2, OneSent, Names DEF Messages
  <2> QED
    BY <1>1, <1>4, <2>1, <2>2
<1>6. StateOK'
  BY <1>2, <1>3, <1>4 DEF StateOK
<1>7. OpsOK'
  <2>1. ~Answered' => ~Answered /\ t = "refused"
    BY <1>4
  <2> QED
    BY <1>2, <1>3, <2>1, Names DEF Roles, AnswerInv, OpsOK
<1>8. DeviceInv'
  <2>1. t # "media"
    BY <1>1
  <2>2. \A q \in Pages :
          /\ op'[q]["accept"] = "media" => op[q]["accept"] = "media"
          /\ op'[q]["offer"] = "media" => op[q]["offer"] = "media"
    BY <1>3, <2>1, Names
  <2> QED
    BY <1>2, <2>2, DevicesKept
<1> QED
  BY <1>4, <1>5, <1>6, <1>7, <1>8, Combined DEF StepOK

LEMMA AcceptDoneStep == ASSUME PageInv, AcceptDone PROVE PageInv'
<1> USE DEF PageInv, TypeInv
<1>1. MailOK
  BY MailKept DEF AcceptDone
<1>2. /\ op' \in [Pages -> [Functions -> Steps]]
      /\ op'["RECEIVER"]["accept"] = ""
      /\ \A q \in Pages, g \in Functions : q # "RECEIVER" \/ g # "accept" => op'[q][g] = op[q][g]
  BY Moved, Names DEF AcceptDone
<1>3. PICK s \in {"in-call", "error"} :
        /\ screen' = [screen EXCEPT !["RECEIVER"] = s]
        /\ s = "in-call" => Answered
  BY DEF AcceptDone, Shows, At, AnswerInv
<1>4. StateOK'
  BY <1>2, <1>3 DEF AcceptDone, StateOK, Screens, Terminal
<1>5. OpsOK' /\ (Answered => Answered')
  BY <1>2, <1>3, Names DEF AcceptDone, Roles, AnswerInv, OpsOK, Answered, StateOK
<1>6. DeviceInv'
  BY <1>2, <1>3, Names DEF AcceptDone, DeviceInv, Silent, StateOK
<1> QED
  BY <1>1, <1>4, <1>5, <1>6, Combined DEF StepOK

(* Steps that leave the screens, the devices and the connections alone and *)
(* move a function that the invariant does not speak of.                   *)
LEMMA PlainStep ==
    ASSUME PageInv, NEW p \in Pages, NEW f \in Functions, NEW t \in Steps,
           UNCHANGED op \/ Goes(p, f, t),
           f \notin {"answered", "offer", "accept", "restart"}
             \/ (f = "accept" /\ t = "refused" /\ p = "RECEIVER"),
           MailOK, Answered => Answered', status' \in {"RINGING", "ACCEPTED", "REJECTED", "CANCELLED", "MISSED", "ENDED"},
           asked' \in [Pages -> BOOLEAN], online' \in [Pages -> BOOLEAN],
           UNCHANGED <<screen, rtc>>
    PROVE  PageInv'
<1> USE DEF PageInv, TypeInv
<1>1. /\ op' \in [Pages -> [Functions -> Steps]]
      /\ \A q \in Pages, g \in Functions : q # p \/ g # f => op'[q][g] = op[q][g]
      /\ UNCHANGED op \/ op'[p][f] = t
  <2>1. CASE UNCHANGED op
    BY <2>1 DEF StateOK
  <2>2. CASE Goes(p, f, t)
    BY <2>2, Moved
  <2> QED
    BY <2>1, <2>2
<1>2. StateOK'
  BY <1>1 DEF StateOK
<1>3. ~Answered' => ~Answered
  OBVIOUS
<1>4. OpsOK'
  BY <1>1, <1>3, Names DEF Roles, AnswerInv, OpsOK
<1>5. DeviceInv'
  <2>1. \A q \in Pages :
          /\ op'[q]["accept"] = "media" => op[q]["accept"] = "media"
          /\ op'[q]["offer"] = "media" => op[q]["offer"] = "media"
    BY <1>1, Names
  <2> QED
    BY <2>1, DevicesKept
<1> QED
  BY <1>2, <1>4, <1>5, Combined DEF StepOK

LEMMA RejectStep == ASSUME PageInv, Reject \/ RejectPosted PROVE PageInv'
<1>1. PICK t \in {"post", "reply"} : Goes("RECEIVER", "reject", t)
  BY DEF Reject, RejectPosted
<1>2. t \in Steps /\ "RECEIVER" \in Pages /\ "CALLER" \in Pages /\ "reject" \in Functions
  BY <1>1, Names
<1>3. /\ Answered => Answered'
      /\ status' \in {"RINGING", "ACCEPTED", "REJECTED", "CANCELLED", "MISSED", "ENDED"}
  BY DEF Reject, RejectPosted, Decide, Answered, PageInv, TypeInv, StateOK
<1>4. MailOK
  <2>1. CASE UNCHANGED inbox
    BY <2>1, MailKept DEF PageInv
  <2>2. CASE inbox' = Sent(inbox, "CALLER", <<Msg("call-rejected", 0)>>)
    BY <1>2, <2>2, OneSent DEF PageInv, Messages
  <2> QED
    BY <2>1, <2>2 DEF Reject, RejectPosted
<1>5. UNCHANGED <<asked, online, screen, rtc>>
  BY DEF Reject, RejectPosted
<1>6. asked' \in [Pages -> BOOLEAN] /\ online' \in [Pages -> BOOLEAN]
  BY <1>5 DEF PageInv, TypeInv, StateOK
<1> QED
  BY <1>1, <1>2, <1>3, <1>4, <1>5, <1>6, PlainStep

LEMMA RejectDoneStep == ASSUME PageInv, RejectDone PROVE PageInv'
<1> USE DEF PageInv, TypeInv
<1>1. MailOK
  BY MailKept DEF RejectDone
<1>2. /\ op' \in [Pages -> [Functions -> Steps]]
      /\ \A q \in Pages, g \in Functions : q # "RECEIVER" \/ g # "reject" => op'[q][g] = op[q][g]
  BY Moved, Names DEF RejectDone
<1>3. StateOK'
  BY <1>2 DEF RejectDone, Shows, StateOK, Screens, Terminal
<1>4. OpsOK' /\ (Answered => Answered')
  BY <1>2, Names DEF RejectDone, Shows, Roles, AnswerInv, OpsOK, Answered, StateOK
<1>5. DeviceInv'
  BY <1>2, Names DEF RejectDone, Shows, DeviceInv, Silent, StateOK
<1> QED
  BY <1>1, <1>3, <1>4, <1>5, Combined DEF StepOK

LEMMA LoseStep == ASSUME PageInv, NEW p \in Pages, NEW f \in Functions, Lose(p, f) PROVE PageInv'
<1>1. PICK t \in {"refused", "reply"} :
        Goes(p, f, t) /\ f \in {"accept", "reject", "cancel", "end"}
          /\ (f = "accept" => t = "refused" /\ op[p][f] # "")
  BY Names DEF Lose
<1>2. f = "accept" => p = "RECEIVER"
  BY <1>1, Names DEF PageInv, Roles
<1>3. t \in Steps
  BY <1>1, Names
<1>4. MailOK
  BY MailKept DEF Lose, PageInv
<1>5. /\ UNCHANGED <<asked, status, online, screen, rtc>>
      /\ Answered => Answered'
      /\ status' \in {"RINGING", "ACCEPTED", "REJECTED", "CANCELLED", "MISSED", "ENDED"}
      /\ asked' \in [Pages -> BOOLEAN] /\ online' \in [Pages -> BOOLEAN]
  BY DEF Lose, Answered, PageInv, TypeInv, StateOK
<1> QED
  BY <1>1, <1>2, <1>3, <1>4, <1>5, PlainStep

LEMMA MissStep == ASSUME PageInv, Miss PROVE PageInv'
<1> USE DEF PageInv, TypeInv
<1> DEFINE m == <<Msg("call-missed", 0)>>
<1>1. m \in Seq(MessageSet) /\ ~Among(m, "offer") /\ ~Among(m, "call-accepted")
  <2>1. "call-missed" \in Messages
    BY DEF Messages, Ignores
  <2> QED
    BY <2>1, MsgType DEF Among, Msg
<1>2. inbox' = Sent(Sent(inbox, "CALLER", m), "RECEIVER", m)
  BY DEF Miss
<1>3. MailOK
  <2> HIDE DEF m
  <2> DEFINE at(q) == IF online[q] THEN inbox[q] \o m ELSE inbox[q]
  <2>1. \A q \in Pages : inbox'[q] = at(q)
    BY <1>2, Names DEF Sent, InboxOK
  <2>2. DOMAIN inbox' = Pages /\ inbox' = [q \in Pages |-> inbox'[q]]
    BY <1>2 DEF Sent, InboxOK
  <2>3. \A q \in Pages : at(q) \in Seq(MessageSet)
    BY <1>1 DEF InboxOK
  <2>4. InboxOK'
    BY <2>1, <2>2, <2>3 DEF InboxOK
  <2>5. ASSUME NEW q \in Pages, NEW kind \in {"offer", "call-accepted"}, Carries(q, kind)'
        PROVE  Carries(q, kind)
    <3>1. inbox[q] \in Seq(MessageSet)
      BY DEF InboxOK
    <3>2. \A i \in DOMAIN (inbox[q] \o m) :
            \/ i \in DOMAIN inbox[q] /\ (inbox[q] \o m)[i] = inbox[q][i]
            \/ i - Len(inbox[q]) \in DOMAIN m
               /\ (inbox[q] \o m)[i] = m[i - Len(inbox[q])]
      BY <1>1, <3>1
    <3>3. ~Among(m, kind)
      BY <1>1
    <3> QED
      BY <2>1, <2>5, <3>2, <3>3 DEF Carries, Among
  <2> QED
    BY <2>4, <2>5 DEF MailOK
<1>4. /\ UNCHANGED <<asked, online, screen, rtc, op>>
      /\ Answered => Answered'
      /\ status' \in {"RINGING", "ACCEPTED", "REJECTED", "CANCELLED", "MISSED", "ENDED"}
  BY DEF Miss, Decide, Answered, StateOK
<1>5. asked' \in [Pages -> BOOLEAN] /\ online' \in [Pages -> BOOLEAN]
  BY <1>4 DEF StateOK
<1>6. "CALLER" \in Pages /\ "end" \in Functions /\ "" \in Steps
  BY Names
<1> QED
  BY <1>3, <1>4, <1>5, <1>6, PlainStep

(* Negotiation and ICE: connections change, but stay open or closed.       *)
Settles ==
    /\ pc' \in [Pages -> Peers] /\ \A q \in Pages : pc'[q].open = pc[q].open
    /\ pending' \in [Pages -> SUBSET Nat] /\ told' \in [Pages -> Nat]
    /\ issue' \in [Pages -> BOOLEAN] /\ watch' \in [Pages -> BOOLEAN]
    /\ due' \in [Pages -> BOOLEAN]
    /\ UNCHANGED <<asked, status, online, screen, media>>

LEMMA SettlesStep ==
    ASSUME PageInv, NEW p \in Pages, NEW f \in Functions, NEW t \in Steps,
           UNCHANGED op \/ Goes(p, f, t), MailOK, Settles,
           \/ f \notin {"answered", "accept", "offer", "restart"}
           \/ f = "restart" /\ p = "CALLER"
           \/ /\ f = "offer" /\ p = "RECEIVER"
              /\ t = "media" => pc[p].open
    PROVE  PageInv'
<1> USE DEF PageInv, TypeInv, Settles
<1>1. /\ op' \in [Pages -> [Functions -> Steps]]
      /\ \A q \in Pages, g \in Functions : q # p \/ g # f => op'[q][g] = op[q][g]
      /\ UNCHANGED op \/ op'[p][f] = t
  <2>1. CASE UNCHANGED op
    BY <2>1 DEF StateOK
  <2>2. CASE Goes(p, f, t)
    BY <2>2, Moved
  <2> QED
    BY <2>1, <2>2
<1>2. StateOK'
  BY <1>1 DEF StateOK
<1>3. OpsOK' /\ (Answered => Answered')
  BY <1>1, Names DEF Roles, AnswerInv, OpsOK, Answered
<1>4. DeviceInv'
  <2>1. \A q \in Pages :
          /\ op'[q]["accept"] = "media" => op[q]["accept"] = "media"
          /\ op'[q]["offer"] = "media" =>
                op[q]["offer"] = "media" \/ (q = "RECEIVER" /\ pc[q].open)
    BY <1>1, Names
  <2> QED
    BY <2>1 DEF DeviceInv, Silent
<1> QED
  BY <1>2, <1>3, <1>4, Combined DEF StepOK

LEMMA PeerChanges ==
    ASSUME NEW a \in Peers, NEW n \in Nat, NEW c \in SUBSET Nat,
           NEW s \in {"new", "connected", "disconnected", "failed"}
    PROVE  /\ [a EXCEPT !.cands = c] \in Peers /\ [a EXCEPT !.cands = c].open = a.open
           /\ [a EXCEPT !.ice = s] \in Peers /\ [a EXCEPT !.ice = s].open = a.open
           /\ [a EXCEPT !.loc = n] \in Peers /\ [a EXCEPT !.loc = n].open = a.open
<1>1. [a EXCEPT !.cands = c] \in Peers /\ [a EXCEPT !.cands = c].open = a.open
  BY DEF Peers
<1>2. [a EXCEPT !.ice = s] \in Peers /\ [a EXCEPT !.ice = s].open = a.open
  BY DEF Peers
<1>3. [a EXCEPT !.loc = n] \in Peers /\ [a EXCEPT !.loc = n].open = a.open
  BY DEF Peers
<1> QED
  BY <1>1, <1>2, <1>3

LEMMA PeerReplaced ==
    ASSUME StateOK, NEW p \in Pages, NEW a \in Peers, a.open = pc[p].open,
           pc' = [pc EXCEPT ![p] = a]
    PROVE  pc' \in [Pages -> Peers] /\ \A q \in Pages : pc'[q].open = pc[q].open
  BY DEF StateOK

LEMMA RemoteType ==
    ASSUME StateOK, NEW p \in Pages, NEW n \in Nat
    PROVE  /\ Remote(p, n) \in Peers /\ Remote(p, n).open = pc[p].open
           /\ [Remote(p, n) EXCEPT !.offered = FALSE] \in Peers
           /\ [Remote(p, n) EXCEPT !.offered = FALSE].open = pc[p].open
  BY DEF StateOK, Peers, Remote

LEMMA OnCandidateStep == ASSUME PageInv, NEW p \in Pages, OnCandidate(p) PROVE PageInv'
<1> USE DEF PageInv, TypeInv
<1>1. MailOK /\ Head(inbox[p]).n \in Nat
  BY GotHead DEF OnCandidate
<1>2. UNCHANGED <<asked, status, online, screen, media, trouble, told, op>>
  BY DEF OnCandidate
<1>3. /\ pc' \in [Pages -> Peers] /\ \A q \in Pages : pc'[q].open = pc[q].open
      /\ pending' \in [Pages -> SUBSET Nat]
  <2> DEFINE n == Head(inbox[p]).n
  <2> HIDE DEF n
  <2>1. CASE ~pc[p].open
    BY <2>1 DEF OnCandidate, StateOK
  <2>2. CASE pc[p].open /\ pc[p].rem = 0
    <3>1. /\ pending' = [pending EXCEPT ![p] = @ \cup {n}]
          /\ UNCHANGED pc
      BY <2>2 DEF OnCandidate, AddCandidate, n
    <3> QED
      BY <1>1, <3>1 DEF StateOK, n
  <2>3. CASE pc[p].open /\ pc[p].rem # 0
    <3>1. PICK c \in SUBSET Nat : pc' = [pc EXCEPT ![p] = [pc[p] EXCEPT !.cands = c]]
      <4> DEFINE c == IF n \in {pc[p].rem} \cup Applied(p) THEN pc[p].cands \cup {n}
                      ELSE pc[p].cands
      <4>1. c \in SUBSET Nat
        BY <1>1, PeerParts DEF StateOK, n
      <4>2. pc' = [pc EXCEPT ![p] = [pc[p] EXCEPT !.cands = c]]
        BY <2>3 DEF OnCandidate, AddCandidate, n
      <4> QED
        BY <4>1, <4>2
    <3>2. [pc[p] EXCEPT !.cands = c] \in Peers /\ [pc[p] EXCEPT !.cands = c].open = pc[p].open
      <4>1. pc[p] \in Peers /\ "new" \in {"new", "connected", "disconnected", "failed"}
        BY DEF StateOK
      <4> QED
        BY <3>1, <4>1, PeerChanges
    <3>3. UNCHANGED pending
      BY <2>3 DEF OnCandidate, AddCandidate
    <3> QED
      BY <3>1, <3>2, <3>3, PeerReplaced DEF StateOK
  <2> QED
    BY <2>1, <2>2, <2>3
<1>4. Settles
  BY <1>2, <1>3 DEF Settles, StateOK
<1>5. "end" \in Functions /\ "" \in Steps
  BY Names
<1> QED
  BY <1>1, <1>2, <1>4, <1>5, SettlesStep

LEMMA OnOfferStep == ASSUME PageInv, NEW p \in Pages, OnOffer(p) PROVE PageInv'
<1> USE DEF PageInv, TypeInv
<1>1. MailOK /\ Head(inbox[p]).n \in Nat /\ Carries(p, "offer")
  BY GotHead DEF OnOffer
<1>2. p = "RECEIVER" /\ "offer" \in Functions
  BY <1>1, Names DEF Roles
<1>3. Settles
  BY <1>1 DEF OnOffer, Settles, StateOK
<1>4. PICK t \in {"remote", "media"} : (UNCHANGED op \/ (Goes(p, "offer", t) /\ pc[p].open))
  BY DEF OnOffer
<1>5. t \in Steps
  BY <1>4, Names
<1>6. CASE UNCHANGED op
  <2>1. "remote" \in Steps
    BY Names
  <2> QED
    BY <1>1, <1>2, <1>3, <1>6, <2>1, SettlesStep
<1>7. CASE Goes(p, "offer", t) /\ pc[p].open
  BY <1>1, <1>2, <1>3, <1>5, <1>7, SettlesStep
<1> QED
  BY <1>4, <1>6, <1>7

LEMMA OfferRemoteStep == ASSUME PageInv, NEW p \in Pages, OfferRemote(p) PROVE PageInv'
<1> USE DEF PageInv, TypeInv
<1>1. MailOK
  BY MailKept DEF OfferRemote
<1>2. "offer" \in Functions /\ {"local", "", "remote"} \subseteq Steps
  BY Names
<1>3. p = "RECEIVER"
  BY Names DEF OfferRemote, At, Roles
<1>4. PICK t \in {"local", ""} : Goes(p, "offer", t)
  BY DEF OfferRemote
<1>5. told[p] \in Nat
  BY DEF StateOK
<1>6. Settles
  <2>1. CASE pc[p].open
    BY <1>5, <2>1, RemoteType, PeerReplaced DEF OfferRemote, Settles, StateOK
  <2>2. CASE ~pc[p].open
    <3>1. UNCHANGED <<pc, pending>> /\ told' = [told EXCEPT ![p] = 0]
      BY <2>2 DEF OfferRemote, Forgets
    <3>2. UNCHANGED <<asked, status, online, screen, media, trouble>>
      BY DEF OfferRemote
    <3> QED
      BY <3>1, <3>2 DEF Settles, StateOK
  <2> QED
    BY <2>1, <2>2
<1>7. t \in Steps /\ t # "media"
  BY <1>2, <1>4
<1> QED
  BY <1>1, <1>2, <1>3, <1>4, <1>6, <1>7, SettlesStep

LEMMA OfferAnswerStep == ASSUME PageInv, NEW p \in Pages, OfferAnswer(p) PROVE PageInv'
<1> USE DEF PageInv, TypeInv
<1> DEFINE n == told[p]
<1> DEFINE m == <<Msg("answer", n), Msg("ice-candidate", n)>>
<1> HIDE DEF n
<1>1. n \in Nat /\ pc[p] \in Peers
  BY DEF StateOK, n
<1>2. "offer" \in Functions /\ "" \in Steps
  BY Names
<1>3. p = "RECEIVER"
  BY Names DEF OfferAnswer, At, Roles
<1>4. UNCHANGED <<asked, status, online, screen, pending, media, trouble>>
      /\ told' = [told EXCEPT ![p] = 0] /\ Goes(p, "offer", "")
  BY DEF OfferAnswer, Forgets
<1>5. m \in Seq(MessageSet) /\ ~Among(m, "offer") /\ ~Among(m, "call-accepted")
  <2>1. {"answer", "ice-candidate"} \subseteq Messages
    BY DEF Messages
  <2>2. Msg("answer", n) \in MessageSet /\ Msg("ice-candidate", n) \in MessageSet
    BY <1>1, <2>1, MsgType
  <2> QED
    BY <2>2 DEF Among, Msg
<1>6. CASE pc[p].open
  <2>1. inbox' = Relayed(inbox, p, m) /\ pc' = [pc EXCEPT ![p] = [pc[p] EXCEPT !.loc = n]]
    BY <1>6 DEF OfferAnswer, n
  <2>2. MailOK
    <3> HIDE DEF m
    <3> QED
      BY <1>5, <2>1, MailRelayed
  <2>3. [pc[p] EXCEPT !.loc = n] \in Peers /\ [pc[p] EXCEPT !.loc = n].open = pc[p].open
    BY <1>1 DEF Peers
  <2>4. Settles
    BY <1>4, <2>1, <2>3, PeerReplaced DEF Settles, StateOK
  <2> QED
    BY <1>2, <1>3, <1>4, <2>2, <2>4, SettlesStep
<1>7. CASE ~pc[p].open
  <2>1. UNCHANGED <<pc, inbox>>
    BY <1>7 DEF OfferAnswer
  <2>2. Settles
    BY <1>4, <2>1 DEF Settles, StateOK
  <2> QED
    BY <1>2, <1>3, <1>4, <2>1, <2>2, MailKept, SettlesStep
<1> QED
  BY <1>6, <1>7

LEMMA OnAnswerStep == ASSUME PageInv, NEW p \in Pages, OnAnswer(p) PROVE PageInv'
<1> USE DEF PageInv, TypeInv
<1>1. MailOK /\ Head(inbox[p]).n \in Nat
  BY GotHead DEF OnAnswer
<1>2. Settles
  BY <1>1 DEF OnAnswer, Settles, StateOK
<1>3. UNCHANGED op \/ Goes(p, "answer", "remote")
  BY DEF OnAnswer
<1>4. "answer" \in Functions /\ "remote" \in Steps
  BY Names
<1> QED
  BY <1>1, <1>2, <1>3, <1>4, SettlesStep

LEMMA AnswerRemoteStep == ASSUME PageInv, NEW p \in Pages, AnswerRemote(p) PROVE PageInv'
<1> USE DEF PageInv, TypeInv
<1>1. MailOK
  BY MailKept DEF AnswerRemote
<1>2. "answer" \in Functions /\ "" \in Steps
  BY Names
<1>3. Goes(p, "answer", "") /\ told' = [told EXCEPT ![p] = 0]
      /\ UNCHANGED <<asked, status, online, screen, media, trouble>>
  BY DEF AnswerRemote, Forgets
<1>4. Settles
  <2>1. told[p] \in Nat
    BY DEF StateOK
  <2>2. CASE UNCHANGED <<pc, pending>>
    BY <1>3, <2>2 DEF Settles, StateOK
  <2>3. CASE /\ pc' = [pc EXCEPT ![p] = [Remote(p, told[p]) EXCEPT !.offered = FALSE]]
             /\ pending' = [pending EXCEPT ![p] = {}]
    BY <1>3, <2>1, <2>3, RemoteType, PeerReplaced DEF Settles, StateOK
  <2> QED
    BY <2>2, <2>3 DEF AnswerRemote
<1> QED
  BY <1>1, <1>2, <1>3, <1>4, SettlesStep

LEMMA IceStep == ASSUME PageInv, NEW p \in Pages, IceConnect(p) \/ IceDrop(p) PROVE PageInv'
<1> USE DEF PageInv, TypeInv
<1>1. MailOK /\ UNCHANGED <<asked, status, online, screen, pending, media, told, op>>
  BY MailKept DEF IceConnect, IceDrop
<1>2. PICK s \in {"new", "connected", "disconnected", "failed"} :
        pc' = [pc EXCEPT ![p] = [pc[p] EXCEPT !.ice = s]]
  BY DEF IceConnect, IceDrop
<1>3. pc' \in [Pages -> Peers] /\ \A q \in Pages : pc'[q].open = pc[q].open
  <2>1. pc[p] \in Peers
    BY DEF StateOK
  <2> QED
    BY <1>2, <2>1, PeerChanges, PeerReplaced
<1>4. /\ issue' \in [Pages -> BOOLEAN] /\ watch' \in [Pages -> BOOLEAN]
      /\ due' \in [Pages -> BOOLEAN]
  BY DEF IceConnect, IceDrop, Troubled, StateOK
<1>5. Settles
  BY <1>1, <1>3, <1>4 DEF Settles, StateOK
<1>6. "end" \in Functions /\ "" \in Steps
  BY Names
<1> QED
  BY <1>1, <1>5, <1>6, SettlesStep

LEMMA RestartTimerStep == ASSUME PageInv, NEW p \in Pages, RestartTimer(p) PROVE PageInv'
<1> USE DEF PageInv, TypeInv
<1>1. MailOK
  BY MailKept DEF RestartTimer
<1>2. Settles
  BY DEF RestartTimer, Settles, StateOK
<1>3. UNCHANGED op \/ (Goes(p, "restart", "offer") /\ p = "CALLER")
  BY DEF RestartTimer
<1>4. "restart" \in Functions /\ "end" \in Functions /\ "offer" \in Steps
  BY Names
<1> QED
  BY <1>1, <1>2, <1>3, <1>4, SettlesStep

LEMMA RestartStep == ASSUME PageInv, NEW p \in Pages, Restart(p) PROVE PageInv'
<1> USE DEF PageInv, TypeInv
<1>1. p = "CALLER" /\ "restart" \in Functions /\ "" \in Steps
  BY Names DEF Restart, At, Roles
<1>2. Goes(p, "restart", "")
      /\ UNCHANGED <<asked, status, online, screen, pending, media, trouble, told>>
  BY DEF Restart
<1>3. MailOK /\ pc' \in [Pages -> Peers] /\ \A q \in Pages : pc'[q].open = pc[q].open
  <2>1. CASE pc[p].open
    BY <1>1, <2>1, OffersStep DEF Restart
  <2>2. CASE ~pc[p].open
    BY <2>2, MailKept DEF Restart, StateOK
  <2> QED
    BY <2>1, <2>2
<1>4. Settles
  BY <1>2, <1>3 DEF Settles, StateOK
<1> QED
  BY <1>1, <1>2, <1>3, <1>4, SettlesStep

LEMMA WatchdogStep == ASSUME PageInv, NEW p \in Pages, Watchdog(p) PROVE PageInv'
<1> USE DEF PageInv, TypeInv
<1>1. MailOK /\ UNCHANGED <<asked, status, online, pc, pending, media, due, told, op>>
  BY MailKept DEF Watchdog
<1>2. /\ screen' \in [Pages -> Screens]
      /\ \A q \in Pages : screen'[q] = screen[q] \/ screen'[q] = "connection-failed"
  BY DEF Watchdog, Shows, StateOK, Screens, Terminal
<1>3. StateOK'
  BY <1>1, <1>2 DEF Watchdog, StateOK
<1>4. OpsOK' /\ (Answered => Answered') /\ DeviceInv'
  BY <1>1, <1>2 DEF Roles, AnswerInv, OpsOK, Answered, DeviceInv, Silent
<1> QED
  BY <1>1, <1>3, <1>4, Combined DEF StepOK

LEMMA HangUpStep == ASSUME PageInv, NEW p \in Pages, HangUp(p) \/ EndPosted(p) PROVE PageInv'
<1>1. PICK t \in {"post", "reply"} : Goes(p, "end", t)
  BY DEF HangUp, EndPosted
<1>2. t \in Steps /\ "end" \in Functions
  BY <1>1, Names
<1>3. /\ Answered => Answered'
      /\ status' \in {"RINGING", "ACCEPTED", "REJECTED", "CANCELLED", "MISSED", "ENDED"}
      /\ asked' \in [Pages -> BOOLEAN] /\ online' \in [Pages -> BOOLEAN]
      /\ UNCHANGED <<screen, rtc>>
  BY DEF HangUp, EndPosted, Answered, PageInv, TypeInv, StateOK
<1>4. MailOK
  <2>1. CASE UNCHANGED inbox
    BY <2>1, MailKept DEF PageInv
  <2>2. CASE inbox' = Relayed(inbox, p, <<Msg("call-ended", 0)>>)
    BY <2>2, OneRelayed DEF PageInv, Messages, Ignores
  <2> QED
    BY <2>1, <2>2 DEF HangUp, EndPosted
<1> QED
  BY <1>1, <1>2, <1>3, <1>4, PlainStep

LEMMA PageExitStep == ASSUME PageInv, NEW p \in Pages, PageExit(p) PROVE PageInv'
<1> USE DEF PageInv, TypeInv
<1>1. MailOK
  BY MailCleared DEF PageExit
<1>2. StateOK'
  <2>1. op' = [op EXCEPT ![p] = [f \in Functions |-> ""]] /\ "" \in Steps
    BY Names DEF PageExit
  <2>2. op' \in [Pages -> [Functions -> Steps]]
    BY <2>1 DEF StateOK
  <2>3. "closed" \in Screens
    BY DEF Screens
  <2> QED
    BY <2>2, <2>3, PeerTypes DEF PageExit, Shows, Forgets, StateOK
<1>3. /\ screen' = [screen EXCEPT ![p] = "closed"]
      /\ \A q \in Pages, f \in Functions : op'[q][f] = op[q][f] \/ op'[q][f] = ""
      /\ \A q \in Pages : q # p => pc'[q] = pc[q] /\ stream'[q] = stream[q] /\ late'[q] = late[q]
      /\ Answered => Answered'
  BY DEF PageExit, Shows, Answered, StateOK
<1>4. OpsOK'
  <2>1. ~Answered' => ~Answered
    BY <1>3
  <2>2. \A q \in Pages : screen'[q] = screen[q] \/ screen'[q] = "closed"
    BY <1>3 DEF StateOK
  <2>3. /\ {"CALLER", "RECEIVER"} \subseteq Pages
        /\ {"answered", "accept", "offer", "restart"} \subseteq Functions
    BY Names
  <2>4. /\ op'["CALLER"]["offer"] \in {op["CALLER"]["offer"], ""}
        /\ op'["CALLER"]["accept"] \in {op["CALLER"]["accept"], ""}
        /\ op'["CALLER"]["answered"] \in {op["CALLER"]["answered"], ""}
        /\ op'["RECEIVER"]["answered"] \in {op["RECEIVER"]["answered"], ""}
        /\ op'["RECEIVER"]["restart"] \in {op["RECEIVER"]["restart"], ""}
        /\ op'["RECEIVER"]["accept"] \in {op["RECEIVER"]["accept"], ""}
    BY <1>3, <2>3
  <2>5. /\ op'["CALLER"]["offer"] = "" /\ op'["CALLER"]["accept"] = ""
        /\ op'["RECEIVER"]["answered"] = "" /\ op'["RECEIVER"]["restart"] = ""
    BY <2>4 DEF Roles
  <2>6. ASSUME ~Answered'
        PROVE  /\ op'["CALLER"]["answered"] = "" /\ op'["RECEIVER"]["accept"] # "reply"
               /\ \A q \in Pages : screen'[q] # "in-call"
    BY <2>1, <2>2, <2>4, <2>6 DEF AnswerInv
  <2> QED
    BY <2>5, <2>6 DEF OpsOK
<1>5. DeviceInv'
  <2>1. screen'[p] = "closed" /\ \A q \in Pages : q # p => screen'[q] = screen[q]
    BY <1>3 DEF StateOK
  <2>2. \A q \in Pages :
          /\ op'[q]["accept"] \in {op[q]["accept"], ""}
          /\ op'[q]["offer"] \in {op[q]["offer"], ""}
    BY <1>3, Names
  <2>3. ASSUME NEW q \in Pages, screen'[q] \in {"ended", "cancelled", "missed"}, ~late'[q]
        PROVE  Silent(q)'
    <3>1. q # p
      BY <2>1, <2>3
    <3>2. Silent(q)
      BY <1>3, <2>1, <2>3, <3>1 DEF DeviceInv
    <3> QED
      BY <1>3, <2>2, <3>1, <3>2 DEF Silent
  <2> QED
    BY <2>3 DEF DeviceInv
<1> QED
  BY <1>1, <1>2, <1>3, <1>4, <1>5, Combined DEF StepOK

----------------------------------------------------------------------------
(* The invariant, and the theorems.                                        *)
LEMMA InitPageInv == ASSUME Init PROVE PageInv
<1>1. StateOK
  BY PeerTypes DEF Init, StateOK, Screens, Steps
<1>2. InboxOK /\ \A p \in Pages : inbox[p] = <<>>
  <2>1. <<>> \in Seq(MessageSet)
    OBVIOUS
  <2> QED
    BY <2>1 DEF Init, InboxOK
<1>3. ASSUME NEW p \in Pages, NEW kind PROVE ~Carries(p, kind)
  <2>1. DOMAIN <<>> = {}
    OBVIOUS
  <2> QED
    BY <1>2, <2>1 DEF Carries, Among
<1>4. Roles /\ AnswerInv
  BY <1>3, Names DEF Init, Roles, AnswerInv
<1>5. DeviceInv
  BY DEF Init, DeviceInv
<1> QED
  BY <1>1, <1>2, <1>4, <1>5 DEF PageInv, TypeInv

LEMMA NextPageInv == ASSUME PageInv, [Next]_vars PROVE PageInv'
<1>1. CASE UNCHANGED vars
  BY <1>1 DEF vars, PageInv, TypeInv, StateOK, InboxOK, Roles, AnswerInv, DeviceInv, Silent,
       Carries, Answered
<1>2. ASSUME NEW p \in Pages, Handler(p) PROVE PageInv'
  <2>1. ASSUME NEW e \in DOMAIN Ignores, OnOver(p, e) PROVE PageInv'
    BY <2>1, OnOverStep
  <2> QED
    BY <1>2, <2>1, AuthenticateStep, ScreenSteps, OnAcceptedStep, AnsweredMediaStep,
       AnsweredOfferStep, OnOfferStep, PromptSteps, OfferRemoteStep, OfferAnswerStep,
       OnAnswerStep, AnswerRemoteStep, OnCandidateStep, RestartTimerStep, RestartStep,
       WatchdogStep, HangUpStep, DoneSteps DEF Handler
<1>3. CASE Request
  BY <1>3, CancelStep, DoneSteps, PromptSteps, AcceptPostedStep, AcceptDoneStep, RejectStep,
     RejectDoneStep, Names DEF Request
<1>4. CASE StartCallFlow \/ Cancel \/ Accept \/ Reject \/ Miss
  BY <1>4, StartCallFlowStep, CancelStep, AcceptStep, RejectStep, MissStep
<1>5. ASSUME NEW p \in Pages, User(p) \/ Blip(p) \/ IceConnect(p) \/ IceDrop(p) PROVE PageInv'
  BY <1>5, HangUpStep, PageExitStep, BlipStep, IceStep DEF User
<1>6. ASSUME NEW p \in Pages, NEW f \in Functions, Lose(p, f) PROVE PageInv'
  BY <1>6, LoseStep
<1> QED
  BY <1>1, <1>2, <1>3, <1>4, <1>5, <1>6 DEF Next

LEMMA PageInvHolds == Spec => []PageInv
  BY InitPageInv, NextPageInv, PTL DEF Spec

(* The state of both pages keeps its declared shape, however often sockets *)
(* and requests are lost, pages closed and prompts refused.                *)
THEOREM PageTypeCorrect == Spec => []TypeOK
<1>1. PageInv => TypeOK
  <2> SUFFICES ASSUME PageInv PROVE TypeOK
    OBVIOUS
  <2>1. StateOK /\ InboxOK
    BY DEF PageInv, TypeInv
  <2>2. \A p \in Pages : \A i \in DOMAIN inbox[p] : inbox[p][i] \in [kind : Messages, n : Nat]
    <3> SUFFICES ASSUME NEW p \in Pages, NEW i \in DOMAIN inbox[p]
                 PROVE  inbox[p][i] \in MessageSet
      BY DEF MessageSet
    <3>1. inbox[p] \in Seq(MessageSet)
      BY <2>1 DEF InboxOK
    <3> QED
      BY <3>1
  <2>3. {online, stream, late, issue, watch, due, asked} \subseteq [Pages -> BOOLEAN]
    BY <2>1 DEF StateOK
  <2> QED
    BY <2>1, <2>2, <2>3 DEF StateOK, TypeOK
<1> QED
  BY <1>1, PageInvHolds, PTL

(* The call screen is only shown for a call that was accepted, whatever is *)
(* lost and in whatever order prompts, replies and messages come.          *)
THEOREM OnlyAnsweredCallsAreShown == Spec => []InCallWasAccepted
<1>1. PageInv => InCallWasAccepted
  BY DEF PageInv, AnswerInv, InCallWasAccepted, Answered
<1> QED
  BY <1>1, PageInvHolds, PTL

(* A page that says the call is over has released its devices, unless a    *)
(* prompt was open when it cleaned up.                                     *)
THEOREM DevicesComeFree == Spec => []DevicesAreReleased
<1>1. PageInv => DevicesAreReleased
  BY DEF PageInv, DeviceInv, Silent, DevicesAreReleased
<1> QED
  BY <1>1, PageInvHolds, PTL
----------------------------------------------------------------------------
(* The first negotiation.  The caller's connection is opened at most once, *)
(* by the only call-accepted there is, and until its handler has offered,  *)
(* nothing of a negotiation exists (UnusedInv).  So the first offer comes  *)
(* before every other, with its candidate behind it, and finds a receiver  *)
(* that has no description and applies none.  From then on the candidate   *)
(* is under way, in the queue or with the connection (KeptInv), until a    *)
(* socket is lost.                                                         *)
One(kind) == Msg(kind, 1)
Has(msgs, m) == \E i \in DOMAIN msgs : msgs[i] = m

(* Behind the first offer or answer comes its candidate.                   *)
Paired(msgs) ==
    \A i \in DOMAIN msgs : msgs[i] \in {One("offer"), One("answer")} =>
        i + 1 \in DOMAIN msgs /\ msgs[i + 1] = One("ice-candidate")
(* No offer comes before the first, which comes once.                      *)
FirstLeads(msgs) ==
    \A i, j \in DOMAIN msgs : msgs[i] = One("offer") /\ msgs[j].kind = "offer" => i <= j
OneAccepted(msgs) ==
    \A i, j \in DOMAIN msgs :
        msgs[i].kind = "call-accepted" /\ msgs[j].kind = "call-accepted" => i = j

(* The call-accepted is not here yet; its handler has not offered yet.     *)
Unanswered == status = "RINGING" \/ Carries("CALLER", "call-accepted")
Before == Unanswered \/ op["CALLER"]["answered"] # ""

OnceInv ==
    /\ faults \in [Kinds -> Nat]
    /\ OneAccepted(inbox["CALLER"])
    /\ op["CALLER"]["answered"] # "" => ~Carries("CALLER", "call-accepted")
    /\ Unanswered => ~pc["CALLER"].open
    /\ ~Before /\ pc["CALLER"].open => pc["CALLER"].loc # 0
    /\ ~Carries("RECEIVER", "answer") /\ op["RECEIVER"]["answer"] = ""

Unused(p) ==
    /\ ~Carries(p, "offer") /\ ~Carries(p, "answer")
    /\ pc[p].rem = 0 /\ op[p]["offer"] = "" /\ op[p]["answer"] = ""
UnusedInv ==
    Before =>
        /\ \A p \in Pages : Unused(p)
        /\ ~due["CALLER"] /\ op["CALLER"]["restart"] = ""

(* Where the first candidate is.                                           *)
Arrives(p) == Has(inbox[p], One("ice-candidate"))
Waits(p) == Arrives(p) \/ 1 \in pending[p]
Known(p) == Arrives(p) \/ 1 \in pc[p].cands

Offered(p) == Has(inbox[p], One("offer")) => pc[p].rem = 0 /\ op[p]["offer"] = ""
Applying(p) ==
    op[p]["offer"] \in {"media", "remote"} /\ told[p] = 1 /\ pc[p].open =>
        pc[p].rem = 0 /\ ~Has(inbox[p], One("offer")) /\ Waits(p)
Answering(p) ==
    op[p]["answer"] = "remote" /\ told[p] = 1 /\ pc[p].open => Waits(p) \/ Known(p)
Keeping(p) == pc[p].open /\ pc[p].rem = 1 => Known(p)
Kept(p) ==
    /\ Paired(inbox[p]) /\ FirstLeads(inbox[p])
    /\ Offered(p) /\ Applying(p) /\ Answering(p) /\ Keeping(p)
KeptInv == faults["blip"] = 0 => \A p \in Pages : Kept(p)

FirstInv == OnceInv /\ UnusedInv /\ KeptInv

(* Messages from which some were taken, or to which one of no concern to   *)
(* the negotiation was added.                                              *)
Quieter(s, t) ==
    /\ Paired(s) => Paired(t)
    /\ FirstLeads(s) => FirstLeads(t)
    /\ OneAccepted(s) => OneAccepted(t)
    /\ \A kind \in {"offer", "answer", "call-accepted"} : Among(t, kind) => Among(s, kind)
    /\ Has(t, One("offer")) => Has(s, One("offer"))

LEMMA QuietSame == ASSUME NEW s PROVE Quieter(s, s)
BY DEF Quieter

LEMMA QuietNone == ASSUME NEW s PROVE Quieter(s, <<>>)
BY DEF Quieter, Paired, FirstLeads, OneAccepted, Among, Has

(* Taking the first one off.                                               *)
LEMMA TailIs ==
    ASSUME NEW s \in Seq(MessageSet), s # <<>>
    PROVE  /\ Tail(s) \in Seq(MessageSet) /\ 1 \in DOMAIN s /\ Head(s) = s[1]
           /\ \A i \in DOMAIN Tail(s) :
                 i \in Nat \ {0} /\ i + 1 \in DOMAIN s /\ Tail(s)[i] = s[i + 1]
           /\ \A j \in DOMAIN s : j \in Nat \ {0} /\ (j # 1 => j - 1 \in DOMAIN Tail(s))
OBVIOUS

LEMMA QuietTail ==
    ASSUME NEW s \in Seq(MessageSet), s # <<>>
    PROVE  /\ Quieter(s, Tail(s))
           /\ \A m : Has(s, m) /\ m # Head(s) => Has(Tail(s), m)
<1> DEFINE t == Tail(s)
<1>1. /\ 1 \in DOMAIN s /\ Head(s) = s[1]
      /\ \A i \in DOMAIN t : i \in Nat \ {0} /\ i + 1 \in DOMAIN s /\ t[i] = s[i + 1]
      /\ \A j \in DOMAIN s : j \in Nat \ {0} /\ (j # 1 => j - 1 \in DOMAIN t)
  BY TailIs
<1> HIDE DEF t
<1>2. Paired(s) => Paired(t)
  <2> SUFFICES ASSUME Paired(s), NEW i \in DOMAIN t, t[i] \in {One("offer"), One("answer")}
               PROVE  i + 1 \in DOMAIN t /\ t[i + 1] = One("ice-candidate")
    BY DEF Paired
  <2>1. i \in Nat \ {0} /\ i + 1 \in DOMAIN s /\ t[i] = s[i + 1]
    BY <1>1
  <2>2. (i + 1) + 1 \in DOMAIN s /\ s[(i + 1) + 1] = One("ice-candidate")
    BY <2>1 DEF Paired
  <2>3. (i + 1) + 1 # 1 /\ ((i + 1) + 1) - 1 = i + 1
    BY <2>1
  <2>4. i + 1 \in DOMAIN t
    BY <1>1, <2>2, <2>3
  <2> QED
    BY <1>1, <2>2, <2>4
<1>3. FirstLeads(s) => FirstLeads(t)
  <2> SUFFICES ASSUME FirstLeads(s), NEW i \in DOMAIN t, NEW j \in DOMAIN t,
                      t[i] = One("offer"), t[j].kind = "offer"
               PROVE  i <= j
    BY DEF FirstLeads
  <2>1. /\ i \in Nat /\ i + 1 \in DOMAIN s /\ t[i] = s[i + 1]
        /\ j \in Nat /\ j + 1 \in DOMAIN s /\ t[j] = s[j + 1]
    BY <1>1
  <2>2. i + 1 <= j + 1
    BY <2>1 DEF FirstLeads
  <2> QED
    BY <2>1, <2>2
<1>4. OneAccepted(s) => OneAccepted(t)
  <2> SUFFICES ASSUME OneAccepted(s), NEW i \in DOMAIN t, NEW j \in DOMAIN t,
                      t[i].kind = "call-accepted", t[j].kind = "call-accepted"
               PROVE  i = j
    BY DEF OneAccepted
  <2>1. /\ i \in Nat /\ i + 1 \in DOMAIN s /\ t[i] = s[i + 1]
        /\ j \in Nat /\ j + 1 \in DOMAIN s /\ t[j] = s[j + 1]
    BY <1>1
  <2>2. i + 1 = j + 1
    BY <2>1 DEF OneAccepted
  <2> QED
    BY <2>1, <2>2
<1>5. \A kind : Among(t, kind) => Among(s, kind)
  BY <1>1 DEF Among
<1>6. \A m : Has(t, m) => Has(s, m)
  BY <1>1 DEF Has
<1>7. \A m : Has(s, m) /\ m # Head(s) => Has(t, m)
  <2> SUFFICES ASSUME NEW m, NEW j \in DOMAIN s, s[j] = m, m # s[1]
               PROVE  \E i \in DOMAIN t : t[i] = m
    BY <1>1 DEF Has
  <2>1. j - 1 \in DOMAIN t /\ (j - 1) + 1 = j
    BY <1>1
  <2> QED
    BY <1>1, <2>1
<1> QED
  BY <1>2, <1>3, <1>4, <1>5, <1>6, <1>7 DEF Quieter, t

(* Adding one or two.                                                      *)
LEMMA ConcatIs ==
    ASSUME NEW s \in Seq(MessageSet), NEW r \in Seq(MessageSet)
    PROVE  /\ s \o r \in Seq(MessageSet) /\ Len(s) \in Nat
           /\ \A i \in DOMAIN s : i \in 1..Len(s) /\ i \in DOMAIN (s \o r) /\ (s \o r)[i] = s[i]
           /\ \A i \in DOMAIN (s \o r) :
                 \/ i \in DOMAIN s
                 \/ \E k \in DOMAIN r : i = Len(s) + k /\ (s \o r)[i] = r[k]
           /\ \A k \in DOMAIN r : Len(s) + k \in DOMAIN (s \o r) /\ (s \o r)[Len(s) + k] = r[k]
<1>1. s \o r \in Seq(MessageSet) /\ Len(s) \in Nat
  OBVIOUS
<1>2. \A i \in DOMAIN s : i \in 1..Len(s) /\ i \in DOMAIN (s \o r) /\ (s \o r)[i] = s[i]
  OBVIOUS
<1>3. ASSUME NEW i \in DOMAIN (s \o r), i \notin DOMAIN s
      PROVE  \E k \in DOMAIN r : i = Len(s) + k /\ (s \o r)[i] = r[k]
  <2>1. i - Len(s) \in DOMAIN r /\ i = Len(s) + (i - Len(s)) /\ (s \o r)[i] = r[i - Len(s)]
    BY <1>3
  <2> QED
    BY <2>1
<1>4. \A k \in DOMAIN r : Len(s) + k \in DOMAIN (s \o r) /\ (s \o r)[Len(s) + k] = r[k]
  OBVIOUS
<1> QED
  BY <1>1, <1>2, <1>3, <1>4

LEMMA ConcatHas ==
    ASSUME NEW s \in Seq(MessageSet), NEW r \in Seq(MessageSet)
    PROVE  /\ \A m : Has(s \o r, m) <=> Has(s, m) \/ Has(r, m)
           /\ \A kind : Among(s \o r, kind) <=> Among(s, kind) \/ Among(r, kind)
<1> DEFINE t == s \o r
<1>1. /\ \A i \in DOMAIN s : i \in DOMAIN t /\ t[i] = s[i]
      /\ \A i \in DOMAIN t : i \in DOMAIN s \/ \E k \in DOMAIN r : t[i] = r[k]
      /\ \A k \in DOMAIN r : Len(s) + k \in DOMAIN t /\ t[Len(s) + k] = r[k]
  BY ConcatIs
<1> HIDE DEF t
<1>2. \A m : Has(t, m) <=> Has(s, m) \/ Has(r, m)
  BY <1>1 DEF Has
<1>3. \A kind : Among(t, kind) <=> Among(s, kind) \/ Among(r, kind)
  BY <1>1 DEF Among
<1> QED
  BY <1>2, <1>3 DEF t

LEMMA ConcatPaired ==
    ASSUME NEW s \in Seq(MessageSet), NEW r \in Seq(MessageSet), Paired(s), Paired(r)
    PROVE  Paired(s \o r)
<1> DEFINE t == s \o r
<1>1. /\ Len(s) \in Nat
      /\ \A i \in DOMAIN s : i \in DOMAIN t /\ t[i] = s[i]
      /\ \A i \in DOMAIN t : i \in DOMAIN s \/ \E k \in DOMAIN r : i = Len(s) + k /\ t[i] = r[k]
      /\ \A k \in DOMAIN r : Len(s) + k \in DOMAIN t /\ t[Len(s) + k] = r[k]
      /\ DOMAIN r \subseteq Nat
  BY ConcatIs
<1> HIDE DEF t
<1> SUFFICES ASSUME NEW i \in DOMAIN t, t[i] \in {One("offer"), One("answer")}
             PROVE  i + 1 \in DOMAIN t /\ t[i + 1] = One("ice-candidate")
  BY DEF Paired, t
<1>2. CASE i \in DOMAIN s
  BY <1>1, <1>2 DEF Paired
<1>3. CASE \E k \in DOMAIN r : i = Len(s) + k /\ t[i] = r[k]
  <2>1. PICK k \in DOMAIN r : i = Len(s) + k /\ t[i] = r[k]
    BY <1>3
  <2>2. k + 1 \in DOMAIN r /\ r[k + 1] = One("ice-candidate")
    BY <2>1 DEF Paired
  <2>3. i + 1 = Len(s) + (k + 1)
    BY <1>1, <2>1
  <2> QED
    BY <1>1, <2>2, <2>3
<1> QED
  BY <1>1, <1>2, <1>3

LEMMA ConcatLeads ==
    ASSUME NEW s \in Seq(MessageSet), NEW r \in Seq(MessageSet), FirstLeads(s), FirstLeads(r),
           Has(r, One("offer")) => ~Among(s, "offer")
    PROVE  FirstLeads(s \o r)
<1> DEFINE t == s \o r
<1>1. /\ Len(s) \in Nat
      /\ \A i \in DOMAIN s : i \in 1..Len(s) /\ t[i] = s[i]
      /\ \A i \in DOMAIN t : i \in DOMAIN s \/ \E k \in DOMAIN r : i = Len(s) + k /\ t[i] = r[k]
      /\ DOMAIN r \subseteq Nat
  BY ConcatIs
<1> HIDE DEF t
<1> SUFFICES ASSUME NEW i \in DOMAIN t, NEW j \in DOMAIN t,
                    t[i] = One("offer"), t[j].kind = "offer"
             PROVE  i <= j
  BY DEF FirstLeads, t
<1>2. CASE i \in DOMAIN s /\ j \in DOMAIN s
  BY <1>1, <1>2 DEF FirstLeads
<1>3. CASE i \in DOMAIN s /\ j \notin DOMAIN s
  <2>1. PICK k \in DOMAIN r : j = Len(s) + k
    BY <1>1, <1>3
  <2> QED
    BY <1>1, <1>3, <2>1
<1>4. CASE i \notin DOMAIN s
  <2>1. PICK k \in DOMAIN r : i = Len(s) + k /\ t[i] = r[k]
    BY <1>1, <1>4
  <2>2. ~Among(s, "offer")
    BY <2>1 DEF Has
  <2>3. j \notin DOMAIN s
    BY <1>1, <2>2 DEF Among
  <2>4. PICK l \in DOMAIN r : j = Len(s) + l /\ t[j] = r[l]
    BY <1>1, <2>3
  <2>5. k <= l
    BY <2>1, <2>4 DEF FirstLeads
  <2> QED
    BY <1>1, <2>1, <2>4, <2>5
<1> QED
  BY <1>2, <1>3, <1>4

LEMMA ConcatAccepted ==
    ASSUME NEW s \in Seq(MessageSet), NEW r \in Seq(MessageSet), OneAccepted(s), OneAccepted(r),
           ~Among(s, "call-accepted") \/ ~Among(r, "call-accepted")
    PROVE  OneAccepted(s \o r)
<1> DEFINE t == s \o r
<1>1. /\ Len(s) \in Nat
      /\ \A i \in DOMAIN s : t[i] = s[i]
      /\ \A i \in DOMAIN t : i \in DOMAIN s \/ \E k \in DOMAIN r : i = Len(s) + k /\ t[i] = r[k]
  BY ConcatIs
<1> HIDE DEF t
<1> SUFFICES ASSUME NEW i \in DOMAIN t, NEW j \in DOMAIN t,
                    t[i].kind = "call-accepted", t[j].kind = "call-accepted"
             PROVE  i = j
  BY DEF OneAccepted, t
<1>2. CASE i \in DOMAIN s /\ j \in DOMAIN s
  BY <1>1, <1>2 DEF OneAccepted
<1>3. CASE i \notin DOMAIN s /\ j \notin DOMAIN s
  BY <1>1, <1>3 DEF OneAccepted
<1>4. CASE (i \in DOMAIN s) # (j \in DOMAIN s)
  BY <1>1, <1>4 DEF Among
<1> QED
  BY <1>2, <1>3, <1>4

(* A message that is neither an offer, nor an answer, nor call-accepted.   *)
Aside(m) == m \in MessageSet /\ m.kind \notin {"offer", "answer", "call-accepted"}

LEMMA QuietMore ==
    ASSUME NEW s \in Seq(MessageSet), NEW m, Aside(m)
    PROVE  /\ Quieter(s, s \o <<m>>)
           /\ \A x : Has(s, x) => Has(s \o <<m>>, x)
<1> DEFINE r == <<m>>
<1>1. r \in Seq(MessageSet) /\ DOMAIN r = {1} /\ r[1] = m
  BY DEF Aside
<1> HIDE DEF r
<1>2. One("offer").kind = "offer" /\ One("answer").kind = "answer"
  BY DEF One, Msg
<1>3. Paired(r) /\ FirstLeads(r) /\ OneAccepted(r) /\ ~Has(r, One("offer"))
  BY <1>1, <1>2 DEF Paired, FirstLeads, OneAccepted, Has, Aside
<1>4. \A kind \in {"offer", "answer", "call-accepted"} : ~Among(r, kind)
  BY <1>1 DEF Among, Aside
<1>5. Quieter(s, s \o r)
  BY <1>1, <1>3, <1>4, ConcatPaired, ConcatLeads, ConcatAccepted, ConcatHas DEF Quieter
<1> QED
  BY <1>1, <1>5, ConcatHas DEF r

(* What every page's inbox may do in a step of no concern to the           *)
(* negotiation; and the candidate is not taken.                            *)
MailQuiet == \A q \in Pages : Quieter(inbox[q], inbox'[q])
MailKeeps ==
    \A q \in Pages : Has(inbox[q], One("ice-candidate")) => Has(inbox'[q], One("ice-candidate"))

LEMMA BoxType == ASSUME TypeInv, NEW p \in Pages PROVE inbox[p] \in Seq(MessageSet)
BY DEF TypeInv, InboxOK

LEMMA QuietUnchanged == ASSUME UNCHANGED inbox PROVE MailQuiet /\ MailKeeps
BY QuietSame DEF MailQuiet, MailKeeps

LEMMA QuietCleared ==
    ASSUME TypeInv, NEW p \in Pages, inbox' = [inbox EXCEPT ![p] = <<>>]
    PROVE  MailQuiet
<1>1. \A q \in Pages : inbox'[q] = inbox[q] \/ inbox'[q] = <<>>
  BY DEF TypeInv, InboxOK
<1> QED
  BY <1>1, QuietSame, QuietNone DEF MailQuiet

LEMMA QuietTook ==
    ASSUME TypeInv, NEW p \in Pages, inbox[p] # <<>>, inbox' = Took(p)
    PROVE  /\ MailQuiet
           /\ \A q \in Pages : \A m : Has(inbox[q], m) /\ (q # p \/ m # Head(inbox[p]))
                                    => Has(inbox'[q], m)
<1>1. inbox'[p] = Tail(inbox[p]) /\ \A q \in Pages : q # p => inbox'[q] = inbox[q]
  BY DEF TypeInv, InboxOK, Took
<1>2. inbox[p] \in Seq(MessageSet)
  BY BoxType
<1> QED
  BY <1>1, <1>2, QuietSame, QuietTail DEF MailQuiet

LEMMA QuietGot ==
    ASSUME TypeInv, NEW p \in Pages, NEW kind, Gets(p, kind), inbox' = Took(p)
    PROVE  MailQuiet /\ (kind # "ice-candidate" => MailKeeps)
<1>1. inbox[p] # <<>> /\ Head(inbox[p]).kind = kind
  BY DEF Gets, Next1
<1>2. kind # "ice-candidate" => Head(inbox[p]) # One("ice-candidate")
  BY <1>1 DEF One, Msg
<1> QED
  BY <1>1, <1>2, QuietTook DEF MailKeeps

LEMMA QuietAppend ==
    ASSUME TypeInv, NEW p \in Pages, NEW m, Aside(m),
           inbox' = [inbox EXCEPT ![p] = inbox[p] \o <<m>>]
    PROVE  MailQuiet /\ MailKeeps
<1>1. inbox'[p] = inbox[p] \o <<m>> /\ \A q \in Pages : q # p => inbox'[q] = inbox[q]
  BY DEF TypeInv, InboxOK
<1>2. inbox[p] \in Seq(MessageSet)
  BY BoxType
<1> QED
  BY <1>1, <1>2, QuietSame, QuietMore DEF MailQuiet, MailKeeps

LEMMA QuietSent ==
    ASSUME TypeInv, NEW p \in Pages, NEW m, Aside(m), inbox' = Sent(inbox, p, <<m>>)
    PROVE  MailQuiet /\ MailKeeps
<1>1. CASE online[p]
  BY <1>1, QuietAppend DEF Sent
<1>2. CASE ~online[p]
  <2>1. UNCHANGED inbox
    BY <1>2 DEF Sent, TypeInv, InboxOK
  <2> QED
    BY <2>1, QuietUnchanged
<1> QED
  BY <1>1, <1>2

LEMMA QuietRelayed ==
    ASSUME TypeInv, NEW p \in Pages, NEW m, Aside(m), inbox' = Relayed(inbox, p, <<m>>)
    PROVE  MailQuiet /\ MailKeeps
<1>1. Other(p) \in Pages
  BY DEF Other, Pages
<1> QED
  BY <1>1, QuietSent, QuietUnchanged DEF Relayed

LEMMA AsideKinds ==
    ASSUME NEW kind \in {"acknowledged", "call-rejected", "incoming-call"} \cup DOMAIN Ignores
    PROVE  Aside(Msg(kind, 0))
BY DEF Aside, Msg, MessageSet, Messages, Ignores

(* A step of which the negotiation only loses.  A page that goes on with a *)
(* connection has applied and knows what it did, and what is left under    *)
(* way to it; or its connection is new.                                    *)
Fresh(q) == pc'[q].rem = 0 /\ op'[q]["offer"] = "" /\ op'[q]["answer"] = ""
GoesOn(q) ==
    /\ pc[q].open /\ pc'[q].rem = pc[q].rem
    /\ op'[q]["offer"] \in {"media", "remote"} => op[q]["offer"] \in {"media", "remote"}
    /\ op'[q]["offer"] \in {"media", "remote"} \/ op'[q]["answer"] = "remote" => told'[q] = told[q]
    /\ pc[q].rem = 0 /\ Waits(q) => Waits(q)'
    /\ Answering(q) /\ Keeping(q) => Answering(q)' /\ Keeping(q)'
CalmPage(q) ==
    /\ pc'[q].rem \in {pc[q].rem, 0}
    /\ op'[q]["answer"] \in {op[q]["answer"], ""}
    /\ op[q]["offer"] = "" => op'[q]["offer"] = ""
    /\ faults'["blip"] = 0 => ~pc'[q].open \/ Fresh(q) \/ GoesOn(q)
CalmCaller ==
    /\ op'["CALLER"]["answered"] # "" => op["CALLER"]["answered"] # ""
    /\ op["CALLER"]["answered"] # "" /\ op'["CALLER"]["answered"] = "" => ~pc'["CALLER"].open
    /\ pc'["CALLER"].open => pc["CALLER"].open /\ pc'["CALLER"].loc = pc["CALLER"].loc
    /\ due'["CALLER"] \/ op'["CALLER"]["restart"] # "" =>
         due["CALLER"] \/ op["CALLER"]["restart"] # "" \/ pc["CALLER"].rem # 0
CountsFaults ==
    /\ faults' \in [Kinds -> Nat]
    /\ faults'["blip"] = 0 => faults["blip"] = 0
Calm ==
    /\ CountsFaults /\ MailQuiet
    /\ status' = "RINGING" => status = "RINGING"
    /\ CalmCaller
    /\ \A q \in Pages : CalmPage(q)

LEMMA CalmCarries ==
    ASSUME MailQuiet, NEW q \in Pages, NEW kind \in {"offer", "answer", "call-accepted"}
    PROVE  Carries(q, kind)' => Carries(q, kind)
BY DEF MailQuiet, Quieter, Carries

MailOnce ==
    /\ OneAccepted(inbox["CALLER"]) => OneAccepted(inbox'["CALLER"])
    /\ Carries("CALLER", "call-accepted")' => Carries("CALLER", "call-accepted")
    /\ Carries("RECEIVER", "answer")' => Carries("RECEIVER", "answer")

LEMMA OnceKeeps ==
    ASSUME OnceInv, CountsFaults, MailOnce, status' = "RINGING" => status = "RINGING",
           CalmCaller, op'["RECEIVER"]["answer"] = ""
    PROVE  OnceInv' /\ (Before' => Before)
<1>1. Unanswered' => Unanswered
  BY DEF Unanswered, MailOnce
<1>2. Before' => Before
  BY <1>1 DEF Before, CalmCaller
<1>3. Before /\ ~Before' => ~pc'["CALLER"].open
  <2> SUFFICES ASSUME Before, ~Before', pc'["CALLER"].open PROVE FALSE
    OBVIOUS
  <2>1. pc["CALLER"].open
    BY DEF CalmCaller
  <2>2. ~Unanswered
    BY <2>1 DEF OnceInv
  <2>3. op["CALLER"]["answered"] # ""
    BY <2>2 DEF Before
  <2>4. op'["CALLER"]["answered"] = ""
    BY DEF Before
  <2> QED
    BY <2>3, <2>4 DEF CalmCaller
<1>4. faults' \in [Kinds -> Nat]
  BY DEF CountsFaults
<1>5. OneAccepted(inbox'["CALLER"])
  BY DEF MailOnce, OnceInv
<1>6. op'["CALLER"]["answered"] # "" => ~Carries("CALLER", "call-accepted")'
  BY DEF MailOnce, CalmCaller, OnceInv
<1>7. Unanswered' => ~pc'["CALLER"].open
  BY <1>1 DEF CalmCaller, OnceInv
<1>8. ~Before' /\ pc'["CALLER"].open => pc'["CALLER"].loc # 0
  BY <1>3 DEF CalmCaller, OnceInv
<1>9. ~Carries("RECEIVER", "answer")'
  BY DEF MailOnce, OnceInv
<1> QED
  BY <1>2, <1>4, <1>5, <1>6, <1>7, <1>8, <1>9 DEF OnceInv

LEMMA QuietIsOnce == ASSUME MailQuiet PROVE MailOnce
<1>1. {"CALLER", "RECEIVER"} \subseteq Pages
  BY DEF Pages
<1> QED
  BY <1>1, CalmCarries DEF MailOnce, MailQuiet, Quieter

LEMMA CalmKeeps == ASSUME FirstInv, Calm PROVE FirstInv'
<1>0. {"CALLER", "RECEIVER"} \subseteq Pages
  BY DEF Pages
<1>1. \A q \in Pages, kind \in {"offer", "answer", "call-accepted"} :
         Carries(q, kind)' => Carries(q, kind)
  BY CalmCarries DEF Calm
<1>2. op'["RECEIVER"]["answer"] = ""
  BY <1>0 DEF Calm, CalmPage, FirstInv, OnceInv
<1>3. OnceInv' /\ (Before' => Before)
  BY <1>2, QuietIsOnce, OnceKeeps DEF Calm, FirstInv
<1>4. UnusedInv'
  <2> SUFFICES ASSUME Before' PROVE /\ \A p \in Pages : Unused(p)'
                                    /\ ~due'["CALLER"] /\ op'["CALLER"]["restart"] = ""
    BY DEF UnusedInv
  <2>1. /\ \A p \in Pages : Unused(p)
        /\ ~due["CALLER"] /\ op["CALLER"]["restart"] = ""
    BY <1>3 DEF FirstInv, UnusedInv
  <2>2. \A p \in Pages : Unused(p)'
    BY <1>1, <2>1 DEF Unused, Calm, CalmPage
  <2>3. ~due'["CALLER"] /\ op'["CALLER"]["restart"] = ""
    BY <1>0, <2>1 DEF Unused, Calm, CalmCaller
  <2> QED
    BY <2>2, <2>3
<1>5. KeptInv'
  <2> SUFFICES ASSUME faults'["blip"] = 0, NEW p \in Pages PROVE Kept(p)'
    BY DEF KeptInv
  <2>1. Kept(p)
    BY DEF Calm, CountsFaults, FirstInv, KeptInv
  <2>2. CalmPage(p) /\ Quieter(inbox[p], inbox'[p])
    BY DEF Calm, MailQuiet
  <2>3. Paired(inbox'[p]) /\ FirstLeads(inbox'[p])
    BY <2>1, <2>2 DEF Kept, Quieter
  <2>4. Has(inbox'[p], One("offer")) => Has(inbox[p], One("offer"))
    BY <2>2 DEF Quieter
  <2>5. Offered(p)'
    BY <2>1, <2>2, <2>4 DEF Kept, Offered, CalmPage
  <2>6. ~pc'[p].open \/ Fresh(p) \/ GoesOn(p)
    BY <2>2 DEF CalmPage
  <2>7. Applying(p)'
    BY <2>1, <2>4, <2>6 DEF Kept, Applying, Fresh, GoesOn
  <2>8. Answering(p)' /\ Keeping(p)'
    <3>1. CASE ~pc'[p].open
      BY <3>1, Zenon DEF Answering, Keeping
    <3>2. CASE Fresh(p)
      <4>1. pc'[p].rem # 1 /\ op'[p]["answer"] # "remote"
        <5>1. pc'[p].rem = 0 /\ op'[p]["answer"] = ""
          BY <3>2, Zenon DEF Fresh
        <5>2. 0 # 1 /\ "" # "remote"
          OBVIOUS
        <5> QED
          BY <5>1, <5>2, Zenon
      <4> QED
        BY <4>1, Zenon DEF Answering, Keeping
    <3>3. CASE GoesOn(p)
      BY <2>1, <3>3 DEF Kept, GoesOn
    <3> QED
      BY <2>6, <3>1, <3>2, <3>3
  <2> QED
    BY <2>3, <2>5, <2>7, <2>8 DEF Kept
<1> QED
  BY <1>3, <1>4, <1>5 DEF FirstInv

(* Most steps are calm.                                                    *)
LEMMA OneFault ==
    ASSUME OnceInv, NEW kind, Fault(kind)
    PROVE  /\ faults' \in [Kinds -> Nat] /\ (faults'["blip"] = 0 => faults["blip"] = 0)
           /\ kind = "blip" => faults'["blip"] # 0
<1>1. kind \in Kinds /\ "blip" \in Kinds
  BY PageAssumption DEF Fault, Kinds
<1>2. faults \in [Kinds -> Nat] /\ faults' = [faults EXCEPT ![kind] = faults[kind] + 1]
  BY DEF OnceInv, Fault
<1>3. faults' \in [Kinds -> Nat] /\ faults[kind] \in Nat /\ faults["blip"] \in Nat
  BY <1>1, <1>2
<1>4. faults'["blip"] = IF kind = "blip" THEN faults[kind] + 1 ELSE faults["blip"]
  BY <1>1, <1>2
<1> HIDE DEF Kinds
<1> QED
  BY <1>3, <1>4

LEMMA FaultsCount ==
    ASSUME OnceInv, UNCHANGED faults \/ \E kind : Fault(kind) PROVE CountsFaults
<1>1. CASE UNCHANGED faults
  BY <1>1 DEF CountsFaults, OnceInv
<1>2. ASSUME NEW kind, Fault(kind) PROVE CountsFaults
  <2>1. faults' \in [Kinds -> Nat] /\ (faults'["blip"] = 0 => faults["blip"] = 0)
    BY <1>2, OneFault
  <2> QED
    BY <2>1 DEF CountsFaults
<1> QED
  BY <1>1, <1>2

SamePeer(q) ==
    /\ pc'[q].open = pc[q].open /\ pc'[q].loc = pc[q].loc /\ pc'[q].rem = pc[q].rem
    /\ pc'[q].cands = pc[q].cands /\ pending'[q] = pending[q] /\ told'[q] = told[q]
SameTalk(q) ==
    /\ op'[q]["offer"] = op[q]["offer"] \/ (op[q]["offer"] = "media" /\ op'[q]["offer"] = "remote")
    /\ op'[q]["answer"] = op[q]["answer"]

LEMMA PeerGoesOn ==
    ASSUME NEW q \in Pages, SamePeer(q), SameTalk(q), pc[q].open,
           Has(inbox[q], One("ice-candidate")) => Has(inbox'[q], One("ice-candidate"))
    PROVE  GoesOn(q)
<1>1. Arrives(q) => Arrives(q)'
  BY DEF Arrives
<1>2. (Waits(q) => Waits(q)') /\ (Known(q) => Known(q)')
  BY <1>1 DEF Waits, Known, SamePeer
<1>3. Answering(q) => Answering(q)'
  BY <1>2 DEF Answering, SamePeer, SameTalk
<1>4. Keeping(q) => Keeping(q)'
  BY <1>2 DEF Keeping, SamePeer
<1>5. op'[q]["offer"] \in {"media", "remote"} => op[q]["offer"] \in {"media", "remote"}
  BY DEF SameTalk
<1>6. told'[q] = told[q] /\ pc'[q].rem = pc[q].rem
  BY DEF SamePeer
<1> QED
  BY <1>2, <1>3, <1>4, <1>5, <1>6 DEF GoesOn

LEMMA PageIsCalm ==
    ASSUME NEW q \in Pages, SamePeer(q), SameTalk(q), PageInv,
           faults'["blip"] = 0 /\ Has(inbox[q], One("ice-candidate"))
             => Has(inbox'[q], One("ice-candidate"))
    PROVE  CalmPage(q)
<1>1. pc'[q].open = pc[q].open /\ pc'[q].rem = pc[q].rem
  BY DEF SamePeer
<1>2. op'[q]["answer"] = op[q]["answer"] /\ (op[q]["offer"] = "" => op'[q]["offer"] = "")
  BY DEF SameTalk
<1>3. pc[q].open \in BOOLEAN
  BY PeerParts DEF PageInv, TypeInv, StateOK
<1>4. faults'["blip"] = 0 => ~pc'[q].open \/ GoesOn(q)
  BY <1>1, <1>3, PeerGoesOn
<1> QED
  BY <1>1, <1>2, <1>4 DEF CalmPage

LEMMA LeftIsCalm ==
    ASSUME NEW q \in Pages, ~pc'[q].open, pc'[q].rem \in {pc[q].rem, 0},
           op'[q]["answer"] \in {op[q]["answer"], ""},
           op[q]["offer"] = "" => op'[q]["offer"] = ""
    PROVE  CalmPage(q)
BY DEF CalmPage

(* A step that concerns neither connection, or only in what is left out    *)
(* here (its senders, the state of ICE).                                   *)
Talk == {"answered", "offer", "answer", "restart"}
TalkRests == \A q \in Pages, f \in Talk : op'[q][f] = op[q][f]
KeepsUnlessBlip == faults'["blip"] = 0 => MailKeeps
NotRingingAgain == status' = "RINGING" => status = "RINGING"

LEMMA PeersCalm ==
    ASSUME PageInv, FirstInv, CountsFaults, MailQuiet, KeepsUnlessBlip, NotRingingAgain,
           CalmCaller, \A q \in Pages : SamePeer(q) /\ SameTalk(q)
    PROVE  FirstInv'
<1>1. \A q \in Pages : CalmPage(q)
  BY PageIsCalm DEF KeepsUnlessBlip, MailKeeps
<1> QED
  BY <1>1, CalmKeeps DEF Calm, NotRingingAgain

LEMMA RestIsSame ==
    ASSUME TalkRests, NEW q \in Pages PROVE SameTalk(q)
BY DEF TalkRests, Talk, SameTalk

LEMMA CallerRests ==
    ASSUME TalkRests, SamePeer("CALLER"), due'["CALLER"] => due["CALLER"] \/ pc["CALLER"].rem # 0
    PROVE  CalmCaller
<1>1. op'["CALLER"]["answered"] = op["CALLER"]["answered"]
      /\ op'["CALLER"]["restart"] = op["CALLER"]["restart"]
  BY DEF TalkRests, Talk, Pages
<1> QED
  BY <1>1 DEF CalmCaller, SamePeer

LEMMA RestCalm ==
    ASSUME PageInv, FirstInv, CountsFaults, MailQuiet, KeepsUnlessBlip, NotRingingAgain,
           TalkRests, \A q \in Pages : SamePeer(q),
           due'["CALLER"] => due["CALLER"] \/ pc["CALLER"].rem # 0
    PROVE  FirstInv'
<1>1. "CALLER" \in Pages
  BY DEF Pages
<1> QED
  BY <1>1, RestIsSame, CallerRests, PeersCalm

LEMMA UntouchedCalm ==
    ASSUME PageInv, FirstInv, CountsFaults, MailQuiet, KeepsUnlessBlip, NotRingingAgain,
           TalkRests, UNCHANGED <<pc, pending, told, due>>
    PROVE  FirstInv'
<1>1. \A q \in Pages : SamePeer(q)
  BY DEF SamePeer
<1> QED
  BY <1>1, RestCalm

(* A step in which page p closes its connection and what talks over it     *)
(* goes on or ends.                                                        *)
Closes(p) ==
    /\ ~pc'[p].open /\ pc'[p].rem \in {pc[p].rem, 0}
    /\ \A f \in Talk : op'[p][f] \in {op[p][f], ""}
    /\ due'[p] => due[p]
    /\ \A q \in Pages : q # p =>
         /\ SamePeer(q) /\ due'[q] = due[q]
         /\ \A f \in Talk : op'[q][f] = op[q][f]

LEMMA ClosingCalm ==
    ASSUME PageInv, FirstInv, CountsFaults, MailQuiet, NotRingingAgain, NEW p \in Pages, Closes(p),
           \A q \in Pages : q # p /\ Has(inbox[q], One("ice-candidate"))
                              => Has(inbox'[q], One("ice-candidate"))
    PROVE  FirstInv'
<1>1. \A f \in Talk : op'[p][f] \in {op[p][f], ""}
  BY DEF Closes
<1>2. CalmPage(p)
  BY <1>1, LeftIsCalm DEF Closes, Talk
<1>3. ASSUME NEW q \in Pages, q # p PROVE CalmPage(q)
  <2>1. SameTalk(q) /\ SamePeer(q)
    BY <1>3 DEF Closes, Talk, SameTalk
  <2> QED
    BY <1>3, <2>1, PageIsCalm
<1>4. CalmCaller
  <2>1. "CALLER" \in Pages /\ {"answered", "restart"} \subseteq Talk
    BY DEF Pages, Talk
  <2>2. CASE p = "CALLER"
    BY <2>1, <2>2, <1>1 DEF Closes, CalmCaller
  <2>3. CASE p # "CALLER"
    BY <2>1, <2>3 DEF Closes, CalmCaller, SamePeer
  <2> QED
    BY <2>2, <2>3
<1> QED
  BY <1>2, <1>3, <1>4, CalmKeeps DEF Calm, NotRingingAgain

LEMMA CleanupCloses ==
    ASSUME StateOK, NEW p \in Pages, Cleanup(p), TalkRests PROVE Closes(p)
<1>1. pc'[p] = NoPeer /\ ~NoPeer.open /\ NoPeer.rem = 0
  BY DEF Cleanup, StateOK, NoPeer
<1>2. \A q \in Pages : q # p => SamePeer(q) /\ due'[q] = due[q]
  BY DEF Cleanup, StateOK, SamePeer
<1> QED
  BY <1>1, <1>2 DEF Closes, TalkRests, Cleanup

LEMMA OthersTalk ==
    ASSUME StateOK, NEW p \in Pages, NEW f \in {"accept", "reject", "cancel", "end"},
           NEW step \in Steps, Goes(p, f, step)
    PROVE  TalkRests
<1>1. f \in Functions /\ Talk \subseteq Functions /\ f \notin Talk
  BY DEF Functions, Talk
<1> QED
  BY <1>1, GoesTo DEF TalkRests

(* What is relayed or sent besides the negotiation.                        *)
LEMMA SocketCalm ==
    ASSUME PageInv, FirstInv, NEW p \in Pages,
           Authenticate(p) \/ OnAcknowledged(p) \/ OnIncoming(p) \/ OnRejected(p)
    PROVE  FirstInv'
<1>1. CountsFaults
  BY FaultsCount DEF FirstInv, Authenticate, OnAcknowledged, OnIncoming, OnRejected
<1>2. TalkRests /\ NotRingingAgain /\ UNCHANGED <<pc, pending, told, due>>
  BY DEF Authenticate, OnAcknowledged, OnIncoming, OnRejected, TalkRests, NotRingingAgain
<1>3. MailQuiet /\ MailKeeps
  <2>1. CASE Authenticate(p)
    <3> DEFINE kind == IF p = "CALLER" THEN "acknowledged" ELSE OnStatus
    <3>1. kind \in {"acknowledged", "call-rejected", "incoming-call"} \cup DOMAIN Ignores
      BY DEF PageInv, TypeInv, StateOK, OnStatus, Ignores
    <3>2. inbox' = [inbox EXCEPT ![p] = Append(inbox[p], Msg(kind, 0))]
      BY <2>1 DEF Authenticate
    <3> HIDE DEF kind
    <3>3. Aside(Msg(kind, 0))
      BY <3>1, AsideKinds
    <3>4. inbox[p] \in Seq(MessageSet)
      BY BoxType DEF PageInv
    <3>5. Append(inbox[p], Msg(kind, 0)) = inbox[p] \o <<Msg(kind, 0)>>
      BY <3>3, <3>4, AppendIsConcat DEF Aside
    <3> QED
      BY <3>2, <3>3, <3>5, QuietAppend DEF PageInv
  <2>2. CASE OnAcknowledged(p) \/ OnIncoming(p) \/ OnRejected(p)
    BY <2>2, QuietGot DEF PageInv, OnAcknowledged, OnIncoming, OnRejected
  <2> QED
    BY <2>1, <2>2
<1> QED
  BY <1>1, <1>2, <1>3, UntouchedCalm DEF KeepsUnlessBlip

LEMMA BlipCalm == ASSUME PageInv, FirstInv, NEW p \in Pages, Blip(p) PROVE FirstInv'
<1>1. CountsFaults /\ KeepsUnlessBlip
  BY FaultsCount, OneFault DEF FirstInv, Blip, KeepsUnlessBlip
<1>2. TalkRests /\ NotRingingAgain /\ UNCHANGED <<pc, pending, told, due>>
  BY DEF Blip, TalkRests, NotRingingAgain
<1>3. MailQuiet
  BY QuietCleared DEF PageInv, Blip
<1> QED
  BY <1>1, <1>2, <1>3, UntouchedCalm

LEMMA OverCalm ==
    ASSUME PageInv, FirstInv, NEW p \in Pages, NEW e \in DOMAIN Ignores, OnOver(p, e)
    PROVE  FirstInv'
<1>1. CountsFaults
  BY FaultsCount DEF FirstInv, OnOver
<1>2. TalkRests /\ NotRingingAgain
  BY DEF OnOver, TalkRests, NotRingingAgain
<1>3. MailQuiet /\ MailKeeps
  <2>1. e # "ice-candidate"
    BY DEF Ignores
  <2> QED
    BY <2>1, QuietGot DEF PageInv, OnOver
<1>4. CASE screen[p] \in Ignores[e]
  BY <1>1, <1>2, <1>3, <1>4, UntouchedCalm DEF OnOver, KeepsUnlessBlip
<1>5. CASE screen[p] \notin Ignores[e]
  <2>1. Closes(p)
    BY <1>2, <1>5, CleanupCloses DEF OnOver, PageInv, TypeInv
  <2> QED
    BY <1>1, <1>2, <1>3, <2>1, ClosingCalm DEF MailKeeps
<1> QED
  BY <1>4, <1>5

LEMMA ScreenCalm ==
    ASSUME PageInv, FirstInv, StartCallFlow \/ \E p \in Pages : Watchdog(p)
    PROVE  FirstInv'
<1>1. CountsFaults
  BY FaultsCount DEF FirstInv, StartCallFlow, Watchdog
<1>2. TalkRests /\ NotRingingAgain /\ UNCHANGED <<pc, pending, told, due>> /\ UNCHANGED inbox
  BY DEF StartCallFlow, Watchdog, TalkRests, NotRingingAgain
<1> QED
  BY <1>1, <1>2, QuietUnchanged, UntouchedCalm DEF KeepsUnlessBlip

LEMMA AskingCalm ==
    ASSUME PageInv, FirstInv,
           Cancel \/ Reject \/ AcceptDone \/ RejectDone \/ (\E p \in Pages : HangUp(p) \/ EndPosted(p))
    PROVE  FirstInv'
<1>1. CountsFaults
  BY FaultsCount DEF FirstInv, Cancel, Reject, AcceptDone, RejectDone, HangUp, EndPosted
<1>2. NotRingingAgain /\ UNCHANGED <<pc, pending, told, due>>
  BY DEF Cancel, Reject, AcceptDone, RejectDone, HangUp, EndPosted, NotRingingAgain
<1>3. TalkRests
  <2>1. StateOK /\ {"post", "reply", ""} \subseteq Steps /\ {"CALLER", "RECEIVER"} \subseteq Pages
    BY DEF PageInv, TypeInv, Steps, Pages
  <2>2. PICK p \in Pages, f \in {"accept", "reject", "cancel", "end"}, step \in Steps : Goes(p, f, step)
    BY <2>1 DEF Cancel, Reject, AcceptDone, RejectDone, HangUp, EndPosted
  <2> QED
    BY <2>1, <2>2, OthersTalk
<1>4. MailQuiet /\ MailKeeps
  <2>1. CASE UNCHANGED inbox
    BY <2>1, QuietUnchanged
  <2>2. CASE \E p \in Pages : HangUp(p)
    <3>1. Aside(Msg("call-ended", 0))
      BY AsideKinds DEF Ignores
    <3> QED
      BY <2>2, <3>1, QuietRelayed DEF HangUp, PageInv
  <2> QED
    BY <2>1, <2>2 DEF Cancel, Reject, AcceptDone, RejectDone, EndPosted
<1> QED
  BY <1>1, <1>2, <1>3, <1>4, UntouchedCalm DEF KeepsUnlessBlip

LEMMA LoseCalm ==
    ASSUME PageInv, FirstInv, NEW p \in Pages, NEW f \in Functions, Lose(p, f)
    PROVE  FirstInv'
<1>1. CountsFaults
  BY FaultsCount DEF FirstInv, Lose
<1>2. TalkRests
  <2>1. StateOK /\ {"reply", "refused"} \subseteq Steps
    BY DEF PageInv, TypeInv, Steps
  <2> QED
    BY <2>1, OthersTalk DEF Lose
<1>3. NotRingingAgain /\ UNCHANGED <<pc, pending, told, due>> /\ UNCHANGED inbox
  BY DEF Lose, NotRingingAgain
<1> QED
  BY <1>1, <1>2, <1>3, QuietUnchanged, UntouchedCalm DEF KeepsUnlessBlip

LEMMA DecidedCalm ==
    ASSUME PageInv, FirstInv,
           CancelPosted \/ RejectPosted \/ (AcceptPosted /\ status # "RINGING")
    PROVE  FirstInv'
<1>1. CountsFaults
  BY FaultsCount DEF FirstInv, CancelPosted, RejectPosted, AcceptPosted
<1>2. TalkRests
  <2>1. StateOK /\ {"reply", "refused"} \subseteq Steps /\ {"CALLER", "RECEIVER"} \subseteq Pages
    BY DEF PageInv, TypeInv, Steps, Pages
  <2>2. PICK p \in Pages, f \in {"accept", "reject", "cancel", "end"}, step \in Steps : Goes(p, f, step)
    BY <2>1 DEF CancelPosted, RejectPosted, AcceptPosted, Decide
  <2> QED
    BY <2>1, <2>2, OthersTalk
<1>3. NotRingingAgain /\ UNCHANGED <<pc, pending, told, due>>
  BY DEF CancelPosted, RejectPosted, AcceptPosted, Decide, NotRingingAgain
<1>4. MailQuiet /\ MailKeeps
  <2>1. CASE UNCHANGED inbox
    BY <2>1, QuietUnchanged
  <2>2. ASSUME UNCHANGED inbox => FALSE PROVE MailQuiet /\ MailKeeps
    <3>1. Aside(Msg("call-cancelled", 0)) /\ Aside(Msg("call-rejected", 0))
          /\ {"CALLER", "RECEIVER"} \subseteq Pages
      BY AsideKinds DEF Ignores, Pages
    <3>2. PICK p \in Pages, m \in {Msg("call-cancelled", 0), Msg("call-rejected", 0)} :
             inbox' = Sent(inbox, p, <<m>>)
      BY <2>2, <3>1 DEF CancelPosted, RejectPosted, AcceptPosted, Decide
    <3> QED
      BY <3>1, <3>2, QuietSent DEF PageInv
  <2> QED
    BY <2>1, <2>2
<1> QED
  BY <1>1, <1>2, <1>3, <1>4, UntouchedCalm DEF KeepsUnlessBlip

LEMMA MissCalm == ASSUME PageInv, FirstInv, Miss PROVE FirstInv'
<1>1. CountsFaults
  BY FaultsCount DEF FirstInv, Miss
<1>2. TalkRests /\ NotRingingAgain /\ UNCHANGED <<pc, pending, told, due>>
  BY DEF Miss, Decide, TalkRests, NotRingingAgain
<1>3. MailQuiet /\ MailKeeps
  <2> DEFINE m == Msg("call-missed", 0)
  <2>1. Aside(m)
    BY AsideKinds DEF Ignores
  <2>2. \A q \in Pages : inbox'[q] = IF online[q] THEN inbox[q] \o <<m>> ELSE inbox[q]
    BY DEF Miss, Sent, PageInv, TypeInv, InboxOK, Pages
  <2> HIDE DEF m
  <2>3. \A q \in Pages : inbox[q] \in Seq(MessageSet)
    BY BoxType DEF PageInv
  <2>4. \A q \in Pages : inbox'[q] = inbox[q] \/ inbox'[q] = inbox[q] \o <<m>>
    BY <2>2
  <2> QED
    BY <2>1, <2>3, <2>4, QuietSame, QuietMore DEF MailQuiet, MailKeeps
<1> QED
  BY <1>1, <1>2, <1>3, UntouchedCalm DEF KeepsUnlessBlip

LEMMA DoneCalm ==
    ASSUME PageInv, FirstInv, CancelDone \/ \E p \in Pages : EndDone(p) PROVE FirstInv'
<1>1. CountsFaults
  BY FaultsCount DEF FirstInv, CancelDone, EndDone
<1>2. NotRingingAgain /\ UNCHANGED inbox
  BY DEF CancelDone, EndDone, NotRingingAgain
<1>3. PICK p \in Pages, f \in {"cancel", "end"} : Goes(p, f, "") /\ Cleanup(p)
  BY DEF CancelDone, EndDone, Pages
<1>4. TalkRests
  <2>1. StateOK /\ "" \in Steps
    BY DEF PageInv, TypeInv, Steps
  <2> QED
    BY <1>3, <2>1, OthersTalk
<1>5. Closes(p)
  BY <1>3, <1>4, CleanupCloses DEF PageInv, TypeInv
<1> QED
  BY <1>1, <1>2, <1>5, QuietUnchanged, ClosingCalm DEF MailKeeps

LEMMA ExitCalm == ASSUME PageInv, FirstInv, NEW p \in Pages, PageExit(p) PROVE FirstInv'
<1>1. CountsFaults
  BY FaultsCount DEF FirstInv, PageExit
<1>2. NotRingingAgain
  BY DEF PageExit, NotRingingAgain
<1>3. MailQuiet /\ \A q \in Pages : q # p => inbox'[q] = inbox[q]
  BY QuietCleared DEF PageInv, TypeInv, InboxOK, PageExit
<1>4. Closes(p)
  <2>1. pc'[p] = NoPeer /\ ~NoPeer.open /\ NoPeer.rem = 0 /\ ~due'[p]
    BY DEF PageInv, TypeInv, StateOK, PageExit, NoPeer
  <2>2. op' = [op EXCEPT ![p] = [f \in Functions |-> ""]] /\ Talk \subseteq Functions
    BY DEF PageExit, Talk, Functions
  <2>3. \A f \in Talk : op'[p][f] = "" /\ \A q \in Pages : q # p => op'[q][f] = op[q][f]
    BY <2>2 DEF PageInv, TypeInv, StateOK
  <2>4. \A q \in Pages : q # p => SamePeer(q) /\ due'[q] = due[q]
    BY DEF PageInv, TypeInv, StateOK, PageExit, Forgets, SamePeer
  <2> QED
    BY <2>1, <2>3, <2>4 DEF Closes
<1> QED
  BY <1>1, <1>2, <1>3, <1>4, ClosingCalm

(* The await that one function goes to.                                    *)
LEMMA TalkGoes ==
    ASSUME StateOK, NEW p \in Pages, NEW f \in Talk, NEW step \in Steps, Goes(p, f, step)
    PROVE  /\ op'[p][f] = step
           /\ \A q \in Pages, g \in Talk : q # p \/ g # f => op'[q][g] = op[q][g]
<1>1. Talk \subseteq Functions
  BY DEF Talk, Functions
<1> QED
  BY <1>1, GoesTo

(* Devices and ICE.                                                        *)
LEMMA AttachedSame ==
    ASSUME StateOK, OnceInv, NEW p \in Pages, Attached(p), UNCHANGED <<pending, told>>
    PROVE  CountsFaults /\ \A q \in Pages : SamePeer(q)
<1>1. CountsFaults
  BY FaultsCount DEF Attached
<1>2. CASE UNCHANGED pc
  BY <1>1, <1>2 DEF SamePeer
<1>3. CASE pc' = [pc EXCEPT ![p].sends = pc[p].open]
  <2>1. \A q \in Pages : q # p => pc'[q] = pc[q]
    BY <1>3 DEF StateOK
  <2>2. pc'[p] = [pc[p] EXCEPT !.sends = pc[p].open] /\ pc[p] \in Peers
    BY <1>3 DEF StateOK
  <2>3. /\ pc'[p].open = pc[p].open /\ pc'[p].loc = pc[p].loc
        /\ pc'[p].rem = pc[p].rem /\ pc'[p].cands = pc[p].cands
    BY <2>2 DEF Peers
  <2> QED
    BY <1>1, <2>1, <2>3 DEF SamePeer
<1> QED
  BY <1>2, <1>3, <1>1 DEF Attached

LEMMA MediaCalm ==
    ASSUME PageInv, FirstInv, AcceptMedia \/ \E p \in Pages : OfferMedia(p) \/ AnsweredMedia(p)
    PROVE  FirstInv'
<1>1. PICK p \in Pages : (p = "RECEIVER" /\ AcceptMedia) \/ OfferMedia(p) \/ AnsweredMedia(p)
  BY DEF Pages
<1>2. CountsFaults /\ \A q \in Pages : SamePeer(q)
  BY <1>1, AttachedSame DEF AcceptMedia, OfferMedia, AnsweredMedia, PageInv, TypeInv, FirstInv
<1>3. NotRingingAgain /\ UNCHANGED inbox /\ UNCHANGED due
  BY <1>1 DEF AcceptMedia, OfferMedia, AnsweredMedia, NotRingingAgain
<1>4. MailQuiet /\ MailKeeps
  BY <1>3, QuietUnchanged
<1>5. /\ "CALLER" \in Pages /\ {"post", "remote", "offer", ""} \subseteq Steps /\ Talk \subseteq Functions
      /\ StateOK /\ "accept" \in Functions
  BY DEF Pages, Steps, Talk, Functions, PageInv, TypeInv
<1>6. CASE AcceptMedia
  <2>1. TalkRests
    BY <1>5, <1>6, OthersTalk DEF AcceptMedia, Pages
  <2> QED
    BY <1>2, <1>3, <1>4, <2>1, RestCalm DEF KeepsUnlessBlip
<1>7. CASE OfferMedia(p)
  <2>1. op'[p]["offer"] = "remote" /\ op[p]["offer"] = "media"
        /\ \A q \in Pages, f \in Talk : q # p \/ f # "offer" => op'[q][f] = op[q][f]
    <3>1. Goes(p, "offer", "remote") /\ op[p]["offer"] = "media" /\ "offer" \in Talk
      BY <1>7 DEF OfferMedia, At, Talk
    <3> QED
      BY <1>5, <3>1, TalkGoes
  <2>2. \A q \in Pages : SameTalk(q)
    BY <2>1 DEF SameTalk, Talk
  <2>3. CalmCaller
    BY <1>2, <1>3, <1>5, <2>1 DEF CalmCaller, SamePeer, Talk
  <2> QED
    BY <1>2, <1>3, <1>4, <2>2, <2>3, PeersCalm DEF KeepsUnlessBlip
<1>8. CASE AnsweredMedia(p)
  <2>0. p = "CALLER" /\ op[p]["answered"] = "media"
    BY <1>8 DEF PageInv, Roles, AnsweredMedia, At, Pages
  <2>1. op'[p]["answered"] = (IF pc[p].open THEN "offer" ELSE "")
        /\ \A q \in Pages, f \in Talk : q # p \/ f # "answered" => op'[q][f] = op[q][f]
    <3>1. PICK step \in Steps :
             step = (IF pc[p].open THEN "offer" ELSE "") /\ Goes(p, "answered", step)
      BY <1>5, <1>8 DEF AnsweredMedia
    <3>2. "answered" \in Talk
      BY DEF Talk
    <3> QED
      BY <1>5, <3>1, <3>2, TalkGoes
  <2>2. \A q \in Pages : SameTalk(q)
    BY <2>1 DEF SameTalk, Talk
  <2>3. CalmCaller
    <3>1. op'["CALLER"]["answered"] = "" => ~pc["CALLER"].open
      BY <2>0, <2>1
    <3>2. op'["CALLER"]["restart"] = op["CALLER"]["restart"]
      BY <1>5, <2>1 DEF Talk
    <3>3. SamePeer("CALLER") /\ due'["CALLER"] = due["CALLER"]
      BY <1>2, <1>3, <1>5
    <3> QED
      BY <2>0, <3>1, <3>2, <3>3 DEF CalmCaller, SamePeer
  <2> QED
    BY <1>2, <1>3, <1>4, <2>2, <2>3, PeersCalm DEF KeepsUnlessBlip
<1> QED
  BY <1>1, <1>6, <1>7, <1>8

LEMMA IceSame ==
    ASSUME StateOK, NEW p \in Pages, NEW s, pc' = [pc EXCEPT ![p].ice = s], UNCHANGED <<pending, told>>
    PROVE  \A q \in Pages : SamePeer(q)
<1>1. \A q \in Pages : q # p => pc'[q] = pc[q]
  BY DEF StateOK
<1>2. pc'[p] = [pc[p] EXCEPT !.ice = s] /\ pc[p] \in Peers
  BY DEF StateOK
<1>3. /\ pc'[p].open = pc[p].open /\ pc'[p].loc = pc[p].loc
      /\ pc'[p].rem = pc[p].rem /\ pc'[p].cands = pc[p].cands
  BY <1>2 DEF Peers
<1> QED
  BY <1>1, <1>3 DEF SamePeer

LEMMA IceCalm ==
    ASSUME PageInv, FirstInv, NEW p \in Pages, IceConnect(p) \/ IceDrop(p) PROVE FirstInv'
<1>1. CountsFaults
  BY FaultsCount DEF FirstInv, IceConnect, IceDrop
<1>2. \A q \in Pages : SamePeer(q)
  BY IceSame DEF IceConnect, IceDrop, PageInv, TypeInv
<1>3. TalkRests /\ NotRingingAgain /\ UNCHANGED inbox
  BY DEF IceConnect, IceDrop, TalkRests, NotRingingAgain
<1>4. due'["CALLER"] => due["CALLER"] \/ pc["CALLER"].rem # 0
  <2>1. \A q \in Pages : q # p => due'[q] = due[q]
    BY DEF IceConnect, IceDrop, Troubled, PageInv, TypeInv, StateOK
  <2>2. due'[p] = due[p] \/ pc[p].rem # 0
    BY DEF IceConnect, IceDrop
  <2>3. "CALLER" \in Pages
    BY DEF Pages
  <2> QED
    BY <2>1, <2>2, <2>3
<1> QED
  BY <1>1, <1>2, <1>3, <1>4, QuietUnchanged, RestCalm DEF KeepsUnlessBlip

LEMMA TimerCalm ==
    ASSUME PageInv, FirstInv, NEW p \in Pages, RestartTimer(p) PROVE FirstInv'
<1>1. CountsFaults
  BY FaultsCount DEF FirstInv, RestartTimer
<1>2. \A q \in Pages : SamePeer(q)
  BY DEF RestartTimer, SamePeer
<1>3. NotRingingAgain /\ UNCHANGED inbox
  BY DEF RestartTimer, NotRingingAgain
<1>4. /\ "CALLER" \in Pages /\ "offer" \in Steps /\ Talk \subseteq Functions
      /\ StateOK /\ "restart" \in Functions
  BY DEF Pages, Steps, Talk, Functions, PageInv, TypeInv
<1>5. \A q \in Pages, f \in Talk : q # p \/ f # "restart" => op'[q][f] = op[q][f]
  <2>1. CASE UNCHANGED op
    BY <2>1
  <2>2. CASE Goes(p, "restart", "offer")
    <3>1. "restart" \in Talk
      BY DEF Talk
    <3> QED
      BY <1>4, <2>2, <3>1, TalkGoes
  <2> QED
    BY <2>1, <2>2 DEF RestartTimer
<1>6. \A q \in Pages : SameTalk(q)
  BY <1>5 DEF SameTalk, Talk
<1>7. CalmCaller
  <2>1. op'["CALLER"]["answered"] = op["CALLER"]["answered"]
    BY <1>4, <1>5 DEF Talk
  <2>2. p # "CALLER" => op'["CALLER"]["restart"] = op["CALLER"]["restart"]
                        /\ due'["CALLER"] = due["CALLER"]
    BY <1>4, <1>5 DEF Talk, RestartTimer, StateOK
  <2>3. due[p]
    BY DEF RestartTimer
  <2> QED
    BY <1>2, <1>4, <2>1, <2>2, <2>3 DEF CalmCaller, SamePeer
<1> QED
  BY <1>1, <1>2, <1>3, <1>6, <1>7, QuietUnchanged, PeersCalm DEF KeepsUnlessBlip

LEMMA AcceptCalm == ASSUME PageInv, FirstInv, Accept PROVE FirstInv'
<1>1. CountsFaults
  BY FaultsCount DEF FirstInv, Accept
<1>2. /\ {"CALLER", "RECEIVER"} \subseteq Pages /\ "media" \in Steps /\ StateOK
      /\ {"offer", "answer"} \subseteq Functions /\ {"offer", "answer"} \subseteq Talk
  BY DEF Pages, Steps, PageInv, TypeInv, Functions, Talk
<1>3. TalkRests
  BY <1>2, OthersTalk DEF Accept
<1>4. NotRingingAgain /\ UNCHANGED inbox
  BY DEF Accept, NotRingingAgain
<1>5. MailQuiet /\ MailKeeps
  BY <1>4, QuietUnchanged
<1>6. ASSUME NEW q \in Pages, q # "RECEIVER" PROVE SamePeer(q) /\ SameTalk(q)
  <2>1. pc'[q] = pc[q]
    BY <1>6 DEF Accept, PageInv, TypeInv, StateOK
  <2> QED
    BY <1>3, <2>1, RestIsSame DEF SamePeer, Accept
<1>7. CalmPage("RECEIVER")
  <2>1. pc'["RECEIVER"] = WithPeer("RECEIVER")
    BY <1>2 DEF Accept, StateOK
  <2>2. CASE pc["RECEIVER"].open
    <3>1. SamePeer("RECEIVER")
      BY <2>1, <2>2 DEF WithPeer, Accept, SamePeer
    <3> QED
      BY <1>2, <1>3, <1>5, <3>1, RestIsSame, PageIsCalm DEF MailKeeps
  <2>3. CASE ~pc["RECEIVER"].open
    <3>1. pc'["RECEIVER"].rem = 0
      BY <2>1, <2>3 DEF WithPeer, FreshPeer, NoPeer
    <3>2. op["RECEIVER"]["offer"] = "" /\ op["RECEIVER"]["answer"] = ""
      BY <1>2 DEF Accept, At
    <3>3. op'["RECEIVER"]["offer"] = "" /\ op'["RECEIVER"]["answer"] = ""
      BY <1>2, <1>3, <3>2 DEF TalkRests
    <3> QED
      BY <3>1, <3>2, <3>3 DEF CalmPage, Fresh
  <2> QED
    BY <2>2, <2>3
<1>8. \A q \in Pages : CalmPage(q)
  BY <1>5, <1>6, <1>7, PageIsCalm DEF MailKeeps
<1>9. CalmCaller
  <2>1. SamePeer("CALLER") /\ due'["CALLER"] = due["CALLER"]
    BY <1>2, <1>6 DEF Accept
  <2> QED
    BY <1>3, <2>1, CallerRests
<1> QED
  BY <1>1, <1>4, <1>5, <1>8, <1>9, CalmKeeps DEF Calm, NotRingingAgain

(* What comes to a closed connection is dropped, and what was going to be  *)
(* done with it fails.                                                     *)
LEMMA DroppedCalm ==
    ASSUME PageInv, FirstInv, NEW p \in Pages, ~pc[p].open, OnOffer(p) \/ OnAnswer(p)
    PROVE  FirstInv'
<1>1. CountsFaults
  BY FaultsCount DEF FirstInv, OnOffer, OnAnswer
<1>2. TalkRests /\ NotRingingAgain /\ UNCHANGED <<pc, pending, told, due>>
  BY DEF OnOffer, OnAnswer, TalkRests, NotRingingAgain
<1>3. MailQuiet /\ MailKeeps
  <2>1. PICK kind \in {"offer", "answer"} : Gets(p, kind) /\ inbox' = Took(p)
    BY DEF OnOffer, OnAnswer
  <2>2. kind # "ice-candidate"
    OBVIOUS
  <2> QED
    BY <2>1, <2>2, QuietGot DEF PageInv
<1> QED
  BY <1>1, <1>2, <1>3, UntouchedCalm DEF KeepsUnlessBlip

LEMMA FailedCalm ==
    ASSUME PageInv, FirstInv, NEW p \in Pages, ~pc[p].open,
           \/ AnsweredOffer(p) \/ OfferRemote(p) \/ OfferAnswer(p) \/ AnswerRemote(p) \/ Restart(p)
    PROVE  FirstInv'
<1>1. CountsFaults
  BY FaultsCount DEF FirstInv, AnsweredOffer, OfferRemote, OfferAnswer, AnswerRemote, Restart
<1>2. NotRingingAgain /\ UNCHANGED <<inbox, pc, pending, due>>
  BY DEF AnsweredOffer, OfferRemote, OfferAnswer, AnswerRemote, Restart, NotRingingAgain
<1>3. PICK f \in Talk : Goes(p, f, "")
  BY DEF AnsweredOffer, OfferRemote, OfferAnswer, AnswerRemote, Restart, Talk
<1>4. \A q \in Pages : q # p => told'[q] = told[q]
  BY DEF AnsweredOffer, OfferRemote, OfferAnswer, AnswerRemote, Restart, Forgets,
         PageInv, TypeInv, StateOK
<1>5. Closes(p)
  <2>1. StateOK /\ "" \in Steps
    BY DEF PageInv, TypeInv, Steps
  <2>2. op'[p][f] = "" /\ \A q \in Pages, g \in Talk : q # p \/ g # f => op'[q][g] = op[q][g]
    BY <1>3, <2>1, TalkGoes
  <2> QED
    BY <1>2, <1>4, <2>2 DEF Closes, SamePeer
<1> QED
  BY <1>1, <1>2, <1>5, QuietUnchanged, ClosingCalm DEF MailKeeps

(* A candidate is queued before there is a description and goes to the     *)
(* connection after it, and while one is applied.                          *)
LEMMA CandidateCalm ==
    ASSUME PageInv, FirstInv, NEW p \in Pages, OnCandidate(p) PROVE FirstInv'
<1>1. CountsFaults
  BY FaultsCount DEF FirstInv, OnCandidate
<1>2. TalkRests /\ NotRingingAgain /\ UNCHANGED <<told, due>>
  BY DEF OnCandidate, TalkRests, NotRingingAgain
<1>3. inbox[p] # <<>> /\ inbox' = Took(p)
  BY DEF OnCandidate, Gets, Next1
<1>4. MailQuiet
      /\ \A q \in Pages : \A m : Has(inbox[q], m) /\ (q # p \/ m # Head(inbox[p])) => Has(inbox'[q], m)
  BY <1>3, QuietTook DEF PageInv
<1> DEFINE n == Head(inbox[p]).n
<1>5. Head(inbox[p]) = One("ice-candidate") => n = 1
  BY DEF One, Msg
<1>6. Arrives(p) => n = 1 \/ Arrives(p)'
  BY <1>4, <1>5 DEF Arrives
<1> HIDE DEF n
<1>7. StateOK
  BY DEF PageInv, TypeInv
<1>8. ASSUME NEW q \in Pages, q # p PROVE SamePeer(q)
  BY <1>2, <1>7, <1>8 DEF OnCandidate, AddCandidate, StateOK, SamePeer
<1>9. /\ pc'[p].open = pc[p].open /\ pc'[p].loc = pc[p].loc /\ pc'[p].rem = pc[p].rem
  <2>1. pc[p] \in Peers
    BY <1>7 DEF StateOK
  <2>2. pc'[p] = pc[p] \/ \E c : pc'[p] = [pc[p] EXCEPT !.cands = c]
    <3>1. CASE UNCHANGED pc
      BY <3>1
    <3>2. CASE ~ UNCHANGED pc
      <4>1. PICK c : pc' = [pc EXCEPT ![p].cands = c]
        BY <3>2 DEF OnCandidate, AddCandidate
      <4> QED
        BY <1>7, <4>1 DEF StateOK
    <3> QED
      BY <3>1, <3>2
  <2> QED
    BY <2>1, <2>2 DEF Peers
<1>10. pc[p].open => GoesOn(p)
  <2> SUFFICES ASSUME pc[p].open PROVE GoesOn(p)
    OBVIOUS
  <2>1. AddCandidate(p, n)
    BY DEF OnCandidate, n
  <2>2. pc[p] \in Peers /\ pc[p].rem \in Nat
    BY <1>7, PeerParts DEF StateOK
  <2>3. CASE pc[p].rem = 0
    <3>1. pending'[p] = pending[p] \cup {n} /\ pc'[p] = pc[p]
      BY <1>7, <2>1, <2>3 DEF AddCandidate, StateOK
    <3>2. Waits(p) => Waits(p)'
      BY <1>6, <3>1 DEF Waits
    <3>3. Waits(p) \/ Known(p) => Waits(p)' \/ Known(p)'
      BY <3>1, <3>2 DEF Waits, Known
    <3>4. (Answering(p) => Answering(p)') /\ Keeping(p)'
      BY <1>2, <2>3, <3>1, <3>3 DEF Answering, Keeping, TalkRests, Talk
    <3> QED
      BY <1>2, <3>1, <3>2, <3>4 DEF GoesOn, TalkRests, Talk
  <2>4. CASE pc[p].rem # 0
    <3> DEFINE known == n \in {pc[p].rem} \cup Applied(p)
    <3>1. /\ pending'[p] = pending[p]
          /\ pc'[p].cands = IF known THEN pc[p].cands \cup {n} ELSE pc[p].cands
      BY <1>7, <2>1, <2>2, <2>4 DEF AddCandidate, StateOK, Peers
    <3>2. Known(p) => Known(p)' \/ (n = 1 /\ ~known)
      BY <1>6, <3>1 DEF Known
    <3>3. Keeping(p) => Keeping(p)'
      BY <1>9, <3>2 DEF Keeping
    <3>4. Answering(p) => Answering(p)'
      <4> SUFFICES ASSUME Answering(p), op'[p]["answer"] = "remote", told'[p] = 1
                   PROVE  Waits(p)' \/ Known(p)'
        BY DEF Answering
      <4>1. op[p]["answer"] = "remote" /\ told[p] = 1
        BY <1>2 DEF TalkRests, Talk
      <4>2. n = 1 => known
        BY <4>1 DEF Applied, At
      <4>3. Waits(p) \/ Known(p)
        BY <4>1 DEF Answering
      <4> QED
        BY <1>6, <3>1, <3>2, <4>2, <4>3 DEF Waits, Known
    <3> QED
      BY <1>2, <1>9, <2>4, <3>3, <3>4 DEF GoesOn, TalkRests, Talk
  <2> QED
    BY <2>3, <2>4
<1>11. CalmPage(p)
  <2>1. op'[p]["offer"] = op[p]["offer"] /\ op'[p]["answer"] = op[p]["answer"]
    BY <1>2 DEF TalkRests, Talk
  <2>2. ~pc'[p].open \/ GoesOn(p)
    BY <1>9, <1>10
  <2> QED
    BY <1>9, <2>1, <2>2 DEF CalmPage
<1>12. ASSUME NEW q \in Pages PROVE CalmPage(q)
  <2>1. CASE q # p
    BY <1>2, <1>4, <1>8, <2>1, RestIsSame, PageIsCalm
  <2> QED
    BY <1>11, <2>1
<1>13. CalmCaller
  <2>1. "CALLER" \in Pages
    BY DEF Pages
  <2>2. pc'["CALLER"].open = pc["CALLER"].open /\ pc'["CALLER"].loc = pc["CALLER"].loc
    BY <1>8, <1>9, <2>1 DEF SamePeer
  <2> QED
    BY <1>2, <2>1, <2>2 DEF CalmCaller, TalkRests, Talk
<1> QED
  BY <1>1, <1>2, <1>4, <1>12, <1>13, CalmKeeps DEF Calm, NotRingingAgain

(* An answer that no open offer asks for is refused.                       *)
LEMMA RefusedCalm ==
    ASSUME PageInv, FirstInv, NEW p \in Pages, pc[p].open, ~pc[p].offered, AnswerRemote(p)
    PROVE  FirstInv'
<1>1. CountsFaults
  BY FaultsCount DEF FirstInv, AnswerRemote
<1>2. NotRingingAgain /\ UNCHANGED <<inbox, pc, pending, due>> /\ Goes(p, "answer", "") /\ Forgets(p)
  BY DEF AnswerRemote, NotRingingAgain
<1>3. p = "CALLER"
  BY DEF FirstInv, OnceInv, AnswerRemote, At, Pages
<1>4. StateOK /\ "" \in Steps /\ "answer" \in Talk
  BY DEF PageInv, TypeInv, Steps, Talk
<1>5. op'[p]["answer"] = ""
      /\ \A q \in Pages, g \in Talk : q # p \/ g # "answer" => op'[q][g] = op[q][g]
  BY <1>2, <1>4, TalkGoes
<1>6. op[p]["offer"] = ""
  BY <1>3 DEF PageInv, Roles
<1>7. op'[p]["offer"] = ""
  BY <1>5, <1>6 DEF Talk
<1>8. MailQuiet /\ MailKeeps
  BY <1>2, QuietUnchanged
<1>9. CalmPage(p)
  <2>1. Answering(p)' /\ (Keeping(p) => Keeping(p)') /\ (Waits(p) => Waits(p)')
    BY <1>2, <1>5 DEF Answering, Keeping, Waits, Known, Arrives
  <2>2. GoesOn(p)
    BY <1>2, <1>5, <1>7, <2>1 DEF GoesOn
  <2> QED
    BY <1>2, <1>5, <1>6, <1>7, <2>2 DEF CalmPage
<1>10. ASSUME NEW q \in Pages PROVE CalmPage(q)
  <2>1. CASE q # p
    <3>1. told'[q] = told[q]
      BY <1>2, <1>4, <2>1 DEF Forgets, StateOK
    <3>2. SamePeer(q) /\ SameTalk(q)
      BY <1>2, <1>5, <2>1, <3>1 DEF SamePeer, SameTalk, Talk
    <3> QED
      BY <1>8, <2>1, <3>2, PageIsCalm DEF MailKeeps
  <2> QED
    BY <1>9, <2>1
<1>11. CalmCaller
  BY <1>2, <1>3, <1>5 DEF CalmCaller, Talk
<1> QED
  BY <1>1, <1>2, <1>8, <1>10, <1>11, CalmKeeps DEF Calm, NotRingingAgain

(* The steps of the negotiation.  A page that nothing happens to keeps     *)
(* what it had.                                                            *)
LEMMA PageKept ==
    ASSUME NEW q \in Pages, Kept(q),
           pc'[q].open = pc[q].open, pc'[q].rem = pc[q].rem, pc'[q].cands = pc[q].cands,
           pending'[q] = pending[q], told'[q] = told[q],
           op'[q]["offer"] = op[q]["offer"], op'[q]["answer"] = op[q]["answer"],
           Quieter(inbox[q], inbox'[q]),
           Has(inbox[q], One("ice-candidate")) => Has(inbox'[q], One("ice-candidate"))
    PROVE  Kept(q)'
<1>1. Paired(inbox'[q]) /\ FirstLeads(inbox'[q])
  BY DEF Kept, Quieter
<1>2. Arrives(q) => Arrives(q)'
  BY DEF Arrives
<1>3. (Waits(q) => Waits(q)') /\ (Known(q) => Known(q)')
  BY <1>2 DEF Waits, Known
<1>4. Has(inbox'[q], One("offer")) => Has(inbox[q], One("offer"))
  BY DEF Quieter
<1>5. Offered(q)'
  BY <1>4 DEF Kept, Offered
<1>6. Applying(q)'
  BY <1>3, <1>4 DEF Kept, Applying
<1>7. Answering(q)' /\ Keeping(q)'
  BY <1>3 DEF Kept, Answering, Keeping
<1> QED
  BY <1>1, <1>5, <1>6, <1>7 DEF Kept

(* Nothing is lost where there is nothing yet.                             *)
LEMMA UnusedKeeps ==
    ASSUME NEW p \in Pages, Unused(p) PROVE Kept(p)
<1>0. One("offer").kind = "offer" /\ One("answer").kind = "answer"
  BY DEF One, Msg
<1>1. ~Has(inbox[p], One("offer")) /\ ~Has(inbox[p], One("answer"))
  BY <1>0 DEF Unused, Carries, Among, Has
<1>2. Paired(inbox[p]) /\ FirstLeads(inbox[p])
  BY <1>1 DEF Paired, FirstLeads, Has
<1>3. Offered(p) /\ Applying(p) /\ Answering(p) /\ Keeping(p)
  <2>1. op[p]["offer"] = "" /\ op[p]["answer"] = "" /\ pc[p].rem = 0
    BY DEF Unused
  <2>2. op[p]["offer"] \notin {"media", "remote"} /\ op[p]["answer"] # "remote"
    BY <2>1
  <2>3. 0 # 1
    OBVIOUS
  <2>4. pc[p].rem # 1
    BY <2>1, <2>3, Zenon
  <2> QED
    BY <1>1, <2>2, <2>4, Zenon DEF Offered, Applying, Answering, Keeping
<1> QED
  BY <1>2, <1>3 DEF Kept

AllUnused == \A p \in Pages : Unused(p)

LEMMA UnusedKept == AllUnused => KeptInv
BY UnusedKeeps DEF AllUnused, KeptInv

LEMMA UnusedKeptNext == AllUnused' => KeptInv'
BY UnusedKept, PTL

(* The message that is taken off.                                          *)
LEMMA HeadOfferLeads ==
    ASSUME NEW s \in Seq(MessageSet), s # <<>>, FirstLeads(s), Head(s).kind = "offer"
    PROVE  ~Has(Tail(s), One("offer"))
<1>1. /\ 1 \in DOMAIN s /\ Head(s) = s[1]
      /\ \A i \in DOMAIN Tail(s) : i \in Nat \ {0} /\ i + 1 \in DOMAIN s /\ Tail(s)[i] = s[i + 1]
  BY TailIs
<1> SUFFICES ASSUME NEW i \in DOMAIN Tail(s), Tail(s)[i] = One("offer") PROVE FALSE
  BY DEF Has
<1>2. i \in Nat \ {0} /\ i + 1 \in DOMAIN s /\ s[i + 1] = One("offer")
  BY <1>1
<1>3. i + 1 <= 1
  BY <1>1, <1>2 DEF FirstLeads
<1> QED
  BY <1>2, <1>3

LEMMA HeadIsPaired ==
    ASSUME NEW s \in Seq(MessageSet), s # <<>>, Paired(s), Head(s) \in {One("offer"), One("answer")}
    PROVE  Has(Tail(s), One("ice-candidate"))
<1>1. /\ 1 \in DOMAIN s /\ Head(s) = s[1]
      /\ \A i \in DOMAIN Tail(s) : Tail(s)[i] = s[i + 1]
      /\ \A j \in DOMAIN s : j # 1 => j - 1 \in DOMAIN Tail(s)
  BY TailIs
<1>2. 1 + 1 \in DOMAIN s /\ s[1 + 1] = One("ice-candidate")
  BY <1>1 DEF Paired
<1>3. 1 + 1 # 1 /\ (1 + 1) - 1 = 1
  OBVIOUS
<1>4. 1 \in DOMAIN Tail(s)
  BY <1>1, <1>2, <1>3
<1> QED
  BY <1>1, <1>2, <1>4 DEF Has

LEMMA HeadWasAccepted ==
    ASSUME NEW s \in Seq(MessageSet), s # <<>>, OneAccepted(s), Head(s).kind = "call-accepted"
    PROVE  ~Among(Tail(s), "call-accepted")
<1>1. /\ 1 \in DOMAIN s /\ Head(s) = s[1]
      /\ \A i \in DOMAIN Tail(s) : i \in Nat \ {0} /\ i + 1 \in DOMAIN s /\ Tail(s)[i] = s[i + 1]
  BY TailIs
<1> SUFFICES ASSUME NEW i \in DOMAIN Tail(s), Tail(s)[i].kind = "call-accepted" PROVE FALSE
  BY DEF Among
<1>2. i \in Nat \ {0} /\ i + 1 \in DOMAIN s /\ s[i + 1].kind = "call-accepted"
  BY <1>1
<1>3. i + 1 = 1
  BY <1>1, <1>2 DEF OneAccepted
<1> QED
  BY <1>2, <1>3

LEMMA MessageIsOne ==
    ASSUME NEW m \in MessageSet, NEW kind, m.kind = kind, m.n = 1 PROVE m = One(kind)
BY DEF MessageSet, One, Msg

(* call-accepted is sent once, when the call is answered.                  *)
LEMMA AcceptedKeeps ==
    ASSUME PageInv, FirstInv, AcceptPosted, status = "RINGING" PROVE FirstInv'
<1>1. CountsFaults
  BY FaultsCount DEF FirstInv, AcceptPosted
<1>2. /\ {"CALLER", "RECEIVER"} \subseteq Pages /\ {"reply", "refused"} \subseteq Steps /\ StateOK
  BY DEF Pages, Steps, PageInv, TypeInv
<1>3. TalkRests /\ UNCHANGED <<pc, pending, told, due>>
  BY <1>2, OthersTalk DEF AcceptPosted
<1>4. ~Carries("CALLER", "call-accepted") /\ op["CALLER"]["answered"] = ""
  BY DEF PageInv, AnswerInv, Answered
<1>5. /\ \A q \in Pages : Unused(q)
      /\ ~due["CALLER"] /\ op["CALLER"]["restart"] = "" /\ ~pc["CALLER"].open
  BY DEF FirstInv, UnusedInv, OnceInv, Before, Unanswered
<1> DEFINE r == <<Msg("call-accepted", 0)>>
<1>6. /\ inbox'["RECEIVER"] = inbox["RECEIVER"]
      /\ inbox'["CALLER"] = inbox["CALLER"] \/ inbox'["CALLER"] = inbox["CALLER"] \o r
  <2>1. inbox' = Sent(inbox, "CALLER", r)
    BY DEF AcceptPosted
  <2> QED
    BY <1>2, <2>1 DEF Sent, PageInv, TypeInv, InboxOK
<1>7. /\ r \in Seq(MessageSet) /\ ~Among(r, "offer") /\ ~Among(r, "answer") /\ OneAccepted(r)
  BY DEF Msg, MessageSet, Messages, Among, OneAccepted
<1>8. inbox["CALLER"] \in Seq(MessageSet)
  BY <1>2, BoxType DEF PageInv
<1> HIDE DEF r
<1>9. OneAccepted(inbox'["CALLER"])
  BY <1>4, <1>6, <1>7, <1>8, ConcatAccepted DEF FirstInv, OnceInv, Carries
<1>10. \A q \in Pages, kind \in {"offer", "answer"} : Carries(q, kind)' => Carries(q, kind)
  <2>1. \A kind \in {"offer", "answer"} :
           Among(inbox["CALLER"] \o r, kind) => Among(inbox["CALLER"], kind)
    BY <1>7, <1>8, ConcatHas
  <2> QED
    BY <1>6, <2>1 DEF Carries, Pages
<1>12. op'["CALLER"]["answered"] = "" /\ op'["CALLER"]["restart"] = ""
       /\ op'["RECEIVER"]["answer"] = ""
  BY <1>2, <1>3, <1>4, <1>5 DEF TalkRests, Talk, Unused
<1>13. OnceInv'
  <2>1. ~Carries("RECEIVER", "answer")'
    BY <1>2, <1>5, <1>10 DEF Unused
  <2>2. ~pc'["CALLER"].open
    BY <1>3, <1>5
  <2> QED
    BY <1>1, <1>9, <1>12, <2>1, <2>2 DEF OnceInv, CountsFaults
<1>14. \A q \in Pages : Unused(q)'
  BY <1>3, <1>5, <1>10 DEF Unused, TalkRests, Talk
<1>15. UnusedInv'
  BY <1>3, <1>5, <1>12, <1>14 DEF UnusedInv
<1> QED
  BY <1>13, <1>14, <1>15, UnusedKeptNext DEF FirstInv, AllUnused

(* Its handler opens the caller's connection.                              *)
LEMMA OnAcceptedKeeps ==
    ASSUME PageInv, FirstInv, NEW p \in Pages, OnAccepted(p) PROVE FirstInv'
<1>1. CountsFaults
  BY FaultsCount DEF FirstInv, OnAccepted
<1>2. inbox[p] # <<>> /\ inbox' = Took(p) /\ Head(inbox[p]).kind = "call-accepted"
      /\ inbox[p] \in Seq(MessageSet)
  BY BoxType DEF OnAccepted, Gets, Next1, PageInv
<1>3. Carries(p, "call-accepted")
  BY <1>2, TailIs DEF Carries, Among
<1>4. p = "CALLER" /\ status # "RINGING"
  BY <1>3 DEF PageInv, Roles, AnswerInv, Answered, Pages
<1>5. MailQuiet
  BY <1>2, QuietTook DEF PageInv
<1>6. ~Carries("CALLER", "call-accepted")'
  <2>1. inbox'[p] = Tail(inbox[p])
    BY <1>2 DEF Took, PageInv, TypeInv, InboxOK
  <2>2. OneAccepted(inbox[p])
    BY <1>4 DEF FirstInv, OnceInv
  <2> QED
    BY <1>2, <1>4, <2>1, <2>2, HeadWasAccepted DEF Carries
<1>7. /\ \A q \in Pages : Unused(q)
      /\ ~due["CALLER"] /\ op["CALLER"]["restart"] = "" /\ ~pc["CALLER"].open
  BY <1>3, <1>4 DEF FirstInv, UnusedInv, OnceInv, Before, Unanswered
<1>8. /\ StateOK /\ "answered" \in Talk /\ "media" \in Steps
      /\ {"CALLER", "RECEIVER"} \subseteq Pages
  BY DEF PageInv, TypeInv, Talk, Steps, Pages
<1>9. op'[p]["answered"] = "media"
      /\ \A q \in Pages, g \in Talk : q # p \/ g # "answered" => op'[q][g] = op[q][g]
  BY <1>8, TalkGoes DEF OnAccepted
<1>10. \A q \in Pages : pc'[q].rem = 0
  <2>1. pc'[p] = FreshPeer /\ FreshPeer.rem = 0
    BY <1>4, <1>7, <1>8 DEF OnAccepted, WithPeer, StateOK, FreshPeer, NoPeer
  <2>2. \A q \in Pages : q # p => pc'[q] = pc[q]
    BY <1>8 DEF OnAccepted, StateOK
  <2> QED
    BY <1>7, <2>1, <2>2 DEF Unused
<1>11. \A q \in Pages, kind \in {"offer", "answer", "call-accepted"} :
          Carries(q, kind)' => Carries(q, kind)
  BY <1>5, CalmCarries
<1>12. \A q \in Pages : Unused(q)'
  BY <1>7, <1>9, <1>10, <1>11 DEF Unused, Talk
<1>13. OnceInv'
  <2>1. OneAccepted(inbox'["CALLER"])
    BY <1>5, <1>8 DEF MailQuiet, Quieter, FirstInv, OnceInv
  <2>2. ~Unanswered' /\ Before'
    BY <1>4, <1>6, <1>9 DEF Unanswered, Before, OnAccepted
  <2>3. ~Carries("RECEIVER", "answer")' /\ op'["RECEIVER"]["answer"] = ""
    BY <1>8, <1>12 DEF Unused
  <2> QED
    BY <1>1, <1>6, <2>1, <2>2, <2>3 DEF OnceInv, CountsFaults
<1>14. UnusedInv'
  <2>1. op'["CALLER"]["restart"] = ""
    BY <1>7, <1>8, <1>9 DEF Talk
  <2>2. ~due'["CALLER"]
    BY <1>7 DEF OnAccepted
  <2> QED
    BY <1>12, <2>1, <2>2 DEF UnusedInv
<1> QED
  BY <1>12, <1>13, <1>14, UnusedKeptNext DEF FirstInv, AllUnused

(* An offer, or an answer, and its candidate.                              *)
LEMMA PairIs ==
    ASSUME NEW kind \in {"offer", "answer"}, NEW n \in Nat, NEW r,
           r = <<Msg(kind, n), Msg("ice-candidate", n)>>
    PROVE  /\ r \in Seq(MessageSet) /\ Paired(r) /\ FirstLeads(r) /\ OneAccepted(r)
           /\ \A k : Among(r, k) <=> k \in {kind, "ice-candidate"}
           /\ Has(r, One("offer")) => kind = "offer" /\ n = 1
<1>1. /\ r \in Seq(MessageSet) /\ DOMAIN r = {1, 2} /\ r[1] = Msg(kind, n)
      /\ r[2] = Msg("ice-candidate", n)
  <2>1. {"offer", "answer", "ice-candidate"} \subseteq Messages
    BY DEF Messages
  <2> QED
    BY <2>1, MsgType
<1>2. /\ r[1].kind = kind /\ r[1].n = n /\ r[2].kind = "ice-candidate"
  BY <1>1 DEF Msg
<1>3. /\ One("offer").kind = "offer" /\ One("answer").kind = "answer"
      /\ One("offer").n = 1 /\ One("answer").n = 1
  BY DEF One, Msg
<1>4. Paired(r)
  <2> SUFFICES ASSUME NEW i \in DOMAIN r, r[i] \in {One("offer"), One("answer")}
               PROVE  i + 1 \in DOMAIN r /\ r[i + 1] = One("ice-candidate")
    BY DEF Paired
  <2>1. i = 1
    BY <1>1, <1>2, <1>3
  <2>2. n = 1
    BY <1>2, <1>3, <2>1
  <2> QED
    BY <1>1, <2>1, <2>2 DEF One
<1>5. FirstLeads(r)
  BY <1>1, <1>2, <1>3 DEF FirstLeads
<1>6. OneAccepted(r)
  BY <1>1, <1>2 DEF OneAccepted
<1>7. \A k : Among(r, k) <=> k \in {kind, "ice-candidate"}
  BY <1>1, <1>2 DEF Among
<1>8. Has(r, One("offer")) => kind = "offer" /\ n = 1
  BY <1>1, <1>2, <1>3 DEF Has
<1> QED
  BY <1>1, <1>4, <1>5, <1>6, <1>7, <1>8

LEMMA RelayedTo ==
    ASSUME TypeInv, NEW p \in Pages, NEW msgs \in Seq(MessageSet), inbox' = Relayed(inbox, p, msgs)
    PROVE  /\ inbox'[p] = inbox[p]
           /\ inbox'[Other(p)] = inbox[Other(p)] \/ inbox'[Other(p)] = inbox[Other(p)] \o msgs
BY DEF Relayed, Sent, Other, Pages, TypeInv, InboxOK

(* What a page gets behind what it has.                                    *)
LEMMA PairArrives ==
    ASSUME TypeInv, NEW q \in Pages, NEW kind \in {"offer", "answer"}, NEW n \in Nat, NEW r,
           r = <<Msg(kind, n), Msg("ice-candidate", n)>>,
           inbox'[q] = inbox[q] \/ inbox'[q] = inbox[q] \o r
    PROVE  /\ Paired(inbox[q]) => Paired(inbox'[q])
           /\ FirstLeads(inbox[q]) /\ (kind = "offer" /\ n = 1 => ~Carries(q, "offer"))
                => FirstLeads(inbox'[q])
           /\ OneAccepted(inbox[q]) => OneAccepted(inbox'[q])
           /\ \A k \in {"offer", "answer", "call-accepted"} :
                 Carries(q, k)' => Carries(q, k) \/ k = kind
           /\ Has(inbox'[q], One("offer")) =>
                 Has(inbox[q], One("offer")) \/ (kind = "offer" /\ n = 1)
           /\ Arrives(q) => Arrives(q)'
<1>1. CASE inbox'[q] = inbox[q]
  BY <1>1 DEF Carries, Arrives
<1>2. CASE inbox'[q] = inbox[q] \o r
  <2>1. /\ r \in Seq(MessageSet) /\ Paired(r) /\ FirstLeads(r) /\ OneAccepted(r)
        /\ \A k : Among(r, k) <=> k \in {kind, "ice-candidate"}
        /\ Has(r, One("offer")) => kind = "offer" /\ n = 1
    BY PairIs
  <2>2. inbox[q] \in Seq(MessageSet)
    BY BoxType
  <2>3. "call-accepted" \notin {kind, "ice-candidate"} /\ "offer" # "ice-candidate"
        /\ "answer" # "ice-candidate"
    OBVIOUS
  <2>10. /\ \A m : Has(inbox'[q], m) <=> Has(inbox[q], m) \/ Has(r, m)
         /\ \A k : Among(inbox'[q], k) <=> Among(inbox[q], k) \/ Among(r, k)
    <3>1. r \in Seq(MessageSet)
      BY <2>1
    <3>2. /\ \A m : Has(inbox[q] \o r, m) <=> Has(inbox[q], m) \/ Has(r, m)
          /\ \A k : Among(inbox[q] \o r, k) <=> Among(inbox[q], k) \/ Among(r, k)
      BY <2>2, <3>1, ConcatHas, Zenon
    <3> QED
      BY <1>2, <3>2, Zenon
  <2>4. Paired(inbox[q]) => Paired(inbox'[q])
    BY <1>2, <2>1, <2>2, ConcatPaired
  <2>5. FirstLeads(inbox[q]) /\ (kind = "offer" /\ n = 1 => ~Carries(q, "offer"))
          => FirstLeads(inbox'[q])
    BY <1>2, <2>1, <2>2, ConcatLeads DEF Carries
  <2>6. OneAccepted(inbox[q]) => OneAccepted(inbox'[q])
    BY <1>2, <2>1, <2>2, <2>3, ConcatAccepted
  <2>7. \A k \in {"offer", "answer", "call-accepted"} :
           Carries(q, k)' => Carries(q, k) \/ k = kind
    BY <2>1, <2>3, <2>10, Zenon DEF Carries
  <2>8. Has(inbox'[q], One("offer")) => Has(inbox[q], One("offer")) \/ (kind = "offer" /\ n = 1)
    BY <2>1, <2>10, Zenon
  <2>9. Arrives(q) => Arrives(q)'
    BY <2>10, Zenon DEF Arrives
  <2> QED
    BY <2>4, <2>5, <2>6, <2>7, <2>8, <2>9
<1> QED
  BY <1>1, <1>2

(* The caller offers, for the first time in the handler of call-accepted.  *)
LEMMA OffersKeeps ==
    ASSUME PageInv, FirstInv, NEW p \in Pages, pc[p].open, AnsweredOffer(p) \/ Restart(p)
    PROVE  FirstInv'
<1>1. CountsFaults
  BY FaultsCount DEF FirstInv, AnsweredOffer, Restart
<1>2. StateOK /\ "" \in Steps /\ {"answered", "restart"} \subseteq Talk
      /\ {"CALLER", "RECEIVER"} \subseteq Pages /\ Other("CALLER") = "RECEIVER"
  BY DEF PageInv, TypeInv, Steps, Talk, Pages, Other
<1>3. p = "CALLER"
  BY DEF PageInv, Roles, AnsweredOffer, Restart, At, Pages
<1>4. Offers(p) /\ UNCHANGED <<status, pending, told, due>>
  BY DEF AnsweredOffer, Restart
<1>5. PICK f \in {"answered", "restart"} : op[p][f] = "offer" /\ Goes(p, f, "")
  BY DEF AnsweredOffer, Restart, At
<1>6. op'[p][f] = "" /\ \A q \in Pages, g \in Talk : q # p \/ g # f => op'[q][g] = op[q][g]
  BY <1>2, <1>5, TalkGoes
<1>7. ~Unanswered
  BY <1>3 DEF FirstInv, OnceInv
<1> DEFINE n == pc[p].loc + 1
           r == <<Msg("offer", n), Msg("ice-candidate", n)>>
<1>8. pc[p] \in Peers /\ pc[p].loc \in Nat
  BY <1>2, PeerParts DEF StateOK
<1>9. n \in Nat /\ n # 0 /\ (pc[p].loc # 0 => n # 1)
  BY <1>8
<1>10. pc' = [pc EXCEPT ![p] = [pc[p] EXCEPT !.loc = n, !.offered = TRUE]]
       /\ inbox' = Relayed(inbox, p, r)
  BY <1>4 DEF Offers
<1> HIDE DEF n
<1>11. /\ pc'["CALLER"].open = pc["CALLER"].open /\ pc'["CALLER"].rem = pc["CALLER"].rem
       /\ pc'["CALLER"].cands = pc["CALLER"].cands /\ pc'["CALLER"].loc = n
  BY <1>2, <1>3, <1>8, <1>10 DEF StateOK, Peers
<1>12. pc'["RECEIVER"] = pc["RECEIVER"]
  BY <1>2, <1>3, <1>10 DEF StateOK
<1>13. inbox'["CALLER"] = inbox["CALLER"]
       /\ (inbox'["RECEIVER"] = inbox["RECEIVER"] \/ inbox'["RECEIVER"] = inbox["RECEIVER"] \o r)
  <2>1. r \in Seq(MessageSet)
    BY <1>9, PairIs
  <2> QED
    BY <1>2, <1>3, <1>10, <2>1, RelayedTo DEF PageInv
<1> HIDE DEF r
<1>14. /\ Paired(inbox["RECEIVER"]) => Paired(inbox'["RECEIVER"])
       /\ FirstLeads(inbox["RECEIVER"]) /\ (n = 1 => ~Carries("RECEIVER", "offer"))
            => FirstLeads(inbox'["RECEIVER"])
       /\ Carries("RECEIVER", "answer")' => Carries("RECEIVER", "answer")
       /\ Has(inbox'["RECEIVER"], One("offer")) => Has(inbox["RECEIVER"], One("offer")) \/ n = 1
       /\ Arrives("RECEIVER") => Arrives("RECEIVER")'
  BY <1>2, <1>9, <1>13, PairArrives DEF PageInv, r
<1>15. n = 1 => Before
  BY <1>3, <1>9 DEF FirstInv, OnceInv
<1>16. op'["CALLER"]["answered"] \in {op["CALLER"]["answered"], ""}
  BY <1>2, <1>3, <1>6
<1>17. OnceInv'
  <2>1. OneAccepted(inbox'["CALLER"])
    BY <1>13 DEF FirstInv, OnceInv
  <2>2. ~Carries("CALLER", "call-accepted")' /\ ~Unanswered'
    BY <1>4, <1>7, <1>13 DEF Unanswered, Carries
  <2>3. ~Carries("RECEIVER", "answer")' /\ op'["RECEIVER"]["answer"] = ""
    BY <1>2, <1>3, <1>6, <1>14 DEF FirstInv, OnceInv, Talk
  <2> QED
    BY <1>1, <1>9, <1>11, <2>1, <2>2, <2>3 DEF OnceInv, CountsFaults
<1>18. ~Before'
  <2>1. ~Unanswered'
    BY <1>4, <1>7, <1>13 DEF Unanswered, Carries
  <2>2. op'["CALLER"]["answered"] = ""
    <3>1. CASE f = "answered"
      BY <1>3, <1>6, <3>1
    <3>2. CASE f = "restart"
      <4>1. ~Before
        BY <1>3, <1>5, <3>2 DEF FirstInv, UnusedInv
      <4> QED
        BY <1>16, <4>1 DEF Before
    <3> QED
      BY <3>1, <3>2
  <2> QED
    BY <2>1, <2>2 DEF Before
<1>19. KeptInv'
  <2> SUFFICES ASSUME faults'["blip"] = 0 PROVE \A q \in Pages : Kept(q)'
    BY DEF KeptInv
  <2>1. \A q \in Pages : Kept(q)
    BY <1>1 DEF CountsFaults, FirstInv, KeptInv
  <2>2. \A q \in Pages : op'[q]["offer"] = op[q]["offer"] /\ op'[q]["answer"] = op[q]["answer"]
    BY <1>5, <1>6 DEF Talk
  <2>3. Kept("CALLER")'
    BY <1>2, <1>4, <1>11, <1>13, <2>1, <2>2, QuietSame, PageKept
  <2>4. n = 1 => Unused("RECEIVER")
    BY <1>2, <1>15 DEF FirstInv, UnusedInv
  <2>5. Paired(inbox'["RECEIVER"]) /\ FirstLeads(inbox'["RECEIVER"])
    BY <1>2, <1>14, <2>1, <2>4 DEF Kept, Unused
  <2>6. Offered("RECEIVER")'
    BY <1>2, <1>12, <1>14, <2>1, <2>2, <2>4 DEF Kept, Offered, Unused
  <2>7. (Waits("RECEIVER") => Waits("RECEIVER")') /\ (Known("RECEIVER") => Known("RECEIVER")')
    BY <1>4, <1>12, <1>14 DEF Waits, Known
  <2>8. op["RECEIVER"]["offer"] # "" => n # 1
    BY <2>4 DEF Unused
  <2>9. Applying("RECEIVER")'
    BY <1>2, <1>4, <1>12, <1>14, <2>1, <2>2, <2>7, <2>8 DEF Kept, Applying
  <2>10. Answering("RECEIVER")' /\ Keeping("RECEIVER")'
    BY <1>2, <1>4, <1>12, <2>1, <2>2, <2>7 DEF Kept, Answering, Keeping
  <2>11. Kept("RECEIVER")'
    BY <2>5, <2>6, <2>9, <2>10 DEF Kept
  <2> QED
    BY <2>3, <2>11 DEF Pages
<1> QED
  BY <1>17, <1>18, <1>19 DEF FirstInv, UnusedInv

(* From the first offer on only what is kept is at stake.                  *)
LEMMA TalkingKeeps ==
    ASSUME FirstInv, ~Before, CountsFaults, MailOnce, UNCHANGED status, CalmCaller,
           op'["RECEIVER"]["answer"] = "", KeptInv'
    PROVE  FirstInv'
<1>1. OnceInv' /\ (Before' => Before)
  BY OnceKeeps DEF FirstInv
<1> QED
  BY <1>1 DEF FirstInv, UnusedInv

LEMMA TalkIsPast ==
    ASSUME FirstInv, NEW p \in Pages,
           \/ Carries(p, "offer") \/ Carries(p, "answer") \/ op[p]["offer"] # ""
           \/ op[p]["answer"] # ""
    PROVE  ~Before
BY DEF FirstInv, UnusedInv, Unused

(* The receiver takes an offer.                                            *)
LEMMA OnOfferKeeps ==
    ASSUME PageInv, FirstInv, NEW p \in Pages, pc[p].open, OnOffer(p) PROVE FirstInv'
<1>1. CountsFaults
  BY FaultsCount DEF FirstInv, OnOffer
<1>2. inbox[p] # <<>> /\ inbox' = Took(p) /\ Head(inbox[p]).kind = "offer"
      /\ inbox[p] \in Seq(MessageSet)
  BY BoxType DEF OnOffer, Gets, Next1, PageInv
<1>3. Carries(p, "offer") /\ Head(inbox[p]) \in MessageSet /\ Has(inbox[p], Head(inbox[p]))
  BY <1>2, TailIs DEF Carries, Among, Has
<1>4. p = "RECEIVER" /\ ~Before
  BY <1>3, TalkIsPast DEF PageInv, Roles, Pages
<1>5. MailQuiet /\ MailKeeps /\ inbox'[p] = Tail(inbox[p])
  BY <1>2, QuietGot DEF OnOffer, PageInv, TypeInv, InboxOK, Took
<1>6. StateOK /\ {"media", "remote"} \subseteq Steps /\ "offer" \in Talk
      /\ {"CALLER", "RECEIVER"} \subseteq Pages
  BY DEF PageInv, TypeInv, Steps, Talk, Pages
<1>7. UNCHANGED <<status, pc, pending, due>>
  BY DEF OnOffer
<1>8. /\ op'[p]["offer"] \in {"media", "remote"}
      /\ \A q \in Pages, g \in Talk : q # p \/ g # "offer" => op'[q][g] = op[q][g]
  <2>1. PICK step \in {"media", "remote"} : Goes(p, "offer", step)
    BY DEF OnOffer
  <2> QED
    BY <1>6, <2>1, TalkGoes
<1>9. told'[p] = Head(inbox[p]).n /\ \A q \in Pages : q # p => told'[q] = told[q]
  BY <1>6 DEF OnOffer, StateOK
<1>10. op["RECEIVER"]["answer"] = "" /\ op'["RECEIVER"]["answer"] = ""
  BY <1>4, <1>6, <1>8 DEF FirstInv, OnceInv, Talk
<1>11. CalmCaller
  BY <1>4, <1>6, <1>7, <1>8 DEF CalmCaller, Talk
<1>12. KeptInv'
  <2> SUFFICES ASSUME faults'["blip"] = 0, NEW q \in Pages PROVE Kept(q)'
    BY DEF KeptInv
  <2>1. Kept(q) /\ Kept(p)
    BY <1>1 DEF CountsFaults, FirstInv, KeptInv
  <2>2. Quieter(inbox[q], inbox'[q])
        /\ (Has(inbox[q], One("ice-candidate")) => Has(inbox'[q], One("ice-candidate")))
    BY <1>5 DEF MailQuiet, MailKeeps
  <2>3. CASE q # p
    <3>1. op'[q]["offer"] = op[q]["offer"] /\ op'[q]["answer"] = op[q]["answer"]
      BY <1>8, <2>3 DEF Talk
    <3> QED
      BY <1>7, <1>9, <2>1, <2>2, <2>3, <3>1, PageKept
  <2>4. CASE q = p
    <3>1. Paired(inbox'[p]) /\ FirstLeads(inbox'[p])
      BY <2>1, <2>2, <2>4 DEF Kept, Quieter
    <3>2. ~Has(inbox'[p], One("offer"))
      BY <1>2, <1>5, <2>1, HeadOfferLeads DEF Kept
    <3>3. Offered(p)'
      BY <3>2 DEF Offered
    <3>4. Applying(p)'
      <4> SUFFICES ASSUME told'[p] = 1 PROVE pc'[p].rem = 0 /\ Waits(p)'
        BY <3>2 DEF Applying
      <4>1. Head(inbox[p]) = One("offer")
        BY <1>2, <1>3, <1>9, MessageIsOne
      <4>2. pc[p].rem = 0
        BY <1>3, <2>1, <4>1 DEF Kept, Offered
      <4>3. Has(inbox'[p], One("ice-candidate"))
        BY <1>2, <1>5, <2>1, <4>1, HeadIsPaired DEF Kept
      <4> QED
        BY <1>7, <4>2, <4>3 DEF Waits, Arrives
    <3>5. Answering(p)'
      <4>1. op'[p]["answer"] # "remote"
        BY <1>4, <1>10
      <4> QED
        BY <4>1, Zenon DEF Answering
    <3>6. Keeping(p)'
      BY <1>7, <2>1, <2>2, <2>4 DEF Kept, Keeping, Known, Arrives
    <3> QED
      BY <2>4, <3>1, <3>3, <3>4, <3>5, <3>6 DEF Kept
  <2> QED
    BY <2>3, <2>4
<1> QED
  BY <1>1, <1>4, <1>5, <1>7, <1>10, <1>11, <1>12, QuietIsOnce, TalkingKeeps

(* It applies the offer, with the candidates in the queue.                 *)
LEMMA OfferRemoteKeeps ==
    ASSUME PageInv, FirstInv, NEW p \in Pages, pc[p].open, OfferRemote(p) PROVE FirstInv'
<1>1. CountsFaults
  BY FaultsCount DEF FirstInv, OfferRemote
<1>2. op[p]["offer"] = "remote" /\ Goes(p, "offer", "local")
      /\ UNCHANGED <<inbox, status, told, due>>
  BY DEF OfferRemote, At
<1>3. ~Before
  BY <1>2, TalkIsPast
<1>4. p = "RECEIVER"
  BY <1>2 DEF PageInv, Roles, Pages
<1>5. StateOK /\ "local" \in Steps /\ "offer" \in Talk /\ {"CALLER", "RECEIVER"} \subseteq Pages
  BY DEF PageInv, TypeInv, Steps, Talk, Pages
<1>6. /\ op'[p]["offer"] = "local"
      /\ \A q \in Pages, g \in Talk : q # p \/ g # "offer" => op'[q][g] = op[q][g]
  BY <1>2, <1>5, TalkGoes
<1>7. /\ pc'[p].rem = told[p] /\ pc'[p].cands = (pc[p].cands \cup pending[p]) \cap {told[p]}
  <2>1. pc'[p] = Remote(p, told[p]) /\ pc[p] \in Peers
    BY <1>5 DEF OfferRemote, StateOK
  <2> QED
    BY <2>1 DEF Remote, Peers
<1>8. \A q \in Pages : q # p => pc'[q] = pc[q] /\ pending'[q] = pending[q]
  BY <1>5 DEF OfferRemote, StateOK
<1>9. op["RECEIVER"]["answer"] = "" /\ op'["RECEIVER"]["answer"] = ""
  BY <1>4, <1>5, <1>6 DEF FirstInv, OnceInv, Talk
<1>10. CalmCaller
  BY <1>2, <1>4, <1>5, <1>6, <1>8 DEF CalmCaller, Talk
<1>11. MailQuiet /\ MailKeeps
  BY <1>2, QuietUnchanged
<1>12. KeptInv'
  <2> SUFFICES ASSUME faults'["blip"] = 0, NEW q \in Pages PROVE Kept(q)'
    BY DEF KeptInv
  <2>1. Kept(q) /\ Kept(p)
    BY <1>1 DEF CountsFaults, FirstInv, KeptInv
  <2>2. Quieter(inbox[q], inbox'[q])
        /\ (Has(inbox[q], One("ice-candidate")) => Has(inbox'[q], One("ice-candidate")))
    BY <1>11 DEF MailQuiet, MailKeeps
  <2>3. CASE q # p
    <3>1. op'[q]["offer"] = op[q]["offer"] /\ op'[q]["answer"] = op[q]["answer"]
      BY <1>6, <2>3 DEF Talk
    <3> QED
      BY <1>2, <1>8, <2>1, <2>2, <2>3, <3>1, PageKept
  <2>4. CASE q = p
    <3>1. Paired(inbox'[p]) /\ FirstLeads(inbox'[p])
      BY <2>1, <2>2, <2>4 DEF Kept, Quieter
    <3>2. ~Has(inbox'[p], One("offer"))
      BY <1>2, <2>1 DEF Kept, Offered
    <3>3. Offered(p)'
      BY <3>2 DEF Offered
    <3>4. op'[p]["answer"] # "remote" /\ op'[p]["offer"] \notin {"media", "remote"}
      BY <1>4, <1>6, <1>9
    <3>5. Applying(p)' /\ Answering(p)'
      BY <3>4, Zenon DEF Applying, Answering
    <3>6. Keeping(p)'
      <4> SUFFICES ASSUME pc'[p].rem = 1 PROVE Known(p)'
        BY DEF Keeping
      <4>1. told[p] = 1
        BY <1>7
      <4>2. Waits(p)
        BY <1>2, <2>1, <4>1 DEF Kept, Applying
      <4> QED
        BY <1>2, <1>7, <4>1, <4>2 DEF Waits, Known, Arrives
    <3> QED
      BY <2>4, <3>1, <3>3, <3>5, <3>6 DEF Kept
  <2> QED
    BY <2>3, <2>4
<1> QED
  BY <1>1, <1>2, <1>3, <1>9, <1>10, <1>11, <1>12, QuietIsOnce, TalkingKeeps

(* It answers.                                                             *)
LEMMA OfferAnswerKeeps ==
    ASSUME PageInv, FirstInv, NEW p \in Pages, pc[p].open, OfferAnswer(p) PROVE FirstInv'
<1>1. CountsFaults
  BY FaultsCount DEF FirstInv, OfferAnswer
<1>2. op[p]["offer"] = "local" /\ Goes(p, "offer", "") /\ Forgets(p)
      /\ UNCHANGED <<status, pending, due>>
  BY DEF OfferAnswer, At
<1>3. ~Before
  BY <1>2, TalkIsPast
<1>4. p = "RECEIVER"
  BY <1>2 DEF PageInv, Roles, Pages
<1>5. StateOK /\ "" \in Steps /\ "offer" \in Talk /\ {"CALLER", "RECEIVER"} \subseteq Pages
      /\ Other("RECEIVER") = "CALLER"
  BY DEF PageInv, TypeInv, Steps, Talk, Pages, Other
<1>6. /\ op'[p]["offer"] = ""
      /\ \A q \in Pages, g \in Talk : q # p \/ g # "offer" => op'[q][g] = op[q][g]
  BY <1>2, <1>5, TalkGoes
<1> DEFINE n == told[p]
           r == <<Msg("answer", n), Msg("ice-candidate", n)>>
<1>7. n \in Nat
  BY <1>5 DEF StateOK
<1>8. pc' = [pc EXCEPT ![p].loc = n] /\ inbox' = Relayed(inbox, p, r)
  BY DEF OfferAnswer
<1> HIDE DEF n
<1>9. /\ pc'[p].open = pc[p].open /\ pc'[p].rem = pc[p].rem /\ pc'[p].cands = pc[p].cands
  <2>1. pc'[p] = [pc[p] EXCEPT !.loc = n] /\ pc[p] \in Peers
    BY <1>5, <1>8 DEF StateOK
  <2> QED
    BY <2>1 DEF Peers
<1>10. pc'["CALLER"] = pc["CALLER"] /\ told'["CALLER"] = told["CALLER"]
  BY <1>2, <1>4, <1>5, <1>8 DEF StateOK, Forgets
<1>11. inbox'["RECEIVER"] = inbox["RECEIVER"]
       /\ (inbox'["CALLER"] = inbox["CALLER"] \/ inbox'["CALLER"] = inbox["CALLER"] \o r)
  <2>1. r \in Seq(MessageSet)
    BY <1>7, PairIs
  <2> QED
    BY <1>4, <1>5, <1>8, <2>1, RelayedTo DEF PageInv
<1> HIDE DEF r
<1>12. /\ Paired(inbox["CALLER"]) => Paired(inbox'["CALLER"])
       /\ FirstLeads(inbox["CALLER"]) => FirstLeads(inbox'["CALLER"])
       /\ OneAccepted(inbox["CALLER"]) => OneAccepted(inbox'["CALLER"])
       /\ Carries("CALLER", "call-accepted")' => Carries("CALLER", "call-accepted")
       /\ Has(inbox'["CALLER"], One("offer")) => Has(inbox["CALLER"], One("offer"))
       /\ Arrives("CALLER") => Arrives("CALLER")'
  BY <1>5, <1>7, <1>11, PairArrives DEF PageInv, r
<1>13. op["RECEIVER"]["answer"] = "" /\ op'["RECEIVER"]["answer"] = ""
  BY <1>4, <1>5, <1>6 DEF FirstInv, OnceInv, Talk
<1>14. CalmCaller
  BY <1>2, <1>4, <1>5, <1>6, <1>10 DEF CalmCaller, Talk
<1>15. MailOnce
  BY <1>11, <1>12 DEF MailOnce, Carries
<1>16. KeptInv'
  <2> SUFFICES ASSUME faults'["blip"] = 0 PROVE \A q \in Pages : Kept(q)'
    BY DEF KeptInv
  <2>1. \A q \in Pages : Kept(q)
    BY <1>1 DEF CountsFaults, FirstInv, KeptInv
  <2>2. Kept("CALLER")'
    <3>1. op'["CALLER"]["offer"] = op["CALLER"]["offer"]
          /\ op'["CALLER"]["answer"] = op["CALLER"]["answer"]
      BY <1>4, <1>5, <1>6 DEF Talk
    <3>2. pending'["CALLER"] = pending["CALLER"] /\ Kept("CALLER")
      BY <1>2, <1>5, <2>1
    <3>3. (Waits("CALLER") => Waits("CALLER")') /\ (Known("CALLER") => Known("CALLER")')
      BY <1>10, <1>12, <3>2 DEF Waits, Known
    <3>4. Paired(inbox'["CALLER"]) /\ FirstLeads(inbox'["CALLER"])
      BY <1>12, <3>2 DEF Kept
    <3>5. Offered("CALLER")' /\ Applying("CALLER")'
      BY <1>10, <1>12, <3>1, <3>2, <3>3 DEF Kept, Offered, Applying
    <3>6. Answering("CALLER")' /\ Keeping("CALLER")'
      BY <1>10, <3>1, <3>2, <3>3 DEF Kept, Answering, Keeping
    <3> QED
      BY <3>4, <3>5, <3>6 DEF Kept
  <2>3. Kept("RECEIVER")'
    <3>1. Kept("RECEIVER")
      BY <1>5, <2>1
    <3>2. Paired(inbox'["RECEIVER"]) /\ FirstLeads(inbox'["RECEIVER"])
      BY <1>11, <3>1 DEF Kept
    <3>3. Offered("RECEIVER")'
      BY <1>4, <1>6, <1>9, <1>11, <3>1 DEF Kept, Offered
    <3>4. op'["RECEIVER"]["answer"] # "remote" /\ op'["RECEIVER"]["offer"] \notin {"media", "remote"}
      BY <1>4, <1>6, <1>13
    <3>5. Applying("RECEIVER")' /\ Answering("RECEIVER")'
      BY <3>4, Zenon DEF Applying, Answering
    <3>6. Keeping("RECEIVER")'
      BY <1>4, <1>9, <1>11, <3>1 DEF Kept, Keeping, Known, Arrives
    <3> QED
      BY <3>2, <3>3, <3>5, <3>6 DEF Kept
  <2> QED
    BY <2>2, <2>3 DEF Pages
<1> QED
  BY <1>1, <1>2, <1>3, <1>13, <1>14, <1>15, <1>16, TalkingKeeps

(* The caller takes the answer.                                            *)
LEMMA OnAnswerKeeps ==
    ASSUME PageInv, FirstInv, NEW p \in Pages, pc[p].open, OnAnswer(p) PROVE FirstInv'
<1>1. CountsFaults
  BY FaultsCount DEF FirstInv, OnAnswer
<1>2. inbox[p] # <<>> /\ inbox' = Took(p) /\ Head(inbox[p]).kind = "answer"
      /\ inbox[p] \in Seq(MessageSet)
  BY BoxType DEF OnAnswer, Gets, Next1, PageInv
<1>3. Carries(p, "answer") /\ Head(inbox[p]) \in MessageSet
  BY <1>2, TailIs DEF Carries, Among
<1>4. p = "CALLER" /\ ~Before
  BY <1>3, TalkIsPast DEF FirstInv, OnceInv, Pages
<1>5. MailQuiet /\ MailKeeps /\ inbox'[p] = Tail(inbox[p])
  BY <1>2, QuietGot DEF OnAnswer, PageInv, TypeInv, InboxOK, Took
<1>6. StateOK /\ "remote" \in Steps /\ "answer" \in Talk
      /\ {"CALLER", "RECEIVER"} \subseteq Pages
  BY DEF PageInv, TypeInv, Steps, Talk, Pages
<1>7. UNCHANGED <<status, pc, pending, due>> /\ Goes(p, "answer", "remote")
  BY DEF OnAnswer
<1>8. /\ op'[p]["answer"] = "remote"
      /\ \A q \in Pages, g \in Talk : q # p \/ g # "answer" => op'[q][g] = op[q][g]
  BY <1>6, <1>7, TalkGoes
<1>9. told'[p] = Head(inbox[p]).n /\ \A q \in Pages : q # p => told'[q] = told[q]
  BY <1>6 DEF OnAnswer, StateOK
<1>10. op'["RECEIVER"]["answer"] = ""
  BY <1>4, <1>6, <1>8 DEF FirstInv, OnceInv
<1>11. op["CALLER"]["offer"] = "" /\ op'["CALLER"]["offer"] = ""
  BY <1>6, <1>8 DEF PageInv, Roles, Talk
<1>12. CalmCaller
  BY <1>4, <1>6, <1>7, <1>8 DEF CalmCaller, Talk
<1>13. KeptInv'
  <2> SUFFICES ASSUME faults'["blip"] = 0, NEW q \in Pages PROVE Kept(q)'
    BY DEF KeptInv
  <2>1. Kept(q) /\ Kept(p)
    BY <1>1 DEF CountsFaults, FirstInv, KeptInv
  <2>2. Quieter(inbox[q], inbox'[q])
        /\ (Has(inbox[q], One("ice-candidate")) => Has(inbox'[q], One("ice-candidate")))
    BY <1>5 DEF MailQuiet, MailKeeps
  <2>3. CASE q # p
    <3>1. op'[q]["offer"] = op[q]["offer"] /\ op'[q]["answer"] = op[q]["answer"]
      BY <1>8, <2>3 DEF Talk
    <3> QED
      BY <1>7, <1>9, <2>1, <2>2, <2>3, <3>1, PageKept
  <2>4. CASE q = p
    <3>1. Paired(inbox'[p]) /\ FirstLeads(inbox'[p])
      BY <2>1, <2>2, <2>4 DEF Kept, Quieter
    <3>2. Offered(p)'
      BY <1>4, <1>7, <1>11, <2>1, <2>2, <2>4 DEF Kept, Offered, Quieter
    <3>3. op'[p]["offer"] \notin {"media", "remote"}
      BY <1>4, <1>11
    <3>4. Applying(p)'
      BY <3>3, Zenon DEF Applying
    <3>5. Answering(p)'
      <4> SUFFICES ASSUME told'[p] = 1 PROVE Waits(p)'
        BY DEF Answering
      <4>1. Head(inbox[p]) = One("answer")
        BY <1>2, <1>3, <1>9, MessageIsOne
      <4>2. Has(inbox'[p], One("ice-candidate"))
        BY <1>2, <1>5, <2>1, <4>1, HeadIsPaired DEF Kept
      <4> QED
        BY <4>2 DEF Waits, Arrives
    <3>6. Keeping(p)'
      BY <1>7, <2>1, <2>2, <2>4 DEF Kept, Keeping, Known, Arrives
    <3> QED
      BY <2>4, <3>1, <3>2, <3>4, <3>5, <3>6 DEF Kept
  <2> QED
    BY <2>3, <2>4
<1> QED
  BY <1>1, <1>4, <1>5, <1>7, <1>10, <1>12, <1>13, QuietIsOnce, TalkingKeeps

(* It applies the answer to the offer that it has made.                    *)
LEMMA AnswerRemoteKeeps ==
    ASSUME PageInv, FirstInv, NEW p \in Pages, pc[p].open, pc[p].offered, AnswerRemote(p)
    PROVE  FirstInv'
<1>1. CountsFaults
  BY FaultsCount DEF FirstInv, AnswerRemote
<1>2. op[p]["answer"] = "remote" /\ Goes(p, "answer", "") /\ Forgets(p)
      /\ UNCHANGED <<inbox, status, due>>
  BY DEF AnswerRemote, At
<1>3. ~Before
  BY <1>2, TalkIsPast
<1>4. p = "CALLER"
  BY <1>2 DEF FirstInv, OnceInv, Pages
<1>5. StateOK /\ "" \in Steps /\ "answer" \in Talk /\ {"CALLER", "RECEIVER"} \subseteq Pages
  BY DEF PageInv, TypeInv, Steps, Talk, Pages
<1>6. /\ op'[p]["answer"] = ""
      /\ \A q \in Pages, g \in Talk : q # p \/ g # "answer" => op'[q][g] = op[q][g]
  BY <1>2, <1>5, TalkGoes
<1>7. /\ pc'[p].rem = told[p] /\ pc'[p].cands = (pc[p].cands \cup pending[p]) \cap {told[p]}
      /\ pc'[p].open = pc[p].open /\ pc'[p].loc = pc[p].loc
  <2>1. pc'[p] = [Remote(p, told[p]) EXCEPT !.offered = FALSE] /\ pc[p] \in Peers
    BY <1>5 DEF AnswerRemote, StateOK
  <2> QED
    BY <2>1 DEF Remote, Peers
<1>8. \A q \in Pages : q # p => pc'[q] = pc[q] /\ pending'[q] = pending[q] /\ told'[q] = told[q]
  BY <1>5 DEF AnswerRemote, StateOK, Forgets
<1>9. op'["RECEIVER"]["answer"] = ""
  BY <1>4, <1>5, <1>6 DEF FirstInv, OnceInv
<1>10. op'["CALLER"]["offer"] = ""
  BY <1>5, <1>6 DEF PageInv, Roles, Talk
<1>11. CalmCaller
  BY <1>2, <1>4, <1>5, <1>6, <1>7 DEF CalmCaller, Talk
<1>12. MailQuiet /\ MailKeeps
  BY <1>2, QuietUnchanged
<1>13. KeptInv'
  <2> SUFFICES ASSUME faults'["blip"] = 0, NEW q \in Pages PROVE Kept(q)'
    BY DEF KeptInv
  <2>1. Kept(q) /\ Kept(p)
    BY <1>1 DEF CountsFaults, FirstInv, KeptInv
  <2>2. Quieter(inbox[q], inbox'[q])
        /\ (Has(inbox[q], One("ice-candidate")) => Has(inbox'[q], One("ice-candidate")))
    BY <1>12 DEF MailQuiet, MailKeeps
  <2>3. CASE q # p
    <3>1. op'[q]["offer"] = op[q]["offer"] /\ op'[q]["answer"] = op[q]["answer"]
      BY <1>6, <2>3 DEF Talk
    <3> QED
      BY <1>8, <2>1, <2>2, <2>3, <3>1, PageKept
  <2>4. CASE q = p
    <3>1. Paired(inbox'[p]) /\ FirstLeads(inbox'[p])
      BY <2>1, <2>2, <2>4 DEF Kept, Quieter
    <3>2. ~Has(inbox'[p], One("offer"))
      <4>1. One("offer").kind = "offer"
        BY DEF One, Msg
      <4> QED
        BY <1>2, <1>4, <4>1 DEF PageInv, Roles, Carries, Among, Has
    <3>3. Offered(p)'
      BY <3>2 DEF Offered
    <3>4. op'[p]["answer"] # "remote" /\ op'[p]["offer"] \notin {"media", "remote"}
      BY <1>4, <1>6, <1>10
    <3>5. Applying(p)' /\ Answering(p)'
      BY <3>4, Zenon DEF Applying, Answering
    <3>6. Keeping(p)'
      <4> SUFFICES ASSUME pc'[p].rem = 1 PROVE Known(p)'
        BY DEF Keeping
      <4>1. told[p] = 1
        BY <1>7
      <4>2. Waits(p) \/ Known(p)
        BY <1>2, <2>1, <4>1 DEF Kept, Answering
      <4> QED
        BY <1>2, <1>7, <4>1, <4>2 DEF Waits, Known, Arrives
    <3> QED
      BY <2>4, <3>1, <3>3, <3>5, <3>6 DEF Kept
  <2> QED
    BY <2>3, <2>4
<1> QED
  BY <1>1, <1>2, <1>3, <1>9, <1>11, <1>12, <1>13, QuietIsOnce, TalkingKeeps

LEMMA FirstInit == Init => FirstInv
<1> SUFFICES ASSUME Init PROVE FirstInv
  OBVIOUS
<1>1. /\ {"CALLER", "RECEIVER"} \subseteq Pages /\ faults \in [Kinds -> Nat]
      /\ {"answered", "offer", "answer", "restart"} \subseteq Functions
  BY DEF Pages, Init, Functions
<1>2. ASSUME NEW p \in Pages, NEW kind PROVE ~Carries(p, kind)
  <2>1. DOMAIN <<>> = {}
    OBVIOUS
  <2>2. inbox[p] = <<>>
    BY DEF Init
  <2> QED
    BY <2>1, <2>2 DEF Carries, Among
<1>3. \A p \in Pages : ~pc[p].open /\ pc[p].rem = 0
  BY DEF Init, NoPeer
<1>4. \A p \in Pages, f \in Functions : op[p][f] = ""
  BY DEF Init
<1>5. OnceInv
  <2>1. DOMAIN <<>> = {}
    OBVIOUS
  <2>2. inbox["CALLER"] = <<>>
    BY <1>1 DEF Init
  <2>3. OneAccepted(inbox["CALLER"])
    BY <2>1, <2>2 DEF OneAccepted
  <2>4. Before
    BY DEF Init, Before, Unanswered
  <2> QED
    BY <1>1, <1>2, <1>3, <1>4, <2>3, <2>4 DEF OnceInv
<1>6. AllUnused
  BY <1>1, <1>2, <1>3, <1>4 DEF AllUnused, Unused
<1>7. UnusedInv
  BY <1>1, <1>4, <1>6 DEF UnusedInv, AllUnused, Init
<1> QED
  BY <1>5, <1>6, <1>7, UnusedKept DEF FirstInv

LEMMA NothingKeeps == ASSUME PageInv, FirstInv, UNCHANGED vars PROVE FirstInv'
<1>1. CountsFaults
  BY FaultsCount DEF FirstInv, vars
<1>2. TalkRests /\ NotRingingAgain /\ UNCHANGED <<pc, pending, told, due>> /\ UNCHANGED inbox
  BY DEF vars, TalkRests, NotRingingAgain
<1> QED
  BY <1>1, <1>2, QuietUnchanged, UntouchedCalm DEF KeepsUnlessBlip

LEMMA HandlerKeeps ==
    ASSUME PageInv, FirstInv, NEW p \in Pages, Handler(p) PROVE FirstInv'
<1>1. CASE Authenticate(p) \/ OnAcknowledged(p) \/ OnIncoming(p) \/ OnRejected(p)
  BY <1>1, SocketCalm
<1>2. CASE \E e \in DOMAIN Ignores : OnOver(p, e)
  BY <1>2, OverCalm
<1>3. CASE OnAccepted(p)
  BY <1>3, OnAcceptedKeeps
<1>4. CASE AnsweredMedia(p) \/ OfferMedia(p)
  BY <1>4, MediaCalm
<1>5. CASE AnsweredOffer(p) \/ Restart(p)
  BY <1>5, OffersKeeps, FailedCalm
<1>6. CASE OnOffer(p)
  BY <1>6, OnOfferKeeps, DroppedCalm
<1>7. CASE OfferRemote(p)
  BY <1>7, OfferRemoteKeeps, FailedCalm
<1>8. CASE OfferAnswer(p)
  BY <1>8, OfferAnswerKeeps, FailedCalm
<1>9. CASE OnAnswer(p)
  BY <1>9, OnAnswerKeeps, DroppedCalm
<1>10. CASE AnswerRemote(p)
  BY <1>10, AnswerRemoteKeeps, RefusedCalm, FailedCalm
<1>11. CASE OnCandidate(p)
  BY <1>11, CandidateCalm
<1>12. CASE RestartTimer(p)
  BY <1>12, TimerCalm
<1>13. CASE Watchdog(p)
  BY <1>13, ScreenCalm
<1>14. CASE EndPosted(p)
  BY <1>14, AskingCalm
<1>15. CASE EndDone(p)
  BY <1>15, DoneCalm
<1> QED
  BY <1>1, <1>2, <1>3, <1>4, <1>5, <1>6, <1>7, <1>8, <1>9, <1>10, <1>11, <1>12, <1>13,
     <1>14, <1>15 DEF Handler

LEMMA FirstNext == ASSUME PageInv, FirstInv, [Next]_vars PROVE FirstInv'
<1>1. CASE UNCHANGED vars
  BY <1>1, NothingKeeps
<1>2. CASE StartCallFlow \/ Cancel \/ Reject \/ Miss \/ Accept
  BY <1>2, ScreenCalm, AskingCalm, MissCalm, AcceptCalm
<1>3. CASE CancelPosted \/ RejectPosted \/ AcceptPosted
  BY <1>3, DecidedCalm, AcceptedKeeps
<1>4. CASE CancelDone \/ AcceptMedia \/ AcceptDone \/ RejectDone
  BY <1>4, DoneCalm, MediaCalm, AskingCalm
<1>5. ASSUME NEW p \in Pages, Handler(p) PROVE FirstInv'
  BY <1>5, HandlerKeeps
<1>6. ASSUME NEW p \in Pages, HangUp(p) \/ PageExit(p) \/ Blip(p) PROVE FirstInv'
  BY <1>6, AskingCalm, ExitCalm, BlipCalm
<1>7. ASSUME NEW p \in Pages, IceConnect(p) \/ IceDrop(p) PROVE FirstInv'
  BY <1>7, IceCalm
<1>8. ASSUME NEW p \in Pages, NEW f \in Functions, Lose(p, f) PROVE FirstInv'
  BY <1>8, LoseCalm
<1> QED
  BY <1>1, <1>2, <1>3, <1>4, <1>5, <1>6, <1>7, <1>8 DEF Next, Request, User

(* The candidate of the first negotiation is never lost, for any number of *)
(* faults of any kind as long as no socket is lost.                        *)
THEOREM FirstCandidatesStay == Spec => []FirstCandidatesAreKept
<1>1. Init => FirstInv
  BY FirstInit
<1>2. PageInv /\ FirstInv /\ [Next]_vars => FirstInv'
  BY FirstNext
<1>3. FirstInv => FirstCandidatesAreKept
  <2> SUFFICES ASSUME FirstInv, faults["blip"] = 0, NEW p \in Pages, pc[p].open, pc[p].rem = 1
               PROVE  1 \in pc[p].cands
                      \/ Msg("ice-candidate", 1) \in {inbox[p][i] : i \in DOMAIN inbox[p]}
    BY DEF FirstCandidatesAreKept
  <2>1. Known(p)
    BY DEF FirstInv, KeptInv, Kept, Keeping
  <2> QED
    BY <2>1 DEF Known, Arrives, Has, One
<1> QED
  BY <1>1, <1>2, <1>3, PageInvHolds, PTL DEF Spec
=============================================================================
