---------------------------- MODULE CallGateway ----------------------------
(***************************************************************************)
(* The signaling server: CallGateway with its map of authenticated sockets *)
(* and CallRoomService with its rooms and participants.  Participants      *)
(* connect, authenticate with the token of their role, join and leave the  *)
(* room of their call, and lose connections; a second tab with the same    *)
(* token replaces the first.                                               *)
(*                                                                         *)
(* Handlers run to their first await without interruption.  authenticate   *)
(* awaits the session row before it does anything, so it has two actions;  *)
(* the other handlers only await, at their end, the recording of an event. *)
(* The calls themselves follow CallProtocol, which the call service        *)
(* implements (see CallLifecycle).                                         *)
(***************************************************************************)
EXTENDS Naturals, FiniteSets

CONSTANTS
    Calls,       \* calls that have a session row
    Sockets,     \* connections; each is opened at most once
    NoSocket,    \* "not a socket"
    NoToken,     \* "not a token"
    Decided,     \* the outcomes of calls that an instance considers
    Relays,      \* messages the gateway relays to the other participant
    Devices,     \* media a participant switches on and off
    Watched,     \* messages whose arrival an instance keeps record of
    Logged,      \* kinds of event rows an instance keeps record of
    MaxFaults,   \* how many recordings of an event may fail
    MaxCrashes   \* how many times the server may restart

VARIABLES
    phase,       \* Call.status
    news,        \* decisions written and not announced yet
    link,        \* state of each connection
    token,       \* the session token the client of a connection holds
    asked,       \* the status that a pending authenticate has read
    entry,       \* authenticatedSockets: token -> socket
    rooms,       \* CallRoomService.rooms: call -> sockets
    media,       \* CallRoomService.participants: socket -> devices that are on
    adapter,     \* socket.io's rooms: call -> sockets
    told,        \* messages each connection has received
    inserts,     \* event rows the handlers are about to insert
    journal,     \* CallEvent rows
    faults,
    crashes

service == <<phase, news>>
memory == <<asked, entry, rooms, media>>
wire == <<link, token, adapter, told>>
record == <<inserts, journal>>
vars == <<service, memory, wire, record, faults, crashes>>

Roles == {"CALLER", "RECEIVER"}
Tokens == Calls \X Roles
CallOf(t) == t[1]
RoleOf(t) == t[2]

Outcomes == {"ACCEPTED", "REJECTED", "CANCELLED", "MISSED", "ENDED"}
Phases == {"RINGING"} \cup Outcomes

NotAsking == "none"
NotJoined == {"not joined"}

Peer == [CALLER |-> "RECEIVER", RECEIVER |-> "CALLER"]

ASSUME GatewayAssumption ==
    /\ NoSocket \notin Sockets
    /\ NoToken \notin Tokens
    /\ "not joined" \notin Devices
    /\ MaxFaults \in Nat
    /\ MaxCrashes \in Nat

Open == {s \in Sockets : link[s] = "open"}
Members == {s \in Sockets : media[s] # NotJoined}
Registered(s) == \E t \in Tokens : entry[t] = s

(* getOtherParticipant: nobody for a socket that has no entry.             *)
Others(entries, s) ==
    {entries[u] : u \in {v \in Tokens :
        /\ entries[v] \notin {s, NoSocket}
        /\ \E t \in Tokens : entries[t] = s /\ CallOf(t) = CallOf(v)}}

(* What authenticate tells the receiver of a call it read as st.           *)
Greeting(st) ==
    CASE st = "MISSED"    -> "call-missed"
      [] st = "ENDED"     -> "call-ended"
      [] st = "REJECTED"  -> "call-rejected"
      [] st = "CANCELLED" -> "call-cancelled"
      [] OTHER            -> "incoming-call"

Announcement ==
    [ACCEPTED |-> "call-accepted", REJECTED |-> "call-rejected",
     CANCELLED |-> "call-cancelled", MISSED |-> "call-missed"]

AudienceCallerOnly ==
    [st \in {"ACCEPTED", "REJECTED", "CANCELLED", "MISSED"} |-> {"CALLER"}]
Audience ==
    [ACCEPTED |-> {"CALLER"}, REJECTED |-> {"CALLER"},
     CANCELLED |-> {"RECEIVER"}, MISSED |-> Roles]

Messages ==
    {"connected", "session-replaced", "participant.joined", "participant.left",
     "participant.updated", "call.started", "call.ended"}
        \cup {Greeting(st) : st \in Phases}
        \cup {Announcement[st] : st \in DOMAIN Announcement}
        \cup Relays

EventKinds == {"PARTICIPANT_JOINED", "PARTICIPANT_LEFT", "CALL_STARTED", "MEDIA"}

(* A message to a connection that is closed is lost.                       *)
Receives(x, messages) ==
    told[x] \cup (IF x \in Open THEN messages \cap Watched ELSE {})

Deliver(S, m) ==
    told' = [x \in Sockets |-> Receives(x, IF x \in S THEN {m} ELSE {})]

Init ==
    /\ phase = [c \in Calls |-> "RINGING"]
    /\ news = [c \in Calls |-> {}]
    /\ link = [s \in Sockets |-> "unused"]
    /\ token = [s \in Sockets |-> NoToken]
    /\ asked = [s \in Sockets |-> NotAsking]
    /\ entry = [t \in Tokens |-> NoSocket]
    /\ rooms = [c \in Calls |-> {}]
    /\ media = [s \in Sockets |-> NotJoined]
    /\ adapter = [c \in Calls |-> {}]
    /\ told = [s \in Sockets |-> {}]
    /\ inserts = {}
    /\ journal = {}
    /\ faults = 0
    /\ crashes = 0

(***************************************************************************)
(* The call service: a step of the protocol, then its announcement.        *)
(***************************************************************************)
Protocol == INSTANCE CallProtocol WITH bills <- [c \in Calls |-> 0]

Decide(c) ==
    /\ Protocol!Answer(c) \/ Protocol!GoUnanswered(c) \/ Protocol!End(c)
    /\ phase'[c] \in Decided
    /\ news' = [news EXCEPT ![c] = @ \cup ({phase'[c]} \ {"ENDED"})]
    /\ UNCHANGED <<memory, wire, record, faults, crashes>>

(* emitToParticipant, for each role that is told of the decision.          *)
Announce(c) ==
    \E st \in news[c] :
        /\ news' = [news EXCEPT ![c] = @ \ {st}]
        /\ Deliver({entry[<<c, role>>] : role \in Audience[st]}, Announcement[st])
        /\ UNCHANGED <<phase, memory, link, token, adapter, record, faults, crashes>>

(***************************************************************************)
(* Connections.                                                            *)
(***************************************************************************)
Connect(s, t) ==
    /\ link[s] = "unused"
    /\ link' = [link EXCEPT ![s] = "open"]
    /\ token' = [token EXCEPT ![s] = t]
    /\ UNCHANGED <<service, memory, adapter, told, record, faults, crashes>>

WithoutToNull(entries, s) ==
    [t \in Tokens |-> IF entries[t] = s THEN NoToken ELSE entries[t]]
Without(entries, s) ==
    [t \in Tokens |-> IF entries[t] = s THEN NoSocket ELSE entries[t]]

RemoveParticipantNever(s) == media
RemoveParticipant(s) == [media EXCEPT ![s] = NotJoined]

(* socket.io takes a closed connection out of its rooms and forgets a room *)
(* that is empty.  handleDisconnect then visits the rooms socket.io knows. *)
AdapterWithout(s) == [c \in Calls |-> adapter[c] \ {s}]
RoomsWithout(s) ==
    [c \in Calls |-> IF AdapterWithout(s)[c] # {} THEN rooms[c] \ {s} ELSE rooms[c]]

(* The entry is deleted before the other participant is looked up with it. *)
Disconnect(s) ==
    /\ s \in Open
    /\ link' = [link EXCEPT ![s] = "closed"]
    /\ adapter' = AdapterWithout(s)
    /\ rooms' = RoomsWithout(s)
    /\ entry' = Without(entry, s)
    /\ media' = IF Registered(s) THEN RemoveParticipant(s) ELSE media
    /\ Deliver(Others(entry', s), "participant.left")
    /\ UNCHANGED <<service, token, asked, record, faults, crashes>>

(***************************************************************************)
(* authenticate                                                            *)
(***************************************************************************)
AuthenticateRead(s) ==
    /\ s \in Open
    /\ asked[s] = NotAsking
    /\ asked' = [asked EXCEPT ![s] = phase[CallOf(token[s])]]
    /\ UNCHANGED <<service, entry, rooms, media, wire, record, faults, crashes>>

ReplacedNever(s) == {}
Replaced(s) == {entry[token[s]]} \ {s, NoSocket}

Welcome(s) ==
    {"connected"} \cup (IF RoleOf(token[s]) = "RECEIVER" THEN {Greeting(asked[s])} ELSE {})

(* The old tab is told, taken out of its room and disconnected, which runs *)
(* handleDisconnect on it, before the map is given the new socket.         *)
AuthenticateFinish(s) ==
    LET c == CallOf(token[s])
        gone == Replaced(s)
    IN
    /\ asked[s] # NotAsking
    /\ asked' = [asked EXCEPT ![s] = NotAsking]
    /\ entry' = [entry EXCEPT ![token[s]] = s]
    /\ rooms' = [rooms EXCEPT ![c] = @ \ gone]
    /\ media' = [x \in Sockets |-> IF x \in gone THEN NotJoined ELSE media[x]]
    /\ adapter' = [d \in Calls |-> adapter[d] \ gone]
    /\ link' = [x \in Sockets |-> IF x \in gone THEN "closed" ELSE link[x]]
    /\ told' = [x \in Sockets |->
                    Receives(x, CASE x \in gone -> {"session-replaced"}
                                  [] x = s      -> Welcome(s)
                                  [] OTHER      -> {})]
    /\ UNCHANGED <<service, token, record, faults, crashes>>

(***************************************************************************)
(* The handlers of an authenticated socket.  Clients name their own call,  *)
(* so the test for another call's identifier never fails; the aliases of a *)
(* message that are emitted with it are not told apart.                    *)
(***************************************************************************)
Relay(s, m) ==
    /\ s \in Open
    /\ Deliver(Others(entry, s), m)
    /\ UNCHANGED <<service, memory, link, token, adapter, record, faults, crashes>>

InsertForPeer(s, kind) ==
    inserts' = inserts \cup
        {<<CallOf(token[s]), k, Peer[RoleOf(token[s])]>> : k \in {kind} \cap Logged}
Insert(s, kind) ==
    inserts' = inserts \cup
        {<<CallOf(token[s]), k, RoleOf(token[s])>> : k \in {kind} \cap Logged}

JoinCall(s) ==
    LET c == CallOf(token[s]) IN
    /\ s \in Open /\ Registered(s)
    /\ adapter' = [adapter EXCEPT ![c] = @ \cup {s}]
    /\ rooms' = [rooms EXCEPT ![c] = @ \cup {s}]
    /\ media' = [media EXCEPT ![s] = {}]
    /\ Deliver(adapter'[c], "participant.joined")
    /\ Insert(s, "PARTICIPANT_JOINED")
    /\ UNCHANGED <<service, asked, entry, link, token, journal, faults, crashes>>

LeaveCall(s) ==
    LET c == CallOf(token[s]) IN
    /\ s \in Open
    /\ adapter' = [adapter EXCEPT ![c] = @ \ {s}]
    /\ rooms' = [rooms EXCEPT ![c] = @ \ {s}]
    /\ media' = RemoveParticipant(s)
    /\ IF s \in Members
          THEN Deliver(adapter'[c], "participant.left") /\ Insert(s, "PARTICIPANT_LEFT")
          ELSE UNCHANGED <<told, inserts>>
    /\ UNCHANGED <<service, asked, entry, link, token, journal, faults, crashes>>

CallStarted(s) ==
    /\ s \in Open /\ Registered(s)
    /\ Deliver(adapter[CallOf(token[s])], "call.started")
    /\ Insert(s, "CALL_STARTED")
    /\ UNCHANGED <<service, memory, link, token, adapter, journal, faults, crashes>>

CallEndedSignal(s) ==
    /\ s \in Open /\ Registered(s)
    /\ Deliver(adapter[CallOf(token[s])], "call.ended")
    /\ UNCHANGED <<service, memory, link, token, adapter, record, faults, crashes>>

MediaChange(s, device, on) ==
    /\ s \in Open /\ Registered(s) /\ s \in Members
    /\ media' = [media EXCEPT ![s] = IF on THEN @ \cup {device} ELSE @ \ {device}]
    /\ Deliver(adapter[CallOf(token[s])], "participant.updated")
    /\ Insert(s, "MEDIA")
    /\ UNCHANGED <<service, asked, entry, rooms, link, token, adapter, journal,
                   faults, crashes>>

(* safeRecordEvent: best effort, after everything else.                    *)
RecordEvent(e) ==
    /\ e \in inserts
    /\ inserts' = inserts \ {e}
    /\ journal' = journal \cup {e}
    /\ UNCHANGED <<service, memory, wire, faults, crashes>>

RecordingFails(e) ==
    /\ e \in inserts
    /\ faults < MaxFaults
    /\ inserts' = inserts \ {e}
    /\ faults' = faults + 1
    /\ UNCHANGED <<service, memory, wire, journal, crashes>>

(* A restart closes every connection and empties the memory.               *)
CrashAndRestart ==
    /\ crashes < MaxCrashes
    /\ Open # {}
    /\ crashes' = crashes + 1
    /\ link' = [s \in Sockets |-> IF s \in Open THEN "closed" ELSE link[s]]
    /\ news' = [c \in Calls |-> {}]
    /\ asked' = [s \in Sockets |-> NotAsking]
    /\ entry' = [t \in Tokens |-> NoSocket]
    /\ rooms' = [c \in Calls |-> {}]
    /\ media' = [s \in Sockets |-> NotJoined]
    /\ adapter' = [c \in Calls |-> {}]
    /\ inserts' = {}
    /\ UNCHANGED <<phase, token, told, journal, faults>>

---------------------------------------------------------------------------
SocketStep(s) ==
    \/ \E t \in Tokens : Connect(s, t)
    \/ Disconnect(s)
    \/ AuthenticateRead(s) \/ AuthenticateFinish(s)
    \/ \E m \in Relays : Relay(s, m)
    \/ JoinCall(s) \/ LeaveCall(s)
    \/ CallStarted(s) \/ CallEndedSignal(s)
    \/ \E device \in Devices, on \in BOOLEAN : MediaChange(s, device, on)

Next ==
    \/ \E s \in Sockets : SocketStep(s)
    \/ \E c \in Calls : Decide(c) \/ Announce(c)
    \/ \E e \in Calls \X EventKinds \X Roles : RecordEvent(e) \/ RecordingFails(e)
    \/ CrashAndRestart

Spec == Init /\ [][Next]_vars

(* A handler that was resumed runs; clients and connections do as they     *)
(* please.                                                                 *)
Fairness ==
    /\ \A s \in Sockets : WF_vars(AuthenticateFinish(s))
    /\ \A c \in Calls : WF_vars(Announce(c))
    /\ \A e \in Calls \X EventKinds \X Roles : WF_vars(RecordEvent(e))

FairSpec == Spec /\ Fairness

---------------------------------------------------------------------------
TypeOK ==
    /\ phase \in [Calls -> Phases]
    /\ news \in [Calls -> SUBSET DOMAIN Announcement]
    /\ link \in [Sockets -> {"unused", "open", "closed"}]
    /\ token \in [Sockets -> Tokens \cup {NoToken}]
    /\ asked \in [Sockets -> Phases \cup {NotAsking}]
    /\ entry \in [Tokens -> Sockets \cup {NoSocket}]
    /\ rooms \in [Calls -> SUBSET Sockets]
    /\ media \in [Sockets -> (SUBSET Devices) \cup {NotJoined}]
    /\ adapter \in [Calls -> SUBSET Sockets]
    /\ told \in [Sockets -> SUBSET Messages]
    /\ inserts \subseteq Calls \X EventKinds \X Roles
    /\ journal \subseteq Calls \X EventKinds \X Roles
    /\ faults \in Nat
    /\ crashes \in Nat

(* Whoever takes part in a room is connected and holds the entry of its    *)
(* token, so that no two tabs ever act as one participant.                 *)
SeatIsExclusive ==
    \A s \in Members : s \in Open /\ entry[token[s]] = s

(* The three records of a room agree: socket.io's members are the room     *)
(* service's participants, and the rest of its room are closed sockets.    *)
RoomsAgree ==
    \A c \in Calls :
        /\ adapter[c] = {s \in Members : CallOf(token[s]) = c}
        /\ adapter[c] = rooms[c] \cap Open

(* That a call was missed reaches the registered tab of each participant,  *)
(* whatever happens to other tabs, unless that tab or the server goes.     *)
MissIsDelivered ==
    \A t \in Tokens, s \in Sockets :
        ("MISSED" \in news[CallOf(t)] /\ s \in Open /\ entry[t] = s)
            ~> ("call-missed" \in told[s] \/ link[s] = "closed")

(* Joining a room leaves its mark in the event log that billing is based   *)
(* on, even if the participant has gone in the meantime.                   *)
JoinIsRecorded ==
    \A t \in Tokens :
        (\E s \in Members : token[s] = t)
            ~> (\/ <<CallOf(t), "PARTICIPANT_JOINED", RoleOf(t)>> \in journal
                \/ faults > 0 \/ crashes > 0)

=============================================================================
