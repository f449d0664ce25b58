------------------------- MODULE CallGatewayProofs -------------------------
(***************************************************************************)
(* Theorems about CallGateway for every set of calls, sockets, relayed     *)
(* messages and devices, and every number of failures and restarts.        *)
(***************************************************************************)
EXTENDS CallGateway, TLAPS

USE DEF service, memory, wire, record

(* A connection that is open, or whose authenticate is being served, holds *)
(* a token; an entry belongs to the token its socket holds; and a socket   *)
(* that was never opened is neither registered nor in a room.              *)
HoldsToken ==
    /\ \A s \in Sockets : link[s] = "open" \/ asked[s] # NotAsking => token[s] \in Tokens
    /\ \A s \in Sockets : link[s] = "unused" => asked[s] = NotAsking

EntryIsOwn ==
    \A t \in Tokens, s \in Sockets : entry[t] = s => token[s] = t /\ link[s] # "unused"

RoomsWereOpened ==
    \A c \in Calls, s \in Sockets : s \in rooms[c] => link[s] # "unused"

GatewayInv ==
    TypeOK /\ HoldsToken /\ EntryIsOwn /\ RoomsWereOpened /\ SeatIsExclusive /\ RoomsAgree

LEMMA TokenParts ==
    ASSUME NEW t \in Tokens PROVE CallOf(t) \in Calls /\ RoleOf(t) \in Roles
BY DEF Tokens, CallOf, RoleOf

(* What the decision tables of the gateway yield.                          *)
LEMMA MessageTables ==
    /\ \A st \in Phases : Greeting(st) \in Messages
    /\ \A st \in DOMAIN Announcement : Announcement[st] \in Messages
BY DEF Messages

LEMMA DeliverType ==
    ASSUME TypeOK, NEW S, NEW m \in Messages, Deliver(S, m)
    PROVE  told' \in [Sockets -> SUBSET Messages]
<1>1. \A x \in Sockets : Receives(x, IF x \in S THEN {m} ELSE {}) \in SUBSET Messages
  BY DEF Receives, TypeOK
<1> QED
  BY <1>1 DEF Deliver

LEMMA InsertType ==
    ASSUME TypeOK, NEW s \in Sockets, token[s] \in Tokens,
           NEW kind \in EventKinds, Insert(s, kind)
    PROVE  inserts' \subseteq Calls \X EventKinds \X Roles
<1>1. CallOf(token[s]) \in Calls /\ RoleOf(token[s]) \in Roles
  BY TokenParts
<1> QED
  BY <1>1 DEF Insert, TypeOK

LEMMA InitGatewayInv == ASSUME GatewayAssumption, Init PROVE GatewayInv
<1> USE DEF Init
<1>1. TypeOK
  <2>1. /\ phase \in [Calls -> Phases] /\ news \in [Calls -> SUBSET DOMAIN Announcement]
        /\ rooms \in [Calls -> SUBSET Sockets] /\ adapter \in [Calls -> SUBSET Sockets]
    BY DEF Phases
  <2>2. /\ link \in [Sockets -> {"unused", "open", "closed"}]
        /\ token \in [Sockets -> Tokens \cup {NoToken}]
        /\ asked \in [Sockets -> Phases \cup {NotAsking}]
        /\ media \in [Sockets -> (SUBSET Devices) \cup {NotJoined}]
    OBVIOUS
  <2>3. /\ entry \in [Tokens -> Sockets \cup {NoSocket}]
        /\ told \in [Sockets -> SUBSET Messages]
    OBVIOUS
  <2> QED
    BY <2>1, <2>2, <2>3 DEF TypeOK
<1>2. Members = {}
  BY DEF Members
<1>3. HoldsToken
  BY DEF HoldsToken
<1>5. EntryIsOwn
  BY GatewayAssumption DEF EntryIsOwn, GatewayAssumption
<1>6. RoomsWereOpened
  BY DEF RoomsWereOpened
<1>4. SeatIsExclusive /\ RoomsAgree
  BY <1>2 DEF SeatIsExclusive, RoomsAgree
<1> QED
  BY <1>1, <1>3, <1>4, <1>5, <1>6 DEF GatewayInv

(* Steps that only deliver, record or decide something leave the           *)
(* connections and the memory of the server as they were.                  *)
LEMMA SeatingUnchanged ==
    ASSUME GatewayInv, TypeOK', UNCHANGED <<memory, link, token, adapter>>
    PROVE  GatewayInv'
<1>1. Members' = Members /\ Open' = Open
  BY DEF Members, Open
<1>2. HoldsToken' /\ EntryIsOwn' /\ RoomsWereOpened'
  BY DEF GatewayInv, HoldsToken, EntryIsOwn, RoomsWereOpened
<1>3. SeatIsExclusive' /\ RoomsAgree'
  BY <1>1 DEF GatewayInv, SeatIsExclusive, RoomsAgree
<1> QED
  BY <1>2, <1>3 DEF GatewayInv

LEMMA DecideInv ==
    ASSUME GatewayAssumption, GatewayInv, NEW c \in Calls, Decide(c) PROVE GatewayInv'
<1>1. /\ phase' \in [Calls -> Phases] /\ phase'[c] \in Outcomes
  BY DEF Decide, GatewayInv, TypeOK, Phases, Outcomes,
         Protocol!Answer, Protocol!GoUnanswered, Protocol!End, Protocol!Move
<1>2. phase'[c] \in DOMAIN Announcement \cup {"ENDED"}
  BY <1>1 DEF Outcomes, Announcement
<1>3. TypeOK'
  BY <1>1, <1>2 DEF Decide, GatewayInv, TypeOK
<1> QED
  BY <1>3, SeatingUnchanged DEF Decide

LEMMA AnnounceInv ==
    ASSUME GatewayInv, NEW c \in Calls, Announce(c) PROVE GatewayInv'
<1>1. PICK st \in news[c] :
          /\ news' = [news EXCEPT ![c] = @ \ {st}]
          /\ Deliver({entry[<<c, role>>] : role \in Audience[st]}, Announcement[st])
          /\ UNCHANGED <<phase, memory, link, token, adapter, record, faults, crashes>>
  BY DEF Announce
<1>2. Announcement[st] \in Messages
  BY MessageTables DEF GatewayInv, TypeOK
<1>3. told' \in [Sockets -> SUBSET Messages]
  BY <1>1, <1>2, DeliverType DEF GatewayInv
<1>4. TypeOK'
  BY <1>1, <1>3 DEF GatewayInv, TypeOK
<1> QED
  BY <1>1, <1>4, SeatingUnchanged

LEMMA RelayInv ==
    ASSUME GatewayInv, NEW s \in Sockets, NEW m \in Relays, Relay(s, m) PROVE GatewayInv'
<1>1. told' \in [Sockets -> SUBSET Messages]
  BY DeliverType DEF GatewayInv, Relay, Messages
<1>2. TypeOK'
  BY <1>1 DEF GatewayInv, TypeOK, Relay
<1> QED
  BY <1>2, SeatingUnchanged DEF Relay

LEMMA SignalInv ==
    ASSUME GatewayInv, NEW s \in Sockets, CallStarted(s) \/ CallEndedSignal(s)
    PROVE  GatewayInv'
<1>1. token[s] \in Tokens
  BY DEF GatewayInv, HoldsToken, Open, CallStarted, CallEndedSignal
<1>2. told' \in [Sockets -> SUBSET Messages]
  BY DeliverType DEF GatewayInv, CallStarted, CallEndedSignal, Messages
<1>3. inserts' \subseteq Calls \X EventKinds \X Roles
  BY <1>1, InsertType DEF GatewayInv, TypeOK, CallStarted, CallEndedSignal, EventKinds
<1>4. TypeOK'
  BY <1>2, <1>3 DEF GatewayInv, TypeOK, CallStarted, CallEndedSignal
<1> QED
  BY <1>4, SeatingUnchanged DEF CallStarted, CallEndedSignal

LEMMA RecordInv ==
    ASSUME GatewayInv, NEW e \in Calls \X EventKinds \X Roles,
           RecordEvent(e) \/ RecordingFails(e)
    PROVE  GatewayInv'
<1>1. TypeOK'
  BY DEF GatewayInv, TypeOK, RecordEvent, RecordingFails
<1> QED
  BY <1>1, SeatingUnchanged DEF RecordEvent, RecordingFails

LEMMA ConnectInv ==
    ASSUME GatewayAssumption, GatewayInv, NEW s \in Sockets, NEW t \in Tokens, Connect(s, t)
    PROVE  GatewayInv'
<1> USE DEF Connect
<1>1. TypeOK'
  BY DEF GatewayInv, TypeOK
<1>2. HoldsToken' /\ EntryIsOwn' /\ RoomsWereOpened'
  BY DEF GatewayInv, TypeOK, HoldsToken, EntryIsOwn, RoomsWereOpened
<1>3. Members' = Members /\ s \notin Members /\ Open' = Open \cup {s}
  <2>1. Members' = Members
    BY DEF Members
  <2>2. s \notin Members
    BY DEF GatewayInv, SeatIsExclusive, Open
  <2>3. link \in [Sockets -> {"unused", "open", "closed"}]
    BY DEF GatewayInv, TypeOK
  <2>4. Open' = Open \cup {s}
    BY <2>3 DEF Open
  <2> QED
    BY <2>1, <2>2, <2>4
<1>4. SeatIsExclusive'
  BY <1>3 DEF GatewayInv, TypeOK, SeatIsExclusive, Members
<1>5. RoomsAgree'
  <2> SUFFICES ASSUME NEW c \in Calls
               PROVE  /\ adapter[c] = {x \in Members : CallOf(token'[x]) = c}
                      /\ adapter[c] = rooms[c] \cap (Open \cup {s})
    BY <1>3 DEF RoomsAgree
  <2>1. s \notin rooms[c]
    BY DEF GatewayInv, RoomsWereOpened
  <2>2. \A x \in Members : token'[x] = token[x]
    BY <1>3 DEF GatewayInv, TypeOK, Members
  <2> QED
    BY <2>1, <2>2 DEF GatewayInv, RoomsAgree
<1> QED
  BY <1>1, <1>2, <1>4, <1>5 DEF GatewayInv

LEMMA AuthenticateReadInv ==
    ASSUME GatewayInv, NEW s \in Sockets, AuthenticateRead(s) PROVE GatewayInv'
<1> USE DEF AuthenticateRead
<1>1. link[s] = "open" /\ token[s] \in Tokens
  BY DEF GatewayInv, HoldsToken, Open
<1>2. TypeOK'
  BY <1>1, TokenParts DEF GatewayInv, TypeOK
<1>3. HoldsToken'
  BY <1>1 DEF GatewayInv, TypeOK, HoldsToken
<1>4. EntryIsOwn' /\ RoomsWereOpened'
  BY DEF GatewayInv, EntryIsOwn, RoomsWereOpened
<1>5. Members' = Members /\ Open' = Open
  BY DEF Members, Open
<1>6. SeatIsExclusive' /\ RoomsAgree'
  BY <1>5 DEF GatewayInv, SeatIsExclusive, RoomsAgree
<1> QED
  BY <1>2, <1>3, <1>4, <1>6 DEF GatewayInv

(* A socket that is in a room, in the sense of socket.io, is a member and  *)
(* the other way round, so whoever is taken out of one is to be taken out  *)
(* of the other.                                                           *)
LEMMA MemberFacts ==
    ASSUME GatewayInv, NEW s \in Members
    PROVE  /\ s \in Sockets /\ s \in Open /\ token[s] \in Tokens
           /\ entry[token[s]] = s /\ Registered(s)
           /\ CallOf(token[s]) \in Calls
<1>1. s \in Sockets /\ s \in Open /\ entry[token[s]] = s
  BY DEF Members, GatewayInv, SeatIsExclusive
<1>2. token[s] \in Tokens
  BY <1>1 DEF GatewayInv, HoldsToken, Open
<1> QED
  BY <1>1, <1>2, TokenParts DEF Registered

LEMMA DisconnectInv ==
    ASSUME GatewayAssumption, GatewayInv, NEW s \in Sockets, Disconnect(s)
    PROVE  GatewayInv'
<1> USE DEF Disconnect
<1>0. /\ link \in [Sockets -> {"unused", "open", "closed"}]
      /\ link[s] = "open" /\ link' = [link EXCEPT ![s] = "closed"]
      /\ token' = token /\ asked' = asked /\ token[s] \in Tokens
      /\ media \in [Sockets -> (SUBSET Devices) \cup {NotJoined}]
      /\ entry \in [Tokens -> Sockets \cup {NoSocket}]
      /\ rooms \in [Calls -> SUBSET Sockets] /\ adapter \in [Calls -> SUBSET Sockets]
  BY DEF GatewayInv, TypeOK, HoldsToken, Open
<1>1. media' = [media EXCEPT ![s] = NotJoined]
  <2>1. CASE Registered(s)
    BY <2>1 DEF RemoveParticipant
  <2>2. CASE ~Registered(s)
    <3>1. media[s] = NotJoined
      BY <2>2, MemberFacts DEF Members
    <3> QED
      BY <1>0, <2>2, <3>1
  <2> QED
    BY <2>1, <2>2
<1>2. told' \in [Sockets -> SUBSET Messages]
  BY DeliverType DEF GatewayInv, Messages
<1>3. entry' \in [Tokens -> Sockets \cup {NoSocket}]
  BY <1>0 DEF Without
<1>4. /\ rooms' \in [Calls -> SUBSET Sockets]
      /\ adapter' \in [Calls -> SUBSET Sockets]
      /\ media' \in [Sockets -> (SUBSET Devices) \cup {NotJoined}]
      /\ link' \in [Sockets -> {"unused", "open", "closed"}]
  BY <1>0, <1>1 DEF RoomsWithout, AdapterWithout
<1>5. TypeOK'
  BY <1>2, <1>3, <1>4 DEF GatewayInv, TypeOK
<1>6. HoldsToken'
  BY <1>0 DEF GatewayInv, HoldsToken
<1>7. EntryIsOwn'
  BY <1>0, GatewayAssumption DEF GatewayInv, EntryIsOwn, Without, GatewayAssumption
<1>8. RoomsWereOpened'
  BY <1>0 DEF GatewayInv, RoomsWereOpened, RoomsWithout
<1>9. Members' = Members \ {s} /\ Open' = Open \ {s}
  BY <1>0, <1>1 DEF Members, Open
<1>10. SeatIsExclusive'
  <2> SUFFICES ASSUME NEW x \in Members \ {s}
               PROVE  x \in Open \ {s} /\ entry'[token[x]] = x
    BY <1>0, <1>9 DEF SeatIsExclusive
  <2>1. x \in Open /\ token[x] \in Tokens /\ entry[token[x]] = x
    BY MemberFacts
  <2> QED
    BY <2>1 DEF Without
<1>11. RoomsAgree'
  <2> SUFFICES ASSUME NEW c \in Calls
               PROVE  /\ adapter'[c] = {x \in Members \ {s} : CallOf(token[x]) = c}
                      /\ adapter'[c] = rooms'[c] \cap (Open \ {s})
    BY <1>0, <1>9 DEF RoomsAgree
  <2>1. /\ adapter[c] = {x \in Members : CallOf(token[x]) = c}
        /\ adapter[c] = rooms[c] \cap Open
    BY DEF GatewayInv, RoomsAgree
  <2>2. adapter'[c] = adapter[c] \ {s}
    BY DEF AdapterWithout
  <2>3. rooms'[c] = IF adapter'[c] # {} THEN rooms[c] \ {s} ELSE rooms[c]
    BY DEF RoomsWithout
  <2> QED
    BY <2>1, <2>2, <2>3
<1> QED
  BY <1>5, <1>6, <1>7, <1>8, <1>10, <1>11 DEF GatewayInv

LEMMA AuthenticateFinishInv ==
    ASSUME GatewayAssumption, GatewayInv, NEW s \in Sockets, AuthenticateFinish(s)
    PROVE  GatewayInv'
<1> DEFINE gone == Replaced(s)
           c == CallOf(token[s])
<1>1. /\ token[s] \in Tokens /\ c \in Calls /\ link[s] # "unused"
      /\ asked[s] \in Phases
  BY TokenParts DEF AuthenticateFinish, GatewayInv, HoldsToken, TypeOK
<1>2. gone \subseteq Sockets /\ s \notin gone
  BY <1>1 DEF GatewayInv, TypeOK, Replaced
<1>3. \A x \in Sockets : entry[token[s]] = x /\ x # s => x \in gone
  BY GatewayAssumption DEF Replaced, GatewayAssumption
<1>4. \A x \in gone : x \in Sockets /\ entry[token[s]] = x /\ link[x] # "unused"
  BY <1>1, <1>2 DEF Replaced, GatewayInv, EntryIsOwn
<1>5. /\ asked' = [asked EXCEPT ![s] = NotAsking]
      /\ entry' = [entry EXCEPT ![token[s]] = s]
      /\ rooms' = [rooms EXCEPT ![c] = @ \ gone]
      /\ media' = [x \in Sockets |-> IF x \in gone THEN NotJoined ELSE media[x]]
      /\ adapter' = [d \in Calls |-> adapter[d] \ gone]
      /\ link' = [x \in Sockets |-> IF x \in gone THEN "closed" ELSE link[x]]
      /\ token' = token
      /\ UNCHANGED <<phase, news, inserts, journal, faults, crashes>>
  BY DEF AuthenticateFinish
<1>6. told' \in [Sockets -> SUBSET Messages]
  <2>1. /\ Welcome(s) \in SUBSET Messages
        /\ {"session-replaced"} \in SUBSET Messages
    BY <1>1, MessageTables DEF Welcome, Messages
  <2>2. \A x \in Sockets : Receives(x, CASE x \in gone -> {"session-replaced"}
                                         [] x = s      -> Welcome(s)
                                         [] OTHER      -> {}) \in SUBSET Messages
    BY <2>1, <1>2 DEF Receives, GatewayInv, TypeOK
  <2> QED
    BY <2>2 DEF AuthenticateFinish
<1> HIDE DEF gone, c
<1>7. TypeOK'
  <2>1. /\ link \in [Sockets -> {"unused", "open", "closed"}]
        /\ asked \in [Sockets -> Phases \cup {NotAsking}]
        /\ media \in [Sockets -> (SUBSET Devices) \cup {NotJoined}]
        /\ entry \in [Tokens -> Sockets \cup {NoSocket}]
        /\ rooms \in [Calls -> SUBSET Sockets] /\ adapter \in [Calls -> SUBSET Sockets]
    BY DEF GatewayInv, TypeOK
  <2>2. /\ link' \in [Sockets -> {"unused", "open", "closed"}]
        /\ asked' \in [Sockets -> Phases \cup {NotAsking}]
        /\ media' \in [Sockets -> (SUBSET Devices) \cup {NotJoined}]
    BY <1>5, <2>1
  <2>3. /\ entry' \in [Tokens -> Sockets \cup {NoSocket}]
        /\ rooms' \in [Calls -> SUBSET Sockets] /\ adapter' \in [Calls -> SUBSET Sockets]
    BY <1>1, <1>5, <2>1
  <2> QED
    BY <1>5, <1>6, <2>2, <2>3 DEF GatewayInv, TypeOK
<1>8. HoldsToken'
  BY <1>1, <1>2, <1>5 DEF GatewayInv, HoldsToken, TypeOK
<1>9. EntryIsOwn'
  <2> SUFFICES ASSUME NEW t \in Tokens, NEW x \in Sockets, entry'[t] = x
               PROVE  token[x] = t /\ link'[x] # "unused"
    BY <1>5 DEF EntryIsOwn
  <2>1. CASE t = token[s]
    <3>1. x = s
      BY <1>1, <1>5, <2>1 DEF GatewayInv, TypeOK
    <3> QED
      BY <1>1, <1>5, <2>1, <3>1
  <2>2. CASE t # token[s]
    <3>1. entry[t] = x
      BY <1>5, <2>2 DEF GatewayInv, TypeOK
    <3> QED
      BY <1>5, <3>1 DEF GatewayInv, EntryIsOwn
  <2> QED
    BY <2>1, <2>2
<1>10. RoomsWereOpened'
  <2> SUFFICES ASSUME NEW d \in Calls, NEW x \in Sockets, x \in rooms'[d]
               PROVE  link'[x] # "unused"
    BY DEF RoomsWereOpened
  <2>1. x \in rooms[d]
    BY <1>5 DEF GatewayInv, TypeOK
  <2> QED
    BY <1>5, <2>1 DEF GatewayInv, RoomsWereOpened
<1>11. Members' = Members \ gone /\ Open' = Open \ gone
  BY <1>5 DEF Members, Open
<1>12. SeatIsExclusive'
  <2> SUFFICES ASSUME NEW x \in Members \ gone
               PROVE  x \in Open \ gone /\ entry'[token[x]] = x
    BY <1>5, <1>11 DEF SeatIsExclusive
  <2>1. x \in Sockets /\ x \in Open /\ token[x] \in Tokens /\ entry[token[x]] = x
    BY MemberFacts
  <2>2. entry'[token[x]] = x
    <3>1. CASE token[x] = token[s]
      BY <1>1, <1>3, <1>5, <2>1, <3>1 DEF GatewayInv, TypeOK
    <3>2. CASE token[x] # token[s]
      BY <1>5, <2>1, <3>2 DEF GatewayInv, TypeOK
    <3> QED
      BY <3>1, <3>2
  <2> QED
    BY <2>1, <2>2
<1>13. RoomsAgree'
  <2> SUFFICES ASSUME NEW d \in Calls
               PROVE  /\ adapter'[d] = {x \in Members \ gone : CallOf(token[x]) = d}
                      /\ adapter'[d] = rooms'[d] \cap (Open \ gone)
    BY <1>5, <1>11 DEF RoomsAgree
  <2>1. /\ adapter[d] = {x \in Members : CallOf(token[x]) = d}
        /\ adapter[d] = rooms[d] \cap Open
    BY DEF GatewayInv, RoomsAgree
  <2>2. adapter'[d] = adapter[d] \ gone
    BY <1>5
  <2>3. rooms'[d] = rooms[d] \/ rooms'[d] = rooms[d] \ gone
    BY <1>5 DEF GatewayInv, TypeOK
  <2> QED
    BY <2>1, <2>2, <2>3
<1> QED
  BY <1>7, <1>8, <1>9, <1>10, <1>12, <1>13 DEF GatewayInv

(* A socket enters the three records of its call's room together.          *)
LEMMA JoinInv ==
    ASSUME GatewayAssumption, GatewayInv, NEW s \in Sockets, JoinCall(s)
    PROVE  GatewayInv'
<1> DEFINE c == CallOf(token[s])
<1>1. /\ s \in Open /\ link[s] = "open" /\ Registered(s)
      /\ adapter' = [adapter EXCEPT ![c] = @ \cup {s}]
      /\ rooms' = [rooms EXCEPT ![c] = @ \cup {s}]
      /\ media' = [media EXCEPT ![s] = {}]
      /\ Deliver(adapter'[c], "participant.joined")
      /\ Insert(s, "PARTICIPANT_JOINED")
      /\ UNCHANGED <<service, asked, entry, link, token, journal, faults, crashes>>
  BY DEF JoinCall, Open
<1>2. token[s] \in Tokens /\ c \in Calls /\ entry[token[s]] = s
  <2>1. PICK t \in Tokens : entry[t] = s
    BY <1>1 DEF Registered
  <2> QED
    BY <2>1, TokenParts DEF GatewayInv, EntryIsOwn
<1>3. told' \in [Sockets -> SUBSET Messages]
  BY <1>1, DeliverType DEF GatewayInv, Messages
<1>4. inserts' \subseteq Calls \X EventKinds \X Roles
  BY <1>1, <1>2, InsertType DEF GatewayInv, EventKinds
<1> HIDE DEF c
<1>5. TypeOK'
  BY <1>1, <1>2, <1>3, <1>4 DEF GatewayInv, TypeOK
<1>6. HoldsToken' /\ EntryIsOwn'
  BY <1>1 DEF GatewayInv, HoldsToken, EntryIsOwn
<1>7. RoomsWereOpened'
  BY <1>1, <1>2 DEF GatewayInv, RoomsWereOpened, TypeOK
<1>8. Members' = Members \cup {s} /\ Open' = Open
  <2>1. media \in [Sockets -> (SUBSET Devices) \cup {NotJoined}] /\ NotJoined # {}
    BY DEF GatewayInv, TypeOK, NotJoined
  <2> QED
    BY <1>1, <2>1 DEF Members, Open
<1>9. SeatIsExclusive'
  BY <1>1, <1>2, <1>8 DEF GatewayInv, SeatIsExclusive
<1>10. RoomsAgree'
  <2> SUFFICES ASSUME NEW d \in Calls
               PROVE  /\ adapter'[d] = {x \in Members \cup {s} : CallOf(token[x]) = d}
                      /\ adapter'[d] = rooms'[d] \cap Open
    BY <1>1, <1>8 DEF RoomsAgree
  <2>1. /\ adapter[d] = {x \in Members : CallOf(token[x]) = d}
        /\ adapter[d] = rooms[d] \cap Open
    BY DEF GatewayInv, RoomsAgree
  <2>2. CASE d = c
    <3>1. adapter'[d] = adapter[d] \cup {s} /\ rooms'[d] = rooms[d] \cup {s}
      BY <1>1, <2>2 DEF GatewayInv, TypeOK
    <3> QED
      BY <1>1, <2>1, <2>2, <3>1 DEF c
  <2>3. CASE d # c
    <3>1. adapter'[d] = adapter[d] /\ rooms'[d] = rooms[d]
      BY <1>1, <2>3 DEF GatewayInv, TypeOK
    <3> QED
      BY <2>1, <2>3, <3>1 DEF c
  <2> QED
    BY <2>2, <2>3
<1> QED
  BY <1>5, <1>6, <1>7, <1>9, <1>10 DEF GatewayInv

(* And it quits them together.                                             *)
LEMMA LeaveInv ==
    ASSUME GatewayInv, NEW s \in Sockets, LeaveCall(s) PROVE GatewayInv'
<1> DEFINE c == CallOf(token[s])
<1>1. /\ s \in Open /\ link[s] = "open"
      /\ adapter' = [adapter EXCEPT ![c] = @ \ {s}]
      /\ rooms' = [rooms EXCEPT ![c] = @ \ {s}]
      /\ media' = [media EXCEPT ![s] = NotJoined]
      /\ IF s \in Members
            THEN Deliver(adapter'[c], "participant.left") /\ Insert(s, "PARTICIPANT_LEFT")
            ELSE UNCHANGED <<told, inserts>>
      /\ UNCHANGED <<service, asked, entry, link, token, journal, faults, crashes>>
  BY DEF LeaveCall, RemoveParticipant, Open
<1>2. token[s] \in Tokens /\ c \in Calls
  BY <1>1, TokenParts DEF GatewayInv, HoldsToken
<1>3. told' \in [Sockets -> SUBSET Messages]
  BY <1>1, DeliverType DEF GatewayInv, TypeOK, Messages
<1>4. inserts' \subseteq Calls \X EventKinds \X Roles
  BY <1>1, <1>2, InsertType DEF GatewayInv, TypeOK, EventKinds
<1> HIDE DEF c
<1>5. TypeOK'
  BY <1>1, <1>2, <1>3, <1>4 DEF GatewayInv, TypeOK
<1>6. HoldsToken' /\ EntryIsOwn'
  BY <1>1 DEF GatewayInv, HoldsToken, EntryIsOwn
<1>7. RoomsWereOpened'
  BY <1>1, <1>2 DEF GatewayInv, RoomsWereOpened, TypeOK
<1>8. Members' = Members \ {s} /\ Open' = Open
  BY <1>1 DEF Members, Open, GatewayInv, TypeOK
<1>9. SeatIsExclusive'
  BY <1>1, <1>8 DEF GatewayInv, SeatIsExclusive
<1>10. RoomsAgree'
  <2> SUFFICES ASSUME NEW d \in Calls
               PROVE  /\ adapter'[d] = {x \in Members \ {s} : CallOf(token[x]) = d}
                      /\ adapter'[d] = rooms'[d] \cap Open
    BY <1>1, <1>8 DEF RoomsAgree
  <2>1. /\ adapter[d] = {x \in Members : CallOf(token[x]) = d}
        /\ adapter[d] = rooms[d] \cap Open
    BY DEF GatewayInv, RoomsAgree
  <2>2. CASE d = c
    <3>1. adapter'[d] = adapter[d] \ {s} /\ rooms'[d] = rooms[d] \ {s}
      BY <1>1, <2>2 DEF GatewayInv, TypeOK
    <3> QED
      BY <2>1, <3>1
  <2>3. CASE d # c
    <3>1. adapter'[d] = adapter[d] /\ rooms'[d] = rooms[d]
      BY <1>1, <2>3 DEF GatewayInv, TypeOK
    <3> QED
      BY <2>1, <2>3, <3>1 DEF c
  <2> QED
    BY <2>2, <2>3
<1> QED
  BY <1>5, <1>6, <1>7, <1>9, <1>10 DEF GatewayInv

LEMMA MediaInv ==
    ASSUME GatewayAssumption, GatewayInv, NEW s \in Sockets, NEW device \in Devices,
           NEW on \in BOOLEAN, MediaChange(s, device, on)
    PROVE  GatewayInv'
<1>1. /\ s \in Members
      /\ media' = [media EXCEPT ![s] = IF on THEN @ \cup {device} ELSE @ \ {device}]
      /\ Deliver(adapter[CallOf(token[s])], "participant.updated")
      /\ Insert(s, "MEDIA")
      /\ UNCHANGED <<service, asked, entry, rooms, link, token, adapter, journal,
                     faults, crashes>>
  BY DEF MediaChange
<1>2. token[s] \in Tokens
  BY <1>1, MemberFacts
<1>3. media[s] \in SUBSET Devices /\ media'[s] \in SUBSET Devices
  BY <1>1 DEF Members, GatewayInv, TypeOK
<1>4. media' \in [Sockets -> (SUBSET Devices) \cup {NotJoined}]
  BY <1>1, <1>3 DEF GatewayInv, TypeOK
<1>5. told' \in [Sockets -> SUBSET Messages]
  BY <1>1, DeliverType DEF GatewayInv, Messages
<1>6. inserts' \subseteq Calls \X EventKinds \X Roles
  BY <1>1, <1>2, InsertType DEF GatewayInv, EventKinds
<1>7. TypeOK'
  BY <1>1, <1>4, <1>5, <1>6 DEF GatewayInv, TypeOK
<1>8. HoldsToken' /\ EntryIsOwn' /\ RoomsWereOpened'
  BY <1>1 DEF GatewayInv, HoldsToken, EntryIsOwn, RoomsWereOpened
<1>9. Members' = Members /\ Open' = Open
  <2>1. NotJoined \notin SUBSET Devices
    BY GatewayAssumption DEF GatewayAssumption, NotJoined
  <2>2. \A x \in Sockets : x # s => media'[x] = media[x]
    BY <1>1 DEF GatewayInv, TypeOK
  <2>3. Members' = Members
    BY <1>1, <1>3, <2>1, <2>2 DEF Members
  <2> QED
    BY <1>1, <2>3 DEF Open
<1>10. SeatIsExclusive' /\ RoomsAgree'
  BY <1>1, <1>9 DEF GatewayInv, SeatIsExclusive, RoomsAgree
<1> QED
  BY <1>7, <1>8, <1>10 DEF GatewayInv

LEMMA RestartInv ==
    ASSUME GatewayAssumption, GatewayInv, CrashAndRestart PROVE GatewayInv'
<1> USE DEF CrashAndRestart
<1>1. /\ link' \in [Sockets -> {"unused", "open", "closed"}]
      /\ asked' \in [Sockets -> Phases \cup {NotAsking}]
      /\ media' \in [Sockets -> (SUBSET Devices) \cup {NotJoined}]
      /\ entry' \in [Tokens -> Sockets \cup {NoSocket}]
  BY DEF GatewayInv, TypeOK
<1>2. TypeOK'
  <2>1. /\ news' \in [Calls -> SUBSET DOMAIN Announcement]
        /\ rooms' \in [Calls -> SUBSET Sockets]
        /\ adapter' \in [Calls -> SUBSET Sockets]
        /\ inserts' = {}
    OBVIOUS
  <2>2. /\ phase' \in [Calls -> Phases] /\ token' \in [Sockets -> Tokens \cup {NoToken}]
        /\ told' \in [Sockets -> SUBSET Messages]
        /\ journal' \subseteq Calls \X EventKinds \X Roles /\ faults' \in Nat
    BY DEF GatewayInv, TypeOK
  <2>3. crashes \in Nat
    BY DEF GatewayInv, TypeOK
  <2>4. crashes' = crashes + 1
    OBVIOUS
  <2>5. crashes' \in Nat
    BY ONLY <2>3, <2>4
  <2>6. inserts' \subseteq Calls \X EventKinds \X Roles
    BY ONLY <2>1
  <2> QED
    BY <1>1, <2>1, <2>2, <2>5, <2>6 DEF TypeOK
<1>3. Members' = {} /\ Open' = {}
  BY DEF Members, Open
<1>4. HoldsToken' /\ RoomsWereOpened'
  BY <1>3 DEF HoldsToken, RoomsWereOpened, Open
<1>5. EntryIsOwn'
  BY GatewayAssumption DEF EntryIsOwn, GatewayAssumption
<1>6. SeatIsExclusive' /\ RoomsAgree'
  BY <1>3 DEF SeatIsExclusive, RoomsAgree
<1> QED
  BY <1>2, <1>4, <1>5, <1>6 DEF GatewayInv

LEMMA NextGatewayInv ==
    ASSUME GatewayAssumption, GatewayInv, [Next]_vars PROVE GatewayInv'
<1>1. CASE UNCHANGED vars
  <2>1. TypeOK'
    BY <1>1 DEF vars, GatewayInv, TypeOK
  <2> QED
    BY <1>1, <2>1, SeatingUnchanged DEF vars
<1>2. ASSUME NEW s \in Sockets, SocketStep(s) PROVE GatewayInv'
  BY <1>2, ConnectInv, DisconnectInv, AuthenticateReadInv, AuthenticateFinishInv,
     RelayInv, JoinInv, LeaveInv, SignalInv, MediaInv DEF SocketStep
<1>3. ASSUME NEW c \in Calls, Decide(c) \/ Announce(c) PROVE GatewayInv'
  BY <1>3, DecideInv, AnnounceInv
<1>4. ASSUME NEW e \in Calls \X EventKinds \X Roles, RecordEvent(e) \/ RecordingFails(e)
      PROVE  GatewayInv'
  BY <1>4, RecordInv
<1>5. CASE CrashAndRestart
  BY <1>5, RestartInv
<1> QED
  BY <1>1, <1>2, <1>3, <1>4, <1>5 DEF Next

LEMMA GatewayInvariant == Spec => []GatewayInv
<1>1. Init => GatewayInv
  BY InitGatewayInv, GatewayAssumption
<1>2. GatewayInv /\ [Next]_vars => GatewayInv'
  BY NextGatewayInv, GatewayAssumption
<1> QED
  BY <1>1, <1>2, PTL DEF Spec

(* The maps, the rooms and the mailboxes hold what they are declared to.   *)
THEOREM GatewayTypeCorrect == Spec => []TypeOK
<1>1. GatewayInv => TypeOK
  BY DEF GatewayInv
<1> QED
  BY <1>1, GatewayInvariant, PTL

(* However many tabs connect, authenticate, join and drop in whatever      *)
(* order, a participant takes part through the one socket that the map     *)
(* names, and it is connected.                                             *)
THEOREM SeatStaysExclusive == Spec => []SeatIsExclusive
<1>1. GatewayInv => SeatIsExclusive
  BY DEF GatewayInv
<1> QED
  BY <1>1, GatewayInvariant, PTL

(* The members of a room according to socket.io and according to the room  *)
(* service are the same connections; what remains in the service's sets    *)
(* beyond them is closed.                                                  *)
THEOREM RoomsStayAgreed == Spec => []RoomsAgree
<1>1. GatewayInv => RoomsAgree
  BY DEF GatewayInv
<1> QED
  BY <1>1, GatewayInvariant, PTL
=============================================================================
