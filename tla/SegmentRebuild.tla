-------------------------- MODULE SegmentRebuild --------------------------
(***************************************************************************)
(* One call's events, the segments kept in the database, and those who     *)
(* rebuild them: the gateway's handlers (call.gateway.ts: join-call,       *)
(* leave-call, call.started and the media events), each after the event it *)
(* records, and endCall, which rates what it finds and records the usage   *)
(* (call.service.ts, usage-segment.service.ts, rating-engine.service.ts).  *)
(*                                                                         *)
(* A rebuild reads the events, deletes the rows and inserts new ones: three *)
(* statements that nothing holds together.  A step is one statement.       *)
(***************************************************************************)
EXTENDS SegmentTimeline

CONSTANTS
    Handlers,   \* gateway handlers that may be running at once
    Caller, Receiver,
    Gateway,    \* the events <<kind, participant>> that the gateway records
    Rest,       \* and those that the REST endpoints record, in this instance
    Minute,     \* ticks per minute
    MaxTime, MaxEvents, MaxFaults

Ender == "endCall"

ASSUME SegmentAssumption ==
    /\ Caller # Receiver
    /\ IsFiniteSet(Handlers) /\ Ender \notin Handlers
    /\ Minute \in Nat \ {0}
    /\ MaxTime \in Nat /\ MaxEvents \in Nat /\ MaxFaults \in Nat
    /\ Gateway \subseteq (MediaKinds \cup Opening \cup {"PARTICIPANT_LEFT"})
                           \X {Caller, Receiver}
    /\ Rest \subseteq {"PARTICIPANT_JOINED", "PARTICIPANT_LEFT", "WEBRTC_TRANSPORT"}
                        \X {Caller, Receiver}

People == {Caller, Receiver}
Workers == Handlers \cup {Ender}
NoTime == -1

VARIABLES
    now,        \* the clock, in ticks
    isVideo,    \* Call.type
    startedAt,  \* Call.startedAt, NoTime if the call was never accepted
    endedAt,    \* Call.endedAt, NoTime until the claim of ENDED
    inRoom,     \* the participants whose entry is in the gateway's room
    events,     \* CallEvent rows in the order a query returns them
    rows,       \* UsageSegment rows as inserted: nothing makes them unique
    pc,         \* what each worker does next
    built,      \* the segments a worker's last rebuild built
    rating,     \* what rateCall found for endCall
    due,        \* the times <<from, to>> whose rows endCall has yet to mark
    usage,      \* the CallUsage rows, [minutes, coarse]
    faults,
    unread,     \* history: an event changed after the last rebuild read them
    disturbed   \* history: two rebuilds overlapped, or a statement failed

vars == <<now, isVideo, startedAt, endedAt, inRoom, events, rows, pc, built,
          rating, due, usage, faults, unread, disturbed>>
call == <<isVideo, startedAt, endedAt>>

Row(s, done) ==
    [from |-> s.from, to |-> s.to, people |-> s.people, rated |-> done]
RowsOf(segments) == [i \in DOMAIN segments |-> Row(segments[i], FALSE)]

Init ==
    /\ now = 0 /\ isVideo \in BOOLEAN
    /\ startedAt \in {NoTime, now} /\ endedAt = NoTime
    /\ inRoom = {} /\ events = <<>> /\ rows = <<>>
    /\ pc = [w \in Workers |-> "idle"]
    /\ built = [w \in Workers |-> <<>>]
    /\ rating = Nothing /\ due = {} /\ usage = <<>> /\ faults = 0
    /\ unread = FALSE /\ disturbed = FALSE

\* The clock moves when somebody reads it: by a tick or not at all.
ReadClock == now' \in {now, now + 1} /\ now' <= MaxTime

Event(kind, who, at, video) ==
    [kind |-> kind, who |-> who, at |-> at, video |-> video]

RecordEvent(kind, who) ==
    /\ Len(events) < MaxEvents
    /\ ReadClock
    /\ events' = Append(events, Event(kind, who, now', FALSE))

(***************************************************************************)
(* The gateway's handlers record an event, then rebuild.                   *)
(***************************************************************************)
GatewayRecord(h, kind, p) ==
    /\ pc[h] = "idle"
    /\ kind \in MediaKinds => p \in inRoom
    /\ RecordEvent(kind, p)
    /\ inRoom' = CASE kind = "PARTICIPANT_JOINED" -> inRoom \cup {p}
                   [] kind = "PARTICIPANT_LEFT"   -> inRoom \ {p}
                   [] OTHER                       -> inRoom
    /\ pc' = [pc EXCEPT ![h] = "read"]
    /\ unread' = TRUE
    /\ UNCHANGED <<call, rows, built, rating, due, usage, faults,
                   disturbed>>

\* POST join, leave and the WebRTC reports only record.
RestRecord(kind, p) ==
    /\ RecordEvent(kind, p)
    /\ unread' = TRUE
    /\ UNCHANGED <<call, inRoom, rows, pc, built, rating, due, usage,
                   faults, disturbed>>

(***************************************************************************)
(* rebuildSegmentsForCall, for a handler and for endCall.                  *)
(***************************************************************************)
After(w) == IF w = Ender THEN "rate" ELSE "idle"

Rebuilding(w) == pc[w] \in {"delete", "create", "rate", "persist"}

RebuildRead(w) ==
    /\ pc[w] = "read"
    /\ built' = [built EXCEPT ![w] = Build(events)]
    /\ pc' = [pc EXCEPT ![w] = "delete"]
    /\ disturbed' = (disturbed \/ \E v \in Workers : Rebuilding(v))
    /\ unread' = FALSE
    /\ UNCHANGED <<now, call, inRoom, events, rows, rating, due, usage, faults>>

RebuildAppends(w) ==
    /\ pc[w] = "delete"
    /\ rows' = rows
    /\ pc' = [pc EXCEPT ![w] = IF built[w] = <<>> THEN After(w) ELSE "create"]
    /\ UNCHANGED <<now, call, inRoom, events, built, rating, due, usage, faults,
                   unread, disturbed>>

RebuildDelete(w) ==
    /\ pc[w] = "delete"
    /\ rows' = <<>>
    /\ pc' = [pc EXCEPT ![w] = IF built[w] = <<>> THEN After(w) ELSE "create"]
    /\ UNCHANGED <<now, call, inRoom, events, built, rating, due, usage, faults,
                   unread, disturbed>>

RebuildCreate(w) ==
    /\ pc[w] = "create"
    /\ rows' = rows \o RowsOf(built[w])
    /\ built' = IF w = Ender THEN built ELSE [built EXCEPT ![w] = <<>>]
    /\ pc' = [pc EXCEPT ![w] = After(w)]
    /\ UNCHANGED <<now, call, inRoom, events, rating, due, usage, faults,
                   unread, disturbed>>

(***************************************************************************)
(* endCall after it read the call: the claim, CALL_ENDED, CALL_STARTED and *)
(* its metadata, the rebuild, the rating and the usage.                    *)
(***************************************************************************)
EndClaim ==
    /\ endedAt = NoTime
    /\ ReadClock
    /\ endedAt' = now'
    /\ pc' = [pc EXCEPT ![Ender] = "ended"]
    /\ UNCHANGED <<isVideo, startedAt, inRoom, events, rows, built,
                   rating, due, usage, faults, unread, disturbed>>

EndRecord ==
    /\ pc[Ender] = "ended"
    /\ ReadClock
    /\ events' = Append(events, Event("CALL_ENDED", Caller, now', FALSE))
    /\ pc' = [pc EXCEPT ![Ender] = "findStart"]
    /\ unread' = TRUE
    /\ UNCHANGED <<call, inRoom, rows, built, rating, due, usage, faults,
                   disturbed>>

IsStart(e) == e.kind = "CALL_STARTED"

EndFindStart ==
    /\ pc[Ender] = "findStart"
    /\ pc' = [pc EXCEPT ![Ender] =
                IF (\E i \in DOMAIN events : IsStart(events[i])) \/ startedAt = NoTime
                THEN "tellType" ELSE "addStart"]
    /\ UNCHANGED <<now, call, inRoom, events, rows, built, rating, due, usage,
                   faults, unread, disturbed>>

EndAddStart ==
    /\ pc[Ender] = "addStart"
    /\ ReadClock
    /\ events' = Append(events, Event("CALL_STARTED", Caller, now', isVideo))
    /\ pc' = [pc EXCEPT ![Ender] = "backdate"]
    /\ unread' = TRUE
    /\ UNCHANGED <<call, inRoom, rows, built, rating, due, usage, faults,
                   disturbed>>

\* Every CALL_STARTED row gets the start of the call as its time, and comes
\* anywhere among the events of that time.
EndBackdate ==
    /\ pc[Ender] = "backdate"
    /\ \E order \in Permutations(DOMAIN events) \cap [DOMAIN events -> DOMAIN events] :
         LET moved == [i \in DOMAIN events |->
                         IF IsStart(events[order[i]])
                         THEN [events[order[i]] EXCEPT !.at = startedAt]
                         ELSE events[order[i]]]
         IN  /\ \A i, j \in DOMAIN events : i < j =>
                   \/ moved[i].at < moved[j].at
                   \/ /\ moved[i].at = moved[j].at
                      /\ IsStart(moved[i]) \/ IsStart(moved[j]) \/ order[i] < order[j]
             /\ events' = moved
    /\ pc' = [pc EXCEPT ![Ender] = "read"]
    /\ unread' = TRUE
    /\ UNCHANGED <<now, call, inRoom, rows, built, rating, due, usage, faults,
                   disturbed>>

EndRatesUnbuilt ==
    /\ pc[Ender] = "tellType"
    /\ events' = [i \in DOMAIN events |->
                    IF IsStart(events[i]) THEN [events[i] EXCEPT !.video = isVideo]
                    ELSE events[i]]
    /\ pc' = [pc EXCEPT ![Ender] = "rate"]
    /\ unread' = TRUE
    /\ UNCHANGED <<now, call, inRoom, rows, built, rating, due, usage, faults,
                   disturbed>>

\* Every CALL_STARTED row gets the call's type as its metadata.
EndTellType ==
    /\ pc[Ender] = "tellType"
    /\ events' = [i \in DOMAIN events |->
                    IF IsStart(events[i]) THEN [events[i] EXCEPT !.video = isVideo]
                    ELSE events[i]]
    /\ pc' = [pc EXCEPT ![Ender] = "read"]
    /\ unread' = TRUE
    /\ UNCHANGED <<now, call, inRoom, rows, built, rating, due, usage, faults,
                   disturbed>>

\* persistRatedCosts first has rateCall rate the rows it reads.  They come in
\* the order of their start, which a sum does not depend on.
Times(r) == <<r.from, r.to>>

EndRate ==
    /\ pc[Ender] = "rate"
    /\ rating' = RatedCall(rows)
    /\ due' = {Times(r) : r \in Range(rows)}
    /\ pc' = [pc EXCEPT ![Ender] = IF rows = <<>> THEN "usage" ELSE "persist"]
    /\ UNCHANGED <<now, call, inRoom, events, rows, built, usage, faults,
                   unread, disturbed>>

\* One update of persistRatedCosts: all rows with the times of a rated segment.
Marked(table, t) ==
    [i \in DOMAIN table |-> Row(table[i], table[i].rated \/ Times(table[i]) = t)]

EndPersistsFirst ==
    /\ pc[Ender] = "persist"
    /\ \E t \in due : (\A u \in due : t[1] <= u[1]) /\ rows' = Marked(rows, t)
    /\ due' = {}
    /\ pc' = [pc EXCEPT ![Ender] = "usage"]
    /\ UNCHANGED <<now, call, inRoom, events, built, rating, usage, faults,
                   unread, disturbed>>

EndPersist ==
    /\ pc[Ender] = "persist"
    /\ \E t \in due :
         /\ \A u \in due : t[1] <= u[1]
         /\ rows' = Marked(rows, t)
         /\ due' = due \ {t}
    /\ pc' = IF due' = {} THEN [pc EXCEPT ![Ender] = "usage"] ELSE pc
    /\ UNCHANGED <<now, call, inRoom, events, built, rating, usage, faults,
                   unread, disturbed>>

EndUsage ==
    /\ pc[Ender] = "usage"
    /\ usage' = Append(usage, [minutes |-> rating, coarse |-> FALSE])
    /\ pc' = [pc EXCEPT ![Ender] = "done"]
    /\ UNCHANGED <<now, call, inRoom, events, rows, built, rating, due, faults,
                   unread, disturbed>>

\* The aggregate recorded when anything after CALL_ENDED failed: both
\* participants, in whole minutes, in the medium of the call.
Coarse ==
    LET duration == IF startedAt = NoTime THEN 0 ELSE endedAt - startedAt
        minutes  == Minute * ((2 * 2 * duration + Minute) \div (2 * Minute))
    IN  [Nothing EXCEPT ![IF isVideo THEN "video" ELSE "audio"] = minutes]

EndFallback ==
    /\ pc[Ender] = "fallback"
    /\ usage' = Append(usage, [minutes |-> Coarse, coarse |-> TRUE])
    /\ pc' = [pc EXCEPT ![Ender] = "done"]
    /\ UNCHANGED <<now, call, inRoom, events, rows, built, rating, due, faults,
                   unread, disturbed>>

(***************************************************************************)
(* A statement fails: the gateway gives up, endCall falls back.            *)
(***************************************************************************)
Fail(w) ==
    /\ faults < MaxFaults
    /\ pc[w] \in {"read", "delete", "create", "findStart", "addStart", "backdate",
                  "tellType", "rate", "persist", "usage"}
    /\ faults' = faults + 1
    /\ pc' = [pc EXCEPT ![w] = IF w = Ender THEN "fallback" ELSE "idle"]
    /\ built' = [built EXCEPT ![w] = <<>>]
    /\ disturbed' = TRUE
    /\ UNCHANGED <<now, call, inRoom, events, rows, rating, due, usage, unread>>

EndStep ==
    \/ EndRecord \/ EndFindStart \/ EndAddStart \/ EndBackdate \/ EndTellType
    \/ EndRate \/ EndPersist \/ EndUsage \/ EndFallback

Rebuild(w) == RebuildRead(w) \/ RebuildDelete(w) \/ RebuildCreate(w)

Next ==
    \/ \E h \in Handlers, e \in Gateway : GatewayRecord(h, e[1], e[2])
    \/ \E e \in Rest : RestRecord(e[1], e[2])
    \/ \E w \in Workers : Rebuild(w) \/ Fail(w)
    \/ EndClaim \/ EndStep

Spec == Init /\ [][Next]_vars
-----------------------------------------------------------------------------
(***************************************************************************)
(* Properties.                                                             *)
(***************************************************************************)
Kinds ==
    MediaKinds \cup Opening
      \cup {"PARTICIPANT_LEFT", "CALL_ENDED", "WEBRTC_TRANSPORT"}
EventRow == [kind: Kinds, who: People, at: Nat, video: BOOLEAN]
MediaOf == UNION {[S -> Media] : S \in SUBSET People}
Segment == [from: Nat, to: Nat, people: MediaOf]
UsageRow == [from: Nat, to: Nat, people: MediaOf, rated: BOOLEAN]

Stages(w) ==
    {"idle", "read", "delete", "create"} \cup
    IF w = Ender
    THEN {"ended", "findStart", "addStart", "backdate", "tellType", "rate",
          "persist", "usage", "fallback", "done"}
    ELSE {}

Covering(table, t) ==
    {i \in DOMAIN table : table[i].from <= t /\ t < table[i].to}

\* The segments of one rebuild: none is empty, none ends after `until', and at
\* every tick there is at most one.
Timeline(segments, until) ==
    /\ segments \in Seq(Segment)
    /\ \A i \in DOMAIN segments :
          segments[i].from < segments[i].to /\ segments[i].to <= until
    /\ \A t \in 0..until : \A i, j \in Covering(segments, t) : i = j

\* The events as a query returns them, none of them after `until'.
Ordered(es) == \A i, j \in DOMAIN es : i <= j => es[i].at <= es[j].at
History(es, until) ==
    es \in Seq(EventRow) /\ Ordered(es) /\ \A i \in DOMAIN es : es[i].at <= until

TypeOK ==
    /\ now \in 0..MaxTime /\ isVideo \in BOOLEAN
    /\ startedAt \in 0..now \cup {NoTime} /\ endedAt \in 0..now \cup {NoTime}
    /\ inRoom \subseteq People /\ faults \in 0..MaxFaults
    /\ unread \in BOOLEAN /\ disturbed \in BOOLEAN
    /\ History(events, now) /\ rows \in Seq(UsageRow)
    /\ pc \in [Workers -> UNION {Stages(v) : v \in Workers}]
    /\ \A w \in Workers : pc[w] \in Stages(w)
    /\ built \in [Workers -> Seq(Segment)]
    /\ \A w \in Workers : Timeline(built[w], now)

\* The builder (usage-segment.service.ts:57-248) bills exactly what the events
\* tell, in every order that they can come in, also before the start, after a
\* leave or after the end: compared with the reference, tick by tick, whenever
\* they have changed.
TimelineIsTold == unread => Tells(Build(events), events, People)

\* Each tick of the call is held by at most one row per worker, however their
\* rebuilds overlap (usage-segment.service.ts:254-282): a worker deletes before
\* it inserts, so it never adds to what it inserted itself.
CoverageIsBounded ==
    \A t \in 0..now : Cardinality(Covering(rows, t)) <= Cardinality(Workers)

\* Without overlap or failure, the rows are those of the events as soon as the
\* last rebuild is through, each of them once.
RowsFollowTheEvents ==
    ~disturbed /\ ~unread /\ (\A w \in Workers : pc[w] \notin {"read", "delete", "create"})
      => [i \in DOMAIN rows |-> Row(rows[i], FALSE)] = RowsOf(Build(events))

\* Without overlap or failure, the usage of the call (call.service.ts:455-474)
\* is the rating of the segments that endCall built, although it rates rows
\* that it reads back from the table.
BillIsTheTimeline ==
    ~disturbed /\ usage # <<>>
      => usage[1].minutes = RatedCall(built[Ender])

\* The rated rows, which the administrator's analytics add up, and the usage,
\* which is invoiced, say the same (rating-engine.service.ts:178-196); and a
\* table of which only a part is rated does not arise.
RatedRowsBackTheBill ==
    ~disturbed /\ rows # <<>> /\ pc[Ender] = "done" =>
      \/ \A r \in Range(rows) : ~r.rated
      \/ /\ \A r \in Range(rows) : r.rated
         /\ usage[1].minutes = RatedCall(rows)
=============================================================================
