------------------------- MODULE SegmentTimeline -------------------------
(***************************************************************************)
(* The segment builder and the rating of segments, as functions of a       *)
(* call's events (usage-segment.service.ts, rating-engine.service.ts).     *)
(*                                                                         *)
(* An event is [kind, who, at, video]; `video' is the callType metadata of *)
(* CALL_STARTED.  Times are ticks.  The aggregate flags of a segment are   *)
(* for display only and are left out: `people' is what is billed.          *)
(***************************************************************************)
EXTENDS Integers, SequencesExt

Opening == {"CALL_STARTED", "PARTICIPANT_JOINED"}

\* What each media event does to the state of the participant it names.
Patched(media, kind) ==
    CASE kind = "CAMERA_ENABLED"       -> [media EXCEPT !.video = TRUE]
      [] kind = "CAMERA_DISABLED"      -> [media EXCEPT !.video = FALSE]
      [] kind = "MIC_ENABLED"          -> [media EXCEPT !.audio = TRUE]
      [] kind = "MIC_DISABLED"         -> [media EXCEPT !.audio = FALSE]
      [] kind = "SCREEN_SHARE_STARTED" -> [media EXCEPT !.screen = TRUE]
      [] kind = "SCREEN_SHARE_STOPPED" -> [media EXCEPT !.screen = FALSE]

MediaKinds ==
    {"CAMERA_ENABLED", "CAMERA_DISABLED", "MIC_ENABLED", "MIC_DISABLED",
     "SCREEN_SHARE_STARTED", "SCREEN_SHARE_STOPPED"}

Media == [audio: BOOLEAN, video: BOOLEAN, screen: BOOLEAN]
Off == [audio |-> FALSE, video |-> FALSE, screen |-> FALSE]
Nobody == [p \in {} |-> Off]

(***************************************************************************)
(* The builder: `states' of those present, the segment that is `open'      *)
(* since `at' with the media of `people', whether the call is a video      *)
(* call, and the segments closed so far.                                   *)
(***************************************************************************)
Empty ==
    [states |-> Nobody, open |-> FALSE, at |-> 0, people |-> Nobody,
     video |-> FALSE, segments |-> <<>>]

Close(b, until) ==
    IF b.open /\ until > b.at
    THEN [b EXCEPT !.segments =
            Append(@, [from |-> b.at, to |-> until, people |-> b.people])]
    ELSE b

UpdateTotals(b, states, at) ==
    [Close(b, at) EXCEPT !.states = states, !.open = TRUE, !.at = at,
                         !.people = states]

Enter(b, e) ==
    LET start == e.kind = "CALL_STARTED"
        video == IF start THEN e.video ELSE b.video
        known == [p \in DOMAIN b.states |->
                    IF start /\ e.video
                    THEN [b.states[p] EXCEPT !.audio = FALSE, !.video = TRUE]
                    ELSE b.states[p]]
        own   == IF e.who \in DOMAIN known THEN known[e.who] ELSE Off
        mine  == [own EXCEPT !.audio = ~video, !.video = video]
    IN  UpdateTotals([b EXCEPT !.video = video],
                     [p \in DOMAIN known \cup {e.who} |->
                        IF p = e.who THEN mine ELSE known[p]], e.at)

Leave(b, e) ==
    UpdateTotals(b, [p \in DOMAIN b.states \ {e.who} |-> b.states[p]], e.at)

\* CALL_ENDED closes the open segment; the states stay as they are.
End(b, e) == [Close(b, e.at) EXCEPT !.open = FALSE]

ToggleInVideo(b, e) ==
    IF e.who \in DOMAIN b.states
    THEN UpdateTotals(b, [b.states EXCEPT ![e.who] = Patched(@, e.kind)], e.at)
    ELSE b

Toggle(b, e) ==
    IF e.who \in DOMAIN b.states /\ (e.kind = "MIC_ENABLED" => ~b.video)
    THEN UpdateTotals(b, [b.states EXCEPT ![e.who] = Patched(@, e.kind)], e.at)
    ELSE b

Heard(b, e) ==
    CASE e.kind \in Opening           -> Enter(b, e)
      [] e.kind = "PARTICIPANT_LEFT"  -> Leave(b, e)
      [] e.kind = "CALL_ENDED"        -> End(b, e)
      [] e.kind \in MediaKinds        -> Toggle(b, e)
      [] OTHER                        -> b

\* The segments of a call's events; one left open is closed at the last event.
Build(events) ==
    LET b == FoldLeft(Heard, Empty, events)
    IN  IF events = <<>> THEN <<>> ELSE Close(b, Last(events).at).segments

(***************************************************************************)
(* Rating: participant time per medium; screen share counts on video only. *)
(***************************************************************************)
Using(people, medium) ==
    {p \in DOMAIN people :
        people[p][medium] /\ (medium = "screen" => people[p].video)}

Rated(segment) ==
    [m \in {"audio", "video", "screen"} |->
        (segment.to - segment.from) * Cardinality(Using(segment.people, m))]

Nothing == [m \in {"audio", "video", "screen"} |-> 0]
Plus(x, y) == [m \in DOMAIN x |-> x[m] + y[m]]
RatedCall(segments) ==
    FoldLeft(LAMBDA total, s : Plus(total, Rated(s)), Nothing, segments)

(***************************************************************************)
(* The reference: what a participant uses after the first n events, by the *)
(* last one of them that decides it.                                       *)
(***************************************************************************)
\* TRUE iff the last of the events of `deciding' is one of `yes'.
LastIs(deciding, yes) ==
    deciding # {} /\ Max(deciding) \in yes

Of(events, I, kinds) == {i \in I : events[i].kind \in kinds}
By(events, I, p) == {i \in I : events[i].who = p}

PresentAfter(events, n, p) ==
    LET mine == By(events, 1..n, p)
    IN  LastIs(Of(events, mine, Opening \cup {"PARTICIPANT_LEFT"}),
               Of(events, mine, Opening))

VideoAfter(events, n) ==
    LET starts == Of(events, 1..n, {"CALL_STARTED"})
    IN  LastIs(starts, {i \in starts : events[i].video})

\* The events among I that a present p is affected by.
Affects(events, I, p, kinds) ==
    {i \in By(events, Of(events, I, kinds), p) :
        PresentAfter(events, i - 1, p)}
Switches(events, I, p) ==
    {i \in Of(events, I, {"CALL_STARTED"}) :
        events[i].video /\ PresentAfter(events, i - 1, p)}

UsesAfter(events, n, p) ==
    LET I     == 1..n
        enter == By(events, Of(events, I, Opening), p)
        video == {i \in enter : VideoAfter(events, i)}
        micOn == {i \in Affects(events, I, p, {"MIC_ENABLED"}) :
                    ~VideoAfter(events, i)}
        gone  == By(events, Of(events, I, {"PARTICIPANT_LEFT"}), p)
    IN  [audio  |-> LastIs(enter \cup Switches(events, I, p) \cup micOn
                             \cup Affects(events, I, p, {"MIC_DISABLED"}),
                           (enter \ video) \cup micOn),
         video  |-> LastIs(enter \cup Switches(events, I, p)
                             \cup Affects(events, I, p,
                                          {"CAMERA_ENABLED", "CAMERA_DISABLED"}),
                           video \cup Switches(events, I, p)
                             \cup Affects(events, I, p, {"CAMERA_ENABLED"})),
         screen |-> LastIs(gone \cup Affects(events, I, p,
                              {"SCREEN_SHARE_STARTED", "SCREEN_SHARE_STOPPED"}),
                           Affects(events, I, p, {"SCREEN_SHARE_STARTED"}))]

\* The call is being billed after n events: something after the last CALL_ENDED
\* opened a segment.
Reopens(events, I) ==
    Of(events, I, Opening \cup {"PARTICIPANT_LEFT"})
      \cup {i \in Of(events, I, MediaKinds) :
              /\ PresentAfter(events, i - 1, events[i].who)
              /\ events[i].kind = "MIC_ENABLED" => ~VideoAfter(events, i)}

OpenAfter(events, n) ==
    LET reopens == Reopens(events, 1..n)
    IN  LastIs(reopens \cup Of(events, 1..n, {"CALL_ENDED"}), reopens)

\* The segments show the call as the events tell it: at every tick before the
\* last event exactly one segment while the call is billed and none otherwise,
\* with exactly those present and the media each of them uses.
UpTo(events, t) == {i \in DOMAIN events : events[i].at <= t}

Tells(segments, events, People) ==
    LET end == IF events = <<>> THEN 0 ELSE Last(events).at
    IN  \A t \in 0..end :
          LET now  == {i \in DOMAIN segments :
                         segments[i].from <= t /\ t < segments[i].to}
              n    == Cardinality(UpTo(events, t))
              here == {p \in People : PresentAfter(events, n, p)}
          IN  IF t < end /\ OpenAfter(events, n)
              THEN \E i \in now : /\ now = {i}
                                  /\ segments[i].people =
                                       [p \in here |-> UsesAfter(events, n, p)]
              ELSE now = {}
=============================================================================
