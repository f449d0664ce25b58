--------------------------- MODULE SegmentProofs ---------------------------
(***************************************************************************)
(* Theorems about SegmentTimeline and SegmentRebuild, for every number of  *)
(* handlers, events, ticks and failures.                                   *)
(*                                                                         *)
(* First the builder: by induction over the events, what it holds mirrors  *)
(* what the reference says of the events so far (Mirrors), and what it has *)
(* closed says of every earlier tick what it held then (Holds).  Then the  *)
(* workers that rebuild the table.                                         *)
(***************************************************************************)
EXTENDS SegmentRebuild, FiniteSums

-----------------------------------------------------------------------------
\* What an event does to the builder.

\* The builder's state between two events.
Builder ==
    [states: MediaOf, open: BOOLEAN, at: Nat, people: MediaOf,
     video: BOOLEAN, segments: Seq(Segment)]

\* The media of a set of participants, taken apart and put together.
LEMMA MediaOfFacts ==
    /\ Nobody \in MediaOf
    /\ \A f \in MediaOf : DOMAIN f \subseteq People /\ f \in [DOMAIN f -> Media]
    /\ \A S \in SUBSET People : \A f \in [S -> Media] : f \in MediaOf
<1>1. {} \in SUBSET People /\ Nobody \in [{} -> Media]
  BY DEF Nobody
<1> QED
  BY <1>1 DEF MediaOf

\* A media event sets one medium and leaves the rest.
LEMMA PatchedType ==
    ASSUME NEW m \in Media, NEW kind \in MediaKinds
    PROVE  Patched(m, kind) \in Media
BY DEF Media, MediaKinds, Patched

\* Closing a segment adds at most that segment.
LEMMA CloseType ==
    ASSUME NEW b \in Builder, NEW until \in Nat
    PROVE  /\ Close(b, until) \in Builder
           /\ Close(b, until) =
                [b EXCEPT !.segments =
                   IF b.open /\ until > b.at
                   THEN Append(b.segments, [from |-> b.at, to |-> until, people |-> b.people])
                   ELSE b.segments]
<1>1. [from |-> b.at, to |-> until, people |-> b.people] \in Segment
  BY DEF Builder, Segment, MediaOf
<1> DEFINE s == [from |-> b.at, to |-> until, people |-> b.people]
<1>2. b.segments \in Seq(Segment) /\ Append(b.segments, s) \in Seq(Segment)
  BY <1>1 DEF Builder
<1>3. CASE b.open /\ until > b.at
  <2>1. Close(b, until) = [b EXCEPT !.segments = Append(b.segments, s)]
    BY <1>3 DEF Close
  <2>2. Close(b, until) \in Builder
    <3> HIDE DEF s
    <3> QED
      BY <1>2, <2>1 DEF Builder
  <2> QED
    BY <1>3, <2>1, <2>2
<1>4. CASE ~ (b.open /\ until > b.at)
  <2>1. Close(b, until) = b
    BY <1>4 DEF Close
  <2> QED
    BY <1>4, <2>1 DEF Builder
<1> QED
  BY <1>3, <1>4

\* Every event that is billed closes the open segment and opens the next
\* with the new states.
LEMMA UpdateType ==
    ASSUME NEW b \in Builder, NEW states \in MediaOf, NEW at \in Nat
    PROVE  /\ UpdateTotals(b, states, at) \in Builder
           /\ UpdateTotals(b, states, at) =
                [states |-> states, open |-> TRUE, at |-> at, people |-> states,
                 video |-> b.video, segments |-> Close(b, at).segments]
<1> DEFINE c == Close(b, at)
<1>1. /\ c \in Builder /\ c.video = b.video
  <2>1. c \in Builder /\ \E x : c = [b EXCEPT !.segments = x]
    BY CloseType
  <2> HIDE DEF c
  <2> QED
    BY <2>1 DEF Builder
<1>2. UpdateTotals(b, states, at) =
        [c EXCEPT !.states = states, !.open = TRUE, !.at = at, !.people = states]
  BY DEF UpdateTotals
<1> HIDE DEF c
<1>3. UpdateTotals(b, states, at) =
        [states |-> states, open |-> TRUE, at |-> at, people |-> states,
         video |-> c.video, segments |-> c.segments]
  BY <1>1, <1>2 DEF Builder
<1>4. UpdateTotals(b, states, at) \in Builder
  BY <1>1, <1>3 DEF Builder
<1> QED
  BY <1>1, <1>3, <1>4 DEF c

\* Where somebody enters, the builder goes on with some states.
LEMMA EnterType ==
    ASSUME NEW b \in Builder, NEW e \in EventRow
    PROVE  /\ Enter(b, e) \in Builder
           /\ \E states \in MediaOf :
                Enter(b, e) =
                  [states |-> states, open |-> TRUE, at |-> e.at, people |-> states,
                   video |-> IF e.kind = "CALL_STARTED" THEN e.video ELSE b.video,
                   segments |-> Close(b, e.at).segments]
<1> DEFINE start == e.kind = "CALL_STARTED"
           video == IF start THEN e.video ELSE b.video
           known == [p \in DOMAIN b.states |->
                       IF start /\ e.video
                       THEN [b.states[p] EXCEPT !.audio = FALSE, !.video = TRUE]
                       ELSE b.states[p]]
           own == IF e.who \in DOMAIN known THEN known[e.who] ELSE Off
           mine == [own EXCEPT !.audio = ~video, !.video = video]
           states == [p \in DOMAIN known \cup {e.who} |-> IF p = e.who THEN mine ELSE known[p]]
           c == [b EXCEPT !.video = video]
<1>1. DOMAIN b.states \subseteq People /\ \A p \in DOMAIN b.states : b.states[p] \in Media
  BY MediaOfFacts DEF Builder
<1>2. DOMAIN known = DOMAIN b.states /\ \A p \in DOMAIN known : known[p] \in Media
  BY <1>1 DEF Media, EventRow
<1>3. video \in BOOLEAN
  BY DEF Builder, EventRow
<1>4. own \in Media
  BY <1>2 DEF Media, Off
<1>5. mine \in Media
  BY <1>3, <1>4 DEF Media
<1>6. states \in MediaOf
  <2>1. DOMAIN known \cup {e.who} \in SUBSET People
    BY <1>1, <1>2 DEF EventRow
  <2>2. states \in [DOMAIN known \cup {e.who} -> Media]
    BY <1>2, <1>5
  <2> QED
    BY <2>1, <2>2, MediaOfFacts
<1>7. c \in Builder /\ c.video = video /\ Close(c, e.at).segments = Close(b, e.at).segments
  BY <1>3, CloseType DEF Builder, Close, EventRow
<1>8. Enter(b, e) = UpdateTotals(c, states, e.at)
  BY DEF Enter
<1> HIDE DEF states, c, video
<1>9. e.at \in Nat
  BY DEF EventRow
<1>10. UpdateTotals(c, states, e.at) \in Builder
       /\ UpdateTotals(c, states, e.at) =
                [states |-> states, open |-> TRUE, at |-> e.at, people |-> states,
                 video |-> c.video, segments |-> Close(c, e.at).segments]
  BY <1>6, <1>7, <1>9, UpdateType
<1>11. UpdateTotals(c, states, e.at) =
                [states |-> states, open |-> TRUE, at |-> e.at, people |-> states,
                 video |-> video, segments |-> Close(b, e.at).segments]
  BY <1>7, <1>10
<1> QED
  BY <1>6, <1>8, <1>10, <1>11 DEF video

\* Where somebody leaves, too.
LEMMA LeaveType ==
    ASSUME NEW b \in Builder, NEW e \in EventRow
    PROVE  /\ Leave(b, e) \in Builder
           /\ \E states \in MediaOf :
                Leave(b, e) =
                  [states |-> states, open |-> TRUE, at |-> e.at, people |-> states,
                   video |-> b.video, segments |-> Close(b, e.at).segments]
<1> DEFINE states == [p \in DOMAIN b.states \ {e.who} |-> b.states[p]]
<1>1. states \in MediaOf
  <2>1. DOMAIN b.states \in SUBSET People /\ b.states \in [DOMAIN b.states -> Media]
    BY MediaOfFacts DEF Builder
  <2>2. states \in [DOMAIN b.states \ {e.who} -> Media]
    BY <2>1
  <2> QED
    BY <2>1, <2>2, MediaOfFacts
<1>2. e.at \in Nat
  BY DEF EventRow
<1>3. Leave(b, e) = UpdateTotals(b, states, e.at)
  BY DEF Leave
<1> HIDE DEF states
<1> QED
  BY <1>1, <1>2, <1>3, UpdateType

\* CALL_ENDED closes the open segment and opens none.
LEMMA EndType ==
    ASSUME NEW b \in Builder, NEW e \in EventRow
    PROVE  /\ End(b, e) \in Builder
           /\ End(b, e) = [b EXCEPT !.segments = Close(b, e.at).segments, !.open = FALSE]
<1>1. e.at \in Nat
  BY DEF EventRow
<1> DEFINE c == Close(b, e.at)
<1>2. c \in Builder /\ c = [b EXCEPT !.segments = c.segments]
  <2>1. c \in Builder /\ \E x : c = [b EXCEPT !.segments = x]
    BY <1>1, CloseType
  <2> HIDE DEF c
  <2> QED
    BY <2>1 DEF Builder
<1>3. End(b, e) = [c EXCEPT !.open = FALSE]
  BY DEF End
<1> HIDE DEF c
<1>4. End(b, e) \in Builder /\ End(b, e) = [b EXCEPT !.segments = c.segments, !.open = FALSE]
  BY <1>2, <1>3 DEF Builder
<1> QED
  BY <1>4 DEF c

\* A media event is ignored, or the builder goes on with some states.
LEMMA ToggleType ==
    ASSUME NEW b \in Builder, NEW e \in EventRow, e.kind \in MediaKinds
    PROVE  /\ Toggle(b, e) \in Builder
           /\ \/ Toggle(b, e) = b
              \/ \E states \in MediaOf :
                   Toggle(b, e) =
                     [states |-> states, open |-> TRUE, at |-> e.at, people |-> states,
                      video |-> b.video, segments |-> Close(b, e.at).segments]
<1> DEFINE states == [b.states EXCEPT ![e.who] = Patched(b.states[e.who], e.kind)]
<1>1. ASSUME e.who \in DOMAIN b.states PROVE states \in MediaOf
  <2>1. DOMAIN b.states \in SUBSET People /\ b.states \in [DOMAIN b.states -> Media]
    BY MediaOfFacts DEF Builder
  <2>2. Patched(b.states[e.who], e.kind) \in Media
    BY <1>1, <2>1, PatchedType
  <2>3. states \in [DOMAIN b.states -> Media]
    BY <2>1, <2>2
  <2> QED
    BY <2>1, <2>3, MediaOfFacts
<1>2. e.at \in Nat
  BY DEF EventRow
<1>3. Toggle(b, e) = IF e.who \in DOMAIN b.states /\ (e.kind = "MIC_ENABLED" => ~b.video)
                     THEN UpdateTotals(b, states, e.at) ELSE b
  BY DEF Toggle
<1> HIDE DEF states
<1> QED
  BY <1>1, <1>2, <1>3, UpdateType

\* What any event does to the segments: nothing, a close, or a close and a
\* new one.
LEMMA HeardType ==
    ASSUME NEW b \in Builder, NEW e \in EventRow
    PROVE  /\ Heard(b, e) \in Builder
           /\ \/ Heard(b, e) = b
              \/ Heard(b, e) = [b EXCEPT !.segments = Close(b, e.at).segments, !.open = FALSE]
              \/ \E states \in MediaOf, video \in BOOLEAN :
                   Heard(b, e) =
                     [states |-> states, open |-> TRUE, at |-> e.at, people |-> states,
                      video |-> video, segments |-> Close(b, e.at).segments]
<1>1. CASE e.kind \in Opening
  <2>1. Heard(b, e) = Enter(b, e)
    BY <1>1 DEF Heard, Opening, MediaKinds
  <2> QED
    BY <2>1, EnterType DEF Builder, EventRow
<1>2. CASE e.kind = "PARTICIPANT_LEFT"
  <2>1. Heard(b, e) = Leave(b, e)
    BY <1>2 DEF Heard, Opening, MediaKinds
  <2> QED
    BY <2>1, LeaveType DEF Builder
<1>3. CASE e.kind = "CALL_ENDED"
  <2>1. Heard(b, e) = End(b, e)
    BY <1>3 DEF Heard, Opening, MediaKinds
  <2> QED
    BY <2>1, EndType
<1>4. CASE e.kind \in MediaKinds
  <2>1. Heard(b, e) = Toggle(b, e)
    BY <1>4 DEF Heard, Opening, MediaKinds
  <2> QED
    BY <1>4, <2>1, ToggleType DEF Builder
<1>5. CASE e.kind = "WEBRTC_TRANSPORT"
  BY <1>5 DEF Heard, Opening, MediaKinds
<1> QED
  BY <1>1, <1>2, <1>3, <1>4, <1>5 DEF EventRow, Kinds

\* f is what the builder holds after each of the first n events.
Steps(f, n, es) ==
    /\ f[0] = Empty
    /\ \A i \in 1..n : f[i] = Heard(f[i - 1], es[i])

\* The greatest of 1..n is n.
LEMMA MaxOfInterval ==
    ASSUME NEW n \in Nat
    PROVE  n # 0 => Max(1..n) = n /\ (1..n) \ {Max(1..n)} = 1..(n - 1)
<1>1. ASSUME n # 0 PROVE Max(1..n) = n
  <2>1. n \in 1..n /\ \A y \in 1..n : n >= y
    BY <1>1
  <2>2. \A x \in 1..n : (\A y \in 1..n : x >= y) => x = n
    BY <1>1
  <2> QED
    BY <2>1, <2>2 DEF Max
<1> QED
  BY <1>1

\* A set of positions has a greatest.
LEMMA MaxIsIn ==
    ASSUME NEW n \in Nat, NEW S \in SUBSET (1..n), S # {}
    PROVE  Max(S) \in S /\ \A y \in S : Max(S) >= y
<1> DEFINE Has(T) == T = {} \/ \E x \in T : \A y \in T : x >= y
           C == {T \in SUBSET S : Has(T)}
<1>1. {} \in C
  OBVIOUS
<1>2. ASSUME NEW T \in SUBSET S, NEW z \in S \ T, T \in C PROVE T \cup {z} \in C
  <2>1. CASE T = {}
    BY <2>1
  <2>2. CASE T # {}
    <3>1. PICK x \in T : \A y \in T : x >= y
      BY <1>2, <2>2
    <3>2. x \in Int /\ z \in Int /\ \A y \in T : y \in Int
      OBVIOUS
    <3>3. CASE x >= z
      BY <3>1, <3>2, <3>3
    <3>4. CASE ~ (x >= z)
      BY <3>1, <3>2, <3>4
    <3> QED
      BY <3>3, <3>4
  <2> QED
    BY <2>1, <2>2
<1>3. S \in C
  <2>1. IsFiniteSet(S)
    <3>1. IsFiniteSet(1..n) /\ S \subseteq 1..n
      BY FS_Interval
    <3> QED
      BY <3>1, FS_Subset
  <2> HIDE DEF C
  <2> QED
    BY <1>1, <1>2, <2>1, FiniteSetsByStages
<1> QED
  BY <1>3 DEF Max

\* The fold over the events goes through them one by one.
LEMMA BuilderSteps ==
    ASSUME NEW es \in Seq(EventRow)
    PROVE  \E f \in [0..Len(es) -> Builder] :
             Steps(f, Len(es), es) /\ FoldLeft(Heard, Empty, es) = f[Len(es)]
<1> DEFINE N == Len(es)
           S == 1..N
           choice == [s \in SUBSET S |-> Max(s)]
           G == [i \in S |-> [b \in Builder |-> Heard(b, es[i])]]
           Equation(g) == g = [s \in SUBSET DOMAIN es |->
                    IF s = {} THEN Empty ELSE Heard(g[s \ {Max(s)}], es[Max(s)])]
<1>1. N \in Nat /\ DOMAIN es = S /\ IsFiniteSet(S) /\ \A i \in S : es[i] \in EventRow
  BY FS_Interval
<1>2. \A s \in SUBSET S : s # {} => choice[s] \in s
  BY <1>1, MaxIsIn
<1>3. PICK g \in [SUBSET S -> Builder] : Folds(g, S, Empty, choice, G)
  <2>1. Empty \in Builder
    BY MediaOfFacts DEF Builder, Empty
  <2>3. \A x \in S : G[x] \in [Builder -> Builder]
    BY <1>1, HeardType
  <2> HIDE DEF choice, G, S
  <2> QED
    BY <1>1, <1>2, <2>1, <2>3, FoldExists
<1>4. FoldLeft(Heard, Empty, es) = (CHOOSE h : Equation(h))[DOMAIN es]
  BY DEF FoldLeft, MapThenFoldSet
<1>5. \A s \in SUBSET S : g[s] = IF s = {} THEN Empty ELSE Heard(g[s \ {Max(s)}], es[Max(s)])
  <2>1. ASSUME NEW s \in SUBSET S, s # {} PROVE g[s] = Heard(g[s \ {Max(s)}], es[Max(s)])
    <3>1. Max(s) \in S /\ choice[s] = Max(s) /\ g[s \ {Max(s)}] \in Builder
      BY <1>2, <2>1
    <3>2. g[s] = G[choice[s]][g[s \ {choice[s]}]]
      BY <1>3, <2>1 DEF Folds
    <3> QED
      BY <3>1, <3>2
  <2> QED
    BY <1>3, <2>1 DEF Folds
<1>6. Equation(g)
  BY <1>1, <1>5
<1>7. ASSUME NEW h, Equation(h) PROVE h[S] = g[S]
  <2>1. \A s \in SUBSET S : h[s] = IF s = {} THEN Empty ELSE Heard(h[s \ {Max(s)}], es[Max(s)])
    BY <1>1, <1>7
  <2>2. Alike(g, h, {})
    BY <1>5, <2>1 DEF Alike
  <2>3. \A s \in SUBSET S : s # {} /\ Alike(g, h, s \ {choice[s]}) => Alike(g, h, s)
    <3>1. ASSUME NEW s \in SUBSET S, s # {}, Alike(g, h, s \ {choice[s]})
          PROVE  Alike(g, h, s)
      <4>1. g[s] = Heard(g[s \ {Max(s)}], es[Max(s)])
        BY <1>5, <3>1
      <4>2. h[s] = Heard(h[s \ {Max(s)}], es[Max(s)])
        BY <2>1, <3>1
      <4>3. g[s \ {Max(s)}] = h[s \ {Max(s)}]
        BY <3>1 DEF Alike
      <4> QED
        BY <4>1, <4>2, <4>3, Zenon DEF Alike
    <3> QED
      BY <3>1
  <2>4. AlikeByStages(g, h, S, choice)
    BY <1>2, <2>2, <2>3 DEF AlikeByStages
  <2> QED
    BY <1>1, <2>4, FoldsAgree DEF Alike
<1>8. Equation(CHOOSE h : Equation(h))
  <2> HIDE DEF Equation
  <2> QED
    BY <1>6
<1>9. FoldLeft(Heard, Empty, es) = g[S]
  <2> HIDE DEF Equation
  <2> QED
    BY <1>1, <1>4, <1>7, <1>8
<1> DEFINE f == [i \in 0..N |-> g[1..i]]
<1>10. f \in [0..N -> Builder] /\ f[N] = g[S]
  BY <1>1
<1>11. Steps(f, N, es)
  <2>1. f[0] = Empty
    <3>1. 1..0 = {} /\ 0 \in 0..N
      BY <1>1
    <3>2. f[0] = g[{}]
      BY <3>1
    <3> QED
      BY <1>5, <3>2
  <2>2. ASSUME NEW i \in 1..N PROVE f[i] = Heard(f[i - 1], es[i])
    <3>1. Max(1..i) = i /\ (1..i) \ {Max(1..i)} = 1..(i - 1)
      BY MaxOfInterval
    <3>2. g[1..i] = Heard(g[(1..i) \ {Max(1..i)}], es[Max(1..i)])
      BY <1>1, <1>5
    <3> QED
      BY <1>1, <3>1, <3>2
  <2> QED
    BY <2>1, <2>2 DEF Steps
<1> QED
  BY <1>9, <1>10, <1>11

-----------------------------------------------------------------------------
\* The segments, tick by tick.

\* The segments say of tick t what the state c of the builder says: who is
\* billed with what, or nobody.
Settled(segments, t, c) ==
    IF c.open
    THEN \E i \in DOMAIN segments : /\ Covering(segments, t) = {i}
                                    /\ segments[i].people = c.people
    ELSE Covering(segments, t) = {}

\* So do the segments of b with the one that it has open.
Held(b, t, c) ==
    IF b.open /\ b.at <= t
    THEN Covering(b.segments, t) = {} /\ c.open /\ c.people = b.people
    ELSE Settled(b.segments, t, c)

\* The segments of b are not empty and end by a, and the open one began by a.
Fits(b, a) ==
    /\ b.open => b.at <= a
    /\ \A j \in DOMAIN b.segments :
          b.segments[j].from < b.segments[j].to /\ b.segments[j].to <= a

\* What is closed at u has ended by u.
LEMMA ClosedFits ==
    ASSUME NEW b \in Builder, NEW a \in Nat, Fits(b, a), NEW u \in Nat, a <= u
    PROVE  \A j \in DOMAIN Close(b, u).segments :
              /\ Close(b, u).segments[j].from < Close(b, u).segments[j].to
              /\ Close(b, u).segments[j].to <= u
<1> DEFINE s == [from |-> b.at, to |-> u, people |-> b.people]
           segs == Close(b, u).segments
<1>1. b.segments \in Seq(Segment) /\ b.at \in Nat
  BY DEF Builder
<1>2. \A j \in DOMAIN b.segments : b.segments[j] \in Segment
  BY <1>1
<1>3. \A j \in DOMAIN b.segments : b.segments[j].from < b.segments[j].to /\ b.segments[j].to <= u
  BY <1>1, <1>2 DEF Fits, Segment
<1>4. CASE b.open /\ u > b.at
  <2>1. segs = Append(b.segments, s)
    BY <1>4 DEF Close, Builder
  <2>2. s.from < s.to /\ s.to <= u
    BY <1>1, <1>4
  <2> HIDE DEF s, segs
  <2>3. DOMAIN segs = DOMAIN b.segments \cup {Len(b.segments) + 1}
    BY <1>1, <2>1
  <2>4. \A j \in DOMAIN b.segments : segs[j] = b.segments[j]
    BY <1>1, <2>1
  <2>5. segs[Len(b.segments) + 1] = s
    BY <1>1, <2>1
  <2>6. \A j \in DOMAIN segs : segs[j].from < segs[j].to /\ segs[j].to <= u
    BY <1>3, <2>2, <2>3, <2>4, <2>5
  <2> QED
    BY <2>6 DEF segs
<1>5. CASE ~ (b.open /\ u > b.at)
  BY <1>3, <1>5 DEF Close
<1> QED
  BY <1>4, <1>5

\* Closing at a settles the ticks before a as they were held.
LEMMA CloseSettles ==
    ASSUME NEW b \in Builder, NEW a \in Nat, NEW t \in Nat, t < a, NEW c, Held(b, t, c)
    PROVE  Settled(Close(b, a).segments, t, c)
<1> DEFINE s == [from |-> b.at, to |-> a, people |-> b.people]
           segs == Close(b, a).segments
<1>1. b.segments \in Seq(Segment) /\ b.at \in Nat
  BY DEF Builder
<1>2. CASE b.open /\ a > b.at
  <2>1. segs = Append(b.segments, s) /\ s.from = b.at /\ s.to = a /\ s.people = b.people
    BY <1>2 DEF Close, Builder
  <2> HIDE DEF s, segs
  <2>2. DOMAIN segs = DOMAIN b.segments \cup {Len(b.segments) + 1}
        /\ Len(b.segments) + 1 \notin DOMAIN b.segments
    BY <1>1, <2>1
  <2>3. \A j \in DOMAIN b.segments : segs[j] = b.segments[j]
    BY <1>1, <2>1
  <2>4. segs[Len(b.segments) + 1] = s
    BY <1>1, <2>1
  <2>5. CASE b.at <= t
    <3>1. Covering(b.segments, t) = {} /\ c.open /\ c.people = b.people
      BY <1>2, <2>5 DEF Held
    <3>2. Covering(segs, t) = {Len(b.segments) + 1}
      BY <2>1, <2>2, <2>3, <2>4, <2>5, <3>1 DEF Covering
    <3> QED
      BY <2>1, <2>2, <2>4, <3>1, <3>2 DEF segs, Settled
  <2>6. CASE ~ (b.at <= t)
    <3>1. Settled(b.segments, t, c)
      BY <2>6 DEF Held
    <3>2. Covering(segs, t) = Covering(b.segments, t)
      BY <1>1, <2>1, <2>2, <2>3, <2>4, <2>6 DEF Covering
    <3> QED
      BY <2>2, <2>3, <3>1, <3>2 DEF segs, Settled
  <2> QED
    BY <2>5, <2>6
<1>3. CASE ~ (b.open /\ a > b.at)
  <2>1. segs = b.segments
    BY <1>3 DEF Close
  <2>2. Settled(b.segments, t, c)
    BY <1>1, <1>3 DEF Held
  <2> QED
    BY <2>1, <2>2
<1> QED
  BY <1>2, <1>3

\* An event not before the others keeps the segments in order.
LEMMA HeardFits ==
    ASSUME NEW b \in Builder, NEW a \in Nat, Fits(b, a), NEW e \in EventRow, a <= e.at
    PROVE  Fits(Heard(b, e), e.at)
<1>1. e.at \in Nat
  BY DEF EventRow
<1>2. \A j \in DOMAIN Close(b, e.at).segments :
              /\ Close(b, e.at).segments[j].from < Close(b, e.at).segments[j].to
              /\ Close(b, e.at).segments[j].to <= e.at
  BY <1>1, ClosedFits
<1>3. CASE Heard(b, e) = b
  <2>1. \A j \in DOMAIN b.segments : b.segments[j] \in Segment
    BY DEF Builder
  <2> QED
    BY <1>1, <1>3, <2>1 DEF Fits, Builder, Segment
<1>4. CASE Heard(b, e) = [b EXCEPT !.segments = Close(b, e.at).segments, !.open = FALSE]
  <2>1. Heard(b, e).segments = Close(b, e.at).segments /\ Heard(b, e).open = FALSE
    BY <1>4 DEF Builder
  <2> QED
    BY <1>2, <2>1 DEF Fits
<1>5. CASE \E states \in MediaOf, video \in BOOLEAN :
                   Heard(b, e) =
                     [states |-> states, open |-> TRUE, at |-> e.at, people |-> states,
                      video |-> video, segments |-> Close(b, e.at).segments]
  <2>1. Heard(b, e).segments = Close(b, e.at).segments /\ Heard(b, e).at = e.at
    BY <1>5
  <2> QED
    BY <1>1, <1>2, <2>1 DEF Fits
<1> QED
  BY <1>3, <1>4, <1>5, HeardType

\* An event decides nothing about the ticks before it.
LEMMA HeardHolds ==
    ASSUME NEW b \in Builder, NEW e \in EventRow, NEW t \in Nat, t < e.at, NEW c, Held(b, t, c)
    PROVE  Held(Heard(b, e), t, c)
<1>1. e.at \in Nat
  BY DEF EventRow
<1>2. Settled(Close(b, e.at).segments, t, c)
  BY <1>1, CloseSettles
<1>3. CASE Heard(b, e) = b
  BY <1>3
<1>4. CASE Heard(b, e) = [b EXCEPT !.segments = Close(b, e.at).segments, !.open = FALSE]
  <2>1. Heard(b, e).segments = Close(b, e.at).segments /\ ~ Heard(b, e).open
    BY <1>4 DEF Builder
  <2> QED
    BY <1>2, <2>1 DEF Held
<1>5. CASE \E states \in MediaOf, video \in BOOLEAN :
                   Heard(b, e) =
                     [states |-> states, open |-> TRUE, at |-> e.at, people |-> states,
                      video |-> video, segments |-> Close(b, e.at).segments]
  <2>1. Heard(b, e).segments = Close(b, e.at).segments /\ ~ (Heard(b, e).at <= t)
    BY <1>1, <1>5
  <2> QED
    BY <1>2, <2>1 DEF Held
<1> QED
  BY <1>3, <1>4, <1>5, HeardType

\* A builder holds its own state for the ticks to come.
LEMMA FitsHolds ==
    ASSUME NEW b \in Builder, NEW a \in Nat, Fits(b, a), NEW t \in Nat, a <= t
    PROVE  Held(b, t, b)
<1>1. b.at \in Nat /\ \A j \in DOMAIN b.segments : b.segments[j] \in Segment
  BY DEF Builder
<1>2. Covering(b.segments, t) = {}
  BY <1>1 DEF Fits, Covering, Segment
<1>3. b.open => b.at <= t
  BY <1>1 DEF Fits
<1> QED
  BY <1>2, <1>3 DEF Held, Settled

\* The columns of an event.
LEMMA EventFacts ==
    ASSUME NEW es \in Seq(EventRow)
    PROVE  /\ Len(es) \in Nat /\ DOMAIN es = 1..Len(es)
           /\ \A i \in 1..Len(es) :
                 /\ es[i] \in EventRow
                 /\ es[i].kind \in Kinds /\ es[i].who \in People
                 /\ es[i].at \in Nat /\ es[i].video \in BOOLEAN
<1>1. \A i \in 1..Len(es) : es[i] \in EventRow
  OBVIOUS
<1> QED
  BY <1>1 DEF EventRow

\* The events up to a tick are the first ones of the query.
LEMMA UpToIsPrefix ==
    ASSUME NEW es \in Seq(EventRow), Ordered(es), NEW t \in Nat
    PROVE  /\ Cardinality(UpTo(es, t)) \in 0..Len(es)
           /\ UpTo(es, t) = 1..Cardinality(UpTo(es, t))
<1> DEFINE U == UpTo(es, t)
<1>1. U \in SUBSET (1..Len(es)) /\ Len(es) \in Nat
  BY DEF UpTo
<1>2. CASE U = {}
  <2>1. Cardinality(U) = 0 /\ 1..0 = {}
    BY <1>2, FS_EmptySet
  <2> QED
    BY <1>1, <1>2, <2>1
<1>3. CASE U # {}
  <2> DEFINE k == Max(U)
  <2>1. k \in U /\ \A y \in U : k >= y
    BY <1>1, <1>3, MaxIsIn
  <2>2. U = 1..k
    <3>1. ASSUME NEW j \in 1..k PROVE j \in U
      <4>1. j \in DOMAIN es /\ k \in DOMAIN es /\ j <= k /\ es[k].at <= t
        BY <1>1, <2>1 DEF UpTo
      <4>2. es[j].at <= es[k].at
        BY <4>1 DEF Ordered
      <4>3. es[j].at \in Nat /\ es[k].at \in Nat
        BY <4>1, EventFacts
      <4> QED
        BY <4>1, <4>2, <4>3 DEF UpTo
    <3>2. ASSUME NEW j \in U PROVE j \in 1..k
      BY <1>1, <2>1
    <3> QED
      BY <3>1, <3>2
  <2>3. k \in 1..Len(es)
    BY <1>1, <2>1
  <2>4. Cardinality(1..k) = k
    BY <2>3, FS_Interval
  <2> QED
    BY <2>2, <2>3, <2>4
<1> QED
  BY <1>2, <1>3

\* The time of the i-th event.
At(es, i) == IF i = 0 THEN 0 ELSE es[i].at

\* After i events, the builder holds for every tick what it was told by the
\* events up to that tick.
Holds(f, es, i) ==
    /\ Fits(f[i], At(es, i))
    /\ \A t \in Nat, k \in 0..i : UpTo(es, t) = 1..k => Held(f[i], t, f[k])

\* And so it does after every number of events.
LEMMA BuilderHolds ==
    ASSUME NEW es \in Seq(EventRow), Ordered(es),
           NEW f \in [0..Len(es) -> Builder], Steps(f, Len(es), es),
           NEW n \in 0..Len(es)
    PROVE  Holds(f, es, n)
<1> DEFINE C == {i \in Nat : i <= Len(es) => Holds(f, es, i)}
<1>1. 0 \in C
  <2>1. Fits(f[0], 0)
    <3>1. f[0] = Empty
      BY DEF Steps
    <3> QED
      BY <3>1 DEF Empty, Fits
  <2>2. \A t \in Nat : Held(f[0], t, f[0])
    BY <2>1, FitsHolds
  <2> QED
    BY <2>1, <2>2 DEF Holds, At
<1>2. ASSUME NEW i \in Nat, i \in C PROVE i + 1 \in C
  <2> SUFFICES ASSUME i + 1 <= Len(es) PROVE Holds(f, es, i + 1)
    OBVIOUS
  <2> DEFINE e == es[i + 1]
  <2>1. Holds(f, es, i)
    BY <1>2
  <2>2. e \in EventRow /\ e.at \in Nat /\ At(es, i + 1) = e.at
    <3>1. i + 1 \in 1..Len(es) /\ i + 1 # 0
      OBVIOUS
    <3> QED
      BY <3>1, EventFacts DEF At
  <2>3. At(es, i) \in Nat /\ At(es, i) <= e.at
    <3>1. CASE i = 0
      BY <2>2, <3>1 DEF At
    <3>2. CASE i # 0
      <4>1. i \in DOMAIN es /\ i + 1 \in DOMAIN es
        BY <3>2
      <4>2. es[i].at \in Nat /\ es[i].at <= es[i + 1].at
        BY <4>1, EventFacts DEF Ordered
      <4> QED
        BY <3>2, <4>2 DEF At
    <3> QED
      BY <3>1, <3>2
  <2>4. f[i] \in Builder /\ f[i + 1] \in Builder /\ f[i + 1] = Heard(f[i], e)
    BY DEF Steps
  <2>5. Fits(f[i + 1], e.at)
    BY <2>1, <2>2, <2>3, <2>4, HeardFits DEF Holds
  <2>6. ASSUME NEW t \in Nat, NEW k \in 0..(i + 1), UpTo(es, t) = 1..k
        PROVE  Held(f[i + 1], t, f[k])
    <3>1. CASE k = i + 1
      <4>1. i + 1 \in UpTo(es, t)
        BY <2>6, <3>1
      <4>2. e.at <= t
        BY <4>1 DEF UpTo
      <4> QED
        BY <2>2, <2>4, <2>5, <3>1, <4>2, FitsHolds
    <3>2. CASE k # i + 1
      <4>1. k \in 0..i /\ i + 1 \notin UpTo(es, t)
        BY <2>6, <3>2
      <4>2. t < e.at
        BY <2>2, <4>1 DEF UpTo
      <4>3. Held(f[i], t, f[k])
        BY <2>1, <2>6, <4>1 DEF Holds
      <4> QED
        BY <2>2, <2>4, <4>2, <4>3, HeardHolds
    <3> QED
      BY <3>1, <3>2
  <2> QED
    BY <2>2, <2>5, <2>6 DEF Holds
<1>3. n \in C
  <2> HIDE DEF C
  <2>1. n \in Nat
    OBVIOUS
  <2> QED
    BY <1>1, <1>2, <2>1, NaturalsByStages
<1> QED
  BY <1>3

-----------------------------------------------------------------------------
\* The reference, event by event.

\* One event more: it decides, or the last one before it still does.
LEMMA LastStep ==
    ASSUME NEW n \in Nat, NEW D, NEW Y, Y \subseteq D
    PROVE  LastIs(D \cap (1..(n + 1)), Y \cap (1..(n + 1)))
             <=> IF n + 1 \in D THEN n + 1 \in Y
                 ELSE LastIs(D \cap (1..n), Y \cap (1..n))
<1>1. 1..(n + 1) = (1..n) \cup {n + 1}
  OBVIOUS
<1>2. CASE n + 1 \in D
  <2> DEFINE E == D \cap (1..(n + 1))
  <2>1. n + 1 \in E /\ \A y \in E : n + 1 >= y
    BY <1>1, <1>2
  <2>2. \A x \in E : (\A y \in E : x >= y) => x = n + 1
    BY <1>1, <2>1
  <2>3. Max(E) = n + 1
    BY <2>1, <2>2 DEF Max
  <2> QED
    BY <1>2, <2>1, <2>3 DEF LastIs
<1>3. CASE n + 1 \notin D
  <2>1. D \cap (1..(n + 1)) = D \cap (1..n) /\ Y \cap (1..(n + 1)) = Y \cap (1..n)
    BY <1>1, <1>3
  <2> QED
    BY <1>3, <2>1
<1> QED
  BY <1>2, <1>3

\* No event decides nothing.
LEMMA LastOfNone ==
    ASSUME NEW D, NEW Y
    PROVE  ~ LastIs(D \cap (1..0), Y \cap (1..0))
<1>1. 1..0 = {}
  OBVIOUS
<1> QED
  BY <1>1 DEF LastIs

\* The positions of the events that decide about presence and about the
\* medium of the call.
EntersOrLeaves(es, p) ==
    {i \in Nat : es[i].kind \in Opening \cup {"PARTICIPANT_LEFT"} /\ es[i].who = p}
EntersOf(es, p) == {i \in Nat : es[i].kind \in Opening /\ es[i].who = p}
LeavesOf(es, p) ==
    {i \in Nat : es[i].kind = "PARTICIPANT_LEFT" /\ es[i].who = p}
Starts(es) == {i \in Nat : es[i].kind = "CALL_STARTED"}
VideoStarts(es) == {i \in Starts(es) : es[i].video}

\* The presence of p after one event more.
LEMMA PresentStep ==
    ASSUME NEW es, NEW n \in Nat, NEW p
    PROVE  /\ ~ PresentAfter(es, 0, p)
           /\ PresentAfter(es, n + 1, p) <=>
                IF es[n + 1].who = p /\ es[n + 1].kind \in Opening \cup {"PARTICIPANT_LEFT"}
                THEN es[n + 1].kind \in Opening
                ELSE PresentAfter(es, n, p)
<1>1. \A k \in Nat : PresentAfter(es, k, p) <=>
         LastIs(EntersOrLeaves(es, p) \cap (1..k), EntersOf(es, p) \cap (1..k))
  <2> TAKE k \in Nat
  <2>1. Of(es, By(es, 1..k, p), Opening \cup {"PARTICIPANT_LEFT"})
          = EntersOrLeaves(es, p) \cap (1..k)
    BY DEF Of, By, EntersOrLeaves
  <2>2. Of(es, By(es, 1..k, p), Opening) = EntersOf(es, p) \cap (1..k)
    BY DEF Of, By, EntersOf
  <2> QED
    BY <2>1, <2>2 DEF PresentAfter
<1>2. EntersOf(es, p) \subseteq EntersOrLeaves(es, p)
  BY DEF EntersOf, EntersOrLeaves
<1>3. n + 1 \in Nat
  OBVIOUS
<1>4. /\ n + 1 \in EntersOrLeaves(es, p) <=>
           es[n + 1].who = p /\ es[n + 1].kind \in Opening \cup {"PARTICIPANT_LEFT"}
      /\ n + 1 \in EntersOf(es, p) <=> es[n + 1].who = p /\ es[n + 1].kind \in Opening
  BY <1>3 DEF EntersOf, EntersOrLeaves
<1>5. LastIs(EntersOrLeaves(es, p) \cap (1..(n + 1)), EntersOf(es, p) \cap (1..(n + 1)))
        <=> IF n + 1 \in EntersOrLeaves(es, p) THEN n + 1 \in EntersOf(es, p)
            ELSE LastIs(EntersOrLeaves(es, p) \cap (1..n), EntersOf(es, p) \cap (1..n))
  BY <1>2, LastStep
<1>6. ~ PresentAfter(es, 0, p)
  BY <1>1, LastOfNone
<1>7. /\ PresentAfter(es, n + 1, p) <=>
         LastIs(EntersOrLeaves(es, p) \cap (1..(n + 1)), EntersOf(es, p) \cap (1..(n + 1)))
      /\ PresentAfter(es, n, p) <=>
         LastIs(EntersOrLeaves(es, p) \cap (1..n), EntersOf(es, p) \cap (1..n))
  BY <1>1, <1>3
<1> QED
  BY <1>4, <1>5, <1>6, <1>7

\* The medium of the call after one event more.
LEMMA VideoStep ==
    ASSUME NEW es, NEW n \in Nat
    PROVE  /\ ~ VideoAfter(es, 0)
           /\ VideoAfter(es, n + 1) <=>
                IF es[n + 1].kind = "CALL_STARTED" THEN es[n + 1].video
                ELSE VideoAfter(es, n)
<1>1. \A k \in Nat : VideoAfter(es, k) <=>
         LastIs(Starts(es) \cap (1..k), VideoStarts(es) \cap (1..k))
  <2> TAKE k \in Nat
  <2>1. Of(es, 1..k, {"CALL_STARTED"}) = Starts(es) \cap (1..k)
    BY DEF Of, Starts
  <2>2. {i \in Of(es, 1..k, {"CALL_STARTED"}) : es[i].video}
          = VideoStarts(es) \cap (1..k)
    BY DEF Of, Starts, VideoStarts
  <2> QED
    BY <2>1, <2>2 DEF VideoAfter
<1>2. VideoStarts(es) \subseteq Starts(es)
  BY DEF VideoStarts
<1>3. n + 1 \in Nat
  OBVIOUS
<1>4. /\ n + 1 \in Starts(es) <=> es[n + 1].kind = "CALL_STARTED"
      /\ n + 1 \in VideoStarts(es) <=>
           es[n + 1].kind = "CALL_STARTED" /\ es[n + 1].video
  BY <1>3 DEF Starts, VideoStarts
<1>5. LastIs(Starts(es) \cap (1..(n + 1)), VideoStarts(es) \cap (1..(n + 1)))
        <=> IF n + 1 \in Starts(es) THEN n + 1 \in VideoStarts(es)
            ELSE LastIs(Starts(es) \cap (1..n), VideoStarts(es) \cap (1..n))
  BY <1>2, LastStep
<1>6. ~ VideoAfter(es, 0)
  BY <1>1, LastOfNone
<1>7. /\ VideoAfter(es, n + 1) <=>
         LastIs(Starts(es) \cap (1..(n + 1)), VideoStarts(es) \cap (1..(n + 1)))
      /\ VideoAfter(es, n) <=>
         LastIs(Starts(es) \cap (1..n), VideoStarts(es) \cap (1..n))
  BY <1>1, <1>3
<1> QED
  BY <1>4, <1>5, <1>6, <1>7

\* What event i does to the billing: it opens a segment, or ends it.
OpensAt(es, i) ==
    \/ es[i].kind \in Opening \cup {"PARTICIPANT_LEFT"}
    \/ /\ es[i].kind \in MediaKinds
       /\ PresentAfter(es, i - 1, es[i].who)
       /\ es[i].kind = "MIC_ENABLED" => ~VideoAfter(es, i)
OpensAll(es) == {i \in Nat : OpensAt(es, i)}
OpensOrEnds(es) ==
    {i \in Nat : OpensAt(es, i) \/ es[i].kind = "CALL_ENDED"}

\* Whether the call is billed after one event more.
LEMMA OpenStep ==
    ASSUME NEW es, NEW n \in Nat
    PROVE  /\ ~ OpenAfter(es, 0)
           /\ OpenAfter(es, n + 1) <=>
                IF OpensAt(es, n + 1) THEN TRUE
                ELSE IF es[n + 1].kind = "CALL_ENDED" THEN FALSE
                ELSE OpenAfter(es, n)
<1>1. \A k \in Nat : OpenAfter(es, k) <=>
         LastIs(OpensOrEnds(es) \cap (1..k), OpensAll(es) \cap (1..k))
  <2> TAKE k \in Nat
  <2>1. Reopens(es, 1..k) = OpensAll(es) \cap (1..k)
    BY DEF Reopens, Of, OpensAll, OpensAt
  <2>2. Reopens(es, 1..k) \cup Of(es, 1..k, {"CALL_ENDED"})
          = OpensOrEnds(es) \cap (1..k)
    BY <2>1 DEF Of, OpensAll, OpensOrEnds
  <2> QED
    BY <2>1, <2>2 DEF OpenAfter
<1>2. OpensAll(es) \subseteq OpensOrEnds(es)
  BY DEF OpensAll, OpensOrEnds
<1>3. n + 1 \in Nat
  OBVIOUS
<1>4. /\ n + 1 \in OpensAll(es) <=> OpensAt(es, n + 1)
      /\ n + 1 \in OpensOrEnds(es) <=>
           OpensAt(es, n + 1) \/ es[n + 1].kind = "CALL_ENDED"
  BY <1>3 DEF OpensAll, OpensOrEnds
<1>5. LastIs(OpensOrEnds(es) \cap (1..(n + 1)), OpensAll(es) \cap (1..(n + 1)))
        <=> IF n + 1 \in OpensOrEnds(es) THEN n + 1 \in OpensAll(es)
            ELSE LastIs(OpensOrEnds(es) \cap (1..n), OpensAll(es) \cap (1..n))
  BY <1>2, LastStep
<1>6. ~ OpenAfter(es, 0)
  BY <1>1, LastOfNone
<1>7. /\ OpenAfter(es, n + 1) <=>
         LastIs(OpensOrEnds(es) \cap (1..(n + 1)), OpensAll(es) \cap (1..(n + 1)))
      /\ OpenAfter(es, n) <=>
         LastIs(OpensOrEnds(es) \cap (1..n), OpensAll(es) \cap (1..n))
  BY <1>1, <1>3
<1> QED
  BY <1>4, <1>5, <1>6, <1>7

\* What event i does to the medium of a participant p.
EntersAt(es, i, p) == es[i].kind \in Opening /\ es[i].who = p
SwitchesAt(es, i, p) ==
    /\ es[i].kind = "CALL_STARTED" /\ es[i].video
    /\ PresentAfter(es, i - 1, p)
AffectsAt(es, i, p, kinds) ==
    /\ es[i].kind \in kinds /\ es[i].who = p
    /\ PresentAfter(es, i - 1, p)
MicOnAt(es, i, p) ==
    AffectsAt(es, i, p, {"MIC_ENABLED"}) /\ ~VideoAfter(es, i)
GoneAt(es, i, p) == es[i].kind = "PARTICIPANT_LEFT" /\ es[i].who = p

\* The positions of the events that turn a medium of p on, and of those that
\* decide about it.
AudioYes(es, p) ==
    {i \in Nat : \/ EntersAt(es, i, p) /\ ~VideoAfter(es, i)
                 \/ MicOnAt(es, i, p)}
AudioDecided(es, p) ==
    {i \in Nat : \/ EntersAt(es, i, p) \/ SwitchesAt(es, i, p)
                 \/ MicOnAt(es, i, p) \/ AffectsAt(es, i, p, {"MIC_DISABLED"})}
VideoYes(es, p) ==
    {i \in Nat : \/ EntersAt(es, i, p) /\ VideoAfter(es, i)
                 \/ SwitchesAt(es, i, p)
                 \/ AffectsAt(es, i, p, {"CAMERA_ENABLED"})}
VideoDecided(es, p) ==
    {i \in Nat : \/ EntersAt(es, i, p) \/ SwitchesAt(es, i, p)
                 \/ AffectsAt(es, i, p, {"CAMERA_ENABLED", "CAMERA_DISABLED"})}
ScreenYes(es, p) ==
    {i \in Nat : AffectsAt(es, i, p, {"SCREEN_SHARE_STARTED"})}
ScreenDecided(es, p) ==
    {i \in Nat : \/ GoneAt(es, i, p)
                 \/ AffectsAt(es, i, p, {"SCREEN_SHARE_STARTED", "SCREEN_SHARE_STOPPED"})}

\* The media of p after n events, by those positions.
AudioAfter(es, n, p) ==
    LastIs(AudioDecided(es, p) \cap (1..n), AudioYes(es, p) \cap (1..n))
CameraAfter(es, n, p) ==
    LastIs(VideoDecided(es, p) \cap (1..n), VideoYes(es, p) \cap (1..n))
ScreenAfter(es, n, p) ==
    LastIs(ScreenDecided(es, p) \cap (1..n), ScreenYes(es, p) \cap (1..n))

\* These are what the reference says.
LEMMA UsesMedia ==
    ASSUME NEW es, NEW n \in Nat, NEW p
    PROVE  UsesAfter(es, n, p) =
             [audio |-> AudioAfter(es, n, p), video |-> CameraAfter(es, n, p),
              screen |-> ScreenAfter(es, n, p)]
<1> DEFINE I == 1..n
           enter == By(es, Of(es, I, Opening), p)
           video == {i \in enter : VideoAfter(es, i)}
           micOn == {i \in Affects(es, I, p, {"MIC_ENABLED"}) : ~VideoAfter(es, i)}
           gone  == By(es, Of(es, I, {"PARTICIPANT_LEFT"}), p)
<1>1. enter = {i \in I : EntersAt(es, i, p)}
  BY DEF By, Of, EntersAt
<1>2. \A K : Affects(es, I, p, K) = {i \in I : AffectsAt(es, i, p, K)}
  BY DEF Affects, By, Of, AffectsAt
<1>3. Switches(es, I, p) = {i \in I : SwitchesAt(es, i, p)}
  BY DEF Switches, Of, SwitchesAt
<1>4. micOn = {i \in I : MicOnAt(es, i, p)}
  BY <1>2 DEF MicOnAt
<1>5. gone = {i \in I : GoneAt(es, i, p)}
  BY DEF By, Of, GoneAt
<1>6. enter \cup Switches(es, I, p) \cup micOn \cup Affects(es, I, p, {"MIC_DISABLED"})
        = AudioDecided(es, p) \cap (1..n)
  <2> HIDE DEF enter, micOn
  <2> QED
    BY <1>1, <1>2, <1>3, <1>4 DEF AudioDecided
<1>7. (enter \ video) \cup micOn = AudioYes(es, p) \cap (1..n)
  <2>1. enter \ video = {i \in I : EntersAt(es, i, p) /\ ~VideoAfter(es, i)}
    BY <1>1
  <2> HIDE DEF enter, micOn, video
  <2> QED
    BY <2>1, <1>4 DEF AudioYes
<1>8. enter \cup Switches(es, I, p)
        \cup Affects(es, I, p, {"CAMERA_ENABLED", "CAMERA_DISABLED"})
        = VideoDecided(es, p) \cap (1..n)
  <2> HIDE DEF enter
  <2> QED
    BY <1>1, <1>2, <1>3 DEF VideoDecided
<1>9. video \cup Switches(es, I, p) \cup Affects(es, I, p, {"CAMERA_ENABLED"})
        = VideoYes(es, p) \cap (1..n)
  <2>1. video = {i \in I : EntersAt(es, i, p) /\ VideoAfter(es, i)}
    BY <1>1
  <2> HIDE DEF video
  <2> QED
    BY <1>2, <1>3, <2>1 DEF VideoYes
<1>10. gone \cup Affects(es, I, p, {"SCREEN_SHARE_STARTED", "SCREEN_SHARE_STOPPED"})
        = ScreenDecided(es, p) \cap (1..n)
  <2> HIDE DEF gone
  <2> QED
    BY <1>2, <1>5 DEF ScreenDecided
<1>11. Affects(es, I, p, {"SCREEN_SHARE_STARTED"}) = ScreenYes(es, p) \cap (1..n)
  BY <1>2 DEF ScreenYes
<1> QED
  BY <1>6, <1>7, <1>8, <1>9, <1>10, <1>11
     DEF UsesAfter, AudioAfter, CameraAfter, ScreenAfter

\* The media of p after one event more.
LEMMA MediaStep ==
    ASSUME NEW es, NEW n \in Nat, NEW p
    PROVE  /\ ~ ScreenAfter(es, 0, p)
           /\ AudioAfter(es, n + 1, p) <=>
                IF n + 1 \in AudioDecided(es, p) THEN n + 1 \in AudioYes(es, p)
                ELSE AudioAfter(es, n, p)
           /\ CameraAfter(es, n + 1, p) <=>
                IF n + 1 \in VideoDecided(es, p) THEN n + 1 \in VideoYes(es, p)
                ELSE CameraAfter(es, n, p)
           /\ ScreenAfter(es, n + 1, p) <=>
                IF n + 1 \in ScreenDecided(es, p) THEN n + 1 \in ScreenYes(es, p)
                ELSE ScreenAfter(es, n, p)
<1>1. /\ AudioYes(es, p) \subseteq AudioDecided(es, p)
      /\ VideoYes(es, p) \subseteq VideoDecided(es, p)
      /\ ScreenYes(es, p) \subseteq ScreenDecided(es, p)
  BY DEF AudioYes, AudioDecided, VideoYes, VideoDecided, ScreenYes, ScreenDecided, AffectsAt
<1>2. ~ ScreenAfter(es, 0, p)
  BY LastOfNone DEF ScreenAfter
<1>3. AudioAfter(es, n + 1, p) <=>
                IF n + 1 \in AudioDecided(es, p) THEN n + 1 \in AudioYes(es, p)
                ELSE AudioAfter(es, n, p)
  BY <1>1, LastStep DEF AudioAfter
<1>4. CameraAfter(es, n + 1, p) <=>
                IF n + 1 \in VideoDecided(es, p) THEN n + 1 \in VideoYes(es, p)
                ELSE CameraAfter(es, n, p)
  BY <1>1, LastStep DEF CameraAfter
<1>5. ScreenAfter(es, n + 1, p) <=>
                IF n + 1 \in ScreenDecided(es, p) THEN n + 1 \in ScreenYes(es, p)
                ELSE ScreenAfter(es, n, p)
  BY <1>1, LastStep DEF ScreenAfter
<1> QED
  BY <1>2, <1>3, <1>4, <1>5

\* Event n + 1 leaves the media of p.
SameMedia(es, n, p) ==
    /\ AudioAfter(es, n + 1, p) <=> AudioAfter(es, n, p)
    /\ CameraAfter(es, n + 1, p) <=> CameraAfter(es, n, p)
    /\ ScreenAfter(es, n + 1, p) <=> ScreenAfter(es, n, p)

\* What an opening event does to the media of p.
LEMMA MediaOnOpening ==
    ASSUME NEW es, NEW n \in Nat, NEW p, es[n + 1].kind \in Opening
    PROVE  /\ ScreenAfter(es, n + 1, p) <=> ScreenAfter(es, n, p)
           /\ p = es[n + 1].who =>
                /\ AudioAfter(es, n + 1, p) <=> ~ VideoAfter(es, n + 1)
                /\ CameraAfter(es, n + 1, p) <=> VideoAfter(es, n + 1)
           /\ p # es[n + 1].who =>
                IF /\ es[n + 1].kind = "CALL_STARTED" /\ es[n + 1].video
                   /\ PresentAfter(es, n, p)
                THEN ~ AudioAfter(es, n + 1, p) /\ CameraAfter(es, n + 1, p)
                ELSE SameMedia(es, n, p)
<1> DEFINE i == n + 1
<1>1. i \in Nat /\ i - 1 = n
  OBVIOUS
<1>2. /\ EntersAt(es, i, p) <=> p = es[i].who
      /\ ~ GoneAt(es, i, p)
      /\ SwitchesAt(es, i, p) <=>
           /\ es[i].kind = "CALL_STARTED" /\ es[i].video
           /\ PresentAfter(es, n, p)
  BY <1>1 DEF EntersAt, GoneAt, SwitchesAt, Opening
<1>3. /\ ~ AffectsAt(es, i, p, {"MIC_ENABLED"})
      /\ ~ AffectsAt(es, i, p, {"MIC_DISABLED"})
      /\ ~ AffectsAt(es, i, p, {"CAMERA_ENABLED"})
      /\ ~ AffectsAt(es, i, p, {"CAMERA_ENABLED", "CAMERA_DISABLED"})
      /\ ~ AffectsAt(es, i, p, {"SCREEN_SHARE_STARTED", "SCREEN_SHARE_STOPPED"})
  BY DEF AffectsAt, Opening
<1>4. es[i].kind = "CALL_STARTED" => (VideoAfter(es, i) <=> es[i].video)
  BY VideoStep
<1> HIDE DEF i
<1>5. /\ i \in AudioDecided(es, p) <=> EntersAt(es, i, p) \/ SwitchesAt(es, i, p)
      /\ i \in AudioYes(es, p) <=> EntersAt(es, i, p) /\ ~ VideoAfter(es, i)
      /\ i \in VideoDecided(es, p) <=> EntersAt(es, i, p) \/ SwitchesAt(es, i, p)
      /\ i \in VideoYes(es, p) <=>
           (EntersAt(es, i, p) /\ VideoAfter(es, i)) \/ SwitchesAt(es, i, p)
      /\ i \notin ScreenDecided(es, p)
  BY <1>1, <1>2, <1>3
     DEF AudioDecided, AudioYes, VideoDecided, VideoYes, ScreenDecided, MicOnAt
<1>6. /\ AudioAfter(es, i, p) <=>
           IF i \in AudioDecided(es, p) THEN i \in AudioYes(es, p)
           ELSE AudioAfter(es, n, p)
      /\ CameraAfter(es, i, p) <=>
           IF i \in VideoDecided(es, p) THEN i \in VideoYes(es, p)
           ELSE CameraAfter(es, n, p)
      /\ ScreenAfter(es, i, p) <=> ScreenAfter(es, n, p)
  BY <1>5, MediaStep DEF i
<1>7. /\ ScreenAfter(es, i, p) <=> ScreenAfter(es, n, p)
      /\ p = es[i].who =>
                /\ AudioAfter(es, i, p) <=> ~ VideoAfter(es, i)
                /\ CameraAfter(es, i, p) <=> VideoAfter(es, i)
      /\ p # es[i].who =>
                IF /\ es[i].kind = "CALL_STARTED" /\ es[i].video
                   /\ PresentAfter(es, n, p)
                THEN ~ AudioAfter(es, i, p) /\ CameraAfter(es, i, p)
                ELSE /\ AudioAfter(es, i, p) <=> AudioAfter(es, n, p)
                     /\ CameraAfter(es, i, p) <=> CameraAfter(es, n, p)
  BY <1>2, <1>4, <1>5, <1>6
<1> QED
  BY <1>7 DEF i, SameMedia

\* A leave ends the screen share of who leaves, and nothing else.
LEMMA MediaOnLeaving ==
    ASSUME NEW es, NEW n \in Nat, NEW p, es[n + 1].kind = "PARTICIPANT_LEFT"
    PROVE  IF p = es[n + 1].who THEN ~ ScreenAfter(es, n + 1, p)
           ELSE SameMedia(es, n, p)
<1> DEFINE i == n + 1
<1>1. i \in Nat
  OBVIOUS
<1>2. /\ ~ EntersAt(es, i, p) /\ ~ SwitchesAt(es, i, p)
      /\ GoneAt(es, i, p) <=> p = es[i].who
  BY DEF EntersAt, GoneAt, SwitchesAt, Opening
<1>3. /\ ~ AffectsAt(es, i, p, {"MIC_ENABLED"})
      /\ ~ AffectsAt(es, i, p, {"MIC_DISABLED"})
      /\ ~ AffectsAt(es, i, p, {"CAMERA_ENABLED", "CAMERA_DISABLED"})
      /\ ~ AffectsAt(es, i, p, {"SCREEN_SHARE_STARTED", "SCREEN_SHARE_STOPPED"})
      /\ ~ AffectsAt(es, i, p, {"SCREEN_SHARE_STARTED"})
  BY DEF AffectsAt
<1> HIDE DEF i
<1>5. /\ i \notin AudioDecided(es, p) /\ i \notin VideoDecided(es, p)
      /\ i \in ScreenDecided(es, p) <=> p = es[i].who
      /\ i \notin ScreenYes(es, p)
  BY <1>1, <1>2, <1>3 DEF AudioDecided, VideoDecided, ScreenDecided, ScreenYes, MicOnAt
<1> QED
  BY <1>5, MediaStep DEF i, SameMedia

\* The events that p's media do not depend on.
LEMMA MediaOnOther ==
    ASSUME NEW es, NEW n \in Nat, NEW p,
           \/ es[n + 1].kind \in {"CALL_ENDED", "WEBRTC_TRANSPORT"}
           \/ es[n + 1].kind \in MediaKinds /\ p # es[n + 1].who
           \/ es[n + 1].kind \in MediaKinds /\ ~ PresentAfter(es, n, p)
           \/ es[n + 1].kind = "MIC_ENABLED" /\ VideoAfter(es, n + 1)
    PROVE  SameMedia(es, n, p)
<1> DEFINE i == n + 1
<1>1. i \in Nat /\ i - 1 = n
  OBVIOUS
<1>2. /\ ~ EntersAt(es, i, p) /\ ~ SwitchesAt(es, i, p)
      /\ ~ GoneAt(es, i, p)
  BY DEF EntersAt, GoneAt, SwitchesAt, Opening, MediaKinds
<1>3. /\ ~ MicOnAt(es, i, p)
      /\ ~ AffectsAt(es, i, p, {"MIC_DISABLED"})
      /\ ~ AffectsAt(es, i, p, {"CAMERA_ENABLED", "CAMERA_DISABLED"})
      /\ ~ AffectsAt(es, i, p, {"SCREEN_SHARE_STARTED", "SCREEN_SHARE_STOPPED"})
  BY <1>1 DEF AffectsAt, MicOnAt, MediaKinds
<1> HIDE DEF i
<1>5. /\ i \notin AudioDecided(es, p) /\ i \notin VideoDecided(es, p)
      /\ i \notin ScreenDecided(es, p)
  BY <1>2, <1>3 DEF AudioDecided, VideoDecided, ScreenDecided
<1> QED
  BY <1>5, MediaStep DEF i, SameMedia

\* A media event does to the reference what it does to the state.
LEMMA MediaOnToggle ==
    ASSUME NEW es, NEW n \in Nat, NEW p,
           es[n + 1].kind \in MediaKinds, p = es[n + 1].who,
           PresentAfter(es, n, p),
           es[n + 1].kind = "MIC_ENABLED" => ~ VideoAfter(es, n + 1),
           NEW m \in Media,
           m.audio <=> AudioAfter(es, n, p), m.video <=> CameraAfter(es, n, p),
           m.screen <=> ScreenAfter(es, n, p)
    PROVE  /\ Patched(m, es[n + 1].kind).audio <=> AudioAfter(es, n + 1, p)
           /\ Patched(m, es[n + 1].kind).video <=> CameraAfter(es, n + 1, p)
           /\ Patched(m, es[n + 1].kind).screen <=> ScreenAfter(es, n + 1, p)
<1> DEFINE i == n + 1
           k == es[n + 1].kind
<1>1. i \in Nat /\ i - 1 = n
  OBVIOUS
<1>2. /\ ~ EntersAt(es, i, p) /\ ~ SwitchesAt(es, i, p)
      /\ ~ GoneAt(es, i, p)
  BY DEF EntersAt, GoneAt, SwitchesAt, Opening, MediaKinds
<1>3. /\ MicOnAt(es, i, p) <=> k = "MIC_ENABLED"
      /\ AffectsAt(es, i, p, {"MIC_DISABLED"}) <=> k = "MIC_DISABLED"
      /\ AffectsAt(es, i, p, {"CAMERA_ENABLED"}) <=> k = "CAMERA_ENABLED"
      /\ AffectsAt(es, i, p, {"CAMERA_ENABLED", "CAMERA_DISABLED"}) <=>
           k \in {"CAMERA_ENABLED", "CAMERA_DISABLED"}
      /\ AffectsAt(es, i, p, {"SCREEN_SHARE_STARTED", "SCREEN_SHARE_STOPPED"}) <=>
           k \in {"SCREEN_SHARE_STARTED", "SCREEN_SHARE_STOPPED"}
      /\ AffectsAt(es, i, p, {"SCREEN_SHARE_STARTED"}) <=> k = "SCREEN_SHARE_STARTED"
  BY <1>1 DEF AffectsAt, MicOnAt
<1>4. /\ Patched(m, k).audio = IF k = "MIC_ENABLED" THEN TRUE
                               ELSE IF k = "MIC_DISABLED" THEN FALSE ELSE m.audio
      /\ Patched(m, k).video = IF k = "CAMERA_ENABLED" THEN TRUE
                               ELSE IF k = "CAMERA_DISABLED" THEN FALSE ELSE m.video
      /\ Patched(m, k).screen = IF k = "SCREEN_SHARE_STARTED" THEN TRUE
                               ELSE IF k = "SCREEN_SHARE_STOPPED" THEN FALSE ELSE m.screen
  BY DEF Patched, Media, MediaKinds
<1> HIDE DEF i, k
<1>5. /\ i \in AudioDecided(es, p) <=> k \in {"MIC_ENABLED", "MIC_DISABLED"}
      /\ i \in AudioYes(es, p) <=> k = "MIC_ENABLED"
      /\ i \in VideoDecided(es, p) <=> k \in {"CAMERA_ENABLED", "CAMERA_DISABLED"}
      /\ i \in VideoYes(es, p) <=> k = "CAMERA_ENABLED"
      /\ i \in ScreenDecided(es, p) <=>
           k \in {"SCREEN_SHARE_STARTED", "SCREEN_SHARE_STOPPED"}
      /\ i \in ScreenYes(es, p) <=> k = "SCREEN_SHARE_STARTED"
  BY <1>1, <1>2, <1>3
     DEF AudioDecided, AudioYes, VideoDecided, VideoYes, ScreenDecided, ScreenYes
<1>6. /\ AudioAfter(es, i, p) <=>
           IF i \in AudioDecided(es, p) THEN i \in AudioYes(es, p)
           ELSE AudioAfter(es, n, p)
      /\ CameraAfter(es, i, p) <=>
           IF i \in VideoDecided(es, p) THEN i \in VideoYes(es, p)
           ELSE CameraAfter(es, n, p)
      /\ ScreenAfter(es, i, p) <=>
           IF i \in ScreenDecided(es, p) THEN i \in ScreenYes(es, p)
           ELSE ScreenAfter(es, n, p)
  BY MediaStep DEF i
<1>7. /\ Patched(m, k).audio <=> AudioAfter(es, i, p)
      /\ Patched(m, k).video <=> CameraAfter(es, i, p)
      /\ Patched(m, k).screen <=> ScreenAfter(es, i, p)
  BY <1>4, <1>5, <1>6
<1> QED
  BY <1>7 DEF i, k

-----------------------------------------------------------------------------
\* The builder and the reference.

\* m is what the reference says of p after n events.
Agrees(m, es, n, p) ==
    /\ m.audio <=> AudioAfter(es, n, p)
    /\ m.video <=> CameraAfter(es, n, p)
    /\ m.screen <=> ScreenAfter(es, n, p)

\* The builder mirrors the reference after n events.  The last part says that
\* a screen share does not survive its owner's absence, so that who returns
\* enters without one as the builder has it.
Mirrors(b, es, n) ==
    /\ \A p \in People : p \in DOMAIN b.states <=> PresentAfter(es, n, p)
    /\ b.video <=> VideoAfter(es, n)
    /\ b.open <=> OpenAfter(es, n)
    /\ b.open => b.people = b.states
    /\ \A p \in DOMAIN b.states : Agrees(b.states[p], es, n, p)
    /\ \A p \in People : ~ PresentAfter(es, n, p) => ~ ScreenAfter(es, n, p)

\* Nothing changes for who is not affected.
LEMMA SameAgrees ==
    ASSUME NEW es, NEW n, NEW p, SameMedia(es, n, p),
           NEW m, Agrees(m, es, n, p)
    PROVE  Agrees(m, es, n + 1, p)
BY DEF SameMedia, Agrees

\* The fields of the builder once it went on.
LEMMA UpdateFields ==
    ASSUME NEW b \in Builder, NEW states \in MediaOf, NEW at \in Nat
    PROVE  /\ UpdateTotals(b, states, at).states = states
           /\ UpdateTotals(b, states, at).people = states
           /\ UpdateTotals(b, states, at).open = TRUE
           /\ UpdateTotals(b, states, at).video = b.video
BY UpdateType

\* The types of the builder's states.
LEMMA StatesFacts ==
    ASSUME NEW b \in Builder
    PROVE  /\ DOMAIN b.states \in SUBSET People
           /\ b.states \in [DOMAIN b.states -> Media]
           /\ b.states \in MediaOf /\ b.video \in BOOLEAN /\ b.open \in BOOLEAN
BY MediaOfFacts DEF Builder

\* The states once somebody entered: CALL_STARTED of a video call turns the
\* video of all who are present on.
LEMMA EnterShape ==
    ASSUME NEW b \in Builder, NEW e \in EventRow
    PROVE  LET c == Enter(b, e)
               video == IF e.kind = "CALL_STARTED" THEN e.video ELSE b.video
           IN  /\ c.open = TRUE /\ c.people = c.states /\ c.video = video
               /\ DOMAIN c.states = DOMAIN b.states \cup {e.who}
               /\ c.states[e.who].audio = ~ video /\ c.states[e.who].video = video
               /\ c.states[e.who].screen =
                    IF e.who \in DOMAIN b.states THEN b.states[e.who].screen ELSE FALSE
               /\ \A p \in DOMAIN b.states \ {e.who} :
                    c.states[p] = IF e.kind = "CALL_STARTED" /\ e.video
                                  THEN [b.states[p] EXCEPT !.audio = FALSE, !.video = TRUE]
                                  ELSE b.states[p]
<1> DEFINE start == e.kind = "CALL_STARTED"
           video == IF start THEN e.video ELSE b.video
           known == [p \in DOMAIN b.states |->
                       IF start /\ e.video
                       THEN [b.states[p] EXCEPT !.audio = FALSE, !.video = TRUE]
                       ELSE b.states[p]]
           own == IF e.who \in DOMAIN known THEN known[e.who] ELSE Off
           mine == [own EXCEPT !.audio = ~video, !.video = video]
           states == [p \in DOMAIN known \cup {e.who} |-> IF p = e.who THEN mine ELSE known[p]]
           c == Enter(b, e)
<1>1. Enter(b, e).states = states
  <2>1. Enter(b, e) = UpdateTotals([b EXCEPT !.video = video], states, e.at)
    BY DEF Enter
  <2> HIDE DEF states, video
  <2>2. UpdateTotals([b EXCEPT !.video = video], states, e.at).states = states
    BY DEF UpdateTotals, Close, Builder
  <2> QED
    BY <2>1, <2>2
<1>2. c.open = TRUE /\ c.people = c.states /\ c.video = video
  BY EnterType
<1>3. \A p \in DOMAIN b.states : b.states[p] \in Media
  BY StatesFacts
<1>4. own \in Media /\ own.screen = IF e.who \in DOMAIN b.states THEN b.states[e.who].screen
                                    ELSE FALSE
  BY <1>3 DEF Media, Off
<1>5. mine.audio = ~video /\ mine.video = video /\ mine.screen = own.screen
  <2> HIDE DEF own, video
  <2> QED
    BY <1>4 DEF Media
<1>6. /\ DOMAIN states = DOMAIN b.states \cup {e.who} /\ states[e.who] = mine
      /\ \A p \in DOMAIN b.states \ {e.who} : states[p] = known[p]
  <2> HIDE DEF mine
  <2> QED
    OBVIOUS
<1> HIDE DEF mine, own, states, c
<1>7. /\ DOMAIN c.states = DOMAIN b.states \cup {e.who} /\ c.states[e.who] = mine
      /\ \A p \in DOMAIN b.states \ {e.who} : c.states[p] = known[p]
  BY <1>1, <1>6 DEF c
<1> QED
  BY <1>2, <1>4, <1>5, <1>7 DEF c

\* Each kind of event keeps the builder a mirror: CALL_STARTED and
\* PARTICIPANT_JOINED,
LEMMA EnterMirrors ==
    ASSUME NEW es \in Seq(EventRow), NEW n \in Nat, n + 1 \in 1..Len(es),
           NEW b \in Builder, Mirrors(b, es, n), es[n + 1].kind \in Opening
    PROVE  Mirrors(Enter(b, es[n + 1]), es, n + 1)
<1> DEFINE e == es[n + 1]
           c == Enter(b, e)
           video == IF e.kind = "CALL_STARTED" THEN e.video ELSE b.video
<1>1. e \in EventRow /\ e.who \in People /\ e.video \in BOOLEAN
  BY EventFacts
<1>2. /\ c.open = TRUE /\ c.people = c.states /\ c.video = video
      /\ DOMAIN c.states = DOMAIN b.states \cup {e.who}
      /\ c.states[e.who].audio = ~ video /\ c.states[e.who].video = video
      /\ c.states[e.who].screen =
           IF e.who \in DOMAIN b.states THEN b.states[e.who].screen ELSE FALSE
      /\ \A p \in DOMAIN b.states \ {e.who} :
           c.states[p] = IF e.kind = "CALL_STARTED" /\ e.video
                         THEN [b.states[p] EXCEPT !.audio = FALSE, !.video = TRUE]
                         ELSE b.states[p]
  BY <1>1, EnterShape
<1>3. c.video <=> VideoAfter(es, n + 1)
  BY <1>1, <1>2, VideoStep, StatesFacts DEF Mirrors
<1>4. c.open <=> OpenAfter(es, n + 1)
  <2>1. OpensAt(es, n + 1)
    BY DEF OpensAt
  <2> QED
    BY <1>2, <2>1, OpenStep
<1>5. \A p : PresentAfter(es, n + 1, p) <=> p = e.who \/ PresentAfter(es, n, p)
  <2> TAKE p
  <2>1. PresentAfter(es, n + 1, p) <=>
                IF e.who = p /\ e.kind \in Opening \cup {"PARTICIPANT_LEFT"}
                THEN e.kind \in Opening ELSE PresentAfter(es, n, p)
    BY PresentStep
  <2> QED
    BY <2>1
<1>6. \A p \in People : p \in DOMAIN c.states <=> PresentAfter(es, n + 1, p)
  BY <1>1, <1>2, <1>5 DEF Mirrors
<1>7. \A p : /\ ScreenAfter(es, n + 1, p) <=> ScreenAfter(es, n, p)
             /\ p = e.who =>
                  /\ AudioAfter(es, n + 1, p) <=> ~ VideoAfter(es, n + 1)
                  /\ CameraAfter(es, n + 1, p) <=> VideoAfter(es, n + 1)
             /\ p # e.who =>
                  IF e.kind = "CALL_STARTED" /\ e.video /\ PresentAfter(es, n, p)
                  THEN ~ AudioAfter(es, n + 1, p) /\ CameraAfter(es, n + 1, p)
                  ELSE SameMedia(es, n, p)
  BY MediaOnOpening
<1>8. ASSUME NEW p \in DOMAIN c.states PROVE Agrees(c.states[p], es, n + 1, p)
  <2>1. CASE p = e.who
    <3>1. c.states[p].screen <=> ScreenAfter(es, n, p)
      <4>1. CASE p \in DOMAIN b.states
        BY <1>2, <2>1, <4>1 DEF Mirrors, Agrees
      <4>2. CASE p \notin DOMAIN b.states
        BY <1>1, <1>2, <2>1, <4>2 DEF Mirrors
      <4> QED
        BY <4>1, <4>2
    <3>2. c.states[p].audio <=> AudioAfter(es, n + 1, p)
      BY <1>2, <1>3, <1>7, <2>1
    <3>3. c.states[p].video <=> CameraAfter(es, n + 1, p)
      BY <1>2, <1>3, <1>7, <2>1
    <3> QED
      BY <1>7, <3>1, <3>2, <3>3 DEF Agrees
  <2>2. CASE p # e.who
    <3>1. p \in DOMAIN b.states /\ PresentAfter(es, n, p) /\ b.states[p] \in Media
          /\ Agrees(b.states[p], es, n, p)
      BY <1>2, <2>2, StatesFacts DEF Mirrors
    <3>2. CASE e.kind = "CALL_STARTED" /\ e.video
      <4>1. c.states[p] = [b.states[p] EXCEPT !.audio = FALSE, !.video = TRUE]
        BY <1>2, <2>2, <3>1, <3>2
      <4>2. c.states[p].audio = FALSE /\ c.states[p].video = TRUE
            /\ c.states[p].screen = b.states[p].screen
        BY <3>1, <4>1 DEF Media
      <4> QED
        BY <1>7, <2>2, <3>1, <3>2, <4>2 DEF Agrees
    <3>3. CASE ~ (e.kind = "CALL_STARTED" /\ e.video)
      <4>1. c.states[p] = b.states[p]
        BY <1>2, <2>2, <3>1, <3>3
      <4>2. SameMedia(es, n, p)
        BY <1>7, <2>2, <3>3
      <4> QED
        BY <3>1, <4>1, <4>2, SameAgrees
    <3> QED
      BY <3>2, <3>3
  <2> QED
    BY <2>1, <2>2
<1>9. \A p \in People : ~ PresentAfter(es, n + 1, p) => ~ ScreenAfter(es, n + 1, p)
  BY <1>5, <1>7 DEF Mirrors
<1> QED
  BY <1>2, <1>3, <1>4, <1>6, <1>8, <1>9 DEF Mirrors

\* PARTICIPANT_LEFT,
LEMMA LeaveMirrors ==
    ASSUME NEW es \in Seq(EventRow), NEW n \in Nat, n + 1 \in 1..Len(es),
           NEW b \in Builder, Mirrors(b, es, n), es[n + 1].kind = "PARTICIPANT_LEFT"
    PROVE  Mirrors(Leave(b, es[n + 1]), es, n + 1)
<1> DEFINE e == es[n + 1]
           c == Leave(b, e)
           states == [p \in DOMAIN b.states \ {e.who} |-> b.states[p]]
<1>1. e \in EventRow /\ e.at \in Nat /\ e.who \in People
  BY EventFacts
<1>2. c.states = states /\ c.people = states /\ c.open = TRUE /\ c.video = b.video
  <2>1. states \in MediaOf
    BY StatesFacts, MediaOfFacts
  <2>2. c = UpdateTotals(b, states, e.at)
    BY DEF Leave
  <2> HIDE DEF states, c
  <2> QED
    BY <1>1, <2>1, <2>2, UpdateFields
<1>3. c.video <=> VideoAfter(es, n + 1)
  BY <1>2, VideoStep DEF Mirrors
<1>4. c.open <=> OpenAfter(es, n + 1)
  <2>1. OpensAt(es, n + 1)
    BY DEF OpensAt
  <2> QED
    BY <1>2, <2>1, OpenStep
<1>5. \A p : PresentAfter(es, n + 1, p) <=> p # e.who /\ PresentAfter(es, n, p)
  <2> TAKE p
  <2>1. PresentAfter(es, n + 1, p) <=>
                IF e.who = p /\ e.kind \in Opening \cup {"PARTICIPANT_LEFT"}
                THEN e.kind \in Opening ELSE PresentAfter(es, n, p)
    BY PresentStep
  <2> QED
    BY <2>1 DEF Opening
<1>6. \A p \in People : p \in DOMAIN c.states <=> PresentAfter(es, n + 1, p)
  BY <1>2, <1>5 DEF Mirrors
<1>7. \A p : IF p = e.who THEN ~ ScreenAfter(es, n + 1, p) ELSE SameMedia(es, n, p)
  BY MediaOnLeaving
<1>8. ASSUME NEW p \in DOMAIN c.states PROVE Agrees(c.states[p], es, n + 1, p)
  <2>1. p # e.who /\ c.states[p] = b.states[p] /\ Agrees(b.states[p], es, n, p)
    BY <1>2 DEF Mirrors
  <2> QED
    BY <1>7, <2>1, SameAgrees
<1>9. \A p \in People : ~ PresentAfter(es, n + 1, p) => ~ ScreenAfter(es, n + 1, p)
  BY <1>5, <1>7 DEF Mirrors, SameMedia
<1> QED
  BY <1>2, <1>3, <1>4, <1>6, <1>8, <1>9 DEF Mirrors

\* an event that the builder does not answer to,
LEMMA NothingMirrors ==
    ASSUME NEW es \in Seq(EventRow), NEW n \in Nat, n + 1 \in 1..Len(es),
           NEW b \in Builder, Mirrors(b, es, n),
           \/ es[n + 1].kind = "WEBRTC_TRANSPORT"
           \/ /\ es[n + 1].kind \in MediaKinds
              /\ \/ es[n + 1].who \notin DOMAIN b.states
                 \/ es[n + 1].kind = "MIC_ENABLED" /\ b.video
    PROVE  Mirrors(b, es, n + 1)
<1> DEFINE e == es[n + 1]
<1>1. e.who \in People /\ e.kind \notin Opening \cup {"PARTICIPANT_LEFT", "CALL_ENDED"}
  BY EventFacts DEF MediaKinds, Opening
<1>2. VideoAfter(es, n + 1) <=> VideoAfter(es, n)
  BY <1>1, VideoStep DEF Opening
<1>3. \A p : PresentAfter(es, n + 1, p) <=> PresentAfter(es, n, p)
  BY <1>1, PresentStep
<1>4. OpenAfter(es, n + 1) <=> OpenAfter(es, n)
  <2>1. (n + 1) - 1 = n
    OBVIOUS
  <2>2. ~ OpensAt(es, n + 1)
    BY <1>1, <1>2, <2>1 DEF OpensAt, Mirrors, MediaKinds
  <2> QED
    BY <1>1, <2>2, OpenStep
<1>5. \A p : SameMedia(es, n, p)
  <2> TAKE p
  <2>1. \/ e.kind \in {"CALL_ENDED", "WEBRTC_TRANSPORT"}
        \/ e.kind \in MediaKinds /\ p # e.who
        \/ e.kind \in MediaKinds /\ ~ PresentAfter(es, n, p)
        \/ e.kind = "MIC_ENABLED" /\ VideoAfter(es, n + 1)
    BY <1>1, <1>2 DEF Mirrors
  <2> QED
    BY <2>1, MediaOnOther
<1>6. \A p \in DOMAIN b.states : Agrees(b.states[p], es, n + 1, p)
  BY <1>5, SameAgrees DEF Mirrors
<1> QED
  BY <1>2, <1>3, <1>4, <1>5, <1>6 DEF Mirrors, SameMedia

\* CALL_ENDED,
LEMMA EndMirrors ==
    ASSUME NEW es \in Seq(EventRow), NEW n \in Nat, n + 1 \in 1..Len(es),
           NEW b \in Builder, Mirrors(b, es, n), es[n + 1].kind = "CALL_ENDED"
    PROVE  Mirrors(End(b, es[n + 1]), es, n + 1)
<1> DEFINE e == es[n + 1]
           c == End(b, e)
<1>1. e \in EventRow
  BY EventFacts
<1>2. c.states = b.states /\ c.video = b.video /\ c.open = FALSE
  <2>1. \E x : c = [b EXCEPT !.segments = x, !.open = FALSE]
    BY <1>1, EndType
  <2> HIDE DEF c
  <2> QED
    BY <2>1 DEF Builder
<1>3. VideoAfter(es, n + 1) <=> VideoAfter(es, n)
  BY VideoStep
<1>4. \A p : PresentAfter(es, n + 1, p) <=> PresentAfter(es, n, p)
  BY PresentStep DEF Opening
<1>5. ~ OpenAfter(es, n + 1)
  <2>1. ~ OpensAt(es, n + 1)
    BY DEF OpensAt, Opening, MediaKinds
  <2> QED
    BY <2>1, OpenStep
<1>6. \A p : SameMedia(es, n, p)
  BY MediaOnOther
<1>7. \A p \in DOMAIN b.states : Agrees(b.states[p], es, n + 1, p)
  BY <1>6, SameAgrees DEF Mirrors
<1> QED
  BY <1>2, <1>3, <1>4, <1>5, <1>6, <1>7 DEF Mirrors, SameMedia

\* a media event,
LEMMA ToggleMirrors ==
    ASSUME NEW es \in Seq(EventRow), NEW n \in Nat, n + 1 \in 1..Len(es),
           NEW b \in Builder, Mirrors(b, es, n), es[n + 1].kind \in MediaKinds
    PROVE  Mirrors(Toggle(b, es[n + 1]), es, n + 1)
<1> DEFINE e == es[n + 1]
           c == Toggle(b, e)
           states == [b.states EXCEPT ![e.who] = Patched(b.states[e.who], e.kind)]
<1>1. CASE ~ (e.who \in DOMAIN b.states /\ (e.kind = "MIC_ENABLED" => ~b.video))
  <2>1. c = b
    BY <1>1 DEF Toggle
  <2> QED
    BY <1>1, <2>1, NothingMirrors
<1>2. CASE e.who \in DOMAIN b.states /\ (e.kind = "MIC_ENABLED" => ~b.video)
  <2>1. e \in EventRow /\ e.at \in Nat /\ e.who \in People
        /\ e.kind \notin Opening \cup {"PARTICIPANT_LEFT", "CALL_ENDED"}
    BY EventFacts DEF MediaKinds, Opening
  <2>2. states \in [DOMAIN b.states -> Media]
    BY <1>2, StatesFacts, PatchedType
  <2>3. c.states = states /\ c.people = states /\ c.open = TRUE /\ c.video = b.video
    <3>1. states \in MediaOf
      BY <2>2, StatesFacts, MediaOfFacts
    <3>2. c = UpdateTotals(b, states, e.at)
      BY <1>2 DEF Toggle
    <3> HIDE DEF states, c
    <3>3. e.at \in Nat
      BY <2>1
    <3>4. /\ UpdateTotals(b, states, e.at).states = states
          /\ UpdateTotals(b, states, e.at).people = states
          /\ UpdateTotals(b, states, e.at).open = TRUE
          /\ UpdateTotals(b, states, e.at).video = b.video
      BY <3>1, <3>3, UpdateFields
    <3> QED
      BY <3>2, <3>4
  <2>4. VideoAfter(es, n + 1) <=> VideoAfter(es, n)
    BY <2>1, VideoStep DEF Opening
  <2>5. \A p : PresentAfter(es, n + 1, p) <=> PresentAfter(es, n, p)
    BY <2>1, PresentStep
  <2>6. OpenAfter(es, n + 1)
    <3>1. (n + 1) - 1 = n
      OBVIOUS
    <3>2. OpensAt(es, n + 1)
      BY <1>2, <2>1, <2>4, <3>1 DEF OpensAt, Mirrors
    <3> QED
      BY <3>2, OpenStep
  <2>7. \A p \in People : p # e.who => SameMedia(es, n, p)
    BY MediaOnOther
  <2>8. ASSUME NEW p \in DOMAIN b.states PROVE Agrees(states[p], es, n + 1, p)
    <3>1. p \in People /\ PresentAfter(es, n, p) /\ b.states[p] \in Media
          /\ Agrees(b.states[p], es, n, p)
      BY StatesFacts DEF Mirrors
    <3>2. CASE p # e.who
      BY <2>7, <3>1, <3>2, SameAgrees
    <3>3. CASE p = e.who
      <4>1. states[p] = Patched(b.states[p], e.kind)
        BY <3>3
      <4> HIDE DEF states
      <4>2. e.kind = "MIC_ENABLED" => ~ VideoAfter(es, n + 1)
        BY <1>2, <2>4 DEF Mirrors
      <4>3. /\ Patched(b.states[p], e.kind).audio <=> AudioAfter(es, n + 1, p)
            /\ Patched(b.states[p], e.kind).video <=> CameraAfter(es, n + 1, p)
            /\ Patched(b.states[p], e.kind).screen <=> ScreenAfter(es, n + 1, p)
        BY <3>1, <3>3, <4>2, MediaOnToggle DEF Agrees
      <4> QED
        BY <4>1, <4>3 DEF Agrees
    <3> QED
      BY <3>2, <3>3
  <2>9. \A p \in People : ~ PresentAfter(es, n + 1, p) => ~ ScreenAfter(es, n + 1, p)
    BY <1>2, <2>1, <2>5, <2>7 DEF Mirrors, SameMedia
  <2>10. DOMAIN states = DOMAIN b.states
    OBVIOUS
  <2> HIDE DEF states, c
  <2>11. Mirrors(c, es, n + 1)
    BY <2>3, <2>4, <2>5, <2>6, <2>8, <2>9, <2>10 DEF Mirrors
  <2> QED
    BY <2>11 DEF c
<1> QED
  BY <1>1, <1>2

\* and so any event.
LEMMA HeardMirrors ==
    ASSUME NEW es \in Seq(EventRow), NEW n \in Nat, n + 1 \in 1..Len(es),
           NEW b \in Builder, Mirrors(b, es, n)
    PROVE  Mirrors(Heard(b, es[n + 1]), es, n + 1)
<1> DEFINE e == es[n + 1]
<1>1. CASE e.kind \in Opening
  <2>1. Heard(b, e) = Enter(b, e)
    BY <1>1 DEF Heard, Opening, MediaKinds
  <2> QED
    BY <1>1, <2>1, EnterMirrors
<1>2. CASE e.kind = "PARTICIPANT_LEFT"
  <2>1. Heard(b, e) = Leave(b, e)
    BY <1>2 DEF Heard, Opening, MediaKinds
  <2> QED
    BY <1>2, <2>1, LeaveMirrors
<1>3. CASE e.kind = "CALL_ENDED"
  <2>1. Heard(b, e) = End(b, e)
    BY <1>3 DEF Heard, Opening, MediaKinds
  <2> QED
    BY <1>3, <2>1, EndMirrors
<1>4. CASE e.kind \in MediaKinds
  <2>1. Heard(b, e) = Toggle(b, e)
    BY <1>4 DEF Heard, Opening, MediaKinds
  <2> QED
    BY <1>4, <2>1, ToggleMirrors
<1>5. CASE e.kind = "WEBRTC_TRANSPORT"
  <2>1. Heard(b, e) = b
    BY <1>5 DEF Heard, Opening, MediaKinds
  <2> QED
    BY <1>5, <2>1, NothingMirrors
<1>6. e.kind \in Kinds
  BY EventFacts
<1> QED
  BY <1>1, <1>2, <1>3, <1>4, <1>5, <1>6 DEF Kinds

\* By induction over the events, the builder always is one.
LEMMA BuilderMirrors ==
    ASSUME NEW es \in Seq(EventRow),
           NEW f \in [0..Len(es) -> Builder], Steps(f, Len(es), es),
           NEW n \in 0..Len(es)
    PROVE  Mirrors(f[n], es, n)
<1> DEFINE C == {i \in Nat : i <= Len(es) => Mirrors(f[i], es, i)}
<1>1. 0 \in C
  <2>1. f[0] = Empty
    BY DEF Steps
  <2>2. Empty.states = Nobody /\ Empty.open = FALSE /\ Empty.video = FALSE /\ DOMAIN Nobody = {}
    BY DEF Empty, Nobody
  <2>3. ~ VideoAfter(es, 0) /\ ~ OpenAfter(es, 0)
    BY VideoStep, OpenStep
  <2>4. \A p : ~ PresentAfter(es, 0, p) /\ ~ ScreenAfter(es, 0, p)
    BY PresentStep, MediaStep
  <2>5. Mirrors(Empty, es, 0)
    BY <2>2, <2>3, <2>4 DEF Mirrors
  <2> QED
    BY <2>1, <2>5
<1>2. ASSUME NEW i \in Nat, i \in C PROVE i + 1 \in C
  <2>1. ASSUME i + 1 <= Len(es) PROVE Mirrors(f[i + 1], es, i + 1)
    <3>1. i + 1 \in 1..Len(es) /\ f[i] \in Builder /\ Mirrors(f[i], es, i)
      BY <1>2, <2>1
    <3>2. f[i + 1] = Heard(f[(i + 1) - 1], es[i + 1])
      BY <3>1 DEF Steps
    <3>3. f[i + 1] = Heard(f[i], es[i + 1])
      BY <3>2
    <3> QED
      BY <3>1, <3>3, HeardMirrors
  <2> QED
    BY <2>1
<1>3. n \in C
  <2> HIDE DEF C
  <2>1. n \in Nat
    OBVIOUS
  <2> QED
    BY <1>1, <1>2, <2>1, NaturalsByStages
<1> QED
  BY <1>3

\* A mirror has exactly those present, with the media they use.
LEMMA StatesAreUses ==
    ASSUME NEW es, NEW n \in Nat, NEW b \in Builder, Mirrors(b, es, n)
    PROVE  b.states = [p \in {q \in People : PresentAfter(es, n, q)} |-> UsesAfter(es, n, p)]
<1>1. DOMAIN b.states = {q \in People : PresentAfter(es, n, q)}
  BY StatesFacts DEF Mirrors
<1>2. ASSUME NEW p \in DOMAIN b.states PROVE b.states[p] = UsesAfter(es, n, p)
  <2> DEFINE m == b.states[p]
  <2>1. m \in Media /\ Agrees(m, es, n, p)
    BY StatesFacts DEF Mirrors
  <2> HIDE DEF m
  <2>2. m = [audio |-> m.audio, video |-> m.video, screen |-> m.screen]
    BY <2>1 DEF Media
  <2>3. /\ m.audio = AudioAfter(es, n, p) /\ m.video = CameraAfter(es, n, p)
        /\ m.screen = ScreenAfter(es, n, p)
    <3>1. /\ AudioAfter(es, n, p) \in BOOLEAN /\ CameraAfter(es, n, p) \in BOOLEAN
          /\ ScreenAfter(es, n, p) \in BOOLEAN
      BY DEF AudioAfter, CameraAfter, ScreenAfter, LastIs
    <3>2. m.audio \in BOOLEAN /\ m.video \in BOOLEAN /\ m.screen \in BOOLEAN
      BY <2>1 DEF Media
    <3> QED
      BY <2>1, <3>1, <3>2 DEF Agrees
  <2>4. UsesAfter(es, n, p) = [audio |-> AudioAfter(es, n, p),
           video |-> CameraAfter(es, n, p), screen |-> ScreenAfter(es, n, p)]
    BY UsesMedia
  <2> QED
    BY <2>2, <2>3, <2>4 DEF m
<1>3. b.states \in [DOMAIN b.states -> Media]
  BY StatesFacts
<1> QED
  BY <1>1, <1>2, <1>3

\* What Build makes of any events in the order of a query: segments that do
\* not overlap, none empty and none after the last event, that tell the call.
LEMMA BuildShape ==
    ASSUME NEW es \in Seq(EventRow), Ordered(es)
    PROVE  /\ Build(es) \in Seq(Segment)
           /\ es = <<>> => Build(es) = <<>>
           /\ es # <<>> => \A i \in DOMAIN Build(es) :
                Build(es)[i].from < Build(es)[i].to /\ Build(es)[i].to <= Last(es).at
           /\ \A t \in Nat : \A i, j \in Covering(Build(es), t) : i = j
           /\ Tells(Build(es), es, People)
<1> DEFINE N == Len(es)
<1>1. CASE es = <<>>
  <2>1. Build(es) = <<>>
    BY <1>1 DEF Build
  <2>2. Build(es) \in Seq(Segment) /\ DOMAIN Build(es) = {} /\ DOMAIN es = {}
    <3>1. \A s : s = <<>> => s \in Seq(Segment) /\ DOMAIN s = {}
      OBVIOUS
    <3> QED
      BY <1>1, <2>1, <3>1
  <2>3. \A t : Covering(Build(es), t) = {}
    BY <2>2 DEF Covering
  <2>4. \A t : {i \in DOMAIN Build(es) : Build(es)[i].from <= t /\ t < Build(es)[i].to} = {}
    BY <2>2
  <2>5. \A t \in 0..0 : ~ (t < 0)
    OBVIOUS
  <2>6. Tells(Build(es), es, People)
    BY <1>1, <2>4, <2>5 DEF Tells
  <2> QED
    BY <1>1, <2>1, <2>2, <2>3, <2>6
<1>2. CASE es # <<>>
  <2>1. N \in Nat /\ N # 0 /\ DOMAIN es = 1..N /\ Last(es) = es[N] /\ es[N].at \in Nat
    BY <1>2, EventFacts DEF Last
  <2>2. PICK f \in [0..N -> Builder] :
          Steps(f, N, es) /\ FoldLeft(Heard, Empty, es) = f[N]
    BY BuilderSteps
  <2> DEFINE b == f[N]
             end == es[N].at
             segments == Close(b, end).segments
  <2>3. Build(es) = segments
    BY <1>2, <2>1, <2>2 DEF Build
  <2>4. b \in Builder /\ Holds(f, es, N)
    BY <2>1, <2>2, BuilderHolds
  <2>5. Fits(b, end)
    BY <2>1, <2>4 DEF Holds, At
  <2>6. segments \in Seq(Segment)
    BY <2>1, <2>4, CloseType DEF Builder
  <2>7. \A i \in DOMAIN segments : segments[i].from < segments[i].to /\ segments[i].to <= end
    BY <2>1, <2>4, <2>5, ClosedFits
  <2>8. \A i \in DOMAIN segments : segments[i].from \in Nat /\ segments[i].to \in Nat
    <3> HIDE DEF segments
    <3>1. \A i \in DOMAIN segments : segments[i] \in Segment
      BY <2>6
    <3> QED
      BY <3>1 DEF Segment
  <2>9. ASSUME NEW t \in Nat, ~ (t < end) PROVE Covering(segments, t) = {}
    BY <2>1, <2>7, <2>8, <2>9 DEF Covering
  <2>10. ASSUME NEW t \in Nat, t < end
         PROVE  LET n == Cardinality(UpTo(es, t))
                IN  n \in 0..N /\ Settled(segments, t, f[n])
    <3> DEFINE n == Cardinality(UpTo(es, t))
    <3>1. n \in 0..N /\ UpTo(es, t) = 1..n
      BY UpToIsPrefix
    <3> HIDE DEF n
    <3>2. Held(b, t, f[n])
      BY <2>1, <2>4, <3>1 DEF Holds
    <3>3. Settled(segments, t, f[n])
      BY <2>1, <2>4, <2>10, <3>2, CloseSettles
    <3> QED
      BY <3>1, <3>3 DEF n
  <2>11. ASSUME NEW t \in Nat, NEW i \in Covering(segments, t), NEW j \in Covering(segments, t)
         PROVE  i = j
    <3> HIDE DEF segments, end, b
    <3>1. CASE t < end
      BY <2>10, <2>11, <3>1 DEF Settled
    <3>2. CASE ~ (t < end)
      BY <2>9, <2>11, <3>2
    <3> QED
      BY <3>1, <3>2
  <2>12. ASSUME NEW t \in 0..end
         PROVE  LET held == {i \in DOMAIN segments : segments[i].from <= t /\ t < segments[i].to}
                    n == Cardinality(UpTo(es, t))
                    here == {p \in People : PresentAfter(es, n, p)}
                IN  IF t < end /\ OpenAfter(es, n)
                    THEN \E i \in held : /\ held = {i}
                                         /\ segments[i].people = [p \in here |-> UsesAfter(es, n, p)]
                    ELSE held = {}
    <3> DEFINE n == Cardinality(UpTo(es, t))
    <3>1. t \in Nat
      BY <2>1
    <3>2. Covering(segments, t)
            = {i \in DOMAIN segments : segments[i].from <= t /\ t < segments[i].to}
      BY DEF Covering
    <3>3. CASE ~ (t < end)
      BY <2>9, <3>1, <3>2, <3>3
    <3>4. CASE t < end
      <4>1. n \in 0..N /\ Settled(segments, t, f[n])
        BY <2>10, <3>1, <3>4
      <4> HIDE DEF n, segments
      <4>2. n \in Nat /\ f[n] \in Builder /\ Mirrors(f[n], es, n)
        BY <2>1, <2>2, <4>1, BuilderMirrors
      <4>3. f[n].states = [p \in {q \in People : PresentAfter(es, n, q)} |-> UsesAfter(es, n, p)]
        BY <4>2, StatesAreUses
      <4>4. (f[n].open <=> OpenAfter(es, n)) /\ (f[n].open => f[n].people = f[n].states)
        BY <4>2 DEF Mirrors
      <4>5. CASE OpenAfter(es, n)
        <5>1. PICK i \in DOMAIN segments : /\ Covering(segments, t) = {i}
                                           /\ segments[i].people = f[n].people
          BY <4>1, <4>4, <4>5 DEF Settled
        <5>2. segments[i].people
                = [p \in {q \in People : PresentAfter(es, n, q)} |-> UsesAfter(es, n, p)]
          BY <4>3, <4>4, <4>5, <5>1
        <5> QED
          BY <3>2, <3>4, <4>5, <5>1, <5>2 DEF n
      <4>6. CASE ~ OpenAfter(es, n)
        <5>1. Covering(segments, t) = {}
          BY <4>1, <4>4, <4>6 DEF Settled
        <5> QED
          BY <3>2, <4>6, <5>1 DEF n
      <4> QED
        BY <4>5, <4>6
    <3> QED
      BY <3>3, <3>4
  <2>13. Tells(segments, es, People)
    <3> HIDE DEF segments
    <3> QED
      BY <1>2, <2>1, <2>12 DEF Tells
  <2> HIDE DEF segments
  <2> QED
    BY <1>2, <2>1, <2>3, <2>6, <2>7, <2>11, <2>13
<1> QED
  BY <1>1, <1>2

-----------------------------------------------------------------------------
\* The types of the state.

\* endCall adds CALL_STARTED only to a call that was accepted, so that the
\* time it backdates the event to is one.
StartInv == pc[Ender] \in {"addStart", "backdate"} => startedAt # NoTime
\* The inductive invariant of the types.
TypeInv == TypeOK /\ StartInv

\* The workers.
LEMMA WorkersFacts ==
    /\ Ender \in Workers /\ Handlers \subseteq Workers
    /\ \A h \in Handlers : h # Ender /\ Stages(h) = {"idle", "read", "delete", "create"}
    /\ IsFiniteSet(Workers)
<1>1. IsFiniteSet(Workers)
  BY SegmentAssumption, FS_AddElement DEF SegmentAssumption, Workers
<1> QED
  BY <1>1, SegmentAssumption DEF SegmentAssumption, Workers, Stages

\* A timeline stays one as the clock goes on, and covers no tick twice.
LEMMA TimelineLater ==
    ASSUME NEW segments, NEW u \in Nat, Timeline(segments, u), NEW v \in Nat, u <= v
    PROVE  /\ Timeline(segments, v)
           /\ \A t \in Nat : \A i, j \in Covering(segments, t) : i = j
<1>1. \A i \in DOMAIN segments :
         /\ segments[i].from \in Nat /\ segments[i].to \in Nat
         /\ segments[i].from < segments[i].to /\ segments[i].to <= u
  <2>1. \A i \in DOMAIN segments : segments[i] \in Segment
    BY DEF Timeline
  <2> QED
    BY <2>1 DEF Timeline, Segment
<1>2. ASSUME NEW t \in Nat, NEW i \in Covering(segments, t), NEW j \in Covering(segments, t)
      PROVE  i = j
  <2>1. t < u
    BY <1>1, <1>2 DEF Covering
  <2>2. t \in 0..u
    BY <2>1
  <2> QED
    BY <1>2, <2>2 DEF Timeline
<1> QED
  BY <1>1, <1>2 DEF Timeline

\* What is built from the events so far is a timeline until now.
LEMMA BuildIsTimeline ==
    ASSUME NEW u \in Nat, NEW es, History(es, u)
    PROVE  Timeline(Build(es), u)
<1>1. es \in Seq(EventRow) /\ Ordered(es)
  BY DEF History
<1>2. /\ Build(es) \in Seq(Segment)
      /\ es = <<>> => Build(es) = <<>>
      /\ es # <<>> => \A i \in DOMAIN Build(es) :
           Build(es)[i].from < Build(es)[i].to /\ Build(es)[i].to <= Last(es).at
      /\ \A t \in Nat : \A i, j \in Covering(Build(es), t) : i = j
  BY <1>1, BuildShape
<1>3. \A i \in DOMAIN Build(es) : Build(es)[i].to \in Nat
  <2>1. \A i \in DOMAIN Build(es) : Build(es)[i] \in Segment
    BY <1>2
  <2> QED
    BY <2>1 DEF Segment
<1>4. \A i \in DOMAIN Build(es) :
         Build(es)[i].from < Build(es)[i].to /\ Build(es)[i].to <= u
  <2>1. CASE es = <<>>
    <3>1. DOMAIN Build(es) = {}
      BY <1>2, <2>1
    <3> QED
      BY <3>1
  <2>2. CASE es # <<>>
    <3>1. Last(es).at \in Nat /\ Last(es).at <= u
      BY <1>1, <2>2, EventFacts DEF History, Last
    <3> QED
      BY <1>2, <1>3, <2>2, <3>1
  <2> QED
    BY <2>1, <2>2
<1> QED
  BY <1>2, <1>4 DEF Timeline

\* An event recorded now comes last.
LEMMA HistoryAppend ==
    ASSUME NEW u \in Nat, NEW es, History(es, u), NEW v \in Nat, u <= v,
           NEW e \in EventRow, e.at = v
    PROVE  History(Append(es, e), v)
<1> DEFINE a == Append(es, e)
<1>1. es \in Seq(EventRow) /\ Len(es) \in Nat
  BY DEF History
<1>2. a \in Seq(EventRow) /\ DOMAIN a = 1..(Len(es) + 1) /\ a[Len(es) + 1] = e
      /\ \A i \in 1..Len(es) : a[i] = es[i]
  BY <1>1
<1>3. \A i \in 1..Len(es) : es[i].at \in Nat /\ es[i].at <= u
  BY <1>1, EventFacts DEF History
<1> HIDE DEF a
<1>4. \A i \in 1..(Len(es) + 1) : i \in 1..Len(es) \/ i = Len(es) + 1
  BY <1>1
<1>5. \A i \in DOMAIN a : a[i].at \in Nat /\ a[i].at <= v
  BY <1>2, <1>3, <1>4
<1>6. Ordered(a)
  <2>1. ASSUME NEW i \in DOMAIN a, NEW j \in DOMAIN a, i <= j PROVE a[i].at <= a[j].at
    <3>1. CASE j = Len(es) + 1
      BY <1>2, <1>5, <3>1
    <3>2. CASE j \in 1..Len(es)
      <4>1. i \in 1..Len(es)
        BY <1>1, <1>2, <2>1, <3>2
      <4>2. es[i].at <= es[j].at
        BY <1>1, <2>1, <3>2, <4>1 DEF History, Ordered
      <4> QED
        BY <1>2, <3>2, <4>1, <4>2
    <3> QED
      BY <1>2, <1>4, <3>1, <3>2
  <2> QED
    BY <2>1 DEF Ordered
<1> QED
  BY <1>2, <1>5, <1>6 DEF a, History

\* The events stay in order as the clock goes on.
LEMMA HistoryLater ==
    ASSUME NEW u \in Nat, NEW es, History(es, u), NEW v \in Nat, u <= v
    PROVE  History(es, v)
<1>1. \A i \in DOMAIN es : es[i].at \in Nat
  BY EventFacts DEF History
<1> QED
  BY <1>1 DEF History

\* Of two positions, the later one is not earlier in time.
Apart(s) ==
    \A i, j \in DOMAIN s : i < j => s[i].at < s[j].at \/ s[i].at = s[j].at

\* Then the events are in the order of a query.
LEMMA Sortedness ==
    ASSUME NEW s \in Seq(EventRow), Apart(s)
    PROVE  Ordered(s)
<1>1. ASSUME NEW i \in DOMAIN s, NEW j \in DOMAIN s, i <= j
      PROVE  s[i].at <= s[j].at
  <2>1. i \in Nat /\ j \in Nat /\ s[i].at \in Nat /\ s[j].at \in Nat
    BY EventFacts
  <2>2. CASE i = j
    BY <2>1, <2>2
  <2>3. CASE i # j
    <3>1. i < j
      BY ONLY <1>1, <2>1, <2>3
    <3>2. s[i].at < s[j].at \/ s[i].at = s[j].at
      BY <3>1 DEF Apart
    <3> QED
      BY ONLY <2>1, <3>2
  <2> QED
    BY <2>2, <2>3
<1> QED
  BY <1>1 DEF Ordered

\* The events moved to the start of the call come back in order.
LEMMA HistoryBackdated ==
    ASSUME NEW u \in Nat, NEW es, History(es, u), NEW start \in 0..u,
           NEW order \in [DOMAIN es -> DOMAIN es], NEW moved,
           moved = [i \in DOMAIN es |-> IF IsStart(es[order[i]])
                                        THEN [es[order[i]] EXCEPT !.at = start]
                                        ELSE es[order[i]]],
           Apart(moved)
    PROVE  History(moved, u)
<1>1. es \in Seq(EventRow)
  BY DEF History
<1>2. DOMAIN es = 1..Len(es) /\ Len(es) \in Nat
  BY <1>1
<1>3. ASSUME NEW i \in DOMAIN es
      PROVE  moved[i] \in EventRow /\ moved[i].at \in Nat /\ moved[i].at <= u
  <2>1. es[order[i]] \in EventRow /\ es[order[i]].at \in Nat /\ es[order[i]].at <= u
    BY <1>1, <1>2, EventFacts DEF History
  <2>2. CASE IsStart(es[order[i]])
    <3>1. moved[i] = [es[order[i]] EXCEPT !.at = start]
      BY <2>2
    <3> QED
      BY <2>1, <3>1 DEF EventRow
  <2>3. CASE ~ IsStart(es[order[i]])
    BY <2>1, <2>3
  <2> QED
    BY <2>2, <2>3
<1>4. DOMAIN moved = DOMAIN es
  OBVIOUS
<1>5. moved \in Seq(EventRow)
  <2>1. moved = [i \in 1..Len(es) |-> moved[i]]
    BY <1>2
  <2>2. moved \in [1..Len(es) -> EventRow]
    BY <1>2, <1>3, <2>1
  <2> QED
    BY <1>2, <2>2
<1>6. Ordered(moved)
  BY <1>5, <1>3, <1>4, Sortedness DEF Apart
<1> QED
  BY <1>3, <1>4, <1>5, <1>6 DEF History

\* The metadata does not matter for the order.
LEMMA HistoryTold ==
    ASSUME NEW u \in Nat, NEW es, History(es, u), NEW video \in BOOLEAN
    PROVE  History([i \in DOMAIN es |->
                      IF IsStart(es[i]) THEN [es[i] EXCEPT !.video = video] ELSE es[i]], u)
<1> DEFINE told == [i \in DOMAIN es |->
                      IF IsStart(es[i]) THEN [es[i] EXCEPT !.video = video] ELSE es[i]]
<1>1. es \in Seq(EventRow)
  BY DEF History
<1>2. DOMAIN es = 1..Len(es) /\ Len(es) \in Nat
  BY <1>1
<1>3. ASSUME NEW i \in DOMAIN es
      PROVE  told[i] \in EventRow /\ told[i].at = es[i].at
  <2>1. es[i] \in EventRow
    BY <1>1, <1>2, EventFacts
  <2>2. CASE IsStart(es[i])
    <3>1. told[i] = [es[i] EXCEPT !.video = video]
      BY <2>2
    <3> QED
      BY <2>1, <3>1 DEF EventRow
  <2>3. CASE ~ IsStart(es[i])
    BY <2>1, <2>3
  <2> QED
    BY <2>2, <2>3
<1>4. DOMAIN told = DOMAIN es /\ told = [i \in 1..Len(es) |-> told[i]]
  BY <1>2
<1> HIDE DEF told
<1>5. told \in Seq(EventRow)
  <2>1. told \in [1..Len(es) -> EventRow]
    BY <1>2, <1>3, <1>4
  <2> QED
    BY <1>2, <2>1
<1>6. History(told, u)
  <2>1. Ordered(es) /\ \A i \in DOMAIN es : es[i].at <= u
    BY DEF History
  <2>2. ASSUME NEW i \in DOMAIN told, NEW j \in DOMAIN told, i <= j
        PROVE  told[i].at <= told[j].at
    <3>1. es[i].at <= es[j].at
      BY <1>4, <2>1, <2>2 DEF Ordered
    <3>2. i \in DOMAIN es /\ j \in DOMAIN es
      BY <1>4
    <3>3. told[i].at = es[i].at /\ told[j].at = es[j].at
      BY <1>3, <3>2
    <3> QED
      BY ONLY <3>1, <3>3
  <2>3. Ordered(told)
    BY <2>2 DEF Ordered
  <2>4. \A i \in DOMAIN told : told[i].at <= u
    BY <1>3, <1>4, <2>1
  <2> QED
    BY <1>5, <2>3, <2>4 DEF History
<1> QED
  BY <1>6 DEF told

\* TypeOK in parts, each of them about a value, the next one's as well.
PcOK(f) == f \in [Workers -> UNION {Stages(v) : v \in Workers}] /\ \A w \in Workers : f[w] \in Stages(w)
BuiltOK(b, u) == b \in [Workers -> Seq(Segment)] /\ \A w \in Workers : Timeline(b[w], u)
TimesOK(u, begin, end) ==
    u \in 0..MaxTime /\ begin \in 0..u \cup {NoTime} /\ end \in 0..u \cup {NoTime}

\* A worker goes to one of its stages.
LEMMA PcStep ==
    ASSUME NEW f, PcOK(f), NEW w \in Workers, NEW s \in Stages(w)
    PROVE  PcOK([f EXCEPT ![w] = s])
<1>1. s \in UNION {Stages(v) : v \in Workers}
  OBVIOUS
<1> QED
  BY <1>1 DEF PcOK

\* A worker builds, or throws away what it built.
LEMMA BuiltStep ==
    ASSUME NEW u, NEW b, BuiltOK(b, u), NEW w \in Workers, NEW s, Timeline(s, u)
    PROVE  BuiltOK([b EXCEPT ![w] = s], u)
<1>1. s \in Seq(Segment)
  BY DEF Timeline
<1> QED
  BY <1>1 DEF BuiltOK

\* What is built stays a timeline as the clock goes on.
LEMMA BuiltLater ==
    ASSUME NEW u \in Nat, NEW v \in Nat, u <= v, NEW b, BuiltOK(b, u)
    PROVE  BuiltOK(b, v)
<1>1. \A w \in Workers : Timeline(b[w], v)
  BY TimelineLater DEF BuiltOK
<1> QED
  BY <1>1 DEF BuiltOK

\* No segment is a timeline.
LEMMA NoTimeline ==
    ASSUME NEW u \in Nat
    PROVE  Timeline(<<>>, u)
BY DEF Timeline, Covering

\* A segment's row is a row,
LEMMA RowOfSegment ==
    ASSUME NEW s \in Segment, NEW done \in BOOLEAN
    PROVE  Row(s, done) \in UsageRow
BY DEF Segment, UsageRow, Row

\* the rows of segments are rows, one for each,
LEMMA RowsOfType ==
    ASSUME NEW segments \in Seq(Segment)
    PROVE  /\ RowsOf(segments) \in Seq(UsageRow)
           /\ DOMAIN RowsOf(segments) = DOMAIN segments
           /\ Len(RowsOf(segments)) = Len(segments)
<1>1. DOMAIN segments = 1..Len(segments) /\ Len(segments) \in Nat
      /\ \A i \in 1..Len(segments) : segments[i] \in Segment
  OBVIOUS
<1>2. RowsOf(segments) = [i \in 1..Len(segments) |-> Row(segments[i], FALSE)]
  BY <1>1 DEF RowsOf
<1>3. RowsOf(segments) \in [1..Len(segments) -> UsageRow]
  BY <1>1, <1>2, RowOfSegment
<1> QED
  BY <1>1, <1>3

\* and rows remain rows when some are rated.
LEMMA MarkedType ==
    ASSUME NEW table \in Seq(UsageRow), NEW t
    PROVE  /\ Marked(table, t) \in Seq(UsageRow)
           /\ DOMAIN Marked(table, t) = DOMAIN table
<1>1. DOMAIN table = 1..Len(table) /\ Len(table) \in Nat
      /\ \A i \in 1..Len(table) : table[i] \in UsageRow
  OBVIOUS
<1>2. \A i \in 1..Len(table) :
         Row(table[i], table[i].rated \/ Times(table[i]) = t) \in UsageRow
  BY <1>1 DEF UsageRow, Row
<1>3. Marked(table, t) \in [1..Len(table) -> UsageRow]
  BY <1>1, <1>2 DEF Marked
<1> QED
  BY <1>1, <1>3

\* TypeOK is its parts.
LEMMA TypeParts ==
    TypeOK <=>
      /\ TimesOK(now, startedAt, endedAt) /\ isVideo \in BOOLEAN
      /\ inRoom \subseteq People /\ faults \in 0..MaxFaults
      /\ unread \in BOOLEAN /\ disturbed \in BOOLEAN
      /\ History(events, now) /\ rows \in Seq(UsageRow)
      /\ PcOK(pc) /\ BuiltOK(built, now)
BY DEF TypeOK, TimesOK, PcOK, BuiltOK

\* The clock goes on, and what was fine remains so.
LEMMA ClockFacts ==
    ASSUME TypeInv, ReadClock, NEW begin, NEW end,
           TimesOK(now, begin, end)
    PROVE  /\ now \in Nat /\ now' \in Nat /\ now <= now'
           /\ TimesOK(now', begin, end)
           /\ History(events, now') /\ BuiltOK(built, now')
<1>1. now \in Nat /\ now' \in Nat /\ now <= now' /\ now' \in 0..MaxTime
  BY SegmentAssumption DEF SegmentAssumption, TimesOK, ReadClock
<1>2. TimesOK(now', begin, end)
  BY <1>1 DEF TimesOK
<1>3. History(events, now) /\ BuiltOK(built, now)
  BY TypeParts DEF TypeInv
<1> QED
  BY <1>1, <1>2, <1>3, HistoryLater, BuiltLater

\* What a handler records is an event.
LEMMA EventIsRow ==
    ASSUME NEW kind \in Kinds, NEW who \in People, NEW at \in Nat, NEW video \in BOOLEAN
    PROVE  Event(kind, who, at, video) \in EventRow
           /\ Event(kind, who, at, video).at = at
BY DEF Event, EventRow

-----------------------------------------------------------------------------
\* Every action keeps them.

\* TypeOK of the next state is its parts.
LEMMA TypeNext ==
    ASSUME TimesOK(now', startedAt', endedAt'), isVideo' \in BOOLEAN,
           inRoom' \subseteq People, faults' \in 0..MaxFaults,
           unread' \in BOOLEAN, disturbed' \in BOOLEAN,
           History(events', now'), rows' \in Seq(UsageRow),
           PcOK(pc'), BuiltOK(built', now')
    PROVE  TypeOK'
BY DEF TypeOK, TimesOK, PcOK, BuiltOK

\* The types at the start.
LEMMA TypeInit == Init => TypeInv
<1> SUFFICES ASSUME Init PROVE TypeInv
  OBVIOUS
<1>1. TimesOK(now, startedAt, endedAt)
  BY SegmentAssumption DEF SegmentAssumption, Init, TimesOK, NoTime
<1>2. History(events, now)
  BY DEF Init, History, Ordered
<1>3. rows \in Seq(UsageRow) /\ inRoom \subseteq People
  BY DEF Init
<1>4. PcOK(pc) /\ StartInv
  BY WorkersFacts DEF Init, PcOK, Stages, StartInv
<1>5. BuiltOK(built, now)
  BY NoTimeline DEF Init, BuiltOK
<1>6. isVideo \in BOOLEAN /\ unread \in BOOLEAN /\ disturbed \in BOOLEAN
  BY DEF Init
<1>7. faults \in 0..MaxFaults
  BY SegmentAssumption DEF SegmentAssumption, Init
<1> QED
  BY <1>1, <1>2, <1>3, <1>4, <1>5, <1>6, <1>7, TypeParts DEF TypeInv

\* The types after each action: a handler records,
LEMMA TypeGatewayRecord ==
    ASSUME TypeInv, NEW h \in Handlers, NEW e \in Gateway, GatewayRecord(h, e[1], e[2])
    PROVE  TypeOK'
<1>1. e[1] \in Kinds /\ e[2] \in People
  BY SegmentAssumption DEF SegmentAssumption, Kinds, People
<1>2. /\ ReadClock /\ events' = Append(events, Event(e[1], e[2], now', FALSE))
      /\ pc' = [pc EXCEPT ![h] = "read"] /\ unread' = TRUE
      /\ UNCHANGED <<call, rows, built, rating, due, usage, faults, disturbed>>
  BY DEF GatewayRecord, RecordEvent
<1>3. inRoom' \in {inRoom \cup {e[2]}, inRoom \ {e[2]}, inRoom}
  BY DEF GatewayRecord
<1>4. /\ now \in Nat /\ now' \in Nat /\ now <= now'
      /\ TimesOK(now', startedAt, endedAt)
      /\ History(events, now) /\ BuiltOK(built, now')
  BY <1>2, TypeParts, ClockFacts DEF TypeInv
<1>5. History(events', now')
  BY <1>1, <1>2, <1>4, EventIsRow, HistoryAppend
<1>6. PcOK(pc')
  <2>1. "read" \in Stages(h) /\ h \in Workers /\ PcOK(pc)
    BY WorkersFacts, TypeParts DEF TypeInv
  <2> QED
    BY <1>2, <2>1, PcStep
<1>7. inRoom' \subseteq People
  BY <1>1, <1>3, TypeParts DEF TypeInv
<1>8. /\ isVideo' = isVideo /\ startedAt' = startedAt /\ endedAt' = endedAt
      /\ rows' = rows /\ built' = built /\ faults' = faults /\ disturbed' = disturbed
  BY <1>2 DEF call
<1> QED
  BY <1>2, <1>4, <1>5, <1>6, <1>7, <1>8, TypeParts, TypeNext DEF TypeInv

\* an endpoint records,
LEMMA TypeRestRecord ==
    ASSUME TypeInv, NEW e \in Rest, RestRecord(e[1], e[2])
    PROVE  TypeOK'
<1>1. e[1] \in Kinds /\ e[2] \in People
  BY SegmentAssumption DEF SegmentAssumption, Kinds, People, Opening
<1>2. /\ ReadClock /\ events' = Append(events, Event(e[1], e[2], now', FALSE))
      /\ unread' = TRUE
      /\ UNCHANGED <<call, inRoom, rows, pc, built, rating, due, usage, faults, disturbed>>
  BY DEF RestRecord, RecordEvent
<1>3. /\ now \in Nat /\ now' \in Nat /\ now <= now'
      /\ TimesOK(now', startedAt, endedAt)
      /\ History(events, now) /\ BuiltOK(built, now')
  BY <1>2, TypeParts, ClockFacts DEF TypeInv
<1>4. History(events', now')
  BY <1>1, <1>2, <1>3, EventIsRow, HistoryAppend
<1>5. /\ isVideo' = isVideo /\ startedAt' = startedAt /\ endedAt' = endedAt
      /\ inRoom' = inRoom /\ pc' = pc /\ rows' = rows /\ built' = built
      /\ faults' = faults /\ disturbed' = disturbed
  BY <1>2 DEF call
<1> QED
  BY <1>2, <1>3, <1>4, <1>5, TypeParts, TypeNext DEF TypeInv

\* What every step of a worker that leaves the clock and the call alone keeps.
LEMMA TypeQuiet ==
    ASSUME TypeInv, UNCHANGED <<now, call, inRoom>>,
           NEW w \in Workers, NEW s \in Stages(w), pc' = [pc EXCEPT ![w] = s],
           faults' \in 0..MaxFaults, unread' \in BOOLEAN, disturbed' \in BOOLEAN,
           History(events', now), rows' \in Seq(UsageRow), BuiltOK(built', now)
    PROVE  TypeOK'
<1>1. now' = now /\ isVideo' = isVideo /\ startedAt' = startedAt /\ endedAt' = endedAt
      /\ inRoom' = inRoom
  BY DEF call
<1>2. PcOK(pc')
  BY PcStep, TypeParts DEF TypeInv
<1> QED
  BY <1>1, <1>2, TypeParts, TypeNext DEF TypeInv

\* (the stages that a rebuild goes through)
LEMMA AfterIsAStage ==
    \A w \in Workers : After(w) \in Stages(w) /\ "create" \in Stages(w)
                        /\ "delete" \in Stages(w)
BY DEF After, Stages

\* a statement of a rebuild,
LEMMA TypeRebuild ==
    ASSUME TypeInv, NEW w \in Workers, Rebuild(w)
    PROVE  TypeOK'
<1>1. CASE RebuildRead(w)
  <2>1. now \in Nat /\ History(events, now) /\ BuiltOK(built, now)
    BY SegmentAssumption, TypeParts DEF SegmentAssumption, TypeInv, TimesOK
  <2>2. Timeline(Build(events), now)
    BY <2>1, BuildIsTimeline
  <2>3. /\ built' = [built EXCEPT ![w] = Build(events)]
        /\ pc' = [pc EXCEPT ![w] = "delete"]
        /\ disturbed' = (disturbed \/ \E v \in Workers : Rebuilding(v))
        /\ unread' = FALSE /\ events' = events /\ rows' = rows /\ faults' = faults
        /\ UNCHANGED <<now, call, inRoom>>
    BY <1>1 DEF RebuildRead
  <2>4. BuiltOK(built', now)
    BY <2>1, <2>2, <2>3, BuiltStep
  <2>5. disturbed' \in BOOLEAN
    BY <2>3
  <2> QED
    BY <2>1, <2>3, <2>4, <2>5, AfterIsAStage, TypeQuiet, TypeParts DEF TypeInv
<1>2. CASE RebuildDelete(w)
  <2>1. /\ pc' = [pc EXCEPT ![w] = IF built[w] = <<>> THEN After(w) ELSE "create"]
        /\ rows' = <<>> /\ built' = built /\ disturbed' = disturbed
        /\ unread' = unread /\ events' = events /\ faults' = faults
        /\ UNCHANGED <<now, call, inRoom>>
    BY <1>2 DEF RebuildDelete
  <2>2. (IF built[w] = <<>> THEN After(w) ELSE "create") \in Stages(w)
    BY AfterIsAStage
  <2>3. rows' \in Seq(UsageRow)
    BY <2>1
  <2> QED
    BY <2>1, <2>2, <2>3, TypeQuiet, TypeParts DEF TypeInv
<1>3. CASE RebuildCreate(w)
  <2>1. /\ pc' = [pc EXCEPT ![w] = After(w)]
        /\ rows' = rows \o RowsOf(built[w]) /\ disturbed' = disturbed
        /\ unread' = unread /\ events' = events /\ faults' = faults
        /\ built' = IF w = Ender THEN built ELSE [built EXCEPT ![w] = <<>>]
        /\ UNCHANGED <<now, call, inRoom>>
    BY <1>3 DEF RebuildCreate
  <2>2. now \in Nat /\ BuiltOK(built, now) /\ rows \in Seq(UsageRow)
    BY SegmentAssumption, TypeParts DEF SegmentAssumption, TypeInv, TimesOK
  <2>3. rows' \in Seq(UsageRow)
    <3>1. RowsOf(built[w]) \in Seq(UsageRow)
      BY <2>2, RowsOfType DEF BuiltOK
    <3> QED
      BY <2>1, <2>2, <3>1
  <2>4. BuiltOK(built', now)
    BY <2>1, <2>2, BuiltStep, NoTimeline
  <2> QED
    BY <2>1, <2>3, <2>4, AfterIsAStage, TypeQuiet, TypeParts DEF TypeInv
<1> QED
  BY <1>1, <1>2, <1>3 DEF Rebuild

\* a failure,
LEMMA TypeFail ==
    ASSUME TypeInv, NEW w \in Workers, Fail(w)
    PROVE  TypeOK'
<1>1. /\ pc' = [pc EXCEPT ![w] = IF w = Ender THEN "fallback" ELSE "idle"]
      /\ faults < MaxFaults /\ faults' = faults + 1 /\ disturbed' = TRUE
      /\ built' = [built EXCEPT ![w] = <<>>]
      /\ unread' = unread /\ events' = events /\ rows' = rows
      /\ UNCHANGED <<now, call, inRoom>>
  BY DEF Fail
<1>2. (IF w = Ender THEN "fallback" ELSE "idle") \in Stages(w)
  BY DEF Stages
<1>3. now \in Nat /\ BuiltOK(built, now) /\ faults \in 0..MaxFaults
  BY SegmentAssumption, TypeParts DEF SegmentAssumption, TypeInv, TimesOK
<1>4. BuiltOK(built', now)
  BY <1>1, <1>3, BuiltStep, NoTimeline
<1>5. faults' \in 0..MaxFaults
  BY <1>1, <1>3, SegmentAssumption DEF SegmentAssumption
<1> QED
  BY <1>1, <1>2, <1>4, <1>5, TypeQuiet, TypeParts DEF TypeInv

\* (the stages of endCall)
LEMMA EnderStages ==
    /\ Ender \in Workers
    /\ {"ended", "findStart", "addStart", "backdate", "tellType", "read", "rate",
        "persist", "usage", "fallback", "done"} \subseteq Stages(Ender)
BY WorkersFacts DEF Stages

\* the claim of the end,
LEMMA TypeEndClaim ==
    ASSUME TypeInv, EndClaim
    PROVE  TypeOK'
<1>1. /\ ReadClock /\ endedAt' = now' /\ pc' = [pc EXCEPT ![Ender] = "ended"]
      /\ isVideo' = isVideo /\ startedAt' = startedAt /\ inRoom' = inRoom
      /\ events' = events /\ rows' = rows /\ built' = built /\ faults' = faults
      /\ unread' = unread /\ disturbed' = disturbed
  BY DEF EndClaim
<1>2. /\ now \in Nat /\ now' \in Nat /\ now <= now'
      /\ TimesOK(now', startedAt, endedAt)
      /\ History(events, now') /\ BuiltOK(built, now')
  BY <1>1, TypeParts, ClockFacts DEF TypeInv
<1>3. TimesOK(now', startedAt', endedAt')
  BY <1>1, <1>2 DEF TimesOK
<1>4. PcOK(pc')
  BY <1>1, EnderStages, PcStep, TypeParts DEF TypeInv
<1> QED
  BY <1>1, <1>2, <1>3, <1>4, TypeParts, TypeNext DEF TypeInv

\* EndRecord and EndAddStart add an event of the present.
LEMMA TypeEndAdds ==
    ASSUME TypeInv, ReadClock, NEW kind \in Kinds, NEW video \in BOOLEAN,
           events' = Append(events, Event(kind, Caller, now', video)),
           NEW s \in Stages(Ender), pc' = [pc EXCEPT ![Ender] = s], unread' = TRUE,
           UNCHANGED <<call, inRoom, rows, built, faults, disturbed>>
    PROVE  TypeOK'
<1>1. /\ now \in Nat /\ now' \in Nat /\ now <= now'
      /\ TimesOK(now', startedAt, endedAt)
      /\ History(events, now) /\ BuiltOK(built, now')
  BY TypeParts, ClockFacts DEF TypeInv
<1>2. History(events', now')
  <2>1. Caller \in People
    BY DEF People
  <2> QED
    BY <1>1, <2>1, EventIsRow, HistoryAppend
<1>3. PcOK(pc')
  BY EnderStages, PcStep, TypeParts DEF TypeInv
<1>4. /\ isVideo' = isVideo /\ startedAt' = startedAt /\ endedAt' = endedAt
  BY DEF call
<1> QED
  BY <1>1, <1>2, <1>3, <1>4, TypeParts, TypeNext DEF TypeInv

\* and the rest of endCall.
LEMMA TypeEndStep ==
    ASSUME TypeInv, EndStep
    PROVE  TypeOK'
<1>0. /\ now \in Nat /\ History(events, now) /\ BuiltOK(built, now) /\ rows \in Seq(UsageRow)
      /\ faults \in 0..MaxFaults /\ unread \in BOOLEAN /\ disturbed \in BOOLEAN
      /\ isVideo \in BOOLEAN /\ startedAt \in 0..now \cup {NoTime} /\ StartInv
      /\ PcOK(pc)
  BY SegmentAssumption, TypeParts DEF SegmentAssumption, TypeInv, TimesOK
<1>1. CASE EndRecord
  <2>1. "CALL_ENDED" \in Kinds
    BY DEF Kinds
  <2> QED
    BY <1>1, <2>1, EnderStages, TypeEndAdds DEF EndRecord
<1>2. CASE EndFindStart
  <2>1. PICK s \in {"tellType", "addStart"} : pc' = [pc EXCEPT ![Ender] = s]
    BY <1>2 DEF EndFindStart
  <2> QED
    BY <1>0, <1>2, <2>1, EnderStages, TypeQuiet DEF EndFindStart
<1>3. CASE EndAddStart
  <2>1. "CALL_STARTED" \in Kinds
    BY DEF Kinds, Opening
  <2> QED
    BY <1>0, <1>3, <2>1, EnderStages, TypeEndAdds DEF EndAddStart
<1>4. CASE EndBackdate
  <2> DEFINE Moved(order) ==
               [i \in DOMAIN events |->
                  IF IsStart(events[order[i]])
                  THEN [events[order[i]] EXCEPT !.at = startedAt]
                  ELSE events[order[i]]]
  <2>1. PICK order \in [DOMAIN events -> DOMAIN events] :
          /\ \A i, j \in DOMAIN events : i < j =>
                \/ Moved(order)[i].at < Moved(order)[j].at
                \/ /\ Moved(order)[i].at = Moved(order)[j].at
                   /\ IsStart(Moved(order)[i]) \/ IsStart(Moved(order)[j])
                        \/ order[i] < order[j]
          /\ events' = Moved(order)
    BY <1>4 DEF EndBackdate
  <2>2. startedAt \in 0..now
    BY <1>0, <1>4 DEF StartInv, EndBackdate
  <2>3. DOMAIN events' = DOMAIN events
    BY <2>1
  <2>4. Apart(events')
    <3> HIDE DEF Moved
    <3>1. \A i, j \in DOMAIN events :
             i < j => events'[i].at < events'[j].at \/ events'[i].at = events'[j].at
      BY <2>1
    <3>2. \A i, j \in DOMAIN events' :
             i < j => events'[i].at < events'[j].at \/ events'[i].at = events'[j].at
      BY ONLY <2>3, <3>1
    <3> QED
      BY <3>2 DEF Apart
  <2>5. History(events', now)
    BY <1>0, <2>1, <2>2, <2>4, HistoryBackdated
  <2> QED
    BY <1>0, <1>4, <2>5, EnderStages, TypeQuiet DEF EndBackdate
<1>5. CASE EndTellType
  <2>1. History(events', now)
    BY <1>0, <1>5, HistoryTold DEF EndTellType
  <2> QED
    BY <1>0, <1>5, <2>1, EnderStages, TypeQuiet DEF EndTellType
<1>6. CASE EndRate
  <2>1. PICK s \in {"usage", "persist"} : pc' = [pc EXCEPT ![Ender] = s]
    BY <1>6 DEF EndRate
  <2> QED
    BY <1>0, <1>6, <2>1, EnderStages, TypeQuiet DEF EndRate
<1>7. CASE EndPersist
  <2>1. PICK t \in due : rows' = Marked(rows, t)
    BY <1>7 DEF EndPersist
  <2>2. rows' \in Seq(UsageRow)
    BY <1>0, <2>1, MarkedType
  <2>3. PICK s \in Stages(Ender) : pc' = [pc EXCEPT ![Ender] = s]
    <3>1. CASE due' = {}
      BY <1>7, <3>1, EnderStages DEF EndPersist
    <3>2. CASE due' # {}
      <4>1. pc' = pc
        BY <1>7, <3>2 DEF EndPersist
      <4>2. pc = [pc EXCEPT ![Ender] = pc[Ender]] /\ pc[Ender] \in Stages(Ender)
        BY <1>0, EnderStages DEF PcOK
      <4> QED
        BY <4>1, <4>2
    <3> QED
      BY <3>1, <3>2
  <2> QED
    BY <1>0, <1>7, <2>2, <2>3, EnderStages, TypeQuiet DEF EndPersist
<1>8. CASE EndUsage
  BY <1>0, <1>8, EnderStages, TypeQuiet DEF EndUsage
<1>9. CASE EndFallback
  BY <1>0, <1>9, EnderStages, TypeQuiet DEF EndFallback
<1> QED
  BY <1>1, <1>2, <1>3, <1>4, <1>5, <1>6, <1>7, <1>8, <1>9 DEF EndStep

\* Only EndFindStart lets endCall add the start, of a call that has one.
LEMMA StartStep ==
    ASSUME TypeInv, [Next]_vars
    PROVE  StartInv'
<1>0. StartInv /\ DOMAIN pc = Workers /\ Ender \in Workers /\ Ender \notin Handlers
  BY TypeParts, WorkersFacts DEF TypeInv, PcOK
<1>1. CASE UNCHANGED vars
  BY <1>0, <1>1 DEF vars, StartInv
<1>2. ASSUME NEW h \in Handlers, NEW e \in Gateway, GatewayRecord(h, e[1], e[2])
      PROVE  StartInv'
  <2>1. pc' = [pc EXCEPT ![h] = "read"] /\ UNCHANGED call
    BY <1>2 DEF GatewayRecord
  <2> QED
    BY <1>0, <2>1 DEF StartInv, call
<1>3. ASSUME NEW e \in Rest, RestRecord(e[1], e[2])
      PROVE  StartInv'
  BY <1>0, <1>3 DEF RestRecord, StartInv, call
<1>4. ASSUME NEW w \in Workers, Rebuild(w)
      PROVE  StartInv'
  <2>1. /\ UNCHANGED call
        /\ \E s \in {"delete", "create", "rate", "idle"} : pc' = [pc EXCEPT ![w] = s]
    BY <1>4 DEF Rebuild, RebuildRead, RebuildDelete, RebuildCreate, After
  <2> QED
    BY <1>0, <2>1 DEF StartInv, call
<1>5. ASSUME NEW w \in Workers, Fail(w)
      PROVE  StartInv'
  <2>1. /\ UNCHANGED call
        /\ \E s \in {"fallback", "idle"} : pc' = [pc EXCEPT ![w] = s]
    BY <1>5 DEF Fail
  <2> QED
    BY <1>0, <2>1 DEF StartInv, call
<1>6. CASE EndClaim
  BY <1>0, <1>6 DEF EndClaim, StartInv
<1>7. CASE EndFindStart
  BY <1>0, <1>7 DEF EndFindStart, StartInv, call
<1>8. CASE EndAddStart
  BY <1>0, <1>8 DEF EndAddStart, StartInv, call
<1>9. CASE EndRecord \/ EndBackdate \/ EndTellType \/ EndRate \/ EndPersist
           \/ EndUsage \/ EndFallback
  <2>1. /\ UNCHANGED call
        /\ \/ \E s \in {"findStart", "read", "usage", "persist", "done"} :
                 pc' = [pc EXCEPT ![Ender] = s]
           \/ pc' = pc
    BY <1>9 DEF EndRecord, EndBackdate, EndTellType, EndRate, EndPersist, EndUsage,
                EndFallback
  <2> QED
    BY <1>0, <2>1 DEF StartInv, call
<1> QED
  BY <1>1, <1>2, <1>3, <1>4, <1>5, <1>6, <1>7, <1>8, <1>9 DEF Next, EndStep

\* Every step keeps the types.
LEMMA TypeStep ==
    ASSUME TypeInv, [Next]_vars
    PROVE  TypeInv'
<1>1. CASE UNCHANGED vars
  <2>1. TypeOK'
    BY <1>1 DEF TypeInv, TypeOK, vars
  <2> QED
    BY <2>1, StartStep DEF TypeInv
<1>2. CASE Next
  <2>1. TypeOK'
    BY <1>2, TypeGatewayRecord, TypeRestRecord, TypeRebuild, TypeFail, TypeEndClaim,
       TypeEndStep DEF Next
  <2> QED
    BY <2>1, StartStep DEF TypeInv
<1> QED
  BY <1>1, <1>2

\* THEOREM.  In every behaviour the rows, the events and what the workers hold
\* have their types; the events are in the order of their times, none is later
\* than now, and what any worker holds is a timeline: segments that are not
\* empty, end by now and never overlap (usage-segment.service.ts:57-248).
THEOREM SegmentTypeCorrect == Spec => []TypeOK
<1>1. TypeInv => TypeOK
  BY DEF TypeInv
<1> QED
  BY <1>1, TypeInit, TypeStep, PTL DEF Spec

\* THEOREM.  For every number of events, in every order that they can come in,
\* the builder bills at every tick exactly what the events tell of it
\* (usage-segment.service.ts:57-248): there is a segment while the call is
\* billed and none otherwise, with exactly those present and their media.
THEOREM TheTimelineIsTold == Spec => []TimelineIsTold
<1>1. TypeInv => TimelineIsTold
  <2>1. ASSUME TypeInv PROVE TimelineIsTold
    <3>1. events \in Seq(EventRow) /\ Ordered(events)
      BY <2>1, TypeParts DEF TypeInv, History
    <3> QED
      BY <3>1, BuildShape DEF TimelineIsTold
  <2> QED
    BY <2>1
<1> QED
  BY <1>1, TypeInit, TypeStep, PTL DEF Spec

\* They hold in every behaviour.
LEMMA RunningTypes == Spec => []TypeInv
BY TypeInit, TypeStep, PTL DEF Spec

-----------------------------------------------------------------------------
\* How often a tick is covered.

\* Those about to insert, and the bound with what they may yet add: a worker
\* that is about to insert has nothing of its own in the table.
CreatingIn(f) == {w \in Workers : f[w] = "create"}
Coverage(table, f) ==
    \A t \in Nat : Cardinality(Covering(table, t)) + Cardinality(CreatingIn(f))
                     <= Cardinality(Workers)

\* They are finitely many.
LEMMA CreatingFacts ==
    ASSUME NEW f
    PROVE  /\ IsFiniteSet(CreatingIn(f)) /\ Cardinality(CreatingIn(f)) \in Nat
           /\ Cardinality(Workers) \in Nat
           /\ Cardinality(CreatingIn(f)) <= Cardinality(Workers)
<1>1. CreatingIn(f) \subseteq Workers
  BY DEF CreatingIn
<1>2. IsFiniteSet(Workers)
  BY WorkersFacts
<1> QED
  BY <1>1, <1>2, FS_Subset, FS_CardinalityType

\* So are the rows at a tick.
LEMMA CoveringFacts ==
    ASSUME NEW table, NEW R, table \in Seq(R), NEW t
    PROVE  IsFiniteSet(Covering(table, t)) /\ Cardinality(Covering(table, t)) \in Nat
<1>1. Covering(table, t) \subseteq 1..Len(table) /\ Len(table) \in Nat
  BY DEF Covering
<1>2. IsFiniteSet(1..Len(table))
  BY <1>1, FS_Interval
<1> QED
  BY <1>1, <1>2, FS_Subset, FS_CardinalityType

\* The rows of one timeline add at most one row to a tick.
LEMMA CoverageAppended ==
    ASSUME NEW table \in Seq(UsageRow), NEW segments \in Seq(Segment), NEW t \in Nat,
           \A i, j \in Covering(segments, t) : i = j
    PROVE  Cardinality(Covering(table \o RowsOf(segments), t))
             <= Cardinality(Covering(table, t)) + 1
<1> DEFINE all == table \o RowsOf(segments)
           old == Covering(table, t)
           new == Covering(all, t)
<1>1. /\ RowsOf(segments) \in Seq(UsageRow) /\ Len(RowsOf(segments)) = Len(segments)
      /\ DOMAIN segments = 1..Len(segments)
      /\ Len(segments) \in Nat /\ Len(table) \in Nat /\ DOMAIN table = 1..Len(table)
  BY RowsOfType
<1>2. /\ DOMAIN all = 1..(Len(table) + Len(segments))
      /\ \A i \in 1..Len(table) : all[i] = table[i]
      /\ \A i \in (Len(table) + 1)..(Len(table) + Len(segments)) :
            all[i] = RowsOf(segments)[i - Len(table)]
  BY <1>1
<1>3. \A j \in 1..Len(segments) : RowsOf(segments)[j].from = segments[j].from
                                  /\ RowsOf(segments)[j].to = segments[j].to
  BY <1>1 DEF RowsOf, Row
<1> HIDE DEF all
<1>4. \A i \in new : \/ i \in old
                     \/ \E j \in Covering(segments, t) : i = Len(table) + j
  <2>1. ASSUME NEW i \in new
        PROVE  \/ i \in old
               \/ \E j \in Covering(segments, t) : i = Len(table) + j
    <3>1. i \in DOMAIN all /\ all[i].from <= t /\ t < all[i].to
      BY <2>1 DEF Covering
    <3>2. CASE i \in 1..Len(table)
      <4>1. i \in DOMAIN table /\ all[i] = table[i]
        BY <1>1, <1>2, <3>2
      <4> QED
        BY <3>1, <4>1 DEF Covering
    <3>3. CASE i \notin 1..Len(table)
      <4> DEFINE j == i - Len(table)
      <4>1. i \in (Len(table) + 1)..(Len(table) + Len(segments)) /\ j \in 1..Len(segments)
            /\ i = Len(table) + j
        BY <1>1, <1>2, <3>1, <3>3
      <4>2. all[i] = RowsOf(segments)[j]
        BY <1>2, <4>1
      <4>3. j \in Covering(segments, t)
        BY <1>1, <1>3, <3>1, <4>1, <4>2 DEF Covering
      <4> QED
        BY <4>1, <4>3
    <3> QED
      BY <3>2, <3>3
  <2> QED
    BY <2>1
<1>5. IsFiniteSet(old) /\ Cardinality(old) \in Nat
  BY CoveringFacts
<1>6. \E k : new \subseteq old \cup {k}
  <2>1. CASE Covering(segments, t) = {}
    BY <1>4, <2>1
  <2>2. ASSUME NEW j \in Covering(segments, t)
        PROVE  new \subseteq old \cup {Len(table) + j}
    BY <1>4, <2>2
  <2> QED
    BY <2>1, <2>2
<1> HIDE DEF old, new
<1>7. PICK k : new \subseteq old \cup {k}
  BY <1>6
<1>8. /\ IsFiniteSet(old \cup {k}) /\ Cardinality(old \cup {k}) \in Nat
      /\ Cardinality(old \cup {k}) <= Cardinality(old) + 1
  <2>1. /\ IsFiniteSet(old \cup {k})
        /\ Cardinality(old \cup {k}) =
             IF k \in old THEN Cardinality(old) ELSE Cardinality(old) + 1
    BY <1>5, FS_AddElement
  <2> QED
    BY <1>5, <2>1
<1>9. Cardinality(new) <= Cardinality(old \cup {k}) /\ Cardinality(new) \in Nat
  BY <1>7, <1>8, FS_Subset, FS_CardinalityType
<1>10. Cardinality(new) <= Cardinality(old) + 1
  BY ONLY <1>5, <1>8, <1>9
<1> QED
  BY <1>10 DEF new, old, all

\* Rating a row leaves its times.
LEMMA CoverageMarked ==
    ASSUME NEW table \in Seq(UsageRow), NEW t, NEW u
    PROVE  Covering(Marked(table, t), u) = Covering(table, u)
BY MarkedType DEF Covering, Marked, Row

\* The bound with fewer who are about to insert.
LEMMA CoverageFewer ==
    ASSUME NEW table \in Seq(UsageRow), NEW f, NEW g, Coverage(table, f),
           CreatingIn(g) \subseteq CreatingIn(f)
    PROVE  Coverage(table, g)
<1>1. /\ Cardinality(CreatingIn(g)) <= Cardinality(CreatingIn(f))
      /\ Cardinality(CreatingIn(g)) \in Nat /\ Cardinality(CreatingIn(f)) \in Nat
      /\ Cardinality(Workers) \in Nat
  BY CreatingFacts, FS_Subset
<1>2. ASSUME NEW t \in Nat
      PROVE  Cardinality(Covering(table, t)) + Cardinality(CreatingIn(g))
               <= Cardinality(Workers)
  <2>1. Cardinality(Covering(table, t)) \in Nat
    BY CoveringFacts
  <2>2. Cardinality(Covering(table, t)) + Cardinality(CreatingIn(f)) <= Cardinality(Workers)
    BY DEF Coverage
  <2> QED
    BY ONLY <1>1, <2>1, <2>2
<1> QED
  BY <1>2 DEF Coverage

\* The bound for an empty table, however many are about to insert.
LEMMA CoverageOfNone ==
    ASSUME NEW f
    PROVE  Coverage(<<>>, f)
<1>1. ASSUME NEW t \in Nat
      PROVE  Cardinality(Covering(<<>>, t)) = 0
  <2>1. Covering(<<>>, t) = {}
    BY DEF Covering
  <2> QED
    BY <2>1, FS_EmptySet
<1>2. Cardinality(CreatingIn(f)) \in Nat /\ Cardinality(Workers) \in Nat
      /\ Cardinality(CreatingIn(f)) <= Cardinality(Workers)
  BY CreatingFacts
<1> HIDE DEF Covering
<1>3. ASSUME NEW t \in Nat
      PROVE  Cardinality(Covering(<<>>, t)) + Cardinality(CreatingIn(f)) <= Cardinality(Workers)
  BY <1>1, <1>2, <1>3
<1> QED
  BY <1>3 DEF Coverage

\* The inductive invariant of the coverage.
CoverInv == Coverage(rows, pc)

\* It holds at the start,
LEMMA CoverInit == Init => CoverInv
<1>1. Init => rows = <<>>
  BY DEF Init
<1> QED
  BY <1>1, CoverageOfNone DEF CoverInv

\* each statement of a rebuild keeps it,
LEMMA CoverRebuild ==
    ASSUME TypeInv, CoverInv, NEW w \in Workers, Rebuild(w)
    PROVE  CoverInv'
<1>0. /\ rows \in Seq(UsageRow) /\ DOMAIN pc = Workers /\ now \in Nat
      /\ BuiltOK(built, now)
  BY SegmentAssumption, TypeParts DEF SegmentAssumption, TypeInv, PcOK, TimesOK
<1>1. CASE RebuildRead(w)
  <2>1. rows' = rows /\ pc' = [pc EXCEPT ![w] = "delete"]
    BY <1>1 DEF RebuildRead
  <2>2. CreatingIn(pc') \subseteq CreatingIn(pc)
    BY <1>0, <2>1 DEF CreatingIn
  <2> QED
    BY <1>0, <2>1, <2>2, CoverageFewer DEF CoverInv
<1>2. CASE RebuildDelete(w)
  <2>1. rows' = <<>>
    BY <1>2 DEF RebuildDelete
  <2> QED
    BY <2>1, CoverageOfNone DEF CoverInv
<1>3. CASE RebuildCreate(w)
  <2>1. /\ rows' = rows \o RowsOf(built[w]) /\ pc[w] = "create"
        /\ pc' = [pc EXCEPT ![w] = After(w)] /\ After(w) # "create"
    BY <1>3 DEF RebuildCreate, After
  <2>2. CreatingIn(pc') = CreatingIn(pc) \ {w} /\ w \in CreatingIn(pc)
    BY <1>0, <2>1 DEF CreatingIn
  <2>3. /\ Cardinality(CreatingIn(pc')) = Cardinality(CreatingIn(pc)) - 1
        /\ Cardinality(CreatingIn(pc)) \in Nat /\ Cardinality(CreatingIn(pc')) \in Nat
        /\ Cardinality(Workers) \in Nat
    BY <2>2, CreatingFacts, FS_RemoveElement
  <2>4. built[w] \in Seq(Segment) /\ Timeline(built[w], now)
    BY <1>0 DEF BuiltOK
  <2>5. ASSUME NEW t \in Nat
        PROVE  Cardinality(Covering(rows', t)) + Cardinality(CreatingIn(pc'))
                 <= Cardinality(Workers)
    <3>1. Cardinality(Covering(rows', t)) <= Cardinality(Covering(rows, t)) + 1
      BY <1>0, <2>1, <2>4, TimelineLater, CoverageAppended
    <3>2. Cardinality(Covering(rows, t)) \in Nat
      BY <1>0, CoveringFacts
    <3>3. rows' \in Seq(UsageRow)
      BY <1>0, <2>1, <2>4, RowsOfType
    <3>4. Cardinality(Covering(rows', t)) \in Nat
      BY <3>3, CoveringFacts
    <3>5. Cardinality(Covering(rows, t)) + Cardinality(CreatingIn(pc))
            <= Cardinality(Workers)
      BY DEF CoverInv, Coverage
    <3> QED
      BY ONLY <2>3, <3>1, <3>2, <3>4, <3>5
  <2> QED
    BY <2>5 DEF CoverInv, Coverage
<1> QED
  BY <1>1, <1>2, <1>3 DEF Rebuild

\* and so does every other step.
LEMMA CoverStep ==
    ASSUME TypeInv, CoverInv, [Next]_vars
    PROVE  CoverInv'
<1>0. /\ rows \in Seq(UsageRow) /\ DOMAIN pc = Workers
      /\ Ender \in Workers /\ Handlers \subseteq Workers
  BY TypeParts, WorkersFacts DEF TypeInv, PcOK
<1>1. CASE rows' = rows /\ CreatingIn(pc') \subseteq CreatingIn(pc)
  BY <1>0, <1>1, CoverageFewer DEF CoverInv
<1>2. CASE UNCHANGED vars
  BY <1>1, <1>2 DEF vars
<1>3. ASSUME NEW h \in Handlers, NEW e \in Gateway, GatewayRecord(h, e[1], e[2])
      PROVE  CoverInv'
  <2>1. rows' = rows /\ pc' = [pc EXCEPT ![h] = "read"]
    BY <1>3 DEF GatewayRecord
  <2> QED
    BY <1>0, <1>1, <2>1 DEF CreatingIn
<1>4. ASSUME NEW e \in Rest, RestRecord(e[1], e[2])
      PROVE  CoverInv'
  BY <1>1, <1>4 DEF RestRecord
<1>5. ASSUME NEW w \in Workers, Fail(w)
      PROVE  CoverInv'
  <2>1. rows' = rows /\ \E s \in {"fallback", "idle"} : pc' = [pc EXCEPT ![w] = s]
    BY <1>5 DEF Fail
  <2> QED
    BY <1>0, <1>1, <2>1 DEF CreatingIn
<1>6. CASE EndClaim
  BY <1>0, <1>1, <1>6 DEF EndClaim, CreatingIn
<1>7. CASE EndPersist
  <2>1. PICK t \in due : rows' = Marked(rows, t)
    BY <1>7 DEF EndPersist
  <2>2. \A u \in Nat : Covering(rows', u) = Covering(rows, u)
    BY <1>0, <2>1, CoverageMarked
  <2>3. Coverage(rows', pc)
    BY <2>2 DEF CoverInv, Coverage
  <2>4. CreatingIn(pc') \subseteq CreatingIn(pc)
    BY <1>0, <1>7 DEF EndPersist, CreatingIn
  <2>5. rows' \in Seq(UsageRow)
    BY <1>0, <2>1, MarkedType
  <2> QED
    BY <2>3, <2>4, <2>5, CoverageFewer DEF CoverInv
<1>8. CASE EndRecord \/ EndFindStart \/ EndAddStart \/ EndBackdate \/ EndTellType
           \/ EndRate \/ EndUsage \/ EndFallback
  <2>1. /\ rows' = rows
        /\ \E s \in {"findStart", "tellType", "addStart", "backdate", "read",
                     "usage", "persist", "done"} : pc' = [pc EXCEPT ![Ender] = s]
    BY <1>8 DEF EndRecord, EndFindStart, EndAddStart, EndBackdate, EndTellType,
                EndRate, EndUsage, EndFallback
  <2> QED
    BY <1>0, <1>1, <2>1 DEF CreatingIn
<1> QED
  BY <1>2, <1>3, <1>4, <1>5, <1>6, <1>7, <1>8, CoverRebuild DEF Next, EndStep

\* THEOREM.  For every number of handlers, and however their rebuilds overlap
\* and fail, no tick is covered by more rows than there are workers
\* (usage-segment.service.ts:254-282).
THEOREM TheCoverageIsBounded == Spec => []CoverageIsBounded
<1>1. TypeInv /\ CoverInv => CoverageIsBounded
  <2>1. ASSUME TypeInv, CoverInv, NEW t \in 0..now
        PROVE  Cardinality(Covering(rows, t)) <= Cardinality(Workers)
    <3>1. t \in Nat /\ rows \in Seq(UsageRow)
      BY <2>1, SegmentAssumption, TypeParts DEF SegmentAssumption, TypeInv, TimesOK
    <3>2. /\ Cardinality(Covering(rows, t)) \in Nat
          /\ Cardinality(CreatingIn(pc)) \in Nat /\ Cardinality(Workers) \in Nat
      BY <3>1, CoveringFacts, CreatingFacts
    <3>3. Cardinality(Covering(rows, t)) + Cardinality(CreatingIn(pc))
            <= Cardinality(Workers)
      BY <2>1, <3>1 DEF CoverInv, Coverage
    <3> QED
      BY ONLY <3>2, <3>3
  <2> QED
    BY <2>1 DEF CoverageIsBounded
<1>2. Spec => []TypeInv
  BY RunningTypes
<1>3. TypeInv /\ CoverInv /\ [Next]_vars => CoverInv'
  BY CoverStep
<1> QED
  BY <1>1, <1>2, <1>3, CoverInit, PTL DEF Spec

-----------------------------------------------------------------------------
\* Rows and segments.

\* The rating depends on nothing but the rating of each segment.
LEMMA RatedCallSame ==
    ASSUME NEW n \in Nat, NEW a, NEW b, DOMAIN a = 1..n, DOMAIN b = 1..n,
           \A i \in 1..n : Rated(a[i]) = Rated(b[i])
    PROVE  RatedCall(a) = RatedCall(b)
<1> DEFINE Of1(g) == g = [s \in SUBSET DOMAIN a |->
                    IF s = {} THEN Nothing ELSE Plus(g[s \ {Max(s)}], Rated(a[Max(s)]))]
           Of2(g) == g = [s \in SUBSET DOMAIN b |->
                    IF s = {} THEN Nothing ELSE Plus(g[s \ {Max(s)}], Rated(b[Max(s)]))]
<1>1. RatedCall(a) = (CHOOSE g : Of1(g))[DOMAIN a]
  BY DEF RatedCall, FoldLeft, MapThenFoldSet
<1>2. RatedCall(b) = (CHOOSE g : Of2(g))[DOMAIN b]
  BY DEF RatedCall, FoldLeft, MapThenFoldSet
<1>3. DOMAIN a = 1..n /\ DOMAIN b = 1..n
  OBVIOUS
<1>4. ASSUME NEW g PROVE Of1(g) <=> Of2(g)
  <2>1. \A s \in SUBSET (1..n) : s # {} => Rated(a[Max(s)]) = Rated(b[Max(s)])
    BY MaxIsIn
  <2>2. [s \in SUBSET (1..n) |->
           IF s = {} THEN Nothing ELSE Plus(g[s \ {Max(s)}], Rated(a[Max(s)]))]
        = [s \in SUBSET (1..n) |->
           IF s = {} THEN Nothing ELSE Plus(g[s \ {Max(s)}], Rated(b[Max(s)]))]
    BY <2>1
  <2> QED
    BY <1>3, <2>2
<1> HIDE DEF Of1, Of2
<1>5. (CHOOSE g : Of1(g)) = (CHOOSE g : Of2(g))
  BY <1>4
<1> QED
  BY <1>1, <1>2, <1>3, <1>5

\* The rows as if none of them was rated.
Plain(table) == [i \in DOMAIN table |-> Row(table[i], FALSE)]

\* Rows of segments are not rated.
LEMMA PlainRows ==
    ASSUME NEW segments \in Seq(Segment)
    PROVE  Plain(RowsOf(segments)) = RowsOf(segments)
<1>1. \A i \in DOMAIN segments :
         Row(Row(segments[i], FALSE), FALSE) = Row(segments[i], FALSE)
  BY DEF Row
<1> QED
  BY <1>1, RowsOfType DEF Plain, RowsOf

\* Rating changes nothing else.
LEMMA PlainMarked ==
    ASSUME NEW table \in Seq(UsageRow), NEW t
    PROVE  Plain(Marked(table, t)) = Plain(table)
<1>1. \A i \in DOMAIN table :
         Row(Marked(table, t)[i], FALSE) = Row(table[i], FALSE)
  BY DEF Row, Marked
<1>2. DOMAIN Marked(table, t) = DOMAIN table
  BY DEF Marked
<1> HIDE DEF Marked
<1> QED
  BY <1>1, <1>2 DEF Plain

\* The rows of segments are rated as the segments.
LEMMA RatedRows ==
    ASSUME NEW table \in Seq(UsageRow), NEW segments \in Seq(Segment),
           Plain(table) = RowsOf(segments)
    PROVE  RatedCall(table) = RatedCall(segments)
<1> DEFINE n == Len(segments)
<1>1. n \in Nat /\ segments \in [1..n -> Segment] /\ DOMAIN RowsOf(segments) = 1..n
  BY RowsOfType
<1>2. DOMAIN Plain(table) = DOMAIN table
  BY DEF Plain
<1>3. Len(table) = n /\ table \in [1..n -> UsageRow]
  <2>1. DOMAIN table = 1..n
    BY <1>1, <1>2
  <2> QED
    BY <1>1, <2>1
<1>4. \A i \in 1..n : Rated(table[i]) = Rated(segments[i])
  <2>1. ASSUME NEW i \in 1..n PROVE Rated(table[i]) = Rated(segments[i])
    <3>1. Plain(table)[i] = Row(table[i], FALSE) /\ RowsOf(segments)[i] = Row(segments[i], FALSE)
      BY <1>1, <1>3 DEF Plain, RowsOf
    <3>2. Row(table[i], FALSE) = Row(segments[i], FALSE)
      BY <3>1
    <3>3. /\ table[i].from = segments[i].from /\ table[i].to = segments[i].to
          /\ table[i].people = segments[i].people
      BY <3>2 DEF Row
    <3> QED
      BY <3>3 DEF Rated
  <2> QED
    BY <2>1
<1>5. DOMAIN table = 1..n /\ DOMAIN segments = 1..n
  BY <1>1, <1>3
<1> HIDE DEF n
<1> QED
  BY <1>1, <1>4, <1>5, RatedCallSame

\* All rows are rated; none is.
AllRated(table) == \A i \in DOMAIN table : table[i].rated
NoneRated(table) == \A i \in DOMAIN table : ~ table[i].rated

-----------------------------------------------------------------------------
\* Undisturbed rebuilds.

\* The end of the call is claimed before endCall does anything.
ClaimInv == endedAt = NoTime => pc[Ender] = "idle"

\* The inductive invariant as long as no two rebuilds overlapped and nothing
\* failed: only one worker is between its read and the end of its rebuild,
\* and for endCall until the rows are rated.
AloneInv == \A v, w \in Workers : Rebuilding(v) /\ Rebuilding(w) => v = w

\* Who inserts finds the table empty; who rebuilds holds what the events say,
\* if none has come since; and when nobody rebuilds, so does the table.
TableInv ==
    /\ \A w \in Workers : pc[w] = "create" => rows = <<>>
    /\ ~unread => \A w \in Workers : pc[w] \in {"delete", "create"} => built[w] = Build(events)
    /\ ~unread /\ (\A w \in Workers : pc[w] \notin {"delete", "create"})
         => Plain(rows) = RowsOf(Build(events))

\* endCall rates the rows of its own segments; while it marks them, the rated
\* ones are those whose times are done; and what it found is the usage.  The
\* table is unrated, or all rated and says what the usage does.
BillInv ==
    /\ pc[Ender] = "rate" => rows = RowsOf(built[Ender])
    /\ pc[Ender] = "persist" =>
         /\ Plain(rows) = RowsOf(built[Ender])
         /\ \A i \in DOMAIN rows : rows[i].rated <=> Times(rows[i]) \notin due
    /\ pc[Ender] \in {"persist", "usage", "done"} => rating = RatedCall(built[Ender])
    /\ pc[Ender] # "fallback"
    /\ usage = IF pc[Ender] = "done" THEN <<[minutes |-> rating, coarse |-> FALSE]>> ELSE <<>>
    /\ pc[Ender] # "persist" =>
         \/ NoneRated(rows)
         \/ /\ AllRated(rows) /\ pc[Ender] \in {"usage", "done"}
            /\ rating = RatedCall(rows)

\* They hold until something disturbs the rebuilds.
QuietParts == AloneInv /\ TableInv /\ BillInv
QuietInv == ~disturbed => QuietParts

\* The empty table.
LEMMA NoRowsPlain ==
    /\ Plain(<<>>) = <<>> /\ RowsOf(<<>>) = <<>> /\ NoneRated(<<>>)
    /\ Build(<<>>) = <<>>
BY DEF Plain, RowsOf, NoneRated, Build

\* What is inserted is not rated.
LEMMA RowsAreNotRated ==
    ASSUME NEW segments \in Seq(Segment)
    PROVE  NoneRated(RowsOf(segments))
<1>1. \A i \in DOMAIN segments : Row(segments[i], FALSE).rated = FALSE
  BY DEF Row
<1> QED
  BY <1>1, RowsOfType DEF NoneRated, RowsOf

\* The stages that the invariant is about.
Busy == {"delete", "create", "rate", "persist", "usage", "done", "fallback"}

\* The steps that have no part in a rebuild or in the rating keep it:
\* they leave the table, and either the events or the claim about them.
LEMMA QuietElsewhere ==
    ASSUME QuietParts,
           \A v \in Workers : pc'[v] = pc[v] \/ (pc[v] \notin Busy /\ pc'[v] \notin Busy),
           rows' = rows, built' = built, rating' = rating, due' = due, usage' = usage,
           unread' = TRUE \/ (unread' = unread /\ events' = events)
    PROVE  QuietParts'
<1>1. Ender \in Workers
  BY WorkersFacts
<1>2. AloneInv'
  BY DEF QuietParts, AloneInv, Rebuilding, Busy
<1>3. TableInv'
  <2>1. \A v \in Workers : /\ pc'[v] = "create" <=> pc[v] = "create"
                           /\ pc'[v] \in {"delete", "create"} <=> pc[v] \in {"delete", "create"}
    BY DEF Busy
  <2> QED
    BY <2>1 DEF QuietParts, TableInv
<1>4. BillInv'
  <2>1. pc'[Ender] = pc[Ender] \/ (pc[Ender] \notin Busy /\ pc'[Ender] \notin Busy)
    BY <1>1
  <2>2. CASE pc'[Ender] = pc[Ender]
    BY <2>2 DEF QuietParts, BillInv
  <2>3. CASE pc[Ender] \notin Busy /\ pc'[Ender] \notin Busy
    BY <2>3 DEF QuietParts, BillInv, Busy
  <2> QED
    BY <2>1, <2>2, <2>3
<1> QED
  BY <1>2, <1>3, <1>4 DEF QuietParts

\* The invariant holds at the start.
LEMMA QuietInit == Init => ClaimInv /\ QuietInv
<1> SUFFICES ASSUME Init PROVE ClaimInv /\ QuietInv
  OBVIOUS
<1>1. /\ \A w \in Workers : pc[w] = "idle"
      /\ rows = <<>> /\ events = <<>> /\ usage = <<>>
  BY DEF Init
<1>2. pc[Ender] = "idle"
  BY <1>1, WorkersFacts
<1>3. AloneInv
  BY <1>1 DEF AloneInv, Rebuilding
<1>4. TableInv
  BY <1>1, NoRowsPlain DEF TableInv
<1>5. BillInv
  BY <1>1, <1>2, NoRowsPlain DEF BillInv
<1> QED
  BY <1>2, <1>3, <1>4, <1>5 DEF ClaimInv, QuietInv, QuietParts

\* Every step keeps the claim.
LEMMA ClaimStep ==
    ASSUME TypeInv, ClaimInv, [Next]_vars
    PROVE  ClaimInv'
<1>0. DOMAIN pc = Workers /\ Ender \in Workers /\ Ender \notin Handlers
  BY TypeParts, WorkersFacts DEF TypeInv, PcOK
<1>1. CASE UNCHANGED <<endedAt, pc>>
  BY <1>1 DEF ClaimInv
<1>2. ASSUME NEW h \in Handlers, NEW e \in Gateway, GatewayRecord(h, e[1], e[2])
      PROVE  ClaimInv'
  BY <1>0, <1>2 DEF GatewayRecord, call, ClaimInv
<1>3. ASSUME NEW w \in Workers, Rebuild(w) \/ Fail(w)
      PROVE  ClaimInv'
  <2>1. /\ endedAt' = endedAt /\ pc[w] # "idle"
        /\ \E s : pc' = [pc EXCEPT ![w] = s]
    BY <1>3 DEF Rebuild, RebuildRead, RebuildDelete, RebuildCreate, Fail, call
  <2> QED
    BY <1>0, <2>1 DEF ClaimInv
<1>4. CASE EndClaim
  <2>1. endedAt' \in Nat
    BY <1>4, SegmentAssumption, TypeParts
    DEF SegmentAssumption, TypeInv, EndClaim, ReadClock, TimesOK
  <2> QED
    BY <2>1 DEF ClaimInv, NoTime
<1>5. CASE EndStep
  <2>1. endedAt' = endedAt /\ pc[Ender] # "idle"
    BY <1>5 DEF EndStep, EndRecord, EndFindStart, EndAddStart, EndBackdate, EndTellType,
                EndRate, EndPersist, EndUsage, EndFallback, call
  <2> QED
    BY <2>1 DEF ClaimInv
<1> QED
  BY <1>1, <1>2, <1>3, <1>4, <1>5 DEF Next, RestRecord, call, vars

\* The statements of an undisturbed rebuild: the read,
LEMMA QuietRead ==
    ASSUME TypeInv, QuietParts, NEW w \in Workers, RebuildRead(w), ~ disturbed'
    PROVE  QuietParts'
<1>0. DOMAIN pc = Workers /\ DOMAIN built = Workers /\ Ender \in Workers
  BY TypeParts, WorkersFacts DEF TypeInv, PcOK, BuiltOK
<1>1. /\ pc[w] = "read" /\ \A v \in Workers : ~ Rebuilding(v)
      /\ built' = [built EXCEPT ![w] = Build(events)]
      /\ pc' = [pc EXCEPT ![w] = "delete"] /\ unread' = FALSE
      /\ UNCHANGED <<events, rows, rating, due, usage>>
  BY DEF RebuildRead
<1>2. AloneInv'
  BY <1>0, <1>1 DEF AloneInv, Rebuilding
<1>3. TableInv'
  BY <1>0, <1>1 DEF TableInv, Rebuilding
<1>4. BillInv'
  <2>1. CASE w = Ender
    <3>1. pc'[Ender] = "delete"
      BY <1>0, <1>1, <2>1
    <3> QED
      BY <1>1, <2>1, <3>1 DEF QuietParts, BillInv
  <2>2. CASE w # Ender
    <3>1. pc'[Ender] = pc[Ender] /\ built'[Ender] = built[Ender]
      BY <1>0, <1>1, <2>2
    <3> QED
      BY <1>1, <3>1 DEF QuietParts, BillInv
  <2> QED
    BY <2>1, <2>2
<1> QED
  BY <1>2, <1>3, <1>4 DEF QuietParts

\* the delete, after which it is through if it built nothing,
LEMMA QuietDelete ==
    ASSUME TypeInv, QuietParts, NEW w \in Workers, RebuildDelete(w)
    PROVE  QuietParts'
<1>0. DOMAIN pc = Workers /\ Ender \in Workers
  BY TypeParts, WorkersFacts DEF TypeInv, PcOK
<1>1. /\ pc[w] = "delete" /\ rows' = <<>>
      /\ pc' = [pc EXCEPT ![w] = IF built[w] = <<>> THEN After(w) ELSE "create"]
      /\ UNCHANGED <<events, built, rating, due, usage, unread>>
  BY DEF RebuildDelete
<1>2. \A v \in Workers : Rebuilding(v) => v = w
  BY <1>1 DEF QuietParts, AloneInv, Rebuilding
<1>3. AloneInv'
  BY <1>0, <1>1, <1>2 DEF AloneInv, Rebuilding
<1>4. \A v \in Workers \ {w} : pc'[v] = pc[v] /\ ~ Rebuilding(v)
  BY <1>0, <1>1, <1>2
<1>5. TableInv'
  <2>1. ~ unread => built[w] = Build(events)
    BY <1>1 DEF QuietParts, TableInv
  <2>2. CASE built[w] = <<>>
    <3>1. pc'[w] \in {"idle", "rate"}
      BY <1>0, <1>1, <2>2 DEF After
    <3>2. \A v \in Workers : pc'[v] \notin {"delete", "create"}
      BY <1>4, <3>1 DEF Rebuilding
    <3> QED
      BY <1>1, <2>1, <2>2, <3>2, NoRowsPlain DEF TableInv
  <2>3. CASE built[w] # <<>>
    <3>1. pc'[w] = "create"
      BY <1>0, <1>1, <2>3
    <3> QED
      BY <1>1, <1>4, <2>1, <3>1 DEF TableInv, Rebuilding
  <2> QED
    BY <2>2, <2>3
<1>6. BillInv'
  <2>1. CASE w = Ender
    <3>1. pc'[Ender] \in {"rate", "create"} /\ (pc'[Ender] = "rate" => built[Ender] = <<>>)
      BY <1>0, <1>1, <2>1 DEF After
    <3>2. usage = <<>>
      BY <1>1, <2>1 DEF QuietParts, BillInv
    <3> QED
      BY <1>1, <3>1, <3>2, NoRowsPlain DEF BillInv
  <2>2. CASE w # Ender
    <3>1. pc'[Ender] = pc[Ender] /\ pc[Ender] \notin {"rate", "persist"}
      BY <1>0, <1>4, <2>2 DEF Rebuilding
    <3> QED
      BY <1>1, <3>1, NoRowsPlain DEF QuietParts, BillInv
  <2> QED
    BY <2>1, <2>2
<1> QED
  BY <1>3, <1>5, <1>6 DEF QuietParts

\* and the insert, into an empty table.
LEMMA QuietCreate ==
    ASSUME TypeInv, QuietParts, NEW w \in Workers, RebuildCreate(w)
    PROVE  QuietParts'
<1>0. /\ DOMAIN pc = Workers /\ Ender \in Workers /\ built[w] \in Seq(Segment)
      /\ DOMAIN built = Workers
  BY TypeParts, WorkersFacts DEF TypeInv, PcOK, BuiltOK
<1>1. /\ pc[w] = "create" /\ rows' = rows \o RowsOf(built[w])
      /\ built' = IF w = Ender THEN built ELSE [built EXCEPT ![w] = <<>>]
      /\ pc' = [pc EXCEPT ![w] = After(w)]
      /\ UNCHANGED <<events, rating, due, usage, unread>>
  BY DEF RebuildCreate
<1>2. rows' = RowsOf(built[w])
  <2>1. rows = <<>>
    BY <1>1 DEF QuietParts, TableInv
  <2>2. RowsOf(built[w]) \in Seq(UsageRow)
    BY <1>0, RowsOfType
  <2> QED
    BY <1>1, <2>1, <2>2
<1>3. \A v \in Workers : Rebuilding(v) => v = w
  BY <1>1 DEF QuietParts, AloneInv, Rebuilding
<1>4. AloneInv'
  BY <1>0, <1>1, <1>3 DEF AloneInv, Rebuilding
<1>5. \A v \in Workers \ {w} : pc'[v] = pc[v] /\ ~ Rebuilding(v)
  BY <1>0, <1>1, <1>3
<1>6. pc'[w] = After(w) /\ After(w) \in {"idle", "rate"}
  BY <1>0, <1>1 DEF After
<1>7. TableInv'
  <2>1. ~ unread => built[w] = Build(events)
    BY <1>1 DEF QuietParts, TableInv
  <2>2. \A v \in Workers : pc'[v] \notin {"delete", "create"}
    BY <1>5, <1>6 DEF Rebuilding
  <2>3. Plain(rows') = RowsOf(built[w])
    BY <1>0, <1>2, PlainRows
  <2> QED
    BY <1>1, <2>1, <2>2, <2>3 DEF TableInv
<1>8. NoneRated(rows')
  BY <1>0, <1>2, RowsAreNotRated
<1>9. BillInv'
  <2>1. CASE w = Ender
    <3>1. pc'[Ender] = "rate" /\ built' = built
      BY <1>1, <1>6, <2>1 DEF After
    <3>2. usage = <<>>
      BY <1>1, <2>1 DEF QuietParts, BillInv
    <3> QED
      BY <1>1, <1>2, <1>8, <2>1, <3>1, <3>2 DEF BillInv
  <2>2. CASE w # Ender
    <3>1. pc'[Ender] = pc[Ender] /\ pc[Ender] \notin {"rate", "persist"}
          /\ built'[Ender] = built[Ender]
      BY <1>0, <1>1, <1>5, <2>2 DEF Rebuilding
    <3> QED
      BY <1>1, <1>8, <3>1 DEF QuietParts, BillInv
  <2> QED
    BY <2>1, <2>2
<1> QED
  BY <1>4, <1>7, <1>9 DEF QuietParts

\* The columns of a row.
LEMMA RowTimes ==
    ASSUME NEW s, NEW done
    PROVE  Row(s, done).from = s.from /\ Row(s, done).to = s.to
BY DEF Row

\* The mark of a row.
LEMMA RowIsRated ==
    ASSUME NEW s, NEW done
    PROVE  Row(s, done).rated = done
BY DEF Row

\* While endCall rates, nobody rebuilds.
LEMMA OnlyTheEnderMoves ==
    ASSUME TypeInv, QuietParts, pc[Ender] \in {"rate", "persist"},
           NEW s \in {"persist", "usage"}, pc' = [pc EXCEPT ![Ender] = s],
           Plain(rows') = Plain(rows), built' = built, unread' = unread, events' = events
    PROVE  AloneInv' /\ TableInv'
<1>0. DOMAIN pc = Workers /\ Ender \in Workers
  BY TypeParts, WorkersFacts DEF TypeInv, PcOK
<1>1. \A v \in Workers : Rebuilding(v) => v = Ender
  BY <1>0 DEF QuietParts, AloneInv, Rebuilding
<1>2. \A v \in Workers : pc[v] \notin {"delete", "create"} /\ pc'[v] \notin {"delete", "create"}
  BY <1>0, <1>1 DEF Rebuilding
<1>3. AloneInv'
  BY <1>0, <1>1 DEF AloneInv, Rebuilding
<1>4. TableInv'
  BY <1>2 DEF QuietParts, TableInv
<1> QED
  BY <1>3, <1>4

\* endCall rates the rows of its own segments,
LEMMA QuietRate ==
    ASSUME TypeInv, QuietParts, EndRate
    PROVE  QuietParts'
<1>0. /\ DOMAIN pc = Workers /\ Ender \in Workers /\ built[Ender] \in Seq(Segment)
      /\ rows \in Seq(UsageRow)
  BY TypeParts, WorkersFacts DEF TypeInv, PcOK, BuiltOK
<1>1. /\ pc[Ender] = "rate" /\ rating' = RatedCall(rows)
      /\ due' = {Times(r) : r \in Range(rows)}
      /\ pc' = [pc EXCEPT ![Ender] = IF rows = <<>> THEN "usage" ELSE "persist"]
      /\ UNCHANGED <<events, rows, built, usage, unread>>
  BY DEF EndRate
<1>2. PICK s \in {"persist", "usage"} : pc' = [pc EXCEPT ![Ender] = s]
  BY <1>1
<1>3. AloneInv' /\ TableInv'
  BY <1>1, <1>2, OnlyTheEnderMoves
<1>4. rows = RowsOf(built[Ender]) /\ usage = <<>>
  BY <1>1 DEF QuietParts, BillInv
<1>5. Plain(rows) = RowsOf(built[Ender]) /\ NoneRated(rows)
  BY <1>0, <1>4, PlainRows, RowsAreNotRated
<1>6. rating' = RatedCall(built[Ender])
  BY <1>0, <1>1, <1>5, RatedRows
<1>7. \A i \in DOMAIN rows : Times(rows[i]) \in due'
  BY <1>0, <1>1 DEF Range
<1>8. BillInv'
  <2>1. CASE rows = <<>>
    <3>1. pc'[Ender] = "usage"
      BY <1>0, <1>1, <2>1
    <3> QED
      BY <1>1, <1>4, <1>5, <1>6, <3>1 DEF BillInv
  <2>2. CASE rows # <<>>
    <3>1. pc'[Ender] = "persist"
      BY <1>0, <1>1, <2>2
    <3>2. \A i \in DOMAIN rows' : rows'[i].rated <=> Times(rows'[i]) \notin due'
      BY <1>1, <1>5, <1>7 DEF NoneRated
    <3> QED
      BY <1>1, <1>4, <1>5, <1>6, <3>1, <3>2 DEF BillInv
  <2> QED
    BY <2>1, <2>2
<1> QED
  BY <1>3, <1>8 DEF QuietParts

\* marks all rows of one time after another,
LEMMA QuietPersist ==
    ASSUME TypeInv, QuietParts, EndPersist
    PROVE  QuietParts'
<1>0. /\ DOMAIN pc = Workers /\ Ender \in Workers /\ built[Ender] \in Seq(Segment)
      /\ rows \in Seq(UsageRow)
  BY TypeParts, WorkersFacts DEF TypeInv, PcOK, BuiltOK
<1>1. /\ pc[Ender] = "persist"
      /\ pc' = IF due' = {} THEN [pc EXCEPT ![Ender] = "usage"] ELSE pc
      /\ UNCHANGED <<events, built, rating, usage, unread>>
  BY DEF EndPersist
<1>2. PICK t \in due : rows' = Marked(rows, t) /\ due' = due \ {t}
  BY DEF EndPersist
<1>3. Plain(rows') = Plain(rows) /\ rows' \in Seq(UsageRow) /\ DOMAIN rows' = DOMAIN rows
  BY <1>0, <1>2, PlainMarked, MarkedType
<1>4. PICK s \in {"persist", "usage"} :
         pc' = [pc EXCEPT ![Ender] = s] /\ (s = "usage" <=> due' = {})
  <2>1. pc = [pc EXCEPT ![Ender] = "persist"]
    BY <1>0, <1>1, TypeParts DEF TypeInv, PcOK
  <2> QED
    BY <1>1, <2>1
<1>5. AloneInv' /\ TableInv'
  BY <1>1, <1>3, <1>4, OnlyTheEnderMoves
<1>6. /\ Plain(rows') = RowsOf(built[Ender]) /\ rating = RatedCall(built[Ender])
      /\ usage = <<>>
      /\ \A i \in DOMAIN rows : rows[i].rated <=> Times(rows[i]) \notin due
  BY <1>1, <1>3 DEF QuietParts, BillInv
<1>7. \A i \in DOMAIN rows' : rows'[i].rated <=> Times(rows'[i]) \notin due'
  <2>1. ASSUME NEW i \in DOMAIN rows
        PROVE  rows'[i].rated <=> Times(rows'[i]) \notin due'
    <3>1. rows'[i] = Row(rows[i], rows[i].rated \/ Times(rows[i]) = t)
      BY <1>2 DEF Marked
    <3>2. rows'[i].rated = (rows[i].rated \/ Times(rows[i]) = t)
      BY <3>1, RowIsRated, Zenon
    <3>4. Times(rows'[i]) = Times(rows[i])
      BY <3>1, RowTimes DEF Times
    <3>3. rows[i].rated <=> Times(rows[i]) \notin due
      BY <1>6
    <3> QED
      BY <1>2, <3>2, <3>3, <3>4
  <2> QED
    BY <1>3, <2>1
<1>8. rating = RatedCall(rows')
  BY <1>0, <1>3, <1>6, RatedRows
<1>9. BillInv'
  <2>1. CASE s = "usage"
    <3>1. pc'[Ender] = "usage" /\ due' = {}
      BY <1>0, <1>4, <2>1
    <3>2. AllRated(rows')
      BY <1>7, <3>1 DEF AllRated
    <3> QED
      BY <1>1, <1>6, <1>8, <3>1, <3>2 DEF BillInv
  <2>2. CASE s = "persist"
    <3>1. pc'[Ender] = "persist"
      BY <1>0, <1>4, <2>2
    <3> QED
      BY <1>1, <1>6, <1>7, <3>1 DEF BillInv
  <2> QED
    BY <2>1, <2>2
<1> QED
  BY <1>5, <1>9 DEF QuietParts

\* and records what it found.
LEMMA QuietUsage ==
    ASSUME TypeInv, QuietParts, EndUsage
    PROVE  QuietParts'
<1>0. DOMAIN pc = Workers /\ Ender \in Workers
  BY TypeParts, WorkersFacts DEF TypeInv, PcOK
<1>1. /\ pc[Ender] = "usage" /\ pc' = [pc EXCEPT ![Ender] = "done"]
      /\ usage' = Append(usage, [minutes |-> rating, coarse |-> FALSE])
      /\ UNCHANGED <<events, rows, built, rating, due, unread>>
  BY DEF EndUsage
<1>2. AloneInv'
  BY <1>0, <1>1 DEF QuietParts, AloneInv, Rebuilding
<1>3. TableInv'
  <2>1. \A v \in Workers : /\ pc'[v] = "create" <=> pc[v] = "create"
                           /\ pc'[v] \in {"delete", "create"} <=> pc[v] \in {"delete", "create"}
    BY <1>0, <1>1
  <2> QED
    BY <1>1, <2>1 DEF QuietParts, TableInv
<1>4. BillInv'
  <2>1. usage = <<>>
    BY <1>1 DEF QuietParts, BillInv
  <2>2. pc'[Ender] = "done" /\ usage' = <<[minutes |-> rating, coarse |-> FALSE]>>
    BY <1>0, <1>1, <2>1
  <2> QED
    BY <1>1, <2>2 DEF QuietParts, BillInv
<1> QED
  BY <1>2, <1>3, <1>4 DEF QuietParts

\* Every step keeps the invariant.
LEMMA QuietStep ==
    ASSUME TypeInv, ClaimInv, QuietInv, [Next]_vars
    PROVE  QuietInv'
<1> SUFFICES ASSUME ~ disturbed' PROVE QuietParts'
  BY DEF QuietInv
<1>0. /\ DOMAIN pc = Workers /\ Ender \in Workers /\ Handlers \subseteq Workers
      /\ disturbed \in BOOLEAN
  BY TypeParts, WorkersFacts DEF TypeInv, PcOK
<1>1. CASE UNCHANGED vars
  <2>1. QuietParts
    BY <1>1 DEF vars, QuietInv
  <2> QED
    BY <1>1, <2>1, QuietElsewhere DEF vars
<1>2. ASSUME NEW h \in Handlers, NEW e \in Gateway, GatewayRecord(h, e[1], e[2])
      PROVE  QuietParts'
  <2>1. /\ pc[h] = "idle" /\ pc' = [pc EXCEPT ![h] = "read"] /\ unread' = TRUE
        /\ UNCHANGED <<rows, built, rating, due, usage, disturbed>>
    BY <1>2 DEF GatewayRecord
  <2>2. \A v \in Workers : pc'[v] = pc[v] \/ (pc[v] \notin Busy /\ pc'[v] \notin Busy)
    BY <1>0, <2>1 DEF Busy
  <2> QED
    BY <2>1, <2>2, QuietElsewhere DEF QuietInv
<1>3. ASSUME NEW e \in Rest, RestRecord(e[1], e[2])
      PROVE  QuietParts'
  BY <1>3, QuietElsewhere DEF RestRecord, QuietInv
<1>4. ASSUME NEW w \in Workers, Rebuild(w)
      PROVE  QuietParts'
  <2>1. QuietParts
    BY <1>0, <1>4 DEF Rebuild, RebuildRead, RebuildDelete, RebuildCreate, QuietInv
  <2> QED
    BY <1>4, <2>1, QuietRead, QuietDelete, QuietCreate DEF Rebuild
<1>5. ASSUME NEW w \in Workers, Fail(w)
      PROVE  QuietParts'
  BY <1>5 DEF Fail
<1>6. CASE EndClaim \/ EndRecord \/ EndFindStart \/ EndAddStart \/ EndBackdate
           \/ EndTellType
  <2>1. /\ pc[Ender] \notin Busy
        /\ \E s : s \notin Busy /\ pc' = [pc EXCEPT ![Ender] = s]
        /\ UNCHANGED <<rows, built, rating, due, usage, disturbed>>
        /\ unread' = TRUE \/ (unread' = unread /\ events' = events)
    BY <1>6 DEF EndClaim, EndRecord, EndFindStart, EndAddStart, EndBackdate,
                EndTellType, Busy, ClaimInv
  <2>2. \A v \in Workers : pc'[v] = pc[v] \/ (pc[v] \notin Busy /\ pc'[v] \notin Busy)
    BY <1>0, <2>1
  <2> QED
    BY <2>1, <2>2, QuietElsewhere DEF QuietInv
<1>7. CASE EndRate
  BY <1>7, QuietRate DEF EndRate, QuietInv
<1>8. CASE EndPersist
  BY <1>8, QuietPersist DEF EndPersist, QuietInv
<1>9. CASE EndUsage
  BY <1>9, QuietUsage DEF EndUsage, QuietInv
<1>10. CASE EndFallback
  BY <1>10 DEF EndFallback, QuietInv, QuietParts, BillInv
<1> QED
  BY <1>1, <1>2, <1>3, <1>4, <1>5, <1>6, <1>7, <1>8, <1>9, <1>10 DEF Next, EndStep

\* It holds in every behaviour.
LEMMA QuietAlways == Spec => [](TypeInv /\ ClaimInv /\ QuietInv)
BY TypeInit, QuietInit, TypeStep, ClaimStep, QuietStep, PTL DEF Spec

\* THEOREM.  As long as no rebuilds overlap and none fails, the table holds the
\* segments of the events, each once, whenever the last rebuild is through
\* (usage-segment.service.ts:254-282), for every number of handlers and events.
THEOREM TheRowsFollowTheEvents == Spec => []RowsFollowTheEvents
<1>1. QuietInv => RowsFollowTheEvents
  BY DEF QuietInv, QuietParts, TableInv, RowsFollowTheEvents, Plain
<1> QED
  BY <1>1, QuietAlways, PTL

\* THEOREM.  The usage of such a call is the rating of the segments that endCall
\* built, although it rates the rows that it reads back
\* (call.service.ts:455-474).
THEOREM TheBillIsTheTimeline == Spec => []BillIsTheTimeline
<1>1. QuietInv => BillIsTheTimeline
  BY DEF QuietInv, QuietParts, BillInv, BillIsTheTimeline
<1> QED
  BY <1>1, QuietAlways, PTL

\* THEOREM.  At the end of such a call its rows are either all unrated, rebuilt
\* after the call, or all rated, and then add up to its usage
\* (rating-engine.service.ts:178-196).
THEOREM TheRatedRowsBackTheBill == Spec => []RatedRowsBackTheBill
<1>1. QuietInv => RatedRowsBackTheBill
  <2> SUFFICES ASSUME QuietInv, ~ disturbed, rows # <<>>, pc[Ender] = "done"
               PROVE  \/ \A r \in Range(rows) : ~ r.rated
                      \/ /\ \A r \in Range(rows) : r.rated
                         /\ usage[1].minutes = RatedCall(rows)
    BY DEF RatedRowsBackTheBill
  <2>1. /\ usage = <<[minutes |-> rating, coarse |-> FALSE]>>
        /\ \/ NoneRated(rows)
           \/ AllRated(rows) /\ rating = RatedCall(rows)
    BY DEF QuietInv, QuietParts, BillInv
  <2>2. usage[1].minutes = rating
    BY <2>1
  <2>3. CASE NoneRated(rows)
    BY <2>3 DEF NoneRated, Range
  <2>4. CASE AllRated(rows) /\ rating = RatedCall(rows)
    BY <2>2, <2>4 DEF AllRated, Range
  <2> QED
    BY <2>1, <2>3, <2>4
<1> QED
  BY <1>1, QuietAlways, PTL
=============================================================================
