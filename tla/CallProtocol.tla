--------------------------- MODULE CallProtocol ---------------------------
(***************************************************************************)
(* What the call service promises for each call, with every operation a    *)
(* single step: a call is placed once, its ringing phase has one outcome,  *)
(* it ends once, and only an ended call is billed, once.                   *)
(***************************************************************************)
EXTENDS Naturals

CONSTANT Calls

VARIABLES
    phase,   \* where each call is in its life
    bills    \* how many usage records each call has

Init ==
    /\ phase \in [Calls -> {"NONE", "RINGING"}]
    /\ bills = [c \in Calls |-> 0]

Move(c, from, to) ==
    /\ phase[c] \in from
    /\ phase' = [phase EXCEPT ![c] = to]
    /\ UNCHANGED bills

Place(c) == Move(c, {"NONE"}, "RINGING")
RefuseBusy(c) == Move(c, {"NONE"}, "BUSY")
Answer(c) == Move(c, {"RINGING"}, "ACCEPTED")
GoUnanswered(c) ==
    \E outcome \in {"REJECTED", "CANCELLED", "MISSED"} : Move(c, {"RINGING"}, outcome)
End(c) ==
    Move(c, {"RINGING", "ACCEPTED", "REJECTED", "CANCELLED", "MISSED"}, "ENDED")

Bill(c) ==
    /\ phase[c] = "ENDED"
    /\ bills[c] = 0
    /\ bills' = [bills EXCEPT ![c] = 1]
    /\ UNCHANGED phase

Next ==
    \E c \in Calls :
        \/ Place(c) \/ RefuseBusy(c)
        \/ Answer(c) \/ GoUnanswered(c)
        \/ End(c) \/ Bill(c)

Spec == Init /\ [][Next]_<<phase, bills>>
=============================================================================
