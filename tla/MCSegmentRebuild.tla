------------------------- MODULE MCSegmentRebuild -------------------------
(* Instances of SegmentRebuild for TLC. *)
EXTENDS SegmentRebuild

\* The caller starts the call by the socket; the receiver joins by the socket
\* and leaves by the REST endpoint, with the socket still in the room.
BySocket ==
    {<<"CALL_STARTED", Caller>>} \cup
    {"PARTICIPANT_JOINED", "CAMERA_DISABLED", "MIC_ENABLED"} \X {Receiver}
ByRest == {<<"PARTICIPANT_LEFT", Receiver>>}
=============================================================================
