SPECIFICATION FairSpec
CONSTANTS
  Calls = {c1}
  Sockets = {s1, s2}
  NoSocket = NoSocket
  NoToken = NoToken
  Decided = {"MISSED"}
  Relays = {"offer"}
  Devices = {"camera"}
  Watched = {"call-missed"}
  Logged = {"PARTICIPANT_JOINED"}
  MaxFaults = 1
  MaxCrashes = 1
INVARIANTS TypeOK SeatIsExclusive 
PROPERTIES  JoinIsRecorded
CHECK_DEADLOCK FALSE
