SPECIFICATION Spec
CONSTANTS
  Handlers = {h1}
  Caller = caller
  Receiver = receiver
  Gateway <- BySocket
  Rest <- ByRest
  Minute = 2
  MaxTime = 2
  MaxEvents = 3
  MaxFaults = 1
INVARIANTS TimelineIsTold CoverageIsBounded RowsFollowTheEvents  
CHECK_DEADLOCK FALSE
