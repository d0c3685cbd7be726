\* Two connections, so that one can be accepted after Stop's loop has seen the
\* other; one packet and two places, so that events are turned away.
CONSTANTS
  Conns = {c1, c2}
  Sends = {s1}
  Capacity = 2
  QueueLength = 1
  MaxRequests = 1
  NoEvent = NoEvent
  NoConn = NoConn
SPECIFICATION Spec
INVARIANTS NoCircularWait NoneForgotten NothingStranded WaitsOnlyForMissed StrayCloseOnlyWhenLate
PROPERTIES StopTerminates
\* The server may wait for clients for ever.
CHECK_DEADLOCK FALSE
