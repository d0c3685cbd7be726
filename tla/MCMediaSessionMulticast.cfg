\* A multicast session with one client and three packets in two frames: its groups are
\* sent to until it is removed.
CONSTANTS
  c1 = c1
  c2 = c2
  Conns = {c1}
  Family <- MCFamily1
  Mode <- MCMode1
  NumPackets = 3
  LastPackets = {1, 3}
  KeyPackets = {1}
  SeqModulus = 4
  FirstSeqs = {3}
  MayMulticast = TRUE
  Capacity = 2
  WriteLimit = 1
  NoEvent = NoEvent
  None = None
SPECIFICATION Spec
INVARIANTS StraySendOnlyToGroups
PROPERTIES ClosedGoes
\* Clients and frames may stay away.
CHECK_DEADLOCK FALSE
