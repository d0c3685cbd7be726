\* Two unicast clients, one over TCP and one over UDP, and one frame of two packets;
\* two places, so that sends and removals are turned away; packet_seq wraps.
CONSTANTS
  c1 = c1
  c2 = c2
  Conns = {c1, c2}
  Family <- MCFamily
  Mode <- MCMode
  NumPackets = 2
  LastPackets = {2}
  KeyPackets = {1}
  SeqModulus = 4
  FirstSeqs = {3}
  MayMulticast = FALSE
  Capacity = 2
  WriteLimit = 1
  NoEvent = NoEvent
  None = None
SPECIFICATION Spec
INVARIANTS NoExpiredClient StreamUnbroken
\* Clients and frames may stay away.
CHECK_DEADLOCK FALSE
