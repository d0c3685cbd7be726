\* Up to three units of 2 to 24 bytes in packets of 13: aggregated, alone, in two and
\* in three fragments; start codes of three and of four bytes.
CONSTANTS
  MaxPayload = 13
  Frames <- MCFrames
SPECIFICATION Spec
INVARIANTS WholeFrame NeverGarbled PacketsFit
\* HandleFrame returns.
CHECK_DEADLOCK FALSE
