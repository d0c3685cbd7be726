\* Two channels, a unicast and a multicast session in each other's place, and a password.
CONSTANTS
  MaxChannels = 2
  Sessions = {unicast, multicast}
  Suffix <- MCSuffix
  Multicast = {multicast}
  AuthRequired = TRUE
  MaxNonces = 2
  MaxFd = 5
  MaxOthers = 1
  None = None
SPECIFICATION Spec
INVARIANTS
  MediaOnlyAuthorised
  StreamsAsAgreed
  StrayCloseOnlyIf
  NothingLeft
CHECK_DEADLOCK FALSE
