\* Eleven kinds of messages, three of them one after another, cut anywhere.
CONSTANTS
  Messages <- MCMessages
  MaxMessages = 3
  MaxPieces = 12
SPECIFICATION RequestSpec
INVARIANTS
  RepliesMatch
  AnsweredUnlessTorn
CHECK_DEADLOCK FALSE
