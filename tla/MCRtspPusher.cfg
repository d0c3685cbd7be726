\* Two channels, any of which has a source; two connections one after the other.
CONSTANTS
  MaxChannelCount = 2
  MaxOpens = 2
  MaxAnswers = 4
SPECIFICATION Spec
INVARIANTS
  InStep
PROPERTIES
  GivenUpGoes
CHECK_DEADLOCK FALSE
