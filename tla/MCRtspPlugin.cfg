\* Two audio tracks and three captures: more tracks, fewer, and again.
CONSTANTS
  Tracks = {1, 2}
  MaxStarts = 3
SPECIFICATION Spec
INVARIANTS
  DialogInStep
  AudioAsConfigured
  AuthAsShown
CHECK_DEADLOCK FALSE
