\* Two starts, two places in the queue as in rtsp_output.cpp, and three frames for
\* each start, so that the queue can overflow while the push thread is late.
CONSTANTS
  Frames = {f1, f2, f3}
  SizeLimit = 2
  NoFrame = NoFrame
  MaxStarts = 2
SPECIFICATION Spec
INVARIANTS ReadyWhenActive PusherNotOrphaned QueueDrained NothingLeftBehind OnlyLateStopSticks
PROPERTIES CallsComplete
\* An output may stay off, or run for ever without another packet.
CHECK_DEADLOCK FALSE
