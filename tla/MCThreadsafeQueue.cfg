\* Two producers and two consumers (so that notify_one has a choice), a limit of
\* 2 as in rtsp_output.cpp, and four frames: the queue overflows.  0 and 7 stand
\* for the values that an uninitialised m_dropped_count may have.
CONSTANTS
  Producers = {video, audio}
  Consumers = {c1, c2}
  Frames = {f1, f2, f3, f4}
  SizeLimit = 2
  InitialCounts = {0, 7}
  NoFrame = NoFrame
SPECIFICATION QueueSpec
INVARIANTS KeepsNewest
PROPERTIES QueuedFramesLeave ConsumersLeave
\* Consumers may wait for frames for ever, and may all have left.
CHECK_DEADLOCK FALSE
