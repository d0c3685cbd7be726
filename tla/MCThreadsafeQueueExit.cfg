\* The queue of MCThreadsafeQueue.cfg against what threadsafe_queue.h says of its exit state.
CONSTANTS
  Producers = {video, audio}
  Consumers = {c1, c2}
  Frames = {f1, f2, f3, f4}
  SizeLimit = 2
  InitialCounts = {0, 7}
  NoFrame = NoFrame
SPECIFICATION QueueSpec
PROPERTIES EnqueueIgnoredInExit
\* Consumers may wait for frames for ever, and may all have left.
CHECK_DEADLOCK FALSE
