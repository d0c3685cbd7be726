\* Two posting threads and a scheduler thread that posts too, over a ring of
\* two places: the ring wraps, fills and overflows, and the pipe fills.
CONSTANTS
  p1 = p1
  p2 = p2
  sched = sched
  Posters = {p1, p2}
  SchedulerThread = sched
  Capacity = 2
  PipeCapacity = 2
  WakeChunk = 1
  MaxPosts <- MCMaxPosts
  NoThread = NoThread
  NoEvent = NoEvent
SPECIFICATION Spec
INVARIANTS NoSlotClash NoLostWakeup NoLostStop
PROPERTIES OnlyRacedLost QueuedEventsRun StopEndsLoop ImplementsFifo
\* The scheduler may wait in HandleEvent for ever, and Start may have returned.
CHECK_DEADLOCK FALSE
