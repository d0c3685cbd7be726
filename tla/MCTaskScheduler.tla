-------------------------- MODULE MCTaskScheduler --------------------------
(* Three threads, four calls of AddTriggerEvent: one poster calls twice, so  *)
(* that a call may follow one that was overtaken, and the ring wraps.        *)
EXTENDS TaskScheduler

CONSTANTS p1, p2, sched

MCMaxPosts == [t \in Threads |-> IF t = p1 THEN 2 ELSE 1]

=============================================================================
