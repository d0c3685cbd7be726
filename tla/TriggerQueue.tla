---------------------------- MODULE TriggerQueue ----------------------------
(***************************************************************************)
(* What TaskScheduler::AddTriggerEvent and HandleTriggerEvent promise      *)
(* between them: the events that callers post run in the order in which    *)
(* they entered a FIFO of Capacity places, each at most once, and an event *)
(* is turned away only while every place is taken.                         *)
(*                                                                         *)
(* A place is given back (Release) some time after its event was taken out *)
(* of the FIFO (Take): until then the place still counts as taken.         *)
(***************************************************************************)
EXTENDS Naturals, Sequences

CONSTANTS
  Events,        \* every callback that is ever posted
  Capacity,      \* places of the FIFO
  NoEvent        \* "no callback is running"

VARIABLES
  queue,         \* the posted events that have not been taken, oldest first
  running,       \* the event that was taken last and has not returned
  releasing,     \* TRUE while the place of the last event taken is not free yet
  fate           \* what became of each event

vars == <<queue, running, releasing, fate>>

PlacesTaken == Len(queue) + (IF releasing THEN 1 ELSE 0)

Init ==
  /\ queue = <<>>
  /\ running = NoEvent
  /\ releasing = FALSE
  /\ fate = [e \in Events |-> "new"]

Post(e) ==
  /\ fate[e] = "new"
  /\ PlacesTaken < Capacity
  /\ queue' = Append(queue, e)
  /\ fate' = [fate EXCEPT ![e] = "queued"]
  /\ UNCHANGED <<running, releasing>>

\* The caller is told FALSE ("refused") or TRUE ("lost"): see TaskScheduler.
TurnAway(e) ==
  /\ fate[e] = "new"
  /\ PlacesTaken = Capacity
  /\ \E f \in {"refused", "lost"} : fate' = [fate EXCEPT ![e] = f]
  /\ UNCHANGED <<queue, running, releasing>>

Take ==
  /\ running = NoEvent
  /\ queue # <<>>
  /\ running' = Head(queue)
  /\ queue' = Tail(queue)
  /\ releasing' = TRUE
  /\ UNCHANGED fate

Release ==
  /\ releasing
  /\ releasing' = FALSE
  /\ UNCHANGED <<queue, running, fate>>

Finish ==
  /\ running # NoEvent
  /\ ~releasing
  /\ fate' = [fate EXCEPT ![running] = "ran"]
  /\ running' = NoEvent
  /\ UNCHANGED <<queue, releasing>>

Next ==
  \/ \E e \in Events : Post(e) \/ TurnAway(e)
  \/ Take
  \/ Release
  \/ Finish

Spec == Init /\ [][Next]_vars

=============================================================================
