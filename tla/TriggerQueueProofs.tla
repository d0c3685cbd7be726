-------------------------- MODULE TriggerQueueProofs --------------------------
(***************************************************************************)
(* What every user of TriggerQueue may rely on: an event is in the FIFO or *)
(* runs exactly while its fate is "queued", in one place only, and events  *)
(* never overtake each other.  The lemmas are about one step, so that the  *)
(* proofs about the modules that are built on TriggerQueue cite them.      *)
(***************************************************************************)
EXTENDS TriggerQueue, TLAPS, SequenceTheorems

Fates == {"new", "queued", "ran", "refused", "lost"}

TypeOK ==
  /\ queue \in Seq(Events) /\ running \in Events \cup {NoEvent}
  /\ releasing \in BOOLEAN
  /\ fate \in [Events -> Fates]

\* The event is in the FIFO.
Waiting(e) == \E i \in 1..Len(queue) : queue[i] = e

\* The events whose fate is "queued" are those of the FIFO and the one that runs,
\* each in one place.
FifoInv ==
  /\ \A e \in Events : fate[e] = "queued" <=> running = e \/ Waiting(e)
  /\ running # NoEvent => ~Waiting(running)
  /\ \A i, j \in 1..Len(queue) : queue[i] = queue[j] => i = j

\* e runs, or will run, before f.
Before(e, f) == \/ running = e
                \/ \E i, j \in 1..Len(queue) : i < j /\ queue[i] = e /\ queue[j] = f

LEMMA FifoPost ==
  ASSUME NoEvent \notin Events, TypeOK, FifoInv, NEW e \in Events, Post(e)
  PROVE  TypeOK' /\ FifoInv'
<1>1. /\ fate[e] = "new" /\ queue' = Append(queue, e) /\ fate' = [fate EXCEPT ![e] = "queued"]
      /\ UNCHANGED <<running, releasing>>
  BY DEF Post
<1>2. /\ queue' \in Seq(Events) /\ Len(queue') = Len(queue) + 1 /\ Len(queue) \in Nat
      /\ queue'[Len(queue) + 1] = e /\ \A i \in 1..Len(queue) : queue'[i] = queue[i]
  BY <1>1, AppendProperties, LenProperties DEF TypeOK
<1>3. \A f \in Events : fate'[f] = IF f = e THEN "queued" ELSE fate[f]
  BY <1>1 DEF TypeOK
<1>4. ~Waiting(e) /\ running # e
  BY <1>1 DEF FifoInv
<1>5. \A f : Waiting(f)' <=> f = e \/ Waiting(f)
  BY <1>2 DEF Waiting
<1>6. TypeOK'
  BY <1>1, <1>2 DEF TypeOK, Fates
<1>7. \A f \in Events : fate'[f] = "queued" <=> running' = f \/ Waiting(f)'
  BY <1>1, <1>3, <1>5 DEF FifoInv
<1>8. running' # NoEvent => ~Waiting(running)'
  BY <1>1, <1>4, <1>5 DEF FifoInv, Waiting
<1>9. \A i, j \in 1..Len(queue') : queue'[i] = queue'[j] => i = j
  BY <1>2, <1>4 DEF FifoInv, Waiting
<1> QED
  BY <1>6, <1>7, <1>8, <1>9 DEF FifoInv

LEMMA FifoTake ==
  ASSUME NoEvent \notin Events, TypeOK, FifoInv, Take
  PROVE  TypeOK' /\ FifoInv'
<1>1. /\ running = NoEvent /\ running' = Head(queue) /\ queue' = Tail(queue) /\ queue # <<>>
      /\ fate' = fate /\ releasing' \in BOOLEAN
  BY DEF Take
<1>2. /\ queue' \in Seq(Events) /\ Len(queue') = Len(queue) - 1 /\ Len(queue) \in Nat
      /\ Head(queue) = queue[1] /\ Head(queue) \in Events /\ 1 \in 1..Len(queue)
      /\ \A i \in 1..Len(queue') : queue'[i] = queue[i + 1]
  BY <1>1, HeadTailProperties, LenProperties, EmptySeq DEF TypeOK
<1>3. TypeOK'
  BY <1>1, <1>2 DEF TypeOK
<1>4. ASSUME NEW e \in Events PROVE Waiting(e) <=> e = running' \/ Waiting(e)'
  <2>1. ASSUME NEW i \in 1..Len(queue), queue[i] = e, i # 1 PROVE Waiting(e)'
    <3>1. i - 1 \in 1..Len(queue') /\ (i - 1) + 1 = i
      BY <1>2, <2>1
    <3> QED
      BY <1>2, <2>1, <3>1 DEF Waiting
  <2>2. ASSUME NEW i \in 1..Len(queue'), queue'[i] = e PROVE Waiting(e)
    <3>1. i + 1 \in 1..Len(queue)
      BY <1>2
    <3> QED
      BY <1>2, <2>2, <3>1 DEF Waiting
  <2> QED
    BY <1>1, <1>2, <2>1, <2>2 DEF Waiting
<1>5. \A i \in 1..Len(queue') : i + 1 \in 1..Len(queue) /\ i + 1 # 1
  BY <1>2
<1>6. ~Waiting(running)'
  BY <1>1, <1>2, <1>5 DEF FifoInv, Waiting
<1>7. \A i, j \in 1..Len(queue') : queue'[i] = queue'[j] => i = j
  BY <1>2, <1>5 DEF FifoInv
<1>8. \A e \in Events : fate'[e] = "queued" <=> running' = e \/ Waiting(e)'
  BY <1>1, <1>4 DEF FifoInv
<1> QED
  BY <1>3, <1>6, <1>7, <1>8 DEF FifoInv

LEMMA FifoStep ==
  ASSUME NoEvent \notin Events, TypeOK, FifoInv, [Next]_vars
  PROVE  TypeOK' /\ FifoInv'
<1>1. ASSUME NEW e \in Events, TurnAway(e) PROVE TypeOK' /\ FifoInv'
  <2>1. PICK f \in {"refused", "lost"} : fate' = [fate EXCEPT ![e] = f]
    BY <1>1 DEF TurnAway
  <2>2. fate[e] = "new" /\ UNCHANGED <<queue, running, releasing>>
    BY <1>1 DEF TurnAway
  <2>3. TypeOK'
    BY <2>1, <2>2 DEF TypeOK, Fates
  <2>4. \A g \in Events : fate'[g] = "queued" <=> fate[g] = "queued"
    BY <2>1, <2>2 DEF TypeOK
  <2> QED
    BY <2>2, <2>3, <2>4 DEF FifoInv, Waiting
<1>2. CASE Finish
  <2>1. /\ running \in Events /\ fate' = [fate EXCEPT ![running] = "ran"] /\ running' = NoEvent
        /\ UNCHANGED <<queue, releasing>>
    BY <1>2 DEF Finish, TypeOK
  <2>2. TypeOK'
    BY <2>1 DEF TypeOK, Fates
  <2>3. \A e \in Events : fate'[e] = IF e = running THEN "ran" ELSE fate[e]
    BY <2>1 DEF TypeOK
  <2>4. ~Waiting(running)
    BY <2>1 DEF FifoInv
  <2> QED
    BY <2>1, <2>2, <2>3, <2>4 DEF FifoInv, Waiting
<1>3. CASE Release \/ UNCHANGED vars
  BY <1>3 DEF Release, vars, TypeOK, FifoInv, Waiting
<1> QED
  BY <1>1, <1>2, <1>3, FifoPost, FifoTake DEF Next

\* An event that is ahead of another stays ahead of it.
LEMMA OrderKept ==
  ASSUME NoEvent \notin Events, TypeOK, FifoInv, [Next]_vars, NEW e \in Events, NEW f \in Events,
         Before(e, f), fate'[e] = "queued"
  PROVE  Before(e, f)'
<1>1. CASE running = e
  <2>1. ~Finish
    BY <1>1 DEF Finish, TypeOK
  <2> QED
    BY <1>1, <2>1
       DEF Before, Next, Post, TurnAway, Take, Release, vars
<1>2. CASE running # e
  <2>1. PICK i, j \in 1..Len(queue) : i < j /\ queue[i] = e /\ queue[j] = f
    BY <1>2 DEF Before
  <2>2. ASSUME NEW g \in Events, Post(g) PROVE Before(e, f)'
    <3>1. /\ Len(queue') = Len(queue) + 1 /\ Len(queue) \in Nat
          /\ \A k \in 1..Len(queue) : queue'[k] = queue[k]
      BY <2>2, AppendProperties, LenProperties DEF Post, TypeOK
    <3>2. i \in 1..Len(queue') /\ j \in 1..Len(queue')
      BY <3>1
    <3> QED
      BY <2>1, <3>1, <3>2 DEF Before
  <2>3. CASE Take
    <3>1. /\ running' = queue[1] /\ Len(queue') = Len(queue) - 1 /\ Len(queue) \in Nat
          /\ \A k \in 1..Len(queue') : queue'[k] = queue[k + 1]
      BY <2>3, HeadTailProperties, LenProperties DEF Take, TypeOK
    <3>2. CASE i = 1
      BY <2>1, <3>1, <3>2 DEF Before
    <3>3. CASE i # 1
      <4>1. /\ i - 1 \in 1..Len(queue') /\ j - 1 \in 1..Len(queue') /\ i - 1 < j - 1
            /\ (i - 1) + 1 = i /\ (j - 1) + 1 = j
        BY <2>1, <3>1, <3>3
      <4> QED
        BY <2>1, <3>1, <4>1 DEF Before
    <3> QED
      BY <3>2, <3>3
  <2>4. CASE queue' = queue
    BY <2>1, <2>4 DEF Before
  <2> QED
    BY <2>2, <2>3, <2>4 DEF Next, TurnAway, Release, Finish, vars
<1> QED
  BY <1>1, <1>2

\* An event that is posted is behind those that wait.
LEMMA PostedLast ==
  ASSUME NoEvent \notin Events, TypeOK, FifoInv, [Next]_vars, NEW e \in Events, NEW f \in Events,
         fate[e] = "queued", fate[f] # "queued", fate'[f] = "queued"
  PROVE  Before(e, f)'
<1>1. PICK g \in Events : Post(g)
  BY DEF TypeOK, Next, Take, TurnAway, Release, Finish, vars
<1>2. g = f
  BY <1>1 DEF Post, TypeOK
<1>3. /\ Len(queue') = Len(queue) + 1 /\ Len(queue) \in Nat /\ running' = running
      /\ queue'[Len(queue) + 1] = f /\ \A k \in 1..Len(queue) : queue'[k] = queue[k]
  BY <1>1, <1>2, AppendProperties, LenProperties DEF Post, TypeOK
<1>4. running = e \/ Waiting(e)
  BY DEF FifoInv
<1>5. ASSUME NEW i \in 1..Len(queue), queue[i] = e PROVE Before(e, f)'
  <2>1. i \in 1..Len(queue') /\ Len(queue) + 1 \in 1..Len(queue') /\ i < Len(queue) + 1
    BY <1>3
  <2> QED
    BY <1>3, <1>5, <2>1 DEF Before
<1> QED
  BY <1>3, <1>4, <1>5 DEF Before, Waiting

\* The way of an event's fate.
LEMMA FateStep ==
  ASSUME NoEvent \notin Events, TypeOK, [Next]_vars, NEW e \in Events
  PROVE  \/ fate'[e] = fate[e]
         \/ fate[e] = "new" /\ fate'[e] \in {"queued", "refused", "lost"}
         \/ Finish /\ running = e /\ fate'[e] = "ran"
BY DEF TypeOK, Next, Post, TurnAway, Take, Release, Finish, vars

\* An event that was posted earlier ran earlier.
LEMMA RanFirst ==
  ASSUME NoEvent \notin Events, FifoInv, NEW e \in Events, NEW f \in Events, e # f,
         running = f
  PROVE  ~Before(e, f)
BY DEF Before, FifoInv, Waiting

-----------------------------------------------------------------------------
\* What AddTriggerEvent accepted is in the FIFO or runs, in one place only, until it has
\* run; and nothing else is there (TaskScheduler, which implements this module).
THEOREM QueuedOnce ==
  ASSUME NoEvent \notin Events
  PROVE  Spec => [](TypeOK /\ FifoInv)
<1>1. ASSUME Init PROVE TypeOK /\ FifoInv
  <2>1. queue = <<>> /\ Len(queue) = 0 /\ queue \in Seq(Events) /\ 1..0 = {}
    BY <1>1, EmptySeq DEF Init
  <2>2. TypeOK
    BY <1>1, <2>1 DEF Init, TypeOK, Fates
  <2>3. FifoInv
    BY <1>1, <2>1 DEF Init, FifoInv, Waiting
  <2> QED
    BY <2>2, <2>3
<1>2. TypeOK /\ FifoInv /\ [Next]_vars => (TypeOK /\ FifoInv)'
  BY FifoStep
<1> QED
  BY <1>1, <1>2, PTL DEF Spec

=============================================================================
