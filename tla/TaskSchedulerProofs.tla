------------------------- MODULE TaskSchedulerProofs -------------------------
(***************************************************************************)
(* The safety properties of TaskScheduler and its refinement of            *)
(* TriggerQueue, proved for any number of posting threads, any ring and    *)
(* pipe capacity and any number of posts.                                  *)
(*                                                                         *)
(* TypeOK is not inductive: that num_datas stays within 0..Capacity rests  *)
(* on mutex_ (only its holder is between Lock and Signal) and on the shape *)
(* of the ring (from get_pos on, the written slots come first and the free *)
(* ones after them).  IInv conjoins these.                                 *)
(***************************************************************************)
EXTENDS TaskScheduler, TLAPS, Sequences, SequenceTheorems

\* Between Lock and Signal a thread holds mutex_.
Holding == {"locked", "stored", "pushed"}

MutexInv == \A t \in Threads : call[t] \in Holding => mutex = t

\* The slot between Store and Count.
Uncounted == IF mutex \in Threads /\ call[mutex] = "stored" THEN 1 ELSE 0

\* Slots, from get_pos on, that hold an event.
Written == Readable + Uncounted

RingInv ==
  /\ loop = "taken" => num_datas > 0
  /\ num_datas + Uncounted <= Capacity
  /\ put_pos = Wrap(get_pos + Written)
  /\ \A i \in 0..Capacity - 1 : buffer[Wrap(get_pos + i)] = NoEvent <=> i >= Written

CallbackInv == loop \in {"taken", "callback"} <=> running # NoEvent

\* A thread inside AddTriggerEvent has begun a call, so Current(t) is an event.
PostedInv == \A t \in Threads : call[t] # "idle" => posted[t] > 0

\* A thread that nobody overtook still finds room in the ring.
RaceInv ==
  \A t \in Threads : call[t] \in {"admitted", "locked"} /\ t \notin raced => HasSlot

IInv ==
  /\ TypeOK /\ MutexInv /\ RingInv /\ CallbackInv /\ PostedInv /\ RaceInv
  /\ NoLostWakeup /\ NoLostStop

-----------------------------------------------------------------------------

LEMMA InitialState == Init => IInv
<1> SUFFICES ASSUME Init PROVE IInv
  OBVIOUS
<1> USE CapacityAssumption, PipeAssumption, PostsAssumption, ThreadAssumption
<1>1. TypeOK
  <2>1. posted \in [Threads -> Nat] /\ \A t \in Threads : posted[t] <= MaxPosts[t]
    BY DEF Init
  <2>2. buffer \in [0..Capacity - 1 -> Events \cup {NoEvent}]
    BY DEF Init
  <2>3. call \in [Threads -> {"idle", "admitted", "locked", "stored", "pushed"}]
    BY DEF Init
  <2>4. fate \in [Events -> Fates]
    BY DEF Init, Fates
  <2>5. /\ put_pos \in 0..Capacity - 1 /\ get_pos \in 0..Capacity - 1
        /\ num_datas \in 0..Capacity /\ pipe \in 0..PipeCapacity
    BY DEF Init
  <2>6. /\ mutex \in Threads \cup {NoThread} /\ running \in Events \cup {NoEvent}
        /\ raced \in SUBSET Threads
    BY DEF Init
  <2> QED
    BY <2>1, <2>2, <2>3, <2>4, <2>5, <2>6, Zenon DEF Init, TypeOK
<1>2. RingInv
  BY DEF Init, RingInv, Uncounted, Written, Readable, Wrap
<1>3. MutexInv /\ CallbackInv /\ PostedInv /\ RaceInv
  BY DEF Init, MutexInv, Holding, CallbackInv, PostedInv, RaceInv
<1>4. NoLostWakeup /\ NoLostStop
  BY DEF Init, NoLostWakeup, NoLostStop
<1> QED
  BY <1>1, <1>2, <1>3, <1>4 DEF IInv

\* The event of a call that has begun, and that of the next call.
LEMMA CurrentIsEvent ==
  ASSUME TypeOK, PostedInv, NEW t \in Threads, call[t] # "idle"
  PROVE  Current(t) \in Events
BY PostsAssumption DEF TypeOK, PostedInv, Current, Events

LEMMA NextIsEvent ==
  ASSUME TypeOK, NEW t \in Threads, MayPost(t)
  PROVE  <<t, posted[t] + 1>> \in Events
BY PostsAssumption DEF TypeOK, MayPost, Events

LEMMA ExclusiveStep ==
  ASSUME IInv, [Next]_vars
  PROVE  MutexInv'
<1> USE ThreadAssumption DEF IInv, TypeOK, MutexInv, Holding
<1>1. ASSUME NEW t \in Threads, Refuse(t) \/ Admit(t) PROVE MutexInv'
  BY <1>1 DEF Refuse, Admit, ring
<1>2. ASSUME NEW t \in Threads, Call(t) PROVE MutexInv'
  BY <1>2 DEF Call, Lock, Store, Overflow, Count, Signal, ring
<1>3. CASE SchedulerStep \/ PollOther
  BY <1>3 DEF SchedulerStep, Boot, Test, PopNothing, PopSlot, PopCount, Return, More,
              PollPipe, PollOther, Dispatched, WakeRead, WakeDone
<1>4. CASE StopFlag \/ StopSignal \/ UNCHANGED vars
  BY <1>4 DEF StopFlag, StopSignal, vars
<1> QED
  BY <1>1, <1>2, <1>3, <1>4 DEF Next

LEMMA PostedStep ==
  ASSUME IInv, [Next]_vars
  PROVE  PostedInv'
<1> USE PostsAssumption DEF IInv, TypeOK, PostedInv
<1>1. ASSUME NEW t \in Threads, Refuse(t) \/ Admit(t) PROVE PostedInv'
  <2> posted' = [posted EXCEPT ![t] = @ + 1]
    BY <1>1 DEF Refuse, Admit
  <2> \A u \in Threads : call'[u] = call[u] \/ u = t
    BY <1>1 DEF Refuse, Admit
  <2> QED
    OBVIOUS
<1>2. ASSUME NEW t \in Threads, Call(t) PROVE PostedInv'
  BY <1>2 DEF Call, Lock, Store, Overflow, Count, Signal, ring
<1>3. CASE SchedulerStep \/ PollOther
  BY <1>3 DEF SchedulerStep, Boot, Test, PopNothing, PopSlot, PopCount, Return, More,
              PollPipe, PollOther, Dispatched, WakeRead, WakeDone
<1>4. CASE StopFlag \/ StopSignal \/ UNCHANGED vars
  BY <1>4 DEF StopFlag, StopSignal, vars
<1> QED
  BY <1>1, <1>2, <1>3, <1>4 DEF Next

LEMMA RaceStep ==
  ASSUME IInv, [Next]_vars
  PROVE  RaceInv'
<1> USE ThreadAssumption, CapacityAssumption DEF IInv, TypeOK, RaceInv, HasSlot
<1>1. ASSUME NEW t \in Threads, Refuse(t) \/ Admit(t) PROVE RaceInv'
  BY <1>1 DEF Refuse, Admit, MayAdmit, ring
<1>2. ASSUME NEW t \in Threads, Call(t) PROVE RaceInv'
  BY <1>2 DEF Call, Lock, Store, Overflow, Count, Signal, ring, MutexInv, Holding
<1>3. CASE SchedulerStep \/ PollOther
  BY <1>3 DEF SchedulerStep, Boot, Test, PopNothing, PopSlot, PopCount, Return, More,
              PollPipe, PollOther, Dispatched, WakeRead, WakeDone, ring
<1>4. CASE StopFlag \/ StopSignal \/ UNCHANGED vars
  BY <1>4 DEF StopFlag, StopSignal, vars, ring
<1> QED
  BY <1>1, <1>2, <1>3, <1>4 DEF Next

LEMMA WakeupStep ==
  ASSUME IInv, [Next]_vars
  PROVE  NoLostWakeup'
<1> USE PipeAssumption, CapacityAssumption DEF IInv, TypeOK, NoLostWakeup
<1>1. ASSUME NEW t \in Threads, Refuse(t) \/ Admit(t) PROVE NoLostWakeup'
  BY <1>1 DEF Refuse, Admit, MayPost, ring
<1>2. ASSUME NEW t \in Threads, Call(t) PROVE NoLostWakeup'
  BY <1>2 DEF Call, Lock, Store, Overflow, Count, Signal, PipeWithOneMore, ring
<1>3. CASE SchedulerStep \/ PollOther
  BY <1>3 DEF SchedulerStep, Boot, Test, PopNothing, PopSlot, PopCount, Return, More,
              PollPipe, PollOther, Dispatched, WakeRead, WakeDone, ring
<1>4. CASE StopFlag \/ StopSignal \/ UNCHANGED vars
  BY <1>4 DEF StopFlag, StopSignal, PipeWithOneMore, vars, ring
<1> QED
  BY <1>1, <1>2, <1>3, <1>4 DEF Next

LEMMA StopStep ==
  ASSUME IInv, [Next]_vars
  PROVE  NoLostStop'
<1> USE PipeAssumption DEF IInv, TypeOK, NoLostStop
<1>1. ASSUME NEW t \in Threads, Refuse(t) \/ Admit(t) PROVE NoLostStop'
  <2> UNCHANGED <<is_shutdown, loop, pipe, stop>>
    BY <1>1 DEF Refuse, Admit
  <2> QED
    OBVIOUS
<1>2. ASSUME NEW t \in Threads, Call(t) PROVE NoLostStop'
  <2>1. UNCHANGED <<is_shutdown, loop, stop>>
    BY <1>2 DEF Call, Lock, Store, Overflow, Count, Signal
  <2>2. pipe > 0 => pipe' > 0
    BY <1>2 DEF Call, Lock, Store, Overflow, Count, Signal, PipeWithOneMore
  <2> QED
    BY <2>1, <2>2
<1>3. CASE SchedulerStep \/ PollOther
  BY <1>3 DEF SchedulerStep, Boot, Test, PopNothing, PopSlot, PopCount, Return, More,
              PollPipe, PollOther, Dispatched, WakeRead, WakeDone, ring
<1>4. CASE StopFlag
  BY <1>4 DEF StopFlag
<1>5. CASE StopSignal
  BY <1>5 DEF StopSignal, PipeWithOneMore
<1>6. CASE UNCHANGED vars
  BY <1>6 DEF vars
<1> QED
  BY <1>1, <1>2, <1>3, <1>4, <1>5, <1>6 DEF Next

-----------------------------------------------------------------------------
(***************************************************************************)
(* The ring.  A step either leaves it alone or is one of Store, Count,     *)
(* PopSlot and PopCount.                                                   *)
(***************************************************************************)

LEMMA RingUntouched ==
  ASSUME IInv, UNCHANGED ring, Uncounted' = Uncounted, loop' = "taken" <=> loop = "taken"
  PROVE  RingInv'
<1>1. Readable' = Readable /\ Written' = Written
  BY DEF ring, Readable, Written
<1> QED
  BY <1>1 DEF IInv, RingInv, ring, Wrap

\* The holder of mutex_ is the only thread inside PushData.
LEMMA HolderOnly ==
  ASSUME IInv, NEW t \in Threads, call[t] \in Holding
  PROVE  mutex = t /\ (Uncounted = IF call[t] = "stored" THEN 1 ELSE 0)
BY DEF IInv, MutexInv, Uncounted

LEMMA StoreRing ==
  ASSUME IInv, NEW t \in Threads, Store(t)
  PROVE  RingInv'
<1> USE CapacityAssumption
<1>1. call[t] = "locked" /\ mutex = t /\ Uncounted = 0
  BY HolderOnly DEF Store, Holding
<1>2. mutex' = t /\ call'[t] = "stored"
  BY <1>1 DEF Store, IInv, TypeOK
<1>3. Uncounted' = 1
  BY <1>2 DEF Uncounted
<1>4. Readable' = Readable /\ Written' = Written + 1
  BY <1>1, <1>3 DEF Store, Readable, Written, IInv, TypeOK
<1>5. Written \in 0..Capacity - 1 /\ Readable \in Int
  BY <1>1 DEF IInv, TypeOK, RingInv, Written, Readable, Store, HasSlot
<1>6. num_datas' + Uncounted' <= Capacity
  BY <1>3 DEF Store, HasSlot, IInv, TypeOK
<1>7. put_pos' = Wrap(get_pos' + Written')
  BY <1>4, <1>5 DEF Store, IInv, TypeOK, RingInv, Wrap, Successor
<1>8. Current(t) # NoEvent
  BY CurrentIsEvent, EventAssumption, <1>1 DEF IInv
<1>9. ASSUME NEW i \in 0..Capacity - 1
      PROVE  buffer'[Wrap(get_pos' + i)] = NoEvent <=> i >= Written'
  <2>1. Wrap(get_pos + i) \in 0..Capacity - 1 /\ (Wrap(get_pos + i) = put_pos <=> i = Written)
    BY <1>5 DEF IInv, TypeOK, RingInv, Wrap
  <2>2. buffer[Wrap(get_pos + i)] = NoEvent <=> i >= Written
    BY DEF IInv, RingInv
  <2>3. buffer'[Wrap(get_pos + i)] = IF i = Written THEN Current(t) ELSE buffer[Wrap(get_pos + i)]
    BY <2>1 DEF Store, IInv, TypeOK
  <2>4. Wrap(get_pos' + i) = Wrap(get_pos + i)
    BY DEF Store, Wrap
  <2> QED
    BY <1>4, <1>5, <1>8, <2>2, <2>3, <2>4
<1>10. loop' = "taken" => num_datas' > 0
  BY DEF Store, IInv, RingInv
<1> QED
  BY <1>6, <1>7, <1>9, <1>10 DEF RingInv

LEMMA CountRing ==
  ASSUME IInv, NEW t \in Threads, Count(t)
  PROVE  RingInv'
<1> USE CapacityAssumption
<1>1. call[t] = "stored" /\ mutex = t /\ Uncounted = 1
  BY HolderOnly DEF Count, Holding
<1>2. mutex' = t /\ call'[t] = "pushed"
  BY <1>1 DEF Count, IInv, TypeOK
<1>3. Uncounted' = 0
  BY <1>2 DEF Uncounted
<1>4. Written' = Written
  BY <1>1, <1>3 DEF Count, Readable, Written, IInv, TypeOK
<1>5. buffer' = buffer /\ put_pos' = put_pos /\ get_pos' = get_pos /\ loop' = loop
  BY DEF Count
<1>6. num_datas' = num_datas + 1 /\ num_datas \in Nat
  BY DEF Count, IInv, TypeOK
<1> QED
  BY <1>1, <1>3, <1>4, <1>5, <1>6 DEF IInv, RingInv, Wrap

LEMMA PopSlotRing ==
  ASSUME IInv, PopSlot
  PROVE  RingInv'
<1> USE CapacityAssumption
<1>1. Uncounted' = Uncounted /\ Uncounted \in 0..1
  BY DEF PopSlot, Uncounted
<1>2. Readable = num_datas /\ Readable' = Readable - 1 /\ num_datas' = num_datas
  BY DEF PopSlot, Readable, IInv, TypeOK
<1>3. Written' = Written - 1 /\ Written \in 1..Capacity
  BY <1>1, <1>2 DEF Written, PopSlot, IInv, TypeOK, RingInv
<1>4. get_pos' = Wrap(get_pos + 1)
  BY DEF PopSlot, Successor, Wrap, IInv, TypeOK
<1>5. put_pos' = Wrap(get_pos' + Written')
  BY <1>3, <1>4 DEF PopSlot, Wrap, IInv, TypeOK, RingInv
<1>6. ASSUME NEW i \in 0..Capacity - 1
      PROVE  buffer'[Wrap(get_pos' + i)] = NoEvent <=> i >= Written'
  <2>1. CASE i = Capacity - 1
    <3>1. Wrap(get_pos' + i) = get_pos
      BY <1>4, <2>1 DEF Wrap, IInv, TypeOK
    <3>2. buffer'[get_pos] = NoEvent
      BY DEF PopSlot, IInv, TypeOK
    <3> QED
      BY <1>3, <2>1, <3>1, <3>2
  <2>2. CASE i < Capacity - 1
    <3>1. /\ Wrap(get_pos' + i) = Wrap(get_pos + (i + 1))
          /\ Wrap(get_pos' + i) # get_pos
          /\ Wrap(get_pos' + i) \in 0..Capacity - 1
      BY <1>4, <2>2 DEF Wrap, IInv, TypeOK
    <3>2. buffer'[Wrap(get_pos' + i)] = buffer[Wrap(get_pos + (i + 1))]
      BY <3>1 DEF PopSlot, IInv, TypeOK
    <3>3. i + 1 \in 0..Capacity - 1
      BY <2>2
    <3>4. buffer[Wrap(get_pos + (i + 1))] = NoEvent <=> i + 1 >= Written
      BY <3>3 DEF IInv, RingInv
    <3> QED
      BY <1>3, <3>2, <3>4
  <2> QED
    BY <2>1, <2>2
<1> QED
  BY <1>1, <1>2, <1>5, <1>6 DEF RingInv, IInv, PopSlot

LEMMA PopCountRing ==
  ASSUME IInv, PopCount
  PROVE  RingInv'
<1> USE CapacityAssumption
<1>1. Uncounted' = Uncounted /\ Uncounted \in 0..1
  BY DEF PopCount, Uncounted
<1>2. Written' = Written /\ loop' # "taken" /\ num_datas' = num_datas - 1 /\ num_datas \in Nat
  BY <1>1 DEF PopCount, Written, Readable, IInv, TypeOK
<1>3. buffer' = buffer /\ put_pos' = put_pos /\ get_pos' = get_pos
  BY DEF PopCount
<1> QED
  BY <1>1, <1>2, <1>3 DEF IInv, RingInv, Wrap

LEMMA RingStep ==
  ASSUME IInv, [Next]_vars
  PROVE  RingInv'
<1> USE ThreadAssumption
<1>1. ASSUME NEW t \in Threads, Refuse(t) \/ Admit(t) PROVE RingInv'
  <2>1. UNCHANGED ring /\ loop' = loop /\ mutex' = mutex
    BY <1>1 DEF Refuse, Admit
  <2>2. Uncounted' = Uncounted
    BY <1>1, <2>1 DEF Refuse, Admit, MayPost, Uncounted, IInv, TypeOK
  <2> QED
    BY <2>1, <2>2, RingUntouched
<1>2. ASSUME NEW t \in Threads, Lock(t) \/ Overflow(t) \/ Signal(t) PROVE RingInv'
  <2>1. UNCHANGED ring /\ loop' = loop
    BY <1>2 DEF Lock, Overflow, Signal
  <2>2. CASE Lock(t)
    BY <2>1, <2>2, RingUntouched DEF Lock, Uncounted, IInv, TypeOK
  <2>3. CASE Overflow(t)
    <3>1. mutex' = mutex /\ \A u \in Threads : call'[u] = "stored" <=> call[u] = "stored"
      BY <2>3 DEF Overflow, IInv, TypeOK
    <3> QED
      BY <2>1, <3>1, RingUntouched DEF Uncounted
  <2>4. CASE Signal(t)
    <3>1. mutex = t /\ call[t] = "pushed" /\ mutex' = NoThread
      BY <2>4, HolderOnly DEF Signal, Holding
    <3> QED
      BY <2>1, <3>1, RingUntouched DEF Uncounted
  <2> QED
    BY <1>2, <2>2, <2>3, <2>4
<1>3. ASSUME NEW t \in Threads, Store(t) PROVE RingInv'
  BY <1>3, StoreRing
<1>4. ASSUME NEW t \in Threads, Count(t) PROVE RingInv'
  BY <1>4, CountRing
<1>5. CASE PopSlot \/ PopCount
  BY <1>5, PopSlotRing, PopCountRing
<1>6. CASE \/ Boot \/ Test \/ PopNothing \/ Return \/ More \/ PollPipe \/ PollOther
           \/ Dispatched \/ WakeRead \/ WakeDone
  <2>1. UNCHANGED ring /\ UNCHANGED <<mutex, call>>
    BY <1>6 DEF Boot, Test, PopNothing, Return, More, PollPipe, PollOther, Dispatched,
                WakeRead, WakeDone
  <2>2. loop # "taken" /\ loop' # "taken"
    BY <1>6 DEF Boot, Test, PopNothing, Return, More, PollPipe, PollOther, Dispatched,
                WakeRead, WakeDone
  <2> QED
    BY <2>1, <2>2, RingUntouched DEF Uncounted
<1>7. CASE StopFlag \/ StopSignal \/ UNCHANGED vars
  <2>1. UNCHANGED ring /\ UNCHANGED <<mutex, call, loop>>
    BY <1>7 DEF StopFlag, StopSignal, vars, ring
  <2> QED
    BY <2>1, RingUntouched DEF Uncounted
<1> QED
  BY <1>1, <1>2, <1>3, <1>4, <1>5, <1>6, <1>7 DEF Next, Call, SchedulerStep

\* What Pop moves out of the ring is an event.
LEMMA PoppedIsEvent ==
  ASSUME IInv, PopSlot
  PROVE  running' \in Events /\ running' # NoEvent
<1>1. Written > 0 /\ Wrap(get_pos + 0) = get_pos /\ 0 \in 0..Capacity - 1
  BY CapacityAssumption DEF PopSlot, IInv, TypeOK, RingInv, Written, Uncounted, Readable, Wrap
<1>2. buffer[get_pos] # NoEvent
  BY <1>1 DEF IInv, RingInv, TypeOK, Written, Readable, Uncounted
<1> QED
  BY <1>2 DEF PopSlot, IInv, TypeOK

LEMMA CallbackStep ==
  ASSUME IInv, [Next]_vars
  PROVE  CallbackInv'
<1> USE DEF IInv, TypeOK, CallbackInv
<1>1. ASSUME NEW t \in Threads, Refuse(t) \/ Admit(t) \/ Call(t) PROVE CallbackInv'
  BY <1>1 DEF Refuse, Admit, Call, Lock, Store, Overflow, Count, Signal
<1>2. CASE PopSlot
  BY <1>2, PoppedIsEvent DEF PopSlot
<1>3. CASE PopCount \/ Return
  BY <1>3 DEF PopCount, Return
<1>4. CASE \/ Boot \/ Test \/ PopNothing \/ More \/ PollPipe \/ PollOther
           \/ Dispatched \/ WakeRead \/ WakeDone
  BY <1>4 DEF Boot, Test, PopNothing, More, PollPipe, PollOther, Dispatched, WakeRead, WakeDone
<1>5. CASE StopFlag \/ StopSignal \/ UNCHANGED vars
  BY <1>5 DEF StopFlag, StopSignal, vars
<1> QED
  BY <1>1, <1>2, <1>3, <1>4, <1>5 DEF Next, SchedulerStep

-----------------------------------------------------------------------------
(***************************************************************************)
(* Types, one group of variables at a time.                                *)
(***************************************************************************)

LEMMA RingTypes ==
  ASSUME IInv, [Next]_vars
  PROVE  /\ buffer' \in [0..Capacity - 1 -> Events \cup {NoEvent}]
         /\ put_pos' \in 0..Capacity - 1
         /\ get_pos' \in 0..Capacity - 1
         /\ num_datas' \in 0..Capacity
<1> DEFINE Goal == /\ buffer' \in [0..Capacity - 1 -> Events \cup {NoEvent}]
                   /\ put_pos' \in 0..Capacity - 1
                   /\ get_pos' \in 0..Capacity - 1
                   /\ num_datas' \in 0..Capacity
<1> USE CapacityAssumption
<1>1. ASSUME NEW t \in Threads, Store(t) PROVE Goal
  <2>1. Current(t) \in Events
    BY <1>1, CurrentIsEvent DEF Store, IInv
  <2> QED
    BY <1>1, <2>1 DEF Store, Successor, IInv, TypeOK
<1>2. ASSUME NEW t \in Threads, Count(t) PROVE Goal
  <2>1. Uncounted = 1
    BY <1>2, HolderOnly DEF Count, Holding
  <2> QED
    BY <1>2, <2>1 DEF Count, IInv, TypeOK, RingInv
<1>3. CASE PopSlot
  BY <1>3 DEF PopSlot, Successor, IInv, TypeOK
<1>4. CASE PopCount
  BY <1>4 DEF PopCount, IInv, TypeOK, RingInv
<1>5. CASE UNCHANGED ring
  BY <1>5 DEF ring, IInv, TypeOK
<1>6. ASSUME NEW t \in Threads, Refuse(t) \/ Admit(t) \/ Lock(t) \/ Overflow(t) \/ Signal(t)
      PROVE  UNCHANGED ring
  BY <1>6 DEF Refuse, Admit, Lock, Overflow, Signal
<1>7. CASE \/ Boot \/ Test \/ PopNothing \/ Return \/ More \/ PollPipe \/ PollOther
           \/ Dispatched \/ WakeRead \/ WakeDone
  BY <1>5, <1>7 DEF Boot, Test, PopNothing, Return, More, PollPipe, PollOther, Dispatched,
                    WakeRead, WakeDone
<1>8. CASE StopFlag \/ StopSignal \/ UNCHANGED vars
  BY <1>5, <1>8 DEF StopFlag, StopSignal, vars, ring
<1> QED
  BY <1>1, <1>2, <1>3, <1>4, <1>5, <1>6, <1>7, <1>8 DEF Next, SchedulerStep, Call

LEMMA CallTypes ==
  ASSUME IInv, [Next]_vars
  PROVE  /\ mutex' \in Threads \cup {NoThread}
         /\ call' \in [Threads -> {"idle", "admitted", "locked", "stored", "pushed"}]
         /\ raced' \in SUBSET Threads
<1> USE DEF IInv, TypeOK
<1>1. ASSUME NEW t \in Threads, Refuse(t) \/ Admit(t)
      PROVE  /\ mutex' = mutex
             /\ call' \in [Threads -> {"idle", "admitted", "locked", "stored", "pushed"}]
             /\ raced' \in SUBSET Threads
  BY <1>1 DEF Refuse, Admit
<1>2. ASSUME NEW t \in Threads, Call(t)
      PROVE  /\ mutex' \in {mutex, t, NoThread}
             /\ call' \in [Threads -> {"idle", "admitted", "locked", "stored", "pushed"}]
             /\ raced' \in SUBSET Threads
  BY <1>2 DEF Call, Lock, Store, Overflow, Count, Signal
<1>3. CASE SchedulerStep \/ PollOther
  BY <1>3 DEF SchedulerStep, Boot, Test, PopNothing, PopSlot, PopCount, Return, More,
              PollPipe, PollOther, Dispatched, WakeRead, WakeDone
<1>4. CASE StopFlag \/ StopSignal \/ UNCHANGED vars
  BY <1>4 DEF StopFlag, StopSignal, vars
<1> QED
  BY <1>1, <1>2, <1>3, <1>4 DEF Next

LEMMA PostTypes ==
  ASSUME IInv, [Next]_vars
  PROVE  /\ posted' \in [Threads -> Nat]
         /\ \A t \in Threads : posted'[t] <= MaxPosts[t]
         /\ fate' \in [Events -> Fates]
<1> USE PostsAssumption
<1>1. ASSUME NEW t \in Threads, Refuse(t) \/ Admit(t)
      PROVE  /\ posted' \in [Threads -> Nat]
             /\ \A u \in Threads : posted'[u] <= MaxPosts[u]
             /\ fate' \in [Events -> Fates]
  <2>1. posted' = [posted EXCEPT ![t] = @ + 1] /\ posted[t] < MaxPosts[t]
    BY <1>1 DEF Refuse, Admit, MayPost
  <2>2. fate' \in [Events -> Fates]
    BY <1>1, NextIsEvent DEF Refuse, Admit, IInv, TypeOK, Fates
  <2> QED
    BY <2>1, <2>2 DEF IInv, TypeOK
<1>2. ASSUME NEW t \in Threads, Call(t)
      PROVE  posted' = posted /\ fate' \in [Events -> Fates]
  <2>1. Current(t) \in Events
    BY <1>2, CurrentIsEvent DEF Call, Lock, Store, Overflow, Count, Signal, IInv
  <2> QED
    BY <1>2, <2>1 DEF Call, Lock, Store, Overflow, Count, Signal, IInv, TypeOK, Fates
<1>3. CASE SchedulerStep \/ PollOther
  <2>1. posted' = posted /\ (fate' = fate \/ (Return /\ running \in Events))
    BY <1>3 DEF SchedulerStep, Boot, Test, PopNothing, PopSlot, PopCount, Return, More,
                PollPipe, PollOther, Dispatched, WakeRead, WakeDone, IInv, TypeOK, CallbackInv
  <2>2. fate' \in [Events -> Fates]
    BY <2>1 DEF Return, IInv, TypeOK, Fates
  <2> QED
    BY <2>1, <2>2 DEF IInv, TypeOK
<1>4. CASE StopFlag \/ StopSignal \/ UNCHANGED vars
  BY <1>4 DEF StopFlag, StopSignal, vars, IInv, TypeOK
<1> QED
  BY <1>1, <1>2, <1>3, <1>4 DEF Next, IInv, TypeOK

LEMMA LoopTypes ==
  ASSUME IInv, [Next]_vars
  PROVE  /\ pipe' \in 0..PipeCapacity
         /\ is_shutdown' \in BOOLEAN
         /\ loop' \in {"boot", "test", "pop", "taken", "callback", "more", "poll",
                       "dispatch", "wake", "done"}
         /\ running' \in Events \cup {NoEvent}
         /\ stop' \in {"none", "flagged", "called"}
<1> USE PipeAssumption
<1>1. pipe' \in 0..PipeCapacity
  <2>1. pipe \in 0..PipeCapacity
    BY DEF IInv, TypeOK
  <2>2. \/ pipe' = pipe
        \/ pipe' = PipeWithOneMore
        \/ pipe' = IF pipe > WakeChunk THEN pipe - WakeChunk ELSE 0
    BY Zenon
       DEF Next, Refuse, Admit, Call, Lock, Store, Overflow, Count, Signal, SchedulerStep, Boot,
           Test, PopNothing, PopSlot, PopCount, Return, More, PollPipe, PollOther, Dispatched,
           WakeRead, WakeDone, StopFlag, StopSignal, vars
  <2> QED
    BY <2>1, <2>2 DEF PipeWithOneMore
<1>2. is_shutdown' \in BOOLEAN /\ stop' \in {"none", "flagged", "called"}
  BY DEF IInv, TypeOK, Next, Refuse, Admit, Call, Lock, Store, Overflow, Count, Signal,
         SchedulerStep, Boot, Test, PopNothing, PopSlot, PopCount, Return, More, PollPipe,
         PollOther, Dispatched, WakeRead, WakeDone, StopFlag, StopSignal, vars
<1>3. loop' \in {"boot", "test", "pop", "taken", "callback", "more", "poll", "dispatch",
                "wake", "done"}
  BY DEF IInv, TypeOK, Next, Refuse, Admit, Call, Lock, Store, Overflow, Count, Signal,
         SchedulerStep, Boot, Test, PopNothing, PopSlot, PopCount, Return, More, PollPipe,
         PollOther, Dispatched, WakeRead, WakeDone, StopFlag, StopSignal, vars
<1>4. running' \in Events \cup {NoEvent}
  BY PoppedIsEvent
     DEF IInv, TypeOK, Next, Refuse, Admit, Call, Lock, Store, Overflow, Count, Signal,
         SchedulerStep, Boot, Test, PopNothing, PopCount, Return, More, PollPipe,
         PollOther, Dispatched, WakeRead, WakeDone, StopFlag, StopSignal, vars
<1> QED
  BY <1>1, <1>2, <1>3, <1>4

-----------------------------------------------------------------------------

LEMMA Inductive == IInv /\ [Next]_vars => IInv'
<1> SUFFICES ASSUME IInv, [Next]_vars PROVE IInv'
  OBVIOUS
<1>1. TypeOK'
  BY RingTypes, CallTypes, PostTypes, LoopTypes, Zenon DEF TypeOK
<1>2. MutexInv' /\ RingInv' /\ CallbackInv' /\ PostedInv' /\ RaceInv'
  BY ExclusiveStep, RingStep, CallbackStep, PostedStep, RaceStep
<1>3. NoLostWakeup' /\ NoLostStop'
  BY WakeupStep, StopStep
<1> QED
  BY <1>1, <1>2, <1>3 DEF IInv

LEMMA Invariance == Spec => []IInv
<1> QED
  BY InitialState, Inductive, PTL DEF Spec

\* Every variable keeps its type, for any number of threads, posts, slots and
\* bytes: num_datas_ stays within 0..Capacity and no position leaves the ring.
THEOREM TypeCorrect == Spec => []TypeOK
<1>1. IInv => TypeOK
  BY DEF IInv
<1> QED
  BY <1>1, Invariance, PTL

\* No callback is overwritten before it is moved out of the ring, and none
\* that was never written is run (RingBuffer::PushData against Pop).
THEOREM RingSafe == Spec => []NoSlotClash
<1>1. IInv => NoSlotClash
  <2> SUFFICES ASSUME IInv PROVE NoSlotClash
    OBVIOUS
  <2> USE CapacityAssumption
  <2>1. ASSUME NEW t \in Threads, call[t] = "locked", HasSlot PROVE buffer[put_pos] = NoEvent
    <3>1. Uncounted = 0
      BY <2>1, HolderOnly DEF Holding
    <3>2. Written \in 0..Capacity - 1
      BY <2>1, <3>1 DEF IInv, TypeOK, RingInv, Written, Readable, HasSlot
    <3>3. buffer[Wrap(get_pos + Written)] = NoEvent
      BY <3>2 DEF IInv, RingInv
    <3> QED
      BY <3>3 DEF IInv, RingInv
  <2>2. ASSUME loop = "pop", num_datas > 0 PROVE buffer[get_pos] # NoEvent
    <3>1. Written > 0 /\ Wrap(get_pos + 0) = get_pos /\ 0 \in 0..Capacity - 1
      BY <2>2 DEF IInv, TypeOK, Written, Uncounted, Readable, Wrap
    <3>2. ~(0 >= Written)
      BY <3>1 DEF Written, Readable, Uncounted, IInv, TypeOK
    <3> QED
      BY <3>1, <3>2 DEF IInv, RingInv
  <2> QED
    BY <2>1, <2>2 DEF NoSlotClash, IInv, CallbackInv
<1> QED
  BY <1>1, Invariance, PTL

\* An event that AddTriggerEvent accepted is never left behind by a scheduler
\* that went to sleep: the pipe is readable or is about to be.
THEOREM WakeupSafe == Spec => []NoLostWakeup
<1>1. IInv => NoLostWakeup
  BY DEF IInv
<1> QED
  BY <1>1, Invariance, PTL

\* Stop's byte cannot be drained from the pipe without is_shutdown_ being
\* read afterwards.
THEOREM StopSafe == Spec => []NoLostStop
<1>1. IInv => NoLostStop
  BY DEF IInv
<1> QED
  BY <1>1, Invariance, PTL

\* AddTriggerEvent returns true for an event that was dropped only to a caller
\* that was overtaken between the size test and its own push.
THEOREM LossNeedsRace == Spec => OnlyRacedLost
<1> DEFINE Lost(e) == fate'[e] = "lost" /\ fate[e] # "lost"
<1>1. ASSUME IInv, [Next]_vars, NEW e \in Events, Lost(e)
      PROVE  e[1] \in raced
  <2>1. PICK t \in Threads : Overflow(t)
    <3>1. ASSUME NEW t \in Threads, Refuse(t) \/ Admit(t) PROVE FALSE
      BY <1>1, <3>1, NextIsEvent DEF Refuse, Admit, IInv, TypeOK
    <3>2. ASSUME NEW t \in Threads, Lock(t) \/ Store(t) \/ Count(t) \/ Signal(t) PROVE FALSE
      BY <1>1, <3>2, CurrentIsEvent DEF Lock, Store, Count, Signal, IInv, TypeOK
    <3>3. CASE SchedulerStep \/ PollOther
      BY <1>1, <3>3 DEF SchedulerStep, Boot, Test, PopNothing, PopSlot, PopCount, Return,
                        More, PollPipe, PollOther, Dispatched, WakeRead, WakeDone, IInv, TypeOK
    <3>4. CASE StopFlag \/ StopSignal \/ UNCHANGED vars
      BY <1>1, <3>4 DEF StopFlag, StopSignal, vars
    <3> QED
      BY <1>1, <3>1, <3>2, <3>3, <3>4 DEF Next, Call
  <2>2. e = Current(t)
    BY <1>1, <2>1 DEF Overflow, IInv, TypeOK
  <2>3. t \in raced
    BY <1>1, <2>1 DEF Overflow, IInv, RaceInv
  <2> QED
    BY <2>2, <2>3 DEF Current
<1>2. IInv /\ [Next]_vars => [\A e \in Events : Lost(e) => e[1] \in raced]_vars
  BY <1>1
<1> QED
  BY <1>2, Invariance, PTL DEF Spec, OnlyRacedLost

-----------------------------------------------------------------------------
(***************************************************************************)
(* The ring implements the FIFO of TriggerQueue.  Four steps change what   *)
(* the mapping sees: Count appends, PopSlot removes the head, PopCount     *)
(* frees the place and Return finishes the event; Refuse and Overflow turn *)
(* an event away.  Every other step is a stutter.  IInv says where the     *)
(* events lie in the ring; HistoryInv adds whose they are, and that an     *)
(* event is new until its own call decides its fate.                       *)
(***************************************************************************)

HistoryInv ==
  /\ \A e \in Events : e[2] > posted[e[1]] => fate[e] = "new"
  /\ \A t \in Threads : call[t] \in {"admitted", "locked", "stored"} => fate[Current(t)] = "new"
  /\ \A t \in Threads : call[t] = "stored" => buffer[Wrap(get_pos + Readable)] = Current(t)
  /\ running # NoEvent => fate[running] # "new"
  /\ \A i \in 0..Readable - 1 : fate[buffer[Wrap(get_pos + i)]] # "new"

-----------------------------------------------------------------------------

LEMMA ReadableBounds ==
  ASSUME IInv
  PROVE  /\ Readable \in 0..Capacity /\ Written \in 0..Capacity /\ Readable <= Written
         /\ \A i \in 0..Written - 1 : buffer[Wrap(get_pos + i)] \in Events
<1>1. Readable \in 0..Capacity /\ Written \in 0..Capacity /\ Readable <= Written
  BY CapacityAssumption DEF IInv, TypeOK, RingInv, Readable, Written, Uncounted
<1>2. ASSUME NEW i \in 0..Written - 1 PROVE buffer[Wrap(get_pos + i)] \in Events
  <2>1. i \in 0..Capacity - 1 /\ ~(i >= Written) /\ Wrap(get_pos + i) \in 0..Capacity - 1
    BY <1>1, CapacityAssumption DEF IInv, TypeOK, Wrap
  <2>2. buffer[Wrap(get_pos + i)] # NoEvent
    BY <2>1 DEF IInv, RingInv
  <2> QED
    BY <2>1, <2>2 DEF IInv, TypeOK
<1> QED
  BY <1>1, <1>2

\* An event belongs to the thread that posts it, and to one call of it.
LEMMA EventsApart ==
  ASSUME IInv, NEW t \in Threads, NEW u \in Threads, t # u
  PROVE  Current(t) # Current(u)
BY DEF Current

LEMMA HistoryInit == Init => HistoryInv
<1> SUFFICES ASSUME Init PROVE HistoryInv
  OBVIOUS
<1>1. Readable = 0
  BY DEF Init, Readable
<1>2. \A e \in Events : fate[e] = "new"
  BY DEF Init
<1> QED
  BY <1>1, <1>2 DEF Init, HistoryInv

LEMMA HistoryRefuse ==
  ASSUME IInv, HistoryInv, NEW t \in Threads, Refuse(t)
  PROVE  HistoryInv'
<1> DEFINE e == <<t, posted[t] + 1>>
<1>1. e \in Events /\ fate[e] = "new"
  BY NextIsEvent, PostsAssumption DEF Refuse, IInv, TypeOK, HistoryInv, Events
<1>2. /\ fate' = [fate EXCEPT ![e] = "refused"] /\ posted' = [posted EXCEPT ![t] = @ + 1]
      /\ call' = call /\ UNCHANGED ring /\ running' = running /\ loop' = loop
      /\ call[t] = "idle"
  BY DEF Refuse, MayPost
<1>3. Readable' = Readable /\ \A i : Wrap(i)' = Wrap(i)
  BY <1>2 DEF Readable, Wrap, ring
<1>4. ASSUME NEW f \in Events, f[2] > posted'[f[1]] PROVE fate'[f] = "new"
  <2>1. f[1] \in Threads /\ f[2] \in Nat
    BY PostsAssumption DEF Events
  <2>2. f[2] > posted[f[1]] /\ f # e
    BY <1>2, <1>4, <2>1 DEF IInv, TypeOK
  <2> QED
    BY <1>2, <2>2 DEF HistoryInv, IInv, TypeOK
<1>5. ASSUME NEW u \in Threads, call'[u] # "idle"
      PROVE  Current(u)' = Current(u) /\ Current(u) # e /\ Current(u) \in Events
  BY <1>2, <1>5, CurrentIsEvent DEF Current, IInv, TypeOK
<1>6. \A f \in Events : fate[f] # "new" => fate'[f] # "new"
  BY <1>2 DEF IInv, TypeOK
<1>7. running' # NoEvent => fate'[running'] # "new"
  BY <1>2, <1>6 DEF HistoryInv, IInv, TypeOK
<1>8. ASSUME NEW i \in 0..Readable' - 1 PROVE fate'[buffer'[Wrap(get_pos' + i)]] # "new"
  BY <1>2, <1>3, <1>6, ReadableBounds DEF HistoryInv, ring, Wrap
<1>9. ASSUME NEW u \in Threads, call'[u] \in {"admitted", "locked", "stored"}
      PROVE  fate'[Current(u)'] = "new"
  BY <1>2, <1>5, <1>9 DEF HistoryInv, IInv, TypeOK
<1>10. ASSUME NEW u \in Threads, call'[u] = "stored"
       PROVE  buffer'[Wrap(get_pos' + Readable')] = Current(u)'
  BY <1>2, <1>3, <1>5, <1>10 DEF HistoryInv, ring, Wrap
<1> QED
  BY <1>3, <1>4, <1>7, <1>8, <1>9, <1>10 DEF HistoryInv, Wrap

LEMMA HistoryAdmit ==
  ASSUME IInv, HistoryInv, NEW t \in Threads, Admit(t)
  PROVE  HistoryInv'
<1> DEFINE e == <<t, posted[t] + 1>>
<1>1. e \in Events /\ fate[e] = "new"
  BY NextIsEvent, PostsAssumption DEF Admit, IInv, TypeOK, HistoryInv, Events
<1>2. /\ fate' = fate /\ posted' = [posted EXCEPT ![t] = @ + 1]
      /\ call' = [call EXCEPT ![t] = "admitted"]
      /\ UNCHANGED ring /\ running' = running /\ loop' = loop
  BY DEF Admit
<1>3. Readable' = Readable
  BY <1>2 DEF Readable, ring
<1>4. ASSUME NEW f \in Events, f[2] > posted'[f[1]] PROVE fate'[f] = "new"
  <2>1. f[1] \in Threads /\ f[2] \in Nat
    BY PostsAssumption DEF Events
  <2>2. f[2] > posted[f[1]]
    BY <1>2, <1>4, <2>1 DEF IInv, TypeOK
  <2> QED
    BY <1>2, <2>2 DEF HistoryInv
<1>5. Current(t)' = e
  BY <1>2 DEF Current, IInv, TypeOK
<1>6. ASSUME NEW u \in Threads \ {t} PROVE Current(u)' = Current(u) /\ call'[u] = call[u]
  BY <1>2 DEF Current, IInv, TypeOK
<1>7. ASSUME NEW u \in Threads, call'[u] \in {"admitted", "locked", "stored"}
      PROVE  fate'[Current(u)'] = "new"
  BY <1>1, <1>2, <1>5, <1>6, <1>7 DEF HistoryInv
<1>8. ASSUME NEW u \in Threads, call'[u] = "stored"
      PROVE  buffer'[Wrap(get_pos' + Readable')] = Current(u)'
  <2>1. u # t
    BY <1>2, <1>8 DEF IInv, TypeOK
  <2> QED
    BY <1>2, <1>3, <1>6, <1>8, <2>1 DEF HistoryInv, ring
<1> QED
  BY <1>2, <1>3, <1>4, <1>7, <1>8 DEF HistoryInv, Wrap, ring

\* Steps of the scheduler, and of calls, that change no event and no slot.
CallShrinks == \A u \in Threads : \/ call'[u] = call[u]
                                  \/ call[u] = "admitted" /\ call'[u] = "locked"
                                  \/ call'[u] = "idle"

LEMMA HistoryUntouched ==
  ASSUME IInv, HistoryInv, UNCHANGED ring, UNCHANGED <<fate, posted, running>>,
         loop' = "taken" <=> loop = "taken", CallShrinks
  PROVE  HistoryInv'
<1>1. Readable' = Readable /\ \A u : Current(u)' = Current(u)
  BY DEF Readable, Current, ring
<1>2. \A u \in Threads : call'[u] \in {"admitted", "locked", "stored"}
                            => call[u] \in {"admitted", "locked", "stored"}
  BY DEF CallShrinks
<1>3. \A u \in Threads : call'[u] = "stored" => call[u] = "stored"
  BY DEF CallShrinks
<1> QED
  BY <1>1, <1>2, <1>3 DEF HistoryInv, Wrap, ring

LEMMA HistoryStore ==
  ASSUME IInv, HistoryInv, NEW t \in Threads, Store(t)
  PROVE  HistoryInv'
<1>1. /\ buffer' = [buffer EXCEPT ![put_pos] = Current(t)]
      /\ call' = [call EXCEPT ![t] = "stored"]
      /\ UNCHANGED <<get_pos, num_datas, loop, fate, posted, running>>
      /\ call[t] = "locked"
  BY DEF Store
<1>2. Readable' = Readable /\ \A u : Current(u)' = Current(u)
  BY <1>1 DEF Readable, Current
<1>3. Uncounted = 0 /\ mutex = t
  BY <1>1, HolderOnly DEF Holding
<1>4. put_pos = Wrap(get_pos + Readable) /\ Readable \in 0..Capacity - 1
  <2>1. Written = Readable
    BY <1>3, ReadableBounds DEF Written
  <2>2. Readable < Capacity
    BY ReadableBounds, CapacityAssumption DEF Store, HasSlot, Readable, IInv, TypeOK
  <2> QED
    BY <2>1, <2>2, ReadableBounds, CapacityAssumption DEF IInv, RingInv
<1>5. \A u \in Threads : call'[u] = "stored" => u = t
  BY <1>1, <1>3 DEF IInv, TypeOK, MutexInv, Holding
<1>6. buffer'[Wrap(get_pos' + Readable')] = Current(t)'
  BY <1>1, <1>2, <1>4 DEF IInv, TypeOK, Wrap
<1>7. ASSUME NEW i \in 0..Readable' - 1 PROVE fate'[buffer'[Wrap(get_pos' + i)]] # "new"
  <2>1. Wrap(get_pos + i) \in 0..Capacity - 1 /\ Wrap(get_pos + i) # put_pos
    BY <1>2, <1>4, CapacityAssumption DEF IInv, TypeOK, Wrap
  <2>2. buffer'[Wrap(get_pos + i)] = buffer[Wrap(get_pos + i)]
    BY <1>1, <2>1 DEF IInv, TypeOK
  <2> QED
    BY <1>1, <1>2, <2>2 DEF HistoryInv, Wrap
<1>8. ASSUME NEW u \in Threads, call'[u] \in {"admitted", "locked", "stored"}
      PROVE  fate'[Current(u)'] = "new"
  <2>1. call[u] \in {"admitted", "locked", "stored"}
    BY <1>1, <1>8 DEF IInv, TypeOK
  <2> QED
    BY <1>1, <1>2, <2>1 DEF HistoryInv
<1> QED
  BY <1>1, <1>5, <1>6, <1>7, <1>8 DEF HistoryInv, Wrap

LEMMA HistoryOverflow ==
  ASSUME IInv, HistoryInv, NEW t \in Threads, Overflow(t)
  PROVE  HistoryInv'
<1>1. /\ fate' = [fate EXCEPT ![Current(t)] = "lost"] /\ call' = [call EXCEPT ![t] = "pushed"]
      /\ UNCHANGED ring /\ UNCHANGED <<loop, posted, running>> /\ call[t] = "locked"
  BY DEF Overflow
<1>2. Readable' = Readable /\ \A u : Current(u)' = Current(u)
  BY <1>1 DEF Readable, Current, ring
<1>3. Current(t) \in Events /\ posted[t] \in Nat
  BY <1>1, CurrentIsEvent DEF IInv, TypeOK
<1>4. \A f \in Events : f # Current(t) => fate'[f] = fate[f]
  BY <1>1, <1>3 DEF IInv, TypeOK
<1>5. \A f \in Events : fate[f] # "new" => fate'[f] # "new"
  BY <1>1, <1>3 DEF IInv, TypeOK
<1>6. \A f \in Events : f[2] > posted'[f[1]] => fate'[f] = "new"
  BY <1>1, <1>3, <1>4 DEF HistoryInv, Current
<1>7. ASSUME NEW u \in Threads, call'[u] \in {"admitted", "locked", "stored"}
      PROVE  fate'[Current(u)'] = "new"
  <2>1. u # t /\ call[u] = call'[u]
    BY <1>1, <1>7 DEF IInv, TypeOK
  <2>2. Current(u) \in Events /\ Current(u) # Current(t)
    BY <1>7, <2>1, CurrentIsEvent, EventsApart DEF IInv
  <2> QED
    BY <1>2, <1>4, <1>7, <2>1, <2>2 DEF HistoryInv
<1>8. ASSUME NEW u \in Threads, call'[u] = "stored"
      PROVE  buffer'[Wrap(get_pos' + Readable')] = Current(u)'
  <2>1. call[u] = "stored"
    BY <1>1, <1>8 DEF IInv, TypeOK
  <2> QED
    BY <1>1, <1>2, <2>1 DEF HistoryInv, ring
<1>9. running' # NoEvent => fate'[running'] # "new"
  BY <1>1, <1>5 DEF HistoryInv, IInv, TypeOK
<1>10. ASSUME NEW i \in 0..Readable' - 1 PROVE fate'[buffer'[Wrap(get_pos' + i)]] # "new"
  BY <1>1, <1>2, <1>5, ReadableBounds DEF HistoryInv, ring, Wrap
<1> QED
  BY <1>6, <1>7, <1>8, <1>9, <1>10 DEF HistoryInv, Wrap

LEMMA HistoryCount ==
  ASSUME IInv, HistoryInv, NEW t \in Threads, Count(t)
  PROVE  HistoryInv'
<1>1. /\ fate' = [fate EXCEPT ![Current(t)] = "queued"] /\ call' = [call EXCEPT ![t] = "pushed"]
      /\ num_datas' = num_datas + 1
      /\ UNCHANGED <<buffer, get_pos, loop, posted, running>> /\ call[t] = "stored"
  BY DEF Count
<1>2. Readable' = Readable + 1 /\ Readable \in Nat /\ \A u : Current(u)' = Current(u)
  BY <1>1, ReadableBounds DEF Readable, Current, IInv, TypeOK
<1>3. Current(t) \in Events /\ posted[t] \in Nat
  BY <1>1, CurrentIsEvent DEF IInv, TypeOK
<1>4. \A f \in Events : f # Current(t) => fate'[f] = fate[f]
  BY <1>1, <1>3 DEF IInv, TypeOK
<1>5. \A f \in Events : fate[f] # "new" => fate'[f] # "new"
  BY <1>1, <1>3 DEF IInv, TypeOK
<1>6. \A f \in Events : f[2] > posted'[f[1]] => fate'[f] = "new"
  BY <1>1, <1>3, <1>4 DEF HistoryInv, Current
<1>7. ASSUME NEW u \in Threads, call'[u] \in {"admitted", "locked", "stored"}
      PROVE  fate'[Current(u)'] = "new" /\ call'[u] # "stored"
  <2>1. u # t /\ call[u] = call'[u]
    BY <1>1, <1>7 DEF IInv, TypeOK
  <2>2. Current(u) \in Events /\ Current(u) # Current(t)
    BY <1>7, <2>1, CurrentIsEvent, EventsApart DEF IInv
  <2>3. call[u] # "stored"
    BY <1>1, <2>1 DEF IInv, MutexInv, Holding
  <2> QED
    BY <1>2, <1>4, <1>7, <2>1, <2>2, <2>3 DEF HistoryInv
<1>8. running' # NoEvent => fate'[running'] # "new"
  BY <1>1, <1>5 DEF HistoryInv, IInv, TypeOK
<1>9. ASSUME NEW i \in 0..Readable' - 1 PROVE fate'[buffer'[Wrap(get_pos' + i)]] # "new"
  <2>1. CASE i = Readable
    <3>1. buffer[Wrap(get_pos + i)] = Current(t)
      BY <1>1, <2>1 DEF HistoryInv
    <3> QED
      BY <1>1, <1>3, <3>1 DEF IInv, TypeOK, Wrap
  <2>2. CASE i # Readable
    <3>1. i \in 0..Readable - 1
      BY <1>2, <2>2
    <3> QED
      BY <1>1, <1>2, <1>5, <3>1, ReadableBounds DEF HistoryInv, Wrap
  <2> QED
    BY <2>1, <2>2
<1> QED
  BY <1>6, <1>7, <1>8, <1>9 DEF HistoryInv, Wrap

LEMMA HistoryPopSlot ==
  ASSUME IInv, HistoryInv, PopSlot
  PROVE  HistoryInv'
<1>1. /\ loop = "pop" /\ loop' = "taken" /\ num_datas > 0
      /\ running' = buffer[get_pos]
      /\ buffer' = [buffer EXCEPT ![get_pos] = NoEvent]
      /\ get_pos' = Wrap(get_pos + 1)
      /\ UNCHANGED <<num_datas, call, posted, fate>>
  BY CapacityAssumption DEF PopSlot, Successor, Wrap, IInv, TypeOK
<1>2. Readable = num_datas /\ Readable' = Readable - 1 /\ \A u : Current(u)' = Current(u)
  BY <1>1 DEF Readable, Current, IInv, TypeOK
<1>3. Readable \in 1..Capacity /\ Wrap(get_pos + 0) = get_pos
  BY <1>1, <1>2, CapacityAssumption DEF IInv, TypeOK, Wrap
<1>4. \A i \in 0..Capacity - 2 : /\ Wrap(get_pos' + i) = Wrap(get_pos + (i + 1))
                                  /\ Wrap(get_pos' + i) \in 0..Capacity - 1
                                  /\ Wrap(get_pos' + i) # get_pos
  BY <1>1, CapacityAssumption DEF IInv, TypeOK, Wrap
<1>5. \A i \in 0..Capacity - 2 : buffer'[Wrap(get_pos' + i)] = buffer[Wrap(get_pos + (i + 1))]
  BY <1>1, <1>4 DEF IInv, TypeOK
<1>6. fate'[running'] # "new"
  <2>1. fate[buffer[Wrap(get_pos + 0)]] # "new"
    BY <1>3 DEF HistoryInv
  <2> QED
    BY <1>1, <1>3, <2>1
<1>7. ASSUME NEW i \in 0..Readable' - 1 PROVE fate'[buffer'[Wrap(get_pos' + i)]] # "new"
  <2>1. i \in 0..Capacity - 2 /\ i + 1 \in 0..Readable - 1
    BY <1>2, <1>3, CapacityAssumption
  <2>2. fate[buffer[Wrap(get_pos + (i + 1))]] # "new"
    BY <2>1 DEF HistoryInv
  <2> QED
    BY <1>1, <1>5, <2>1, <2>2
<1>8. ASSUME NEW u \in Threads, call'[u] = "stored"
      PROVE  buffer'[Wrap(get_pos' + Readable')] = Current(u)'
  <2>1. call[u] = "stored" /\ Uncounted = 1
    BY <1>1, <1>8, HolderOnly DEF Holding
  <2>2. Readable' \in 0..Capacity - 2
    BY <1>2, <1>3, <2>1, CapacityAssumption DEF IInv, TypeOK, RingInv
  <2>3. buffer'[Wrap(get_pos' + Readable')] = buffer[Wrap(get_pos + Readable)]
    BY <1>2, <1>3, <1>5, <2>2
  <2> QED
    BY <1>2, <2>1, <2>3 DEF HistoryInv
<1> QED
  BY <1>1, <1>2, <1>6, <1>7, <1>8 DEF HistoryInv, Wrap

LEMMA HistoryPopCount ==
  ASSUME IInv, HistoryInv, PopCount
  PROVE  HistoryInv'
<1>1. UNCHANGED <<buffer, get_pos, call, posted, fate, running>>
  BY DEF PopCount
<1>2. Readable' = Readable /\ \A u : Current(u)' = Current(u)
  BY DEF PopCount, Readable, Current, IInv, TypeOK
<1> QED
  BY <1>1, <1>2 DEF HistoryInv, Wrap

LEMMA HistoryReturn ==
  ASSUME IInv, HistoryInv, Return
  PROVE  HistoryInv'
<1>1. /\ fate' = [fate EXCEPT ![running] = "ran"] /\ running' = NoEvent
      /\ running \in Events /\ running # NoEvent
      /\ UNCHANGED ring /\ call' = call /\ posted' = posted
      /\ loop' # "taken" /\ loop # "taken"
  BY DEF Return, IInv, TypeOK, CallbackInv
<1>2. Readable' = Readable /\ \A u : Current(u)' = Current(u)
  BY <1>1 DEF Readable, Current, ring
<1>3. \A f \in Events : fate[f] # "new" <=> fate'[f] # "new"
  BY <1>1 DEF HistoryInv, IInv, TypeOK
<1>4. \A f \in Events : f[2] > posted'[f[1]] => fate'[f] = "new"
  BY <1>1, <1>3 DEF HistoryInv
<1>5. ASSUME NEW u \in Threads, call'[u] \in {"admitted", "locked", "stored"}
      PROVE  fate'[Current(u)'] = "new"
  <2>1. call[u] = call'[u] /\ Current(u) \in Events
    BY <1>1, <1>5, CurrentIsEvent DEF IInv
  <2> QED
    BY <1>2, <1>3, <1>5, <2>1 DEF HistoryInv
<1>6. ASSUME NEW i \in 0..Readable' - 1 PROVE fate'[buffer'[Wrap(get_pos' + i)]] # "new"
  <2>1. i \in 0..Written - 1 /\ i \in 0..Readable - 1
    BY <1>2, ReadableBounds
  <2>2. buffer[Wrap(get_pos + i)] \in Events /\ fate[buffer[Wrap(get_pos + i)]] # "new"
    BY <2>1, ReadableBounds DEF HistoryInv
  <2> QED
    BY <1>1, <1>3, <2>2 DEF ring
<1> QED
  BY <1>1, <1>2, <1>4, <1>5, <1>6 DEF HistoryInv, Wrap, ring

LEMMA HistoryStep == IInv /\ HistoryInv /\ [Next]_vars => HistoryInv'
<1> SUFFICES ASSUME IInv, HistoryInv, [Next]_vars PROVE HistoryInv'
  OBVIOUS
<1>1. ASSUME NEW t \in Threads, Refuse(t) \/ Admit(t) \/ Store(t) \/ Overflow(t) \/ Count(t)
      PROVE  HistoryInv'
  BY <1>1, HistoryRefuse, HistoryAdmit, HistoryStore, HistoryOverflow, HistoryCount
<1>2. ASSUME NEW t \in Threads, Lock(t) \/ Signal(t) PROVE HistoryInv'
  <2>1. UNCHANGED ring /\ UNCHANGED <<fate, posted, running>> /\ loop' = loop
    BY <1>2 DEF Lock, Signal
  <2>2. CallShrinks
    BY <1>2 DEF Lock, Signal, IInv, TypeOK, CallShrinks
  <2> QED
    BY <2>1, <2>2, HistoryUntouched
<1>3. CASE PopSlot \/ PopCount \/ Return
  BY <1>3, HistoryPopSlot, HistoryPopCount, HistoryReturn
<1>4. CASE \/ Boot \/ Test \/ PopNothing \/ More \/ PollPipe \/ PollOther
           \/ Dispatched \/ WakeRead \/ WakeDone
  <2>1. UNCHANGED ring /\ UNCHANGED <<fate, posted, running>> /\ call' = call
    BY <1>4 DEF Boot, Test, PopNothing, More, PollPipe, PollOther, Dispatched, WakeRead, WakeDone
  <2>2. loop # "taken" /\ loop' # "taken"
    BY <1>4 DEF Boot, Test, PopNothing, More, PollPipe, PollOther, Dispatched, WakeRead, WakeDone
  <2> QED
    BY <2>1, <2>2, HistoryUntouched DEF CallShrinks
<1>5. CASE StopFlag \/ StopSignal \/ UNCHANGED vars
  <2>1. UNCHANGED ring /\ UNCHANGED <<fate, posted, running>> /\ call' = call /\ loop' = loop
    BY <1>5 DEF StopFlag, StopSignal, vars, ring
  <2> QED
    BY <2>1, HistoryUntouched DEF CallShrinks
<1> QED
  BY <1>1, <1>2, <1>3, <1>4, <1>5 DEF Next, Call, SchedulerStep

-----------------------------------------------------------------------------
(***************************************************************************)
(* The refinement.                                                         *)
(***************************************************************************)

LEMMA QueueIsSeq ==
  ASSUME IInv
  PROVE  Queue \in Seq(Events) /\ Len(Queue) = Readable /\ Readable \in Nat
<1>1. Readable \in Nat
  BY ReadableBounds
<1>2. ASSUME NEW i \in 1..Readable PROVE buffer[Wrap(get_pos + i - 1)] \in Events
  <2>1. i - 1 \in 0..Written - 1 /\ get_pos + (i - 1) = get_pos + i - 1
    BY ReadableBounds DEF IInv, TypeOK
  <2> QED
    BY <2>1, ReadableBounds
<1>3. DOMAIN Queue = 1..Readable /\ Queue \in [1..Readable -> Events]
  BY <1>1, <1>2 DEF Queue
<1> QED
  BY <1>1, <1>3

LEMMA QueueUntouched ==
  ASSUME UNCHANGED ring, loop' = "taken" <=> loop = "taken"
  PROVE  Queue' = Queue
<1>1. Readable' = Readable
  BY DEF ring, Readable
<1> QED
  BY <1>1 DEF Queue, ring, Wrap

LEMMA CountPosts ==
  ASSUME IInv, HistoryInv, NEW t \in Threads, Count(t)
  PROVE  Fifo!Post(Current(t))
<1>1. /\ num_datas' = num_datas + 1 /\ call[t] = "stored" /\ Uncounted = 1
      /\ fate' = [fate EXCEPT ![Current(t)] = "queued"]
      /\ buffer' = buffer /\ get_pos' = get_pos /\ loop' = loop /\ running' = running
  BY HolderOnly DEF Count, Holding
<1>2. Readable' = Readable + 1 /\ Readable \in Nat
  BY <1>1, ReadableBounds DEF Readable, IInv, TypeOK
<1>3. fate[Current(t)] = "new" /\ buffer[Wrap(get_pos + Readable)] = Current(t)
  BY <1>1 DEF HistoryInv
<1>4. Fifo!PlacesTaken < Capacity
  <2>1. Fifo!PlacesTaken = num_datas
    BY QueueIsSeq DEF Fifo!PlacesTaken, Readable, IInv, TypeOK
  <2> QED
    BY <1>1, <2>1, CapacityAssumption DEF IInv, RingInv, TypeOK
<1>5. Queue' = Append(Queue, Current(t))
  <2>1. Queue' = [i \in 1..Readable + 1 |-> buffer[Wrap(get_pos + i - 1)]]
    BY <1>1, <1>2 DEF Queue, Wrap
  <2>2. /\ Append(Queue, Current(t)) \in Seq(Events)
        /\ Len(Append(Queue, Current(t))) = Readable + 1
        /\ \A i \in 1..Readable + 1 :
             Append(Queue, Current(t))[i] = IF i = Readable + 1 THEN Current(t) ELSE Queue[i]
    BY <1>1, CurrentIsEvent, QueueIsSeq DEF IInv
  <2>3. ASSUME NEW i \in 1..Readable + 1
        PROVE  buffer[Wrap(get_pos + i - 1)] = IF i = Readable + 1 THEN Current(t) ELSE Queue[i]
    <3>1. CASE i = Readable + 1
      <4>1. get_pos + i - 1 = get_pos + Readable
        BY <1>2, <3>1 DEF IInv, TypeOK
      <4> QED
        BY <1>3, <3>1, <4>1
    <3>2. CASE i # Readable + 1
      BY <1>2, <3>2 DEF Queue
    <3> QED
      BY <3>1, <3>2
  <2>4. Append(Queue, Current(t)) = [i \in 1..Readable + 1 |-> Append(Queue, Current(t))[i]]
    BY <2>2, LenProperties
  <2> QED
    BY <2>1, <2>2, <2>3, <2>4
<1> QED
  BY <1>1, <1>3, <1>4, <1>5 DEF Fifo!Post

LEMMA PopSlotTakes ==
  ASSUME IInv, PopSlot
  PROVE  Fifo!Take
<1>1. /\ loop = "pop" /\ loop' = "taken" /\ num_datas > 0 /\ num_datas' = num_datas
      /\ running' = buffer[get_pos] /\ fate' = fate
      /\ buffer' = [buffer EXCEPT ![get_pos] = NoEvent]
      /\ get_pos' = Wrap(get_pos + 1)
  BY CapacityAssumption DEF PopSlot, Successor, Wrap, IInv, TypeOK
<1>2. running = NoEvent
  BY <1>1 DEF IInv, CallbackInv
<1>3. Readable = num_datas /\ Readable' = Readable - 1 /\ Readable \in 1..Capacity
  BY <1>1, CapacityAssumption DEF Readable, IInv, TypeOK
<1>4. Queue # <<>> /\ running' = Head(Queue)
  <2>1. Queue[1] = buffer[get_pos]
    BY <1>3, CapacityAssumption DEF Queue, Wrap, IInv, TypeOK
  <2> QED
    BY <1>1, <1>3, <2>1, QueueIsSeq
<1>5. Queue' = Tail(Queue)
  <2>1. Queue' = [i \in 1..Readable - 1 |-> buffer'[Wrap(get_pos' + i - 1)]]
    BY <1>3 DEF Queue, Wrap
  <2>2. Tail(Queue) = [i \in 1..Readable - 1 |-> Queue[i + 1]]
    <3>1. /\ Tail(Queue) \in Seq(Events) /\ Len(Tail(Queue)) = Readable - 1
          /\ \A i \in 1..Readable - 1 : Tail(Queue)[i] = Queue[i + 1]
      BY <1>3, <1>4, QueueIsSeq, HeadTailProperties
    <3>2. Tail(Queue) = [i \in 1..Readable - 1 |-> Tail(Queue)[i]]
      BY <3>1, LenProperties
    <3> QED
      BY <3>1, <3>2
  <2>3. ASSUME NEW i \in 1..Readable - 1
        PROVE  buffer'[Wrap(get_pos' + i - 1)] = Queue[i + 1]
    <3>1. i + 1 \in 1..Readable /\ i <= Capacity - 1
      BY <1>3, CapacityAssumption
    <3>2. /\ Wrap(get_pos' + i - 1) = Wrap(get_pos + (i + 1) - 1)
          /\ Wrap(get_pos' + i - 1) # get_pos
          /\ Wrap(get_pos' + i - 1) \in 0..Capacity - 1
      BY <1>1, <3>1, CapacityAssumption DEF Wrap, IInv, TypeOK
    <3>3. buffer'[Wrap(get_pos' + i - 1)] = buffer[Wrap(get_pos + (i + 1) - 1)]
      BY <1>1, <3>2 DEF IInv, TypeOK
    <3> QED
      BY <3>1, <3>3 DEF Queue
  <2> QED
    BY <2>1, <2>2, <2>3
<1> QED
  BY <1>1, <1>2, <1>4, <1>5 DEF Fifo!Take

LEMMA PopCountReleases ==
  ASSUME IInv, PopCount
  PROVE  Fifo!Release
<1>1. loop = "taken" /\ loop' = "callback" /\ running' = running /\ fate' = fate
  BY DEF PopCount
<1>2. Readable' = Readable /\ buffer' = buffer /\ get_pos' = get_pos
  BY DEF PopCount, Readable, IInv, TypeOK
<1>3. Queue' = Queue
  BY <1>2 DEF Queue, Wrap
<1> QED
  BY <1>1, <1>3 DEF Fifo!Release

LEMMA ReturnFinishes ==
  ASSUME IInv, Return
  PROVE  Fifo!Finish
<1>1. /\ loop = "callback" /\ loop' = "more" /\ running' = NoEvent
      /\ fate' = [fate EXCEPT ![running] = "ran"] /\ UNCHANGED ring
  BY DEF Return
<1>2. Queue' = Queue
  BY <1>1, QueueUntouched
<1>3. running # NoEvent
  BY <1>1 DEF IInv, CallbackInv
<1> QED
  BY <1>1, <1>2, <1>3 DEF Fifo!Finish

LEMMA PlacesAreDatas ==
  ASSUME IInv
  PROVE  Fifo!PlacesTaken = num_datas
BY QueueIsSeq DEF Fifo!PlacesTaken, Readable, IInv, TypeOK

LEMMA RefuseTurnsAway ==
  ASSUME IInv, HistoryInv, NEW t \in Threads, Refuse(t)
  PROVE  Fifo!TurnAway(<<t, posted[t] + 1>>) /\ <<t, posted[t] + 1>> \in Events
<1>1. <<t, posted[t] + 1>> \in Events
  BY NextIsEvent DEF Refuse, IInv
<1>2. fate[<<t, posted[t] + 1>>] = "new"
  BY <1>1, PostsAssumption DEF HistoryInv, IInv, TypeOK
<1>3. num_datas = Capacity
  BY CapacityAssumption DEF Refuse, MayAdmit, IInv, TypeOK
<1>4. fate' = [fate EXCEPT ![<<t, posted[t] + 1>>] = "refused"] /\ UNCHANGED ring
      /\ running' = running /\ loop' = loop
  BY DEF Refuse
<1>5. Queue' = Queue
  BY <1>4, QueueUntouched
<1> QED
  BY <1>1, <1>2, <1>3, <1>4, <1>5, PlacesAreDatas DEF Fifo!TurnAway

LEMMA OverflowTurnsAway ==
  ASSUME IInv, HistoryInv, NEW t \in Threads, Overflow(t)
  PROVE  Fifo!TurnAway(Current(t)) /\ Current(t) \in Events
<1>1. Current(t) \in Events
  BY CurrentIsEvent DEF Overflow, IInv
<1>2. fate[Current(t)] = "new"
  BY DEF HistoryInv, Overflow
<1>3. num_datas = Capacity
  BY CapacityAssumption DEF Overflow, HasSlot, IInv, TypeOK
<1>4. fate' = [fate EXCEPT ![Current(t)] = "lost"] /\ UNCHANGED ring
      /\ running' = running /\ loop' = loop
  BY DEF Overflow
<1>5. Queue' = Queue
  BY <1>4, QueueUntouched
<1> QED
  BY <1>1, <1>2, <1>3, <1>4, <1>5, PlacesAreDatas DEF Fifo!TurnAway

\* A step of the scheduler that the FIFO does not see.
LEMMA Stutter ==
  ASSUME UNCHANGED ring, running' = running, fate' = fate, loop' = "taken" <=> loop = "taken"
  PROVE  UNCHANGED Fifo!vars
BY QueueUntouched DEF Fifo!vars

LEMMA FifoInit == Init => Fifo!Init
<1> SUFFICES ASSUME Init PROVE Fifo!Init
  OBVIOUS
<1>1. Readable = 0
  BY DEF Init, Readable
<1>2. Queue = <<>>
  BY <1>1 DEF Queue
<1> QED
  BY <1>2 DEF Init, Fifo!Init

LEMMA FifoStep == IInv /\ HistoryInv /\ [Next]_vars => [Fifo!Next]_(Fifo!vars)
<1> SUFFICES ASSUME IInv, HistoryInv, [Next]_vars PROVE [Fifo!Next]_(Fifo!vars)
  OBVIOUS
<1>1. ASSUME NEW t \in Threads, Refuse(t) \/ Overflow(t) PROVE Fifo!Next
  BY <1>1, RefuseTurnsAway, OverflowTurnsAway DEF Fifo!Next
<1>2. ASSUME NEW t \in Threads, Count(t) PROVE Fifo!Next
  <2>1. Current(t) \in Events
    BY <1>2, CurrentIsEvent DEF Count, IInv
  <2> QED
    BY <1>2, <2>1, CountPosts DEF Fifo!Next
<1>3. CASE PopSlot \/ PopCount \/ Return
  BY <1>3, PopSlotTakes, PopCountReleases, ReturnFinishes DEF Fifo!Next
<1>4. ASSUME NEW t \in Threads, Admit(t) \/ Lock(t) \/ Signal(t) PROVE UNCHANGED Fifo!vars
  <2>1. UNCHANGED ring /\ running' = running /\ fate' = fate /\ loop' = loop
    BY <1>4 DEF Admit, Lock, Signal
  <2> QED
    BY <2>1, Stutter
<1>5. ASSUME NEW t \in Threads, Store(t) PROVE UNCHANGED Fifo!vars
  <2>1. /\ buffer' = [buffer EXCEPT ![put_pos] = Current(t)] /\ get_pos' = get_pos
        /\ num_datas' = num_datas /\ loop' = loop /\ running' = running /\ fate' = fate
    BY <1>5 DEF Store
  <2>2. Readable' = Readable
    BY <2>1 DEF Readable
  <2>3. Uncounted = 0 /\ put_pos = Wrap(get_pos + Readable) /\ Readable \in 0..Capacity - 1
    <3>1. Uncounted = 0
      BY <1>5, HolderOnly DEF Store, Holding
    <3>2. Written = Readable
      BY <3>1, ReadableBounds DEF Written
    <3>3. Readable < Capacity
      BY <1>5, ReadableBounds, CapacityAssumption DEF Store, HasSlot, Readable, IInv, TypeOK
    <3> QED
      BY <3>1, <3>2, <3>3, ReadableBounds, CapacityAssumption DEF IInv, RingInv
  <2>4. ASSUME NEW i \in 1..Readable
        PROVE  buffer'[Wrap(get_pos + i - 1)] = buffer[Wrap(get_pos + i - 1)]
    <3>1. Wrap(get_pos + i - 1) # put_pos /\ Wrap(get_pos + i - 1) \in 0..Capacity - 1
      BY <2>3, CapacityAssumption DEF Wrap, IInv, TypeOK
    <3> QED
      BY <2>1, <3>1 DEF IInv, TypeOK
  <2>5. Queue' = Queue
    BY <2>1, <2>2, <2>4 DEF Queue, Wrap
  <2> QED
    BY <2>1, <2>5 DEF Fifo!vars
<1>6. CASE \/ Boot \/ Test \/ PopNothing \/ More \/ PollPipe \/ PollOther
           \/ Dispatched \/ WakeRead \/ WakeDone
  <2>1. UNCHANGED ring /\ running' = running /\ fate' = fate
    BY <1>6 DEF Boot, Test, PopNothing, More, PollPipe, PollOther, Dispatched, WakeRead, WakeDone
  <2>2. loop # "taken" /\ loop' # "taken"
    BY <1>6 DEF Boot, Test, PopNothing, More, PollPipe, PollOther, Dispatched, WakeRead, WakeDone
  <2> QED
    BY <2>1, <2>2, Stutter
<1>7. CASE StopFlag \/ StopSignal \/ UNCHANGED vars
  <2>1. UNCHANGED ring /\ running' = running /\ fate' = fate /\ loop' = loop
    BY <1>7 DEF StopFlag, StopSignal, vars, ring
  <2> QED
    BY <2>1, Stutter
<1> QED
  BY <1>1, <1>2, <1>3, <1>4, <1>5, <1>6, <1>7 DEF Next, Call, SchedulerStep

\* Events run in the order in which AddTriggerEvent counted them, each at most
\* once, and are turned away only when every place is taken, however the
\* posters and the scheduler interleave and whatever the capacity.
THEOREM RingIsFifo == Spec => ImplementsFifo
<1>1. Spec => []HistoryInv
  BY HistoryInit, HistoryStep, Invariance, PTL DEF Spec
<1> QED
  BY <1>1, FifoInit, FifoStep, Invariance, PTL DEF Spec, ImplementsFifo, Fifo!Spec

=============================================================================
