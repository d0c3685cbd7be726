--------------------------- MODULE TaskScheduler ---------------------------
(***************************************************************************)
(* One TaskScheduler of rtsp-server/net: its RingBuffer of trigger events, *)
(* its wake-up pipe and its event loop.                                    *)
(*                                                                         *)
(* Any thread may call AddTriggerEvent (the encoder's push thread with a   *)
(* packet to send, OBS threads closing connections); the scheduler thread  *)
(* itself calls it from inside a callback (a connection that closes posts  *)
(* its own removal).  Posters are serialised by mutex_, but the first size *)
(* test is made outside it, and Pop takes no lock at all: it shares only   *)
(* the atomic num_datas_ with the posters.  A step of this module is one   *)
(* access to a variable that another thread may be using.                  *)
(*                                                                         *)
(* Timers and the other channels of the poller appear only as reasons for  *)
(* HandleEvent to return (PollOther).                                      *)
(***************************************************************************)
EXTENDS Integers, FiniteSets

CONSTANTS
  Posters,          \* the threads, other than the scheduler's, that post events
  SchedulerThread,  \* the thread that runs TaskScheduler::Start
  Capacity,         \* kMaxTriggetEvents
  PipeCapacity,     \* bytes the wake-up pipe holds: a write to a full one fails
  WakeChunk,        \* bytes that one read of Wake takes
  MaxPosts,         \* bound of the model: calls of AddTriggerEvent of each thread
  NoThread,         \* mutex_ is free
  NoEvent           \* an empty std::function

Threads == Posters \cup {SchedulerThread}
Events  == UNION {{t} \X (1..MaxPosts[t]) : t \in Threads}

ASSUME CapacityAssumption == Capacity \in Nat \ {0}
ASSUME PipeAssumption     == PipeCapacity \in Nat \ {0} /\ WakeChunk \in Nat \ {0}
ASSUME PostsAssumption    == MaxPosts \in [Threads -> Nat]
ASSUME ThreadAssumption   == SchedulerThread \notin Posters /\ NoThread \notin Threads
ASSUME EventAssumption    == NoEvent \notin Events

VARIABLES
  buffer,       \* RingBuffer::buffer_
  put_pos,      \* RingBuffer::put_pos_
  get_pos,      \* RingBuffer::get_pos_
  num_datas,    \* RingBuffer::num_datas_
  mutex,        \* holder of TaskScheduler::mutex_
  pipe,         \* bytes in wakeup_pipe_
  is_shutdown,  \* TaskScheduler::is_shutdown_
  call,         \* where each thread is in AddTriggerEvent
  posted,       \* how many calls of AddTriggerEvent each thread has begun
  loop,         \* where the scheduler thread is in Start
  running,      \* the local variable callback of HandleTriggerEvent
  stop,         \* where the thread that calls Stop is
  fate,         \* history: what became of each event
  raced         \* history: threads that were overtaken since their size test

ring == <<buffer, put_pos, get_pos, num_datas>>
vars == <<buffer, put_pos, get_pos, num_datas, mutex, pipe, is_shutdown, call,
          posted, loop, running, stop, fate, raced>>

\* The event of the call that thread t is in.
Current(t) == <<t, posted[t]>>

\* RingBuffer::Add
Successor(pos) == IF pos + 1 = Capacity THEN 0 ELSE pos + 1

\* Mutant: the size test lets a call in when the ring is full.
MayAdmitFull == num_datas <= Capacity

\* The test Size() < kMaxTriggetEvents of AddTriggerEvent.
MayAdmit == num_datas < Capacity

\* Mutant: PushData takes a full ring for one with a free slot.
HasSlotWhenFull == num_datas <= Capacity

\* The test num_datas_ < capacity_ of PushData.
HasSlot == num_datas < Capacity

\* A write to the non-blocking pipe; its result is ignored.
PipeWithOneMore == IF pipe < PipeCapacity THEN pipe + 1 ELSE pipe

Init ==
  /\ buffer = [i \in 0..Capacity - 1 |-> NoEvent]
  /\ put_pos = 0
  /\ get_pos = 0
  /\ num_datas = 0
  /\ mutex = NoThread
  /\ pipe = 0
  /\ is_shutdown = FALSE
  /\ call = [t \in Threads |-> "idle"]
  /\ posted = [t \in Threads |-> 0]
  /\ loop = "boot"
  /\ running = NoEvent
  /\ stop = "none"
  /\ fate = [e \in Events |-> "new"]
  /\ raced = {}

-----------------------------------------------------------------------------
(***************************************************************************)
(* AddTriggerEvent                                                         *)
(***************************************************************************)

\* The scheduler thread posts only from a trigger callback or from the
\* callback of a channel or timer.
MayPost(t) ==
  /\ call[t] = "idle"
  /\ posted[t] < MaxPosts[t]
  /\ t = SchedulerThread => loop \in {"callback", "dispatch"}

\* No room: return false.
Refuse(t) ==
  /\ MayPost(t)
  /\ ~MayAdmit
  /\ posted' = [posted EXCEPT ![t] = @ + 1]
  /\ fate' = [fate EXCEPT ![<<t, posted[t] + 1>>] = "refused"]
  /\ UNCHANGED <<ring, mutex, pipe, is_shutdown, call, loop, running, stop, raced>>

\* Room for one more, as read before mutex_ is taken.
Admit(t) ==
  /\ MayPost(t)
  /\ MayAdmit
  /\ posted' = [posted EXCEPT ![t] = @ + 1]
  /\ call' = [call EXCEPT ![t] = "admitted"]
  /\ raced' = raced \ {t}
  /\ UNCHANGED <<ring, mutex, pipe, is_shutdown, loop, running, stop, fate>>

\* Mutant: PushData is entered without mutex_.
LockNothing(t) ==
  /\ call[t] = "admitted"
  /\ call' = [call EXCEPT ![t] = "locked"]
  /\ UNCHANGED <<ring, mutex, pipe, is_shutdown, posted, loop, running, stop, fate, raced>>

\* std::lock_guard lock(mutex_)
Lock(t) ==
  /\ call[t] = "admitted"
  /\ mutex = NoThread
  /\ mutex' = t
  /\ call' = [call EXCEPT ![t] = "locked"]
  /\ UNCHANGED <<ring, pipe, is_shutdown, posted, loop, running, stop, fate, raced>>

\* PushData: the slot is written and put_pos_ moved before num_datas_ grows.
Store(t) ==
  /\ call[t] = "locked"
  /\ HasSlot
  /\ buffer' = [buffer EXCEPT ![put_pos] = Current(t)]
  /\ put_pos' = Successor(put_pos)
  /\ call' = [call EXCEPT ![t] = "stored"]
  /\ UNCHANGED <<get_pos, num_datas, mutex, pipe, is_shutdown, posted, loop,
                 running, stop, fate, raced>>

\* PushData finds the ring full: AddTriggerEvent ignores the result, writes
\* to the pipe and returns true all the same.
Overflow(t) ==
  /\ call[t] = "locked"
  /\ ~HasSlot
  /\ fate' = [fate EXCEPT ![Current(t)] = "lost"]
  /\ call' = [call EXCEPT ![t] = "pushed"]
  /\ UNCHANGED <<ring, mutex, pipe, is_shutdown, posted, loop, running, stop, raced>>

\* ++num_datas_
Count(t) ==
  /\ call[t] = "stored"
  /\ num_datas' = num_datas + 1
  /\ fate' = [fate EXCEPT ![Current(t)] = "queued"]
  /\ raced' = raced \cup {u \in Threads \ {t} : call[u] = "admitted"}
  /\ call' = [call EXCEPT ![t] = "pushed"]
  /\ UNCHANGED <<buffer, put_pos, get_pos, mutex, pipe, is_shutdown, posted, loop,
                 running, stop>>

\* wakeup_pipe_->Write and the release of mutex_.
Signal(t) ==
  /\ call[t] = "pushed"
  /\ pipe' = PipeWithOneMore
  /\ mutex' = NoThread
  /\ call' = [call EXCEPT ![t] = "idle"]
  /\ UNCHANGED <<ring, is_shutdown, posted, loop, running, stop, fate, raced>>

Call(t) == Lock(t) \/ Store(t) \/ Overflow(t) \/ Count(t) \/ Signal(t)

-----------------------------------------------------------------------------
(***************************************************************************)
(* The scheduler thread: Start                                             *)
(***************************************************************************)

\* is_shutdown_ = false, whatever Stop may have written before.
Boot ==
  /\ loop = "boot"
  /\ is_shutdown' = FALSE
  /\ loop' = "test"
  /\ UNCHANGED <<ring, mutex, pipe, call, posted, running, stop, fate, raced>>

\* while (!is_shutdown_)
Test ==
  /\ loop = "test"
  /\ loop' = IF is_shutdown THEN "done" ELSE "pop"
  /\ UNCHANGED <<ring, mutex, pipe, is_shutdown, call, posted, running, stop, fate, raced>>

\* Pop of an empty ring.
PopNothing ==
  /\ loop = "pop"
  /\ num_datas = 0
  /\ loop' = "more"
  /\ UNCHANGED <<ring, mutex, pipe, is_shutdown, call, posted, running, stop, fate, raced>>

\* Pop: the slot is moved from (which empties it) and get_pos_ advanced ...
PopSlot ==
  /\ loop = "pop"
  /\ num_datas > 0
  /\ running' = buffer[get_pos]
  /\ buffer' = [buffer EXCEPT ![get_pos] = NoEvent]
  /\ get_pos' = Successor(get_pos)
  /\ loop' = "taken"
  /\ UNCHANGED <<put_pos, num_datas, mutex, pipe, is_shutdown, call, posted, stop,
                 fate, raced>>

\* ... before --num_datas_ gives the slot back to the posters.
PopCount ==
  /\ loop = "taken"
  /\ num_datas' = num_datas - 1
  /\ loop' = "callback"
  /\ UNCHANGED <<buffer, put_pos, get_pos, mutex, pipe, is_shutdown, call, posted,
                 running, stop, fate, raced>>

\* callback() returns; it may have posted events of its own in between.
Return ==
  /\ loop = "callback"
  /\ call[SchedulerThread] = "idle"
  /\ fate' = [fate EXCEPT ![running] = "ran"]
  /\ running' = NoEvent
  /\ loop' = "more"
  /\ UNCHANGED <<ring, mutex, pipe, is_shutdown, call, posted, stop, raced>>

\* Mutant: HandleTriggerEvent runs one event only.
NoMore ==
  /\ loop = "more"
  /\ loop' = "poll"
  /\ UNCHANGED <<ring, mutex, pipe, is_shutdown, call, posted, running, stop, fate, raced>>

\* while (trigger_events_->Size() > 0)
More ==
  /\ loop = "more"
  /\ loop' = IF num_datas > 0 THEN "pop" ELSE "poll"
  /\ UNCHANGED <<ring, mutex, pipe, is_shutdown, call, posted, running, stop, fate, raced>>

\* HandleEvent returns because the pipe is readable (level triggered).
PollPipe ==
  /\ loop = "poll"
  /\ pipe > 0
  /\ loop' = "wake"
  /\ UNCHANGED <<ring, mutex, pipe, is_shutdown, call, posted, running, stop, fate, raced>>

\* HandleEvent returns for a timeout or for another channel.
PollOther ==
  /\ loop = "poll"
  /\ loop' = "dispatch"
  /\ UNCHANGED <<ring, mutex, pipe, is_shutdown, call, posted, running, stop, fate, raced>>

Dispatched ==
  /\ loop = "dispatch"
  /\ call[SchedulerThread] = "idle"
  /\ loop' = "test"
  /\ UNCHANGED <<ring, mutex, pipe, is_shutdown, call, posted, running, stop, fate, raced>>

\* Wake: while (Read(event, 10) > 0)
WakeRead ==
  /\ loop = "wake"
  /\ pipe > 0
  /\ pipe' = IF pipe > WakeChunk THEN pipe - WakeChunk ELSE 0
  /\ UNCHANGED <<ring, mutex, is_shutdown, call, posted, loop, running, stop, fate, raced>>

\* Mutant: the poller goes on waiting once the pipe is drained.
WakeAgain ==
  /\ loop = "wake"
  /\ pipe = 0
  /\ loop' = "poll"
  /\ UNCHANGED <<ring, mutex, pipe, is_shutdown, call, posted, running, stop, fate, raced>>

\* The pipe is empty: Wake and HandleEvent return.
WakeDone ==
  /\ loop = "wake"
  /\ pipe = 0
  /\ loop' = "test"
  /\ UNCHANGED <<ring, mutex, pipe, is_shutdown, call, posted, running, stop, fate, raced>>

SchedulerStep ==
  \/ Boot \/ Test
  \/ PopNothing \/ PopSlot \/ PopCount \/ Return \/ More
  \/ PollPipe \/ Dispatched \/ WakeRead \/ WakeDone

-----------------------------------------------------------------------------
(***************************************************************************)
(* Stop, called once by EventLoop::Quit                                    *)
(***************************************************************************)

StopFlag ==
  /\ stop = "none"
  /\ stop' = "flagged"
  /\ is_shutdown' = TRUE
  /\ UNCHANGED <<ring, mutex, pipe, call, posted, loop, running, fate, raced>>

\* Mutant: Stop does not wake the loop.
StopSilently ==
  /\ stop = "flagged"
  /\ stop' = "called"
  /\ UNCHANGED <<ring, mutex, pipe, is_shutdown, call, posted, loop, running, fate, raced>>

StopSignal ==
  /\ stop = "flagged"
  /\ stop' = "called"
  /\ pipe' = PipeWithOneMore
  /\ UNCHANGED <<ring, mutex, is_shutdown, call, posted, loop, running, fate, raced>>

-----------------------------------------------------------------------------

Next ==
  \/ \E t \in Threads : Refuse(t) \/ Admit(t) \/ Call(t)
  \/ SchedulerStep
  \/ PollOther
  \/ StopFlag \/ StopSignal

(***************************************************************************)
(* The operating system runs every thread that can run: a call of          *)
(* AddTriggerEvent or of Stop that has begun goes on, and the scheduler    *)
(* thread leaves HandleEvent when the pipe is readable.  Nothing obliges   *)
(* anyone to post, to stop, or another channel to become ready.  mutex_    *)
(* need not be fair: a thread is promised it only once nobody else wants   *)
(* it any more (MaxPosts bounds the contention).                           *)
(***************************************************************************)
Fairness ==
  /\ \A t \in Threads : WF_vars(Call(t))
  /\ WF_vars(SchedulerStep)
  /\ WF_vars(StopSignal)

Spec == Init /\ [][Next]_vars /\ Fairness

-----------------------------------------------------------------------------
(***************************************************************************)
(* Properties                                                              *)
(***************************************************************************)

Fates == {"new", "refused", "lost", "queued", "ran"}

\* Every variable holds a value of its type: positions stay inside the ring
\* and num_datas_ never leaves 0..Capacity (RingBuffer::PushData and Pop).
TypeOK ==
  /\ buffer \in [0..Capacity - 1 -> Events \cup {NoEvent}]
  /\ put_pos \in 0..Capacity - 1
  /\ get_pos \in 0..Capacity - 1
  /\ num_datas \in 0..Capacity
  /\ mutex \in Threads \cup {NoThread}
  /\ pipe \in 0..PipeCapacity
  /\ is_shutdown \in BOOLEAN
  /\ call \in [Threads -> {"idle", "admitted", "locked", "stored", "pushed"}]
  /\ posted \in [Threads -> Nat] /\ \A t \in Threads : posted[t] <= MaxPosts[t]
  /\ loop \in {"boot", "test", "pop", "taken", "callback", "more", "poll", "dispatch",
               "wake", "done"}
  /\ running \in Events \cup {NoEvent}
  /\ stop \in {"none", "flagged", "called"}
  /\ fate \in [Events -> Fates]
  /\ raced \in SUBSET Threads

\* RingBuffer is used by several posters and one lock-free reader: a poster
\* writes only a slot whose event has been moved out, and the reader moves
\* only a slot that has been written, so no callback is overwritten before it
\* runs and no empty std::function is called.
NoSlotClash ==
  /\ \A t \in Threads : call[t] = "locked" /\ HasSlot => buffer[put_pos] = NoEvent
  /\ loop = "pop" /\ num_datas > 0 => buffer[get_pos] # NoEvent
  /\ loop \in {"taken", "callback"} => running # NoEvent

\* AddTriggerEvent's size test is outside mutex_, so it may return true for an
\* event that PushData drops; this happens only to a caller that another
\* thread's push overtook between its test and its own push.
OnlyRacedLost ==
  [][\A e \in Events : fate'[e] = "lost" /\ fate[e] # "lost" => e[1] \in raced]_vars

\* The scheduler never sits in HandleEvent with a trigger event in the ring
\* and nothing to wake it: the pipe is readable, or the poster is about to
\* write to it.  (HandleTriggerEvent tests the ring before the wait, the pipe
\* is drained before the ring is tested.)
NoLostWakeup ==
  loop = "poll" /\ num_datas > 0 => pipe > 0 \/ \E t \in Threads : call[t] = "pushed"

\* A Stop that the loop has yet to notice keeps the pipe readable until the
\* loop reads is_shutdown_ again: Wake cannot swallow Stop's byte unseen.
NoLostStop ==
  is_shutdown /\ loop \in {"pop", "taken", "callback", "more", "poll"}
    => pipe > 0 \/ stop = "flagged"

\* Every event that reached the ring runs, unless the loop ends first.
QueuedEventsRun ==
  \A e \in Events : fate[e] = "queued" ~> fate[e] = "ran" \/ loop = "done"

\* Once Start has executed is_shutdown_ = false, Stop ends the loop, so the
\* join in EventLoop::Quit returns.  (A Stop that comes before that store is
\* forgotten: the property says nothing of it.)
StopEndsLoop == is_shutdown /\ loop # "boot" ~> loop = "done"

(***************************************************************************)
(* The ring implements the FIFO of TriggerQueue: the abstract queue is the *)
(* Readable slots from get_pos on.  A slot is readable from Count to       *)
(* PopSlot; between PopSlot and PopCount num_datas still counts the slot   *)
(* that was just emptied.                                                  *)
(***************************************************************************)
Wrap(i) == IF i >= Capacity THEN i - Capacity ELSE i

Readable == num_datas - (IF loop = "taken" THEN 1 ELSE 0)

Queue == [i \in 1..Readable |-> buffer[Wrap(get_pos + i - 1)]]

Fifo == INSTANCE TriggerQueue WITH queue <- Queue, releasing <- (loop = "taken")

\* Whatever the interleaving of posters and scheduler, events run in the order
\* in which their posters counted them, each once, and are turned away only
\* when all places are taken.
ImplementsFifo == Fifo!Spec

=============================================================================
