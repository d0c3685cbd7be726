-------------------------- MODULE ThreadsafeQueue --------------------------
(***************************************************************************)
(* threadsafe_queue.h: the queue that carries encoded frames from OBS's    *)
(* encoder callbacks to the plugin's push thread.  It holds at most        *)
(* size_limit frames and drops the oldest when one too many arrives.       *)
(*                                                                         *)
(* Every access to data_queue is made under mut, so a critical section is  *)
(* one step here.  m_termination is set under mut but read by move_push    *)
(* before it takes mut: that read is a step of its own (BeginPush).        *)
(***************************************************************************)
EXTENDS Integers, Sequences, FiniteSets

CONSTANTS
  Producers,      \* threads that call move_push
  Consumers,      \* threads that call wait_and_pop until it returns nullptr
  Frames,         \* what is pushed, each once
  SizeLimit,      \* size_limit
  InitialCounts,  \* what the constructor may leave in m_dropped_count
  NoFrame         \* no push in progress

ASSUME LimitAssumption  == SizeLimit \in Nat \ {0}
ASSUME CountsAssumption == InitialCounts \subseteq Nat
ASSUME FramesAssumption == NoFrame \notin Frames

VARIABLES
  data_queue,       \* the frames waiting, oldest first
  m_termination,
  m_dropped_count,
  pushing,          \* per producer, the frame of a move_push past its test
  waiting,          \* the consumers blocked on data_cond
  left,             \* the consumers that got nullptr and stopped calling
  entered,          \* history: frames in the order in which they were enqueued
  fate,             \* history: what became of each frame
  first_count       \* history: m_dropped_count as constructed

queueVars == <<data_queue, m_termination, m_dropped_count, pushing, waiting, left, entered,
               fate, first_count>>

\* The constructor does not initialise m_dropped_count.
QueueInit ==
  /\ data_queue = <<>>
  /\ m_termination = FALSE
  /\ m_dropped_count \in InitialCounts
  /\ pushing = [p \in Producers |-> NoFrame]
  /\ waiting = {}
  /\ left = {}
  /\ entered = <<>>
  /\ fate = [f \in Frames |-> "new"]
  /\ first_count = m_dropped_count

-----------------------------------------------------------------------------

\* move_push: m_termination is set, return.
IgnorePush(p, f) ==
  /\ fate[f] = "new"
  /\ pushing[p] = NoFrame
  /\ m_termination
  /\ fate' = [fate EXCEPT ![f] = "ignored"]
  /\ UNCHANGED <<data_queue, m_termination, m_dropped_count, pushing, waiting, left,
                 entered, first_count>>

\* move_push: m_termination is not set; mut is not held yet.
BeginPush(p, f) ==
  /\ fate[f] = "new"
  /\ pushing[p] = NoFrame
  /\ ~m_termination
  /\ pushing' = [pushing EXCEPT ![p] = f]
  /\ fate' = [fate EXCEPT ![f] = "pushing"]
  /\ UNCHANGED <<data_queue, m_termination, m_dropped_count, waiting, left, entered,
                 first_count>>

\* Mutant: move_push does not notify.
NotifyNone == waiting' = waiting

\* data_cond.notify_one()
NotifyOne ==
  IF waiting = {} THEN waiting' = waiting
                  ELSE \E c \in waiting : waiting' = waiting \ {c}

\* Mutant: the newest frame is the one that is dropped.
DropNewest(q) == IF Len(q) > SizeLimit THEN SubSeq(q, 1, Len(q) - 1) ELSE q

\* if (data_queue.size() > size_limit) data_queue.pop()
Trim(q) == IF Len(q) > SizeLimit THEN Tail(q) ELSE q

\* m_dropped_count.fetch_add(1) in the same case.
DroppedCountAfter(q) == IF Len(q) > SizeLimit THEN m_dropped_count + 1 ELSE m_dropped_count

\* move_push, its critical section.
FinishPush(p) ==
  /\ pushing[p] # NoFrame
  /\ LET f == pushing[p]
         q == Append(data_queue, f)
     IN  /\ data_queue' = Trim(q)
         /\ entered' = Append(entered, f)
         /\ m_dropped_count' = DroppedCountAfter(q)
         /\ fate' = IF Len(q) > SizeLimit
                      THEN [fate EXCEPT ![f] = "queued", ![Head(q)] = "dropped"]
                      ELSE [fate EXCEPT ![f] = "queued"]
  /\ pushing' = [pushing EXCEPT ![p] = NoFrame]
  /\ NotifyOne
  /\ UNCHANGED <<m_termination, left, first_count>>

\* A consumer that is neither blocked nor gone holds, or competes for, mut.
Awake(c) == c \notin waiting /\ c \notin left

\* wait_and_pop with a frame present.
Pop(c) ==
  /\ Awake(c)
  /\ data_queue # <<>>
  /\ fate' = [fate EXCEPT ![Head(data_queue)] = "popped"]
  /\ data_queue' = Tail(data_queue)
  /\ UNCHANGED <<m_termination, m_dropped_count, pushing, waiting, left, entered, first_count>>

\* wait_and_pop of an empty queue: the consumer releases mut and blocks in one step.
Block(c) ==
  /\ Awake(c)
  /\ data_queue = <<>>
  /\ ~m_termination
  /\ waiting' = waiting \cup {c}
  /\ UNCHANGED <<data_queue, m_termination, m_dropped_count, pushing, left, entered, fate,
                 first_count>>

\* wait_and_pop of an empty queue after termination: nullptr, and the caller stops.
Leave(c) ==
  /\ Awake(c)
  /\ data_queue = <<>>
  /\ m_termination
  /\ left' = left \cup {c}
  /\ UNCHANGED <<data_queue, m_termination, m_dropped_count, pushing, waiting, entered, fate,
                 first_count>>

\* A condition variable may wake a consumer for no reason.
WakeSpuriously(c) ==
  /\ c \in waiting
  /\ waiting' = waiting \ {c}
  /\ UNCHANGED <<data_queue, m_termination, m_dropped_count, pushing, left, entered, fate,
                 first_count>>

\* Mutant: termination() wakes one consumer only.
TerminateOne ==
  /\ ~m_termination
  /\ m_termination' = TRUE
  /\ NotifyOne
  /\ UNCHANGED <<data_queue, m_dropped_count, pushing, left, entered, fate, first_count>>

\* termination(), with notify_all.
Terminate ==
  /\ ~m_termination
  /\ m_termination' = TRUE
  /\ waiting' = {}
  /\ UNCHANGED <<data_queue, m_dropped_count, pushing, left, entered, fate, first_count>>

-----------------------------------------------------------------------------

QueueNext ==
  \/ \E p \in Producers : (\E f \in Frames : IgnorePush(p, f) \/ BeginPush(p, f)) \/ FinishPush(p)
  \/ \E c \in Consumers : Pop(c) \/ Block(c) \/ Leave(c) \/ WakeSpuriously(c)
  \/ Terminate

(***************************************************************************)
(* A move_push that began finishes, and a consumer that can run does.      *)
(* Nothing obliges anyone to push or to call termination(), and no         *)
(* consumer may count on a spurious wake-up.                               *)
(***************************************************************************)
Fairness ==
  /\ \A p \in Producers : WF_queueVars(FinishPush(p))
  /\ \A c \in Consumers : WF_queueVars(Pop(c) \/ Block(c) \/ Leave(c))

QueueSpec == QueueInit /\ [][QueueNext]_queueVars /\ Fairness

-----------------------------------------------------------------------------

\* Every variable holds a value of its type; the queue never holds more than
\* size_limit frames when mut is free.
TypeOK ==
  /\ data_queue \in Seq(Frames) /\ Len(data_queue) <= SizeLimit
  /\ m_termination \in BOOLEAN
  /\ m_dropped_count \in Nat
  /\ pushing \in [Producers -> Frames \cup {NoFrame}]
  /\ waiting \subseteq Consumers
  /\ left \subseteq Consumers
  /\ entered \in Seq(Frames)
  /\ fate \in [Frames -> {"new", "pushing", "queued", "ignored", "popped", "dropped"}]
  /\ first_count \in InitialCounts

\* Frames leave in the order in which they entered, and it is always the
\* oldest that is dropped: the queue is the newest part of what entered, and
\* whatever entered before it was popped or dropped (move_push, wait_and_pop).
\* dropped_count() grows by one for each, from the value the constructor left.
KeepsNewest ==
  LET gone == Len(entered) - Len(data_queue)
  IN  /\ gone >= 0
      /\ data_queue = SubSeq(entered, gone + 1, Len(entered))
      /\ \A i \in 1..gone : fate[entered[i]] \in {"popped", "dropped"}
      /\ \A i \in gone + 1..Len(entered) : fate[entered[i]] = "queued"
      /\ m_dropped_count - first_count = Cardinality({f \in Frames : fate[f] = "dropped"})

\* No wake-up is lost: every frame enqueued is popped or dropped, unless every
\* consumer has left.
QueuedFramesLeave ==
  \A f \in Frames : fate[f] = "queued" ~> fate[f] \in {"popped", "dropped"} \/ left = Consumers

\* After termination() every consumer is told nullptr, so the join of the push
\* thread in rtsp_output_actual_stop returns.
ConsumersLeave == m_termination ~> left = Consumers

\* threadsafe_queue.h says of the terminated state: "In the exit state, the
\* enqueue is ignored".  move_push tests m_termination before it takes mut.
EnqueueIgnoredInExit == [][m_termination => entered' = entered]_queueVars

=============================================================================
