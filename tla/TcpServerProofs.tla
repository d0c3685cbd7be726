--------------------------- MODULE TcpServerProofs ---------------------------
(***************************************************************************)
(* The safety invariants of TcpServer but NoCircularWait (which is about   *)
(* ENABLED), proved for any connections, packets, places and bounds.       *)
(***************************************************************************)
EXTENDS TcpServer, TLAPS, SequenceTheorems

\* The FIFO, with the lemmas about it.
Fifo == INSTANCE TriggerQueueProofs

PlaceType ==
  /\ loop \in {"triggers", "called", "timers", "poll", "dispatch", "accept", "add", "read",
               "append", "write", "crashed"}
  /\ current \in Conns \cup {NoConn}
  /\ stop \in {"idle", "sweep", "close", "wait", "done"}

SetType ==
  /\ client \in [Conns -> {"none", "backlog", "open", "gone"}]
  /\ is_closed \subseteq Conns /\ connections \subseteq Conns
  /\ destroyed \subseteq Conns /\ timers \subseteq Conns
  /\ channels \subseteq Conns \cup {"acceptor"}
  /\ todo \subseteq Conns /\ swept \subseteq Conns /\ too_late \subseteq Conns

LockType ==
  /\ server_mutex = (IF stop = "sweep" THEN Stopper ELSE Nobody)
  /\ acceptor_mutex \in Holders
  /\ conn_mutex \in [Conns -> Holders]

TrafficType ==
  /\ requests \in 0 .. MaxRequests /\ unread \subseteq Conns
  /\ write_buffer \in [Conns -> 0 .. QueueLength] /\ writing \subseteq Conns
  /\ batch \subseteq Conns \cup {"acceptor"} /\ writable \subseteq Conns

\* TypeOK, and the type of fate.
TypeInv == PlaceType /\ SetType /\ LockType /\ TrafficType /\ Fifo!TypeOK

\* The connections that were accepted, or turned off by Acceptor::Close.
Known == {c \in Conns : client[c] \in {"open", "gone"}}

\* Where the scheduler thread works on a connection.
AtConn == {"add", "read", "append", "write"}

KnownInv ==
  /\ is_closed \subseteq Known /\ connections \subseteq Known /\ swept \subseteq Known
  /\ channels \cap Conns \subseteq Known
  /\ batch \cap Conns \subseteq Known /\ writable \subseteq Known
  /\ loop \in AtConn => current \in Known
  /\ \A c \in Conns \ Known : write_buffer[c] = 0

LoopInv ==
  /\ running # NoEvent => loop \in {"triggers", "called", "append", "write", "crashed"}
  /\ loop \in {"append", "write"} =>
       \A c \in Conns : running # CloseEvent(c) /\ running # RemoveEvent(c)
  /\ loop = "called" =>
       \A c \in Conns : /\ running = RemoveEvent(c) => c \in destroyed
                        /\ running = CloseEvent(c) => c \in is_closed
  /\ loop = "add" => current \in channels

ConnInv ==
  /\ is_closed \cap channels = {} /\ destroyed \cap connections = {}
  /\ destroyed \subseteq is_closed /\ timers \subseteq is_closed
  /\ \A c \in channels \cap Conns : c \in connections \/ (loop = "add" /\ current = c)
  /\ \A c \in Conns :
       /\ fate[RemoveEvent(c)] = "new" <=> c \notin is_closed
       /\ fate[RemoveEvent(c)] = "ran" => c \in destroyed
       /\ fate[RemoveEvent(c)] = "refused" => c \in timers \cup destroyed

StopInv ==
  /\ todo \subseteq swept
  /\ stop = "idle" => swept = {}
  /\ stop \notin {"idle", "sweep"} => todo = {}
  /\ loop = "read" => conn_mutex[current] = Scheduler
  /\ \A c \in Conns :
       /\ conn_mutex[c] = Stopper => c \in todo /\ stop = "sweep"
       /\ conn_mutex[c] = Scheduler => loop = "read" /\ current = c
       /\ fate[CloseEvent(c)] = "new" <=> c \notin swept \ todo
       /\ fate[CloseEvent(c)] = "ran" => c \in is_closed

\* A Close that was posted in time is ahead of the removal, and none is left once
\* the loop has come to the timers.
InTime(c) == fate[CloseEvent(c)] = "queued" /\ c \notin too_late

OrderInv ==
  /\ \A c \in Conns : InTime(c) /\ fate[RemoveEvent(c)] = "queued" =>
       Fifo!Before(CloseEvent(c), RemoveEvent(c))
  /\ loop = "timers" => \A c \in is_closed : ~InTime(c)

IInv == /\ TypeInv /\ KnownInv /\ LoopInv /\ ConnInv /\ StopInv /\ Fifo!FifoInv /\ OrderInv
        /\ NothingStranded /\ StrayCloseOnlyWhenLate

-----------------------------------------------------------------------------
(***************************************************************************)
(* Events, and the FIFO                                                    *)
(***************************************************************************)

LEMMA EventsDiffer ==
  ASSUME NEW c \in Conns, NEW d \in Conns
  PROVE  /\ CloseEvent(c) \in Events /\ RemoveEvent(c) \in Events
         /\ CloseEvent(c) # RemoveEvent(d)
         /\ CloseEvent(c) = CloseEvent(d) => c = d
         /\ RemoveEvent(c) = RemoveEvent(d) => c = d
         /\ CloseEvent(c) # NoEvent /\ RemoveEvent(c) # NoEvent
BY NoEventAssumption DEF Events, CloseEvent, RemoveEvent

LEMMA SendsDiffer ==
  ASSUME NEW c \in Conns, NEW s \in Sends
  PROVE  /\ SendEvent(s) \in Events
         /\ SendEvent(s) # CloseEvent(c) /\ SendEvent(s) # RemoveEvent(c)
BY DEF Events, CloseEvent, RemoveEvent, SendEvent

\* What Close of a connection does: nothing the second time, and the first time it
\* asks for the removal, once.
LEMMA CloseEffect ==
  ASSUME NEW c \in Conns, Close(c)
  PROVE  \/ c \in is_closed /\ UNCHANGED <<is_closed, channels, timers, scheduled>>
         \/ /\ c \notin is_closed
            /\ is_closed' = is_closed \cup {c} /\ channels' = channels \ {c}
            /\ fate[RemoveEvent(c)] = "new"
            /\ UNCHANGED <<running, releasing>>
            /\ \/ /\ queue' = Append(queue, RemoveEvent(c))
                  /\ fate' = [fate EXCEPT ![RemoveEvent(c)] = "queued"]
                  /\ timers' = timers
               \/ /\ queue' = queue
                  /\ \E f \in {"refused", "lost"} : fate' = [fate EXCEPT ![RemoveEvent(c)] = f]
                  /\ timers' = IF fate'[RemoveEvent(c)] = "refused" THEN timers \cup {c}
                                                                    ELSE timers
BY DEF Close, AskRemoval, Sched!Post, Sched!TurnAway

LEMMA CloseIsScheduled ==
  ASSUME NEW c \in Conns, Close(c)
  PROVE  [Sched!Next]_scheduled
<1>1. RemoveEvent(c) \in Events
  BY DEF Events
<1>2. CASE c \in is_closed
  BY <1>2 DEF Close
<1>3. CASE c \notin is_closed
  BY <1>1, <1>3 DEF Close, AskRemoval, Sched!Next
<1> QED
  BY <1>2, <1>3

\* Fifo has the steps of Sched.
LEMMA SchedIsFifo == [Sched!Next]_scheduled => [Fifo!Next]_(Fifo!vars)
BY DEF scheduled, Sched!Next, Sched!Post, Sched!TurnAway, Sched!PlacesTaken, Sched!Take,
       Sched!Release, Sched!Finish, Fifo!vars, Fifo!Next, Fifo!Post, Fifo!TurnAway,
       Fifo!PlacesTaken, Fifo!Take, Fifo!Release, Fifo!Finish

\* Every step of the server is a step of the FIFO, or does not touch it.
LEMMA ScheduledStep == PlaceType /\ KnownInv /\ [Next]_vars => [Sched!Next]_scheduled
<1> SUFFICES ASSUME PlaceType, KnownInv, [Next]_vars PROVE [Sched!Next]_scheduled
  OBVIOUS
<1>1. ASSUME NEW c \in Conns, Connect(c) \/ Ask(c) \/ HangUp(c) \/ TimerRemoves(c)
      PROVE  UNCHANGED scheduled
  BY <1>1 DEF Connect, Ask, HangUp, TimerRemoves, clientOnly
<1>2. ASSUME NEW s \in Sends, PostSend(s) PROVE Sched!Next
  BY <1>2 DEF PostSend, Events, Sched!Next
<1>3. CASE TakeEvent \/ ReleasePlace \/ FinishEvent
  BY <1>3 DEF TakeEvent, ReleasePlace, FinishEvent, Sched!Next
<1>4. ASSUME NEW s \in Sends, NEW c \in Conns, RunSend(s) \/ RunSendOverTcp(s, c)
      PROVE  UNCHANGED scheduled
  BY <1>4 DEF RunSend, RunSendOverTcp
<1>5. ASSUME NEW c \in Conns, RunClose(c) PROVE [Sched!Next]_scheduled
  BY <1>5, CloseIsScheduled DEF RunClose
<1>6. ASSUME NEW c \in Conns,
             RunStrayClose(c) \/ RunRemove(c) \/ Accept(c) \/ BeginRead(c) \/ BeginWrite(c)
      PROVE  UNCHANGED scheduled
  BY <1>6 DEF RunStrayClose, RunRemove, Accept, BeginRead, BeginWrite
<1>7. CASE \/ TriggersDone \/ TimersDone \/ Poll \/ DispatchDone \/ BeginAccept \/ StrayAccept
           \/ AcceptNothing \/ AddConnection \/ ReadRequest \/ Send \/ WriteGivesUp \/ Write
  BY <1>7 DEF TriggersDone, TimersDone, Poll, DispatchDone, BeginAccept, StrayAccept,
              AcceptNothing, AddConnection, ReadRequest, Send, WriteGivesUp, Write
<1>8. CASE ReadCloses \/ WriteCloses
  <2>1. current \in Conns /\ Close(current)
    BY <1>8 DEF ReadCloses, WriteCloses, KnownInv, Known, AtConn
  <2> QED
    BY <2>1, CloseIsScheduled
<1>9. CASE StopBegins \/ SweepDone \/ CloseAcceptor \/ StopReturns
  BY <1>9 DEF StopBegins, SweepDone, CloseAcceptor, StopReturns
<1>10. ASSUME NEW c \in Conns, LockConn(c) PROVE UNCHANGED scheduled
  BY <1>10 DEF LockConn
<1>11. ASSUME NEW c \in Conns, Disconnect(c) PROVE Sched!Next
  BY <1>11 DEF Disconnect, Events, Sched!Next
<1>12. CASE UNCHANGED vars
  BY <1>12 DEF vars
<1>13. CASE \E s \in Sends : RunSend(s) \/ \E c \in Conns : RunSendOverTcp(s, c)
  BY <1>13 DEF RunSend, RunSendOverTcp
<1>14. CASE SchedulerWorks
  BY <1>14, <1>3, <1>13, <1>5, <1>6, <1>7, <1>8 DEF SchedulerWorks
<1>15. CASE StopperWorks
  BY <1>15, <1>9, <1>10, <1>11 DEF StopperWorks
<1> QED
  BY <1>1, <1>2, <1>9, <1>12, <1>14, <1>15 DEF Next

-----------------------------------------------------------------------------
(***************************************************************************)
(* Types, and what is known of a connection                                *)
(***************************************************************************)

LEMMA InitialState == Init => IInv
<1> SUFFICES ASSUME Init PROVE IInv
  OBVIOUS
<1> USE DEF Init, Sched!Init
<1>1. PlaceType /\ SetType /\ LockType
  BY DEF PlaceType, SetType, LockType, Holders, Nobody
<1>2. TrafficType
  BY BoundsAssumption DEF TrafficType
<1>3. Fifo!TypeOK
  BY EmptySeq DEF Fifo!TypeOK, Fifo!Fates
<1>4. \A c \in Conns : /\ fate[RemoveEvent(c)] = "new" /\ fate[CloseEvent(c)] = "new"
                       /\ conn_mutex[c] = Nobody /\ write_buffer[c] = 0
  BY DEF Events
<1>5. KnownInv
  BY <1>4, ConnAssumption DEF KnownInv, AtConn
<1>6. LoopInv /\ ConnInv
  BY <1>4, ConnAssumption DEF LoopInv, ConnInv
<1>7. StopInv
  BY <1>4 DEF StopInv, Nobody, Stopper, Scheduler
<1>8. Fifo!FifoInv /\ OrderInv
  BY <1>4, NoEventAssumption DEF Fifo!FifoInv, OrderInv, Fifo!Waiting, InTime
<1>9. NothingStranded /\ StrayCloseOnlyWhenLate
  BY <1>4 DEF NothingStranded, StrayCloseOnlyWhenLate
<1> QED
  BY <1>1, <1>2, <1>3, <1>5, <1>6, <1>7, <1>8, <1>9 DEF IInv, TypeInv

USE DEF Next, SchedulerWorks, StopperWorks, Connect, Ask, HangUp, TimerRemoves, PostSend, TakeEvent,
        ReleasePlace, RunSend, RunSendOverTcp, RunClose, RunStrayClose, RunRemove, FinishEvent,
        TriggersDone, TimersDone, Poll, DispatchDone, BeginAccept, StrayAccept, Accept,
        AcceptNothing, AddConnection, BeginRead, ReadCloses, ReadRequest, BeginWrite, Send,
        WriteGivesUp, Write, WriteCloses, Return, StopBegins, LockConn, Disconnect, SweepDone,
        CloseAcceptor, StopReturns, clientOnly, stopper, sets, traffic, locks, vars

LEMMA PlaceStep == PlaceType /\ KnownInv /\ [Next]_vars => PlaceType'
BY DEF PlaceType

LEMMA SetStep == TypeInv /\ KnownInv /\ [Next]_vars => SetType'
<1> SUFFICES ASSUME TypeInv, KnownInv, [Next]_vars PROVE SetType'
  OBVIOUS
<1>1. client' \in [Conns -> {"none", "backlog", "open", "gone"}]
  BY DEF TypeInv, SetType
<1>2. destroyed' \subseteq Conns /\ connections' \subseteq Conns
  BY DEF TypeInv, SetType, KnownInv, Known, AtConn
<1>3. is_closed' \subseteq Conns /\ timers' \subseteq Conns
  BY DEF TypeInv, SetType, KnownInv, Known, AtConn, Close, AskRemoval
<1>4. channels' \subseteq Conns \cup {"acceptor"}
  BY DEF TypeInv, SetType, Close
<1>5. todo' \subseteq Conns /\ swept' \subseteq Conns /\ too_late' \subseteq Conns
  BY DEF TypeInv, SetType
<1> QED
  BY <1>1, <1>2, <1>3, <1>4, <1>5 DEF SetType

LEMMA LockStep == TypeInv /\ [Next]_vars => LockType'
BY DEF TypeInv, PlaceType, LockType, Holders, Nobody, Stopper, Scheduler

LEMMA TrafficStep == TypeInv /\ KnownInv /\ [Next]_vars => TrafficType'
<1> SUFFICES ASSUME TypeInv, KnownInv, [Next]_vars PROVE TrafficType'
  OBVIOUS
<1>1. requests' \in 0 .. MaxRequests
  BY BoundsAssumption DEF TypeInv, TrafficType
<1>2. unread' \subseteq Conns /\ writing' \subseteq Conns
  BY DEF TypeInv, TrafficType, UpdateWriting, KnownInv, Known, AtConn
<1>3. write_buffer' \in [Conns -> 0 .. QueueLength]
  BY BoundsAssumption DEF TypeInv, TrafficType, AppendPacket, SendPackets
<1>4. batch' \subseteq Conns \cup {"acceptor"} /\ writable' \subseteq Conns
  BY DEF TypeInv, TrafficType, SetType, Ready
<1> QED
  BY <1>1, <1>2, <1>3, <1>4 DEF TrafficType

LEMMA TypeStep == TypeInv /\ KnownInv /\ Fifo!FifoInv /\ [Next]_vars => TypeInv' /\ Fifo!FifoInv'
BY PlaceStep, SetStep, LockStep, TrafficStep, ScheduledStep, SchedIsFifo, NoEventAssumption,
   Fifo!FifoStep DEF TypeInv

-----------------------------------------------------------------------------
(***************************************************************************)
(* What each step keeps                                                    *)
(***************************************************************************)

LEMMA KnownStep == IInv /\ [Next]_vars => KnownInv'
<1> SUFFICES ASSUME IInv, [Next]_vars PROVE KnownInv'
  OBVIOUS
<1>1. Known \subseteq Known'
  BY DEF IInv, TypeInv, SetType, Known
<1>2. ASSUME NEW c \in Conns, running = CloseEvent(c) PROVE c \in Known
  <2>1. fate[CloseEvent(c)] = "queued"
    BY <1>2 DEF IInv, Fifo!FifoInv, Events
  <2> QED
    BY <2>1 DEF IInv, StopInv, KnownInv
<1>3. is_closed' \subseteq Known'
  BY <1>1, <1>2 DEF IInv, KnownInv, AtConn, Close, Calls
<1>4. connections' \subseteq Known' /\ swept' \subseteq Known'
  BY <1>1 DEF IInv, KnownInv, AtConn
<1>5. channels' \cap Conns \subseteq Known'
  BY <1>1 DEF IInv, TypeInv, SetType, KnownInv, Known, Close
<1>6. batch' \cap Conns \subseteq Known' /\ writable' \subseteq Known'
  BY <1>1, ConnAssumption DEF IInv, TypeInv, TrafficType, SetType, KnownInv, Ready
<1>7. loop' \in AtConn => current' \in Known'
  BY <1>1 DEF IInv, TypeInv, SetType, PlaceType, KnownInv, AtConn, Known
<1>8. \A c \in Conns \ Known' : write_buffer'[c] = 0
  BY <1>1 DEF IInv, TypeInv, TrafficType, KnownInv, AtConn, AppendPacket, SendPackets
<1> QED
  BY <1>3, <1>4, <1>5, <1>6, <1>7, <1>8 DEF KnownInv

LEMMA RunningStep ==
  ASSUME IInv, [Next]_vars, running' # running
  PROVE  loop' = "triggers"
BY DEF IInv, Close, AskRemoval, Sched!Post, Sched!TurnAway, Sched!Take, Sched!Release, Sched!Finish,
       scheduled

LEMMA LoopStep == IInv /\ [Next]_vars => LoopInv'
<1> SUFFICES ASSUME IInv, [Next]_vars PROVE LoopInv'
  OBVIOUS
<1>1. running' # NoEvent => loop' \in {"triggers", "called", "append", "write", "crashed"}
  BY DEF IInv, TypeInv, PlaceType, LoopInv, Close, AskRemoval, Calls, Sched!Post, Sched!TurnAway,
         Sched!Take, Sched!Release, Sched!Finish, scheduled
<1>2. ASSUME NEW c \in Conns, loop' \in {"append", "write"}
      PROVE  running' # CloseEvent(c) /\ running' # RemoveEvent(c)
  <2>1. running' = running
    BY <1>2, RunningStep
  <2>2. loop \in {"append", "write"} \/ running = NoEvent \/ \E s \in Sends : running = SendEvent(s)
    BY <1>2 DEF IInv, TypeInv, PlaceType, LoopInv, Calls
  <2>3. CASE \E s \in Sends : running = SendEvent(s)
    BY <2>1, <2>3, SendsDiffer
  <2>4. CASE running = NoEvent
    BY <2>1, <2>4, EventsDiffer
  <2> QED
    BY <2>1, <2>2, <2>3, <2>4 DEF IInv, LoopInv
<1>3. ASSUME NEW c \in Conns, loop' = "called", running' = RemoveEvent(c) PROVE c \in destroyed'
  <2>1. running = RemoveEvent(c)
    BY <1>3, RunningStep
  <2>2. destroyed \subseteq destroyed'
    BY DEF IInv
  <2>3. CASE loop = "called"
    BY <2>1, <2>2, <2>3 DEF IInv, LoopInv
  <2>4. CASE \E d \in Conns : RunRemove(d)
    BY <2>1, <2>4, EventsDiffer DEF Calls
  <2>5. CASE \E d \in Conns : RunClose(d) \/ RunStrayClose(d)
    BY <2>1, <2>5, EventsDiffer DEF Calls
  <2>6. CASE \E e \in Sends : RunSend(e)
    BY <2>1, <2>6, SendsDiffer DEF Calls
  <2>7. loop \notin {"append", "write"} /\ running # NoEvent
    BY <2>1, EventsDiffer DEF IInv, LoopInv
  <2> QED
    BY <1>3, <2>3, <2>4, <2>5, <2>6, <2>7 DEF IInv, TypeInv, PlaceType, LoopInv
<1>4. ASSUME NEW c \in Conns, loop' = "called", running' = CloseEvent(c) PROVE c \in is_closed'
  <2>1. running = CloseEvent(c)
    BY <1>4, RunningStep
  <2>2. is_closed \subseteq is_closed'
    BY DEF IInv, Close
  <2>3. CASE loop = "called"
    BY <2>1, <2>2, <2>3 DEF IInv, LoopInv
  <2>4. CASE \E d \in Conns : RunRemove(d)
    BY <2>1, <2>4, EventsDiffer DEF Calls
  <2>5. CASE \E d \in Conns : RunClose(d) \/ RunStrayClose(d)
    BY <2>1, <2>2, <2>5, EventsDiffer DEF Calls, Close, IInv, ConnInv
  <2>6. CASE \E e \in Sends : RunSend(e)
    BY <2>1, <2>6, SendsDiffer DEF Calls
  <2>7. loop \notin {"append", "write"} /\ running # NoEvent
    BY <2>1, EventsDiffer DEF IInv, LoopInv
  <2> QED
    BY <1>4, <2>3, <2>4, <2>5, <2>6, <2>7 DEF IInv, TypeInv, PlaceType, LoopInv
<1>5. loop' = "add" => current' \in channels'
  BY ConnAssumption DEF IInv, TypeInv, PlaceType, LoopInv, KnownInv, AtConn, Known
<1> QED
  BY <1>1, <1>2, <1>3, <1>4, <1>5 DEF LoopInv

\* How the fate of a removal can change: Close posts it, and FinishEvent ends it.
LEMMA RemovalFate ==
  ASSUME IInv, [Next]_vars, NEW c \in Conns, fate'[RemoveEvent(c)] # fate[RemoveEvent(c)]
  PROVE  \/ /\ c \notin is_closed /\ is_closed' = is_closed \cup {c} /\ loop # "timers"
            /\ fate'[RemoveEvent(c)] \in {"queued", "lost", "refused"}
            /\ fate'[RemoveEvent(c)] = "refused" => c \in timers'
            /\ UNCHANGED <<destroyed, connections>>
         \/ /\ running = RemoveEvent(c) /\ loop = "called" /\ fate'[RemoveEvent(c)] = "ran"
            /\ UNCHANGED <<is_closed, destroyed, connections>>
<1> DEFINE r == RemoveEvent(c)
<1>1. fate \in [Events -> Fifo!Fates] /\ r \in Events
  BY EventsDiffer DEF IInv, TypeInv, Fifo!TypeOK
<1>2. ASSUME NEW d \in Conns, Close(d), loop # "timers", UNCHANGED <<destroyed, connections>>
      PROVE  /\ c \notin is_closed /\ is_closed' = is_closed \cup {c} /\ loop # "timers"
             /\ fate'[r] \in {"queued", "lost", "refused"}
             /\ fate'[r] = "refused" => c \in timers'
             /\ UNCHANGED <<destroyed, connections>>
  <2>1. d \notin is_closed /\ is_closed' = is_closed \cup {d}
    BY <1>2, CloseEffect DEF scheduled
  <2>2. \E f \in {"queued", "lost", "refused"} : fate' = [fate EXCEPT ![RemoveEvent(d)] = f]
    BY <1>2, <2>1, CloseEffect
  <2>3. d = c
    BY <1>1, <2>2, EventsDiffer
  <2>4. fate'[r] \in {"queued", "lost", "refused"}
    BY <1>1, <2>2, <2>3
  <2>5. fate'[r] = "refused" => c \in timers'
    BY <1>1, <1>2, <2>1, <2>3, CloseEffect
  <2> QED
    BY <1>2, <2>1, <2>3, <2>4, <2>5
<1>3. CASE \E d \in Conns : RunClose(d)
  <2>1. PICK d \in Conns : RunClose(d)
    BY <1>3
  <2>2. Close(d) /\ loop # "timers" /\ UNCHANGED <<destroyed, connections>>
    BY <2>1 DEF Calls
  <2> QED
    BY <1>2, <2>2
<1>4. CASE ReadCloses \/ WriteCloses
  <2>1. /\ current \in Conns /\ Close(current) /\ loop # "timers"
        /\ UNCHANGED <<destroyed, connections>>
    BY <1>4 DEF IInv, KnownInv, Known, AtConn
  <2> QED
    BY <1>2, <2>1
<1>5. CASE FinishEvent
  <2>1. /\ fate' = [fate EXCEPT ![running] = "ran"] /\ loop = "called"
        /\ UNCHANGED <<is_closed, destroyed, connections>>
    BY <1>5 DEF Sched!Finish
  <2> QED
    BY <1>1, <2>1
<1>6. CASE \E d \in Conns : Disconnect(d)
  <2>1. PICK d \in Conns, f \in {"queued", "refused", "lost"} :
          fate' = [fate EXCEPT ![CloseEvent(d)] = f]
    BY <1>6 DEF Sched!Post, Sched!TurnAway
  <2> QED
    BY <1>1, <2>1, EventsDiffer
<1>7. CASE \E d \in Sends : PostSend(d)
  <2>1. PICK d \in Sends, f \in {"queued", "refused", "lost"} :
          fate' = [fate EXCEPT ![SendEvent(d)] = f]
    BY <1>7 DEF Sched!Post, Sched!TurnAway
  <2> QED
    BY <1>1, <2>1, SendsDiffer
<1>8. fate' = fate \/ (\E d \in Conns : RunClose(d) \/ Disconnect(d)) \/ ReadCloses \/ WriteCloses
      \/ FinishEvent \/ (\E d \in Sends : PostSend(d))
  BY DEF Sched!Take, Sched!Release, scheduled
<1> QED
  BY <1>3, <1>4, <1>5, <1>6, <1>7, <1>8

LEMMA ConnStep == IInv /\ [Next]_vars => ConnInv'
<1> SUFFICES ASSUME IInv, [Next]_vars PROVE ConnInv'
  OBVIOUS
<1>1. ASSUME NEW c \in Conns, running = RemoveEvent(c) PROVE c \in is_closed
  <2>1. fate[RemoveEvent(c)] = "queued"
    BY <1>1, EventsDiffer DEF IInv, Fifo!FifoInv
  <2> QED
    BY <2>1 DEF IInv, ConnInv
<1>2. is_closed' \cap channels' = {}
  BY DEF IInv, ConnInv, KnownInv, Known, Close
<1>3. destroyed' \cap connections' = {}
  BY DEF IInv, ConnInv, LoopInv
<1>4. destroyed' \subseteq is_closed' /\ timers' \subseteq is_closed'
  BY <1>1 DEF IInv, ConnInv, Close, AskRemoval, Calls
<1>5. \A c \in channels' \cap Conns : c \in connections' \/ (loop' = "add" /\ current' = c)
  BY <1>1, ConnAssumption DEF IInv, TypeInv, PlaceType, ConnInv, Close, Calls
<1>6. ASSUME NEW c \in Conns
      PROVE  /\ fate'[RemoveEvent(c)] = "new" <=> c \notin is_closed'
             /\ fate'[RemoveEvent(c)] = "ran" => c \in destroyed'
             /\ fate'[RemoveEvent(c)] = "refused" => c \in timers' \cup destroyed'
  <2>1. CASE fate'[RemoveEvent(c)] # fate[RemoveEvent(c)]
    <3>1. running = RemoveEvent(c) /\ loop = "called" => c \in destroyed
      BY DEF IInv, LoopInv
    <3> QED
      BY <1>1, <2>1, <3>1, RemovalFate
  <2>2. CASE fate'[RemoveEvent(c)] = fate[RemoveEvent(c)]
    <3>1. is_closed \subseteq is_closed' /\ destroyed \subseteq destroyed'
          /\ timers \subseteq timers' \cup destroyed'
      BY DEF Close, AskRemoval
    <3>2. ASSUME c \in is_closed', c \notin is_closed PROVE FALSE
      <4>1. PICK d \in Conns : Close(d) /\ c = d
        BY <3>2 DEF IInv, KnownInv, Known, AtConn, Close
      <4>2. fate[RemoveEvent(c)] = "new" /\ fate'[RemoveEvent(c)] # "new"
        BY <3>2, <4>1, CloseEffect, EventsDiffer DEF IInv, TypeInv, Fifo!TypeOK
      <4> QED
        BY <2>2, <4>2
    <3> QED
      BY <2>2, <3>1, <3>2 DEF IInv, ConnInv
  <2> QED
    BY <2>1, <2>2
<1> QED
  BY <1>2, <1>3, <1>4, <1>5, <1>6 DEF ConnInv

\* How the fate of a Close can change: Disconnect posts it, and FinishEvent ends it.
LEMMA CloseFate ==
  ASSUME IInv, [Next]_vars, NEW c \in Conns, fate'[CloseEvent(c)] # fate[CloseEvent(c)]
  PROVE  \/ /\ Disconnect(c) /\ fate'[CloseEvent(c)] \in {"queued", "lost", "refused"}
            /\ c \in is_closed => c \in too_late'
            /\ UNCHANGED <<is_closed, destroyed, connections, loop>>
         \/ /\ running = CloseEvent(c) /\ loop = "called" /\ fate'[CloseEvent(c)] = "ran"
            /\ UNCHANGED <<is_closed, destroyed, connections, todo, swept>>
<1> DEFINE r == CloseEvent(c)
<1>1. fate \in [Events -> Fifo!Fates] /\ r \in Events
  BY EventsDiffer DEF IInv, TypeInv, Fifo!TypeOK
<1>2. ASSUME NEW d \in Conns, Close(d) PROVE FALSE
  <2>1. PICK f : fate' = [fate EXCEPT ![RemoveEvent(d)] = f]
    BY <1>2, CloseEffect DEF scheduled
  <2> QED
    BY <1>1, <2>1, EventsDiffer
<1>3. ~(\E d \in Conns : RunClose(d)) /\ ~ReadCloses /\ ~WriteCloses
  BY <1>2 DEF IInv, KnownInv, Known, AtConn
<1>4. CASE FinishEvent
  <2>1. /\ fate' = [fate EXCEPT ![running] = "ran"] /\ loop = "called"
        /\ UNCHANGED <<is_closed, destroyed, connections, todo, swept>>
    BY <1>4 DEF Sched!Finish
  <2> QED
    BY <1>1, <2>1
<1>5. CASE \E d \in Conns : Disconnect(d)
  <2>1. PICK d \in Conns : Disconnect(d)
    BY <1>5
  <2>2. PICK f \in {"queued", "refused", "lost"} : fate' = [fate EXCEPT ![CloseEvent(d)] = f]
    BY <2>1 DEF Sched!Post, Sched!TurnAway
  <2>3. d = c /\ fate'[r] = f
    BY <1>1, <2>2, EventsDiffer
  <2> QED
    BY <2>1, <2>3
<1>6. CASE \E d \in Sends : PostSend(d)
  <2>1. PICK d \in Sends, f \in {"queued", "refused", "lost"} :
          fate' = [fate EXCEPT ![SendEvent(d)] = f]
    BY <1>6 DEF Sched!Post, Sched!TurnAway
  <2> QED
    BY <1>1, <2>1, SendsDiffer
<1>7. fate' = fate \/ (\E d \in Conns : RunClose(d) \/ Disconnect(d)) \/ ReadCloses \/ WriteCloses
      \/ FinishEvent \/ (\E d \in Sends : PostSend(d))
  BY DEF Sched!Take, Sched!Release, scheduled
<1> QED
  BY <1>3, <1>4, <1>5, <1>6, <1>7

LEMMA StopStep == IInv /\ [Next]_vars => StopInv'
<1> SUFFICES ASSUME IInv, [Next]_vars PROVE StopInv'
  OBVIOUS
<1>1. todo' \subseteq swept'
  BY DEF IInv, StopInv
<1>2. /\ stop' = "idle" => swept' = {}
      /\ stop' \notin {"idle", "sweep"} => todo' = {}
  BY DEF IInv, StopInv
<1>3. ASSUME NEW c \in Conns, conn_mutex'[c] = Stopper PROVE c \in todo' /\ stop' = "sweep"
  BY <1>3 DEF IInv, TypeInv, LockType, StopInv, Stopper, Scheduler, Nobody
<1>4. ASSUME NEW c \in Conns, conn_mutex'[c] = Scheduler PROVE loop' = "read" /\ current' = c
  <2>1. CASE conn_mutex[c] = Scheduler
    <3>1. loop = "read" /\ current = c
      BY <2>1 DEF IInv, StopInv
    <3>2. ~ReadCloses /\ ~ReadRequest
      BY <1>4, <3>1 DEF IInv, TypeInv, LockType, Scheduler, Nobody
    <3> QED
      BY <3>1, <3>2 DEF Calls
  <2>2. CASE conn_mutex[c] # Scheduler
    <3>1. BeginRead(c)
      BY <1>4, <2>2 DEF IInv, TypeInv, LockType, Stopper, Scheduler, Nobody
    <3> QED
      BY <3>1
  <2> QED
    BY <2>1, <2>2
<1>5. ASSUME NEW c \in Conns
      PROVE  /\ fate'[CloseEvent(c)] = "new" <=> c \notin swept' \ todo'
             /\ fate'[CloseEvent(c)] = "ran" => c \in is_closed'
  <2>1. CASE fate'[CloseEvent(c)] # fate[CloseEvent(c)]
    <3>1. running = CloseEvent(c) /\ loop = "called" => c \in is_closed /\ c \in swept \ todo
      BY EventsDiffer DEF IInv, LoopInv, StopInv, Fifo!FifoInv
    <3>2. Disconnect(c) => c \in swept' \ todo'
      BY DEF IInv, StopInv
    <3> QED
      BY <2>1, <3>1, <3>2, CloseFate
  <2>2. CASE fate'[CloseEvent(c)] = fate[CloseEvent(c)]
    <3>1. is_closed \subseteq is_closed'
      BY DEF Close
    <3>2. ~Disconnect(c)
      <4>1. Disconnect(c) => fate[CloseEvent(c)] = "new" /\ fate'[CloseEvent(c)] # "new"
        BY EventsDiffer DEF Sched!Post, Sched!TurnAway, IInv, TypeInv, Fifo!TypeOK
      <4> QED
        BY <2>2, <4>1
    <3>3. c \in swept' \ todo' <=> c \in swept \ todo
      BY <3>2 DEF IInv, StopInv
    <3> QED
      BY <2>2, <3>1, <3>3 DEF IInv, StopInv
  <2> QED
    BY <2>1, <2>2
<1>6. loop' = "read" => conn_mutex'[current'] = Scheduler
  <2>1. CASE \E c \in Conns : BeginRead(c)
    BY <2>1 DEF IInv, TypeInv, LockType
  <2>2. CASE ~(\E c \in Conns : BeginRead(c)) /\ loop' = "read"
    <3>1. loop = "read" /\ current' = current /\ current \in Conns
      BY <2>2 DEF IInv, TypeInv, PlaceType, KnownInv, Known, AtConn
    <3>2. ~ReadCloses /\ ~ReadRequest
      BY <2>2
    <3>3. ~Disconnect(current) /\ ~LockConn(current)
      BY <3>1 DEF IInv, StopInv, Stopper, Scheduler, Nobody
    <3> QED
      BY <3>1, <3>2, <3>3 DEF IInv, TypeInv, LockType, StopInv
  <2> QED
    BY <2>1, <2>2
<1> QED
  BY <1>1, <1>2, <1>3, <1>4, <1>5, <1>6 DEF StopInv

LEMMA OrderStep == IInv /\ [Next]_vars => OrderInv'
<1> SUFFICES ASSUME IInv, [Next]_vars PROVE OrderInv'
  OBVIOUS
<1>1. too_late \subseteq too_late'
  BY DEF IInv
<1>2. ASSUME NEW c \in Conns, InTime(c)', fate'[RemoveEvent(c)] = "queued"
      PROVE  Fifo!Before(CloseEvent(c), RemoveEvent(c))'
  <2>1. Fifo!TypeOK /\ Fifo!FifoInv /\ [Sched!Next]_scheduled
    BY ScheduledStep DEF IInv, TypeInv
  <2>2. CloseEvent(c) \in Events /\ RemoveEvent(c) \in Events /\ CloseEvent(c) # RemoveEvent(c)
    BY EventsDiffer
  <2>3. fate[CloseEvent(c)] = "queued"
    <3>1. SUFFICES ASSUME fate[CloseEvent(c)] # "queued" PROVE FALSE
      OBVIOUS
    <3>2. Disconnect(c) /\ c \notin is_closed /\ is_closed' = is_closed
      BY <1>2, <3>1, CloseFate DEF InTime
    <3>3. fate'[RemoveEvent(c)] = fate[RemoveEvent(c)]
      BY <3>2, <2>2 DEF Sched!Post, Sched!TurnAway, IInv, TypeInv, Fifo!TypeOK
    <3> QED
      BY <1>2, <3>2, <3>3 DEF IInv, ConnInv
  <2>4. CASE fate[RemoveEvent(c)] = "queued"
    BY <1>1, <1>2, <2>1, <2>2, <2>3, <2>4, SchedIsFifo, NoEventAssumption,
       Fifo!OrderKept DEF InTime, IInv, OrderInv
  <2>5. CASE fate[RemoveEvent(c)] # "queued"
    BY <1>2, <2>1, <2>2, <2>3, <2>5, SchedIsFifo, NoEventAssumption,
       Fifo!PostedLast
  <2> QED
    BY <2>4, <2>5
<1>3. ASSUME loop' = "timers", NEW c \in is_closed' PROVE ~InTime(c)'
  <2>1. c \in Conns
    BY SetStep DEF IInv, TypeInv, SetType
  <2>2. CASE loop = "timers"
    <3>1. is_closed' = is_closed
      BY <2>2 DEF Calls, IInv
    <3>2. CASE fate'[CloseEvent(c)] = fate[CloseEvent(c)]
      BY <1>1, <1>3, <2>2, <3>1, <3>2 DEF IInv, OrderInv, InTime
    <3>3. CASE fate'[CloseEvent(c)] # fate[CloseEvent(c)]
      BY <1>3, <2>1, <2>2, <3>1, <3>3, CloseFate DEF InTime
    <3> QED
      BY <3>2, <3>3
  <2>3. CASE loop # "timers"
    <3>1. TriggersDone
      BY <1>3, <2>3 DEF IInv, TypeInv, PlaceType
    <3>2. queue = <<>> /\ running = NoEvent /\ fate' = fate
      BY <3>1 DEF scheduled
    <3>3. fate[CloseEvent(c)] # "queued"
      BY <2>1, <3>2, EventsDiffer DEF IInv, Fifo!FifoInv, Fifo!Waiting
    <3> QED
      BY <3>2, <3>3 DEF InTime
  <2> QED
    BY <2>2, <2>3
<1> QED
  BY <1>2, <1>3 DEF OrderInv

LEMMA StrayStep == IInv /\ [Next]_vars => StrayCloseOnlyWhenLate'
<1> SUFFICES ASSUME IInv, [Next]_vars, NEW c \in destroyed', fate'[CloseEvent(c)] = "queued"
             PROVE  c \in too_late'
  BY DEF StrayCloseOnlyWhenLate
<1>1. too_late \subseteq too_late'
  BY DEF IInv
<1>2. c \in Conns
  BY SetStep DEF IInv, TypeInv, SetType
<1>3. CASE c \in destroyed
  <2>1. c \in is_closed
    BY <1>3 DEF IInv, ConnInv
  <2> QED
    BY <1>1, <1>2, <1>3, <2>1, CloseFate DEF IInv, StrayCloseOnlyWhenLate
<1>4. CASE RunRemove(c)
  <2>1. running = RemoveEvent(c) /\ fate' = fate
    BY <1>4 DEF Calls, scheduled
  <2>2. fate[RemoveEvent(c)] = "queued" /\ running # CloseEvent(c) /\ ~Fifo!Waiting(RemoveEvent(c))
    BY <1>2, <2>1, EventsDiffer DEF IInv, Fifo!FifoInv
  <2>3. ~Fifo!Before(CloseEvent(c), RemoveEvent(c))
    BY <2>2 DEF Fifo!Before, Fifo!Waiting
  <2> QED
    BY <1>1, <1>2, <2>1, <2>2, <2>3 DEF IInv, OrderInv, InTime
<1>5. CASE TimerRemoves(c)
  BY <1>1, <1>2, <1>5 DEF IInv, ConnInv, OrderInv, InTime, scheduled
<1>6. c \in destroyed \/ RunRemove(c) \/ TimerRemoves(c)
  BY DEF IInv
<1> QED
  BY <1>3, <1>4, <1>5, <1>6

LEMMA StrandedStep == IInv /\ [Next]_vars => NothingStranded'
<1> SUFFICES ASSUME IInv, [Next]_vars, NEW c \in Conns, c \in channels', write_buffer'[c] > 0
             PROVE  c \in writing' \/ (loop' = "write" /\ current' = c) \/ Disconnecting(c)'
  BY DEF NothingStranded
<1>1. Disconnecting(c) => Disconnecting(c)'
  <2>1. c \in swept \ todo => c \in swept' \ todo'
    BY DEF IInv, StopInv
  <2>2. CASE conn_mutex[c] = Stopper /\ Disconnect(c)
    BY <2>2 DEF IInv, StopInv, Disconnecting
  <2>3. CASE conn_mutex[c] = Stopper /\ ~Disconnect(c)
    <3>1. conn_mutex'[c] = Stopper
      <4>1. current = c => loop # "read"
        BY <2>3 DEF IInv, StopInv, Stopper, Scheduler
      <4> QED
        BY <2>3, <4>1 DEF IInv, TypeInv, LockType, StopInv, Stopper, Scheduler, Nobody
    <3> QED
      BY <3>1 DEF Disconnecting
  <2> QED
    BY <2>1, <2>2, <2>3 DEF Disconnecting
<1>2. write_buffer \in [Conns -> 0 .. QueueLength] /\ QueueLength \in Nat
  BY BoundsAssumption DEF IInv, TypeInv, TrafficType
<1>3. CASE Send
  BY <1>1, <1>2, <1>3 DEF AppendPacket, IInv, NothingStranded
<1>4. CASE Write
  BY <1>1, <1>2, <1>4 DEF SendPackets, UpdateWriting, IInv, NothingStranded
<1>5. CASE WriteGivesUp
  <2>1. conn_mutex[current] = Stopper
    BY <1>5 DEF IInv, StopInv, TypeInv, LockType, Holders, KnownInv, Known, AtConn
  <2> QED
    BY <1>1, <1>5, <2>1 DEF IInv, NothingStranded, Disconnecting
<1>6. CASE WriteCloses
  BY <1>1, <1>6 DEF IInv, ConnInv, KnownInv, AtConn, Known, NothingStranded, Close
<1>7. CASE Accept(c)
  BY <1>7 DEF IInv, KnownInv, Known
<1>8. CASE ~(Send \/ Write \/ WriteGivesUp \/ WriteCloses \/ Accept(c))
  <2>1. c \in channels /\ write_buffer' = write_buffer /\ writing' = writing
    BY <1>8, ConnAssumption DEF Close
  <2>2. loop = "write" => loop' = "write" /\ current' = current
    BY <1>8 DEF IInv, TypeInv, PlaceType, Calls
  <2> QED
    BY <1>1, <2>1, <2>2 DEF IInv, NothingStranded
<1> QED
  BY <1>3, <1>4, <1>5, <1>6, <1>7, <1>8

HIDE DEF Next, SchedulerWorks, StopperWorks, Connect, Ask, HangUp, TimerRemoves, PostSend,
         TakeEvent,
        ReleasePlace, RunSend, RunSendOverTcp, RunClose, RunStrayClose, RunRemove, FinishEvent,
        TriggersDone, TimersDone, Poll, DispatchDone, BeginAccept, StrayAccept, Accept,
        AcceptNothing, AddConnection, BeginRead, ReadCloses, ReadRequest, BeginWrite, Send,
        WriteGivesUp, Write, WriteCloses, Return, StopBegins, LockConn, Disconnect, SweepDone,
        CloseAcceptor, StopReturns, clientOnly, stopper, sets, traffic, locks, vars

-----------------------------------------------------------------------------
(***************************************************************************)
(* The inductive invariant and the theorems                                *)
(***************************************************************************)

LEMMA InductiveStep == IInv /\ [Next]_vars => IInv'
BY TypeStep, KnownStep, LoopStep, ConnStep, StopStep, OrderStep, StrandedStep, StrayStep DEF IInv

LEMMA Invariance == Spec => []IInv
BY InitialState, InductiveStep, PTL DEF Spec

\* Every variable holds a value of its type, and mutex_ of the server is held across
\* steps by Stop's loop only.
THEOREM TypeCorrect == Spec => []TypeOK
<1>1. IInv => TypeOK
  BY DEF IInv, TypeInv, PlaceType, SetType, LockType, TrafficType, Fifo!TypeOK, TypeOK
<1> QED
  BY <1>1, Invariance, PTL

\* A connection that the poller watches is in connections_, and the removal of one
\* that is closed has been asked for.
THEOREM ConnectionsRemembered == Spec => []NoneForgotten
<1>1. ASSUME IInv PROVE NoneForgotten
  <2>1. \A c \in Conns : fate[RemoveEvent(c)] \in Fifo!Fates
    BY <1>1, EventsDiffer DEF IInv, TypeInv, Fifo!TypeOK
  <2> QED
    BY <1>1, <2>1 DEF IInv, TypeInv, SetType, ConnInv, NoneForgotten, Fifo!Fates
<1> QED
  BY <1>1, Invariance, PTL

\* A packet in a write_buffer_ has somebody to write it, or Disconnect came between.
THEOREM PacketsAttended == Spec => []NothingStranded
<1>1. IInv => NothingStranded
  BY DEF IInv
<1> QED
  BY <1>1, Invariance, PTL

\* Close runs on a destroyed connection only if Disconnect found it closed already.
THEOREM StrayCloseIsLate == Spec => []StrayCloseOnlyWhenLate
<1>1. IInv => StrayCloseOnlyWhenLate
  BY DEF IInv
<1> QED
  BY <1>1, Invariance, PTL

\* Stop waits for connections that are going to be closed, or that it missed.
THEOREM WaitIsFounded == Spec => []WaitsOnlyForMissed
<1>1. ASSUME IInv, stop = "wait", NEW c \in connections
      PROVE  Missed(c) \/ fate[CloseEvent(c)] = "queued" \/ c \in is_closed
  <2>1. c \in Conns /\ fate[CloseEvent(c)] \in Fifo!Fates
    BY <1>1, EventsDiffer DEF IInv, TypeInv, SetType, Fifo!TypeOK
  <2> QED
    BY <1>1, <2>1 DEF IInv, StopInv, Missed, Fifo!Fates
<1>2. IInv => WaitsOnlyForMissed
  BY <1>1 DEF WaitsOnlyForMissed
<1> QED
  BY <1>2, Invariance, PTL

\* Whatever the peers, the scheduler and Stop do, trigger events go through the FIFO
\* that TaskScheduler implements.
THEOREM EventsAreScheduled == Spec => Sched!Spec
<1>1. Init => Sched!Init
  BY DEF Init
<1>2. IInv /\ [Next]_vars => [Sched!Next]_(Sched!vars)
  BY ScheduledStep DEF IInv, TypeInv, scheduled, Sched!vars
<1> QED
  BY <1>1, <1>2, Invariance, PTL DEF Spec, Sched!Spec

=============================================================================
