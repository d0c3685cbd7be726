------------------------------ MODULE TcpServer ------------------------------
(***************************************************************************)
(* The connections of TcpServer, from Acceptor::OnAccept to                *)
(* RemoveConnection, with what they read and write, and TcpServer::Stop,   *)
(* which disconnects them all and waits until the last is gone.            *)
(*                                                                         *)
(* Two threads share them.  The scheduler thread (one, as EventLoop has by *)
(* default) accepts, reads, closes and removes; the thread that calls Stop *)
(* (the encoder's, in rtsp_output_actual_stop) posts a Close for every     *)
(* connection that it finds.  Trigger events go through the FIFO that      *)
(* TaskScheduler implements, TriggerQueue, and may be turned away.         *)
(*                                                                         *)
(* mutex_ of TcpServer, Acceptor and TcpConnection are held across steps.  *)
(* The locks that are only ever taken last (EventLoop, TaskScheduler,      *)
(* TimerQueue) are inside a step.  The two acceptors of RtspServer (IPv4   *)
(* and IPv6) are one here.                                                 *)
(***************************************************************************)
EXTENDS Naturals, Sequences

CONSTANTS
  Conns,        \* the connections that clients may open, each once
  Sends,        \* packets that the push thread has posted or may post
  Capacity,     \* kMaxTriggetEvents
  QueueLength,  \* max_queue_length_ of a write_buffer_: 500
  MaxRequests,  \* bound of the model: requests that the peers send
  NoEvent,
  NoConn

Scheduler == "scheduler"
Stopper   == "stopper"
Nobody    == "nobody"
Holders   == {Scheduler, Stopper, Nobody}

CloseEvent(c)  == <<"close", c>>    \* [this] { this->Close(); }
RemoveEvent(c) == <<"remove", c>>   \* [this, sockfd] { this->RemoveConnection(sockfd); }
SendEvent(s)   == <<"send", s>>

Events == {CloseEvent(c) : c \in Conns} \cup {RemoveEvent(c) : c \in Conns}
            \cup {SendEvent(s) : s \in Sends}

ASSUME ConnAssumption == NoConn \notin Conns /\ "acceptor" \notin Conns
ASSUME NoEventAssumption == NoEvent \notin Events
ASSUME BoundsAssumption == QueueLength \in Nat /\ MaxRequests \in Nat

VARIABLES
  client,          \* the peer: "none", "backlog", "open", "gone"
  is_closed,       \* the connections whose is_closed_ is TRUE
  channels,        \* what is registered in the poller: connections, "acceptor"
  connections,     \* connections_
  destroyed,       \* connections that have left connections_
  timers,          \* connections whose removal waits for a timer
  requests,        \* how many requests the peers have sent
  unread,          \* connections with a request that is not read yet
  write_buffer,    \* how many packets wait in each write_buffer_
  writing,         \* connections whose channel IsWriting
  server_mutex, acceptor_mutex, conn_mutex,     \* who holds TcpServer::mutex_, ...
  loop,            \* where the scheduler thread is
  batch,           \* what epoll_wait returned as readable and is not handled yet
  writable,        \* likewise, the connections with EPOLLOUT
  current,         \* the connection being accepted or read
  stop,            \* where the thread that calls Stop is
  todo,            \* connections that Stop's loop has yet to disconnect
  swept,           \* history: connections that Stop's loop found
  too_late,        \* history: those of them that were closed before Disconnect
  queue, running, releasing, fate               \* as in TriggerQueue

Sched == INSTANCE TriggerQueue

scheduled == <<queue, running, releasing, fate>>
locks     == <<server_mutex, acceptor_mutex, conn_mutex>>
traffic   == <<requests, unread, write_buffer, writing, writable>>
sets      == <<is_closed, channels, connections, destroyed, timers>>
stopper   == <<stop, todo, swept, too_late>>
vars == <<client, traffic, sets, locks, loop, batch, current, stopper, scheduled>>

Init ==
  /\ client = [c \in Conns |-> "none"]
  /\ is_closed = {}
  /\ channels = {"acceptor"}
  /\ connections = {}
  /\ destroyed = {}
  /\ timers = {}
  /\ requests = 0 /\ unread = {}
  /\ write_buffer = [c \in Conns |-> 0]
  /\ writing = {} /\ writable = {}
  /\ server_mutex = Nobody /\ acceptor_mutex = Nobody
  /\ conn_mutex = [c \in Conns |-> Nobody]
  /\ loop = "triggers"
  /\ batch = {}
  /\ current = NoConn
  /\ stop = "idle"
  /\ todo = {} /\ swept = {} /\ too_late = {}
  /\ Sched!Init

-----------------------------------------------------------------------------
(***************************************************************************)
(* The peers, and the push thread                                          *)
(***************************************************************************)

clientOnly == <<traffic, sets, locks, loop, batch, current, stopper, scheduled>>

Connect(c) ==
  /\ client[c] = "none"
  /\ "acceptor" \in channels
  /\ client' = [client EXCEPT ![c] = "backlog"]
  /\ UNCHANGED clientOnly

\* The peer closes, fails, or sends what makes OnRead return false.
HangUp(c) ==
  /\ client[c] = "open"
  /\ client' = [client EXCEPT ![c] = "gone"]
  /\ UNCHANGED clientOnly

\* The peer sends a request that gets a reply.
Ask(c) ==
  /\ client[c] = "open"
  /\ c \notin unread
  /\ requests < MaxRequests
  /\ requests' = requests + 1
  /\ unread' = unread \cup {c}
  /\ UNCHANGED <<client, write_buffer, writing, writable, sets, locks, loop, batch, current, stopper,
                 scheduled>>

\* RtpConnection::SendRtpPacket posts a packet.
PostSend(s) ==
  /\ Sched!Post(SendEvent(s)) \/ Sched!TurnAway(SendEvent(s))
  /\ UNCHANGED <<client, traffic, sets, locks, loop, batch, current, stopper>>

-----------------------------------------------------------------------------
(***************************************************************************)
(* The scheduler thread: trigger events and timers                         *)
(***************************************************************************)

\* Mutant: disconnect_cb_ asks for no removal.
ForgetRemoval(c) == UNCHANGED <<queue, running, releasing, fate, timers>>

\* disconnect_cb_: RemoveConnection is posted, or left to a timer if
\* AddTriggerEvent returns false.
AskRemoval(c) ==
  \/ Sched!Post(RemoveEvent(c)) /\ UNCHANGED timers
  \/ /\ Sched!TurnAway(RemoveEvent(c))
     /\ timers' = IF fate'[RemoveEvent(c)] = "refused" THEN timers \cup {c} ELSE timers

\* TcpConnection::Close
Close(c) ==
  IF c \in is_closed
    THEN UNCHANGED <<is_closed, channels, timers, scheduled>>
    ELSE /\ is_closed' = is_closed \cup {c}
         /\ channels' = channels \ {c}
         /\ AskRemoval(c)

TakeEvent ==
  /\ loop = "triggers"
  /\ Sched!Take
  /\ UNCHANGED <<client, traffic, sets, locks, loop, batch, current, stopper>>

ReleasePlace ==
  /\ Sched!Release
  /\ UNCHANGED <<client, traffic, sets, locks, loop, batch, current, stopper>>

\* The event that HandleTriggerEvent has popped is called.
Calls(e) == loop = "triggers" /\ running = e /\ ~releasing

\* The packet goes by UDP, or is not wanted any more ...
RunSend(s) ==
  /\ Calls(SendEvent(s))
  /\ loop' = "called"
  /\ UNCHANGED <<client, traffic, sets, locks, batch, current, stopper, scheduled>>

\* ... or by TCP: SendRtpOverTcp calls Send of the RTSP connection.
RunSendOverTcp(s, c) ==
  /\ Calls(SendEvent(s))
  /\ c \in connections \ is_closed
  /\ current' = c
  /\ loop' = "append"
  /\ UNCHANGED <<client, traffic, sets, locks, batch, stopper, scheduled>>

\* Close(), on a connection that still exists; mutex_ is not taken.
RunClose(c) ==
  /\ Calls(CloseEvent(c))
  /\ c \notin destroyed
  /\ Close(c)
  /\ loop' = "called"
  /\ UNCHANGED <<client, traffic, connections, destroyed, locks, batch, current, stopper>>

\* Close() on a destroyed connection reads is_closed_ where it was: that it
\* still reads TRUE is the best that can happen ("crashed" stands for the rest).
RunStrayClose(c) ==
  /\ Calls(CloseEvent(c))
  /\ c \in destroyed
  /\ loop' \in {"called", "crashed"}
  /\ UNCHANGED <<client, traffic, sets, locks, batch, current, stopper, scheduled>>

\* RemoveConnection, under mutex_ of the server; the last reference goes.
RunRemove(c) ==
  /\ Calls(RemoveEvent(c))
  /\ server_mutex = Nobody
  /\ connections' = connections \ {c}
  /\ destroyed' = destroyed \cup {c}
  /\ loop' = "called"
  /\ UNCHANGED <<client, traffic, is_closed, channels, timers, locks, batch, current,
                 stopper, scheduled>>

FinishEvent ==
  /\ loop = "called"
  /\ Sched!Finish
  /\ loop' = "triggers"
  /\ UNCHANGED <<client, traffic, sets, locks, batch, current, stopper>>

\* Size() > 0 no longer.
TriggersDone ==
  /\ loop = "triggers"
  /\ running = NoEvent
  /\ queue = <<>>
  /\ loop' = "timers"
  /\ UNCHANGED <<client, traffic, sets, locks, batch, current, stopper, scheduled>>

\* HandleTimerEvent: 100 ms have passed.
TimerRemoves(c) ==
  /\ loop = "timers"
  /\ c \in timers
  /\ server_mutex = Nobody
  /\ timers' = timers \ {c}
  /\ connections' = connections \ {c}
  /\ destroyed' = destroyed \cup {c}
  /\ UNCHANGED <<client, traffic, is_closed, channels, locks, loop, batch, current, stopper,
                 scheduled>>

TimersDone ==
  /\ loop = "timers"
  /\ loop' = "poll"
  /\ UNCHANGED <<client, traffic, sets, locks, batch, current, stopper, scheduled>>

-----------------------------------------------------------------------------
(***************************************************************************)
(* The scheduler thread: HandleEvent                                       *)
(***************************************************************************)

\* What epoll_wait has to report.
Ready == {c \in channels \cap Conns : client[c] = "gone" \/ c \in unread}
           \cup {a \in channels \ Conns : \E c \in Conns : client[c] = "backlog"}

\* epoll_wait returns what is ready, and of the connections that wait for room in
\* their socket those that have it; an empty answer is a wake-up for a new
\* trigger event, or the timeout of a timer.
Poll ==
  /\ loop = "poll"
  /\ batch' = Ready
  /\ writable' \in SUBSET (channels \cap writing)
  /\ Ready \cup writable' # {} \/ queue # <<>> \/ timers # {}
  /\ loop' = "dispatch"
  /\ UNCHANGED <<client, requests, unread, write_buffer, writing, sets, locks, current, stopper, scheduled>>

\* Mutant: timers are looked at before trigger events.
DispatchToTimers ==
  /\ loop = "dispatch"
  /\ batch = {} /\ writable = {}
  /\ loop' = "timers"
  /\ UNCHANGED <<client, traffic, sets, locks, batch, current, stopper, scheduled>>

\* HandleEvent returns to the loop, which starts with the trigger events.
DispatchDone ==
  /\ loop = "dispatch"
  /\ batch = {} /\ writable = {}
  /\ loop' = "triggers"
  /\ UNCHANGED <<client, traffic, sets, locks, batch, current, stopper, scheduled>>

\* Channel::HandleEvent of the acceptor, under Acceptor::mutex_.
BeginAccept ==
  /\ loop = "dispatch"
  /\ "acceptor" \in batch
  /\ stop # "done"
  /\ acceptor_mutex = Nobody
  /\ acceptor_mutex' = Scheduler
  /\ batch' = batch \ {"acceptor"}
  /\ loop' = "accept"
  /\ UNCHANGED <<client, traffic, sets, server_mutex, conn_mutex, current, stopper, scheduled>>

\* The batch holds a pointer to the channel of an acceptor that Stop has
\* destroyed in the meantime.
StrayAccept ==
  /\ loop = "dispatch"
  /\ "acceptor" \in batch
  /\ stop = "done"
  /\ loop' \in {"dispatch", "crashed"}
  /\ batch' = batch \ {"acceptor"}
  /\ UNCHANGED <<client, traffic, sets, locks, current, stopper, scheduled>>

\* accept() and OnConnect: the connection's channel is registered at once.
Accept(c) ==
  /\ loop = "accept"
  /\ client[c] = "backlog"
  /\ client' = [client EXCEPT ![c] = "open"]
  /\ channels' = channels \cup {c}
  /\ current' = c
  /\ loop' = "add"
  /\ UNCHANGED <<traffic, is_closed, connections, destroyed, timers, locks, batch, stopper,
                 scheduled>>

\* accept() returns an error: the socket was closed after epoll_wait returned.
AcceptNothing ==
  /\ loop = "accept"
  /\ \A c \in Conns : client[c] # "backlog"
  /\ acceptor_mutex' = Nobody
  /\ loop' = "dispatch"
  /\ UNCHANGED <<client, traffic, sets, server_mutex, conn_mutex, batch, current, stopper,
                 scheduled>>

\* Mutant: the connection is not added.
AddNothing ==
  /\ loop = "add"
  /\ current' = NoConn
  /\ acceptor_mutex' = Nobody
  /\ loop' = "dispatch"
  /\ UNCHANGED <<client, traffic, sets, server_mutex, conn_mutex, batch, stopper, scheduled>>

\* AddConnection, under mutex_ of the server, and SetDisconnectCallback (which
\* nothing but this thread reads).
AddConnection ==
  /\ loop = "add"
  /\ server_mutex = Nobody
  /\ connections' = connections \cup {current}
  /\ current' = NoConn
  /\ acceptor_mutex' = Nobody
  /\ loop' = "dispatch"
  /\ UNCHANGED <<client, traffic, is_closed, channels, destroyed, timers, server_mutex,
                 conn_mutex,
                 batch, stopper, scheduled>>

\* HandleRead, under the connection's mutex_ ...
BeginRead(c) ==
  /\ loop = "dispatch"
  /\ c \in batch
  /\ conn_mutex[c] = Nobody
  /\ conn_mutex' = [conn_mutex EXCEPT ![c] = Scheduler]
  /\ batch' = batch \ {c}
  /\ current' = c
  /\ loop' = "read"
  /\ UNCHANGED <<client, traffic, sets, server_mutex, acceptor_mutex, stopper, scheduled>>

\* Mutant: Close removes the connection from the server by itself, while
\* HandleRead holds the connection's mutex_.
ReadRemoves ==
  /\ loop = "read"
  /\ server_mutex = Nobody
  /\ is_closed' = is_closed \cup {current}
  /\ channels' = channels \ {current}
  /\ connections' = connections \ {current}
  /\ destroyed' = destroyed \cup {current}
  /\ conn_mutex' = [conn_mutex EXCEPT ![current] = Nobody]
  /\ current' = NoConn
  /\ loop' = "dispatch"
  /\ UNCHANGED <<client, traffic, timers, server_mutex, acceptor_mutex, batch, stopper,
                 scheduled>>

\* ... which ends in Close if the peer is gone ...
ReadCloses ==
  /\ loop = "read"
  /\ client[current] = "gone" /\ current \notin unread
  /\ Close(current)
  /\ conn_mutex' = [conn_mutex EXCEPT ![current] = Nobody]
  /\ current' = NoConn
  /\ loop' = "dispatch"
  /\ UNCHANGED <<client, traffic, connections, destroyed, server_mutex, acceptor_mutex, batch,
                 stopper>>

\* ... and otherwise in read_cb_, which sends a reply when mutex_ is released.
ReadRequest ==
  /\ loop = "read"
  /\ current \in unread
  /\ unread' = unread \ {current}
  /\ conn_mutex' = [conn_mutex EXCEPT ![current] = Nobody]
  /\ loop' = "append"
  /\ UNCHANGED <<client, requests, write_buffer, writing, writable, sets, server_mutex,
                 acceptor_mutex, batch, current, stopper, scheduled>>

-----------------------------------------------------------------------------
(***************************************************************************)
(* The scheduler thread: TcpConnection::Send and HandleWrite               *)
(***************************************************************************)

\* BufferWriter::Append returns false if the buffer is full; Send does not look.
AppendPacket(c) ==
  write_buffer' = IF write_buffer[c] < QueueLength THEN [write_buffer EXCEPT ![c] = @ + 1]
                                                    ELSE write_buffer

\* Send: Append under mutex_, then HandleWrite.
Send ==
  /\ loop = "append"
  /\ conn_mutex[current] = Nobody
  /\ AppendPacket(current)
  /\ loop' = "write"
  /\ UNCHANGED <<client, requests, unread, writing, writable, sets, locks, batch, current, stopper,
                 scheduled>>

\* EPOLLOUT: Channel::HandleEvent calls HandleWrite after HandleRead.
BeginWrite(c) ==
  /\ loop = "dispatch"
  /\ c \in writable \ batch
  /\ writable' = writable \ {c}
  /\ IF c \in is_closed THEN UNCHANGED <<loop, current>> ELSE loop' = "write" /\ current' = c
  /\ UNCHANGED <<client, requests, unread, write_buffer, writing, sets, locks, batch, stopper,
                 scheduled>>

\* Send and HandleWrite return to the trigger event or to the batch.
Return == current' = NoConn /\ loop' = IF running = NoEvent THEN "dispatch" ELSE "called"

\* try_lock fails: HandleWrite returns, and whoever has the mutex_ writes nothing.
WriteGivesUp ==
  /\ loop = "write"
  /\ conn_mutex[current] # Nobody
  /\ Return
  /\ UNCHANGED <<client, traffic, sets, locks, batch, stopper, scheduled>>

\* Mutant: writing is never enabled.
UpdateWritingOff(c, left) == writing' = IF left = 0 THEN writing \ {c} ELSE writing

\* EnableWriting, DisableWriting and UpdateChannel: the poller watches for room
\* if and only if packets are left.
UpdateWriting(c, left) == writing' = IF left = 0 THEN writing \ {c} ELSE writing \cup {c}

\* BufferWriter::Send writes packets until one does not go out whole.
SendPackets(c, left) ==
  left \leq write_buffer[c] /\ write_buffer' = [write_buffer EXCEPT ![c] = left]

\* HandleWrite with the mutex_, on a socket that takes what it has room for.
Write ==
  /\ loop = "write"
  /\ conn_mutex[current] = Nobody
  /\ \E left \in 0 .. QueueLength : SendPackets(current, left) /\ UpdateWriting(current, left)
  /\ Return
  /\ UNCHANGED <<client, requests, unread, writable, sets, locks, batch, stopper, scheduled>>

\* send() fails for good.
WriteCloses ==
  /\ loop = "write"
  /\ conn_mutex[current] = Nobody
  /\ client[current] = "gone" /\ write_buffer[current] > 0
  /\ Close(current)
  /\ Return
  /\ UNCHANGED <<client, traffic, connections, destroyed, locks, batch, stopper>>

SchedulerWorks ==
  \/ TakeEvent \/ ReleasePlace
  \/ \E s \in Sends : RunSend(s) \/ \E c \in Conns : RunSendOverTcp(s, c)
  \/ \E c \in Conns : RunClose(c) \/ RunStrayClose(c) \/ RunRemove(c)
  \/ FinishEvent \/ TriggersDone \/ TimersDone
  \/ Poll \/ DispatchDone
  \/ BeginAccept \/ StrayAccept \/ AcceptNothing \/ AddConnection
  \/ \E c \in Conns : Accept(c) \/ BeginRead(c)
  \/ ReadCloses \/ ReadRequest
  \/ \E c \in Conns : BeginWrite(c)
  \/ Send \/ WriteGivesUp \/ Write \/ WriteCloses

-----------------------------------------------------------------------------
(***************************************************************************)
(* TcpServer::Stop                                                         *)
(***************************************************************************)

StopBegins ==
  /\ stop = "idle"
  /\ server_mutex = Nobody
  /\ server_mutex' = Stopper
  /\ todo' = connections
  /\ swept' = connections
  /\ stop' = "sweep"
  /\ UNCHANGED <<client, traffic, sets, acceptor_mutex, conn_mutex, loop, batch, current,
                 too_late, scheduled>>

\* Disconnect takes the connection's mutex_ ...
LockConn(c) ==
  /\ stop = "sweep"
  /\ c \in todo
  /\ \A d \in Conns : conn_mutex[d] # Stopper
  /\ conn_mutex[c] = Nobody
  /\ conn_mutex' = [conn_mutex EXCEPT ![c] = Stopper]
  /\ UNCHANGED <<client, traffic, sets, server_mutex, acceptor_mutex, loop, batch,
                 current, stopper, scheduled>>

\* Mutant: Disconnect posts nothing.
DisconnectNothing(c) ==
  /\ conn_mutex[c] = Stopper
  /\ conn_mutex' = [conn_mutex EXCEPT ![c] = Nobody]
  /\ todo' = todo \ {c}
  /\ UNCHANGED <<client, traffic, sets, server_mutex, acceptor_mutex, loop, batch,
                 current, stop,
                 swept, too_late, scheduled>>

\* ... and posts Close, whatever AddTriggerEvent answers.
Disconnect(c) ==
  /\ conn_mutex[c] = Stopper
  /\ Sched!Post(CloseEvent(c)) \/ Sched!TurnAway(CloseEvent(c))
  /\ conn_mutex' = [conn_mutex EXCEPT ![c] = Nobody]
  /\ todo' = todo \ {c}
  /\ too_late' = IF c \in is_closed THEN too_late \cup {c} ELSE too_late
  /\ UNCHANGED <<client, traffic, sets, server_mutex, acceptor_mutex, loop, batch,
                 current, stop,
                 swept>>

\* mutex_.unlock() after the loop.
SweepDone ==
  /\ stop = "sweep"
  /\ todo = {}
  /\ server_mutex' = Nobody
  /\ stop' = "close"
  /\ UNCHANGED <<client, traffic, sets, acceptor_mutex, conn_mutex, loop, batch, current,
                 todo, swept,
                 too_late, scheduled>>

\* Acceptor::Close; peers that wait to be accepted are turned off.
CloseAcceptor ==
  /\ stop = "close"
  /\ acceptor_mutex = Nobody
  /\ channels' = channels \ {"acceptor"}
  /\ client' = [c \in Conns |-> IF client[c] = "backlog" THEN "gone" ELSE client[c]]
  /\ stop' = "wait"
  /\ UNCHANGED <<traffic, is_closed, connections, destroyed, timers, locks, loop, batch,
                 current,
                 todo, swept, too_late, scheduled>>

\* while (!connections_.empty()); the acceptors are destroyed.
StopReturns ==
  /\ stop = "wait"
  /\ connections = {}
  /\ stop' = "done"
  /\ UNCHANGED <<client, traffic, sets, locks, loop, batch, current, todo, swept,
                 too_late, scheduled>>

StopperWorks ==
  \/ SweepDone \/ CloseAcceptor \/ StopReturns
  \/ \E c \in Conns : LockConn(c) \/ Disconnect(c)

-----------------------------------------------------------------------------

Next ==
  \/ \E c \in Conns : Connect(c) \/ Ask(c) \/ HangUp(c) \/ TimerRemoves(c)
  \/ \E s \in Sends : PostSend(s)
  \/ SchedulerWorks
  \/ StopBegins \/ StopperWorks

(***************************************************************************)
(* Both threads run.  A timer that is set is found due at some pass of the *)
(* loop, though not at every pass: strong fairness.  The peers promise     *)
(* nothing; in particular none need ever hang up or read.                  *)
(***************************************************************************)
Fairness ==
  /\ WF_vars(SchedulerWorks)
  /\ WF_vars(StopperWorks)
  /\ \A c \in Conns : SF_vars(TimerRemoves(c))

Spec == Init /\ [][Next]_vars /\ Fairness

-----------------------------------------------------------------------------
(***************************************************************************)
(* Properties                                                              *)
(***************************************************************************)

\* Every variable holds a value of its type, and the server's mutex_ is held
\* across steps by Stop's loop only (it is locked and unlocked by hand).
TypeOK ==
  /\ client \in [Conns -> {"none", "backlog", "open", "gone"}]
  /\ is_closed \subseteq Conns /\ connections \subseteq Conns
  /\ destroyed \subseteq Conns /\ timers \subseteq Conns
  /\ channels \subseteq Conns \cup {"acceptor"}
  /\ server_mutex = (IF stop = "sweep" THEN Stopper ELSE Nobody)
  /\ acceptor_mutex \in Holders
  /\ conn_mutex \in [Conns -> Holders]
  /\ loop \in {"triggers", "called", "timers", "poll", "dispatch", "accept", "add", "read",
               "append", "write", "crashed"}
  /\ requests \in 0 .. MaxRequests /\ unread \subseteq Conns
  /\ write_buffer \in [Conns -> 0 .. QueueLength] /\ writing \subseteq Conns
  /\ batch \subseteq Conns \cup {"acceptor"} /\ writable \subseteq Conns
  /\ current \in Conns \cup {NoConn}
  /\ stop \in {"idle", "sweep", "close", "wait", "done"}
  /\ todo \subseteq Conns /\ swept \subseteq Conns /\ too_late \subseteq Conns
  /\ queue \in Seq(Events) /\ running \in Events \cup {NoEvent}
  /\ releasing \in BOOLEAN

\* The two threads never wait for each other's mutexes: in Stop, before it waits
\* for the connections to go, one of them can always go on.  (The scheduler
\* closes a connection under its mutex_ and removes it under the server's, never
\* one inside the other; Stop takes the server's first and then the connection's.)
NoCircularWait ==
  stop \in {"sweep", "close"} /\ loop # "crashed" =>
    ENABLED StopperWorks \/ ENABLED SchedulerWorks

\* No connection is forgotten: one that the poller watches is in connections_
\* (or about to be), and one that is closed has left it, or its removal has
\* been asked for: it is queued, running or left to a timer, unless
\* AddTriggerEvent lost it.
NoneForgotten ==
  /\ \A c \in channels \cap Conns : c \in connections \/ c = current
  /\ \A c \in is_closed \cap connections :
       fate[RemoveEvent(c)] \in {"queued", "lost"} \/ c \in timers

\* No packet is left in a write_buffer_ with nobody to write it: the poller watches
\* the socket for room, or HandleWrite is about to run, unless Stop's Disconnect had
\* the mutex_ that HandleWrite tried.  (Then the packet waits for a later Send, or is
\* lost with the Close that Disconnect posted.)
Disconnecting(c) == c \in swept \ todo \/ conn_mutex[c] = Stopper

NothingStranded ==
  \A c \in channels \cap Conns :
    write_buffer[c] > 0 => c \in writing \/ (loop = "write" /\ current = c) \/ Disconnecting(c)

\* A posted Close outlives its connection only if Disconnect posted it for a
\* connection that was closed already.  Otherwise the FIFO runs it ahead of the
\* removal, and the loop runs all trigger events ahead of a timer.
StrayCloseOnlyWhenLate ==
  \A c \in destroyed : fate[CloseEvent(c)] = "queued" => c \in too_late

\* Stop waits for a connection that nothing is going to close only if it was
\* accepted after Stop's loop, or an event was turned away.
Missed(c) == \/ c \notin swept
             \/ fate[CloseEvent(c)] \in {"refused", "lost"}
             \/ fate[RemoveEvent(c)] = "lost"

WaitsOnlyForMissed ==
  stop = "wait" =>
    \A c \in connections : Missed(c) \/ fate[CloseEvent(c)] = "queued" \/ c \in is_closed

\* Stop returns, unless it missed a connection (whose peer may stay for ever)
\* or the process is lost.
StopTerminates ==
  stop = "sweep" ~> stop = "done" \/ loop = "crashed" \/ \E c \in connections : Missed(c)

=============================================================================
