# A TLA+ model of obs-rtspserver

obs-rtspserver is an OBS Studio plugin: an OBS *output* whose encoded frames are
served to RTSP clients by a C++ RTSP server library (`rtsp-server/net`: event
loop and TCP; `rtsp-server/xop`: RTSP, sessions, RTP). This directory holds TLA+
modules translated from that code, TLC configurations that check them on small
instances, and proofs, checked by TLAPS, that hold for every instance.

    tlc -config MCTaskScheduler.cfg MCTaskScheduler.tla      # likewise the others
    tlapm TaskSchedulerProofs.tla                            # and the others in section 4

`PROJECT.json` lists the components, the runs, the mutants that show that each
property can fail, the map from definitions to source lines, the hazards and the
theorems.

## 1. Inventory

A frame's way through the program:

    OBS encoder thread            push thread                    scheduler thread
    rtsp_output_data        ->    rtsp_push_frame          ->    TaskScheduler::Start
      get_timestamp                 RtspServer::PushFrame          HandleTriggerEvent
      threadsafe_queue              MediaSession::HandleFrame      TcpConnection::Send
                                    MediaSource::HandleFrame       sendto
                                    RtpConnection::SendRtpPacket
                                      -> AddTriggerEvent

| component | state | operations | what is hard | what makes it correct |
|---|---|---|---|---|
| trigger events, event loop (`net/TaskScheduler`, `RingBuffer.h`, `EpollTaskScheduler`, `Pipe`) | ring and its counter, `mutex_`, wake-up pipe, `is_shutdown_` | `AddTriggerEvent`, `HandleTriggerEvent`, `Wake`, `Start`, `Stop` | any thread posts; the size test is outside the lock; the reader takes no lock | each event runs once, in order; no lost wake-up, no lost stop |
| frame queue (`threadsafe_queue.h`) | queue, `m_termination`, `m_dropped_count` | `move_push`, `wait_and_pop`, `termination` | test outside the lock, condition variable, limit | newest frames kept in order; nobody sleeps over work or over the end |
| OBS output (`rtsp_output.cpp`) | `starting`, `active`, `stopping`, queue, session, push thread, server | start and stop (UI thread), `rtsp_output_data` (encoder), `rtsp_push_frame` | flags tested and set apart; the real start and stop happen in the encoder's callback; every step can fail | what exists agrees with the flags; nothing left behind; start and stop complete |
| TCP server (`net/TcpServer`, `Acceptor`, `TcpConnection`) | `connections_`, acceptors, per connection `is_closed_`, channel, mutexes | accept, read, close, disconnect, remove, stop | two threads, three kinds of lock, raw pointers in queued events, a queue that may be full | no deadlock, no forgotten connection, Stop returns |
| event loop object, channels (`net/EventLoop`, `Channel.h`) | schedulers, threads | `Loop`, `Quit`, forwarding | `Quit` joins under its mutex | |
| timers (`net/Timer`) | two maps keyed by time and id | add, remove, handle | callbacks under the mutex, 0 ms | the maps agree; no timer forgotten |
| buffers (`net/BufferReader`, `BufferWriter`) | positions; packets waiting, write index | append, send, read, retrieve | partial writes, limits, `try_lock` | bytes leave in order, none twice |
| sessions (`xop/RtspServer`, `MediaSession`) | sessions by id and suffix, clients by socket, multicast addresses | add, remove, look up, handle frame, add and remove client | three threads; weak pointers; erase in a loop | packets only to clients that play; addresses unique |
| RTP connection (`xop/RtpConnection`) | transport, sockets, ports, sequence numbers, flags | set-up over TCP/UDP/multicast, play, teardown, send | raw pointer in queued sends; who owns which socket | nothing sent after close; each socket closed once |
| RTSP connection (`xop/RtspConnection`) | session id, RTP connection, authentication, mode | one handler per method | order of requests, authentication, reuse | no media without authentication and PLAY |
| RTSP messages (`xop/RtspMessage`) | parser state | parse, build | requests cut anywhere by TCP | the same request whatever the cuts |
| media sources (`xop/H264Source` ...) | parameter sets, time stamps | HandleFrame, GetTimestamp | fragmentation | fragments reassemble to the frame |
| RTSP pusher (`xop/RtspPusher`) | `rtsp_conn_`, `media_session_`, posted tasks | open, close, push | the caller polls while the loop leads the handshake; tasks outlive what they point to | requests in step with answers; what is given up goes |
| plugin shell and dialog (`rtsp_main.cpp`, `rtsp_output_helper.cpp`, `ui/rtsp_properties.cpp`) | buttons, ticks, settings, encoders, config file | click, tick, show, close, signals, hotkeys, load and exit | signals arrive on any thread, some directly and some through the Qt queue | the dialog shows what the output does; tracks and password as configured |
| vendored MD5; build and packaging | | | | not core logic |

Interactions: direct calls downwards; callbacks upwards (`SetReadCallback`,
`SetDisconnectCallback`, `SendFrameCallback`); trigger events and timers across
threads; shared state under the mutexes of each class. Lock order found in the
code: `Acceptor` before `EventLoop` and `TcpServer`; `TcpServer` before
`TcpConnection`; `TcpConnection` before `RtspServer`, `MediaSession::map_mutex_`,
`TimerQueue` and the scheduler; `TimerQueue` before `TcpServer` (timer callbacks).

Where it is hard to test: `PROJECT.json`, "hazards", one entry per source line.

## 2. Plan

Done (section 3): TriggerQueue, TaskScheduler with its proofs, ThreadsafeQueue,
RtspOutput, TcpServer (with Send and HandleWrite), MediaSession; MediaSource,
RtspRequest, RtspPusher, RtspConnection, RtspPlugin.

What composes what: TaskScheduler implements TriggerQueue, on which TcpServer and
MediaSession are built; RtspOutput contains an instance of ThreadsafeQueue. The
others meet at an interface: RtspRequest ends in the calls of handlers with which
RtspConnection begins; RtspConnection hands MediaSession clients that play; RtspPlugin
takes for one step what RtspOutput shows of a start and a stop.

Proved (section 4): TaskScheduler and its refinement, TriggerQueue, ThreadsafeQueue,
RtspOutput, TcpServer, RtspConnection, MediaSession, RtspPlugin, RtspPusher, RtspRequest.

Next, in this order: TimerQueue with its two maps; EventLoop's locks; the time stamps of
`get_timestamp` as a function. No module that is to be proved about declares a RECURSIVE
operator. MediaSource, whose properties are about what is computed from a frame of any
length, stays with TLC.

Two proof modules are about two models each: RtspPluginProofs has the dialog and the frame
queue, RtspMessageProofs the client's and the server's end of the RTSP messages. So that
both models can be extended at once, those of ThreadsafeQueue and RtspRequest are named
`QueueInit`, `QueueNext`, `QueueSpec` and `RequestInit`, `RequestNext`, `RequestSpec`.

## 3. The modules

### TriggerQueue: what the scheduler promises

A FIFO of `Capacity` places. `Post` and `TurnAway` are the two outcomes of
`AddTriggerEvent`; `Take`, `Release` and `Finish` are the loop that takes an event
out, gives its place back and returns from the callback. TaskScheduler implements
it; TcpServer is built on it.

### TaskScheduler: ring, pipe and loop

One step is one access to a variable that two threads share. A call of
`AddTriggerEvent` goes `Admit` (the test of `Size()`, outside the lock) or `Refuse`;
`Lock`; `Store` (slot and `put_pos_`) or `Overflow` (PushData finds the ring full;
the caller is told TRUE all the same); `Count` (`++num_datas_`); `Signal` (pipe and
unlock). The loop goes `Boot`, `Test`, `PopNothing` or `PopSlot`/`PopCount`,
`Return`, `More`, then HandleEvent: `PollPipe`, `WakeRead`, `WakeDone`, or
`PollOther`, `Dispatched` for timeouts and other channels. The scheduler thread
itself posts from callbacks. `Stop` is `StopFlag`, `StopSignal`. `fate` and `raced`
are history.

*Run* `scheduler` (`MCTaskScheduler.cfg`): two posters and the scheduler, four
events, two places, a pipe of two bytes read one at a time. With two places the
ring wraps and fills, two posters can pass the size test for the same last place,
and the pipe fills, so a wake-up write can fail: every branch is taken. Checked:

- `NoSlotClash`, `NoLostWakeup`, `NoLostStop`: see section 4;
- `OnlyRacedLost`: an accepted event is lost only to a caller that was overtaken
  between its size test and its push, the one defect of the code's fast path;
- `QueuedEventsRun`, `StopEndsLoop`: what reached the ring runs; Stop ends the loop
  (from the moment that Start has stored `is_shutdown_ = false`);
- `ImplementsFifo`: the module implements TriggerQueue, the abstract queue being
  the `Readable` slots from `get_pos` on.

*Fairness.* A call that has begun goes on and the loop runs: the operating system
schedules every runnable thread. Nobody has to post or stop, and `PollOther` is
not fair, so no property leans on a lucky timeout.

### ThreadsafeQueue: the frame queue

A critical section is one step; the test of `m_termination` before the lock is
another (`BeginPush`, `IgnorePush`). `Block` releases the mutex and waits in one
step, as a condition variable does; `WakeSpuriously` is the standard library's
licence.

*Run* `frame_queue`: two producers, two consumers (so `notify_one` has a choice),
four frames, the limit of two that `rtsp_output.cpp` uses: overflow, termination
with frames inside, and termination with a push half done all occur. 0 and 7 stand
for the values that the uninitialised `m_dropped_count` can have; `KeepsNewest` counts
the difference from that value, because the absolute count means nothing. Liveness:
`QueuedFramesLeave`, `ConsumersLeave`.
*Run* `frame_queue_exit`: the header's comment says that after `termination()` "the
enqueue is ignored". TLC shows that a push which tested before still enqueues
(`BeginPush`, `Terminate`, `FinishPush`). In the plugin producer and terminator are
the same thread, so it does no harm there.

*Fairness.* A push that began ends and an awake consumer goes on. No spurious
wake-up is promised.

### RtspOutput: start, stop and the push thread

`rtsp_out_data` with its three threads, over an instance of ThreadsafeQueue. `ui`,
`encoder` and `pusher` say where each thread is; every test and every store of a
flag is a step. The UI's start: `StartTest`, then denied, or `ServerStarted`,
`BeginCapture` (which may fail, unnoticed), `MarkStarting`. Its stop: `StopTest`,
`StopMark`. The encoder's callback decides by the flags (`StartPacket`,
`NullPacket`, `LastPacket`, `PushPacket`) and runs either `rtsp_output_rtsp_start`
(`NewQueue`, `AddSession`, `SpawnPusher`, `Activate`, `Started`, with its two ways
of failing) or `rtsp_output_actual_stop` (`Deactivate` ... `ClearStopping`).
`StopServer` returns here; whether it does is TcpServer's subject.

OBS is not in the repository. Assumed: callbacks come one at a time and only while
data is captured; stop reaches the plugin only while the output captures; a capture
has ended only when no callback runs; starts and stops come from one UI thread.

*Run* `output`: two starts, so that the second meets what the first left, and three
frames for a queue of two. Invariants: `ReadyWhenActive` (the flag alone makes
callbacks use the queue), `PusherNotOrphaned`, `QueueDrained` (frames in the queue
at a stop are still served), `NothingLeftBehind` (whichever step failed),
`OnlyLateStopSticks`. Liveness: `CallsComplete`, the conjunction of `StopCompletes`,
`StartCompletes` and `TakedownCompletes` (the join does return). Three weaknesses of the code show in
how these are stated: a stop set after `actual_stop` has finished leaves `stopping`
set for good and every later start is refused (`late`); a capture that fails to
begin leaves `starting` set for good (hence `capture = "on"` in `StartCompletes`);
the null packet of a failed encoder that arrives while starting is taken for a
first packet, and no further packet need come to stop the output (hence
`capture = "on"` in `StopCompletes`).

*Fairness.* The threads run, and working encoders deliver packets whose time passes
`stop_ts`; no frame has to exist and no encoder has to fail.

### TcpServer: connections and Stop

The scheduler thread's loop (trigger events, timers, poll, dispatch of the batch
that `epoll_wait` returned) over the FIFO of TriggerQueue, against the thread in
`TcpServer::Stop`. `server_mutex`, `acceptor_mutex` and `conn_mutex` are held across
steps; locks that are only taken last are inside a step. `HangUp` stands for
whatever makes a read end in `Close`, `Ask` for a request that is answered. A reply, and
a packet by TCP (`RunSendOverTcp`), goes `Send` (under the connection's mutex, into a
`write_buffer` that may be full), then `Write`, `WriteCloses` or, if the mutex is taken,
`WriteGivesUp`; the poller comes back with `BeginWrite` when the socket has room.
Packets are counted, not cut: that one went out in part is that it has not left.
`AddTriggerEvent` may turn an event away with FALSE or (TaskScheduler shows when) drop it with TRUE. Where the code uses an
object after its end, the outcome is open: harmless or `"crashed"`.

*Run* `tcp_server`: two connections, one packet, one request, two places, a
`write_buffer` of one packet. One connection
can be swept and the other accepted after the sweep; the queue can be full for
Close, for RemoveConnection, or for both. Checked: `NoCircularWait`,
`NoneForgotten`, `NothingStranded`, `WaitsOnlyForMissed`, `StrayCloseOnlyWhenLate`,
`StopTerminates`. `NothingStranded` is about `try_lock` in HandleWrite: a packet
can be left in a buffer that nobody watches, but only if Stop's Disconnect held the
mutex, never because of the scheduler's own calls. They also say what the code does
*not* promise: Stop can wait for ever for a connection accepted between its loop and `Acceptor::Close`, or whose event was
turned away; a posted Close can meet a destroyed connection if the peer had left
before; an acceptor may be destroyed while the batch still points at its channel.

*Fairness.* Both threads run; a timer is found due at some pass (strong fairness,
since the loop passes the timers again and again). Peers promise nothing. A socket with
packets waiting is reported writable at some time, but need not take one.

### MediaSession: clients, packets and the life of an RtpConnection

RtspServer, MediaSession and RtpConnection, as three threads see them. `owner` is
rtsp_output.cpp, which adds the session, starts multicast or not, and removes the
session when the push thread is joined. `pusher` is `PushFrame` down to the callback
of `AddSource`: for every packet it takes `map_mutex_` (`BeginPacket`), goes through
`clients_` (`SkipClient`, or `VisitClient` and `PostPacket`, since `is_closed_` is
tested apart from the posting), then the two groups (`PostToGroup`). `loop` is the
scheduler thread: handlers (`Describe` and `AddClient`, `Setup`, `Play`, `Teardown`),
the end of a connection (`HangUp` or `TcpFails`, `RemoveClient`, `AskRemoval`,
`RunRemove` or `TimerRemoves`), and the posted sends. Nothing says who is alive but
who refers to whom: `Alive` is the sum of the shared pointers.

Replies and the packets of a client over TCP share the write buffer of its RTSP connection,
`waiting` of `WriteLimit` places. `Send` is Append and HandleWrite, which leaves as much as
the socket does not take; `HandleWrite` is EPOLLOUT; `Answer` is a request that only puts
a reply into the buffer. A full buffer refuses and `TcpConnection::Send` does not look at the
answer, after `SetRtpHeader` has given the packet its number: `sent` has such a packet too,
marked as not `kept`. A reply that does not fit is lost in the same way.

What makes the raw pointer of a queued send safe is an order: OnClose takes the
client out of `clients_` under `map_mutex_` before `disconnect_cb_` posts the removal,
and the queue is a FIFO that is drained before timers run. `StraySendOnlyToGroups`
says so and names the exception: the groups belong to the session, and a removed
session takes a group with it although sends to it are queued (TLC reaches
`StraySend`). `NoExpiredClient` says why the erase inside the callback's loop, which
goes on from an invalid iterator, is never reached. `StreamUnbroken` is what is handed over
for the receivers: every packet that got a number, in order, with numbers that follow one
another. A client over TCP that reads slowly therefore sees a gap exactly as long as what
its full buffer refused, and no other client has one. `ClosedGoes` includes that handlers
which wait for `map_mutex_` get it.

Left out: authentication and the SETUP that fails, which are RtspConnection's (here they
change nothing), and several sessions in one server, which the plugin never has:
a client that DESCRIBEs a second session would stay in the first one's `clients_`
after its end, and both of the first two properties rest on that not happening.

*Runs.* `session`: two unicast clients, over TCP and over UDP, one frame of two
packets, two places, a `packet_seq` that wraps at 4: one client can be passed over, or
leave, while the other is served, sends and removals are turned away, a frame meets
clients that come, tear down, play again and fail. The TCP client's write buffer has one
place, which a reply may have taken: the first packet is refused and the second kept, or
the other way round. `session_multicast`: one client and
three packets in two frames; the client may have asked before multicast started and
hold an RtpConnection of its own. `StraySendOnlyToGroups` is checked here, where both
kinds of RtpConnection exist.

*Fairness.* The threads run and a timer is found due at some pass. No client has to
ask or leave and no frame has to come.

### MediaSource: from a frame to packets and back

Bytes, because start codes and headers are made of them; the payload of a NAL unit is
filling, with zeros where they could be taken for a start code. `TakeFrame` is Nal:
`FFmpegFindStartcodeInternal` goes word by word from the next aligned address, as the
code does. Each packet is one step: `StapA`/`Ap` (as many units as fit), `SingleNal`/
`SingleNalu`, or `FuA`/`Fu` fragment by fragment; `AacFrame`. `Send` is the end of
the way: the gate `has_key_frame_` and `is_play`, and a receiver (`Rebuild`, from the
RFCs, external) that keeps what it has put together. `Play` comes between any two
packets.

*Run* `media_source`: 4,927 frames: one to three units of 2 to 24 bytes around a
payload of 13 (so that each unit alone, each aggregate and each last fragment is
below, at and above the limit), start codes of 3 and 4 bytes, two alignments, with and
without zeros, key frames, delta frames behind an SEI, two temporal layers.
`WholeFrame` (a client that was there before gets back what the encoder made; an AAC
frame over the limit is dropped by the code and excepted by `TooBig`), `NeverGarbled`
(whenever PLAY comes), `PacketsFit`. What they do not say, because the code does not: that a
client begins with a key frame. A packet of type NONE (a parameter set or an SEI) opens the gate
too, and a client that plays in the middle of a frame gets its rest.

### RtspRequest: a request in any pieces

BufferReader, RtspRequest and OnRead. A message is a sequence of half lines; `OnRead`
takes any number of those that have come, and parses: `ParseRequestLine`, then
`ParseHeadersLine` of all up to the last CRLF, then `HandleRtspRequest` and `Reset`.
`HandleRtcp` is the four-byte frame, with the lower byte of its length signed.

*Run* `rtsp_request`: three messages of eleven kinds, cut at any half line, with any number
of messages in one read. `RepliesMatch`: however the stream is cut, CSeq and method of a reply
belong together and no request is answered twice. It takes clients that put a CSeq into each
request, as RFC 2326 wants (each kind of message of the run has one): behind a GET_PARAMETER
without, the parser takes that of the request that follows in the same read, and the reply to
the one has the number of the other. `AnsweredUnlessTorn` has the exceptions that
the code has: a read with pieces of two messages (`mixed`: what follows in the same read is
taken for headers, and after an RTCP packet it is stuck), and a cut (`torn`) inside an
RTCP payload or in a request whose deciding header does not come last or which has an
`Authorization` (a chunk without it clears it). No fairness: these are statements about
what has happened when all bytes are read.

### RtspPusher: the handshake of the client side

The application's thread (`OpenUrl` polling until `OpenSucceeds` or `OpenFails`, `Close`,
`RemoveSession`), the loop's tasks (`SendOptions`, `Disconnect`, `CloseDangling`), reads
(`HandleRead`, `HandlePeerClose`) and an arbitrary server (`Answer`). The read buffer is
memory that is searched with `strstr`: old bytes stay in `mem` behind `writer`.

*Run* `rtsp_pusher`: two channels with any sources, two connections, four answers.
`InStep`: a request goes out only when the one before was accepted. Excepted are
connections with a response that was read in parts (`cut`: the handshake then advances
twice), and everything after an OpenUrl that gave up before its own OPTIONS was sent
(`late`: the task sends it on whichever connection is there, or crashes when there is
none). `GivenUpGoes`: what OpenUrl or Close gives up is destroyed, though Disconnect's second
task then meets a dead object. SendSetup sends only the last channel's
message: `Handshake` says so rather than what the protocol wants.

*Fairness.* `RunTask` only: the event loop runs what is posted.

### RtspConnection: requests, authentication, sockets

One connection with its handlers (`HandleCmdDescribe`, `HandleCmdSetup`, ...), the nonces of
HandleAuthentication (`Admitted`, `Unauthorized`; a response is a value made of nonce and
method, so a client that has the password can make those of nonces that it was given,
and of the empty one), RtpConnection's descriptors, and the end: `Close` with OnClose, then the
destructors, one `CloseNext` per descriptor (`closing` counts them, as the destructors go
through the channels), while `OpenOther` takes the lowest free number.

*Run* `rtsp_connection`: two channels, a unicast and a multicast session of the same
suffix that can follow each other, two nonces, five descriptors. Ports may be found or not,
sockets may be set up twice. `MediaOnlyAuthorised` has no exception: only the last nonce,
never the empty one. `StreamsAsAgreed` leaves out what the
code does not keep: transports that are mixed (`transport_mode_` is the connection's), a
second session, a SETUP that found no port, and a PLAY after TEARDOWN (answered with OK
although `is_closed_` stays). `StrayCloseOnlyIf`: the RTSP socket's number is closed again for
each TCP channel, and numbers of sockets that are closed are kept when no port is
found; otherwise the connection closes nothing but its own. `NothingLeft`: no socket, no
watched RTCP socket and no client entry stays, but for a channel set up twice and for a session that
was not the last. No fairness: no property needs it.

### RtspPlugin: dialog, hotkeys, encoders

The UI thread (clicks, `TickTracks`, the authentication box, `showEvent`, `closeEvent`,
auto start and exit), hotkeys on it or on their own thread, the encoder's thread (`FirstPacket`,
`LastPacket`). How often "stop" is raised is the code's: a start that fails there has a code
above 0, which ends the capture and signals, twice; a packet that is no packet (below 0) and
one that reaches `stop_ts` (0) raise it once (`ActualStop`). Qt's rule is in `OnOutputStart` and `OnOutputStop`: called on the UI thread
a slot runs at once, else it is `posted`. `Start` is `rtsp_output_start` up to the
"start" signal, with the pre-start signal that makes the encoders (`CreateAudioEncoder`).
The module assumes of OBS what its header lists.

*Run* `rtsp_plugin`: two tracks, three captures. `DialogInStep`: what the dialog shows when
nothing is posted. Two things go wrong in the code, and the property says how far: a stop
that came while starting is ignored and leaves the stop button off until the capture ends
(`ignored`; the rest holds), and a start that overtook the posted slots of a stop
(`overtaken`) leaves the timer off for its whole capture and may leave the wrong buttons on. When
that capture has ended, all is in step again. `AudioAsConfigured`: encoders, their channels and
the session's sources belong together; encoders of a start with more tracks stay (`most`),
and a start that is denied after its pre-start signal has changed `output_audio` (`again`).
`AuthAsShown`: server, settings and dialog agree unless a setting is being edited. A behaviour
edits tracks or authentication (`topic`), which share nothing. No fairness: no property
needs it.

## 4. What is proved

Each theorem holds for every value of the constants that the assumptions named in its
module allow, and is checked by `tlapm` from nothing.

| proof module | theorem | what it proves of `Spec` | from |
|---|---|---|---|
| `TaskSchedulerProofs` | `TypeCorrect` | `[]TypeOK` | `CapacityAssumption`, `PipeAssumption`, `PostsAssumption`, `ThreadAssumption`, `EventAssumption` |
| | `RingSafe` | `[]NoSlotClash` | |
| | `WakeupSafe` | `[]NoLostWakeup` | |
| | `StopSafe` | `[]NoLostStop` | |
| | `LossNeedsRace` | `OnlyRacedLost` | |
| | `RingIsFifo` | `ImplementsFifo`, that is `Fifo!Spec` | |
| `TriggerQueueProofs` | `QueuedOnce` | `[](TypeOK /\ FifoInv)` | `NoEvent \notin Events`, in its statement |
| `RtspOutputProofs` | `TypeCorrect` | `[]TypeOK` | `StartsAssumption`, `LimitAssumption`, `FramesAssumption` |
| | `ActiveIsReady` | `[]ReadyWhenActive` | |
| | `PusherIsOwned` | `[]PusherNotOrphaned` | |
| | `StopDrains` | `[]QueueDrained` | |
| | `OffHoldsNothing` | `[]NothingLeftBehind` | |
| | `StopSticksOnlyLate` | `[]OnlyLateStopSticks` | |
| `TcpServerProofs` | `TypeCorrect` | `[]TypeOK` | `ConnAssumption`, `NoEventAssumption`, `BoundsAssumption` |
| | `ConnectionsRemembered` | `[]NoneForgotten` | |
| | `PacketsAttended` | `[]NothingStranded` | |
| | `StrayCloseIsLate` | `[]StrayCloseOnlyWhenLate` | |
| | `WaitIsFounded` | `[]WaitsOnlyForMissed` | |
| | `EventsAreScheduled` | `Sched!Spec`: its use of events is a behaviour of TriggerQueue | |
| `RtspConnectionProofs` | `TypeCorrect` | `[]TypeOK` | `ChannelAssumption`, `SessionAssumption`, `NoneAssumption`, `AuthAssumption`, `FdAssumption` |
| | `OnlyAuthorised` | `[]MediaOnlyAuthorised` | |
| | `PromisesKept` | `[]StreamsAsAgreed` | |
| | `OnlyOwnClosed` | `[]StrayCloseOnlyIf` | |
| | `EndLeavesNothing` | `[]NothingLeft` | |
| `MediaSessionProofs` | `TypeCorrect` | `[]TypeInv` | `PacketAssumption`, `NameAssumption`, `SeqAssumption`, `WriteAssumption` |
| | `SendsFindTheirs` | `[]StraySendOnlyToGroups` | |
| | `ClientsLive` | `[]NoExpiredClient` | |
| | `StreamsHold` | `[]StreamUnbroken` | |
| `RtspPluginProofs` | `TypeCorrect` | `[]TypeInv` | `TracksAssumption`, `StartsAssumption` |
| | `DialogFollows` | `[]DialogInStep` | |
| | `AudioFollows` | `[]AudioAsConfigured` | |
| | `AuthFollows` | `[]AuthAsShown` | |
| | `QueueTypeCorrect` | `[]TypeOK`, of ThreadsafeQueue's `QueueSpec` | `LimitAssumption`, `CountsAssumption`, `FramesAssumption` |
| | `NewestKept` | `[]KeepsNewest`, likewise | |
| `RtspMessageProofs` | `PusherTypeCorrect` | `[]TypeInv` | `ChannelsAssumption`, `BoundsAssumption` |
| | `HandshakeInStep` | `[]InStep` | |
| | `RequestTypeCorrect` | `[]RequestTypeInv`, of RtspRequest's `RequestSpec` | `MessagesAssumption`, `PiecesAssumption`; `CSeqs`, in its statement |
| | `EveryReplyMatches` | `[]RepliesMatch`, likewise | |
| | `EveryRequestAnswered` | `[]AnsweredUnlessTorn`, likewise | also `WellFormed`, in its statement |

The assumptions say that counts are natural numbers, that a queue has a place, that the
last packet ends a frame, that there is an audio track and an RTSP channel, that a message
is one of the kinds that the model tells apart and that the read buffer has room for a piece,
and that the names for nothing (`NoEvent`, `NoFrame`, `None`) name nothing else. `CSeqs` says
that each request has a CSeq line; without it `RepliesMatch` does not hold (section 3).
`WellFormed` says that a request ends in its blank line and has no header twice (the parser
takes the first that has come, which is not always the first that was sent); both are about
the client, and hold of each kind of message of the run.
Connections, events, frames and messages need not be finite.

Next to none of the properties is inductive. Each proof module strengthens its properties to
an invariant `IInv` of named parts; TLC checked `IInv` on the module's runs before it was
proved. One step of the proof, or one lemma per part of `IInv`, goes through the actions.

*TaskScheduler.* `IInv` adds what the code relies on silently: whoever is inside PushData
holds `mutex_`, so there is one writer; the occupied slots are exactly the `num_datas`
slots from `get_pos` on, cyclically, plus the one being written (after `Store`, before
`Count`) and minus the one being vacated (after `PopSlot`, before `PopCount`); `put_pos`
is their end; a caller in "admitted" whose test is out of date is in `raced`; and a loop
past its size test has a readable pipe, or a poster about to make it so, for everything
counted since. For the FIFO, `HistoryInv` adds that the events in the ring are those
with fate "queued"; the refinement maps `Count`, `PopSlot`, `PopCount`, `Return`,
`Refuse` and `Overflow` to `Post`, `Take`, `Release`, `Finish` and `TurnAway`, and every
other step to a stutter.

*TriggerQueue.* `FifoInv` (what waits is queued, once, and runs only when taken out) and
lemmas on the order of two events: `OrderKept`, `PostedLast`, `RanFirst`. TcpServer and
MediaSession have their own states and share the variables of the FIFO, so their proofs
use these lemmas through an INSTANCE and show of each of their steps that it is a step
of the FIFO or leaves it alone.

*ThreadsafeQueue.* Frames are entered once each, so a place in `entered` names a frame:
`OrderInv` puts the queue at the end of `entered`, `FateInv` says what became of those
before, `CountInv` counts the dropped ones, and `PushInv` carries both through a
`move_push` that began before a termination.

*RtspOutput.* The three flags are no lock. `CaptureInv`, `UiInv` and `FlagsInv` say where
the threads can be when a flag has a value, `ResourceInv` ties queue, session, acceptors
and push thread to the place of the encoder's callback (so a step that fails leaves what
the next place allows), and the part about the queue follows each frame to the end of
the push thread, which leaves the queue empty and terminated.

*TcpServer.* A connection that has been closed has a removal that is queued, was turned
away and waits for a timer, or was lost; a connection that is watched is in
`connections_` but for the moment in AddConnection. `StrayCloseIsLate` is about order: a
Close that Stop posted for an open connection is ahead of its removal. `PacketsAttended`
follows the mutex: `try_lock` fails only while Stop has it.

*RtspConnection.* `AuthInv`: `has_auth_` is won with the last nonce given out, and before
that nothing of a session is set. `AgreedInv` and `TransportInv` relate what SETUP
answered to what the RtpConnection has. `Owned` says of each channel that its descriptors
are its own, `Accounted` of each open descriptor that some channel, or the connection,
will close it; the destructors' counter says which have been. The exceptions of the
properties are the words of `odd`, and each part of `IInv` holds until its word is there.

*MediaSession.* Two orders. OnClose takes a client out of `clients_` before the removal of
its RtpConnection is posted, so the sends to it are ahead of the removal in the queue,
which is drained before timers run (`ClientInv`, `SendInv`, `OrderInv`). And the pusher
has `map_mutex_` from its look at `clients_` to the last post of a packet (`PushInv`), so
what it saw there stays true, and a client that was offered a packet is offered each
later one (`OfferInv`). `SeqInv` relates `packet_seq` to what was handed over last, kept or
refused, and `KeptInv` says that only a buffer of a TCP client refuses: its mode, once set
up, does not change.

*RtspPlugin.* A call that is posted is as good as made: `PostedInv` says that the last two
in the queue are those of the last start or stop, or, after a start that overtook them, those of
the stop before, and `ShownInv` that the widgets which no posted call will set are right
already (`Ticks` is what the timer comes to). `AudioInv` goes from `CreateAudioEncoder` to
the first packet (its lemmas show that the tracks have an order and that the encoders of
a longer start before are the only ones left over), and `AuthInv` along the ways that a
setting takes to the server and to the dialog.

*RtspPusher.* `InStep` is about the order of requests, so `StageInv` says of a connection
whose responses came whole where it is in the handshake: what it has sent is a beginning of
`Handshake`, all but the last of it accepted, and exactly one of three is under way: the
request, its response, or nothing because the end is reached. `SilentInv` says that what has
not sent OPTIONS has nothing of all that; `OptionsInv` that the only SendOptions that waits
is that of the OpenUrl that polls, which is what `late` takes away; `AppInv` that a
Disconnect is never about the connection in use.

*RtspRequest.* The stream, what is in the buffer and on the wire together, is always an end
of all that the client sent (`StreamInv`): OnRead retrieves from the front and no message is
entered halfway. What is left when the parser waits for headers is behind its request line,
and as long as it has no CSeq, all header lines of that request are still there
(`HeadersInv`): a chunk without a CSeq closes the connection, one with it has that of this
request first. So the reply has it, and what remains is behind each request that was
answered (`ReplyInv`), whatever is cut, mixed or thrown away. The lemmas are about ends of a
sequence of pieces, its order, and the first line of a kind in a chunk.

`AnsweredUnlessTorn` says that nothing is lost, and needs an invariant of its own, for as long
as every read has found one message and none has ended where the parser loses something
(`CalmInv`): the stream consists of whole lines, of which at most half of one is in the
buffer; a request is answered, or all of it is left, or it is the one that the parser is in,
which may then be cut anywhere and whose deciding line is still to come (`Begun`); of one
that is answered nothing is left but its blank line. That line, which may come in a read of
its own, is passed over by ParseRequestLine, where a User-Agent that is left would be an
error; this is why the deciding header has to come last. A read leaves the
parser idle, puts it into a request or replies to one (`Idles`, `Begins`, `Replied`), and
`CalmRead` shows once that each of the three keeps the invariant. When all is read, half a
line is too little for a request, so each has been answered.

Only model-checked:

- liveness (`QueuedEventsRun`, `StopEndsLoop`, `QueuedFramesLeave`, `ConsumersLeave`,
  `CallsComplete`, `StopTerminates`, `ClosedGoes`, `GivenUpGoes`) and `NoCircularWait`,
  which is about ENABLED: both are beyond the prover;
- `WholeFrame`, `NeverGarbled`, `PacketsFit` of MediaSource: that fragments of a frame of any
  length make the frame again is an induction over data, which the prover cannot do.

## 5. Bounds

| constant | value | why it is enough |
|---|---|---|
| `MaxPosts` | 2, 1 and 1 calls | four events in a ring of two: it wraps, fills and overflows |
| `Capacity` (TaskScheduler) | 2 (50000) | the positions wrap; the proofs cover every capacity |
| `PipeCapacity`, `WakeChunk` | 2, 1 | a write can fail, and a drain can be interleaved with writes |
| `Frames`, `SizeLimit` | 4 or 3, 2 | the code's limit, and an overflow |
| `InitialCounts` | {0, 7} | any two different values |
| `MaxStarts` (RtspOutput) | 2 | the second start meets the remains of the first |
| `Conns`, `Sends`, `Capacity` (TcpServer) | 2, 1, 2 | one connection before and one after the sweep; a full queue |
| `Conns`, `NumPackets`, `Capacity` (MediaSession) | 2, 2, 2 or 1, 3, 2 | one client is served while the other leaves; a full queue |
| `WriteLimit` (MediaSession) | 1 (500) | a packet is refused after another or after a reply, and one is kept after that; the proof covers every length |
| `QueueLength`, `MaxRequests` (TcpServer) | 1 (500), 1 | a reply and a packet: the second meets a full buffer |
| `MaxPayload`, `Frames` (MediaSource) | 13 (1420), 4,927 frames | a unit below, at and above the payload; two and three units in one packet; one, two and three fragments |
| `MaxMessages`, `MaxPieces` | 3, 12 | one message before and one after the cut; an overfull buffer |
| `MaxChannelCount`, `MaxOpens`, `MaxAnswers` | 2, 2, 4 | the whole handshake, and one left behind by another |
| `MaxChannels`, `MaxNonces` | 2, 2 | mixed transports; an old nonce and a new one |
| `MaxFd`, `MaxOthers` | 5, 1 | two sockets for each channel; a number that somebody else got |
| `Tracks`, `MaxStarts` (RtspPlugin) | 2, 3 | fewer tracks than the start before, and then others |
| `SeqModulus`, `FirstSeqs` | 4, {3} | the first increment wraps |

## 6. Not modelled

- EventLoop's `Quit`, an early `TaskScheduler::Stop` and more than one scheduler
  thread: the plugin creates one and never destroys it.
- TimerQueue's two maps, repeated timers and a timer of 0 ms: the plugin sets only the
  100 ms timer of TcpServer, which is in that module and in MediaSession.
- `get_timestamp` and the time stamps of the sources; `get_dropped_frames` and other
  statistics: conversions and readings that no modelled state depends on.
- The text of SDP, replies and attributes, MulticastAddr, MD5 and Base64: wording, or
  pure functions of texts.
- Growth of BufferReader, byte-order helpers, socket and logging wrappers.
- Layout, translations, settings files and the list of services of the dialog.
- The select and kqueue pollers (the Linux poller is modelled); VP8 and G.711 sources and
  MemoryManager (unused); build scripts and installers.
