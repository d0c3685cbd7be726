---------------------------- MODULE MediaSession ----------------------------
(***************************************************************************)
(* A MediaSession, the clients that come and go while frames are pushed    *)
(* through it, and how long an RtpConnection lives.                        *)
(*                                                                         *)
(* Three threads:                                                          *)
(*   scheduler  the handlers of the RTSP connections, their end, and the   *)
(*              sends that SendRtpPacket posted;                           *)
(*   pusher     RtspServer::PushFrame, MediaSession::HandleFrame and the   *)
(*              callback that AddSource gives to the source, which posts   *)
(*              one send per client and packet;                            *)
(*   owner      rtsp_output.cpp, which adds the session, may start         *)
(*              multicast, starts the push thread, and removes the session *)
(*              when the push thread has ended.                            *)
(*                                                                         *)
(* A posted send holds a raw pointer to its RtpConnection.  clients_ holds *)
(* weak pointers; the shared ones are RtspConnection::rtp_conn_, and, for  *)
(* multicast, the session.  Who is alive is therefore not a variable but   *)
(* follows from who refers to whom (Alive).                                *)
(*                                                                         *)
(* Trigger events go through TriggerQueue.  mutex_ of RtspServer is taken  *)
(* last and never across a call: it is inside a step.  mutex_ of the       *)
(* session is the pusher's alone.  How connections are accepted, and how   *)
(* TcpServer::Stop closes them, is TcpServer's subject: here each is open  *)
(* until its peer hangs up or a send to it fails.                          *)
(*                                                                         *)
(* Replies and, over TCP, packets go through the write buffer of the       *)
(* connection, of which only the number waiting is kept.  A full buffer    *)
(* refuses, and nobody looks at its answer.                                *)
(***************************************************************************)
EXTENDS Integers, Sequences, FiniteSets, FiniteSetsExt

CONSTANTS
  Conns,        \* the RTSP connections
  Family,       \* IsIpv6 of each connection: "v4" or "v6"
  Mode,         \* the transport each asks for: "tcp" or "udp"
  NumPackets,   \* bound of the model: RTP packets that the push thread makes
  LastPackets,  \* those that end a frame (RtpPacket::last)
  KeyPackets,   \* those that set has_key_frame_ (VIDEO_FRAME_IDR or NONE)
  SeqModulus,   \* 2^16: packet_seq is a uint16_t
  FirstSeqs,    \* what a packet_seq may start with: rd() & 0xffff
  MayMulticast, \* the output's setting "multicast"
  Capacity,     \* kMaxTriggetEvents
  WriteLimit,   \* 500: capacity of write_buffer_
  NoEvent,
  None

Packets  == 1 .. NumPackets
Groups   == {"v4", "v6"}         \* multicast_client_, multicast_v6_client_
Rtps     == Conns \cup Groups    \* RtpConnections: one per connection at most

SendEvent(r, p) == <<"send", r, p>>     \* [this, channel_id, pkt]
RemoveEvent(c)  == <<"remove", c>>      \* RemoveConnection(sockfd)
Events == {SendEvent(r, p) : r \in Rtps, p \in Packets} \cup {RemoveEvent(c) : c \in Conns}

ASSUME PacketAssumption ==
  /\ NumPackets \in Nat /\ NumPackets \in LastPackets
  /\ LastPackets \subseteq Packets /\ KeyPackets \subseteq Packets
ASSUME NameAssumption ==
  /\ Conns \cap Groups = {} /\ None \notin Rtps
  /\ Family \in [Conns -> Groups] /\ Mode \in [Conns -> {"tcp", "udp"}]
  /\ NoEvent \notin Events
ASSUME SeqAssumption ==
  SeqModulus \in Nat \ {0} /\ FirstSeqs \subseteq 0 .. SeqModulus - 1 /\ FirstSeqs # {}
ASSUME WriteAssumption == WriteLimit \in Nat \ {0}
ASSUME MulticastAssumption == MayMulticast \in BOOLEAN

VARIABLES
  client,        \* an RTSP connection: "open", "closed", "gone" (destroyed)
  rtp_conn,      \* rtp_conn_ of each connection: its own, its group's or None
  waiting,       \* replies and packets in write_buffer_ of each connection
  transport,     \* transport_mode_ of an RtpConnection: "none", "tcp", "udp", "multicast"
  is_play,       \* the RtpConnections that play
  rtp_closed,    \* those whose is_closed_ is TRUE
  has_key,       \* those whose has_key_frame_ is TRUE
  packet_seq,    \* next sequence number of each
  sent,          \* history: what each living one has handed over to be sent,
                 \* [seq, pkt, kept], not kept where the write buffer refused it
  clients,       \* the connections in clients_
  map_mutex,     \* who holds map_mutex_: "nobody" or "pusher"
  is_multicast,
  owner,         \* "setup", "pushing", "removed"
  pusher,        \* "idle", "packet", "visit", "post", "groups"
  packet,        \* the packet that is next or in work
  todo,          \* what the loop of the callback has not visited
  held,          \* the RtpConnection that the pusher has locked, or None
  loop,          \* where the scheduler thread is
  current,       \* the connection it works for
  timers,        \* connections whose removal waits for a timer
  queue, running, releasing, fate           \* as in TriggerQueue

Sched == INSTANCE TriggerQueue

rtp       == <<transport, is_play, rtp_closed, has_key, packet_seq, sent>>
conn      == <<client, rtp_conn, waiting>>
push      == <<pusher, packet, todo, held>>
scheduler == <<loop, current, timers>>
scheduled == <<queue, running, releasing, fate>>
session   == <<clients, map_mutex, is_multicast, owner>>
vars == <<conn, rtp, session, push, scheduler, scheduled>>

Init ==
  /\ client = [c \in Conns |-> "open"]
  /\ rtp_conn = [c \in Conns |-> None]
  /\ waiting = [c \in Conns |-> 0]
  /\ transport = [r \in Rtps |-> IF r \in Groups THEN "multicast" ELSE "none"]
  /\ is_play = {} /\ rtp_closed = {} /\ has_key = {}
  /\ packet_seq \in [Rtps -> FirstSeqs]
  /\ sent = [r \in Rtps |-> <<>>]
  /\ clients = {}
  /\ map_mutex = "nobody"
  /\ is_multicast = FALSE
  /\ owner = "setup"
  /\ pusher = "idle" /\ packet = 1 /\ todo = {} /\ held = None
  /\ loop = "triggers" /\ current = None /\ timers = {}
  /\ Sched!Init

Registered == owner # "removed"

\* Shared pointers to the session: the server's map, PushFrame, a handler.
SessionAlive == Registered \/ pusher # "idle" \/ loop \in {"add", "remove"}

\* Shared pointers to an RtpConnection.
Alive(r) ==
  \/ \E c \in Conns : client[c] # "gone" /\ rtp_conn[c] = r
  \/ r \in Groups /\ is_multicast /\ SessionAlive
  \/ held = r

-----------------------------------------------------------------------------
(***************************************************************************)
(* The owner, rtsp_output.cpp                                              *)
(***************************************************************************)

\* StartMulticast, between AddSession and the start of the push thread.
StartMulticast ==
  /\ owner = "setup"
  /\ MayMulticast
  /\ is_multicast' = TRUE
  /\ owner' = "pushing"
  /\ UNCHANGED <<conn, rtp, clients, map_mutex, push, scheduler, scheduled>>

StartUnicast ==
  /\ owner = "setup"
  /\ ~MayMulticast
  /\ owner' = "pushing"
  /\ UNCHANGED <<conn, rtp, clients, map_mutex, is_multicast, push, scheduler, scheduled>>

\* RtspServer::RemoveSession, by rtsp_output_actual_stop: after the push thread
\* has been joined, or because StartMulticast has failed.
RemoveSession ==
  /\ owner # "removed"
  /\ pusher = "idle"
  /\ owner' = "removed"
  /\ UNCHANGED <<conn, rtp, clients, map_mutex, is_multicast, push, scheduler, scheduled>>

-----------------------------------------------------------------------------
(***************************************************************************)
(* The push thread                                                         *)
(***************************************************************************)

pushOnly == <<conn, rtp, clients, is_multicast, owner, scheduler>>

NextFrame == 1 + Min({p \in LastPackets : p >= packet})

CanPush == owner = "pushing" /\ pusher = "idle" /\ packet \in Packets

\* RtspServer::PushFrame finds the session and GetNumClient() (read without
\* map_mutex_) # 0: MediaSession::HandleFrame.
PushFrame ==
  /\ CanPush
  /\ clients # {}
  /\ pusher' = "packet"
  /\ UNCHANGED <<pushOnly, map_mutex, packet, todo, held, scheduled>>

\* GetNumClient() = 0: the frame is dropped.
NobodyListens ==
  /\ CanPush
  /\ clients = {}
  /\ packet' = NextFrame
  /\ UNCHANGED <<pushOnly, map_mutex, pusher, todo, held, scheduled>>

\* Mutant: the callback does not take map_mutex_.
BeginPacketUnlocked ==
  /\ pusher = "packet"
  /\ todo' = clients
  /\ pusher' = "visit"
  /\ UNCHANGED <<pushOnly, map_mutex, packet, held, scheduled>>

\* The callback of AddSource, for one packet, under map_mutex_.
BeginPacket ==
  /\ pusher = "packet"
  /\ map_mutex = "nobody"
  /\ map_mutex' = "pusher"
  /\ todo' = clients
  /\ pusher' = "visit"
  /\ UNCHANGED <<pushOnly, packet, held, scheduled>>

\* iter->second.lock() fails (clients_.erase(iter), then ++iter, which is
\* undefined: NoExpiredClient says that it does not come to this), IsMulticast(),
\* or is_closed_.
Skips(r) == ~Alive(r) \/ r \in Groups \/ r \in rtp_closed

SkipClient(c) ==
  /\ pusher = "visit"
  /\ c \in todo
  /\ Skips(rtp_conn[c])
  /\ todo' = todo \ {c}
  /\ UNCHANGED <<pushOnly, map_mutex, pusher, packet, held, scheduled>>

\* Mutant: the loop ends at the first client that can be served.
VisitOne(c) ==
  /\ pusher = "visit"
  /\ c \in todo
  /\ ~Skips(rtp_conn[c])
  /\ todo' = {}
  /\ held' = rtp_conn[c]
  /\ pusher' = "post"
  /\ UNCHANGED <<pushOnly, map_mutex, packet, scheduled>>

\* iter->second.lock() succeeds, and is_closed_ is FALSE ...
VisitClient(c) ==
  /\ pusher = "visit"
  /\ c \in todo
  /\ ~Skips(rtp_conn[c])
  /\ todo' = todo \ {c}
  /\ held' = rtp_conn[c]
  /\ pusher' = "post"
  /\ UNCHANGED <<pushOnly, map_mutex, packet, scheduled>>

\* What AddTriggerEvent answers is not looked at: a send that is turned away is
\* counted as refused, also where the answer is TRUE.
PostTo(r) ==
  LET e == SendEvent(r, packet)
  IN Sched!Post(e) \/ (Sched!TurnAway(e) /\ fate'[e] = "refused")

\* ... so that SendRtpPacket posts the send.
PostPacket ==
  /\ pusher = "post"
  /\ PostTo(held)
  /\ held' = None
  /\ pusher' = "visit"
  /\ UNCHANGED <<pushOnly, map_mutex, packet, todo>>

\* if (is_multicast_): both groups get the packet, once.
BeginGroups ==
  /\ pusher = "visit"
  /\ todo = {}
  /\ is_multicast
  /\ todo' = Groups
  /\ pusher' = "groups"
  /\ UNCHANGED <<pushOnly, map_mutex, packet, held, scheduled>>

\* multicast_v6_client_, then multicast_client_; Teardown never closes them.
PostToGroup(g) ==
  /\ pusher = "groups"
  /\ g \in todo
  /\ g = "v4" => "v6" \notin todo
  /\ PostTo(g)
  /\ todo' = todo \ {g}
  /\ UNCHANGED <<pushOnly, map_mutex, pusher, packet, held>>

\* The callback returns; the source goes on with the next packet of the frame,
\* if there is one.
EndPacket ==
  /\ pusher = "groups" \/ (pusher = "visit" /\ ~is_multicast)
  /\ todo = {}
  /\ map_mutex' = "nobody"
  /\ packet' = packet + 1
  /\ pusher' = IF packet \in LastPackets THEN "idle" ELSE "packet"
  /\ UNCHANGED <<pushOnly, todo, held, scheduled>>

PusherWorks ==
  \/ BeginPacket \/ PostPacket \/ BeginGroups \/ EndPacket
  \/ \E c \in Conns : SkipClient(c) \/ VisitClient(c)
  \/ \E g \in Groups : PostToGroup(g)

-----------------------------------------------------------------------------
(***************************************************************************)
(* The scheduler thread: requests                                          *)
(***************************************************************************)

requestOnly == <<session, push, timers, scheduled>>

Serves(c) == loop = "poll" /\ client[c] = "open"

\* BufferWriter::Append refuses when there is no room.
HasRoom(c) == waiting[c] < WriteLimit

\* TcpConnection::Send: Append, then HandleWrite, which writes from the front of the
\* buffer as much as the socket takes.
Send(c) ==
  \E left \in 0 .. WriteLimit :
    /\ left <= waiting[c] + 1
    /\ waiting' = [waiting EXCEPT ![c] = left]

\* EPOLLOUT: the socket takes something of what waits.
HandleWrite(c) ==
  /\ Serves(c)
  /\ \E left \in 0 .. WriteLimit :
       /\ left < waiting[c]
       /\ waiting' = [waiting EXCEPT ![c] = left]
  /\ UNCHANGED <<client, rtp_conn, rtp, requestOnly, loop, current>>

\* A request that changes nothing else is answered: OPTIONS, GET_PARAMETER, those
\* that are refused.
Answer(c) ==
  /\ Serves(c)
  /\ Send(c)
  /\ UNCHANGED <<client, rtp_conn, rtp, requestOnly, loop, current>>

\* HandleCmdDescribe: the session is looked up, rtp_conn_ is made or shared
\* unless there is one, session_id_ is set (so that both are set or neither) ...
Describe(c) ==
  /\ Serves(c)
  /\ Registered
  /\ rtp_conn' = [rtp_conn EXCEPT ![c] =
       IF @ # None THEN @ ELSE IF is_multicast THEN Family[c] ELSE c]
  /\ current' = c
  /\ loop' = "add"
  /\ UNCHANGED <<client, waiting, rtp, requestOnly>>

\* ... and AddClient adds it, unless it is in clients_ already.  The reply follows.
AddClient ==
  /\ loop = "add"
  /\ map_mutex = "nobody"
  /\ clients' = clients \cup {current}
  /\ Send(current)
  /\ loop' = "poll"
  /\ current' = None
  /\ UNCHANGED <<client, rtp_conn, rtp, map_mutex, is_multicast, owner, push, timers,
                 scheduled>>

\* HandleCmdSetup.  In a multicast session nothing changes: the group is set up.
Setup(c) ==
  /\ Serves(c)
  /\ rtp_conn[c] # None /\ Registered
  /\ ~is_multicast
  /\ transport' = [transport EXCEPT ![rtp_conn[c]] = Mode[c]]
  /\ Send(c)
  /\ UNCHANGED <<client, rtp_conn, is_play, rtp_closed, has_key, packet_seq, sent,
                 requestOnly, loop, current>>

\* HandleCmdPlay, RtpConnection::Play.  The group plays from its first PLAY on.
Play(c) ==
  /\ Serves(c)
  /\ rtp_conn[c] # None
  /\ transport[rtp_conn[c]] # "none"
  /\ is_play' = is_play \cup {rtp_conn[c]}
  /\ Send(c)
  /\ UNCHANGED <<client, rtp_conn, transport, rtp_closed, has_key, packet_seq, sent,
                 requestOnly, loop, current>>

\* RtpConnection::Teardown
TearDown(r) ==
  IF r \in rtp_closed \/ transport[r] = "multicast"
    THEN UNCHANGED <<rtp_closed, is_play>>
    ELSE /\ rtp_closed' = rtp_closed \cup {r}
         /\ is_play' = is_play \ {r}

\* HandleCmdTeardown
Teardown(c) ==
  /\ Serves(c)
  /\ rtp_conn[c] # None
  /\ TearDown(rtp_conn[c])
  /\ Send(c)
  /\ UNCHANGED <<client, rtp_conn, transport, has_key, packet_seq, sent, requestOnly,
                 loop, current>>

-----------------------------------------------------------------------------
(***************************************************************************)
(* The scheduler thread: the end of a connection                           *)
(***************************************************************************)

\* Close, as far as OnClose's look-up of the session.  What waits is never written.
BeginClose(c) ==
  /\ client' = [client EXCEPT ![c] = "closed"]
  /\ waiting' = [waiting EXCEPT ![c] = 0]
  /\ current' = c
  /\ loop' = IF rtp_conn[c] # None /\ Registered THEN "remove" ELSE "ask"

\* The peer is gone: HandleRead ends in Close.
HangUp(c) ==
  /\ Serves(c)
  /\ BeginClose(c)
  /\ UNCHANGED <<rtp_conn, rtp, requestOnly>>

\* Mutant: OnClose leaves the client in the session.
KeepClient ==
  /\ loop = "remove"
  /\ loop' = "ask"
  /\ UNCHANGED <<conn, rtp, session, push, current, timers, scheduled>>

\* MediaSession::RemoveClient
RemoveClient ==
  /\ loop = "remove"
  /\ map_mutex = "nobody"
  /\ clients' = clients \ {current}
  /\ loop' = "ask"
  /\ UNCHANGED <<conn, rtp, map_mutex, is_multicast, owner, push, current, timers,
                 scheduled>>

\* Mutant: disconnect_cb_ does not look at what AddTriggerEvent answers.
AskRemovalOnce ==
  /\ loop = "ask"
  /\ Sched!Post(RemoveEvent(current)) \/ Sched!TurnAway(RemoveEvent(current))
  /\ loop' = IF running = NoEvent THEN "poll" ELSE "called"
  /\ current' = None
  /\ UNCHANGED <<conn, rtp, session, push, timers>>

\* disconnect_cb_: post RemoveConnection, or leave it to a timer.  Close was
\* called from a handler or from within a send.
AskRemoval ==
  /\ loop = "ask"
  /\ \/ Sched!Post(RemoveEvent(current)) /\ UNCHANGED timers
     \/ /\ Sched!TurnAway(RemoveEvent(current))
        /\ timers' = IF fate'[RemoveEvent(current)] = "refused" THEN timers \cup {current}
                                                                ELSE timers
  /\ loop' = IF running = NoEvent THEN "poll" ELSE "called"
  /\ current' = None
  /\ UNCHANGED <<conn, rtp, session, push>>

-----------------------------------------------------------------------------
(***************************************************************************)
(* The scheduler thread: trigger events and timers                         *)
(***************************************************************************)

schedOnly == <<conn, rtp, session, push>>

TakeEvent ==
  /\ loop = "triggers"
  /\ Sched!Take
  /\ UNCHANGED <<schedOnly, scheduler>>

ReleasePlace ==
  /\ Sched!Release
  /\ UNCHANGED <<schedOnly, scheduler>>

Calls(e) == loop = "triggers" /\ running = e /\ ~releasing

\* ~RtspConnection, and ~RtpConnection of its own RtpConnection: their state is gone.
Destroy(c) ==
  /\ client' = [client EXCEPT ![c] = "gone"]
  /\ transport' = [transport EXCEPT ![c] = "none"]
  /\ is_play' = is_play \ {c}
  /\ rtp_closed' = rtp_closed \ {c}
  /\ has_key' = has_key \ {c}
  /\ packet_seq' = [packet_seq EXCEPT ![c] = Min(FirstSeqs)]
  /\ sent' = [sent EXCEPT ![c] = <<>>]
  /\ UNCHANGED <<rtp_conn, waiting>>

\* RemoveConnection: the last reference to the RtspConnection goes.
RunRemove(c) ==
  /\ Calls(RemoveEvent(c))
  /\ Destroy(c)
  /\ Sched!Finish
  /\ UNCHANGED <<session, push, scheduler>>

\* SetRtpHeader: only a packet that will be sent takes a sequence number.
SetRtpHeader(r, p, willSend) ==
  packet_seq' = IF willSend THEN [packet_seq EXCEPT ![r] = (@ + 1) % SeqModulus]
                            ELSE packet_seq

\* SetFrameType
KeySeen(r, p) == r \in has_key \/ p \in KeyPackets
WillSend(r, p) == r \in is_play /\ KeySeen(r, p)

\* SetRtpHeader has taken the number, kept or not.
Record(r, p, keeps) ==
  sent' = [sent EXCEPT ![r] = Append(@, [seq |-> packet_seq[r], pkt |-> p, kept |-> keeps])]

\* The lambda of SendRtpPacket, as far as SetRtpHeader.
BeginSend(r, p) ==
  /\ Calls(SendEvent(r, p))
  /\ Alive(r)
  /\ has_key' = IF KeySeen(r, p) THEN has_key \cup {r} ELSE has_key
  /\ SetRtpHeader(r, p, WillSend(r, p))

\* It does not play yet or any more, or waits for a key frame.
SendNothing(r, p) ==
  /\ BeginSend(r, p)
  /\ ~WillSend(r, p)
  /\ Sched!Finish
  /\ UNCHANGED <<conn, transport, is_play, rtp_closed, sent, session, push, scheduler>>

SendRtpOverUdp(r, p) ==
  /\ transport[r] # "tcp"
  /\ Record(r, p, TRUE)
  /\ UNCHANGED waiting

\* Send does nothing on a closed connection; its answer is not looked at.
SendRtpOverTcp(r, p) ==
  /\ transport[r] = "tcp"
  /\ \/ client[r] # "open" /\ UNCHANGED <<sent, waiting>>
     \/ client[r] = "open" /\ Record(r, p, HasRoom(r)) /\ Send(r)

SendPacket(r, p) ==
  /\ BeginSend(r, p)
  /\ WillSend(r, p)
  /\ SendRtpOverUdp(r, p) \/ SendRtpOverTcp(r, p)
  /\ Sched!Finish
  /\ UNCHANGED <<client, rtp_conn, transport, is_play, rtp_closed, session, push, scheduler>>

\* sendto fails: Teardown.
UdpFails(r, p) ==
  /\ BeginSend(r, p)
  /\ WillSend(r, p)
  /\ transport[r] # "tcp"
  /\ TearDown(r)
  /\ Sched!Finish
  /\ UNCHANGED <<conn, transport, sent, session, push, scheduler>>

\* send fails: HandleWrite calls Close.
TcpFails(r, p) ==
  /\ BeginSend(r, p)
  /\ WillSend(r, p)
  /\ transport[r] = "tcp"
  /\ client[r] = "open"
  /\ BeginClose(r)
  /\ UNCHANGED <<rtp_conn, transport, is_play, rtp_closed, sent, session, push,
                 timers, scheduled>>

\* The lambda's this is no more: anything may happen, or nothing that shows.
StraySend(r, p) ==
  /\ Calls(SendEvent(r, p))
  /\ ~Alive(r)
  /\ Sched!Finish
  /\ loop' \in {"triggers", "crashed"}
  /\ UNCHANGED <<schedOnly, current, timers>>

\* The send that TcpFails interrupted returns.
FinishEvent ==
  /\ loop = "called"
  /\ Sched!Finish
  /\ loop' = "triggers"
  /\ UNCHANGED <<schedOnly, current, timers>>

\* Size() > 0 no longer; HandleTimerEvent, if there are timers.
TriggersDone ==
  /\ loop = "triggers"
  /\ running = NoEvent
  /\ queue = <<>>
  /\ loop' = IF timers = {} THEN "poll" ELSE "timers"
  /\ UNCHANGED <<schedOnly, current, timers, scheduled>>

TimerRemoves(c) ==
  /\ loop = "timers"
  /\ c \in timers
  /\ timers' = timers \ {c}
  /\ Destroy(c)
  /\ UNCHANGED <<session, push, loop, current, scheduled>>

TimersDone ==
  /\ loop = "timers"
  /\ loop' = "poll"
  /\ UNCHANGED <<schedOnly, current, timers, scheduled>>

\* HandleEvent returns.
PollDone ==
  /\ loop = "poll"
  /\ loop' = "triggers"
  /\ UNCHANGED <<schedOnly, current, timers, scheduled>>

SchedulerWorks ==
  \/ AddClient \/ RemoveClient \/ AskRemoval
  \/ TakeEvent \/ ReleasePlace \/ FinishEvent \/ TriggersDone \/ TimersDone \/ PollDone
  \/ \E c \in Conns : RunRemove(c)
  \/ \E r \in Rtps, p \in Packets :
       SendNothing(r, p) \/ SendPacket(r, p) \/ UdpFails(r, p) \/ StraySend(r, p)
  \/ \E r \in Conns, p \in Packets : TcpFails(r, p)

Requests ==
  \E c \in Conns :
    \/ Describe(c) \/ Setup(c) \/ Play(c) \/ Teardown(c) \/ Answer(c)
    \/ HandleWrite(c) \/ HangUp(c)

Next ==
  \/ StartMulticast \/ StartUnicast \/ RemoveSession
  \/ PushFrame \/ NobodyListens \/ PusherWorks
  \/ Requests \/ SchedulerWorks \/ \E c \in Conns : TimerRemoves(c)

\* The threads run, and a timer is due at some pass of the loop.  No client has
\* to ask or to leave, no frame has to be pushed.
Fairness ==
  /\ WF_vars(PusherWorks)
  /\ WF_vars(SchedulerWorks)
  /\ \A c \in Conns : SF_vars(TimerRemoves(c))

Spec == Init /\ [][Next]_vars /\ Fairness

-----------------------------------------------------------------------------
(***************************************************************************)
(* Properties                                                              *)
(***************************************************************************)

TypeOK ==
  /\ client \in [Conns -> {"open", "closed", "gone"}]
  /\ \A c \in Conns : rtp_conn[c] \in {None, c, Family[c]}
  /\ waiting \in [Conns -> 0 .. WriteLimit]
  /\ transport \in [Rtps -> {"none", "tcp", "udp", "multicast"}]
  /\ is_play \subseteq Rtps /\ rtp_closed \subseteq Conns /\ has_key \subseteq Rtps
  /\ packet_seq \in [Rtps -> 0 .. SeqModulus - 1]
  /\ \A r \in Rtps : sent[r] \in Seq([seq : 0 .. SeqModulus - 1, pkt : Packets, kept : BOOLEAN])
  /\ clients \subseteq Conns
  /\ map_mutex \in {"nobody", "pusher"}
  /\ is_multicast \in BOOLEAN
  /\ owner \in {"setup", "pushing", "removed"}
  /\ pusher \in {"idle", "packet", "visit", "post", "groups"}
  /\ packet \in 1 .. NumPackets + 1
  /\ todo \subseteq Rtps
  /\ held \in Conns \cup {None}
  /\ loop \in {"triggers", "called", "timers", "poll", "add", "remove", "ask", "crashed"}
  /\ current \in Conns \cup {None}
  /\ timers \subseteq Conns

\* The sends that will still run, or are running.
Pending(r) == \E p \in Packets : fate[SendEvent(r, p)] = "queued"

\* A posted send finds its RtpConnection alive.  This is what erasing the client
\* before RemoveConnection is posted, and the order of the FIFO, are for.  The
\* exception is the code's: the groups belong to the session, and nothing waits for
\* their queued sends when it is removed.
StraySendOnlyToGroups ==
  \A r \in Rtps : Pending(r) /\ ~Alive(r) => r \in Groups /\ owner = "removed"

\* While the session can be pushed to, clients_ names no connection that is gone:
\* the erase inside the loop of the callback, which would step from an iterator it
\* has just made invalid, is never reached.
NoExpiredClient ==
  Registered => \A c \in clients : Alive(rtp_conn[c])

Offered(r, p) == fate[SendEvent(r, p)] # "new"

\* What is handed over for a receiver: packets in the order in which they were pushed,
\* none twice, with sequence numbers that follow one another (modulo 2^16) even if
\* sends were turned away.  A packet that a full write buffer refuses has taken its
\* number: this is the only gap that the server makes, as long as what was refused, and
\* only a client over TCP has it.  And as long as a client stays, each packet after its
\* first is offered to it, whatever other clients do.  Numbers and offers are those of
\* a unicast client that was not torn down: a group, and a client that plays again
\* after TEARDOWN, go on after a failed sendto, whose number is lost too.
StreamUnbroken ==
  /\ \A r \in Rtps : \A i \in 2 .. Len(sent[r]) :
       /\ sent[r][i].pkt > sent[r][i - 1].pkt
       /\ r \in Conns \ rtp_closed =>
            sent[r][i].seq = (sent[r][i - 1].seq + 1) % SeqModulus
  /\ \A r \in Rtps : \A i \in 1 .. Len(sent[r]) :
       ~sent[r][i].kept => transport[r] = "tcp"
  /\ \A c \in clients \ rtp_closed : \A p, q \in 1 .. packet - 1 :
       client[c] = "open" /\ p < q /\ Offered(c, p) => Offered(c, q)

\* A closed connection is destroyed, unless its removal was dropped by
\* AddTriggerEvent with the answer TRUE, or a stray send has crashed the process.
ClosedGoes ==
  \A c \in Conns :
    client[c] = "closed" ~> (client[c] = "gone" \/ fate[RemoveEvent(c)] = "lost"
                               \/ loop = "crashed")

=============================================================================
