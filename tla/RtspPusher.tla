----------------------------- MODULE RtspPusher -----------------------------
(***************************************************************************)
(* RtspPusher: OpenUrl makes an RtspConnection in RTSP_PUSHER mode and     *)
(* waits, polling, until the event loop has led it through OPTIONS,        *)
(* ANNOUNCE, SETUP and RECORD.  Three parties: the application's thread,   *)
(* which holds mutex_ all through a call; the event loop's thread, which   *)
(* runs the posted tasks and reads responses; the server.                  *)
(*                                                                         *)
(* A response is a status line and the end, which may arrive apart.        *)
(* RtspResponse looks for them with strstr in memory that nothing          *)
(* terminates: what older responses left behind the bytes that have come   *)
(* is seen as well.                                                        *)
(***************************************************************************)
EXTENDS Integers, Sequences, FiniteSets, FiniteSetsExt, SequencesExt

CONSTANTS
  MaxChannelCount,  \* max_channel_count_ of the media session
  MaxOpens,         \* bound: connections that OpenUrl makes
  MaxAnswers        \* bound: requests that the server answers on one of them

ASSUME ChannelsAssumption == MaxChannelCount \in Nat \ {0}
ASSUME BoundsAssumption == MaxOpens \in Nat /\ MaxAnswers \in Nat

Channels  == 0 .. MaxChannelCount - 1
Conns     == 1 .. MaxOpens
Responses == {<<"ok", "end">>, <<"error", "end">>}

VARIABLES
  sources,   \* channels of the media session that have a source
  session,   \* media_session_ is not null
  opened,    \* connections made
  rtsp_conn, \* rtsp_conn_, or 0
  opening,   \* OpenUrl is in its polling loop
  tasks,     \* trigger events of the event loop
  conn,      \* each connection's members
  mem,       \* its read buffer: the memory,
  writer,    \* and writer_index_ (reader_index_ is 0: all is retrieved or nothing)
  log,       \* the requests that it has sent
  answered,  \* how many of them the server has answered, and which of them with OK
  accepted,
  incoming,  \* responses on their way
  crashed,   \* a null or a dangling pointer was used, and the process is gone
  cut,       \* history: a response was read in parts
  late       \* history: an OpenUrl gave up before its OPTIONS had been sent

app    == <<session, opened, rtsp_conn, opening>>
reader == <<mem, writer>>
server == <<answered, accepted, incoming>>
vars   == <<sources, app, tasks, conn, reader, log, server, crashed, cut, late>>

-----------------------------------------------------------------------------
(***************************************************************************)
(* RtspConnection in RTSP_PUSHER mode, on the event loop's thread          *)
(***************************************************************************)

New == [method |-> "NONE", cseq |-> 0, state |-> "START_CONNECT", setup |-> {}, play |-> {},
        client |-> FALSE, closed |-> FALSE, alive |-> TRUE]

\* Build...Req, SendRtspMessage: the request of a connection that is closed is dropped.
Request(c, name, channel) ==
  log' = IF conn[c].closed THEN log
         ELSE [log EXCEPT ![c] = Append(@, [method |-> name, cseq |-> conn'[c].cseq + 1,
                                            channel |-> channel])]

\* HandleClose, TcpConnection::Close and OnClose: the session forgets the client.
Closed(r) == [r EXCEPT !.closed = TRUE, !.client = FALSE]

\* SendOptions of the connection that rtsp_conn_ is now.
SendOptions ==
  /\ tasks # <<>> /\ Head(tasks)[1] = "options"
  /\ tasks' = Tail(tasks)
  /\ IF rtsp_conn = 0 \/ ~session
       THEN crashed' = TRUE /\ UNCHANGED <<conn, log>>
       ELSE /\ conn' = [conn EXCEPT ![rtsp_conn].method = "OPTIONS"]
            /\ Request(rtsp_conn, "OPTIONS", 0)
            /\ UNCHANGED crashed
  /\ UNCHANGED <<sources, app, reader, server, cut, late>>

\* The task of OpenUrl and Close: Disconnect posts Close once more, and with the task
\* goes the last reference to the connection: nothing of it is left but the
\* session's expired client, its destructor closes the socket.
Disconnect ==
  /\ tasks # <<>> /\ Head(tasks)[1] = "disconnect"
  /\ LET c == Head(tasks)[2]
     IN /\ tasks' = Append(Tail(tasks), <<"close", c>>)
        /\ conn' = [conn EXCEPT ![c] = [New EXCEPT !.alive = FALSE, !.client = conn[c].client]]
        /\ mem' = [mem EXCEPT ![c] = <<>>] /\ writer' = [writer EXCEPT ![c] = 0]
        /\ log' = [log EXCEPT ![c] = <<>>]
        /\ answered' = [answered EXCEPT ![c] = 0] /\ accepted' = [accepted EXCEPT ![c] = {}]
        /\ incoming' = [incoming EXCEPT ![c] = <<>>]
        /\ cut' = [cut EXCEPT ![c] = FALSE]
  /\ UNCHANGED <<sources, app, crashed, late>>

\* That Close runs on a connection that has been destroyed: anything may happen, and
\* nothing.
CloseDangling ==
  /\ tasks # <<>> /\ Head(tasks)[1] = "close"
  /\ tasks' = Tail(tasks)
  /\ crashed' \in {crashed, TRUE}
  /\ UNCHANGED <<sources, app, conn, reader, log, server, cut, late>>

\* RtspResponse::ParseResponse of connection r's memory m, but for its result.
\* RetrieveUntil of a string literal is, by the distance of the two, RetrieveAll.
ParseResponse(r, m) ==
  IF {"end", "ok"} \subseteq ToSet(m) THEN [r EXCEPT !.cseq = @ + 1] ELSE r

Refused(m) == "end" \in ToSet(m) /\ "ok" \notin ToSet(m)

\* SendAnnounce: the session's client from here on.
SendAnnounce(c, r) ==
  IF session
    THEN /\ conn' = [conn EXCEPT ![c] = [r EXCEPT !.client = TRUE, !.method = "ANNOUNCE"]]
         /\ Request(c, "ANNOUNCE", 0)
    ELSE conn' = [conn EXCEPT ![c] = Closed(r)] /\ UNCHANGED log

\* RtpConnection::SetupRtpOverTcp, on the channels chn * 2 and chn * 2 + 1
SetupRtpOverTcp(r, channels) == [r EXCEPT !.setup = @ \cup channels]

\* RtpConnection::Record
Record(r) == [r EXCEPT !.play = r.setup]

\* SendSetup: every channel with a source is set up here, but a message for a channel
\* replaces the one before it, and only the last channel's is sent.
SendSetup(c, r) ==
  LET new  == sources \ r.setup
      last == MaxChannelCount - 1
      name == IF last \in new THEN "SETUP" ELSE "RECORD"
  IN IF session
       THEN /\ conn' = [conn EXCEPT ![c] = [SetupRtpOverTcp(r, new) EXCEPT !.method = name]]
            /\ Request(c, name, last)
       ELSE conn' = [conn EXCEPT ![c] = Closed(r)] /\ UNCHANGED log

\* HandleRecord
HandleRecord(c, r) ==
  /\ conn' = [conn EXCEPT ![c] = [Record(r) EXCEPT !.state = "START_PUSH"]]
  /\ UNCHANGED log

\* Mutant: an error is not looked at.
HandleRtspResponseAny(c, m) ==
  LET r == [conn[c] EXCEPT !.cseq = @ + 1]
  IN CASE r.method = "OPTIONS"  -> SendAnnounce(c, r)
       [] r.method \in {"ANNOUNCE", "SETUP"} -> SendSetup(c, r)
       [] OTHER                 -> HandleRecord(c, r)

\* HandleRtspResponse: the next step of method_'s, whether or not a whole response was
\* there; an error closes.
HandleRtspResponse(c, m) ==
  LET r == ParseResponse(conn[c], m)
  IN IF Refused(m) THEN conn' = [conn EXCEPT ![c] = Closed(@)] /\ UNCHANGED log
     ELSE CASE r.method = "OPTIONS"  -> SendAnnounce(c, r)
            [] r.method \in {"ANNOUNCE", "SETUP"} -> SendSetup(c, r)
            [] OTHER                 -> HandleRecord(c, r)

\* HandleRead: some of what the server has sent goes into the memory, over what is left of
\* older responses (a line over a line), and OnRead looks at it.
HandleRead(c, n) ==
  LET new == SubSeq(incoming[c], 1, n)
      m   == SubSeq(mem[c], 1, writer[c]) \o new \o SubSeq(mem[c], writer[c] + n + 1, Len(mem[c]))
  IN /\ conn[c].alive /\ ~conn[c].closed
     /\ incoming' = [incoming EXCEPT ![c] = SubSeq(@, n + 1, Len(@))]
     /\ mem' = [mem EXCEPT ![c] = m]
     /\ writer' = [writer EXCEPT ![c] = IF "end" \in ToSet(m) THEN 0 ELSE @ + n]
     /\ cut' = [cut EXCEPT ![c] = @ \/ Last(new) # "end"]
     /\ HandleRtspResponse(c, m)
     /\ UNCHANGED <<sources, app, tasks, answered, accepted, crashed, late>>

\* The server closes: recv answers 0.
HandlePeerClose(c) ==
  /\ c <= opened /\ conn[c].alive /\ ~conn[c].closed
  /\ conn' = [conn EXCEPT ![c] = Closed(@)]
  /\ UNCHANGED <<sources, app, tasks, reader, log, server, crashed, cut, late>>

\* The server answers the requests in order.
Answer(c, response) ==
  /\ answered[c] < Min({Len(log[c]), MaxAnswers}) /\ ~conn[c].closed
  /\ answered' = [answered EXCEPT ![c] = @ + 1]
  /\ accepted' = IF response[1] = "ok" THEN [accepted EXCEPT ![c] = @ \cup {answered'[c]}] ELSE accepted
  /\ incoming' = [incoming EXCEPT ![c] = @ \o response]
  /\ UNCHANGED <<sources, app, tasks, conn, reader, log, crashed, cut, late>>

-----------------------------------------------------------------------------
(***************************************************************************)
(* RtspPusher, on the application's thread                                 *)
(***************************************************************************)

\* Mutant: the reference is dropped and the task is not posted.
GiveUpSilently(posts) == tasks' = tasks \o posts

\* The task that disconnects what rtsp_conn_ is, if anything, and then posts.
GiveUp(posts) ==
  tasks' = (IF rtsp_conn = 0 THEN tasks ELSE Append(tasks, <<"disconnect", rtsp_conn>>)) \o posts

\* OpenUrl up to the polling loop.
OpenUrl ==
  /\ ~opening /\ opened < MaxOpens
  /\ GiveUp(<<<<"options", 0>>>>)
  /\ opened' = opened + 1
  /\ rtsp_conn' = opened + 1
  /\ opening' = TRUE
  /\ UNCHANGED <<sources, session, conn, reader, log, server, crashed, cut, late>>

\* OpenUrl that cannot connect has disconnected what there was; Close; and OpenUrl
\* when its time is up and the connection does not record.
Close ==
  /\ ~opening /\ rtsp_conn # 0
  /\ GiveUp(<<>>)
  /\ rtsp_conn' = 0
  /\ UNCHANGED <<sources, session, opened, opening, conn, reader, log, server, crashed, cut, late>>

OpenFails ==
  /\ opening /\ conn[rtsp_conn].state # "START_PUSH"
  /\ GiveUp(<<>>)
  /\ rtsp_conn' = 0 /\ opening' = FALSE
  /\ late' = (late \/ \E t \in ToSet(tasks) : t[1] = "options")
  /\ UNCHANGED <<sources, session, opened, conn, reader, log, server, crashed, cut>>

\* IsRecord: OpenUrl answers 0.
OpenSucceeds ==
  /\ opening /\ conn[rtsp_conn].state = "START_PUSH"
  /\ opening' = FALSE
  /\ UNCHANGED <<sources, session, opened, rtsp_conn, tasks, conn, reader, log, server, crashed, cut, late>>

RemoveSession ==
  /\ ~opening /\ session
  /\ session' = FALSE
  /\ UNCHANGED <<sources, opened, rtsp_conn, opening, tasks, conn, reader, log, server, crashed, cut, late>>

-----------------------------------------------------------------------------
Init ==
  /\ sources \in SUBSET Channels \ {{}}
  /\ session = TRUE /\ opened = 0 /\ rtsp_conn = 0 /\ opening = FALSE
  /\ tasks = <<>>
  /\ conn = [c \in Conns |-> New]
  /\ mem = [c \in Conns |-> <<>>] /\ writer = [c \in Conns |-> 0]
  /\ log = [c \in Conns |-> <<>>]
  /\ answered = [c \in Conns |-> 0] /\ accepted = [c \in Conns |-> {}]
  /\ incoming = [c \in Conns |-> <<>>]
  /\ crashed = FALSE /\ cut = [c \in Conns |-> FALSE] /\ late = FALSE

RunTask == ~crashed /\ (SendOptions \/ Disconnect \/ CloseDangling)
App     == ~crashed /\ (OpenUrl \/ Close \/ OpenFails \/ OpenSucceeds \/ RemoveSession)
Reads   == ~crashed /\ \E c \in Conns : \/ \E n \in 1 .. Len(incoming[c]) : HandleRead(c, n)
                                        \/ HandlePeerClose(c)
Server  == ~crashed /\ \E c \in Conns, response \in Responses : Answer(c, response)

Next == RunTask \/ App \/ Reads \/ Server

\* The event loop runs its tasks.
Spec == Init /\ [][Next]_vars /\ WF_vars(RunTask)

-----------------------------------------------------------------------------
(***************************************************************************)
(* Properties                                                              *)
(***************************************************************************)

Handshake == IF MaxChannelCount - 1 \in sources THEN <<"OPTIONS", "ANNOUNCE", "SETUP", "RECORD">>
             ELSE <<"OPTIONS", "ANNOUNCE", "RECORD">>

\* While every response is read whole, and no OpenUrl gave up before its task ran (which
\* would then send OPTIONS on the next connection): a request is sent only
\* when the one before was accepted, each with the next CSeq, and IsRecord holds only
\* when RECORD was accepted.
InStep ==
  ~late => \A c \in Conns : ~cut[c] =>
    LET methods == [i \in DOMAIN log[c] |-> log[c][i].method]
    IN /\ IsPrefix(methods, Handshake)
       /\ \A i \in DOMAIN log[c] : log[c][i].cseq = i /\ (i > 1 => i - 1 \in accepted[c])
       /\ conn[c].state = "START_PUSH" =>
            Len(log[c]) = Len(Handshake) /\ Len(log[c]) \in accepted[c]

\* A connection that OpenUrl or Close gives up is destroyed, and its socket closed, as
\* soon as the loop gets to the task (unless the process crashes before).
GivenUpGoes == \A c \in Conns : (opened >= c /\ rtsp_conn # c) ~> (~conn[c].alive \/ crashed)

=============================================================================
