--------------------------- MODULE RtspConnection ---------------------------
(***************************************************************************)
(* What an RtspConnection in RTSP_SERVER mode does with the requests that  *)
(* RtspRequest hands it: the digest authentication, the media session that *)
(* it is for, the transport of each channel, PLAY and TEARDOWN, and the    *)
(* sockets that it opens, watches, and leaves when it ends.                *)
(*                                                                         *)
(* The handlers run on the event loop's thread, one after another.  Other  *)
(* threads add and remove media sessions, and open sockets: a descriptor   *)
(* that is closed is the next one that anybody gets.                       *)
(*                                                                         *)
(* The model follows one connection.  A reply is what the client learns    *)
(* from it.  A client asks for channels that exist; all sessions have      *)
(* sources in all of Channels.                                             *)
(***************************************************************************)
EXTENDS Integers, FiniteSets, FiniteSetsExt

CONSTANTS
  MaxChannels,   \* max_channel_count_ of every session
  Sessions,      \* media sessions that are added once each
  Suffix,        \* their url suffix
  Multicast,     \* those that have started multicast
  AuthRequired,  \* has_auth_info_ when the connection came
  MaxNonces,     \* bound: nonces that are given out
  MaxFd,         \* bound: descriptors; 1 is the RTSP socket
  MaxOthers,     \* bound: descriptors that others have open
  None

ASSUME ChannelAssumption == MaxChannels \in Nat \ {0}
ASSUME SessionAssumption ==
  Multicast \subseteq Sessions /\ DOMAIN Suffix = Sessions
ASSUME NoneAssumption ==
  None \notin Sessions /\ None \notin {"own", "group", "tcp", "udp", "multicast"}
ASSUME AuthAssumption == AuthRequired \in BOOLEAN /\ MaxNonces \in Nat
ASSUME FdAssumption == MaxFd \in Nat \ {0} /\ MaxOthers \in Nat

Channels   == 0 .. MaxChannels - 1
Fds        == 1 .. MaxFd
Transports == {"tcp", "udp", "multicast"}

VARIABLES
  sessions,      \* each session: "new", "added", "removed"
  connection,    \* "open", "closed", "destroying", "gone"
  has_auth,
  nonce,         \* nonce_, numbered as given out, or 0 for none
  proof,         \* history: the nonce of the response that was accepted
  session_id,    \* session_id_, or None
  clients,       \* the sessions whose clients_ has this connection
  rtp_conn,      \* rtp_conn_: "own", "group" (the session's multicast one), or None
  group_play,    \* the multicast RtpConnection plays
  rtp,           \* the own one: [setup, play, mode (transport_mode_), closed (is_closed_)]
  rtpfd, rtcpfd, \* rtpfd_ and rtcpfd_ of each channel, or 0
  rtcp_channels, \* descriptors in rtcp_channels_, by channel, or 0
  watched,       \* descriptors of which the scheduler has an RTCP channel
  fds,           \* whose each descriptor is: "rtsp", "rtp", "rtcp", "other", "free"
  closing,       \* how many of the destructors' closes are behind
  given,         \* client: the last nonce that it got, or 0
  agreed,        \* client: the transport of each channel by the last SETUP, or None
  promised,      \* client: the same when PLAY was answered, all None after TEARDOWN
  stray,         \* history: the connection closed a descriptor of somebody else's
  odd            \* history: "replaced", "no port", "sessions": see where they are added

auth    == <<has_auth, nonce, proof, given>>
media   == <<session_id, clients, rtp_conn, group_play, rtp>>
sockets == <<rtpfd, rtcpfd, rtcp_channels, watched, fds>>
ending  == <<connection, closing, stray>>
client  == <<agreed, promised>>
vars    == <<sessions, auth, media, sockets, ending, client, odd>>

None_ == [c \in Channels |-> None]
Zero  == [c \in Channels |-> 0]

-----------------------------------------------------------------------------
(***************************************************************************)
(* RtspServer                                                              *)
(***************************************************************************)

Added == {s \in Sessions : sessions[s] = "added"}

\* The session of a suffix that is taken is not added.
AddSession(s) ==
  /\ sessions[s] = "new"
  /\ \A t \in Added : Suffix[t] # Suffix[s]
  /\ sessions' = [sessions EXCEPT ![s] = "added"]
  /\ UNCHANGED <<auth, media, sockets, ending, client, odd>>

RemoveSession(s) ==
  /\ s \in Added
  /\ sessions' = [sessions EXCEPT ![s] = "removed"]
  /\ clients' = clients \ {s}
  /\ UNCHANGED <<auth, session_id, rtp_conn, group_play, rtp, sockets, ending, client, odd>>

LookMediaSession(suffix) == {s \in Added : Suffix[s] = suffix}

-----------------------------------------------------------------------------
(***************************************************************************)
(* HandleAuthentication, DigestAuthentication                              *)
(***************************************************************************)

\* GetResponse: what somebody who has the password makes of a nonce (0 being the empty
\* one) and a method; "none" is a request without it, or any other.
Responses(m) == {<<"none">>} \cup {<<"response", n, m2>> : n \in 0 .. given, m2 \in {m, "other"}}

GetResponse(n, m) == <<"response", n, m>>

\* Mutant: the empty nonce is not told from one that was given.
AcceptsAny(m, r) == r = GetResponse(nonce, m)

Accepts(m, r) == nonce # 0 /\ r = GetResponse(nonce, m)

NeedsAuth == AuthRequired /\ ~has_auth

\* The request is let through, and once it has been the connection is for good.
Admitted(m, r) ==
  IF NeedsAuth THEN /\ Accepts(m, r)
                    /\ has_auth' = TRUE /\ nonce' = 0 /\ proof' = r[2]
                    /\ UNCHANGED given
  ELSE UNCHANGED auth

\* The client learns the nonce.
BuildUnauthorizedRes(n) == given' = n

\* A nonce of GetNonce replaces the last one.
Unauthorized(m, r) ==
  /\ connection = "open"
  /\ NeedsAuth /\ ~Accepts(m, r) /\ given < MaxNonces
  /\ nonce' = given + 1
  /\ BuildUnauthorizedRes(nonce')
  /\ UNCHANGED <<has_auth, proof, sessions, media, sockets, ending, client, odd>>

-----------------------------------------------------------------------------
(***************************************************************************)
(* RtpConnection: the sockets of a channel                                 *)
(***************************************************************************)

Free == {f \in Fds : fds[f] = "free"}

\* The descriptors that the system gives next.
First  == Min(Free)
Second == Min(Free \ {First})

\* A socket that this replaces is nobody's any more.
Replaces(c) == IF rtpfd[c] \in Fds /\ fds[rtpfd[c]] = "rtp" THEN {"replaced"} ELSE {}

\* Mutant: transport_mode_ stays.
SetupRtpOverTcpModeless(c) ==
  /\ rtp' = [rtp EXCEPT !.setup = @ \cup {c}]
  /\ rtpfd' = [rtpfd EXCEPT ![c] = 1] /\ rtcpfd' = [rtcpfd EXCEPT ![c] = 1]
  /\ odd' = odd \cup Replaces(c)
  /\ UNCHANGED <<rtcp_channels, watched, fds>>

\* The RTSP socket is the channel's.  The multicast RtpConnection has none: its
\* rtsp_connection_ is empty, and it answers FALSE, which nobody looks at.
SetupRtpOverTcp(c) ==
  IF rtp_conn = "group" THEN UNCHANGED <<rtp, sockets, odd>>
  ELSE /\ rtp' = [rtp EXCEPT !.setup = @ \cup {c}, !.mode = "tcp"]
       /\ rtpfd' = [rtpfd EXCEPT ![c] = 1] /\ rtcpfd' = [rtcpfd EXCEPT ![c] = 1]
       /\ odd' = odd \cup Replaces(c)
       /\ UNCHANGED <<rtcp_channels, watched, fds>>

\* Two sockets on ports that are free; HandleCmdSetup has the second watched.
SetupRtpOverUdp(c) ==
  /\ Cardinality(Free) > 1
  /\ rtp' = [rtp EXCEPT !.setup = @ \cup {c}, !.mode = "udp"]
  /\ rtpfd' = [rtpfd EXCEPT ![c] = First] /\ rtcpfd' = [rtcpfd EXCEPT ![c] = Second]
  /\ fds' = [fds EXCEPT ![First] = "rtp", ![Second] = "rtcp"]
  /\ rtcp_channels' = [rtcp_channels EXCEPT ![c] = Second]
  /\ watched' = watched \cup {Second}
  /\ odd' = odd \cup Replaces(c)

\* Ten times no port: what the last try opened is closed again, and its number stays.
SetupRtpOverUdpFails(c) ==
  /\ Cardinality(Free) > 1
  /\ rtpfd' = [rtpfd EXCEPT ![c] = First]
  /\ \/ UNCHANGED rtcpfd
     \/ rtcpfd' = [rtcpfd EXCEPT ![c] = Second]
  /\ odd' = odd \cup {"no port"} \cup Replaces(c)
  /\ UNCHANGED <<rtp, rtcp_channels, watched, fds>>

\* RtpConnection::IsSetup of rtp_conn_
IsSetup(c) == rtp_conn = "group" \/ c \in rtp.setup

-----------------------------------------------------------------------------
(***************************************************************************)
(* The handlers                                                            *)
(***************************************************************************)

\* OPTIONS and GET_PARAMETER change nothing.
HandleCmdOption == connection = "open" /\ UNCHANGED vars

HandleCmdGetParamter == connection = "open" /\ rtp_conn # None /\ UNCHANGED vars

\* The RtpConnection is the one of the first session that was found.
HandleCmdDescribe(suffix, r) ==
  /\ connection = "open"
  /\ Admitted("DESCRIBE", r)
  /\ IF LookMediaSession(suffix) = {} THEN UNCHANGED <<media, odd>>     \* BuildNotFoundRes
     ELSE LET s == CHOOSE t \in LookMediaSession(suffix) : TRUE
          IN /\ session_id' = s
             /\ clients' = clients \cup {s}
             /\ rtp_conn' = IF rtp_conn # None THEN rtp_conn
                            ELSE IF s \in Multicast THEN "group" ELSE "own"
             /\ odd' = IF session_id \in {None, s} THEN odd ELSE odd \cup {"sessions"}
             /\ UNCHANGED <<group_play, rtp>>
  /\ UNCHANGED <<sessions, sockets, ending, client>>

\* BuildSetupTcpRes, BuildSetupUdpRes, BuildSetupMulticastRes
BuildSetupRes(c, transport) == agreed' = [agreed EXCEPT ![c] = transport] /\ UNCHANGED promised

\* server_error and transport_unsupport leave everything as it is.
HandleCmdSetup(c, transport, r) ==
  LET found == session_id \in Added
      multi == session_id \in Multicast
      unable == UNCHANGED <<rtp, sockets, odd, client>>
  IN /\ connection = "open"
     /\ Admitted("SETUP", r)
     /\ CASE ~found -> unable
          [] found /\ multi ->
               IF transport = "multicast" /\ IsSetup(c)
                 THEN BuildSetupRes(c, transport) /\ UNCHANGED <<rtp, sockets, odd>>
                 ELSE unable
          [] found /\ ~multi /\ transport = "tcp" ->
               SetupRtpOverTcp(c) /\ BuildSetupRes(c, transport)
          [] found /\ ~multi /\ transport = "udp" /\ rtp_conn = "own" ->
               \/ SetupRtpOverUdp(c) /\ BuildSetupRes(c, transport)
               \/ SetupRtpOverUdpFails(c) /\ UNCHANGED client
          [] OTHER -> unable
     /\ UNCHANGED <<sessions, session_id, clients, rtp_conn, group_play, ending>>

\* RtpConnection::Play of rtp_conn_
Play ==
  IF rtp_conn = "group" THEN group_play' = TRUE /\ UNCHANGED rtp
  ELSE rtp' = [rtp EXCEPT !.play = @ \cup rtp.setup] /\ UNCHANGED group_play

BuildPlayRes == promised' = agreed

\* Without an RtpConnection there is no reply.
HandleCmdPlay(r) ==
  /\ connection = "open"
  /\ Admitted("PLAY", r)
  /\ IF rtp_conn = None THEN UNCHANGED <<group_play, rtp, promised>> ELSE Play /\ BuildPlayRes
  /\ UNCHANGED <<sessions, session_id, clients, rtp_conn, sockets, ending, agreed, odd>>

\* RtpConnection::Teardown: not for multicast, and once: a PLAY after it is for good.
Teardown ==
  IF rtp.closed THEN UNCHANGED rtp ELSE rtp' = [rtp EXCEPT !.play = {}, !.closed = TRUE]

BuildTeardownRes == promised' = None_

HandleCmdTeardown ==
  /\ connection = "open" /\ rtp_conn # None
  /\ IF rtp_conn = "own" THEN Teardown ELSE UNCHANGED rtp
  /\ BuildTeardownRes
  /\ UNCHANGED <<sessions, auth, session_id, clients, rtp_conn, group_play, sockets, ending,
                 agreed, odd>>

\* SendRtpOverUdp: sendto fails.
SendRtpFails ==
  /\ connection = "open" /\ rtp.mode = "udp" /\ rtp.play # {}
  /\ Teardown
  /\ UNCHANGED <<sessions, auth, session_id, clients, rtp_conn, group_play, sockets, ending,
                 client, odd>>

-----------------------------------------------------------------------------
(***************************************************************************)
(* The end of the connection                                               *)
(***************************************************************************)

\* Mutant: the RTCP channels are left to the scheduler.
OnCloseKeepsChannels ==
  /\ clients' = clients \ {session_id}
  /\ UNCHANGED <<watched, rtcp_channels>>

\* The session that was described last forgets the client, and the RTCP channels that
\* rtcp_channels_ has are removed from the scheduler.
OnClose ==
  /\ clients' = clients \ {session_id}
  /\ watched' = watched \ {rtcp_channels[c] : c \in Channels}
  /\ rtcp_channels' = Zero

Close ==
  /\ connection = "open"
  /\ connection' = "closed"
  /\ OnClose
  /\ agreed' = None_ /\ promised' = None_     \* there is no client any more
  /\ UNCHANGED <<sessions, auth, session_id, rtp_conn, group_play, rtp, rtpfd, rtcpfd, fds,
                 closing, stray, odd>>

\* Mutant: ~TcpConnection does not ask whether it has closed the RTSP socket.
LastTwice == 2 * MaxChannels + 1

\* The descriptors are closed in the order of rtpfd_[0], rtcpfd_[0], rtpfd_[1] and so on, by
\* ~RtpConnection, whose own they are, and after them the RTSP socket, by ~TcpConnection.
Last == 2 * MaxChannels

Destroy ==
  /\ connection = "closed"
  /\ connection' = "destroying"
  /\ UNCHANGED <<sessions, auth, media, sockets, closing, stray, client, odd>>

\* SocketUtil::Close: whoever's descriptor it is.
CloseFd(f) ==
  /\ stray' = (stray \/ fds[f] = "other")
  /\ fds' = [fds EXCEPT ![f] = "free"]

\* What is 0 is none.
CloseChannel(f) == IF f > 0 THEN CloseFd(f) ELSE UNCHANGED <<stray, fds>>

CloseNext ==
  /\ connection = "destroying"
  /\ \/ \E c \in Channels : closing = 2 * c /\ CloseChannel(rtpfd[c])
     \/ \E c \in Channels : closing = 2 * c + 1 /\ CloseChannel(rtcpfd[c])
     \/ closing >= 2 * MaxChannels /\ CloseFd(1)
  /\ closing' = closing + 1
  /\ connection' = IF closing = Last THEN "gone" ELSE connection
  /\ UNCHANGED <<sessions, auth, media, rtpfd, rtcpfd, rtcp_channels, watched, client, odd>>

\* Another thread of the process opens a file or a socket.
OpenOther ==
  /\ Free # {} /\ Cardinality({f \in Fds : fds[f] = "other"}) < MaxOthers
  /\ fds' = [fds EXCEPT ![First] = "other"]
  /\ UNCHANGED <<sessions, auth, media, rtpfd, rtcpfd, rtcp_channels, watched, ending, client, odd>>

-----------------------------------------------------------------------------
Init ==
  /\ sessions = [s \in Sessions |-> "new"]
  /\ connection = "open" /\ closing = 0 /\ stray = FALSE
  /\ has_auth = ~AuthRequired /\ nonce = 0 /\ proof = 0 /\ given = 0
  /\ session_id = None /\ clients = {} /\ rtp_conn = None /\ group_play = FALSE
  /\ rtp = [setup |-> {}, play |-> {}, mode |-> "none", closed |-> FALSE]
  /\ rtpfd = Zero /\ rtcpfd = Zero /\ rtcp_channels = Zero /\ watched = {}
  /\ fds = [f \in Fds |-> IF f = 1 THEN "rtsp" ELSE "free"]
  /\ agreed = None_ /\ promised = None_
  /\ odd = {}

Next ==
  \/ \E s \in Sessions : AddSession(s) \/ RemoveSession(s)
  \/ \E m \in {"DESCRIBE", "SETUP", "PLAY"} : \E r \in Responses(m) : Unauthorized(m, r)
  \/ \E s \in Sessions, r \in Responses("DESCRIBE") : HandleCmdDescribe(Suffix[s], r)
  \/ \E c \in Channels, t \in Transports, r \in Responses("SETUP") : HandleCmdSetup(c, t, r)
  \/ \E r \in Responses("PLAY") : HandleCmdPlay(r)
  \/ HandleCmdOption \/ HandleCmdTeardown \/ HandleCmdGetParamter
  \/ SendRtpFails \/ Close \/ Destroy \/ CloseNext \/ OpenOther

Spec == Init /\ [][Next]_vars

-----------------------------------------------------------------------------
(***************************************************************************)
(* Properties                                                              *)
(***************************************************************************)

\* With a password, nothing of a session is reached before a response was accepted that
\* was computed from the last nonce the connection gave out: not from an older
\* one, and not from the empty one (HandleAuthentication).
MediaOnlyAuthorised ==
  AuthRequired /\ (session_id # None \/ rtp_conn # None \/ agreed # None_ \/ promised # None_)
    => proof > 0 /\ proof = given

Streams(c, transport) ==
  CASE transport = "multicast" -> rtp_conn = "group" /\ group_play
    [] transport = "tcp"       -> rtp.mode = "tcp" /\ rtpfd[c] = 1
    [] transport = "udp"       -> rtp.mode = "udp" /\ rtpfd[c] > 0 /\ fds[rtpfd[c]] = "rtp"

\* What a client was told to be set up when PLAY was answered does play, over the transport
\* that SETUP agreed to; but for clients that have channels over TCP and over UDP
\* (transport_mode_ is the connection's) or were found a second session, after
\* TEARDOWN and a send that failed (is_closed_ stays), and when UDP finds no port.
StreamsAsAgreed ==
  /\ connection = "open" /\ ~rtp.closed
  /\ odd \cap {"sessions", "no port"} = {}
  /\ ~({"tcp", "udp"} \subseteq {agreed[c] : c \in Channels})
  => \A c \in Channels : promised[c] # None =>
       /\ promised[c] = "multicast" \/ c \in rtp.play
       /\ promised[c] = agreed[c] => Streams(c, promised[c])

\* The descriptors that its end closes are the connection's, unless it has a channel over
\* TCP, whose descriptor is closed once or twice for the channel and once for the RTSP
\* socket, or kept the number of a socket that found no port.
StrayCloseOnlyIf == stray => "no port" \in odd \/ \E c \in Channels : rtpfd[c] = 1

\* When it is gone no socket of its is open, the scheduler watches none of its RTCP sockets
\* (the callback has the connection's address), and no session counts it as a client;
\* but for the sockets of a channel that was set up twice, and the client of a session
\* that was not the last.
NothingLeft ==
  connection = "gone" =>
    /\ "replaced" \in odd \/ (watched = {} /\ \A f \in Fds : fds[f] \in {"free", "other"})
    /\ "sessions" \in odd \/ clients = {}

=============================================================================
