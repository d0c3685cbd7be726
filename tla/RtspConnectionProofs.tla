------------------------ MODULE RtspConnectionProofs ------------------------
(***************************************************************************)
(* Proofs about RtspConnection: for any sessions, number of channels, of   *)
(* nonces and of descriptors, nothing is reached without a password, what  *)
(* PLAY promised is what plays, and the end of a connection closes what it *)
(* opened and nothing else.                                                *)
(*                                                                         *)
(* The exceptions that the properties make are the words of odd, which     *)
(* only grows.  So each part of the invariant speaks of the behaviours     *)
(* without the word that would break it, and the parts about sockets say   *)
(* whose each descriptor is: Owned from the channels to the descriptors    *)
(* (what a channel has is its own, so that closing it hits nobody) and     *)
(* Accounted from the descriptors to the channels (what is open will be    *)
(* closed).                                                                *)
(***************************************************************************)
EXTENDS RtspConnection, TLAPS, FiniteSetTheorems, WellFoundedInduction

-----------------------------------------------------------------------------
(***************************************************************************)
(* The invariant                                                           *)
(***************************************************************************)

FlagTypes == has_auth \in BOOLEAN /\ group_play \in BOOLEAN /\ stray \in BOOLEAN

SessionTypes ==
  /\ sessions \in [Sessions -> {"new", "added", "removed"}]
  /\ session_id \in Sessions \cup {None} /\ clients \subseteq Sessions
  /\ rtp_conn \in {"own", "group", None}
  /\ agreed \in [Channels -> {"tcp", "udp", "multicast", None}]
  /\ promised \in [Channels -> {"tcp", "udp", "multicast", None}]

RtpTypes ==
  rtp \in [setup : SUBSET Channels, play : SUBSET Channels, mode : {"none", "tcp", "udp"},
           closed : BOOLEAN]

SocketTypes ==
  /\ rtpfd \in [Channels -> 0 .. MaxFd] /\ rtcpfd \in [Channels -> 0 .. MaxFd]
  /\ rtcp_channels \in [Channels -> 0 .. MaxFd] /\ watched \subseteq Fds
  /\ fds \in [Fds -> {"rtsp", "rtp", "rtcp", "other", "free"}]

CountTypes == nonce \in Nat /\ proof \in Nat /\ given \in Nat /\ closing \in Nat

PlaceTypes ==
  /\ connection \in {"open", "closed", "destroying", "gone"}
  /\ odd \subseteq {"replaced", "no port", "sessions"}

\* An outstanding nonce is the last one given out, and has_auth keeps what it was won with.
AuthInv ==
  /\ nonce # 0 => nonce = given
  /\ AuthRequired /\ has_auth => proof > 0 /\ proof = given /\ nonce = 0
  /\ AuthRequired /\ ~has_auth =>
       session_id = None /\ rtp_conn = None /\ agreed = None_ /\ promised = None_

\* Where the destructors are.
EndInv ==
  /\ connection \in {"open", "closed"} => closing = 0 /\ ~stray /\ fds[1] = "rtsp"
  /\ connection = "destroying" => closing <= 2 * MaxChannels
  /\ connection = "gone" => closing = 2 * MaxChannels + 1
  /\ \A f \in Fds : fds[f] = "rtsp" => f = 1 /\ connection # "gone"

\* Of one session: its client, and the RtpConnection that goes with it.
ClientInv ==
  "sessions" \notin odd =>
    /\ clients \subseteq {session_id}
    /\ connection # "open" => clients = {}
    /\ session_id = None <=> rtp_conn = None
    /\ rtp_conn = "group" <=> session_id \in Multicast

Own == {"tcp", "udp"}

\* What SETUP and PLAY told the client is what they did.
AgreedInv ==
  "sessions" \notin odd =>
    \A c \in Channels :
      /\ agreed[c] = "multicast" => rtp_conn = "group"
      /\ agreed[c] \in Own => rtp_conn = "own" /\ c \in rtp.setup
      /\ agreed[c] \in Own => rtp.mode \in Own /\ \E d \in Channels : agreed[d] = rtp.mode
      /\ promised[c] = "multicast" => rtp_conn = "group" /\ group_play
      /\ promised[c] \in Own => c \in rtp.play \/ rtp.closed

\* Each channel has the sockets of the transport that was agreed for it.
TransportInv ==
  odd \cap {"sessions", "no port"} = {} /\ connection = "open" =>
    \A c \in Channels :
      /\ agreed[c] = "tcp" => rtpfd[c] = 1
      /\ agreed[c] = "udp" => rtpfd[c] > 0 /\ fds[rtpfd[c]] = "rtp"

\* What a channel has and is not closed is its own, or the RTSP socket.
TcpPairs  == \A c \in Channels : rtpfd[c] = 1 <=> rtcpfd[c] = 1
RtpOwned  == \A c \in Channels : rtpfd[c] \notin {0, 1} /\ closing <= 2 * c => fds[rtpfd[c]] = "rtp"
RtcpOwned ==
  \A c \in Channels : rtcpfd[c] \notin {0, 1} /\ closing <= 2 * c + 1 => fds[rtcpfd[c]] = "rtcp"
RtpApart  == \A c, d \in Channels : rtpfd[c] \notin {0, 1} /\ rtpfd[c] = rtpfd[d] => c = d
RtcpApart == \A c, d \in Channels : rtcpfd[c] \notin {0, 1} /\ rtcpfd[c] = rtcpfd[d] => c = d
OwnClosed ==
  (\A c \in Channels : rtpfd[c] # 1) => ~stray /\ (connection # "gone" => fds[1] = "rtsp")

Owned ==
  "no port" \notin odd => TcpPairs /\ RtpOwned /\ RtcpOwned /\ RtpApart /\ RtcpApart /\ OwnClosed

\* What is open or watched is a channel's, and the destructors have yet to come to it.
HasRtp(c) == rtpfd[c] # 0 /\ fds[rtpfd[c]] = "rtp"

RtpAccounted ==
  \A f \in Fds : fds[f] = "rtp" => \E c \in Channels : rtpfd[c] = f /\ closing <= 2 * c
RtcpAccounted ==
  \A f \in Fds : fds[f] = "rtcp" =>
    \E c \in Channels : /\ rtcpfd[c] = f /\ closing <= 2 * c + 1
                        /\ connection = "open" => HasRtp(c)
WatchedAccounted ==
  /\ \A f \in watched : \E c \in Channels : rtcp_channels[c] = f
  /\ connection = "open" => \A c \in Channels : rtcp_channels[c] # 0 => HasRtp(c)
  /\ connection # "open" => watched = {}

Accounted == "replaced" \notin odd => RtpAccounted /\ RtcpAccounted /\ WatchedAccounted

TypeOK == FlagTypes /\ SessionTypes /\ RtpTypes /\ SocketTypes /\ CountTypes /\ PlaceTypes

IInv ==
  /\ TypeOK
  /\ AuthInv /\ EndInv
  /\ ClientInv /\ AgreedInv /\ TransportInv
  /\ Owned /\ Accounted

-----------------------------------------------------------------------------
(***************************************************************************)
(* Descriptors that are given out, and the outcomes of SETUP               *)
(***************************************************************************)

\* A nonempty set of descriptors has a least one.
LEMMA LeastExists ==
  ASSUME NEW S, S \subseteq Nat, S # {}
  PROVE  Min(S) \in S
<1> DEFINE R == {p \in Nat \X Nat : p[1] < p[2]}
<1>1. IsWellFoundedOn(R, Nat) BY NatLessThanWellFounded DEF OpToRel
<1>2. \E x \in S : \A y \in S : ~(<<y, x>> \in R) BY <1>1, WFMin
<1>3. \A x, y \in Nat : <<y, x>> \in R <=> y < x OBVIOUS
<1>4. \A x, y \in S : ~(<<y, x>> \in R) => x =< y
  <2> HIDE DEF R
  <2> QED BY <1>3
<1>5. \E x \in S : \A y \in S : x =< y BY <1>2, <1>4
<1> QED BY <1>5 DEF Min

\* socket(2) gives a free descriptor, and the next time another one.
LEMMA Fresh ==
  ASSUME SocketTypes
  PROVE  /\ Free # {} => First \in Free
         /\ Cardinality(Free) > 1 => /\ First \in Free /\ Second \in Free
                                     /\ First # Second
<1>1. Free \subseteq Nat /\ Free \subseteq Fds BY FdAssumption DEF Free, Fds
<1>2. IsFiniteSet(Free)
  <2>1. IsFiniteSet(Fds) BY FS_Interval, FdAssumption DEF Fds
  <2> QED BY <1>1, <2>1, FS_Subset
<1>3. Free # {} => First \in Free BY <1>1, LeastExists DEF First
<1>4. ASSUME Cardinality(Free) > 1 PROVE Free # {} /\ Free \ {First} # {}
  <2>1. Free # {} BY <1>2, <1>4, FS_EmptySet
  <2>2. Cardinality(Free \ {First}) = Cardinality(Free) - 1
    BY <1>2, <1>3, <2>1, FS_RemoveElement
  <2>3. IsFiniteSet(Free \ {First}) BY <1>2, FS_RemoveElement
  <2>4. Cardinality(Free) \in Nat BY <1>2, FS_CardinalityType
  <2> QED BY <1>4, <2>1, <2>2, <2>3, <2>4, FS_EmptySet
<1>5. ASSUME Cardinality(Free) > 1 PROVE Second \in Free \ {First}
  BY <1>1, <1>4, <1>5, LeastExists DEF Second
<1> QED BY <1>3, <1>4, <1>5

\* What SETUP of a channel does, and what is known where it does.
SetupOutcome(c) ==
  \/ UNCHANGED <<rtp, sockets, odd, client>>
  \/ /\ session_id \in Multicast /\ BuildSetupRes(c, "multicast")
     /\ UNCHANGED <<rtp, sockets, odd>>
  \/ /\ session_id \in Sessions \ Multicast /\ BuildSetupRes(c, "tcp")
     /\ SetupRtpOverTcp(c)
  \/ /\ session_id \in Sessions \ Multicast /\ BuildSetupRes(c, "udp")
     /\ rtp_conn = "own" /\ SetupRtpOverUdp(c)
  \/ rtp_conn = "own" /\ SetupRtpOverUdpFails(c) /\ UNCHANGED client

LEMMA SetupOutcomes ==
  ASSUME NEW c \in Channels, NEW t \in Transports, NEW r, HandleCmdSetup(c, t, r)
  PROVE  /\ SetupOutcome(c) /\ connection = "open" /\ Admitted("SETUP", r)
         /\ UNCHANGED <<sessions, session_id, clients, rtp_conn, group_play, ending>>
<1>1. session_id \in Added => session_id \in Sessions BY DEF Added
<1> QED BY <1>1 DEF HandleCmdSetup, SetupOutcome, Transports

-----------------------------------------------------------------------------
(***************************************************************************)
(* Types                                                                   *)
(***************************************************************************)

LEMMA TypesAtFirst == Init => TypeOK
<1> SUFFICES ASSUME Init PROVE TypeOK OBVIOUS
<1> USE DEF Init
<1>1. FlagTypes BY AuthAssumption DEF FlagTypes
<1>2. SessionTypes BY DEF SessionTypes, None_
<1>3. RtpTypes BY DEF RtpTypes
<1>4. SocketTypes BY FdAssumption DEF SocketTypes, Zero, Fds
<1>5. CountTypes BY DEF CountTypes
<1>6. PlaceTypes BY DEF PlaceTypes
<1> QED BY <1>1, <1>2, <1>3, <1>4, <1>5, <1>6 DEF TypeOK

LEMMA AdmittedTypes ==
  ASSUME NEW m, NEW r, Admitted(m, r), CountTypes, has_auth \in BOOLEAN
  PROVE  /\ has_auth' \in BOOLEAN
         /\ nonce' \in Nat /\ proof' \in Nat /\ given' \in Nat
<1>1. Accepts(m, r) => r[2] = nonce BY DEF Accepts, GetResponse
<1>2. CASE UNCHANGED auth BY <1>2 DEF CountTypes, auth
<1>3. CASE Accepts(m, r) /\ has_auth' = TRUE /\ nonce' = 0 /\ proof' = r[2] /\ UNCHANGED given
  BY <1>1, <1>3 DEF CountTypes
<1> QED BY <1>2, <1>3 DEF Admitted

LEMMA SetupTypes ==
  ASSUME TypeOK, NEW c \in Channels, SetupOutcome(c)
  PROVE  /\ RtpTypes' /\ SocketTypes'
         /\ odd' \subseteq {"replaced", "no port", "sessions"}
         /\ agreed' \in [Channels -> {"tcp", "udp", "multicast", None}]
         /\ promised' \in [Channels -> {"tcp", "udp", "multicast", None}]
<1> USE DEF SetupOutcome, BuildSetupRes, client
<1>1. agreed' \in [Channels -> {"tcp", "udp", "multicast", None}]
  BY DEF TypeOK, SessionTypes
<1>2. promised' \in [Channels -> {"tcp", "udp", "multicast", None}]
  BY DEF TypeOK, SessionTypes
<1>3. Free \subseteq Fds /\ (Cardinality(Free) > 1 => First \in Free /\ Second \in Free)
  BY Fresh DEF TypeOK, Free
<1>4. Fds \subseteq 0 .. MaxFd /\ 1 \in 0 .. MaxFd /\ 1 \in Fds BY FdAssumption DEF Fds
<1>5. RtpTypes'
  <2>1. CASE UNCHANGED rtp BY <2>1 DEF TypeOK, RtpTypes
  <2>2. ASSUME NEW m \in {"tcp", "udp"}, rtp' = [rtp EXCEPT !.setup = @ \cup {c}, !.mode = m]
        PROVE  RtpTypes'
    BY <2>2 DEF TypeOK, RtpTypes
  <2> QED BY <2>1, <2>2 DEF SetupRtpOverTcp, SetupRtpOverUdp, SetupRtpOverUdpFails
<1>6. SocketTypes'
  <2> USE DEF TypeOK, SocketTypes
  <2>1. CASE UNCHANGED sockets BY <2>1 DEF sockets
  <2>2. CASE /\ UNCHANGED <<rtcp_channels, watched, fds>>
             /\ rtpfd' = [rtpfd EXCEPT ![c] = 1] /\ rtcpfd' = [rtcpfd EXCEPT ![c] = 1]
    BY <1>4, <2>2
  <2>3. CASE SetupRtpOverUdp(c)
    BY <1>3, <1>4, <2>3 DEF SetupRtpOverUdp
  <2>4. CASE SetupRtpOverUdpFails(c)
    BY <1>3, <1>4, <2>4 DEF SetupRtpOverUdpFails
  <2> QED BY <2>1, <2>2, <2>3, <2>4 DEF SetupRtpOverTcp, sockets
<1>7. odd' \subseteq {"replaced", "no port", "sessions"}
  BY DEF TypeOK, PlaceTypes, SetupRtpOverTcp, SetupRtpOverUdp, SetupRtpOverUdpFails, Replaces
<1> QED BY <1>1, <1>2, <1>5, <1>6, <1>7

LEMMA TypesStep ==
  ASSUME TypeOK, [Next]_vars
  PROVE  TypeOK'
<1> USE DEF TypeOK
<1>0. CASE UNCHANGED vars
  BY <1>0 DEF FlagTypes, SessionTypes, RtpTypes, SocketTypes, CountTypes, PlaceTypes,
              vars, auth, media, sockets, ending, client
<1>1. ASSUME NEW s \in Sessions, AddSession(s) \/ RemoveSession(s)
      PROVE  TypeOK'
  BY <1>1 DEF AddSession, RemoveSession, FlagTypes, SessionTypes, RtpTypes, SocketTypes, CountTypes,
              PlaceTypes, auth, media, sockets, ending, client
<1>2. ASSUME NEW m, NEW r, Unauthorized(m, r)
      PROVE  TypeOK'
  <2> USE <1>2 DEF Unauthorized, BuildUnauthorizedRes, media, sockets, ending, client
  <2>1. FlagTypes' /\ SessionTypes' BY DEF FlagTypes, SessionTypes
  <2>2. RtpTypes' /\ SocketTypes' BY DEF RtpTypes, SocketTypes
  <2>3. CountTypes' BY DEF CountTypes
  <2>4. PlaceTypes' BY DEF PlaceTypes
  <2> QED BY <2>1, <2>2, <2>3, <2>4
<1>3. ASSUME NEW s \in Sessions, NEW r, HandleCmdDescribe(Suffix[s], r)
      PROVE  TypeOK'
  <2> DEFINE found == LookMediaSession(Suffix[s])
             t == CHOOSE u \in found : TRUE
  <2>1. found # {} => t \in Sessions BY DEF LookMediaSession, Added
  <2> USE <1>3, AdmittedTypes DEF HandleCmdDescribe
  <2> HIDE DEF t, found
  <2>2. RtpTypes' BY DEF RtpTypes, media
  <2>3. SocketTypes' BY DEF SocketTypes, sockets
  <2>4. CountTypes' BY DEF CountTypes, ending, FlagTypes
  <2>7. PlaceTypes' BY DEF PlaceTypes, ending, media
  <2>5. FlagTypes' BY DEF FlagTypes, ending, media
  <2>6. SessionTypes' BY <2>1 DEF SessionTypes, media, client, t, found
  <2> QED BY <2>2, <2>3, <2>4, <2>5, <2>6, <2>7
<1>4. ASSUME NEW c \in Channels, NEW t \in Transports, NEW r, HandleCmdSetup(c, t, r)
      PROVE  TypeOK'
  <2>1. SetupOutcome(c) /\ Admitted("SETUP", r) BY <1>4, SetupOutcomes
  <2>2. UNCHANGED <<sessions, session_id, clients, rtp_conn, group_play, ending>>
    BY <1>4, SetupOutcomes
  <2>3. RtpTypes' /\ SocketTypes' /\ SessionTypes' BY <2>1, <2>2, SetupTypes DEF SessionTypes
  <2>4. FlagTypes' BY <2>1, <2>2, AdmittedTypes DEF FlagTypes, ending
  <2>5. CountTypes' BY <2>1, <2>2, AdmittedTypes DEF CountTypes, FlagTypes, ending
  <2>6. PlaceTypes' BY <2>1, <2>2, SetupTypes DEF PlaceTypes, ending
  <2> QED BY <2>3, <2>4, <2>5, <2>6
<1>5. ASSUME NEW r, HandleCmdPlay(r)
      PROVE  TypeOK'
  <2> USE <1>5, AdmittedTypes DEF HandleCmdPlay, Play, BuildPlayRes
  <2>1. RtpTypes'
    <3>1. CASE UNCHANGED rtp BY <3>1 DEF RtpTypes
    <3>2. CASE rtp' = [rtp EXCEPT !.play = @ \cup rtp.setup] BY <3>2 DEF RtpTypes
    <3> QED BY <3>1, <3>2
  <2>2. SocketTypes' BY DEF SocketTypes, sockets
  <2>3. CountTypes' BY DEF CountTypes, ending, FlagTypes
  <2>6. PlaceTypes' BY DEF PlaceTypes, ending
  <2>4. FlagTypes' BY DEF FlagTypes, ending
  <2>5. SessionTypes' BY DEF SessionTypes
  <2> QED BY <2>1, <2>2, <2>3, <2>4, <2>5, <2>6
<1>6. CASE HandleCmdTeardown \/ SendRtpFails
  <2>1. rtp' = [rtp EXCEPT !.play = {}, !.closed = TRUE] \/ UNCHANGED rtp
    BY <1>6 DEF HandleCmdTeardown, SendRtpFails, Teardown
  <2>2. RtpTypes' BY <2>1 DEF RtpTypes
  <2>3. promised' = None_ \/ UNCHANGED promised
    BY <1>6 DEF HandleCmdTeardown, SendRtpFails, BuildTeardownRes, client
  <2> QED BY <1>6, <2>2, <2>3
          DEF HandleCmdTeardown, SendRtpFails, FlagTypes, SessionTypes, SocketTypes, CountTypes,
              PlaceTypes, auth, sockets, ending, client, None_
<1>7. CASE Close \/ Destroy
  <2> USE <1>7 DEF Close, Destroy, OnClose, auth, media, sockets, client
  <2>1. FlagTypes' /\ RtpTypes' BY DEF FlagTypes, RtpTypes
  <2>2. SessionTypes' BY DEF SessionTypes, None_
  <2>3. SocketTypes' BY FdAssumption DEF SocketTypes, Zero
  <2>4. CountTypes' BY DEF CountTypes
  <2>5. PlaceTypes' BY DEF PlaceTypes
  <2> QED BY <2>1, <2>2, <2>3, <2>4, <2>5
<1>8. CASE CloseNext
  <2> USE <1>8 DEF CloseNext, CloseChannel, CloseFd
  <2>1. SessionTypes' /\ RtpTypes' BY DEF SessionTypes, RtpTypes, media, client
  <2>2. FlagTypes' BY DEF FlagTypes, auth, media
  <2>3. SocketTypes' BY DEF SocketTypes
  <2>4. CountTypes' BY DEF CountTypes, auth
  <2>5. PlaceTypes' BY DEF PlaceTypes
  <2> QED BY <2>1, <2>2, <2>3, <2>4, <2>5
<1>9. CASE OpenOther
  BY <1>9 DEF OpenOther, FlagTypes,
              SessionTypes, RtpTypes, SocketTypes, CountTypes, PlaceTypes, auth,
              media, ending, client
<1> QED BY <1>0, <1>1, <1>2, <1>3, <1>4, <1>5, <1>6, <1>7, <1>8, <1>9
        DEF Next, HandleCmdOption, HandleCmdGetParamter

-----------------------------------------------------------------------------
(***************************************************************************)
(* Authentication and the end                                              *)
(***************************************************************************)

\* The session that DESCRIBE finds, with an RtpConnection of its kind unless there is one.
Described(s) ==
  /\ session_id' = s /\ clients' = clients \cup {s}
  /\ rtp_conn' = IF rtp_conn # None THEN rtp_conn ELSE IF s \in Multicast THEN "group" ELSE "own"
  /\ odd' = IF session_id \in {None, s} THEN odd ELSE odd \cup {"sessions"}

LEMMA DescribeOutcomes ==
  ASSUME NEW suffix, NEW r, HandleCmdDescribe(suffix, r)
  PROVE  /\ connection = "open" /\ Admitted("DESCRIBE", r)
         /\ UNCHANGED <<sessions, sockets, ending, client, group_play, rtp>>
         /\ \/ UNCHANGED <<session_id, clients, rtp_conn, odd>>
            \/ \E s \in Sessions : Described(s)
<1> DEFINE found == LookMediaSession(suffix)
           s == CHOOSE t \in found : TRUE
<1>1. found # {} => s \in Sessions BY DEF LookMediaSession, Added
<1>2. CASE found = {} BY <1>2 DEF HandleCmdDescribe, media
<1>3. CASE found # {}
  <2> HIDE DEF found
  <2> QED BY <1>1, <1>3 DEF HandleCmdDescribe, Described, found
<1> QED BY <1>2, <1>3

LEMMA AuthStep ==
  ASSUME TypeOK, AuthInv, [Next]_vars
  PROVE  AuthInv'
<1> USE DEF TypeOK, CountTypes, FlagTypes
<1>0. CASE UNCHANGED <<auth, session_id, rtp_conn, agreed, promised>>
  BY <1>0 DEF AuthInv, auth
<1>1. ASSUME NEW m, NEW r, Unauthorized(m, r)
      PROVE  AuthInv'
  BY <1>1 DEF Unauthorized, BuildUnauthorizedRes, NeedsAuth, AuthInv, media, client
<1>2. ASSUME NEW m, NEW r, Admitted(m, r)
      PROVE  /\ nonce' # 0 => nonce' = given'
             /\ AuthRequired => has_auth' /\ proof' > 0 /\ proof' = given' /\ nonce' = 0
  <2>1. CASE NeedsAuth
    <3>1. Accepts(m, r) /\ has_auth' = TRUE /\ nonce' = 0 /\ proof' = r[2] /\ given' = given
      BY <1>2, <2>1 DEF Admitted
    <3>2. r[2] = nonce /\ nonce # 0 BY <3>1 DEF Accepts, GetResponse
    <3> QED BY <3>1, <3>2 DEF AuthInv
  <2>2. CASE ~NeedsAuth
    <3>1. UNCHANGED auth BY <1>2, <2>2 DEF Admitted
    <3> QED BY <2>2, <3>1 DEF NeedsAuth, AuthInv, auth
  <2> QED BY <2>1, <2>2
<1>3. ASSUME NEW m, NEW r, Admitted(m, r)
      PROVE  AuthInv'
  BY <1>2, <1>3 DEF AuthInv
<1>4. CASE HandleCmdTeardown \/ Close
  BY <1>4 DEF HandleCmdTeardown, Close, BuildTeardownRes, AuthInv, auth, None_
<1>5. CASE \/ UNCHANGED vars \/ SendRtpFails \/ Destroy \/ CloseNext \/ OpenOther
           \/ \E s \in Sessions : AddSession(s) \/ RemoveSession(s)
  BY <1>0, <1>5 DEF vars, SendRtpFails, Destroy, CloseNext, OpenOther, AddSession, RemoveSession,
                    auth, media, client
<1>6. ASSUME NEW s, NEW r, HandleCmdDescribe(s, r)
      PROVE  AuthInv'
  BY <1>3, <1>6 DEF HandleCmdDescribe
<1>7. ASSUME NEW c, NEW t, NEW r, HandleCmdSetup(c, t, r)
      PROVE  AuthInv'
  BY <1>3, <1>7 DEF HandleCmdSetup
<1>8. ASSUME NEW r, HandleCmdPlay(r)
      PROVE  AuthInv'
  BY <1>3, <1>8 DEF HandleCmdPlay
<1> QED BY <1>1, <1>4, <1>5, <1>6, <1>7, <1>8 DEF Next, HandleCmdOption, HandleCmdGetParamter

LEMMA EndStep ==
  ASSUME TypeOK, EndInv, [Next]_vars
  PROVE  EndInv'
<1> USE DEF TypeOK, SocketTypes, CountTypes, EndInv
<1>0. CASE UNCHANGED <<connection, closing, stray, fds>>
  BY <1>0
<1>1. ASSUME NEW c \in Channels, NEW t \in Transports, NEW r, HandleCmdSetup(c, t, r)
      PROVE  EndInv'
  <2>1. SetupOutcome(c) /\ UNCHANGED ending BY <1>1, SetupOutcomes
  <2>2. CASE SetupRtpOverUdp(c)
    <3>1. fds' = [fds EXCEPT ![First] = "rtp", ![Second] = "rtcp"]
      BY <2>2 DEF SetupRtpOverUdp
    <3>2. fds[First] = "free" /\ fds[Second] = "free"
      BY <2>2, Fresh DEF SetupRtpOverUdp, Free
    <3> QED BY <2>1, <3>1, <3>2, FdAssumption DEF ending, Fds
  <2> QED BY <1>0, <2>1, <2>2
          DEF SetupOutcome, SetupRtpOverTcp, SetupRtpOverUdpFails, sockets, ending
<1>2. CASE CloseNext
  <2> USE <1>2 DEF CloseNext, CloseChannel, CloseFd
  <2>1. closing <= 2 * MaxChannels /\ closing \in Nat /\ MaxChannels \in Nat \ {0}
    BY ChannelAssumption
  <2>2. CASE closing = 2 * MaxChannels
    <3>1. fds' = [fds EXCEPT ![1] = "free"] /\ closing' = closing + 1 /\ connection' = "gone"
      BY <2>1, <2>2 DEF Channels, Last
    <3> QED BY <2>1, <2>2, <3>1, FdAssumption DEF Fds
  <2>3. CASE closing < 2 * MaxChannels
    <3>1. closing' = closing + 1 /\ connection' = "destroying" BY <2>1, <2>3 DEF Last
    <3>2. \A f \in Fds : fds'[f] = "rtsp" => fds[f] = "rtsp" BY <2>1, <2>3
    <3> QED BY <2>1, <2>3, <3>1, <3>2
  <2> QED BY <2>1, <2>2, <2>3
<1>3. CASE OpenOther
  <2>1. First \in Free BY <1>3, Fresh DEF OpenOther
  <2> QED BY <1>3, <2>1, FdAssumption DEF OpenOther, ending, Free, Fds
<1>4. CASE Close \/ Destroy
  BY <1>4, ChannelAssumption DEF Close, Destroy, sockets
<1> QED BY <1>0, <1>1, <1>2, <1>3, <1>4
        DEF Next, vars, AddSession, RemoveSession, Unauthorized, HandleCmdDescribe, HandleCmdPlay,
            HandleCmdOption, HandleCmdTeardown, HandleCmdGetParamter, SendRtpFails, sockets, ending

-----------------------------------------------------------------------------
(***************************************************************************)
(* What the client was told                                                *)
(***************************************************************************)

\* The words of odd stay.
LEMMA OddGrows ==
  ASSUME TypeOK, [Next]_vars
  PROVE  odd \subseteq odd'
<1>1. ASSUME NEW c \in Channels, NEW t \in Transports, NEW r, HandleCmdSetup(c, t, r)
      PROVE  odd \subseteq odd'
  BY <1>1, SetupOutcomes DEF SetupOutcome, SetupRtpOverTcp, SetupRtpOverUdp, SetupRtpOverUdpFails
<1>2. ASSUME NEW s, NEW r, HandleCmdDescribe(s, r)
      PROVE  odd \subseteq odd'
  BY <1>2, DescribeOutcomes DEF Described
<1> QED BY <1>1, <1>2
        DEF Next, vars, AddSession, RemoveSession, Unauthorized, HandleCmdPlay, HandleCmdOption,
            HandleCmdTeardown, HandleCmdGetParamter, SendRtpFails, Close, Destroy, CloseNext,
            OpenOther

LEMMA ClientStep ==
  ASSUME TypeOK, ClientInv, [Next]_vars
  PROVE  ClientInv'
<1> USE DEF TypeOK, SessionTypes, ClientInv
<1>1. CASE /\ UNCHANGED <<session_id, rtp_conn, odd>>
           /\ clients' \subseteq clients /\ connection' = connection
  BY <1>1
<1>2. ASSUME NEW s, NEW r, HandleCmdDescribe(s, r)
      PROVE  ClientInv'
  <2>1. CASE UNCHANGED <<session_id, clients, rtp_conn, odd>>
    BY <1>2, <2>1, DescribeOutcomes DEF ending
  <2>2. ASSUME NEW u \in Sessions, Described(u)
        PROVE  ClientInv'
    <3>1. connection' = "open" BY <1>2, DescribeOutcomes DEF ending
    <3> QED BY <2>2, <3>1, NoneAssumption DEF Described
  <2> QED BY <1>2, <2>1, <2>2, DescribeOutcomes
<1>3. ASSUME NEW c \in Channels, NEW t \in Transports, NEW r, HandleCmdSetup(c, t, r)
      PROVE  ClientInv'
  <2>1. odd \subseteq odd'
    BY <1>3, SetupOutcomes DEF SetupOutcome, SetupRtpOverTcp, SetupRtpOverUdp, SetupRtpOverUdpFails
  <2> QED BY <1>3, <2>1, SetupOutcomes DEF ending
<1>4. CASE Close \/ Destroy \/ CloseNext
  BY <1>4 DEF Close, OnClose, Destroy, CloseNext, media
<1> QED BY <1>1, <1>2, <1>3, <1>4
        DEF Next, vars, AddSession, RemoveSession, Unauthorized, HandleCmdPlay, HandleCmdOption,
            HandleCmdTeardown, HandleCmdGetParamter, SendRtpFails, OpenOther, media, ending

LEMMA AgreedStep ==
  ASSUME TypeOK, AgreedInv, ClientInv, [Next]_vars
  PROVE  AgreedInv'
<1> USE NoneAssumption DEF TypeOK, SessionTypes, RtpTypes, AgreedInv, Own
<1>1. CASE UNCHANGED <<agreed, promised, rtp_conn, rtp, group_play, odd>>
  BY <1>1
<1>2. ASSUME NEW s, NEW r, HandleCmdDescribe(s, r)
      PROVE  AgreedInv'
  <2>1. UNCHANGED <<agreed, promised, rtp, group_play>> BY <1>2, DescribeOutcomes DEF client
  <2>2. odd \subseteq odd' BY <1>2, DescribeOutcomes DEF Described
  <2>3. rtp_conn # None => rtp_conn' = rtp_conn BY <1>2, DescribeOutcomes DEF Described
  <2> QED BY <2>1, <2>2, <2>3
<1>3. ASSUME NEW c \in Channels, NEW t \in Transports, NEW r, HandleCmdSetup(c, t, r)
      PROVE  AgreedInv'
  <2>1. UNCHANGED <<session_id, rtp_conn, group_play>> BY <1>3, SetupOutcomes
  <2>2. odd \subseteq odd'
    BY <1>3, SetupOutcomes DEF SetupOutcome, SetupRtpOverTcp, SetupRtpOverUdp, SetupRtpOverUdpFails
  <2>3. CASE UNCHANGED <<rtp, client>> BY <2>1, <2>2, <2>3 DEF client
  <2>4. CASE /\ session_id \in Multicast /\ BuildSetupRes(c, "multicast")
             /\ UNCHANGED <<rtp, sockets, odd>>
    BY <2>1, <2>2, <2>4 DEF BuildSetupRes, ClientInv
  <2>5. ASSUME NEW m \in {"tcp", "udp"}, session_id \in Sessions \ Multicast, BuildSetupRes(c, m),
               rtp_conn # "group" => rtp' = [rtp EXCEPT !.setup = @ \cup {c}, !.mode = m]
        PROVE  AgreedInv'
    <3> SUFFICES ASSUME "sessions" \notin odd' PROVE AgreedInv'
      OBVIOUS
    <3>1. rtp_conn = "own" BY <2>2, <2>5 DEF ClientInv
    <3>2. rtp'.mode = m /\ rtp'.setup = rtp.setup \cup {c}
      BY <2>5, <3>1
    <3>3. rtp'.play = rtp.play /\ rtp'.closed = rtp.closed BY <2>5, <3>1
    <3>4. agreed' = [agreed EXCEPT ![c] = m] /\ promised' = promised BY <2>5 DEF BuildSetupRes
    <3> QED BY <2>1, <2>2, <3>1, <3>2, <3>3, <3>4
  <2> QED BY <1>3, <2>3, <2>4, <2>5, SetupOutcomes
          DEF SetupOutcome, SetupRtpOverTcp, SetupRtpOverUdp, SetupRtpOverUdpFails, client
<1>4. ASSUME NEW r, HandleCmdPlay(r)
      PROVE  AgreedInv'
  <2>1. CASE rtp_conn = None BY <1>4, <2>1 DEF HandleCmdPlay
  <2>2. CASE rtp_conn = "group"
    BY <1>4, <2>2 DEF HandleCmdPlay, Play, BuildPlayRes
  <2>3. CASE rtp_conn = "own"
    <3>1. rtp' = [rtp EXCEPT !.play = @ \cup rtp.setup] /\ promised' = agreed
      BY <1>4, <2>3 DEF HandleCmdPlay, Play, BuildPlayRes
    <3>2. rtp'.mode = rtp.mode /\ rtp'.setup = rtp.setup /\ rtp'.play = rtp.play \cup rtp.setup
      BY <3>1
    <3>3. UNCHANGED <<rtp_conn, agreed, odd, group_play>> BY <1>4, <2>3 DEF HandleCmdPlay, Play
    <3> QED BY <2>3, <3>1, <3>2, <3>3
  <2> QED BY <2>1, <2>2, <2>3
<1>5. CASE HandleCmdTeardown \/ SendRtpFails
  <2>1. \/ rtp'.closed /\ rtp'.mode = rtp.mode /\ rtp'.setup = rtp.setup
        \/ UNCHANGED rtp
    <3>1. rtp' = [rtp EXCEPT !.play = {}, !.closed = TRUE] \/ UNCHANGED rtp
      BY <1>5 DEF HandleCmdTeardown, SendRtpFails, Teardown
    <3>2. CASE rtp' = [rtp EXCEPT !.play = {}, !.closed = TRUE]
      BY <3>2
    <3> QED BY <3>1, <3>2
  <2>2. UNCHANGED <<agreed, rtp_conn, odd, group_play>> /\ promised' \in {promised, None_}
    BY <1>5 DEF HandleCmdTeardown, SendRtpFails, BuildTeardownRes, client
  <2> QED BY <2>1, <2>2 DEF None_
<1>6. CASE Close
  BY <1>6 DEF Close, None_
<1> QED BY <1>1, <1>2, <1>3, <1>4, <1>5, <1>6
        DEF Next, vars, AddSession, RemoveSession, Unauthorized, HandleCmdOption,
            HandleCmdGetParamter, Destroy, CloseNext, OpenOther, media, client

\* The range of descriptors and channels.
LEMMA Numbers ==
  ASSUME SocketTypes
  PROVE  /\ 1 \in Fds /\ 0 \notin Fds /\ \A f \in Fds : f > 0
         /\ \A c \in Channels : /\ rtpfd[c] \in Fds \cup {0} /\ (rtpfd[c] > 0 <=> rtpfd[c] # 0)
                                /\ rtcpfd[c] \in Fds \cup {0} /\ (rtcpfd[c] > 0 <=> rtcpfd[c] # 0)
<1>1. 1 \in Fds /\ 0 \notin Fds /\ \A f \in Fds : f > 0 BY FdAssumption DEF Fds
<1>2. \A n \in 0 .. MaxFd : n \in Fds \cup {0} /\ (n > 0 <=> n # 0) BY FdAssumption DEF Fds
<1>3. \A c \in Channels : rtpfd[c] \in 0 .. MaxFd /\ rtcpfd[c] \in 0 .. MaxFd BY DEF SocketTypes
<1> QED BY <1>1, <1>2, <1>3

\* The order in which the destructors close.
LEMMA Positions ==
  ASSUME NEW i \in Nat
  PROVE  \A c \in Channels :
           /\ i = 0 => i <= 2 * c /\ i <= 2 * c + 1
           /\ i + 1 <= 2 * c => i <= 2 * c /\ i # 2 * c
           /\ i + 1 <= 2 * c + 1 => i <= 2 * c + 1 /\ i # 2 * c + 1
           /\ i = 2 * c => i < 2 * MaxChannels /\ i <= 2 * c
           /\ i = 2 * c + 1 => i < 2 * MaxChannels /\ i <= 2 * c + 1
           /\ i >= 2 * MaxChannels => ~(i <= 2 * c) /\ ~(i <= 2 * c + 1)
           /\ i <= 2 * c /\ i # 2 * c => i + 1 <= 2 * c
           /\ i <= 2 * c + 1 /\ i # 2 * c + 1 => i + 1 <= 2 * c + 1
<1> SUFFICES ASSUME NEW c \in Nat, c < MaxChannels
             PROVE  /\ i = 0 => i <= 2 * c /\ i <= 2 * c + 1
                    /\ i + 1 <= 2 * c => i <= 2 * c /\ i # 2 * c
                    /\ i + 1 <= 2 * c + 1 => i <= 2 * c + 1 /\ i # 2 * c + 1
                    /\ i = 2 * c => i < 2 * MaxChannels /\ i <= 2 * c
                    /\ i = 2 * c + 1 => i < 2 * MaxChannels /\ i <= 2 * c + 1
                    /\ i >= 2 * MaxChannels => ~(i <= 2 * c) /\ ~(i <= 2 * c + 1)
                    /\ i <= 2 * c /\ i # 2 * c => i + 1 <= 2 * c
                    /\ i <= 2 * c + 1 /\ i # 2 * c + 1 => i + 1 <= 2 * c + 1
  BY ChannelAssumption DEF Channels
<1> QED BY ChannelAssumption

LEMMA TransportStep ==
  ASSUME TypeOK, TransportInv, ClientInv, EndInv, [Next]_vars
  PROVE  TransportInv'
<1> USE NoneAssumption DEF TypeOK, SessionTypes, SocketTypes, TransportInv
<1>0. odd \subseteq odd' BY OddGrows
<1>1. CASE UNCHANGED <<connection, rtpfd, fds>> /\ agreed' \in {agreed, None_}
  BY <1>0, <1>1 DEF None_
<1>2. ASSUME NEW c \in Channels, NEW t \in Transports, NEW r, HandleCmdSetup(c, t, r)
      PROVE  TransportInv'
  <2>1. UNCHANGED <<session_id, rtp_conn, connection>> BY <1>2, SetupOutcomes DEF ending
  <2>2. CASE UNCHANGED <<sockets, client>> BY <1>0, <2>1, <2>2 DEF sockets, client
  <2>3. CASE BuildSetupRes(c, "multicast") /\ UNCHANGED sockets
    BY <1>0, <2>1, <2>3 DEF BuildSetupRes, sockets
  <2>4. ASSUME session_id \in Sessions \ Multicast, BuildSetupRes(c, "tcp"), SetupRtpOverTcp(c)
        PROVE  TransportInv'
    <3> SUFFICES ASSUME "sessions" \notin odd' PROVE TransportInv'
      OBVIOUS
    <3>1. rtp_conn # "group" BY <1>0, <2>4 DEF ClientInv
    <3>2. rtpfd' = [rtpfd EXCEPT ![c] = 1] /\ fds' = fds BY <2>4, <3>1 DEF SetupRtpOverTcp
    <3> QED BY <1>0, <2>1, <2>4, <3>2 DEF BuildSetupRes
  <2>5. ASSUME BuildSetupRes(c, "udp"), SetupRtpOverUdp(c)
        PROVE  TransportInv'
    <3>1. /\ First \in Fds /\ Second \in Fds /\ First # Second
          /\ fds[First] = "free" /\ fds[Second] = "free"
      BY <2>5, Fresh DEF SetupRtpOverUdp, Free
    <3>2. /\ rtpfd' = [rtpfd EXCEPT ![c] = First]
          /\ fds' = [fds EXCEPT ![First] = "rtp", ![Second] = "rtcp"]
      BY <2>5 DEF SetupRtpOverUdp
    <3>3. rtpfd'[c] > 0 /\ fds'[rtpfd'[c]] = "rtp" BY <3>1, <3>2, Numbers
    <3>4. \A f \in Fds : fds[f] = "rtp" => fds'[f] = "rtp" BY <3>1, <3>2
    <3>5. \A d \in Channels : rtpfd[d] > 0 => rtpfd[d] \in Fds BY Numbers
    <3>6. agreed' = [agreed EXCEPT ![c] = "udp"] BY <2>5 DEF BuildSetupRes
    <3> QED BY <1>0, <2>1, <3>2, <3>3, <3>4, <3>5, <3>6
  <2>6. CASE SetupRtpOverUdpFails(c)
    BY <2>6 DEF SetupRtpOverUdpFails
  <2> QED BY <1>2, <2>2, <2>3, <2>4, <2>5, <2>6, SetupOutcomes DEF SetupOutcome
<1>3. CASE OpenOther
  <2>1. First \in Free BY <1>3, Fresh DEF OpenOther
  <2>2. \A f \in Fds : fds[f] = "rtp" => fds'[f] = "rtp" BY <1>3, <2>1 DEF OpenOther, Free
  <2>3. \A d \in Channels : rtpfd[d] > 0 => rtpfd[d] \in Fds BY Numbers
  <2>4. UNCHANGED <<rtpfd, agreed, odd, connection>> BY <1>3 DEF OpenOther, client, ending
  <2> QED BY <2>2, <2>3, <2>4
<1>4. CASE Close \/ Destroy \/ CloseNext
  BY <1>4 DEF Close, Destroy, CloseNext
<1> QED BY <1>1, <1>2, <1>3, <1>4
        DEF Next, vars, AddSession, RemoveSession, Unauthorized, HandleCmdDescribe, HandleCmdPlay,
            HandleCmdOption, HandleCmdTeardown, HandleCmdGetParamter, SendRtpFails, sockets, client,
            ending

-----------------------------------------------------------------------------
(***************************************************************************)
(* Whose the descriptors are                                               *)
(***************************************************************************)

LEMMA OwnedStep ==
  ASSUME TypeOK, Owned, EndInv, [Next]_vars
  PROVE  Owned'
<1> SUFFICES ASSUME "no port" \notin odd'
             PROVE  Owned'
  BY DEF Owned
<1> USE DEF TypeOK
<1>0. "no port" \notin odd BY OddGrows
<1>n. /\ 1 \in Fds /\ 0 \notin Fds
      /\ \A c \in Channels : rtpfd[c] \in Fds \cup {0} /\ rtcpfd[c] \in Fds \cup {0}
  BY Numbers
<1>p. \A c \in Channels : (rtpfd[c] > 0 <=> rtpfd[c] # 0) /\ (rtcpfd[c] > 0 <=> rtcpfd[c] # 0)
  BY Numbers
<1>f. DOMAIN fds = Fds /\ DOMAIN rtpfd = Channels /\ DOMAIN rtcpfd = Channels BY DEF SocketTypes
<1>1. CASE /\ UNCHANGED <<rtpfd, rtcpfd, fds, closing, stray>>
           /\ connection' # "gone" => connection # "gone"
  BY <1>0, <1>1 DEF Owned, TcpPairs, RtpOwned, RtcpOwned, RtpApart, RtcpApart, OwnClosed
<1>2. ASSUME NEW c \in Channels, NEW t \in Transports, NEW r, HandleCmdSetup(c, t, r)
      PROVE  Owned'
  <2>1. connection' = "open" /\ closing' = closing /\ ~stray' /\ fds[1] = "rtsp"
    BY <1>2, SetupOutcomes DEF ending, EndInv
  <2>2. CASE UNCHANGED sockets
    <3>1. UNCHANGED <<connection, stray, closing>> BY <1>2, SetupOutcomes DEF ending
    <3> QED BY <1>1, <2>2, <3>1 DEF sockets
  <2>3. CASE /\ UNCHANGED fds
             /\ rtpfd' = [rtpfd EXCEPT ![c] = 1] /\ rtcpfd' = [rtcpfd EXCEPT ![c] = 1]
    <3> HIDE DEF TypeOK
    <3> USE <1>0, <1>n, <1>f, <2>1, <2>3 DEF Owned
    <3>1. TcpPairs' BY DEF TcpPairs
    <3>2. RtpOwned' BY DEF RtpOwned
    <3>3. RtcpOwned' BY DEF RtcpOwned
    <3>4. RtpApart' BY DEF RtpApart
    <3>5. RtcpApart' BY DEF RtcpApart
    <3>6. OwnClosed' BY DEF OwnClosed
    <3> QED BY <3>1, <3>2, <3>3, <3>4, <3>5, <3>6
  <2>4. CASE SetupRtpOverUdp(c)
    <3>1. /\ First \in Fds /\ Second \in Fds /\ First # Second
          /\ fds[First] = "free" /\ fds[Second] = "free"
      BY <2>4, Fresh DEF SetupRtpOverUdp, Free
    <3>2. /\ rtpfd' = [rtpfd EXCEPT ![c] = First] /\ rtcpfd' = [rtcpfd EXCEPT ![c] = Second]
          /\ fds' = [fds EXCEPT ![First] = "rtp", ![Second] = "rtcp"]
      BY <2>4 DEF SetupRtpOverUdp
    <3>3. First \notin {0, 1} /\ Second \notin {0, 1} BY <1>n, <2>1, <3>1
    <3>z. \A d \in Channels : closing <= 2 * d /\ closing <= 2 * d + 1
      <4>1. closing = 0 BY <1>2, SetupOutcomes DEF EndInv
      <4> QED BY <4>1, Positions
    <3> HIDE DEF TypeOK
    <3> USE <1>0, <1>n, <1>f, <2>1, <3>1, <3>2, <3>3 DEF Owned
    <3>4. TcpPairs' BY DEF TcpPairs
    <3>5. RtpOwned' BY DEF RtpOwned
    <3>6. RtcpOwned' BY DEF RtcpOwned
    <3>7. RtpApart' BY <3>z DEF RtpApart, RtpOwned
    <3>8. RtcpApart' BY <3>z DEF RtcpApart, RtcpOwned
    <3>9. OwnClosed' BY DEF OwnClosed
    <3> QED BY <3>4, <3>5, <3>6, <3>7, <3>8, <3>9
  <2>5. CASE SetupRtpOverUdpFails(c) BY <2>5 DEF SetupRtpOverUdpFails
  <2> QED BY <1>2, <2>2, <2>3, <2>4, <2>5, SetupOutcomes
          DEF SetupOutcome, SetupRtpOverTcp, sockets
<1>3. CASE OpenOther
  <2>1. First \in Fds /\ fds[First] = "free" BY <1>3, Fresh DEF OpenOther, Free
  <2>2. /\ fds' = [fds EXCEPT ![First] = "other"]
        /\ UNCHANGED <<rtpfd, rtcpfd, closing, stray, connection>>
    BY <1>3 DEF OpenOther, ending
  <2> QED BY <1>0, <1>n, <1>f, <2>1, <2>2
          DEF Owned, TcpPairs, RtpOwned, RtcpOwned, RtpApart, RtcpApart, OwnClosed
<1>4. CASE CloseNext
  <2>0. UNCHANGED <<rtpfd, rtcpfd>> /\ closing \in Nat /\ closing' = closing + 1
    BY <1>4 DEF CloseNext, CountTypes
  <2>1. /\ closing <= 2 * MaxChannels /\ connection = "destroying"
        /\ connection' = IF closing = 2 * MaxChannels THEN "gone" ELSE connection
    BY <1>4 DEF CloseNext, EndInv, Last
  <2>2. TcpPairs' /\ RtpApart' /\ RtcpApart'
    BY <1>0, <2>0 DEF Owned, TcpPairs, RtpApart, RtcpApart
  <2>3. \A d \in Channels : /\ closing' <= 2 * d => closing <= 2 * d /\ closing # 2 * d
                            /\ closing' <= 2 * d + 1 => closing <= 2 * d + 1 /\ closing # 2 * d + 1
    BY <2>0, Positions
  <2> HIDE DEF TypeOK
  <2>4. ASSUME NEW f \in Fds, CloseFd(f),
               \A d \in Channels : closing' <= 2 * d /\ rtpfd[d] \notin {0, 1} => rtpfd[d] # f,
               \A d \in Channels :
                 closing' <= 2 * d + 1 /\ rtcpfd[d] \notin {0, 1} => rtcpfd[d] # f,
               (\A d \in Channels : rtpfd[d] # 1) =>
                  fds[f] # "other" /\ (f = 1 => connection' = "gone")
        PROVE  RtpOwned' /\ RtcpOwned' /\ OwnClosed'
    <3> USE <1>0, <1>n, <1>f, <2>0, <2>1, <2>3, <2>4 DEF Owned, CloseFd
    <3>1. RtpOwned' BY DEF RtpOwned
    <3>2. RtcpOwned' BY DEF RtcpOwned
    <3>3. OwnClosed' BY DEF OwnClosed
    <3> QED BY <3>1, <3>2, <3>3
  <2>5. ASSUME UNCHANGED <<stray, fds>>
        PROVE  RtpOwned' /\ RtcpOwned' /\ OwnClosed'
    BY <1>0, <2>0, <2>1, <2>3, <2>5 DEF Owned, RtpOwned, RtcpOwned, OwnClosed
  <2>6. ASSUME NEW c \in Channels, closing = 2 * c, CloseChannel(rtpfd[c])
        PROVE  RtpOwned' /\ RtcpOwned' /\ OwnClosed'
    <3> DEFINE f == rtpfd[c]
    <3>1. closing <= 2 * c BY <2>0, <2>6, Positions
    <3>2. CASE f = 0
      BY <1>p, <2>5, <2>6, <3>2 DEF CloseChannel
    <3>3. CASE f # 0
      <4>1. CloseFd(f) /\ f \in Fds BY <1>n, <1>p, <2>6, <3>3 DEF CloseChannel
      <4>2. f # 1 => fds[f] = "rtp" BY <1>0, <3>1, <3>3 DEF Owned, RtpOwned
      <4>3. \A d \in Channels : closing' <= 2 * d /\ rtpfd[d] \notin {0, 1} => rtpfd[d] # f
        BY <1>0, <2>3, <2>6 DEF Owned, RtpApart
      <4>4. \A d \in Channels : closing' <= 2 * d + 1 /\ rtcpfd[d] \notin {0, 1} => rtcpfd[d] # f
        BY <1>0, <2>3, <4>2 DEF Owned, RtcpOwned
      <4> QED BY <2>4, <4>1, <4>2, <4>3, <4>4
    <3> QED BY <3>2, <3>3
  <2>7. ASSUME NEW c \in Channels, closing = 2 * c + 1, CloseChannel(rtcpfd[c])
        PROVE  RtpOwned' /\ RtcpOwned' /\ OwnClosed'
    <3> DEFINE f == rtcpfd[c]
    <3>1. closing <= 2 * c + 1 BY <2>0, <2>7, Positions
    <3>2. CASE f = 0
      BY <1>p, <2>5, <2>7, <3>2 DEF CloseChannel
    <3>3. CASE f # 0
      <4>1. CloseFd(f) /\ f \in Fds BY <1>n, <1>p, <2>7, <3>3 DEF CloseChannel
      <4>2. f # 1 => fds[f] = "rtcp" BY <1>0, <3>1, <3>3 DEF Owned, RtcpOwned
      <4>3. \A d \in Channels : closing' <= 2 * d + 1 /\ rtcpfd[d] \notin {0, 1} => rtcpfd[d] # f
        BY <1>0, <2>3, <2>7 DEF Owned, RtcpApart
      <4>4. \A d \in Channels : closing' <= 2 * d /\ rtpfd[d] \notin {0, 1} => rtpfd[d] # f
        BY <1>0, <2>3, <4>2 DEF Owned, RtpOwned
      <4>5. f = 1 => rtpfd[c] = 1 BY <1>0 DEF Owned, TcpPairs
      <4> QED BY <2>4, <4>1, <4>2, <4>3, <4>4, <4>5
    <3> QED BY <3>2, <3>3
  <2>8. ASSUME closing >= 2 * MaxChannels, CloseFd(1)
        PROVE  RtpOwned' /\ RtcpOwned' /\ OwnClosed'
    <3>0. closing = 2 * MaxChannels
      <4>1. closing \in Nat /\ closing <= 2 * MaxChannels BY <2>0, <2>1
      <4> QED BY ONLY <2>8, <4>1, ChannelAssumption
    <3>1. connection' = "gone" BY <2>1, <3>0
    <3>2. (\A d \in Channels : rtpfd[d] # 1) => fds[1] = "rtsp"
      BY <1>0, <2>1 DEF Owned, OwnClosed
    <3> QED BY <1>n, <2>4, <2>8, <3>1, <3>2
  <2> QED BY <1>0, <1>4, <2>2, <2>6, <2>7, <2>8 DEF CloseNext, Owned
<1> QED BY <1>1, <1>2, <1>3, <1>4
        DEF Next, vars, AddSession, RemoveSession, Unauthorized, HandleCmdDescribe, HandleCmdPlay,
            HandleCmdOption, HandleCmdTeardown, HandleCmdGetParamter, SendRtpFails, Close, Destroy,
            sockets, ending

LEMMA AccountedStep ==
  ASSUME TypeOK, Accounted, EndInv, [Next]_vars
  PROVE  Accounted'
<1> SUFFICES ASSUME "replaced" \notin odd'
             PROVE  Accounted'
  BY DEF Accounted
<1> USE DEF TypeOK
<1>0. "replaced" \notin odd BY OddGrows
<1>n. /\ 0 \notin Fds /\ watched \subseteq Fds
      /\ \A c \in Channels : rtpfd[c] \in Fds \cup {0} /\ rtcpfd[c] \in Fds \cup {0}
  BY Numbers DEF SocketTypes
<1>f. /\ DOMAIN fds = Fds /\ DOMAIN rtpfd = Channels /\ DOMAIN rtcpfd = Channels
      /\ DOMAIN rtcp_channels = Channels
  BY DEF SocketTypes
<1>1. CASE UNCHANGED <<rtpfd, rtcpfd, rtcp_channels, watched, fds, closing, connection>>
  BY <1>0, <1>1 DEF Accounted, RtpAccounted, RtcpAccounted, WatchedAccounted, HasRtp
<1>2. ASSUME NEW c \in Channels, NEW t \in Transports, NEW r, HandleCmdSetup(c, t, r)
      PROVE  Accounted'
  <2>1. connection = "open" /\ UNCHANGED <<connection, closing>>
    BY <1>2, SetupOutcomes DEF ending
  <2>2. CASE UNCHANGED sockets BY <1>1, <2>1, <2>2 DEF sockets
  <2>3. ASSUME Replaces(c) \subseteq odd'
        PROVE  ~HasRtp(c)
    BY <1>n, <2>3 DEF Replaces, HasRtp
  <2>4. ASSUME ~HasRtp(c), UNCHANGED <<fds, rtcp_channels, watched>>,
               \A d \in Channels : d # c => rtpfd'[d] = rtpfd[d] /\ rtcpfd'[d] = rtcpfd[d]
        PROVE  Accounted'
    <3> HIDE DEF TypeOK
    <3> USE <1>0, <1>n, <1>f, <2>1, <2>4 DEF Accounted
    <3>1. \A d \in Channels : HasRtp(d) => d # c /\ HasRtp(d)' BY DEF HasRtp
    <3>2. RtpAccounted' BY DEF RtpAccounted, HasRtp
    <3>3. RtcpAccounted' BY <3>1 DEF RtcpAccounted
    <3>4. WatchedAccounted' BY <3>1 DEF WatchedAccounted
    <3> QED BY <3>2, <3>3, <3>4
  <2>5. CASE SetupRtpOverUdp(c)
    <3>1. /\ First \in Fds /\ Second \in Fds /\ First # Second
          /\ fds[First] = "free" /\ fds[Second] = "free"
      BY <2>5, Fresh DEF SetupRtpOverUdp, Free
    <3>2. /\ rtpfd' = [rtpfd EXCEPT ![c] = First] /\ rtcpfd' = [rtcpfd EXCEPT ![c] = Second]
          /\ fds' = [fds EXCEPT ![First] = "rtp", ![Second] = "rtcp"]
          /\ rtcp_channels' = [rtcp_channels EXCEPT ![c] = Second]
          /\ watched' = watched \cup {Second}
      BY <2>5 DEF SetupRtpOverUdp
    <3>3. ~HasRtp(c) BY <2>3, <2>5 DEF SetupRtpOverUdp
    <3>4. closing <= 2 * c /\ closing <= 2 * c + 1
      <4>1. closing = 0 BY <2>1 DEF EndInv
      <4> QED BY <4>1, Positions
    <3> HIDE DEF TypeOK
    <3> USE <1>0, <1>n, <1>f, <2>1, <3>1, <3>2, <3>3, <3>4 DEF Accounted
    <3>5. HasRtp(c)' /\ \A d \in Channels : HasRtp(d) => d # c /\ HasRtp(d)' BY DEF HasRtp
    <3>6. RtpAccounted' BY DEF RtpAccounted, HasRtp
    <3>7. RtcpAccounted' BY <3>5 DEF RtcpAccounted
    <3>8. WatchedAccounted' BY <3>5 DEF WatchedAccounted
    <3> QED BY <3>6, <3>7, <3>8
  <2>6. CASE SetupRtpOverUdpFails(c)
    <3>1. ~HasRtp(c) BY <2>3, <2>6 DEF SetupRtpOverUdpFails
    <3> QED BY <1>f, <2>4, <2>6, <3>1 DEF SetupRtpOverUdpFails
  <2>7. CASE SetupRtpOverTcp(c)
    <3>1. CASE rtp_conn = "group" BY <2>2, <2>7, <3>1 DEF SetupRtpOverTcp
    <3>2. CASE rtp_conn # "group"
      <4>1. ~HasRtp(c) BY <2>3, <2>7, <3>2 DEF SetupRtpOverTcp
      <4> QED BY <1>f, <2>4, <2>7, <3>2, <4>1 DEF SetupRtpOverTcp
    <3> QED BY <3>1, <3>2
  <2> QED BY <1>2, <2>2, <2>5, <2>6, <2>7, SetupOutcomes DEF SetupOutcome, sockets
<1>3. CASE OpenOther
  <2>1. First \in Fds /\ fds[First] = "free" BY <1>3, Fresh DEF OpenOther, Free
  <2>2. /\ fds' = [fds EXCEPT ![First] = "other"]
        /\ UNCHANGED <<rtpfd, rtcpfd, rtcp_channels, watched, closing, connection>>
    BY <1>3 DEF OpenOther, ending
  <2> HIDE DEF TypeOK
  <2> USE <1>0, <1>n, <1>f, <2>1, <2>2 DEF Accounted
  <2>3. \A d \in Channels : HasRtp(d) => HasRtp(d)' BY DEF HasRtp
  <2>4. RtpAccounted' BY DEF RtpAccounted
  <2>5. RtcpAccounted' BY <2>3 DEF RtcpAccounted
  <2>6. WatchedAccounted' BY <2>3 DEF WatchedAccounted
  <2> QED BY <2>4, <2>5, <2>6
<1>4. CASE CloseNext
  <2>1. /\ UNCHANGED <<rtpfd, rtcpfd, rtcp_channels, watched>>
        /\ connection = "destroying" /\ connection' # "open"
    BY <1>4 DEF CloseNext
  <2>2. closing \in Nat /\ closing' = closing + 1
    BY <1>4 DEF CloseNext, CountTypes
  <2>3. \A d \in Channels : /\ closing <= 2 * d /\ closing # 2 * d => closing' <= 2 * d
                            /\ closing <= 2 * d + 1 /\ closing # 2 * d + 1 => closing' <= 2 * d + 1
    BY <2>2, Positions
  <2>4. PICK f \in Fds \cup {0} :
          /\ \A g \in Fds : IF g = f THEN fds'[g] = "free" ELSE fds'[g] = fds[g]
          /\ \A d \in Channels : closing = 2 * d => rtpfd[d] = f
          /\ \A d \in Channels : closing = 2 * d + 1 => rtcpfd[d] = f
    <3> DEFINE Closes(f) == /\ \A g \in Fds : fds'[g] = IF g = f THEN "free" ELSE fds[g]
                            /\ \A d \in Channels : closing = 2 * d => rtpfd[d] = f
                            /\ \A d \in Channels : closing = 2 * d + 1 => rtcpfd[d] = f
    <3> SUFFICES \E f \in Fds \cup {0} : Closes(f)
      OBVIOUS
    <3>1. \A c, d \in Channels : (2 * c = 2 * d => c = d) /\ 2 * c # 2 * d + 1
                                 /\ (2 * c + 1 = 2 * d + 1 => c = d)
      BY ChannelAssumption DEF Channels
    <3>2. ASSUME NEW f \in Fds \cup {0}, CloseChannel(f), f > 0 <=> f # 0
          PROVE  \A g \in Fds : fds'[g] = IF g = f THEN "free" ELSE fds[g]
      BY <1>n, <1>f, <3>2 DEF CloseChannel, CloseFd
    <3>3. \A c \in Channels : /\ rtpfd[c] \in Fds \cup {0} /\ (rtpfd[c] > 0 <=> rtpfd[c] # 0)
                              /\ rtcpfd[c] \in Fds \cup {0} /\ (rtcpfd[c] > 0 <=> rtcpfd[c] # 0)
      BY Numbers
    <3>4. ASSUME NEW c \in Channels, closing = 2 * c, CloseChannel(rtpfd[c])
          PROVE  Closes(rtpfd[c])
      BY <3>1, <3>2, <3>3, <3>4
    <3>5. ASSUME NEW c \in Channels, closing = 2 * c + 1, CloseChannel(rtcpfd[c])
          PROVE  Closes(rtcpfd[c])
      BY <3>1, <3>2, <3>3, <3>5
    <3>6. ASSUME closing >= 2 * MaxChannels, CloseFd(1)
          PROVE  1 \in Fds /\ Closes(1)
      <4>1. \A d \in Channels : closing # 2 * d /\ closing # 2 * d + 1
        BY <2>2, <3>6, Positions
      <4> QED BY <1>f, <3>6, <4>1, Numbers DEF CloseFd
    <3> QED BY <1>4, <3>3, <3>4, <3>5, <3>6 DEF CloseNext
  <2> HIDE DEF TypeOK
  <2> USE <1>0, <1>n, <1>f, <2>1, <2>3, <2>4 DEF Accounted
  <2>5. RtpAccounted' BY DEF RtpAccounted
  <2>6. RtcpAccounted' BY DEF RtcpAccounted
  <2>7. WatchedAccounted' BY DEF WatchedAccounted
  <2> QED BY <2>5, <2>6, <2>7
<1>5. CASE Close
  <2> USE <1>0, <1>5 DEF Close, OnClose, Accounted
  <2>1. RtpAccounted' BY DEF RtpAccounted
  <2>2. RtcpAccounted' BY DEF RtcpAccounted
  <2>3. WatchedAccounted' BY DEF WatchedAccounted
  <2> QED BY <2>1, <2>2, <2>3
<1>6. CASE Destroy
  BY <1>0, <1>6 DEF Destroy, sockets, Accounted, RtpAccounted, RtcpAccounted, WatchedAccounted
<1> QED BY <1>1, <1>2, <1>3, <1>4, <1>5, <1>6
        DEF Next, vars, AddSession, RemoveSession, Unauthorized, HandleCmdDescribe, HandleCmdPlay,
            HandleCmdOption, HandleCmdTeardown, HandleCmdGetParamter, SendRtpFails,
            sockets, ending

-----------------------------------------------------------------------------
(***************************************************************************)
(* The theorems                                                            *)
(***************************************************************************)

LEMMA AtFirst == Init => IInv
<1> SUFFICES ASSUME Init PROVE IInv OBVIOUS
<1>1. TypeOK BY TypesAtFirst
<1> USE DEF Init
<1>2. AuthInv BY AuthAssumption DEF AuthInv
<1>3. EndInv BY FdAssumption DEF EndInv, Fds
<1>4. ClientInv BY SessionAssumption, NoneAssumption DEF ClientInv
<1>5. AgreedInv BY NoneAssumption DEF AgreedInv, Own, None_
<1>6. TransportInv BY NoneAssumption DEF TransportInv, None_
<1>7. Owned
  BY FdAssumption
     DEF Owned, TcpPairs, RtpOwned, RtcpOwned, RtpApart, RtcpApart, OwnClosed, Zero, Fds
<1>8. Accounted BY DEF Accounted, RtpAccounted, RtcpAccounted, WatchedAccounted, Zero
<1> QED BY <1>1, <1>2, <1>3, <1>4, <1>5, <1>6, <1>7, <1>8 DEF IInv

LEMMA Inductive == IInv /\ [Next]_vars => IInv'
  BY TypesStep, AuthStep, EndStep, ClientStep, AgreedStep, TransportStep, OwnedStep, AccountedStep
     DEF IInv

LEMMA Invariant == Spec => []IInv
  BY AtFirst, Inductive, PTL DEF Spec

\* Every variable keeps its type, for all sessions, numbers of channels, nonces and descriptors.
THEOREM TypeCorrect == Spec => []TypeOK
<1>1. IInv => TypeOK BY DEF IInv
<1> QED BY <1>1, Invariant, PTL

\* Whoever gets anything of a session has answered the last nonce (HandleAuthentication).
THEOREM OnlyAuthorised == Spec => []MediaOnlyAuthorised
<1>1. IInv => MediaOnlyAuthorised
  BY DEF IInv, TypeOK, FlagTypes, AuthInv, MediaOnlyAuthorised
<1> QED BY <1>1, Invariant, PTL

\* What PLAY promised plays, over the transport of SETUP, with the exceptions the property has.
THEOREM PromisesKept == Spec => []StreamsAsAgreed
<1>1. ASSUME IInv PROVE StreamsAsAgreed
  <2> USE <1>1, NoneAssumption DEF IInv, TypeOK
  <2> SUFFICES ASSUME connection = "open", ~rtp.closed, odd \cap {"sessions", "no port"} = {},
                      ~({"tcp", "udp"} \subseteq {agreed[c] : c \in Channels}),
                      NEW c \in Channels, promised[c] # None
               PROVE  /\ promised[c] = "multicast" \/ c \in rtp.play
                      /\ promised[c] = agreed[c] => Streams(c, promised[c])
    BY DEF StreamsAsAgreed
  <2>1. promised[c] \in {"tcp", "udp", "multicast"} BY DEF SessionTypes
  <2>2. promised[c] = "multicast" \/ c \in rtp.play BY <2>1 DEF AgreedInv, Own
  <2>3. ASSUME agreed[c] \in Own PROVE agreed[c] = rtp.mode
    BY <2>3 DEF AgreedInv, Own, SessionTypes, RtpTypes
  <2>4. CASE promised[c] = "multicast" BY <2>2, <2>4 DEF AgreedInv, Streams
  <2>5. CASE promised[c] = "tcp" BY <2>2, <2>3, <2>5 DEF TransportInv, Own, Streams
  <2>6. CASE promised[c] = "udp" BY <2>2, <2>3, <2>6 DEF TransportInv, Own, Streams
  <2> QED BY <2>1, <2>2, <2>4, <2>5, <2>6
<1> QED BY <1>1, Invariant, PTL

\* The end of a connection that has no channel over TCP closes nobody else's descriptor,
\* unless a socket found no port (~RtpConnection, ~TcpConnection).
THEOREM OnlyOwnClosed == Spec => []StrayCloseOnlyIf
<1>1. IInv => StrayCloseOnlyIf BY DEF IInv, Owned, OwnClosed, StrayCloseOnlyIf
<1> QED BY <1>1, Invariant, PTL

\* A connection that is gone leaves no socket, no watched channel and no client behind, with
\* the exceptions the property has (OnClose and the destructors).
THEOREM EndLeavesNothing == Spec => []NothingLeft
<1>1. ASSUME IInv PROVE NothingLeft
  <2> SUFFICES ASSUME connection = "gone" PROVE NothingLeft
    BY DEF NothingLeft
  <2> USE <1>1 DEF IInv, TypeOK
  <2>1. closing = 2 * MaxChannels + 1 BY DEF EndInv
  <2>2. \A c \in Channels : ~(closing <= 2 * c) /\ ~(closing <= 2 * c + 1)
    BY <2>1, ChannelAssumption DEF Channels
  <2>3. ASSUME "replaced" \notin odd, NEW f \in Fds
        PROVE  fds[f] \in {"free", "other"}
    <3>1. fds[f] \in {"rtsp", "rtp", "rtcp", "other", "free"} BY DEF SocketTypes
    <3>2. fds[f] # "rtsp" BY DEF EndInv
    <3> QED BY <2>2, <2>3, <3>1, <3>2 DEF Accounted, RtpAccounted, RtcpAccounted
  <2>4. "replaced" \notin odd => watched = {} BY DEF Accounted, WatchedAccounted
  <2>5. "sessions" \notin odd => clients = {} BY DEF ClientInv
  <2> QED BY <2>3, <2>4, <2>5 DEF NothingLeft
<1> QED BY <1>1, Invariant, PTL

=============================================================================
