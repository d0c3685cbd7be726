------------------------- MODULE MediaSessionProofs -------------------------
(***************************************************************************)
(* The safety invariants of MediaSession, proved for any connections,      *)
(* packets, frames and places.  Two orders carry them: clients_ forgets a  *)
(* connection before its removal is posted, and the FIFO runs the sends    *)
(* that were posted before ahead of the removal; and the pusher holds      *)
(* map_mutex_ from the look at clients_ to the last post of a packet.      *)
(***************************************************************************)
EXTENDS MediaSession, TLAPS, SequenceTheorems, WellFoundedInduction

\* The FIFO, with the lemmas about it.
Fifo == INSTANCE TriggerQueueProofs

Loops   == {"triggers", "called", "timers", "poll", "add", "remove", "ask", "crashed"}
Locking == {"visit", "post", "groups"}     \* where the pusher has map_mutex_
Leaving == {"remove", "ask"}               \* where the loop is about to post a removal

ConnType ==
  /\ client \in [Conns -> {"open", "closed", "gone"}]
  /\ rtp_conn \in [Conns -> Rtps \cup {None}]
  /\ \A c \in Conns : rtp_conn[c] \in {None, c} \cup Groups
  /\ waiting \in [Conns -> 0 .. WriteLimit]
  /\ loop \in Loops /\ current \in Conns \cup {None} /\ timers \subseteq Conns

PushType ==
  /\ clients \subseteq Conns /\ is_multicast \in BOOLEAN
  /\ map_mutex \in {"nobody", "pusher"} /\ owner \in {"setup", "pushing", "removed"}
  /\ pusher \in {"idle", "packet"} \cup Locking
  /\ todo \subseteq Rtps /\ held \in Conns \cup {None}

PlayType ==
  /\ transport \in [Rtps -> {"none", "tcp", "udp", "multicast"}]
  /\ \A r \in Rtps : transport[r] = "multicast" <=> r \in Groups
  /\ \A c \in Conns : transport[c] \in {"none", Mode[c]}
  /\ is_play \subseteq Rtps /\ rtp_closed \subseteq Conns /\ has_key \subseteq Rtps

Seqs == 0 .. SeqModulus - 1
Sent == [seq : Seqs, pkt : Packets, kept : BOOLEAN]
Item(r, p, keeps) == [seq |-> packet_seq[r], pkt |-> p, kept |-> keeps]

SentType == packet_seq \in [Rtps -> Seqs] /\ sent \in [Rtps -> Seq(Sent)]

PacketType ==
  /\ packet \in 1 .. NumPackets + 1
  /\ pusher # "idle" => packet \in Packets

TypeInv == ConnType /\ PushType /\ PlayType /\ SentType /\ PacketType /\ Fifo!TypeOK

\* A connection and its removal.
ConnInv ==
  /\ loop \in {"add"} \cup Leaving => current \in Conns
  /\ loop = "add" => client[current] = "open" /\ rtp_conn[current] # None
  /\ loop \in Leaving => client[current] = "closed"
  /\ \A c \in Conns :
       /\ client[c] = "open" => fate[RemoveEvent(c)] = "new"
       /\ loop \in Leaving /\ current = c => fate[RemoveEvent(c)] = "new"
       /\ fate[RemoveEvent(c)] = "queued" \/ c \in timers => client[c] = "closed"
       /\ c \in timers => fate[RemoveEvent(c)] = "refused"
       /\ rtp_conn[c] \in Groups => is_multicast

\* clients_ forgets a connection before its removal is asked for.
ClientInv ==
  \A c \in clients :
    /\ rtp_conn[c] # None
    /\ Registered => client[c] = "open" \/ (loop = "remove" /\ current = c)

\* What the pusher has seen under map_mutex_ stays true.
PushInv ==
  /\ map_mutex = "pusher" <=> pusher \in Locking
  /\ pusher # "idle" => owner = "pushing"
  /\ pusher \in {"visit", "post"} => todo \subseteq clients
  /\ pusher = "groups" => is_multicast /\ todo \subseteq Groups
  /\ IF pusher = "post" THEN held \in clients /\ rtp_conn[held] = held ELSE held = None

\* Sends go to RtpConnections of their own that are not gone, and to groups.
SendInv ==
  /\ \A c \in Conns, p \in Packets :
       /\ Offered(c, p) => rtp_conn[c] = c
       /\ fate[SendEvent(c, p)] = "queued" =>
            client[c] # "gone" /\ ~(loop = "timers" /\ c \in timers)
  /\ \A g \in Groups, p \in Packets : Offered(g, p) => is_multicast

\* Sends are ahead of the removal, and of later sends to the same RtpConnection.
OrderInv ==
  /\ \A c \in Conns, p \in Packets :
       fate[SendEvent(c, p)] = "queued" /\ fate[RemoveEvent(c)] = "queued" =>
         Fifo!Before(SendEvent(c, p), RemoveEvent(c))
  /\ \A r \in Rtps, p, q \in Packets :
       p < q /\ fate[SendEvent(r, p)] = "queued" /\ fate[SendEvent(r, q)] = "queued" =>
         Fifo!Before(SendEvent(r, p), SendEvent(r, q))

RanInv ==
  \A r \in Rtps, p, q \in Packets :
    fate[SendEvent(r, p)] = "ran" /\ fate[SendEvent(r, q)] = "queued" => p < q

OfferedInv ==
  \A r \in Rtps, p \in Packets :
    Offered(r, p) => p <= packet /\ (p = packet => pusher \in Locking)

\* What was sent, and the sequence number that comes next.
SentInv ==
  \A r \in Rtps : \A i \in 1 .. Len(sent[r]) :
    /\ fate[SendEvent(r, sent[r][i].pkt)] = "ran"
    /\ i > 1 => sent[r][i].pkt > sent[r][i - 1].pkt

\* Only the write buffer refuses.
KeptInv ==
  \A r \in Rtps : \A i \in 1 .. Len(sent[r]) : ~sent[r][i].kept => transport[r] = "tcp"

Counts(r) == r \in Conns \ rtp_closed /\ (transport[r] # "tcp" \/ client[r] = "open")

InSequence(r) ==
  Len(sent[r]) > 0 =>
    /\ r \notin rtp_closed => \A i \in 2 .. Len(sent[r]) :
         sent[r][i].seq = (sent[r][i - 1].seq + 1) % SeqModulus
    /\ Counts(r) => packet_seq[r] = (sent[r][Len(sent[r])].seq + 1) % SeqModulus

SeqInv == \A r \in Conns : InSequence(r)

\* A client that was offered a packet is in clients_ as long as it is open, and each
\* later packet is offered to it, or about to be.
Served(c) == client[c] = "open" /\ c \notin rtp_closed

ServedInv ==
  \A c \in Conns, p \in Packets : client[c] = "open" /\ Offered(c, p) => c \in clients

OfferInv ==
  \A c \in Conns, p, q \in Packets :
    Served(c) /\ Offered(c, p) /\ p < q =>
      /\ q < packet => Offered(c, q)
      /\ q = packet /\ pusher \in Locking => c \in todo \/ held = c \/ Offered(c, q)

IInv == /\ TypeInv /\ ConnInv /\ ClientInv /\ PushInv /\ SendInv /\ OrderInv /\ RanInv
        /\ OfferedInv /\ SentInv /\ KeptInv /\ SeqInv /\ ServedInv /\ OfferInv
        /\ Fifo!FifoInv

-----------------------------------------------------------------------------
(***************************************************************************)
(* Events, numbers, and the steps                                          *)
(***************************************************************************)

LEMMA EventsDiffer ==
  /\ \A c \in Conns : RemoveEvent(c) \in Events
  /\ \A r \in Rtps, p \in Packets : SendEvent(r, p) \in Events
  /\ \A c, d \in Conns : RemoveEvent(c) = RemoveEvent(d) => c = d
  /\ \A r, s \in Rtps, p, q \in Packets :
       SendEvent(r, p) = SendEvent(s, q) => r = s /\ p = q
  /\ \A c \in Conns, r \in Rtps, p \in Packets : RemoveEvent(c) # SendEvent(r, p)
  /\ NoEvent \notin Events
BY NameAssumption DEF Events, SendEvent, RemoveEvent

LEMMA LeastExists ==
  ASSUME NEW S, S \subseteq Nat, S # {}
  PROVE  Min(S) \in S
<1> DEFINE Less == {p \in Nat \X Nat : p[1] < p[2]}
<1>1. \E x \in S : \A y \in S : ~(<<y, x>> \in Less)
  BY NatLessThanWellFounded, WFMin DEF OpToRel
<1>2. \A x, y \in S : ~(<<y, x>> \in Less) => x <= y
  <2>1. \A x, y \in Nat : <<y, x>> \in Less <=> y < x
    OBVIOUS
  <2> HIDE DEF Less
  <2> QED
    BY <2>1
<1>3. \E x \in S : \A y \in S : x <= y
  BY <1>1, <1>2
<1> QED
  BY <1>3 DEF Min

\* The next frame begins after this packet.
LEMMA NextFrameLater ==
  ASSUME packet \in Packets
  PROVE  NextFrame \in 1 .. NumPackets + 1 /\ NextFrame > packet
<1> DEFINE S == {p \in LastPackets : p >= packet}
<1>1. NumPackets >= packet
  BY PacketAssumption DEF Packets
<1>2. NumPackets \in S
  BY <1>1, PacketAssumption
<1>3. Min(S) \in S
  <2>1. 1 .. NumPackets \subseteq Nat
    BY PacketAssumption
  <2>2. S \subseteq Nat
    BY <2>1, PacketAssumption DEF Packets
  <2> QED
    BY <1>2, <2>2, LeastExists
<1>4. Min(S) \in 1 .. NumPackets /\ Min(S) >= packet
  BY <1>3, PacketAssumption DEF Packets
<1>5. NextFrame = 1 + Min(S)
  BY DEF NextFrame
<1> QED
  BY <1>4, <1>5, PacketAssumption DEF Packets

LEMMA FirstSeq == Min(FirstSeqs) \in Seqs
<1>1. FirstSeqs \subseteq Nat /\ FirstSeqs # {}
  BY SeqAssumption
<1> QED
  BY <1>1, LeastExists, SeqAssumption DEF Seqs

OwnerWorks == StartMulticast \/ StartUnicast \/ RemoveSession

\* Fifo has the steps of Sched.
LEMMA SchedIsFifo ==
  /\ \A e : (Sched!Post(e) <=> Fifo!Post(e)) /\ (Sched!TurnAway(e) <=> Fifo!TurnAway(e))
  /\ (Sched!Take <=> Fifo!Take) /\ (Sched!Release <=> Fifo!Release)
  /\ (Sched!Finish <=> Fifo!Finish)
  /\ UNCHANGED scheduled => UNCHANGED Fifo!vars
BY DEF scheduled, Sched!Post, Sched!TurnAway, Sched!PlacesTaken, Sched!Take, Sched!Release,
       Sched!Finish, Fifo!vars, Fifo!Post, Fifo!TurnAway, Fifo!PlacesTaken, Fifo!Take,
       Fifo!Release, Fifo!Finish

\* Every step is a step of the FIFO, or does not touch it.
LEMMA ScheduledStep ==
  ASSUME ConnType, PushType, PacketType, ConnInv, PushInv, [Next]_vars
  PROVE  [Fifo!Next]_(Fifo!vars)
<1>1. CASE \/ OwnerWorks \/ PushFrame \/ NobodyListens \/ BeginPacket \/ BeginGroups
           \/ EndPacket \/ \E c \in Conns : SkipClient(c) \/ VisitClient(c)
  BY <1>1, SchedIsFifo DEF OwnerWorks, StartMulticast, StartUnicast, RemoveSession, PushFrame,
     NobodyListens, BeginPacket, BeginGroups, EndPacket, SkipClient, VisitClient
<1>2. ASSUME NEW r \in Rtps, packet \in Packets, PostTo(r) PROVE Fifo!Next
  BY <1>2, SchedIsFifo, EventsDiffer DEF PostTo, Fifo!Next
<1>3. CASE PostPacket
  BY <1>2, <1>3 DEF PostPacket, PacketType, PushType, PushInv, Rtps
<1>4. ASSUME NEW g \in Groups, PostToGroup(g) PROVE Fifo!Next
  BY <1>2, <1>4 DEF PostToGroup, PacketType, Rtps
<1>5. CASE Requests
  BY <1>5, SchedIsFifo DEF Requests, Describe, Setup, Play, Teardown, Answer, HandleWrite,
     HangUp, requestOnly
<1>6. CASE AskRemoval
  BY <1>6, SchedIsFifo, EventsDiffer DEF AskRemoval, ConnInv, Leaving, Fifo!Next
<1>7. CASE TakeEvent \/ ReleasePlace \/ FinishEvent \/ \E c \in Conns : RunRemove(c)
  BY <1>7, SchedIsFifo DEF TakeEvent, ReleasePlace, FinishEvent, RunRemove, Fifo!Next
<1>8. CASE \E r \in Rtps, p \in Packets :
             SendNothing(r, p) \/ SendPacket(r, p) \/ UdpFails(r, p) \/ StraySend(r, p)
  BY <1>8, SchedIsFifo DEF SendNothing, SendPacket, UdpFails, StraySend, Fifo!Next
<1>9. CASE \/ AddClient \/ RemoveClient \/ TriggersDone \/ TimersDone \/ PollDone
           \/ \E c \in Conns : TimerRemoves(c) \/ \E p \in Packets : TcpFails(c, p)
  BY <1>9, SchedIsFifo DEF AddClient, RemoveClient, TriggersDone, TimersDone, PollDone,
     TimerRemoves, TcpFails
<1>10. CASE UNCHANGED vars
  BY <1>10, SchedIsFifo DEF vars
<1> QED
  BY <1>1, <1>3, <1>4, <1>5, <1>6, <1>7, <1>8, <1>9, <1>10
  DEF Next, PusherWorks, SchedulerWorks, OwnerWorks

-----------------------------------------------------------------------------
(***************************************************************************)
(* Types                                                                   *)
(***************************************************************************)

LEMMA ConnTypeStep ==
  ASSUME ConnType, PushType, ConnInv, [Next]_vars
  PROVE  ConnType'
<1> USE DEF ConnType, Loops
<1>1. CASE OwnerWorks \/ PushFrame \/ NobodyListens \/ PusherWorks
  BY <1>1 DEF OwnerWorks, StartMulticast, StartUnicast, RemoveSession, PushFrame, NobodyListens,
     PusherWorks, BeginPacket, PostPacket, BeginGroups, EndPacket, SkipClient, VisitClient,
     PostToGroup, pushOnly, conn, scheduler
<1>2. ASSUME NEW c \in Conns, Describe(c) PROVE ConnType'
  BY <1>2, NameAssumption DEF Describe, requestOnly, Rtps
<1>3. ASSUME NEW c \in Conns,
             Setup(c) \/ Play(c) \/ Teardown(c) \/ Answer(c) \/ HandleWrite(c)
      PROVE  ConnType'
  BY <1>3 DEF Setup, Play, Teardown, Answer, HandleWrite, Send, requestOnly
<1>4. ASSUME NEW c \in Conns, HangUp(c) \/ \E p \in Packets : TcpFails(c, p) PROVE ConnType'
  BY <1>4, WriteAssumption DEF HangUp, TcpFails, BeginClose, requestOnly
<1>5. CASE AddClient \/ RemoveClient \/ FinishEvent \/ TriggersDone \/ TimersDone \/ PollDone
  BY <1>5 DEF AddClient, RemoveClient, FinishEvent, TriggersDone, TimersDone, PollDone,
     Send, schedOnly, conn
<1>6. CASE AskRemoval
  BY <1>6 DEF AskRemoval, ConnInv, Leaving, conn
<1>7. CASE TakeEvent \/ ReleasePlace
  BY <1>7 DEF TakeEvent, ReleasePlace, schedOnly, conn, scheduler
<1>8. ASSUME NEW c \in Conns, RunRemove(c) \/ TimerRemoves(c) PROVE ConnType'
  BY <1>8 DEF RunRemove, TimerRemoves, Destroy, scheduler
<1>9. ASSUME NEW r \in Rtps, NEW p \in Packets,
             SendNothing(r, p) \/ SendPacket(r, p) \/ UdpFails(r, p) \/ StraySend(r, p)
      PROVE  ConnType'
  BY <1>9 DEF SendNothing, SendPacket, SendRtpOverUdp, SendRtpOverTcp, Send, UdpFails,
     StraySend, schedOnly, conn, scheduler
<1>10. CASE UNCHANGED vars
  BY <1>10 DEF vars, conn, scheduler
<1> QED
  BY <1>1, <1>2, <1>3, <1>4, <1>5, <1>6, <1>7, <1>8, <1>9, <1>10
  DEF Next, Requests, SchedulerWorks, OwnerWorks

LEMMA PushTypeStep ==
  ASSUME ConnType, PushType, ConnInv, [Next]_vars
  PROVE  PushType'
<1> USE DEF PushType, Locking
<1>1. CASE OwnerWorks \/ PushFrame \/ NobodyListens
  BY <1>1 DEF OwnerWorks, StartMulticast, StartUnicast, RemoveSession, PushFrame, NobodyListens,
     pushOnly, push
<1>2. CASE BeginPacket \/ PostPacket \/ BeginGroups \/ EndPacket
  BY <1>2 DEF BeginPacket, PostPacket, BeginGroups, EndPacket, pushOnly, Rtps
<1>3. ASSUME NEW c \in Conns, SkipClient(c) PROVE PushType'
  BY <1>3 DEF SkipClient, pushOnly
<1>4. ASSUME NEW c \in Conns, VisitClient(c) PROVE PushType'
  BY <1>4 DEF VisitClient, Skips, pushOnly, ConnType
<1>5. ASSUME NEW g \in Groups, PostToGroup(g) PROVE PushType'
  BY <1>5 DEF PostToGroup, pushOnly
<1>6. CASE Requests
  BY <1>6 DEF Requests, Describe, Setup, Play, Teardown, Answer, HandleWrite, HangUp,
     requestOnly, session, push
<1>7. CASE AddClient \/ RemoveClient
  BY <1>7 DEF AddClient, RemoveClient, ConnInv, Leaving, push
<1>8. CASE AskRemoval \/ TakeEvent \/ ReleasePlace \/ FinishEvent \/ TriggersDone \/ TimersDone
           \/ PollDone
  BY <1>8 DEF AskRemoval, TakeEvent, ReleasePlace, FinishEvent, TriggersDone, TimersDone,
     PollDone,
     schedOnly, session, push
<1>9. ASSUME NEW c \in Conns, RunRemove(c) \/ TimerRemoves(c) \/ \E p \in Packets : TcpFails(c, p)
      PROVE  PushType'
  BY <1>9 DEF RunRemove, TimerRemoves, TcpFails, session, push
<1>10. ASSUME NEW r \in Rtps, NEW p \in Packets,
              SendNothing(r, p) \/ SendPacket(r, p) \/ UdpFails(r, p) \/ StraySend(r, p)
       PROVE  PushType'
  BY <1>10 DEF SendNothing, SendPacket, UdpFails, StraySend, schedOnly, session, push
<1>11. CASE UNCHANGED vars
  BY <1>11 DEF vars, session, push
<1> QED
  BY <1>1, <1>2, <1>3, <1>4, <1>5, <1>6, <1>7, <1>8, <1>9, <1>10, <1>11
  DEF Next, PusherWorks, SchedulerWorks, OwnerWorks

\* The steps that leave the RtpConnections alone.
LEMMA RtpKept ==
  ASSUME \/ OwnerWorks \/ PushFrame \/ NobodyListens \/ PusherWorks
         \/ AddClient \/ RemoveClient \/ AskRemoval \/ TakeEvent \/ ReleasePlace \/ FinishEvent
         \/ TriggersDone \/ TimersDone \/ PollDone \/ UNCHANGED vars
         \/ \E c \in Conns : Describe(c) \/ Answer(c) \/ HandleWrite(c) \/ HangUp(c)
         \/ \E r \in Rtps, p \in Packets : StraySend(r, p)
  PROVE  UNCHANGED rtp
BY DEF OwnerWorks, StartMulticast, StartUnicast, RemoveSession, PushFrame, NobodyListens,
   PusherWorks, BeginPacket, PostPacket, BeginGroups, EndPacket, SkipClient, VisitClient,
   PostToGroup, pushOnly, AddClient, RemoveClient, AskRemoval, TakeEvent, ReleasePlace,
   FinishEvent, TriggersDone, TimersDone, PollDone, schedOnly, Describe, Answer, HandleWrite,
   HangUp, StraySend, vars

RtpSteps ==
  \/ \E c \in Conns : Setup(c) \/ Play(c) \/ Teardown(c) \/ RunRemove(c) \/ TimerRemoves(c)
  \/ \E r \in Rtps, p \in Packets : SendNothing(r, p) \/ SendPacket(r, p) \/ UdpFails(r, p)
  \/ \E c \in Conns, p \in Packets : TcpFails(c, p)

LEMMA RtpCases == [Next]_vars => UNCHANGED rtp \/ RtpSteps
<1>1. ASSUME NEW c \in Conns, Describe(c) \/ Answer(c) \/ HandleWrite(c) \/ HangUp(c)
      PROVE  UNCHANGED rtp
  BY <1>1, RtpKept
<1>2. ASSUME NEW r \in Rtps, NEW p \in Packets, StraySend(r, p) PROVE UNCHANGED rtp
  BY <1>2, RtpKept
<1>3. CASE \/ OwnerWorks \/ PushFrame \/ NobodyListens \/ PusherWorks
           \/ AddClient \/ RemoveClient \/ AskRemoval \/ TakeEvent \/ ReleasePlace \/ FinishEvent
           \/ TriggersDone \/ TimersDone \/ PollDone \/ UNCHANGED vars
  BY <1>3, RtpKept
<1> QED
  BY <1>1, <1>2, <1>3 DEF Next, Requests, SchedulerWorks, OwnerWorks, RtpSteps

\* A SETUP is for an RtpConnection of the connection's own.
LEMMA SetupOwn ==
  ASSUME ConnType, ConnInv, NEW c \in Conns, Setup(c)
  PROVE  rtp_conn[c] = c
BY DEF Setup, ConnType, ConnInv

LEMMA PlayTypeStep ==
  ASSUME ConnType, PlayType, ConnInv, [Next]_vars
  PROVE  PlayType'
<1> USE DEF PlayType
<1>1. CASE UNCHANGED rtp
  BY <1>1 DEF rtp
<1>2. ASSUME NEW c \in Conns, Setup(c) PROVE PlayType'
  <2>1. transport' = [transport EXCEPT ![c] = Mode[c]] /\ UNCHANGED <<is_play, rtp_closed, has_key>>
    BY <1>2, SetupOwn DEF Setup
  <2>2. Mode[c] \in {"tcp", "udp"} /\ c \in Rtps /\ c \notin Groups
    BY NameAssumption DEF Rtps
  <2> QED
    BY <2>1, <2>2
<1>3. ASSUME NEW c \in Conns, Play(c) PROVE PlayType'
  BY <1>3 DEF Play, ConnType
<1>4. ASSUME NEW c \in Conns, Teardown(c) PROVE PlayType'
  BY <1>4 DEF Teardown, TearDown, ConnType, Rtps
<1>5. ASSUME NEW c \in Conns, RunRemove(c) \/ TimerRemoves(c) PROVE PlayType'
  <2>1. c \in Rtps /\ c \notin Groups
    BY NameAssumption DEF Rtps
  <2>2. Destroy(c)
    BY <1>5 DEF RunRemove, TimerRemoves
  <2>3. \A d \in Conns : transport'[d] \in {"none", Mode[d]}
    BY <2>2 DEF Destroy, Rtps
  <2> QED
    BY <2>1, <2>2, <2>3 DEF Destroy
<1>6. ASSUME NEW r \in Rtps, NEW p \in Packets, SendNothing(r, p) \/ SendPacket(r, p)
      PROVE  PlayType'
  BY <1>6 DEF SendNothing, SendPacket, BeginSend
<1>7. ASSUME NEW r \in Rtps, NEW p \in Packets, UdpFails(r, p) PROVE PlayType'
  BY <1>7 DEF UdpFails, BeginSend, TearDown, Rtps
<1>8. ASSUME NEW c \in Conns, NEW p \in Packets, TcpFails(c, p) PROVE PlayType'
  BY <1>8 DEF TcpFails, BeginSend, Rtps
<1> QED
  BY <1>1, <1>2, <1>3, <1>4, <1>5, <1>6, <1>7, <1>8, RtpCases DEF RtpSteps

\* One sequence number after another.
LEMMA NextSeq == \A n \in Seqs : (n + 1) % SeqModulus \in Seqs
BY SeqAssumption DEF Seqs

LEMMA HeaderType ==
  ASSUME SentType, NEW r \in Rtps, NEW p \in Packets, BeginSend(r, p)
  PROVE  packet_seq' \in [Rtps -> Seqs]
BY NextSeq DEF BeginSend, SetRtpHeader, SentType

\* What SendPacket does to sent.
LEMMA Sends ==
  ASSUME NEW r \in Rtps, NEW p \in Packets, SendPacket(r, p)
  PROVE  \/ transport[r] = "tcp" /\ client[r] # "open" /\ UNCHANGED sent
         \/ /\ transport[r] = "tcp" => client[r] = "open"
            /\ \E keeps \in BOOLEAN : Record(r, p, keeps) /\ (~keeps => transport[r] = "tcp")
<1>1. HasRoom(r) \in BOOLEAN
  BY DEF HasRoom
<1>2. CASE SendRtpOverUdp(r, p)
  BY <1>2 DEF SendRtpOverUdp
<1>3. CASE SendRtpOverTcp(r, p)
  BY <1>1, <1>3 DEF SendRtpOverTcp
<1> QED
  BY <1>2, <1>3 DEF SendPacket

LEMMA SentTypeStep ==
  ASSUME SentType, [Next]_vars
  PROVE  SentType'
<1>1. CASE UNCHANGED rtp
  BY <1>1 DEF rtp, SentType
<1>2. ASSUME NEW c \in Conns, Setup(c) \/ Play(c) \/ Teardown(c) PROVE SentType'
  BY <1>2 DEF Setup, Play, Teardown, SentType
<1>3. ASSUME NEW c \in Conns, RunRemove(c) \/ TimerRemoves(c) PROVE SentType'
  <2>1. <<>> \in Seq(Sent) /\ Min(FirstSeqs) \in Seqs
    BY FirstSeq, EmptySeq
  <2> QED
    BY <1>3, <2>1 DEF RunRemove, TimerRemoves, Destroy, SentType
<1>4. ASSUME NEW r \in Rtps, NEW p \in Packets, SendNothing(r, p) \/ UdpFails(r, p)
      PROVE  SentType'
  BY <1>4, HeaderType DEF SendNothing, UdpFails, SentType
<1>5. ASSUME NEW r \in Rtps, NEW p \in Packets, SendPacket(r, p) PROVE SentType'
  <2>1. packet_seq' \in [Rtps -> Seqs]
    BY <1>5, HeaderType DEF SendPacket
  <2>2. ASSUME NEW keeps \in BOOLEAN, Record(r, p, keeps) PROVE sent' \in [Rtps -> Seq(Sent)]
    <3>1. Item(r, p, keeps) \in Sent
      BY DEF SentType, Sent, Item
    <3>2. Append(sent[r], Item(r, p, keeps)) \in Seq(Sent)
      BY <3>1, AppendProperties DEF SentType
    <3> QED
      BY <2>2, <3>2 DEF Record, SentType, Item
  <2>3. sent' \in [Rtps -> Seq(Sent)]
    BY <1>5, <2>2, Sends DEF SentType
  <2> QED
    BY <2>1, <2>3 DEF SentType
<1>6. ASSUME NEW c \in Conns, NEW p \in Packets, TcpFails(c, p) PROVE SentType'
  BY <1>6, HeaderType DEF TcpFails, SentType, Rtps
<1> QED
  BY <1>1, <1>2, <1>3, <1>4, <1>5, <1>6, RtpCases DEF RtpSteps

\* The steps that leave the pusher alone.
PushKept == UNCHANGED <<pusher, packet, todo, held, map_mutex>>

PushSteps ==
  \/ PushFrame \/ NobodyListens \/ BeginPacket \/ PostPacket \/ BeginGroups \/ EndPacket
  \/ \E c \in Conns : SkipClient(c) \/ VisitClient(c)
  \/ \E g \in Groups : PostToGroup(g)

LEMMA PushCases == [Next]_vars => PushKept \/ PushSteps
<1> USE DEF PushKept, push, session
<1>1. CASE OwnerWorks \/ Requests
  BY <1>1 DEF OwnerWorks, StartMulticast, StartUnicast, RemoveSession, Requests, Describe, Setup,
     Play, Teardown, Answer, HandleWrite, HangUp, requestOnly
<1>2. CASE \/ AddClient \/ RemoveClient \/ AskRemoval \/ TakeEvent \/ ReleasePlace \/ FinishEvent
           \/ TriggersDone \/ TimersDone \/ PollDone
  BY <1>2 DEF AddClient, RemoveClient, AskRemoval, TakeEvent, ReleasePlace, FinishEvent,
     TriggersDone, TimersDone, PollDone, schedOnly
<1>3. CASE \E c \in Conns : RunRemove(c) \/ TimerRemoves(c) \/ \E p \in Packets : TcpFails(c, p)
  BY <1>3 DEF RunRemove, TimerRemoves, TcpFails
<1>4. CASE \E r \in Rtps, p \in Packets :
             SendNothing(r, p) \/ SendPacket(r, p) \/ UdpFails(r, p) \/ StraySend(r, p)
  BY <1>4 DEF SendNothing, SendPacket, UdpFails, StraySend, schedOnly
<1>5. CASE UNCHANGED vars
  BY <1>5 DEF vars
<1> QED
  BY <1>1, <1>2, <1>3, <1>4, <1>5 DEF Next, OwnerWorks, PusherWorks, PushSteps, SchedulerWorks

LEMMA PacketTypeStep ==
  ASSUME PushType, PacketType, [Next]_vars
  PROVE  PacketType' /\ packet' >= packet
<1>1. CASE PushKept
  BY <1>1 DEF PushKept, PacketType
<1>2. CASE PushFrame
  BY <1>2 DEF PushFrame, CanPush, PacketType
<1>3. CASE NobodyListens
  BY <1>3, NextFrameLater DEF NobodyListens, CanPush, PacketType
<1>4. CASE BeginPacket \/ PostPacket \/ BeginGroups \/ \E g \in Groups : PostToGroup(g)
  BY <1>4 DEF BeginPacket, PostPacket, BeginGroups, PostToGroup, PacketType
<1>5. CASE \E c \in Conns : SkipClient(c) \/ VisitClient(c)
  BY <1>5 DEF SkipClient, VisitClient, PacketType
<1>6. CASE EndPacket
  <2>1. packet' = packet + 1 /\ packet \in Packets /\ packet \in 1 .. NumPackets + 1
    BY <1>6 DEF EndPacket, PacketType
  <2>2. packet = NumPackets => pusher' = "idle"
    BY <1>6, PacketAssumption DEF EndPacket
  <2> QED
    BY <2>1, <2>2, PacketAssumption DEF PacketType, Packets
<1> QED
  BY <1>1, <1>2, <1>3, <1>4, <1>5, <1>6, PushCases DEF PushSteps

LEMMA TypeStep ==
  ASSUME TypeInv, ConnInv, PushInv, Fifo!FifoInv, [Next]_vars
  PROVE  TypeInv' /\ Fifo!FifoInv'
BY ConnTypeStep, PushTypeStep, PlayTypeStep, SentTypeStep, PacketTypeStep, ScheduledStep,
   EventsDiffer, Fifo!FifoStep DEF TypeInv

-----------------------------------------------------------------------------
(***************************************************************************)
(* The fates of events                                                     *)
(***************************************************************************)

\* Who posts an event.
LEMMA Posts ==
  ASSUME Fifo!TypeOK, Fifo!FifoInv, [Next]_vars,
         NEW e \in Events, fate[e] = "new", fate'[e] # "new"
  PROVE  \/ PostPacket /\ e = SendEvent(held, packet)
         \/ \E g \in Groups : PostToGroup(g) /\ e = SendEvent(g, packet)
         \/ AskRemoval /\ e = RemoveEvent(current)
<1>1. running # e
  BY DEF Fifo!FifoInv
<1>2. ~(Sched!Finish \/ UNCHANGED fate)
  BY <1>1 DEF Sched!Finish, Fifo!TypeOK
<1>3. CASE OwnerWorks \/ Requests
  BY <1>2, <1>3 DEF OwnerWorks, StartMulticast, StartUnicast, RemoveSession, Requests, Describe,
     Setup, Play, Teardown, Answer, HandleWrite, HangUp, requestOnly, scheduled
<1>4. CASE \/ PushFrame \/ NobodyListens \/ BeginPacket \/ BeginGroups \/ EndPacket
           \/ \E c \in Conns : SkipClient(c) \/ VisitClient(c)
  BY <1>2, <1>4 DEF PushFrame, NobodyListens, BeginPacket, BeginGroups, EndPacket, SkipClient,
     VisitClient, scheduled
<1>5. ASSUME NEW r, PostTo(r) PROVE e = SendEvent(r, packet)
  BY <1>5 DEF PostTo, Sched!Post, Sched!TurnAway, Fifo!TypeOK
<1>6. CASE PostPacket \/ \E g \in Groups : PostToGroup(g)
  BY <1>5, <1>6 DEF PostPacket, PostToGroup
<1>7. CASE AskRemoval
  BY <1>7 DEF AskRemoval, Sched!Post, Sched!TurnAway, Fifo!TypeOK
<1>8. CASE AddClient \/ RemoveClient \/ TriggersDone \/ TimersDone \/ PollDone
  BY <1>2, <1>8 DEF AddClient, RemoveClient, TriggersDone, TimersDone, PollDone, scheduled
<1>9. CASE TakeEvent \/ ReleasePlace \/ FinishEvent
  BY <1>2, <1>9 DEF TakeEvent, ReleasePlace, FinishEvent, Sched!Take, Sched!Release
<1>10. CASE \E c \in Conns : RunRemove(c) \/ TimerRemoves(c) \/ \E p \in Packets : TcpFails(c, p)
  BY <1>2, <1>10 DEF RunRemove, TimerRemoves, TcpFails, scheduled
<1>11. CASE \E r \in Rtps, p \in Packets :
              SendNothing(r, p) \/ SendPacket(r, p) \/ UdpFails(r, p) \/ StraySend(r, p)
  BY <1>2, <1>11 DEF SendNothing, SendPacket, UdpFails, StraySend
<1>12. CASE UNCHANGED vars
  BY <1>2, <1>12 DEF vars, scheduled
<1> QED
  BY <1>3, <1>4, <1>6, <1>7, <1>8, <1>9, <1>10, <1>11, <1>12
  DEF Next, PusherWorks, SchedulerWorks, OwnerWorks

FifoParts == ConnType /\ PushType /\ PacketType /\ ConnInv /\ PushInv /\ Fifo!TypeOK /\ Fifo!FifoInv

LEMMA RemovalFate ==
  ASSUME FifoParts, [Next]_vars, NEW c \in Conns
  PROVE  \/ fate'[RemoveEvent(c)] = fate[RemoveEvent(c)]
         \/ /\ fate[RemoveEvent(c)] = "new" /\ AskRemoval /\ current = c
            /\ fate'[RemoveEvent(c)] \in {"queued", "refused", "lost"}
         \/ /\ fate[RemoveEvent(c)] = "queued" /\ fate'[RemoveEvent(c)] = "ran"
            /\ Sched!Finish /\ running = RemoveEvent(c)
<1>1. RemoveEvent(c) \in Events /\ NoEvent \notin Events
  BY EventsDiffer
<1>2. [Fifo!Next]_(Fifo!vars)
  BY ScheduledStep DEF FifoParts
<1>3. running = RemoveEvent(c) => fate[RemoveEvent(c)] = "queued"
  BY <1>1 DEF FifoParts, Fifo!FifoInv
<1>4. ASSUME fate[RemoveEvent(c)] = "new", fate'[RemoveEvent(c)] # "new"
      PROVE  AskRemoval /\ current = c
  <2>1. \A r \in Rtps, p \in Packets : RemoveEvent(c) # SendEvent(r, p)
    BY EventsDiffer
  <2>2. PostPacket => held \in Rtps /\ packet \in Packets
    BY DEF PostPacket, FifoParts, PushType, PushInv, PacketType, Rtps
  <2>3. \A g \in Groups : PostToGroup(g) => packet \in Packets /\ g \in Rtps
    BY DEF PostToGroup, FifoParts, PacketType, Rtps
  <2>4. AskRemoval => current \in Conns
    BY DEF AskRemoval, FifoParts, ConnInv, Leaving
  <2>5. AskRemoval /\ RemoveEvent(c) = RemoveEvent(current)
    BY <1>1, <1>4, <2>1, <2>2, <2>3, Posts DEF FifoParts
  <2> QED
    BY <2>4, <2>5, EventsDiffer
<1> QED
  BY <1>1, <1>2, <1>3, <1>4, SchedIsFifo, Fifo!FateStep DEF FifoParts

LEMMA SendFate ==
  ASSUME FifoParts, [Next]_vars, NEW r \in Rtps, NEW p \in Packets
  PROVE  \/ fate'[SendEvent(r, p)] = fate[SendEvent(r, p)]
         \/ /\ fate[SendEvent(r, p)] = "new" /\ p = packet
            /\ fate'[SendEvent(r, p)] \in {"queued", "refused", "lost"}
            /\ \/ r \in Conns /\ PostPacket /\ r = held
               \/ r \in Groups /\ PostToGroup(r)
         \/ /\ fate[SendEvent(r, p)] = "queued" /\ fate'[SendEvent(r, p)] = "ran"
            /\ Sched!Finish /\ running = SendEvent(r, p)
<1>1. SendEvent(r, p) \in Events /\ NoEvent \notin Events
  BY EventsDiffer
<1>2. [Fifo!Next]_(Fifo!vars)
  BY ScheduledStep DEF FifoParts
<1>3. running = SendEvent(r, p) => fate[SendEvent(r, p)] = "queued"
  BY <1>1 DEF FifoParts, Fifo!FifoInv
<1>4. ASSUME fate[SendEvent(r, p)] = "new", fate'[SendEvent(r, p)] # "new"
      PROVE  /\ p = packet
             /\ \/ r \in Conns /\ PostPacket /\ r = held
                \/ r \in Groups /\ PostToGroup(r)
  <2>1. PostPacket => held \in Conns /\ held \in Rtps /\ packet \in Packets
    BY DEF PostPacket, FifoParts, PushType, PushInv, PacketType, Rtps
  <2>2. \A g \in Groups : PostToGroup(g) => packet \in Packets /\ g \in Rtps
    BY DEF PostToGroup, FifoParts, PacketType, Rtps
  <2>3. AskRemoval => current \in Conns
    BY DEF AskRemoval, FifoParts, ConnInv, Leaving
  <2>4. SendEvent(r, p) # RemoveEvent(current) \/ ~AskRemoval
    BY <2>3, EventsDiffer
  <2>5. ASSUME PostPacket, SendEvent(r, p) = SendEvent(held, packet)
        PROVE  p = packet /\ r = held /\ r \in Conns
    BY <2>1, <2>5, EventsDiffer
  <2>6. ASSUME NEW g \in Groups, PostToGroup(g), SendEvent(r, p) = SendEvent(g, packet)
        PROVE  p = packet /\ r = g
    BY <2>2, <2>6, EventsDiffer
  <2>7. \/ PostPacket /\ SendEvent(r, p) = SendEvent(held, packet)
        \/ \E g \in Groups : PostToGroup(g) /\ SendEvent(r, p) = SendEvent(g, packet)
    BY <1>1, <1>4, <2>4, Posts DEF FifoParts
  <2> QED
    BY <2>5, <2>6, <2>7
<1> QED
  BY <1>1, <1>2, <1>3, <1>4, SchedIsFifo, Fifo!FateStep DEF FifoParts

-----------------------------------------------------------------------------
(***************************************************************************)
(* Connections and the pusher                                              *)
(***************************************************************************)

\* What a step makes of a connection.
LEMMA ConnStep ==
  ASSUME FifoParts, [Next]_vars, NEW c \in Conns
  PROVE  /\ \/ client'[c] = client[c]
            \/ /\ client[c] = "open" /\ client'[c] = "closed" /\ current' = c
               /\ loop' = IF rtp_conn[c] # None /\ Registered THEN "remove" ELSE "ask"
            \/ client[c] = "closed" /\ client'[c] = "gone" /\ (RunRemove(c) \/ TimerRemoves(c))
         /\ \/ rtp_conn'[c] = rtp_conn[c]
            \/ /\ rtp_conn[c] = None /\ rtp_conn'[c] = (IF is_multicast THEN Family[c] ELSE c)
               /\ client[c] = "open"
<1> USE DEF FifoParts, ConnType
<1>1. CASE UNCHANGED <<client, rtp_conn>>
  BY <1>1
<1>2. ASSUME NEW d \in Conns, Describe(d)
      PROVE  UNCHANGED client /\ (rtp_conn'[c] = rtp_conn[c] \/
               (/\ rtp_conn[c] = None /\ rtp_conn'[c] = (IF is_multicast THEN Family[c] ELSE c)
                /\ client[c] = "open"))
  BY <1>2 DEF Describe, Serves
<1>3. ASSUME NEW d \in Conns, HangUp(d) \/ \E p \in Packets : TcpFails(d, p)
      PROVE  UNCHANGED rtp_conn /\ BeginClose(d) /\ client[d] = "open"
  BY <1>3 DEF HangUp, TcpFails, Serves
<1>4. ASSUME NEW d \in Conns, RunRemove(d) \/ TimerRemoves(d)
      PROVE  UNCHANGED rtp_conn /\ client[d] = "closed"
             /\ client' = [client EXCEPT ![d] = "gone"]
  <2>1. RunRemove(d) => fate[RemoveEvent(d)] = "queued"
    BY EventsDiffer DEF RunRemove, Calls, Fifo!FifoInv
  <2> QED
    BY <1>4, <2>1 DEF RunRemove, TimerRemoves, Destroy, ConnInv
<1>5. CASE OwnerWorks \/ PushSteps
  BY <1>1, <1>5 DEF OwnerWorks, StartMulticast, StartUnicast, RemoveSession, PushSteps, PushFrame,
     NobodyListens, BeginPacket, PostPacket, BeginGroups, EndPacket, SkipClient, VisitClient,
     PostToGroup, pushOnly, conn
<1>6. CASE \/ \E d \in Conns :
                Setup(d) \/ Play(d) \/ Teardown(d) \/ Answer(d) \/ HandleWrite(d)
           \/ AddClient \/ RemoveClient \/ AskRemoval \/ TakeEvent \/ ReleasePlace \/ FinishEvent
           \/ TriggersDone \/ TimersDone \/ PollDone
  BY <1>1, <1>6 DEF Setup, Play, Teardown, Answer, HandleWrite, AddClient, RemoveClient,
     AskRemoval, TakeEvent, ReleasePlace, FinishEvent, TriggersDone, TimersDone, PollDone,
     schedOnly, conn
<1>7. CASE \E r \in Rtps, p \in Packets :
             SendNothing(r, p) \/ SendPacket(r, p) \/ UdpFails(r, p) \/ StraySend(r, p)
  BY <1>1, <1>7 DEF SendNothing, SendPacket, UdpFails, StraySend, schedOnly, conn
<1>8. CASE UNCHANGED vars
  BY <1>1, <1>8 DEF vars, conn
<1>9. CASE \E d \in Conns : Describe(d)
  BY <1>2, <1>9
<1>10. CASE \E d \in Conns : HangUp(d) \/ \E p \in Packets : TcpFails(d, p)
  <2>1. PICK d \in Conns : UNCHANGED rtp_conn /\ BeginClose(d) /\ client[d] = "open"
    BY <1>3, <1>10
  <2> QED
    BY <2>1 DEF BeginClose
<1>11. CASE \E d \in Conns : RunRemove(d) \/ TimerRemoves(d)
  BY <1>4, <1>11
<1> QED
  BY <1>5, <1>6, <1>7, <1>8, <1>9, <1>10, <1>11
  DEF Next, OwnerWorks, PusherWorks, PushSteps, Requests, SchedulerWorks

\* How the loop comes to where it works for a connection.
LEMMA AddComes ==
  ASSUME ConnType, [Next]_vars, loop' = "add"
  PROVE  \/ UNCHANGED <<loop, current, client, rtp_conn>>
         \/ current' \in Conns /\ Describe(current')
<1>1. CASE OwnerWorks \/ PushSteps
  BY <1>1 DEF OwnerWorks, StartMulticast, StartUnicast, RemoveSession, PushSteps, PushFrame,
     NobodyListens, BeginPacket, PostPacket, BeginGroups, EndPacket, SkipClient, VisitClient,
     PostToGroup, pushOnly, conn, scheduler
<1>2. CASE Requests
  BY <1>2 DEF Requests, Describe, Setup, Play, Teardown, Answer, HandleWrite, HangUp,
     BeginClose
<1>3. CASE \/ AddClient \/ RemoveClient \/ AskRemoval \/ TakeEvent \/ ReleasePlace \/ FinishEvent
           \/ TriggersDone \/ TimersDone \/ PollDone
  BY <1>3 DEF AddClient, RemoveClient, AskRemoval, TakeEvent, ReleasePlace, FinishEvent,
     TriggersDone, TimersDone, PollDone, schedOnly, conn, scheduler
<1>4. CASE \E c \in Conns : RunRemove(c) \/ TimerRemoves(c) \/ \E p \in Packets : TcpFails(c, p)
  BY <1>4 DEF RunRemove, Calls, TimerRemoves, TcpFails, BeginClose, conn, scheduler
<1>5. CASE \E r \in Rtps, p \in Packets :
             SendNothing(r, p) \/ SendPacket(r, p) \/ UdpFails(r, p) \/ StraySend(r, p)
  BY <1>5 DEF SendNothing, SendPacket, UdpFails, StraySend, schedOnly, conn, scheduler
<1>6. CASE UNCHANGED vars
  BY <1>6 DEF vars, conn, scheduler
<1> QED
  BY <1>1, <1>2, <1>3, <1>4, <1>5, <1>6
  DEF Next, OwnerWorks, PusherWorks, PushSteps, SchedulerWorks

LEMMA LeavingComes ==
  ASSUME ConnType, [Next]_vars, loop' \in Leaving
  PROVE  \/ /\ UNCHANGED <<current, client, timers>> /\ loop \in Leaving /\ ~AskRemoval
            /\ loop' = loop \/ RemoveClient
         \/ /\ current' \in Conns /\ BeginClose(current') /\ client[current'] = "open"
            /\ UNCHANGED <<timers, scheduled>>
<1> USE DEF Leaving
<1>1. CASE OwnerWorks \/ PushSteps
  BY <1>1 DEF OwnerWorks, StartMulticast, StartUnicast, RemoveSession, PushSteps, PushFrame,
     NobodyListens, BeginPacket, PostPacket, BeginGroups, EndPacket, SkipClient, VisitClient,
     PostToGroup, pushOnly, scheduler, conn, AskRemoval, push
<1>2. CASE Requests
  BY <1>2 DEF Requests, Describe, Setup, Play, Teardown, Answer, HandleWrite, HangUp, BeginClose,
     Serves, requestOnly
<1>3. CASE \/ AddClient \/ RemoveClient \/ AskRemoval \/ TakeEvent \/ ReleasePlace \/ FinishEvent
           \/ TriggersDone \/ TimersDone \/ PollDone
  BY <1>3 DEF AddClient, RemoveClient, AskRemoval, TakeEvent, ReleasePlace, FinishEvent,
     TriggersDone, TimersDone, PollDone, schedOnly, scheduler, conn
<1>4. CASE \E c \in Conns : RunRemove(c) \/ TimerRemoves(c) \/ \E p \in Packets : TcpFails(c, p)
  BY <1>4 DEF RunRemove, Calls, TimerRemoves, TcpFails, BeginClose, scheduler
<1>5. CASE \E r \in Rtps, p \in Packets :
             SendNothing(r, p) \/ SendPacket(r, p) \/ UdpFails(r, p) \/ StraySend(r, p)
  BY <1>5 DEF SendNothing, SendPacket, UdpFails, StraySend, BeginSend, Calls, schedOnly, scheduler
<1>6. CASE UNCHANGED vars
  BY <1>6 DEF vars, scheduler, conn, AskRemoval
<1> QED
  BY <1>1, <1>2, <1>3, <1>4, <1>5, <1>6
  DEF Next, OwnerWorks, PusherWorks, PushSteps, SchedulerWorks

\* Who touches timers, and who sets is_multicast or takes the session away.
LEMMA TimersStep ==
  ASSUME [Next]_vars
  PROVE  \/ timers' = timers
         \/ \E c \in Conns : TimerRemoves(c)
         \/ AskRemoval /\ timers' = timers \cup {current} /\ fate'[RemoveEvent(current)] = "refused"
<1>1. CASE OwnerWorks \/ PushSteps
  BY <1>1 DEF OwnerWorks, StartMulticast, StartUnicast, RemoveSession, PushSteps, PushFrame,
     NobodyListens, BeginPacket, PostPacket, BeginGroups, EndPacket, SkipClient, VisitClient,
     PostToGroup, pushOnly, scheduler
<1>2. CASE Requests
  BY <1>2 DEF Requests, Describe, Setup, Play, Teardown, Answer, HandleWrite, HangUp, requestOnly
<1>3. CASE AddClient \/ RemoveClient \/ TakeEvent \/ ReleasePlace \/ FinishEvent
           \/ TriggersDone \/ TimersDone \/ PollDone
  BY <1>3 DEF AddClient, RemoveClient, TakeEvent, ReleasePlace, FinishEvent,
     TriggersDone, TimersDone, PollDone, scheduler
<1>4. CASE AskRemoval
  BY <1>4 DEF AskRemoval
<1>5. CASE \E c \in Conns : RunRemove(c) \/ TimerRemoves(c) \/ \E p \in Packets : TcpFails(c, p)
  BY <1>5 DEF RunRemove, TcpFails, scheduler
<1>6. CASE \E r \in Rtps, p \in Packets :
             SendNothing(r, p) \/ SendPacket(r, p) \/ UdpFails(r, p) \/ StraySend(r, p)
  BY <1>6 DEF SendNothing, SendPacket, UdpFails, StraySend, scheduler
<1>7. CASE UNCHANGED vars
  BY <1>7 DEF vars, scheduler
<1> QED
  BY <1>1, <1>2, <1>3, <1>4, <1>5, <1>6, <1>7
  DEF Next, OwnerWorks, PusherWorks, PushSteps, SchedulerWorks

LEMMA OwnerStep ==
  ASSUME PushType, [Next]_vars
  PROVE  /\ is_multicast => is_multicast'
         /\ Registered' => Registered
         /\ owner' # owner => OwnerWorks
         /\ clients' = clients \/ AddClient \/ RemoveClient
<1> USE DEF Registered, PushType
<1>1. CASE OwnerWorks
  BY <1>1 DEF OwnerWorks, StartMulticast, StartUnicast, RemoveSession
<1>2. CASE PushSteps
  BY <1>2 DEF PushSteps, PushFrame, NobodyListens, BeginPacket, PostPacket, BeginGroups,
     EndPacket,
     SkipClient, VisitClient, PostToGroup, pushOnly
<1>3. CASE Requests
  BY <1>3 DEF Requests, Describe, Setup, Play, Teardown, Answer, HandleWrite, HangUp,
     requestOnly, session
<1>4. CASE \/ AddClient \/ RemoveClient \/ AskRemoval \/ TakeEvent \/ ReleasePlace \/ FinishEvent
           \/ TriggersDone \/ TimersDone \/ PollDone
  BY <1>4 DEF AddClient, RemoveClient, AskRemoval, TakeEvent, ReleasePlace, FinishEvent,
     TriggersDone, TimersDone, PollDone, schedOnly, session
<1>5. CASE \E c \in Conns : RunRemove(c) \/ TimerRemoves(c) \/ \E p \in Packets : TcpFails(c, p)
  BY <1>5 DEF RunRemove, TimerRemoves, TcpFails, session
<1>6. CASE \E r \in Rtps, p \in Packets :
             SendNothing(r, p) \/ SendPacket(r, p) \/ UdpFails(r, p) \/ StraySend(r, p)
  BY <1>6 DEF SendNothing, SendPacket, UdpFails, StraySend, schedOnly, session
<1>7. CASE UNCHANGED vars
  BY <1>7 DEF vars, session
<1> QED
  BY <1>1, <1>2, <1>3, <1>4, <1>5, <1>6, <1>7
  DEF Next, OwnerWorks, PusherWorks, PushSteps, SchedulerWorks

LEMMA ConnInvStep ==
  ASSUME FifoParts, [Next]_vars
  PROVE  ConnInv'
<1> USE DEF FifoParts
<1>1. ASSUME loop' = "add"
      PROVE  current' \in Conns /\ client'[current'] = "open" /\ rtp_conn'[current'] # None
  <2>1. CASE UNCHANGED <<loop, current, client, rtp_conn>>
    BY <1>1, <2>1 DEF ConnInv
  <2>2. CASE current' \in Conns /\ Describe(current')
    <3>1. PICK c \in Conns : c = current' /\ Describe(c)
      BY <2>2
    <3>2. /\ client[c] = "open" /\ client' = client
          /\ rtp_conn' = [rtp_conn EXCEPT ![c] =
               IF @ # None THEN @ ELSE IF is_multicast THEN Family[c] ELSE c]
      BY <3>1 DEF Describe, Serves
    <3>3. c # None /\ Family[c] # None /\ rtp_conn \in [Conns -> Rtps \cup {None}]
      BY NameAssumption DEF ConnType, Rtps
    <3>4. rtp_conn'[c] # None
      BY <3>2, <3>3
    <3> QED
      BY <3>1, <3>2, <3>4
  <2> QED
    BY <1>1, <2>1, <2>2, AddComes
<1>2. ASSUME loop' \in Leaving
      PROVE  /\ current' \in Conns /\ client'[current'] = "closed"
             /\ fate'[RemoveEvent(current')] = "new"
  <2>1. CASE /\ UNCHANGED <<current, client, timers>> /\ loop \in Leaving /\ ~AskRemoval
             /\ loop' = loop \/ RemoveClient
    <3>1. current \in Conns /\ client[current] = "closed" /\ fate[RemoveEvent(current)] = "new"
      BY <2>1 DEF ConnInv
    <3> QED
      BY <2>1, <3>1, RemovalFate
  <2>2. CASE /\ current' \in Conns /\ BeginClose(current') /\ client[current'] = "open"
             /\ UNCHANGED <<timers, scheduled>>
    BY <2>2 DEF BeginClose, ConnInv, ConnType, scheduled
  <2> QED
    BY <1>2, <2>1, <2>2, LeavingComes
<1>3. AskRemoval => /\ current \in Conns /\ client[current] = "closed" /\ UNCHANGED client
  BY DEF AskRemoval, ConnInv, Leaving, conn
<1>4. ASSUME NEW c \in Conns, client'[c] = "open" PROVE fate'[RemoveEvent(c)] = "new"
  <2>1. client[c] = "open" /\ fate[RemoveEvent(c)] = "new"
    BY <1>4, ConnStep DEF ConnInv
  <2> QED
    BY <1>3, <2>1, RemovalFate
<1>5. ASSUME NEW c \in Conns, c \in timers' PROVE fate'[RemoveEvent(c)] = "refused"
  <2>1. CASE c \in timers
    BY <2>1, RemovalFate DEF ConnInv
  <2>2. CASE c \notin timers
    BY <1>5, <2>2, TimersStep DEF TimerRemoves
  <2> QED
    BY <2>1, <2>2
<1>6. ASSUME NEW c \in Conns, client[c] = "closed", client'[c] = "gone"
      PROVE  fate'[RemoveEvent(c)] # "queued" /\ c \notin timers'
  <2>1. CASE RunRemove(c)
    <3>1. running = RemoveEvent(c) /\ fate[RemoveEvent(c)] = "queued" /\ timers' = timers
      BY <2>1, EventsDiffer DEF RunRemove, Calls, Fifo!FifoInv, scheduler
    <3>2. fate'[RemoveEvent(c)] = "ran"
      BY <2>1, <3>1 DEF RunRemove, Sched!Finish, Fifo!TypeOK
    <3> QED
      BY <3>1, <3>2 DEF ConnInv
  <2>2. CASE TimerRemoves(c)
    BY <2>2 DEF TimerRemoves, ConnInv, scheduled
  <2> QED
    BY <1>6, <2>1, <2>2, ConnStep
<1>7. ASSUME NEW c \in Conns, fate'[RemoveEvent(c)] = "queued" \/ c \in timers'
      PROVE  client'[c] = "closed"
  <2>1. client[c] = "closed"
    <3>1. CASE fate'[RemoveEvent(c)] = "queued"
      BY <1>3, <3>1, RemovalFate DEF ConnInv
    <3>2. CASE c \in timers'
      BY <1>3, <3>2, TimersStep DEF ConnInv, TimerRemoves
    <3> QED
      BY <1>7, <3>1, <3>2
  <2> QED
    BY <1>6, <1>7, <2>1, ConnStep
<1>8. ASSUME NEW c \in Conns, rtp_conn'[c] \in Groups PROVE is_multicast'
  <2>1. c \notin Groups
    BY NameAssumption
  <2> QED
    BY <1>8, <2>1, ConnStep, OwnerStep DEF ConnInv
<1> QED
  BY <1>1, <1>2, <1>4, <1>5, <1>7, <1>8 DEF ConnInv

LEMMA RemoveStays ==
  ASSUME [Next]_vars, loop = "remove"
  PROVE  RemoveClient \/ UNCHANGED <<loop, current, clients>>
<1>1. CASE OwnerWorks \/ PushSteps
  BY <1>1 DEF OwnerWorks, StartMulticast, StartUnicast, RemoveSession, PushSteps, PushFrame,
     NobodyListens, BeginPacket, PostPacket, BeginGroups, EndPacket, SkipClient, VisitClient,
     PostToGroup, pushOnly, scheduler
<1>2. CASE Requests \/ \E c \in Conns : RunRemove(c) \/ TimerRemoves(c)
  BY <1>2 DEF Requests, Describe, Setup, Play, Teardown, Answer, HandleWrite, HangUp, Serves,
     RunRemove, Calls,
     TimerRemoves
<1>3. CASE \/ AddClient \/ AskRemoval \/ TakeEvent \/ FinishEvent
           \/ TriggersDone \/ TimersDone \/ PollDone
  BY <1>3 DEF AddClient, AskRemoval, TakeEvent, FinishEvent, TriggersDone, TimersDone, PollDone
<1>4. CASE ReleasePlace \/ UNCHANGED vars
  BY <1>4 DEF ReleasePlace, schedOnly, session, scheduler, vars
<1>5. CASE \/ \E r \in Rtps, p \in Packets :
                SendNothing(r, p) \/ SendPacket(r, p) \/ UdpFails(r, p) \/ StraySend(r, p)
           \/ \E r \in Conns, p \in Packets : TcpFails(r, p)
  BY <1>5 DEF SendNothing, SendPacket, UdpFails, TcpFails, StraySend, BeginSend, Calls
<1> QED
  BY <1>1, <1>2, <1>3, <1>4, <1>5 DEF Next, OwnerWorks, PusherWorks, PushSteps, SchedulerWorks

LEMMA ClientInvStep ==
  ASSUME FifoParts, ClientInv, [Next]_vars
  PROVE  ClientInv'
<1> USE DEF FifoParts
<1> SUFFICES ASSUME NEW c \in clients'
             PROVE  /\ rtp_conn'[c] # None
                    /\ Registered' => client'[c] = "open" \/ (loop' = "remove" /\ current' = c)
  BY DEF ClientInv
<1>1. CASE c \notin clients
  <2>1. AddClient /\ c = current
    BY <1>1, OwnerStep DEF AddClient, RemoveClient
  <2> QED
    BY <2>1 DEF AddClient, ConnInv, conn
<1>2. CASE c \in clients
  <2>1. c \in Conns /\ rtp_conn[c] # None /\ rtp_conn'[c] = rtp_conn[c]
    BY <1>2, ConnStep DEF ClientInv, PushType
  <2>2. ASSUME Registered', client[c] = "open"
        PROVE  client'[c] = "open" \/ (loop' = "remove" /\ current' = c)
    BY <2>1, <2>2, ConnStep, OwnerStep
  <2>3. ASSUME Registered', loop = "remove", current = c
        PROVE  client'[c] = "open" \/ (loop' = "remove" /\ current' = c)
    <3>1. ~RemoveClient
      BY <2>3 DEF RemoveClient
    <3> QED
      BY <2>3, <3>1, RemoveStays
  <2> QED
    BY <1>2, <2>1, <2>2, <2>3, OwnerStep DEF ClientInv
<1> QED
  BY <1>1, <1>2

\* While the pusher has map_mutex_, clients_ stays as it is.
LEMMA MutexHolds ==
  ASSUME PushType, PushInv, [Next]_vars, pusher \in Locking
  PROVE  UNCHANGED clients
BY OwnerStep DEF PushInv, AddClient, RemoveClient

LEMMA PushInvStep ==
  ASSUME FifoParts, ClientInv, [Next]_vars
  PROVE  PushInv'
<1> USE DEF FifoParts, PushInv, Locking
<1>1. \A c \in clients : c \in Conns /\ rtp_conn'[c] = rtp_conn[c]
  BY ConnStep DEF ClientInv, PushType
<1>2. is_multicast => is_multicast'
  BY OwnerStep
<1>3. owner' # owner => pusher = "idle" /\ PushKept
  BY OwnerStep DEF OwnerWorks, StartMulticast, StartUnicast, RemoveSession, PushKept, push
<1>4. CASE PushKept
  BY <1>1, <1>2, <1>3, <1>4, MutexHolds DEF PushKept
<1>5. CASE PushFrame
  BY <1>5 DEF PushFrame, CanPush, pushOnly
<1>6. CASE NobodyListens
  BY <1>6 DEF NobodyListens, CanPush, pushOnly
<1>7. CASE BeginPacket
  BY <1>7 DEF BeginPacket, pushOnly
<1>8. CASE PostPacket
  BY <1>8 DEF PostPacket, pushOnly
<1>9. CASE BeginGroups
  BY <1>9 DEF BeginGroups, pushOnly
<1>10. CASE EndPacket
  BY <1>10 DEF EndPacket, pushOnly, PushType
<1>11. ASSUME NEW c \in Conns, SkipClient(c) PROVE PushInv'
  BY <1>11 DEF SkipClient, pushOnly
<1>12. ASSUME NEW c \in Conns, VisitClient(c) PROVE PushInv'
  <2>1. rtp_conn[c] = c /\ c \in clients
    BY <1>12 DEF VisitClient, Skips, ClientInv, ConnType
  <2> QED
    BY <1>12, <2>1 DEF VisitClient, pushOnly, conn
<1>13. ASSUME NEW g \in Groups, PostToGroup(g) PROVE PushInv'
  BY <1>13 DEF PostToGroup, pushOnly
<1> QED
  BY <1>4, <1>5, <1>6, <1>7, <1>8, <1>9, <1>10, <1>11, <1>12, <1>13, PushCases DEF PushSteps

-----------------------------------------------------------------------------
(***************************************************************************)
(* Sends and their order                                                   *)
(***************************************************************************)

\* A client that the pusher is about to serve has not asked for its removal.
LEMMA HeldStays ==
  ASSUME FifoParts, ClientInv, PostPacket
  PROVE  /\ held \in Conns /\ rtp_conn[held] = held
         /\ client[held] # "gone" /\ held \notin timers
         /\ fate[RemoveEvent(held)] = "new"
         /\ packet \in Packets /\ UNCHANGED <<conn, scheduler>>
<1> USE DEF FifoParts, PushType, PushInv, PostPacket
<1>1. held \in clients /\ held \in Conns /\ rtp_conn[held] = held /\ Registered
  BY DEF Registered
<1>2. client[held] = "open" \/ (loop = "remove" /\ current = held)
  BY <1>1 DEF ClientInv
<1>3. fate[RemoveEvent(held)] = "new" /\ client[held] # "gone"
  BY <1>1, <1>2 DEF ConnInv, Leaving
<1> QED
  BY <1>1, <1>3 DEF ConnInv, PacketType, pushOnly

\* The loop comes to the timers when no event is left.
LEMMA TimersCome ==
  ASSUME [Next]_vars, loop' = "timers"
  PROVE  loop = "timers" \/ TriggersDone
<1>1. CASE OwnerWorks \/ PushSteps
  BY <1>1 DEF OwnerWorks, StartMulticast, StartUnicast, RemoveSession, PushSteps, PushFrame,
     NobodyListens, BeginPacket, PostPacket, BeginGroups, EndPacket, SkipClient, VisitClient,
     PostToGroup, pushOnly, scheduler
<1>2. CASE Requests \/ \E c \in Conns : RunRemove(c) \/ TimerRemoves(c)
  BY <1>2 DEF Requests, Describe, Setup, Play, Teardown, Answer, HandleWrite, HangUp, BeginClose,
     RunRemove,
     TimerRemoves, scheduler
<1>3. CASE \/ AddClient \/ RemoveClient \/ AskRemoval \/ TakeEvent \/ ReleasePlace \/ FinishEvent
           \/ TimersDone \/ PollDone \/ UNCHANGED vars
  BY <1>3 DEF AddClient, RemoveClient, AskRemoval, TakeEvent, ReleasePlace, FinishEvent,
     TimersDone,
     PollDone, scheduler, vars
<1>4. CASE \/ \E r \in Rtps, p \in Packets :
                SendNothing(r, p) \/ SendPacket(r, p) \/ UdpFails(r, p) \/ StraySend(r, p)
           \/ \E r \in Conns, p \in Packets : TcpFails(r, p)
  BY <1>4 DEF SendNothing, SendPacket, UdpFails, StraySend, TcpFails, BeginClose, scheduler
<1> QED
  BY <1>1, <1>2, <1>3, <1>4 DEF Next, OwnerWorks, PusherWorks, PushSteps, SchedulerWorks

LEMMA SendInvStep ==
  ASSUME FifoParts, ClientInv, SendInv, OrderInv, [Next]_vars
  PROVE  SendInv'
<1> USE DEF FifoParts, Offered
<1>1. ASSUME NEW c \in Conns, NEW p \in Packets, fate'[SendEvent(c, p)] # "new"
      PROVE  rtp_conn'[c] = c
  <2>1. c # None /\ c \in Rtps /\ c \notin Groups
    BY NameAssumption DEF Rtps
  <2>2. rtp_conn[c] = c
    BY <1>1, <2>1, SendFate, HeldStays DEF SendInv
  <2> QED
    BY <2>1, <2>2, ConnStep
<1>2. ASSUME NEW g \in Groups, NEW p \in Packets, fate'[SendEvent(g, p)] # "new"
      PROVE  is_multicast'
  <2>1. g \in Rtps /\ g \notin Conns
    BY NameAssumption DEF Rtps
  <2>2. is_multicast
    BY <1>2, <2>1, SendFate DEF SendInv, PostToGroup, PushInv
  <2> QED
    BY <2>2, OwnerStep
<1>3. ASSUME NEW c \in Conns, NEW p \in Packets, fate'[SendEvent(c, p)] = "queued"
      PROVE  client'[c] # "gone" /\ ~(loop' = "timers" /\ c \in timers')
  <2>1. c \in Rtps /\ c \notin Groups /\ NoEvent \notin Events
    BY NameAssumption, EventsDiffer DEF Rtps
  <2>2. SendEvent(c, p) \in Events /\ RemoveEvent(c) \in Events
        /\ SendEvent(c, p) # RemoveEvent(c)
    BY <2>1, EventsDiffer
  <2>3. CASE fate[SendEvent(c, p)] = "queued"
    <3>1. ~RunRemove(c)
      <4>1. SUFFICES ASSUME RunRemove(c) PROVE FALSE
        OBVIOUS
      <4>2. running = RemoveEvent(c) /\ fate[RemoveEvent(c)] = "queued"
        BY <2>2, <4>1 DEF RunRemove, Calls, Fifo!FifoInv
      <4> QED
        BY <2>1, <2>2, <2>3, <4>2, Fifo!RanFirst DEF OrderInv
    <3>2. ~TimerRemoves(c)
      BY <2>3 DEF TimerRemoves, SendInv
    <3>3. ~TriggersDone
      BY <2>1, <2>2, <2>3 DEF TriggersDone, Fifo!FifoInv, Fifo!Waiting
    <3>4. loop' = "timers" => loop = "timers" /\ timers' \subseteq timers
      BY <3>3, TimersCome, TimersStep DEF AskRemoval, TimerRemoves
    <3> QED
      BY <2>3, <3>1, <3>2, <3>4, ConnStep DEF SendInv
  <2>4. CASE fate[SendEvent(c, p)] # "queued"
    <3>1. PostPacket /\ c = held
      BY <1>3, <2>1, <2>4, SendFate
    <3> QED
      BY <3>1, HeldStays DEF conn, scheduler
  <2> QED
    BY <2>3, <2>4
<1> QED
  BY <1>1, <1>2, <1>3 DEF SendInv

\* A packet is offered before the next.
LEMMA OfferedInvStep ==
  ASSUME FifoParts, OfferedInv, [Next]_vars
  PROVE  OfferedInv'
<1> USE DEF Offered
<1>1. packet' >= packet /\ packet \in Nat /\ packet' \in Nat
  BY PacketTypeStep, PacketAssumption DEF FifoParts, PacketType
<1>2. pusher \in Locking /\ packet' = packet => pusher' \in Locking
  <2>1. CASE EndPacket
    BY <1>1, <2>1 DEF EndPacket
  <2> QED
    BY <2>1, PushCases DEF PushSteps, PushKept, PushFrame, CanPush, NobodyListens, BeginPacket,
       PostPacket, BeginGroups, SkipClient, VisitClient, PostToGroup, Locking
<1>3. ASSUME NEW r \in Rtps, NEW p \in Packets, fate'[SendEvent(r, p)] # "new"
      PROVE  p <= packet' /\ (p = packet' => pusher' \in Locking)
  <2>1. p \in Nat
    BY PacketAssumption DEF Packets
  <2>2. CASE fate[SendEvent(r, p)] # "new"
    BY <1>1, <1>2, <2>1, <2>2 DEF OfferedInv
  <2>3. CASE fate[SendEvent(r, p)] = "new"
    <3>1. p = packet /\ pusher \in Locking /\ packet' = packet
      BY <1>3, <2>3, SendFate DEF PostPacket, PostToGroup, Locking
    <3> QED
      BY <1>1, <1>2, <3>1
  <2> QED
    BY <2>2, <2>3
<1> QED
  BY <1>3 DEF OfferedInv

LEMMA OrderInvStep ==
  ASSUME FifoParts, ClientInv, OrderInv, OfferedInv, [Next]_vars
  PROVE  OrderInv'
<1> USE DEF FifoParts, Offered
<1>1. [Fifo!Next]_(Fifo!vars) /\ NoEvent \notin Events
  BY ScheduledStep, EventsDiffer
<1>2. ASSUME NEW c \in Conns, NEW p \in Packets,
             fate'[SendEvent(c, p)] = "queued", fate'[RemoveEvent(c)] = "queued"
      PROVE  Fifo!Before(SendEvent(c, p), RemoveEvent(c))'
  <2>1. c \in Rtps /\ c \notin Groups
    BY NameAssumption DEF Rtps
  <2>2. SendEvent(c, p) \in Events /\ RemoveEvent(c) \in Events
    BY <2>1, EventsDiffer
  <2>3. fate[SendEvent(c, p)] = "queued"
    <3>1. SUFFICES ASSUME fate[SendEvent(c, p)] # "queued" PROVE FALSE
      OBVIOUS
    <3>2. PostPacket /\ c = held
      BY <1>2, <2>1, <3>1, SendFate
    <3>3. ~AskRemoval
      BY <3>2, HeldStays DEF AskRemoval, scheduler
    <3> QED
      BY <1>2, <3>2, <3>3, HeldStays, RemovalFate
  <2>4. CASE fate[RemoveEvent(c)] = "queued"
    BY <1>1, <1>2, <2>2, <2>3, <2>4, Fifo!OrderKept DEF OrderInv
  <2>5. CASE fate[RemoveEvent(c)] # "queued"
    BY <1>1, <1>2, <2>2, <2>3, <2>5, Fifo!PostedLast
  <2> QED
    BY <2>4, <2>5
<1>3. ASSUME NEW r \in Rtps, NEW p \in Packets, NEW q \in Packets, p < q,
             fate'[SendEvent(r, p)] = "queued", fate'[SendEvent(r, q)] = "queued"
      PROVE  Fifo!Before(SendEvent(r, p), SendEvent(r, q))'
  <2>1. SendEvent(r, p) \in Events /\ SendEvent(r, q) \in Events
    BY EventsDiffer
  <2>2. p \in Nat /\ q \in Nat /\ packet \in Nat
    BY PacketAssumption DEF Packets, PacketType
  <2>3. fate[SendEvent(r, p)] = "queued"
    <3>1. SUFFICES ASSUME fate[SendEvent(r, p)] # "queued" PROVE FALSE
      OBVIOUS
    <3>2. p = packet
      BY <1>3, <3>1, SendFate
    <3>3. q <= packet
      BY <1>3, <2>2, SendFate DEF OfferedInv
    <3> QED
      BY <1>3, <2>2, <3>2, <3>3
  <2>4. CASE fate[SendEvent(r, q)] = "queued"
    BY <1>1, <1>3, <2>1, <2>3, <2>4, Fifo!OrderKept DEF OrderInv
  <2>5. CASE fate[SendEvent(r, q)] # "queued"
    BY <1>1, <1>3, <2>1, <2>3, <2>5, Fifo!PostedLast
  <2> QED
    BY <2>4, <2>5
<1> QED
  BY <1>2, <1>3 DEF OrderInv

LEMMA RanInvStep ==
  ASSUME FifoParts, OrderInv, OfferedInv, RanInv, [Next]_vars
  PROVE  RanInv'
<1> USE DEF FifoParts, Offered
<1> SUFFICES ASSUME NEW r \in Rtps, NEW p \in Packets, NEW q \in Packets,
                    fate'[SendEvent(r, p)] = "ran", fate'[SendEvent(r, q)] = "queued"
             PROVE  p < q
  BY DEF RanInv
<1>1. p \in Nat /\ q \in Nat /\ packet \in Nat
  BY PacketAssumption DEF Packets, PacketType
<1>2. SendEvent(r, p) \in Events /\ SendEvent(r, q) \in Events /\ NoEvent \notin Events
  BY EventsDiffer
<1>3. SendEvent(r, p) # SendEvent(r, q) /\ p # q
  OBVIOUS
<1>4. CASE fate[SendEvent(r, q)] = "queued" /\ fate[SendEvent(r, p)] = "ran"
  BY <1>4 DEF RanInv
<1>5. CASE fate[SendEvent(r, q)] = "queued" /\ fate[SendEvent(r, p)] # "ran"
  <2>1. running = SendEvent(r, p) /\ fate[SendEvent(r, p)] = "queued"
    BY <1>5, SendFate
  <2>2. ~Fifo!Before(SendEvent(r, q), SendEvent(r, p))
    BY <1>2, <1>3, <2>1, Fifo!RanFirst
  <2>3. ~(q < p)
    BY <1>5, <2>1, <2>2 DEF OrderInv
  <2> QED
    BY <1>1, <1>3, <2>3
<1>6. CASE fate[SendEvent(r, q)] # "queued"
  <2>1. q = packet
    BY <1>6, SendFate
  <2>2. p <= packet
    BY SendFate DEF OfferedInv
  <2> QED
    BY <1>1, <1>3, <2>1, <2>2
<1> QED
  BY <1>4, <1>5, <1>6

-----------------------------------------------------------------------------
(***************************************************************************)
(* What is sent                                                            *)
(***************************************************************************)

\* A send that runs adds its packet, or none.
LEMMA SentStep ==
  ASSUME FifoParts, SentType, [Next]_vars, NEW r \in Rtps
  PROVE  \/ sent'[r] = sent[r]
         \/ sent'[r] = <<>>
         \/ \E p \in Packets, keeps \in BOOLEAN :
              /\ SendPacket(r, p)
              /\ sent'[r] = Append(sent[r], Item(r, p, keeps))
              /\ ~keeps => transport[r] = "tcp"
              /\ fate[SendEvent(r, p)] = "queued" /\ fate'[SendEvent(r, p)] = "ran"
<1> USE DEF SentType
<1>1. CASE UNCHANGED rtp
  BY <1>1 DEF rtp
<1>2. ASSUME NEW c \in Conns, Setup(c) \/ Play(c) \/ Teardown(c) PROVE sent'[r] = sent[r]
  BY <1>2 DEF Setup, Play, Teardown
<1>3. ASSUME NEW c \in Conns, RunRemove(c) \/ TimerRemoves(c)
      PROVE  sent'[r] = sent[r] \/ sent'[r] = <<>>
  BY <1>3 DEF RunRemove, TimerRemoves, Destroy
<1>4. ASSUME NEW s \in Rtps, NEW p \in Packets,
             SendNothing(s, p) \/ UdpFails(s, p) \/ TcpFails(s, p)
      PROVE  sent'[r] = sent[r]
  BY <1>4 DEF SendNothing, UdpFails, TcpFails
<1>5. ASSUME NEW s \in Rtps, NEW p \in Packets, SendPacket(s, p), sent'[r] # sent[r]
      PROVE  /\ r = s
             /\ \E keeps \in BOOLEAN : /\ sent'[r] = Append(sent[r], Item(r, p, keeps))
                                       /\ ~keeps => transport[r] = "tcp"
             /\ fate[SendEvent(r, p)] = "queued" /\ fate'[SendEvent(r, p)] = "ran"
  <2>1. PICK keeps \in BOOLEAN : Record(s, p, keeps) /\ (~keeps => transport[s] = "tcp")
    BY <1>5, Sends
  <2>4. r = s /\ sent'[r] = Append(sent[r], Item(r, p, keeps))
    BY <1>5, <2>1 DEF Record, Item
  <2>2. running = SendEvent(s, p) /\ SendEvent(s, p) \in Events /\ Sched!Finish
    BY <1>5, EventsDiffer DEF SendPacket, BeginSend, Calls
  <2>3. fate[running] = "queued" /\ fate'[running] = "ran"
    BY <2>2 DEF FifoParts, Fifo!FifoInv, Fifo!TypeOK, Sched!Finish
  <2> QED
    BY <2>1, <2>2, <2>3, <2>4
<1> QED
  BY <1>1, <1>2, <1>3, <1>4, <1>5, RtpCases DEF RtpSteps, Rtps

LEMMA Appended ==
  ASSUME SentType, NEW r \in Rtps, NEW p \in Packets, NEW keeps \in BOOLEAN,
         sent'[r] = Append(sent[r], Item(r, p, keeps))
  PROVE  /\ Len(sent[r]) \in Nat /\ Len(sent'[r]) = Len(sent[r]) + 1
         /\ \A i \in 1 .. Len(sent[r]) : sent'[r][i] = sent[r][i] /\ sent[r][i] \in Sent
         /\ sent'[r][Len(sent[r]) + 1] = Item(r, p, keeps)
<1>1. Item(r, p, keeps) \in Sent /\ sent[r] \in Seq(Sent)
  BY DEF SentType, Sent, Item
<1> QED
  BY <1>1, AppendProperties, LenProperties, ElementOfSeq

LEMMA SentInvStep ==
  ASSUME FifoParts, SentType, RanInv, SentInv, [Next]_vars
  PROVE  SentInv'
<1> USE DEF SentInv
<1> SUFFICES ASSUME NEW r \in Rtps, NEW i \in 1 .. Len(sent'[r])
             PROVE  /\ fate'[SendEvent(r, sent'[r][i].pkt)] = "ran"
                    /\ i > 1 => sent'[r][i].pkt > sent'[r][i - 1].pkt
  OBVIOUS
<1>1. ASSUME NEW p \in Packets, fate[SendEvent(r, p)] = "ran"
      PROVE  fate'[SendEvent(r, p)] = "ran"
  BY <1>1, SendFate
<1>2. \A j \in 1 .. Len(sent[r]) : sent[r][j].pkt \in Packets
  <2>1. sent[r] \in Seq(Sent)
    BY DEF SentType
  <2>2. \A j \in 1 .. Len(sent[r]) : sent[r][j] \in Sent
    BY <2>1, ElementOfSeq
  <2> QED
    BY <2>2 DEF Sent
<1>3. CASE sent'[r] = sent[r]
  BY <1>1, <1>2, <1>3
<1>4. CASE sent'[r] = <<>>
  <2>1. Len(sent'[r]) = 0
    BY <1>4, EmptySeq
  <2> QED
    BY <2>1
<1>5. ASSUME NEW p \in Packets, NEW keeps \in BOOLEAN,
             sent'[r] = Append(sent[r], Item(r, p, keeps)),
             fate[SendEvent(r, p)] = "queued", fate'[SendEvent(r, p)] = "ran"
      PROVE  /\ fate'[SendEvent(r, sent'[r][i].pkt)] = "ran"
             /\ i > 1 => sent'[r][i].pkt > sent'[r][i - 1].pkt
  <2>1. /\ Len(sent[r]) \in Nat /\ Len(sent'[r]) = Len(sent[r]) + 1
        /\ \A j \in 1 .. Len(sent[r]) : sent'[r][j] = sent[r][j]
        /\ sent'[r][Len(sent[r]) + 1].pkt = p
    BY <1>5, Appended DEF Item
  <2>2. CASE i = Len(sent[r]) + 1
    <3>1. ASSUME i > 1 PROVE sent'[r][i - 1].pkt < p
      <4>1. i - 1 \in 1 .. Len(sent[r])
        BY <2>1, <2>2, <3>1
      <4> QED
        BY <1>2, <1>5, <2>1, <4>1 DEF RanInv
    <3>2. i > 1 => p \in Int /\ sent'[r][i - 1].pkt \in Int
      <4>1. i > 1 => i - 1 \in 1 .. Len(sent[r])
        BY <2>1, <2>2
      <4>2. Packets \subseteq Int
        BY PacketAssumption DEF Packets
      <4> QED
        BY <1>2, <2>1, <4>1, <4>2
    <3>3. sent'[r][i].pkt = p
      BY <2>1, <2>2
    <3> QED
      BY <1>5, <3>1, <3>2, <3>3
  <2>3. CASE i # Len(sent[r]) + 1
    <3>1. i \in 1 .. Len(sent[r]) /\ (i > 1 => i - 1 \in 1 .. Len(sent[r]))
      BY <2>1, <2>3
    <3> QED
      BY <1>1, <1>2, <2>1, <3>1
  <2> QED
    BY <2>2, <2>3
<1> QED
  BY <1>3, <1>4, <1>5, SentStep

LEMMA KeptInvStep ==
  ASSUME FifoParts, PlayType, SentType, KeptInv, [Next]_vars
  PROVE  KeptInv'
<1> SUFFICES ASSUME NEW r \in Rtps, NEW i \in 1 .. Len(sent'[r]), ~sent'[r][i].kept
             PROVE  transport'[r] = "tcp"
  BY DEF KeptInv
<1>1. CASE sent'[r] = sent[r]
  <2>1. transport[r] = "tcp"
    BY <1>1 DEF KeptInv
  <2>2. CASE transport'[r] = transport[r]
    BY <2>1, <2>2
  <2>3. ASSUME NEW c \in Conns, Setup(c) PROVE transport'[r] = "tcp"
    <3>1. transport' = [transport EXCEPT ![c] = Mode[c]]
      BY <2>3, SetupOwn DEF Setup, FifoParts
    <3> QED
      BY <2>1, <3>1 DEF PlayType
  <2>4. ASSUME NEW c \in Conns, RunRemove(c) \/ TimerRemoves(c) PROVE transport'[r] = "tcp"
    <3>1. Destroy(c) /\ c \in Rtps
      BY <2>4 DEF RunRemove, TimerRemoves, Rtps
    <3>2. r # c
      <4>1. ASSUME r = c PROVE Len(sent'[r]) = 0
        BY <3>1, <4>1, EmptySeq DEF Destroy, SentType
      <4> QED
        BY <4>1
    <3> QED
      BY <2>1, <3>1, <3>2 DEF Destroy, PlayType
  <2>5. ASSUME NEW c \in Conns, Play(c) \/ Teardown(c) PROVE UNCHANGED transport
    BY <2>5 DEF Play, Teardown
  <2>6. ASSUME NEW s \in Rtps, NEW p \in Packets,
               SendNothing(s, p) \/ SendPacket(s, p) \/ UdpFails(s, p) \/ TcpFails(s, p)
        PROVE  UNCHANGED transport
    BY <2>6 DEF SendNothing, SendPacket, UdpFails, TcpFails
  <2>7. UNCHANGED rtp => UNCHANGED transport
    BY DEF rtp
  <2> QED
    BY <2>2, <2>3, <2>4, <2>5, <2>6, <2>7, RtpCases DEF RtpSteps, Rtps
<1>2. CASE sent'[r] = <<>>
  <2>1. Len(sent'[r]) = 0
    BY <1>2, EmptySeq
  <2> QED
    BY <2>1
<1>3. ASSUME NEW p \in Packets, NEW keeps \in BOOLEAN, SendPacket(r, p),
             sent'[r] = Append(sent[r], Item(r, p, keeps)), ~keeps => transport[r] = "tcp"
      PROVE  transport'[r] = "tcp"
  <2>1. UNCHANGED transport
    BY <1>3 DEF SendPacket
  <2>2. /\ Len(sent[r]) \in Nat /\ Len(sent'[r]) = Len(sent[r]) + 1
        /\ \A j \in 1 .. Len(sent[r]) : sent'[r][j] = sent[r][j]
        /\ sent'[r][Len(sent[r]) + 1].kept = keeps
    BY <1>3, Appended DEF Item
  <2>3. CASE i = Len(sent[r]) + 1
    BY <1>3, <2>1, <2>2, <2>3
  <2>4. CASE i # Len(sent[r]) + 1
    <3>1. i \in 1 .. Len(sent[r])
      BY <2>2, <2>4
    <3> QED
      BY <2>1, <2>2, <3>1 DEF KeptInv
  <2> QED
    BY <2>3, <2>4
<1> QED
  BY <1>1, <1>2, <1>3, SentStep

LEMMA SeqKept ==
  ASSUME NEW r, InSequence(r), sent'[r] = sent[r],
         r \notin rtp_closed' => r \notin rtp_closed,
         Counts(r)' => Counts(r) /\ packet_seq'[r] = packet_seq[r]
  PROVE  InSequence(r)'
BY DEF InSequence

\* A packet that is handed over takes the next number, kept or not.
LEMMA SeqAppended ==
  ASSUME SentType, NEW r \in Conns, NEW p \in Packets, NEW keeps \in BOOLEAN,
         InSequence(r), Counts(r),
         sent'[r] = Append(sent[r], Item(r, p, keeps)),
         packet_seq'[r] = (packet_seq[r] + 1) % SeqModulus
  PROVE  InSequence(r)'
<1> DEFINE n == Len(sent[r])
<1>1. /\ n \in Nat /\ Len(sent'[r]) = n + 1
      /\ \A i \in 1 .. n : sent'[r][i] = sent[r][i]
      /\ sent'[r][n + 1].seq = packet_seq[r]
  BY Appended DEF Rtps, Item
<1>2. ASSUME NEW i \in 2 .. n + 1
      PROVE  sent'[r][i].seq = (sent'[r][i - 1].seq + 1) % SeqModulus
  <2>1. CASE i = n + 1
    <3>1. n > 0 /\ n \in 1 .. n /\ i - 1 = n
      BY <1>1, <2>1
    <3>2. packet_seq[r] = (sent[r][n].seq + 1) % SeqModulus
      BY <3>1 DEF InSequence
    <3> QED
      BY <1>1, <2>1, <3>1, <3>2
  <2>2. CASE i # n + 1
    <3>1. n > 0 /\ i \in 2 .. n /\ i \in 1 .. n /\ i - 1 \in 1 .. n
      BY <1>1, <2>2
    <3>2. sent[r][i].seq = (sent[r][i - 1].seq + 1) % SeqModulus
      BY <3>1 DEF InSequence, Counts
    <3> QED
      BY <1>1, <3>1, <3>2
  <2> QED
    BY <2>1, <2>2
<1>3. packet_seq'[r] = (sent'[r][n + 1].seq + 1) % SeqModulus
  BY <1>1
<1> QED
  BY <1>1, <1>2, <1>3 DEF InSequence

LEMMA SeqInvStep ==
  ASSUME FifoParts, PlayType, SentType, SeqInv, [Next]_vars
  PROVE  SeqInv'
<1> SUFFICES ASSUME NEW r \in Conns PROVE InSequence(r)'
  BY DEF SeqInv
<1> USE DEF Counts, SentType, PlayType
<1>1. InSequence(r) /\ r \in Rtps /\ r \notin Groups
  BY NameAssumption DEF SeqInv, Rtps
<1>2. client'[r] = "open" => client[r] = "open"
  BY ConnStep
<1>3. CASE UNCHANGED rtp
  BY <1>1, <1>2, <1>3, SeqKept DEF rtp
<1>4. ASSUME NEW c \in Conns, Setup(c) PROVE InSequence(r)'
  <2>1. transport' = [transport EXCEPT ![c] = Mode[c]] /\ client[c] = "open"
        /\ UNCHANGED <<client, rtp_closed, packet_seq, sent>>
    BY <1>4, SetupOwn DEF Setup, Serves, FifoParts
  <2> QED
    BY <1>1, <2>1, SeqKept
<1>5. ASSUME NEW c \in Conns, Play(c) \/ Teardown(c) PROVE InSequence(r)'
  <2>1. UNCHANGED <<client, transport, packet_seq, sent>> /\ rtp_closed \subseteq rtp_closed'
    BY <1>5 DEF Play, Teardown, TearDown
  <2> QED
    BY <1>1, <2>1, SeqKept
<1>6. ASSUME NEW c \in Conns, RunRemove(c) \/ TimerRemoves(c) PROVE InSequence(r)'
  <2>1. Destroy(c)
    BY <1>6 DEF RunRemove, TimerRemoves
  <2>2. CASE r = c
    <3>1. Len(sent'[r]) = 0
      BY <1>1, <2>1, <2>2, EmptySeq DEF Destroy
    <3> QED
      BY <3>1 DEF InSequence
  <2>3. CASE r # c
    BY <1>1, <1>2, <2>1, <2>3, SeqKept DEF Destroy
  <2> QED
    BY <2>2, <2>3
<1>7. ASSUME NEW s \in Rtps, NEW p \in Packets, SendNothing(s, p) PROVE InSequence(r)'
  BY <1>1, <1>2, <1>7, SeqKept DEF SendNothing, BeginSend, SetRtpHeader
<1>8. ASSUME NEW s \in Rtps, NEW p \in Packets, SendPacket(s, p) PROVE InSequence(r)'
  <2>1. /\ UNCHANGED <<client, transport, rtp_closed>>
        /\ packet_seq' = [packet_seq EXCEPT ![s] = (@ + 1) % SeqModulus]
        /\ \/ transport[s] = "tcp" /\ client[s] # "open" /\ UNCHANGED sent
           \/ /\ transport[s] = "tcp" => client[s] = "open"
              /\ \E keeps \in BOOLEAN : Record(s, p, keeps)
    BY <1>8, Sends DEF SendPacket, BeginSend, SetRtpHeader
  <2>2. CASE r # s
    BY <1>1, <2>1, <2>2, SeqKept DEF Record
  <2>3. CASE r = s /\ ~Counts(r) /\ UNCHANGED sent
    BY <1>1, <2>1, <2>3, SeqKept
  <2>4. CASE r = s /\ r \in rtp_closed
    BY <2>1, <2>4 DEF InSequence
  <2>5. CASE r = s /\ Counts(r)
    <3>1. PICK keeps \in BOOLEAN : Record(s, p, keeps)
      BY <2>1, <2>5
    <3>2. sent'[r] = Append(sent[r], Item(r, p, keeps))
      BY <1>1, <2>5, <3>1 DEF Record, Item
    <3>3. packet_seq'[r] = (packet_seq[r] + 1) % SeqModulus
      BY <1>1, <2>1, <2>5
    <3> QED
      BY <1>1, <2>5, <3>2, <3>3, SeqAppended
  <2> QED
    BY <2>1, <2>2, <2>3, <2>4, <2>5
<1>9. ASSUME NEW s \in Rtps, NEW p \in Packets, UdpFails(s, p) PROVE InSequence(r)'
  <2>1. /\ UNCHANGED <<client, transport, sent>> /\ TearDown(s)
        /\ packet_seq' = [packet_seq EXCEPT ![s] = (@ + 1) % SeqModulus]
    BY <1>9 DEF UdpFails, BeginSend, SetRtpHeader, conn
  <2>2. CASE r # s
    BY <1>1, <2>1, <2>2, SeqKept DEF TearDown
  <2>3. CASE r = s
    BY <1>1, <2>1, <2>3 DEF TearDown, InSequence
  <2> QED
    BY <2>2, <2>3
<1>10. ASSUME NEW s \in Conns, NEW p \in Packets, TcpFails(s, p) PROVE InSequence(r)'
  <2>1. /\ UNCHANGED <<transport, rtp_closed, sent>> /\ transport[s] = "tcp"
        /\ client'[s] = "closed"
        /\ packet_seq' = [packet_seq EXCEPT ![s] = (@ + 1) % SeqModulus]
    BY <1>10 DEF TcpFails, BeginSend, SetRtpHeader, BeginClose, FifoParts, ConnType
  <2>2. CASE r # s
    BY <1>1, <1>2, <2>1, <2>2, SeqKept
  <2>3. CASE r = s
    BY <1>1, <2>1, <2>3, SeqKept
  <2> QED
    BY <2>2, <2>3
<1> QED
  BY <1>3, <1>4, <1>5, <1>6, <1>7, <1>8, <1>9, <1>10, RtpCases DEF RtpSteps

-----------------------------------------------------------------------------
(***************************************************************************)
(* Who is offered what                                                     *)
(***************************************************************************)

LEMMA ServedInvStep ==
  ASSUME FifoParts, ServedInv, [Next]_vars
  PROVE  ServedInv'
<1> USE DEF FifoParts, Offered
<1> SUFFICES ASSUME NEW c \in Conns, NEW p \in Packets,
                    client'[c] = "open", fate'[SendEvent(c, p)] # "new"
             PROVE  c \in clients'
  BY DEF ServedInv
<1>1. client[c] = "open" /\ c \in Rtps /\ c \notin Groups
  BY ConnStep, NameAssumption DEF Rtps
<1>2. c \in clients
  BY <1>1, SendFate DEF ServedInv, PostPacket, PushInv
<1>3. RemoveClient => c # current
  BY <1>1 DEF RemoveClient, ConnInv, Leaving
<1> QED
  BY <1>2, <1>3, OwnerStep DEF AddClient, RemoveClient

\* is_closed_ is cleared only with the RtpConnection.
LEMMA RtpClosedStep ==
  ASSUME ConnType, [Next]_vars, NEW c \in Conns, c \in rtp_closed, c \notin rtp_closed'
  PROVE  client'[c] = "gone"
<1>1. ASSUME NEW d \in Conns, RunRemove(d) \/ TimerRemoves(d)
      PROVE  client'[c] = "gone"
  BY <1>1 DEF RunRemove, TimerRemoves, Destroy, ConnType
<1>2. RtpSteps
  BY RtpCases DEF rtp
<1>3. ~\E d \in Conns : Setup(d) \/ Play(d) \/ Teardown(d)
  BY DEF Setup, Play, Teardown, TearDown
<1>4. ~\E r \in Rtps, p \in Packets :
         SendNothing(r, p) \/ SendPacket(r, p) \/ UdpFails(r, p) \/ TcpFails(r, p)
  BY DEF SendNothing, SendPacket, UdpFails, TcpFails, TearDown
<1> QED
  BY <1>1, <1>2, <1>3, <1>4 DEF RtpSteps, Rtps

LEMMA OfferInvStep ==
  ASSUME FifoParts, ClientInv, SendInv, ServedInv, OfferInv, [Next]_vars
  PROVE  OfferInv'
<1> USE DEF FifoParts, Offered
<1> SUFFICES ASSUME NEW c \in Conns, NEW p \in Packets, NEW q \in Packets,
                    Served(c)', fate'[SendEvent(c, p)] # "new", p < q
             PROVE  /\ q < packet' => fate'[SendEvent(c, q)] # "new"
                    /\ q = packet' /\ pusher' \in Locking =>
                         c \in todo' \/ held' = c \/ fate'[SendEvent(c, q)] # "new"
  BY DEF OfferInv
<1>1. Served(c) /\ c \in Rtps /\ c \notin Groups /\ c # None
  BY ConnStep, RtpClosedStep, NameAssumption DEF Served, ConnType, Rtps
<1>2. p \in Nat /\ q \in Nat /\ packet \in Nat /\ packet' \in Nat /\ packet' >= packet
  BY PacketTypeStep, PacketAssumption DEF Packets, PacketType
<1>3. fate[SendEvent(c, q)] # "new" => fate'[SendEvent(c, q)] # "new"
  BY <1>1, SendFate
<1>4. CASE fate[SendEvent(c, p)] = "new"
  <2>1. PostPacket /\ p = packet
    BY <1>1, <1>4, SendFate
  <2>2. packet' = packet
    BY <2>1 DEF PostPacket
  <2> QED
    BY <1>2, <2>1, <2>2
<1>5. CASE fate[SendEvent(c, p)] # "new"
  <2> DEFINE Was == fate[SendEvent(c, q)] # "new"
             Is  == fate'[SendEvent(c, q)] # "new"
  <2>1. Was => Is
    BY <1>3
  <2>2. c \in clients /\ rtp_conn[c] = c
    BY <1>1, <1>5 DEF ServedInv, SendInv, Served
  <2>3. (q < packet => Was) /\
        (q = packet /\ pusher \in Locking => c \in todo \/ held = c \/ Was)
    BY <1>1, <1>5 DEF OfferInv
  <2> HIDE DEF Was, Is
  <2> SUFFICES /\ q < packet' => Is
               /\ q = packet' /\ pusher' \in Locking => c \in todo' \/ held' = c \/ Is
    BY DEF Is
  <2>4. CASE PushKept
    BY <2>1, <2>3, <2>4 DEF PushKept
  <2>5. CASE PushFrame
    BY <2>1, <2>3, <2>5 DEF PushFrame, Locking
  <2>6. CASE NobodyListens
    BY <2>2, <2>6 DEF NobodyListens
  <2>7. CASE BeginPacket
    BY <2>1, <2>2, <2>3, <2>7 DEF BeginPacket
  <2>8. CASE PostPacket
    <3>1. q = packet /\ held = c => Is
      <4>1. SendEvent(c, q) \in Events
        BY <1>1, EventsDiffer
      <4>2. ASSUME q = packet, held = c
            PROVE  Sched!Post(SendEvent(c, q)) \/ fate'[SendEvent(c, q)] = "refused"
        BY <2>8, <4>2 DEF PostPacket, PostTo
      <4> QED
        BY <4>1, <4>2 DEF Is, Sched!Post, Fifo!TypeOK
    <3> QED
      BY <2>1, <2>3, <2>8, <3>1 DEF PostPacket, Locking
  <2>9. CASE BeginGroups
    BY <1>1, <2>1, <2>3, <2>9 DEF BeginGroups, PushInv, Locking
  <2>10. CASE EndPacket
    <3>1. q = packet => Was
      BY <1>1, <2>3, <2>10 DEF EndPacket, PushInv, Locking
    <3>2. packet' = packet + 1 /\ pusher' \notin Locking
      BY <2>10 DEF EndPacket, Locking
    <3> QED
      BY <1>2, <2>1, <2>3, <3>1, <3>2
  <2>11. ASSUME NEW d \in Conns, SkipClient(d)
         PROVE  /\ q < packet' => Is
                /\ q = packet' /\ pusher' \in Locking => c \in todo' \/ held' = c \/ Is
    <3>1. d # c
      BY <1>1, <2>2, <2>11 DEF SkipClient, Skips, Alive, Served
    <3> QED
      BY <2>1, <2>3, <2>11, <3>1 DEF SkipClient, Locking
  <2>12. ASSUME NEW d \in Conns, VisitClient(d)
         PROVE  /\ q < packet' => Is
                /\ q = packet' /\ pusher' \in Locking => c \in todo' \/ held' = c \/ Is
    BY <1>1, <2>1, <2>2, <2>3, <2>12 DEF VisitClient, PushInv, Locking
  <2>13. ASSUME NEW g \in Groups, PostToGroup(g)
         PROVE  /\ q < packet' => Is
                /\ q = packet' /\ pusher' \in Locking => c \in todo' \/ held' = c \/ Is
    BY <1>1, <2>1, <2>3, <2>13 DEF PostToGroup, PushInv, Locking
  <2> QED
    BY <2>4, <2>5, <2>6, <2>7, <2>8, <2>9, <2>10, <2>11, <2>12, <2>13, PushCases DEF PushSteps
<1> QED
  BY <1>4, <1>5

-----------------------------------------------------------------------------
(***************************************************************************)
(* The invariant, and the theorems                                         *)
(***************************************************************************)

LEMMA InitialState == Init => IInv
<1> SUFFICES ASSUME Init PROVE IInv
  OBVIOUS
<1> USE DEF Init, Sched!Init
<1>1. Fifo!TypeOK
  BY EmptySeq DEF Fifo!TypeOK, Fifo!Fates
<1>2. ConnType /\ PushType
  <2>1. 0 \in 0 .. WriteLimit
    BY WriteAssumption
  <2> QED
    BY <2>1 DEF ConnType, PushType, Loops, Locking
<1>3. PlayType
  BY NameAssumption DEF PlayType, Rtps
<1>4. SentType
  <2>1. <<>> \in Seq(Sent) /\ FirstSeqs \subseteq Seqs
    BY EmptySeq, SeqAssumption DEF Seqs
  <2> QED
    BY <2>1 DEF SentType
<1>5. PacketType
  BY PacketAssumption DEF PacketType
<1>6. \A e \in Events : fate[e] = "new"
  OBVIOUS
<1>7. /\ \A c \in Conns : fate[RemoveEvent(c)] = "new"
      /\ \A r \in Rtps, p \in Packets : fate[SendEvent(r, p)] = "new"
      /\ \A c \in Conns : c \in Rtps /\ rtp_conn[c] = None /\ None \notin Groups
      /\ \A g \in Groups : g \in Rtps
  BY <1>6, EventsDiffer, NameAssumption DEF Rtps
<1>8. ConnInv /\ ClientInv /\ PushInv
  BY <1>7 DEF ConnInv, Leaving, ClientInv, PushInv, Locking
<1>9. SendInv /\ OrderInv /\ RanInv /\ OfferedInv /\ ServedInv /\ OfferInv
  BY <1>7 DEF SendInv, OrderInv, RanInv, OfferedInv, ServedInv, OfferInv, Offered
<1>10. SentInv /\ KeptInv /\ SeqInv
  <2>1. \A r \in Rtps : Len(sent[r]) = 0
    BY EmptySeq
  <2> QED
    BY <1>7, <2>1 DEF SentInv, KeptInv, SeqInv, InSequence
<1>11. Fifo!FifoInv
  <2>1. running = NoEvent /\ Len(queue) = 0
    BY EmptySeq
  <2> QED
    BY <1>6, <2>1, EventsDiffer DEF Fifo!FifoInv, Fifo!Waiting
<1> QED
  BY <1>1, <1>2, <1>3, <1>4, <1>5, <1>8, <1>9, <1>10, <1>11 DEF IInv, TypeInv

LEMMA InvariantStep == IInv /\ [Next]_vars => IInv'
<1> SUFFICES ASSUME IInv, [Next]_vars PROVE IInv'
  OBVIOUS
<1>1. FifoParts
  BY DEF IInv, TypeInv, FifoParts
<1>2. TypeInv' /\ Fifo!FifoInv'
  BY TypeStep DEF IInv
<1>3. ConnInv' /\ ClientInv' /\ PushInv'
  BY <1>1, ConnInvStep, ClientInvStep, PushInvStep DEF IInv
<1>4. SendInv' /\ OfferedInv' /\ OrderInv' /\ RanInv'
  BY <1>1, SendInvStep, OfferedInvStep, OrderInvStep, RanInvStep DEF IInv
<1>5. SentInv' /\ KeptInv' /\ SeqInv'
  BY <1>1, SentInvStep, KeptInvStep, SeqInvStep DEF IInv, TypeInv
<1>6. ServedInv' /\ OfferInv'
  BY <1>1, ServedInvStep, OfferInvStep DEF IInv
<1> QED
  BY <1>2, <1>3, <1>4, <1>5, <1>6 DEF IInv

LEMMA AlwaysIInv == Spec => []IInv
BY InitialState, InvariantStep, PTL DEF Spec

\* The types of clients, RtpConnections, pusher and loop, whatever handlers, sends and
\* removals come between each other (MediaSession.h, RtpConnection.h).
THEOREM TypeCorrect == Spec => []TypeInv
<1>1. IInv => TypeInv
  BY DEF IInv
<1> QED
  BY <1>1, AlwaysIInv, PTL

\* The raw pointer of a queued send is good (RtpConnection::SendRtpPacket): whoever hung up,
\* the RtpConnection outlives its sends, except a group of a session that was removed.
THEOREM SendsFindTheirs == Spec => []StraySendOnlyToGroups
<1>1. ASSUME IInv, NEW r \in Rtps, Pending(r), ~Alive(r)
      PROVE  r \in Groups /\ owner = "removed"
  <2>1. PICK p \in Packets : fate[SendEvent(r, p)] = "queued"
    BY <1>1 DEF Pending
  <2>2. r \notin Conns
    BY <1>1, <2>1 DEF IInv, SendInv, Alive, Offered
  <2>3. r \in Groups /\ is_multicast
    BY <1>1, <2>1, <2>2 DEF IInv, SendInv, Offered, Rtps
  <2> QED
    BY <1>1, <2>3 DEF Alive, SessionAlive, Registered, IInv, TypeInv, PushType
<1>2. IInv => StraySendOnlyToGroups
  BY <1>1 DEF StraySendOnlyToGroups
<1> QED
  BY <1>2, AlwaysIInv, PTL

\* While the session can be pushed to, clients_ names no RtpConnection that is gone: the
\* callback of AddSource never erases from clients_ inside its loop (MediaSession.cpp).
THEOREM ClientsLive == Spec => []NoExpiredClient
<1>1. ASSUME IInv, Registered, NEW c \in clients PROVE Alive(rtp_conn[c])
  <2>1. c \in Conns
    BY <1>1 DEF IInv, TypeInv, PushType
  <2>2. client[c] # "gone"
    BY <1>1 DEF IInv, ClientInv, ConnInv, Leaving
  <2> QED
    BY <2>1, <2>2 DEF Alive
<1>2. IInv => NoExpiredClient
  BY <1>1 DEF NoExpiredClient
<1> QED
  BY <1>2, AlwaysIInv, PTL

\* Packets are handed over for each receiver in order, none twice; those for a unicast
\* client that was not torn down have numbers that follow one another, so that a
\* receiver sees a gap only where a full write buffer refused, over TCP; and it is
\* offered each packet after its first, although sends are posted one by one while
\* clients come, leave and fail.
THEOREM StreamsHold == Spec => []StreamUnbroken
<1>1. ASSUME IInv, NEW r \in Rtps, NEW i \in 2 .. Len(sent[r])
      PROVE  /\ sent[r][i].pkt > sent[r][i - 1].pkt
             /\ r \in Conns \ rtp_closed =>
                  sent[r][i].seq = (sent[r][i - 1].seq + 1) % SeqModulus
  <2>1. i \in 1 .. Len(sent[r]) /\ i > 1 /\ Len(sent[r]) > 0
    <3>1. Len(sent[r]) \in Nat
      BY <1>1, LenProperties DEF IInv, TypeInv, SentType
    <3> QED
      BY <3>1
  <2> QED
    BY <1>1, <2>1 DEF IInv, SentInv, SeqInv, InSequence
<1>2. ASSUME IInv, NEW c \in clients \ rtp_closed,
             NEW p \in 1 .. packet - 1, NEW q \in 1 .. packet - 1,
             client[c] = "open", p < q, Offered(c, p)
      PROVE  Offered(c, q)
  <2>1. c \in Conns /\ Served(c)
    BY <1>2 DEF IInv, TypeInv, PushType, Served
  <2>2. p \in Packets /\ q \in Packets /\ q < packet
    BY <1>2, PacketAssumption DEF IInv, TypeInv, PacketType, Packets
  <2> QED
    BY <1>2, <2>1, <2>2 DEF IInv, OfferInv
<1>3. IInv => StreamUnbroken
  BY <1>1, <1>2 DEF StreamUnbroken, IInv, KeptInv
<1> QED
  BY <1>3, AlwaysIInv, PTL

=============================================================================
