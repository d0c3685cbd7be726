-------------------------- MODULE RtspMessageProofs --------------------------
(***************************************************************************)
(* The two ends that parse RTSP messages.                                  *)
(*                                                                         *)
(* First the client's: InStep of RtspPusher, for any number of channels,   *)
(* connections and answers.  What makes it inductive is that only one of   *)
(* three is ever under way on a connection: the request, the response,     *)
(* the end of the handshake (StageInv), and that a SendOptions that waits  *)
(* is the only one, of an OpenUrl that still polls (OptionsInv).           *)
(*                                                                         *)
(* Then the server's: RepliesMatch of RtspRequest, for any messages that   *)
(* carry a CSeq and any cut of the stream, and AnsweredUnlessTorn, for any *)
(* whose headers come once and that end in their blank line (below).       *)
(***************************************************************************)
EXTENDS RtspPusher, RtspRequest, TLAPS, SequenceTheorems, WellFoundedInduction

\* The halves of a response.
Texts == {"ok", "error", "end"}

Names == {"OPTIONS", "ANNOUNCE", "SETUP", "RECORD"}

\* An entry of log, and a connection's members.
Requests == [method : Names, cseq : Nat, channel : Nat]

Members == [method : Names \cup {"NONE"}, cseq : Nat, state : {"START_CONNECT", "START_PUSH"},
            setup : SUBSET Channels, play : SUBSET Channels,
            client : BOOLEAN, closed : BOOLEAN, alive : BOOLEAN]

AppType ==
  /\ sources \subseteq Channels
  /\ session \in BOOLEAN /\ opening \in BOOLEAN
  /\ opened \in 0 .. MaxOpens /\ rtsp_conn \in 0 .. opened
  /\ crashed \in BOOLEAN /\ late \in BOOLEAN

ConnType ==
  /\ conn \in [Conns -> Members]
  /\ mem \in [Conns -> Seq(Texts)] /\ writer \in [Conns -> Nat]
  /\ \A c \in Conns : writer[c] <= Len(mem[c])
  /\ log \in [Conns -> Seq(Requests)]
  /\ answered \in [Conns -> Nat] /\ accepted \in [Conns -> SUBSET Nat]
  /\ incoming \in [Conns -> Seq(Texts)]
  /\ cut \in [Conns -> BOOLEAN]

Tasks == {"options", "disconnect", "close"} \X (0 .. MaxOpens)
TaskType == tasks \in Seq(Tasks)

TypeInv == AppType /\ ConnType /\ TaskType

\* rtsp_conn_ is alive, what is not made yet has sent nothing, and only what has been given
\* up is to be disconnected.
AppInv ==
  /\ opening => rtsp_conn # 0
  /\ rtsp_conn # 0 => conn[rtsp_conn].alive
  /\ \A c \in Conns : c > opened => conn[c].alive /\ log[c] = <<>>
  /\ \A i \in 1..Len(tasks) : tasks[i][1] = "disconnect" =>
       tasks[i][2] # rtsp_conn /\ tasks[i][2] \in 1 .. opened

\* While no OpenUrl has given up early, the only SendOptions that waits is that of the
\* connection that OpenUrl polls for, which has sent nothing.
OptionsInv ==
  ~late => \A i \in 1..Len(tasks) : tasks[i][1] = "options" =>
             /\ opening /\ log[rtsp_conn] = <<>>
             /\ \A j \in 1..Len(tasks) : tasks[j][1] = "options" => j = i

\* A connection that has sent nothing has heard nothing.
SilentInv ==
  \A c \in Conns : log[c] = <<>> =>
    /\ conn[c].cseq = 0 /\ conn[c].state = "START_CONNECT" /\ conn[c].setup = {}
    /\ answered[c] = 0 /\ incoming[c] = <<>> /\ mem[c] = <<>> /\ writer[c] = 0 /\ ~cut[c]

\* What c has sent is the beginning of the handshake, all but the last accepted; nothing,
\* or one whole response, is behind its writer_index_.
LogInv(c) ==
  LET k == Len(log[c])
  IN /\ k <= Len(Handshake)
     /\ \A i \in 1..k : log[c][i].method = Handshake[i] /\ log[c][i].cseq = i
     /\ \A i \in 1..k : i < k => i \in accepted[c]
     /\ writer[c] = 0 /\ (mem[c] = <<>> \/ mem[c] \in Responses)
     /\ conn[c].state = "START_PUSH" => k = Len(Handshake) /\ k \in accepted[c]

\* c waits for the response to what it sent last, which is on its way or not.
WaitInv(c) ==
  LET k == Len(log[c])
  IN /\ conn[c].method = log[c][k].method /\ conn[c].cseq = k - 1
     /\ \/ answered[c] = k - 1 /\ incoming[c] = <<>>
        \/ /\ answered[c] = k /\ incoming[c] \in Responses
           /\ incoming[c][1] = "ok" => k \in accepted[c]
     /\ conn[c].method \in {"OPTIONS", "ANNOUNCE"} => conn[c].setup = {}
     /\ conn[c].method = "SETUP" => MaxChannelCount - 1 \in conn[c].setup

\* c has its last response.
DoneInv(c) == answered[c] = Len(log[c]) /\ incoming[c] = <<>>

Stage(c) ==
  /\ LogInv(c)
  /\ ~conn[c].closed /\ log[c] # <<>> =>
       IF conn[c].state = "START_PUSH" THEN DoneInv(c) ELSE WaitInv(c)

StageInv == ~late => \A c \in Conns : ~cut[c] => Stage(c)

IInv == TypeInv /\ AppInv /\ OptionsInv /\ SilentInv /\ StageInv

-----------------------------------------------------------------------------

LEMMA MinAtMost ==
  ASSUME NEW a \in Nat, NEW b \in Nat
  PROVE  Min({a, b}) <= a
<1>1. \E x \in {a, b} : \A y \in {a, b} : x <= y
  <2>1. CASE a <= b
    BY <2>1
  <2>2. CASE ~(a <= b)
    BY <2>2
  <2> QED
    BY <2>1, <2>2
<1> QED
  BY <1>1 DEF Min

LEMMA TheHandshake ==
  /\ Handshake \in Seq(Names) /\ Len(Handshake) \in {3, 4}
  /\ Handshake[1] = "OPTIONS" /\ Handshake[2] = "ANNOUNCE"
  /\ \A k \in 1 .. Len(Handshake) :
       /\ Handshake[k] = "OPTIONS" => k = 1
       /\ Handshake[k] = "ANNOUNCE" => k = 2
       /\ Handshake[k] = "SETUP" => k = 3 /\ Len(Handshake) = 4
       /\ Handshake[k] = "RECORD" <=> k = Len(Handshake)
  /\ Handshake[3] = IF MaxChannelCount - 1 \in sources THEN "SETUP" ELSE "RECORD"
  /\ Len(Handshake) = 4 <=> MaxChannelCount - 1 \in sources
<1>1. CASE MaxChannelCount - 1 \in sources
  <2>1. Handshake = <<"OPTIONS", "ANNOUNCE", "SETUP", "RECORD">>
    BY <1>1 DEF Handshake
  <2>2. /\ Handshake \in Seq(Names) /\ Len(Handshake) = 4 /\ Handshake[1] = "OPTIONS"
        /\ Handshake[2] = "ANNOUNCE" /\ Handshake[3] = "SETUP" /\ Handshake[4] = "RECORD"
    <3> DEFINE h == <<"OPTIONS", "ANNOUNCE", "SETUP", "RECORD">>
    <3>1. /\ h \in Seq(Names) /\ Len(h) = 4 /\ h[1] = "OPTIONS"
          /\ h[2] = "ANNOUNCE" /\ h[3] = "SETUP" /\ h[4] = "RECORD"
      BY DEF Names
    <3> QED
      BY <2>1, <3>1
  <2>3. 1 .. Len(Handshake) = {1, 2, 3, 4}
    BY <2>2
  <2> HIDE DEF Handshake
  <2> QED
    BY <1>1, <2>2, <2>3
<1>2. CASE MaxChannelCount - 1 \notin sources
  <2>1. Handshake = <<"OPTIONS", "ANNOUNCE", "RECORD">>
    BY <1>2 DEF Handshake
  <2>2. /\ Handshake \in Seq(Names) /\ Len(Handshake) = 3 /\ Handshake[1] = "OPTIONS"
        /\ Handshake[2] = "ANNOUNCE" /\ Handshake[3] = "RECORD"
    <3> DEFINE h == <<"OPTIONS", "ANNOUNCE", "RECORD">>
    <3>1. /\ h \in Seq(Names) /\ Len(h) = 3 /\ h[1] = "OPTIONS"
          /\ h[2] = "ANNOUNCE" /\ h[3] = "RECORD"
      BY DEF Names
    <3> QED
      BY <2>1, <3>1
  <2>3. 1 .. Len(Handshake) = {1, 2, 3}
    BY <2>2
  <2> QED
    BY <1>2, <2>2, <2>3
<1> QED
  BY <1>1, <1>2

LEMMA LogGrows ==
  ASSUME NEW l \in Seq(Requests), NEW q \in Requests
  PROVE  /\ Append(l, q) # <<>> /\ Append(l, q) \in Seq(Requests)
         /\ Len(Append(l, q)) = Len(l) + 1 /\ Append(l, q)[Len(l) + 1] = q
         /\ \A i \in 1 .. Len(l) : Append(l, q)[i] = l[i]
BY AppendProperties, LenProperties

LEMMA AResponse ==
  ASSUME NEW m \in Responses
  PROVE  /\ m \in Seq(Texts) /\ Len(m) = 2 /\ m[1] \in {"ok", "error"} /\ m[2] = "end"
         /\ ToSet(m) = {m[1], "end"} /\ Last(m) = "end" /\ m # <<>>
<1>1. CASE m = <<"ok", "end">>
  BY <1>1 DEF ToSet, Last, Texts
<1>2. CASE m = <<"error", "end">>
  BY <1>2 DEF ToSet, Last, Texts
<1> QED
  BY <1>1, <1>2 DEF Responses

-----------------------------------------------------------------------------
(***************************************************************************)
(* What a read does                                                        *)
(***************************************************************************)

\* The memory that OnRead looks at.
Memory(c, n) == SubSeq(mem[c], 1, writer[c]) \o SubSeq(incoming[c], 1, n)
                  \o SubSeq(mem[c], writer[c] + n + 1, Len(mem[c]))

LEMMA MemoryType ==
  ASSUME ConnType, NEW c \in Conns, NEW n \in 1 .. Len(incoming[c])
  PROVE  /\ Memory(c, n) \in Seq(Texts) /\ writer[c] + n <= Len(Memory(c, n))
         /\ SubSeq(incoming[c], n + 1, Len(incoming[c])) \in Seq(Texts)
<1> DEFINE old  == SubSeq(mem[c], 1, writer[c])
           new  == SubSeq(incoming[c], 1, n)
           rest == SubSeq(mem[c], writer[c] + n + 1, Len(mem[c]))
<1>1. /\ mem[c] \in Seq(Texts) /\ incoming[c] \in Seq(Texts) /\ writer[c] \in Nat
      /\ writer[c] <= Len(mem[c]) /\ Len(mem[c]) \in Nat /\ Len(incoming[c]) \in Nat
  BY LenProperties DEF ConnType
<1>2. \A i \in 1 .. writer[c] : mem[c][i] \in Texts
  BY <1>1, ElementOfSeq
<1>3. \A i \in 1 .. n : incoming[c][i] \in Texts
  BY <1>1, ElementOfSeq
<1>4. \A i \in writer[c] + n + 1 .. Len(mem[c]) : mem[c][i] \in Texts
  BY <1>1, ElementOfSeq
<1>5. \A i \in n + 1 .. Len(incoming[c]) : incoming[c][i] \in Texts
  BY <1>1, ElementOfSeq
<1>6. old \in Seq(Texts) /\ Len(old) = writer[c]
  <2>1. 1 \in Int /\ writer[c] \in Int /\ (1 <= writer[c] => writer[c] - 1 + 1 = writer[c])
        /\ (~(1 <= writer[c]) => writer[c] = 0)
    BY <1>1
  <2> QED
    BY <1>2, <2>1, SubSeqProperties
<1>7. new \in Seq(Texts) /\ Len(new) = n
  <2>1. 1 \in Int /\ n \in Int /\ 1 <= n /\ n - 1 + 1 = n
    BY <1>1
  <2> QED
    BY <1>3, <2>1, SubSeqProperties
<1>8. rest \in Seq(Texts) /\ Len(rest) \in Nat
  <2>1. writer[c] + n + 1 \in Int /\ Len(mem[c]) \in Int
    BY <1>1
  <2>2. rest \in Seq(Texts)
    BY <1>4, <2>1, SubSeqProperties
  <2> QED
    BY <2>2, LenProperties
<1>9. SubSeq(incoming[c], n + 1, Len(incoming[c])) \in Seq(Texts)
  <2>1. n + 1 \in Int /\ Len(incoming[c]) \in Int
    BY <1>1
  <2> QED
    BY <1>5, <2>1, SubSeqProperties
<1> HIDE DEF old, new, rest
<1>10. old \o new \in Seq(Texts) /\ Len(old \o new) = writer[c] + n
  BY <1>6, <1>7, ConcatProperties
<1>11. (old \o new) \o rest \in Seq(Texts) /\ Len((old \o new) \o rest) = writer[c] + n + Len(rest)
  BY <1>8, <1>10, ConcatProperties
<1>12. Memory(c, n) = (old \o new) \o rest
  BY DEF Memory, old, new, rest
<1> QED
  BY <1>1, <1>8, <1>9, <1>11, <1>12

LEMMA ReadEffect ==
  ASSUME TypeInv, NEW c \in Conns, NEW n \in 1 .. Len(incoming[c]), HandleRead(c, n)
  PROVE  \E r \in Members, l \in Seq(Requests) :
           /\ conn' = [conn EXCEPT ![c] = r] /\ log' = [log EXCEPT ![c] = l]
           /\ r.alive = conn[c].alive
           /\ l = log[c] \/ \E q \in Requests : l = Append(log[c], q)
<1> DEFINE m == Memory(c, n)
           r == ParseResponse(conn[c], m)
<1>1. HandleRtspResponse(c, m) /\ ~conn[c].closed
  BY DEF HandleRead, Memory
<1>2. conn[c] \in Members /\ log[c] \in Seq(Requests) /\ log = [log EXCEPT ![c] = log[c]]
  BY DEF TypeInv, ConnType
<1>3. r \in Members /\ r.alive = conn[c].alive
  BY <1>2 DEF ParseResponse, Members
<1>4. conn \in [Conns -> Members] /\ log \in [Conns -> Seq(Requests)] /\ session \in BOOLEAN
      /\ sources \subseteq Channels
  BY DEF TypeInv, ConnType, AppType
<1> HIDE DEF m, r
<1>5. MaxChannelCount - 1 \in Nat
  BY ChannelsAssumption
<1>6. ASSUME NEW s \in Members, NEW name \in Names, NEW channel \in Nat, s.alive = conn[c].alive,
             conn' = [conn EXCEPT ![c] = s], Request(c, name, channel)
      PROVE  \E q \in Requests : log' = [log EXCEPT ![c] = Append(log[c], q)]
  <2>1. conn'[c] = s
    BY <1>4, <1>6
  <2>2. [method |-> name, cseq |-> s.cseq + 1, channel |-> channel] \in Requests
    BY DEF Members, Requests
  <2> QED
    BY <1>1, <1>6, <2>1, <2>2 DEF Request
<1>7. ASSUME NEW s \in Members, s.alive = conn[c].alive, conn' = [conn EXCEPT ![c] = s],
             UNCHANGED log \/ \E q \in Requests : log' = [log EXCEPT ![c] = Append(log[c], q)]
      PROVE  \E t \in Members, l \in Seq(Requests) :
               /\ conn' = [conn EXCEPT ![c] = t] /\ log' = [log EXCEPT ![c] = l]
               /\ t.alive = conn[c].alive
               /\ l = log[c] \/ \E q \in Requests : l = Append(log[c], q)
  <2>1. CASE UNCHANGED log
    BY <1>2, <1>7, <2>1
  <2>2. ASSUME NEW q \in Requests, log' = [log EXCEPT ![c] = Append(log[c], q)]
        PROVE  \E l \in Seq(Requests) : /\ log' = [log EXCEPT ![c] = l]
                                        /\ \E p \in Requests : l = Append(log[c], p)
    BY <1>2, <2>2, AppendProperties
  <2> QED
    BY <1>7, <2>1, <2>2
<1>8. ASSUME NEW s \in Members PROVE Closed(s) \in Members /\ Closed(s).alive = s.alive
  BY DEF Closed, Members
<1>9. CASE Refused(m)
  <2>1. conn' = [conn EXCEPT ![c] = Closed(conn[c])] /\ UNCHANGED log
    BY <1>1, <1>4, <1>9 DEF HandleRtspResponse
  <2> QED
    BY <1>2, <1>7, <1>8, <2>1
<1>10. CASE SendAnnounce(c, r)
  <2> DEFINE s == [r EXCEPT !.client = TRUE, !.method = "ANNOUNCE"]
  <2>1. s \in Members /\ s.alive = r.alive /\ "ANNOUNCE" \in Names /\ 0 \in Nat
    BY <1>3 DEF Members, Names
  <2>2. CASE session
    <3>1. conn' = [conn EXCEPT ![c] = s] /\ Request(c, "ANNOUNCE", 0)
      BY <1>10, <2>2 DEF SendAnnounce
    <3> HIDE DEF s
    <3>2. \E q \in Requests : log' = [log EXCEPT ![c] = Append(log[c], q)]
      BY <1>3, <1>6, <2>1, <3>1
    <3> QED
      BY <1>3, <1>7, <2>1, <3>1, <3>2
  <2>3. CASE ~session
    BY <1>3, <1>7, <1>8, <1>10, <2>3 DEF SendAnnounce
  <2> QED
    BY <2>2, <2>3
<1>11. CASE SendSetup(c, r)
  <2> DEFINE new  == sources \ r.setup
             name == IF MaxChannelCount - 1 \in new THEN "SETUP" ELSE "RECORD"
             s    == [SetupRtpOverTcp(r, new) EXCEPT !.method = name]
  <2>1. name \in Names /\ new \subseteq Channels
    BY <1>4 DEF Names
  <2> HIDE DEF name, new
  <2>2. s \in Members /\ s.alive = r.alive
    BY <1>3, <2>1 DEF Members, SetupRtpOverTcp
  <2>3. CASE session
    <3>1. conn' = [conn EXCEPT ![c] = s] /\ Request(c, name, MaxChannelCount - 1)
      BY <1>11, <2>3 DEF SendSetup, name, new
    <3> HIDE DEF s
    <3>2. \E q \in Requests : log' = [log EXCEPT ![c] = Append(log[c], q)]
      BY <1>3, <1>5, <1>6, <2>1, <2>2, <3>1
    <3> QED
      BY <1>3, <1>7, <2>2, <3>1, <3>2
  <2>4. CASE ~session
    BY <1>3, <1>7, <1>8, <1>11, <2>4 DEF SendSetup
  <2> QED
    BY <2>3, <2>4
<1>12. CASE HandleRecord(c, r)
  <2> DEFINE s == [Record(r) EXCEPT !.state = "START_PUSH"]
  <2>1. s \in Members /\ s.alive = r.alive
    BY <1>3 DEF Members, Record
  <2>2. conn' = [conn EXCEPT ![c] = s] /\ UNCHANGED log
    BY <1>12 DEF HandleRecord
  <2> HIDE DEF s
  <2> QED
    BY <1>3, <1>7, <2>1, <2>2
<1> QED
  BY <1>1, <1>9, <1>10, <1>11, <1>12 DEF HandleRtspResponse, r

-----------------------------------------------------------------------------
(***************************************************************************)
(* The queue of tasks                                                      *)
(***************************************************************************)

\* tasks when what rtsp_conn_ is has been given up.
GivenUp == IF rtsp_conn = 0 THEN tasks ELSE Append(tasks, <<"disconnect", rtsp_conn>>)

LEMMA ATask ==
  ASSUME NEW c \in 0 .. MaxOpens
  PROVE  /\ <<"disconnect", c>> \in Tasks /\ <<"options", c>> \in Tasks /\ <<"close", c>> \in Tasks
         /\ <<"disconnect", c>>[1] = "disconnect" /\ <<"disconnect", c>>[2] = c
         /\ <<"options", c>>[1] = "options" /\ <<"close", c>>[1] = "close"
BY DEF Tasks

LEMMA GivenUpTasks ==
  ASSUME TypeInv
  PROVE  /\ GivenUp \in Seq(Tasks)
         /\ \A i \in 1 .. Len(GivenUp) :
              \/ rtsp_conn # 0 /\ GivenUp[i] = <<"disconnect", rtsp_conn>>
              \/ i \in 1 .. Len(tasks) /\ GivenUp[i] = tasks[i]
<1>1. tasks \in Seq(Tasks) /\ rtsp_conn \in 0 .. MaxOpens
  BY BoundsAssumption DEF TypeInv, TaskType, AppType
<1>2. CASE rtsp_conn = 0
  BY <1>1, <1>2 DEF GivenUp
<1>3. CASE rtsp_conn # 0
  <2> DEFINE x == <<"disconnect", rtsp_conn>>
  <2>1. x \in Tasks
    BY <1>1, ATask
  <2>2. GivenUp = Append(tasks, x)
    BY <1>3 DEF GivenUp
  <2> HIDE DEF x
  <2>3. /\ GivenUp \in Seq(Tasks) /\ Len(GivenUp) = Len(tasks) + 1 /\ Len(tasks) \in Nat
        /\ GivenUp[Len(tasks) + 1] = x
        /\ \A i \in 1 .. Len(tasks) : GivenUp[i] = tasks[i]
    BY <1>1, <2>1, <2>2, AppendProperties, LenProperties
  <2>4. \A i \in 1 .. Len(GivenUp) : i \in 1 .. Len(tasks) \/ i = Len(tasks) + 1
    BY <2>3
  <2> QED
    BY <1>3, <2>3, <2>4 DEF x
<1> QED
  BY <1>2, <1>3

LEMMA NothingPosted ==
  ASSUME TypeInv, GiveUp(<<>>)
  PROVE  tasks' = GivenUp
<1>1. GivenUp \in Seq(Tasks)
  BY GivenUpTasks
<1>2. tasks' = GivenUp \o <<>>
  BY DEF GiveUp, GivenUp
<1> QED
  BY <1>1, <1>2, ConcatEmptySeq

LEMMA OptionsPosted ==
  ASSUME TypeInv, GiveUp(<<<<"options", 0>>>>)
  PROVE  /\ tasks' \in Seq(Tasks) /\ Len(tasks') = Len(GivenUp) + 1 /\ Len(GivenUp) \in Nat
         /\ tasks'[Len(GivenUp) + 1] = <<"options", 0>>
         /\ \A i \in 1 .. Len(GivenUp) : tasks'[i] = GivenUp[i]
<1> DEFINE x == <<"options", 0>>
<1>1. x \in Tasks
  <2>1. 0 \in 0 .. MaxOpens
    BY BoundsAssumption
  <2> QED
    BY <2>1, ATask
<1>2. tasks' = GivenUp \o <<x>>
  BY DEF GiveUp, GivenUp
<1> HIDE DEF x
<1>3. GivenUp \in Seq(Tasks) /\ Len(GivenUp) \in Nat
  BY GivenUpTasks, LenProperties
<1>4. <<x>> \in Seq(Tasks) /\ Len(<<x>>) = 1 /\ <<x>>[1] = x
  BY <1>1
<1>5. /\ GivenUp \o <<x>> \in Seq(Tasks) /\ Len(GivenUp \o <<x>>) = Len(GivenUp) + 1
      /\ \A i \in 1 .. Len(GivenUp) + 1 :
           (GivenUp \o <<x>>)[i] = IF i <= Len(GivenUp) THEN GivenUp[i] ELSE <<x>>[i - Len(GivenUp)]
  BY <1>3, <1>4, ConcatProperties
<1> QED
  BY <1>2, <1>3, <1>4, <1>5 DEF x

LEMMA HeadTask ==
  ASSUME TypeInv, tasks # <<>>
  PROVE  /\ Head(tasks) = tasks[1] /\ Head(tasks) \in Tasks /\ 1 \in 1 .. Len(tasks)
         /\ Tail(tasks) \in Seq(Tasks) /\ Len(Tail(tasks)) = Len(tasks) - 1 /\ Len(tasks) \in Nat
         /\ \A i \in 1 .. Len(Tail(tasks)) : Tail(tasks)[i] = tasks[i + 1] /\ i + 1 \in 1 .. Len(tasks)
BY HeadTailProperties, LenProperties, EmptySeq DEF TypeInv, TaskType

LEMMA TasksStep ==
  ASSUME IInv, [Next]_vars
  PROVE  TaskType'
<1> USE DEF IInv
<1>1. rtsp_conn \in 0 .. MaxOpens
  BY BoundsAssumption DEF TypeInv, AppType
<1>2. CASE SendOptions \/ CloseDangling
  BY <1>2, HeadTask DEF SendOptions, CloseDangling, TaskType
<1>3. CASE Disconnect
  <2> DEFINE c == Head(tasks)[2]
             x == <<"close", c>>
  <2>1. tasks # <<>> /\ tasks' = Append(Tail(tasks), x)
    BY <1>3 DEF Disconnect
  <2>2. c \in 0 .. MaxOpens
    BY <2>1, HeadTask DEF Tasks
  <2>3. x \in Tasks
    BY <2>2, ATask
  <2> HIDE DEF x
  <2> QED
    BY <2>1, <2>3, HeadTask, AppendProperties DEF TaskType
<1>4. CASE OpenUrl
  BY <1>4, OptionsPosted DEF OpenUrl, TaskType
<1>5. CASE Close \/ OpenFails
  BY <1>5, NothingPosted, GivenUpTasks DEF Close, OpenFails, TaskType
<1>6. CASE UNCHANGED tasks
  BY <1>6 DEF TaskType, TypeInv
<1> QED
  BY <1>2, <1>3, <1>4, <1>5, <1>6
     DEF Next, RunTask, App, Reads, Server, OpenSucceeds, RemoveSession, HandleRead, HandlePeerClose,
         Answer, vars

LEMMA AppTypeStep ==
  ASSUME IInv, [Next]_vars
  PROVE  AppType'
<1> USE DEF IInv, TypeInv, AppType
<1>1. CASE RunTask
  BY <1>1 DEF RunTask, SendOptions, Disconnect, CloseDangling, app
<1>2. CASE App
  <2>1. CASE OpenUrl
    BY <2>1, BoundsAssumption DEF OpenUrl
  <2>2. CASE Close
    BY <2>2, BoundsAssumption DEF Close
  <2>3. CASE OpenFails
    <3>1. late' \in BOOLEAN
      BY <2>3, Zenon DEF OpenFails
    <3>2. /\ rtsp_conn' = 0 /\ opening' = FALSE
          /\ UNCHANGED <<sources, session, opened, crashed>>
      BY <2>3 DEF OpenFails
    <3> QED
      <4>1. rtsp_conn' \in 0 .. opened' /\ opened' \in 0 .. MaxOpens
        BY <3>2, BoundsAssumption
      <4>2. session' \in BOOLEAN /\ opening' \in BOOLEAN /\ crashed' \in BOOLEAN
            /\ sources' \subseteq Channels'
        BY <3>2 DEF Channels
      <4> QED
        BY <3>1, <4>1, <4>2
  <2>4. CASE OpenSucceeds
    BY <2>4, BoundsAssumption DEF OpenSucceeds
  <2>5. CASE RemoveSession
    BY <2>5, BoundsAssumption DEF RemoveSession
  <2> QED
    BY <1>2, <2>1, <2>2, <2>3, <2>4, <2>5 DEF App
<1>3. CASE UNCHANGED <<sources, app, crashed, late>>
  BY <1>3 DEF app
<1> QED
  BY <1>1, <1>2, <1>3 DEF Next, Reads, Server, HandleRead, HandlePeerClose, Answer, vars

\* A task to disconnect is for a connection that was given up.
LEMMA DisconnectedIs ==
  ASSUME IInv, Disconnect
  PROVE  Head(tasks)[2] \in 1 .. opened /\ Head(tasks)[2] # rtsp_conn /\ Head(tasks)[2] \in Conns
<1>1. 1 \in 1 .. Len(tasks) /\ tasks[1] = Head(tasks) /\ tasks[1][1] = "disconnect"
  BY HeadTask DEF Disconnect, IInv
<1>2. tasks[1][2] \in 1 .. opened /\ tasks[1][2] # rtsp_conn
  BY <1>1 DEF IInv, AppInv
<1> QED
  BY <1>1, <1>2, BoundsAssumption DEF IInv, TypeInv, AppType, Conns

LEMMA ConnTypeStep ==
  ASSUME IInv, [Next]_vars
  PROVE  ConnType'
<1> USE DEF IInv, TypeInv
<1>1. CASE SendOptions
  <2>1. CASE rtsp_conn = 0 \/ ~session
    BY <1>1, <2>1 DEF SendOptions, ConnType, reader, server
  <2>2. CASE ~(rtsp_conn = 0 \/ ~session)
    <3>1. rtsp_conn \in Conns
      BY <2>2, BoundsAssumption DEF AppType, Conns
    <3>2. /\ conn' = [conn EXCEPT ![rtsp_conn].method = "OPTIONS"]
          /\ Request(rtsp_conn, "OPTIONS", 0)
          /\ UNCHANGED <<reader, server, cut>>
      BY <1>1, <2>2 DEF SendOptions
    <3>3. conn' \in [Conns -> Members]
      <4> DEFINE r == [conn[rtsp_conn] EXCEPT !.method = "OPTIONS"]
      <4>1. conn' = [conn EXCEPT ![rtsp_conn] = r]
        BY <3>1, <3>2 DEF ConnType
      <4>2. r \in Members
        <5>1. conn[rtsp_conn] \in Members
          BY <3>1 DEF ConnType
        <5> QED
          BY <5>1 DEF Members, Names
      <4> HIDE DEF r
      <4> QED
        BY <3>1, <4>1, <4>2 DEF ConnType
    <3>4. [method |-> "OPTIONS", cseq |-> conn'[rtsp_conn].cseq + 1, channel |-> 0] \in Requests
      BY <3>1, <3>3 DEF Members, Requests, Names
    <3>5. log' \in [Conns -> Seq(Requests)]
      <4> DEFINE q == [method |-> "OPTIONS", cseq |-> conn'[rtsp_conn].cseq + 1, channel |-> 0]
      <4>1. q \in Requests /\ (log' = log \/ log' = [log EXCEPT ![rtsp_conn] = Append(@, q)])
        BY <3>2, <3>4 DEF Request
      <4> HIDE DEF q
      <4> QED
        <5>1. Append(log[rtsp_conn], q) \in Seq(Requests)
          BY <3>1, <4>1, AppendProperties DEF ConnType
        <5> QED
          BY <3>1, <4>1, <5>1 DEF ConnType
    <3> QED
      BY <3>2, <3>3, <3>5 DEF ConnType, reader, server
  <2> QED
    BY <2>1, <2>2
<1>2. CASE Disconnect
  <2> DEFINE c == Head(tasks)[2]
             r == [New EXCEPT !.alive = FALSE, !.client = conn[c].client]
  <2>1. c \in Conns
    BY <1>2, DisconnectedIs
  <2>2. r \in Members
    BY <2>1 DEF ConnType, Members, New
  <2>3. /\ conn' = [conn EXCEPT ![c] = r]
        /\ mem' = [mem EXCEPT ![c] = <<>>] /\ writer' = [writer EXCEPT ![c] = 0]
        /\ log' = [log EXCEPT ![c] = <<>>]
        /\ answered' = [answered EXCEPT ![c] = 0] /\ accepted' = [accepted EXCEPT ![c] = {}]
        /\ incoming' = [incoming EXCEPT ![c] = <<>>]
        /\ cut' = [cut EXCEPT ![c] = FALSE]
    BY <1>2 DEF Disconnect
  <2> HIDE DEF c, r
  <2>4. /\ conn' \in [Conns -> Members] /\ log' \in [Conns -> Seq(Requests)]
        /\ answered' \in [Conns -> Nat] /\ accepted' \in [Conns -> SUBSET Nat]
        /\ incoming' \in [Conns -> Seq(Texts)] /\ cut' \in [Conns -> BOOLEAN]
    BY <2>1, <2>2, <2>3, EmptySeq DEF ConnType
  <2>5. mem' \in [Conns -> Seq(Texts)] /\ writer' \in [Conns -> Nat]
    BY <2>1, <2>3, EmptySeq DEF ConnType
  <2>6. \A d \in Conns : writer'[d] <= Len(mem'[d])
    BY <2>1, <2>3, EmptySeq DEF ConnType
  <2> QED
    BY <2>4, <2>5, <2>6 DEF ConnType
<1>3. ASSUME NEW c \in Conns, NEW n \in 1 .. Len(incoming[c]), HandleRead(c, n)
      PROVE  ConnType'
  <2> DEFINE m == Memory(c, n)
  <2>1. PICK r \in Members, l \in Seq(Requests) :
          conn' = [conn EXCEPT ![c] = r] /\ log' = [log EXCEPT ![c] = l]
    BY <1>3, ReadEffect
  <2>2. /\ incoming' = [incoming EXCEPT ![c] = SubSeq(@, n + 1, Len(@))]
        /\ mem' = [mem EXCEPT ![c] = m]
        /\ writer' = [writer EXCEPT ![c] = IF "end" \in ToSet(m) THEN 0 ELSE @ + n]
        /\ cut' = [cut EXCEPT ![c] = @ \/ Last(SubSeq(incoming[c], 1, n)) # "end"]
        /\ UNCHANGED <<answered, accepted>>
    BY <1>3 DEF HandleRead, Memory
  <2>3. /\ m \in Seq(Texts) /\ writer[c] + n <= Len(m) /\ Len(m) \in Nat
        /\ SubSeq(incoming[c], n + 1, Len(incoming[c])) \in Seq(Texts)
    BY MemoryType, LenProperties
  <2> HIDE DEF m
  <2>4. conn' \in [Conns -> Members] /\ log' \in [Conns -> Seq(Requests)]
    BY <2>1 DEF ConnType
  <2>5. mem' \in [Conns -> Seq(Texts)] /\ incoming' \in [Conns -> Seq(Texts)]
    BY <2>2, <2>3 DEF ConnType
  <2>6. writer' \in [Conns -> Nat] /\ cut' \in [Conns -> BOOLEAN]
    <3>1. n \in Nat
      BY LenProperties DEF ConnType
    <3>2. writer' \in [Conns -> Nat]
      BY <2>2, <3>1 DEF ConnType
    <3> QED
      BY <2>2, <3>2 DEF ConnType
  <2>7. \A d \in Conns : writer'[d] <= Len(mem'[d])
    BY <2>2, <2>3 DEF ConnType
  <2> QED
    BY <2>2, <2>4, <2>5, <2>6, <2>7 DEF ConnType
<1>4. ASSUME NEW c \in Conns, HandlePeerClose(c) PROVE ConnType'
  <2>1. Closed(conn[c]) \in Members
    <3>1. \A r \in Members : Closed(r) \in Members
      BY DEF Closed, Members
    <3>2. conn[c] \in Members
      BY DEF ConnType
    <3> QED
      BY <3>1, <3>2
  <2> QED
    BY <1>4, <2>1 DEF HandlePeerClose, ConnType, reader, server
<1>5. ASSUME NEW c \in Conns, NEW response \in Responses, Answer(c, response) PROVE ConnType'
  <2>1. incoming[c] \o response \in Seq(Texts)
    BY AResponse, ConcatProperties DEF ConnType
  <2>2. incoming' \in [Conns -> Seq(Texts)] /\ answered' \in [Conns -> Nat]
    BY <1>5, <2>1 DEF Answer, ConnType
  <2>3. accepted' \in [Conns -> SUBSET Nat]
    BY <1>5, <2>2 DEF Answer, ConnType
  <2> QED
    BY <1>5, <2>2, <2>3 DEF Answer, ConnType, reader
<1>6. CASE UNCHANGED <<conn, reader, log, server, cut>>
  BY <1>6 DEF ConnType, reader, server
<1> QED
  BY <1>1, <1>2, <1>3, <1>4, <1>5, <1>6
     DEF Next, RunTask, CloseDangling, App, OpenUrl, Close, OpenFails, OpenSucceeds, RemoveSession,
         Reads, Server, vars

-----------------------------------------------------------------------------
(***************************************************************************)
(* What is left as it is                                                   *)
(***************************************************************************)

LEMMA TypeStep ==
  ASSUME IInv, [Next]_vars
  PROVE  TypeInv'
BY TasksStep, AppTypeStep, ConnTypeStep DEF TypeInv

\* A connection that has sent nothing has nothing to read, and the server has nothing
\* to answer.
LEMMA NothingToRead ==
  ASSUME IInv, NEW c \in Conns, log[c] = <<>>
  PROVE  /\ \A n \in 1 .. Len(incoming[c]) : ~HandleRead(c, n)
         /\ \A response \in Responses : ~Answer(c, response)
<1>1. incoming[c] = <<>> /\ answered[c] = 0 /\ Len(incoming[c]) = 0 /\ Len(log[c]) = 0
  BY EmptySeq DEF IInv, SilentInv
<1>2. Min({Len(log[c]), MaxAnswers}) <= 0
  BY <1>1, MinAtMost, BoundsAssumption
<1>3. ~(0 < Min({Len(log[c]), MaxAnswers}))
  <2>1. Min({0, MaxAnswers}) \in {0, MaxAnswers}
    <3>1. \E x \in {0, MaxAnswers} : \A y \in {0, MaxAnswers} : x <= y
      BY BoundsAssumption
    <3> QED
      BY <3>1 DEF Min
  <2> QED
    BY <1>1, <1>2, <2>1, BoundsAssumption
<1> QED
  BY <1>1, <1>3 DEF Answer

LEMMA SentOptions ==
  ASSUME IInv, SendOptions
  PROVE  \/ UNCHANGED <<conn, log>>
         \/ /\ rtsp_conn # 0 /\ rtsp_conn \in Conns /\ session
            /\ conn' = [conn EXCEPT ![rtsp_conn] = [conn[rtsp_conn] EXCEPT !.method = "OPTIONS"]]
            /\ log' = IF conn[rtsp_conn].closed THEN log
                      ELSE [log EXCEPT ![rtsp_conn] =
                              Append(@, [method |-> "OPTIONS", cseq |-> conn[rtsp_conn].cseq + 1,
                                         channel |-> 0])]
<1> USE DEF IInv, TypeInv
<1>1. CASE rtsp_conn = 0 \/ ~session
  BY <1>1 DEF SendOptions
<1>2. CASE ~(rtsp_conn = 0 \/ ~session)
  <2>1. rtsp_conn \in Conns
    BY <1>2, BoundsAssumption DEF AppType, Conns
  <2>2. conn[rtsp_conn] \in Members /\ conn \in [Conns -> Members]
    BY <2>1 DEF ConnType
  <2> DEFINE r == [conn[rtsp_conn] EXCEPT !.method = "OPTIONS"]
  <2>3. conn' = [conn EXCEPT ![rtsp_conn] = r] /\ Request(rtsp_conn, "OPTIONS", 0)
    BY <1>2, <2>1, <2>2 DEF SendOptions
  <2>4. r.cseq = conn[rtsp_conn].cseq
    BY <2>2 DEF Members
  <2> HIDE DEF r
  <2>5. conn'[rtsp_conn].cseq = conn[rtsp_conn].cseq
    BY <2>1, <2>2, <2>3, <2>4
  <2> QED
    BY <1>2, <2>1, <2>3, <2>5 DEF Request, r
<1> QED
  BY <1>1, <1>2

LEMMA Kept ==
  ASSUME IInv, [Next]_vars, NEW c \in Conns
  PROVE  /\ conn[c].alive /\ ~conn'[c].alive => Disconnect /\ c = Head(tasks)[2]
         /\ log[c] = <<>> /\ log'[c] # <<>> => SendOptions /\ c = rtsp_conn
<1> USE DEF IInv, TypeInv
<1>1. conn \in [Conns -> Members] /\ log \in [Conns -> Seq(Requests)]
  BY DEF ConnType
<1>2. CASE SendOptions
  <2>1. CASE UNCHANGED <<conn, log>>
    BY <2>1
  <2>2. CASE ~UNCHANGED <<conn, log>>
    <3> DEFINE r == [conn[rtsp_conn] EXCEPT !.method = "OPTIONS"]
    <3>1. conn' = [conn EXCEPT ![rtsp_conn] = r] /\ rtsp_conn \in Conns
      BY <1>2, <2>2, SentOptions
    <3>2. r.alive = conn[rtsp_conn].alive
      BY <1>1, <3>1 DEF Members
    <3>3. \A d \in Conns : d # rtsp_conn => log'[d] = log[d]
      BY <1>1, <1>2, SentOptions
    <3> HIDE DEF r
    <3> QED
      BY <1>1, <1>2, <3>1, <3>2, <3>3
  <2> QED
    BY <2>1, <2>2
<1>3. CASE Disconnect
  BY <1>1, <1>3, DisconnectedIs DEF Disconnect
<1>4. ASSUME NEW d \in Conns, NEW n \in 1 .. Len(incoming[d]), HandleRead(d, n)
      PROVE  conn'[c].alive = conn[c].alive /\ (log[c] = <<>> => log'[c] = <<>>)
  <2>1. PICK r \in Members, l \in Seq(Requests) :
          conn' = [conn EXCEPT ![d] = r] /\ log' = [log EXCEPT ![d] = l] /\ r.alive = conn[d].alive
    BY <1>4, ReadEffect
  <2>2. log[d] # <<>>
    BY <1>4, NothingToRead
  <2> QED
    BY <1>1, <2>1, <2>2
<1>5. ASSUME NEW d \in Conns, HandlePeerClose(d)
      PROVE  conn'[c].alive = conn[c].alive /\ log'[c] = log[c]
  <2>1. Closed(conn[d]).alive = conn[d].alive
    BY <1>1 DEF Closed, Members
  <2> QED
    BY <1>1, <1>5, <2>1 DEF HandlePeerClose
<1>6. CASE UNCHANGED <<conn, log>>
  BY <1>6
<1> QED
  BY <1>2, <1>3, <1>4, <1>5, <1>6
     DEF Next, RunTask, CloseDangling, App, OpenUrl, Close, OpenFails, OpenSucceeds, RemoveSession,
         Reads, Server, Answer, vars

LEMMA AppStep ==
  ASSUME IInv, [Next]_vars
  PROVE  AppInv'
<1> USE DEF IInv
<1>1. /\ opened \in 0 .. MaxOpens /\ rtsp_conn \in 0 .. opened /\ MaxOpens \in Nat
      /\ conn \in [Conns -> Members]
  BY BoundsAssumption DEF TypeInv, AppType, ConnType
<1>2. \/ UNCHANGED <<opened, rtsp_conn>>
      \/ rtsp_conn' = 0 /\ opened' = opened
      \/ OpenUrl
  BY DEF Next, RunTask, SendOptions, Disconnect, CloseDangling, App, Close, OpenFails,
         OpenSucceeds, RemoveSession, Reads, Server, HandleRead, HandlePeerClose, Answer, vars, app
<1>3. CASE OpenUrl
  <2>1. /\ opened' = opened + 1 /\ rtsp_conn' = opened + 1 /\ opening' = TRUE
        /\ UNCHANGED <<conn, log>> /\ opened + 1 \in Conns /\ opened + 1 > opened
    BY <1>1, <1>3 DEF OpenUrl, Conns
  <2>2. conn[opened + 1].alive
    BY <2>1 DEF AppInv
  <2>3. \A c \in Conns : c > opened' => conn'[c].alive /\ log'[c] = <<>>
    BY <1>1, <2>1 DEF AppInv, Conns
  <2>4. ASSUME NEW i \in 1 .. Len(tasks'), tasks'[i][1] = "disconnect"
        PROVE  tasks'[i][2] # rtsp_conn' /\ tasks'[i][2] \in 1 .. opened'
    <3>1. GiveUp(<<<<"options", 0>>>>)
      BY <1>3 DEF OpenUrl
    <3>2. i \in 1 .. Len(GivenUp) /\ tasks'[i] = GivenUp[i]
      BY <2>4, <3>1, OptionsPosted
    <3>3. tasks'[i][2] \in 1 .. opened
      BY <1>1, <2>4, <3>2, GivenUpTasks DEF AppInv
    <3> QED
      BY <1>1, <2>1, <3>3
  <2> QED
    BY <1>1, <2>1, <2>2, <2>3, <2>4 DEF AppInv
<1>4. CASE UNCHANGED opened /\ (rtsp_conn' = rtsp_conn \/ rtsp_conn' = 0)
  <2>. ~OpenUrl
    BY <1>1, <1>4 DEF OpenUrl
  <2>1. opening' => rtsp_conn' # 0
    BY <1>1, <1>4 DEF AppInv, Next, RunTask, SendOptions, Disconnect, CloseDangling, App, Close,
                OpenFails, OpenSucceeds, RemoveSession, Reads, Server, HandleRead, HandlePeerClose,
                Answer, vars, app
  <2>2. rtsp_conn' # 0 => conn'[rtsp_conn'].alive
    <3>1. SUFFICES ASSUME rtsp_conn' # 0 PROVE conn'[rtsp_conn].alive
      BY <1>4
    <3>2. rtsp_conn \in Conns /\ conn[rtsp_conn].alive
      BY <1>1, <1>4, <3>1 DEF AppInv, Conns
    <3>3. CASE Disconnect
      <4>1. Head(tasks)[2] # rtsp_conn
        BY <3>3, DisconnectedIs
      <4>2. conn' \in [Conns -> Members]
        BY TypeStep DEF TypeInv, ConnType
      <4> QED
        BY <3>2, <3>3, <4>1, <4>2, <1>1 DEF Disconnect
    <3>4. CASE ~Disconnect
      BY <3>2, <3>4, Kept
    <3> QED
      BY <3>3, <3>4
  <2>3. ASSUME NEW c \in Conns, c > opened' PROVE conn'[c].alive /\ log'[c] = <<>>
    <3>1. c > opened /\ conn[c].alive /\ log[c] = <<>> /\ c # rtsp_conn
      BY <1>1, <1>4, <2>3 DEF AppInv, Conns
    <3>2. Disconnect => c # Head(tasks)[2]
      BY <1>1, <3>1, DisconnectedIs
    <3> QED
      BY <3>1, <3>2, Kept
  <2>4. ASSUME NEW i \in 1 .. Len(tasks'), tasks'[i][1] = "disconnect"
        PROVE  tasks'[i][2] # rtsp_conn' /\ tasks'[i][2] \in 1 .. opened'
    <3>1. CASE Close \/ OpenFails
      <4>1. tasks' = GivenUp /\ rtsp_conn' = 0
        BY <3>1, NothingPosted DEF Close, OpenFails
      <4>2. tasks'[i][2] \in 1 .. opened
        BY <1>1, <2>4, <4>1, GivenUpTasks DEF AppInv
      <4> QED
        BY <1>1, <1>4, <4>1, <4>2
    <3>2. CASE SendOptions \/ CloseDangling
      <4>1. tasks # <<>> /\ tasks' = Tail(tasks)
        BY <3>2 DEF SendOptions, CloseDangling
      <4>2. i + 1 \in 1 .. Len(tasks) /\ tasks'[i] = tasks[i + 1]
        BY <2>4, <4>1, HeadTask
      <4> QED
        BY <1>1, <1>4, <2>4, <4>2 DEF AppInv
    <3>3. CASE Disconnect
      <4> DEFINE x == <<"close", Head(tasks)[2]>>
      <4>1. tasks # <<>> /\ tasks' = Append(Tail(tasks), x) /\ Head(tasks)[2] \in 0 .. MaxOpens
        BY <1>1, <3>3, DisconnectedIs DEF Disconnect
      <4>2. x \in Tasks /\ x[1] = "close"
        BY <4>1, ATask
      <4> HIDE DEF x
      <4>3. /\ Len(tasks') = Len(Tail(tasks)) + 1 /\ Len(Tail(tasks)) \in Nat
            /\ tasks'[Len(Tail(tasks)) + 1] = x
            /\ \A j \in 1 .. Len(Tail(tasks)) : tasks'[j] = Tail(tasks)[j]
        BY <4>1, <4>2, HeadTask, AppendProperties, LenProperties
      <4>4. i \in 1 .. Len(Tail(tasks))
        BY <2>4, <4>2, <4>3
      <4>5. i + 1 \in 1 .. Len(tasks) /\ tasks'[i] = tasks[i + 1]
        BY <4>1, <4>3, <4>4, HeadTask
      <4> QED
        BY <1>1, <1>4, <2>4, <4>5 DEF AppInv
    <3>4. CASE UNCHANGED tasks
      BY <1>1, <1>4, <2>4, <3>4 DEF AppInv
    <3> QED
      BY <1>1, <1>4, <3>1, <3>2, <3>3, <3>4
         DEF Next, RunTask, App, OpenSucceeds, RemoveSession, Reads, Server, HandleRead,
             HandlePeerClose, Answer, vars
  <2> QED
    BY <2>1, <2>2, <2>3, <2>4 DEF AppInv
<1> QED
  BY <1>2, <1>3, <1>4

\* What is left of the tasks, one place further on, and the Close that follows.
LEMMA TaskDone ==
  ASSUME IInv, RunTask, NEW i \in 1 .. Len(tasks'), tasks'[i][1] = "options"
  PROVE  i + 1 \in 1 .. Len(tasks) /\ tasks'[i] = tasks[i + 1] /\ i + 1 # 1
<1> USE DEF IInv
<1>1. tasks # <<>>
  BY DEF RunTask, SendOptions, Disconnect, CloseDangling
<1>2. CASE SendOptions \/ CloseDangling
  <2>1. tasks' = Tail(tasks)
    BY <1>2 DEF SendOptions, CloseDangling
  <2>2. i \in Nat
    BY <1>1, <2>1, HeadTask
  <2> QED
    BY <1>1, <2>1, <2>2, HeadTask
<1>3. CASE Disconnect
  <2> DEFINE x == <<"close", Head(tasks)[2]>>
  <2>1. tasks' = Append(Tail(tasks), x) /\ Head(tasks)[2] \in 0 .. MaxOpens
    BY <1>3, DisconnectedIs, BoundsAssumption DEF Disconnect, TypeInv, AppType
  <2>2. x \in Tasks /\ x[1] = "close"
    BY <2>1, ATask
  <2> HIDE DEF x
  <2>3. /\ Len(tasks') = Len(Tail(tasks)) + 1 /\ Len(Tail(tasks)) \in Nat
        /\ tasks'[Len(Tail(tasks)) + 1] = x
        /\ \A j \in 1 .. Len(Tail(tasks)) : tasks'[j] = Tail(tasks)[j]
    <3>1. Tail(tasks) \in Seq(Tasks) /\ Len(Tail(tasks)) \in Nat
      BY <1>1, HeadTask, LenProperties
    <3> QED
      BY <2>1, <2>2, <3>1, AppendProperties
  <2>4. i \in 1 .. Len(Tail(tasks)) /\ i \in Nat
    BY <2>2, <2>3
  <2> QED
    BY <1>1, <2>1, <2>3, <2>4, HeadTask
<1> QED
  BY <1>2, <1>3 DEF RunTask

LEMMA OptionsStep ==
  ASSUME IInv, [Next]_vars
  PROVE  OptionsInv'
<1> USE DEF IInv
<1> SUFFICES ASSUME ~late', NEW i \in 1 .. Len(tasks'), tasks'[i][1] = "options"
             PROVE  /\ opening' /\ log'[rtsp_conn'] = <<>>
                    /\ \A j \in 1 .. Len(tasks') : tasks'[j][1] = "options" => j = i
  BY DEF OptionsInv
<1>1. /\ opened \in 0 .. MaxOpens /\ rtsp_conn \in 0 .. opened /\ MaxOpens \in Nat
      /\ tasks \in Seq(Tasks) /\ Len(tasks) \in Nat
  BY BoundsAssumption, LenProperties DEF TypeInv, AppType, TaskType
<1>2. ~late
  BY DEF Next, RunTask, SendOptions, Disconnect, CloseDangling, App, OpenUrl, Close, OpenFails,
         OpenSucceeds, RemoveSession, Reads, Server, HandleRead, HandlePeerClose, Answer, vars
<1>3. \A k \in 1 .. Len(tasks) : tasks[k][1] = "options" =>
        /\ opening /\ log[rtsp_conn] = <<>> /\ rtsp_conn \in Conns
        /\ \A j \in 1 .. Len(tasks) : tasks[j][1] = "options" => j = k
  BY <1>1, <1>2 DEF OptionsInv, AppInv, Conns
<1>4. ASSUME \A k \in 1 .. Len(tasks) : tasks[k][1] # "options"
      PROVE  \A k \in 1 .. Len(GivenUp) : GivenUp[k][1] # "options"
  <2>1. <<"disconnect", rtsp_conn>>[1] # "options"
    OBVIOUS
  <2> QED
    BY <1>4, <2>1, GivenUpTasks
<1>5. CASE OpenUrl
  <2>1. /\ ~opening /\ opening' = TRUE /\ rtsp_conn' = opened + 1 /\ log' = log
        /\ GiveUp(<<<<"options", 0>>>>) /\ opened + 1 \in Conns /\ opened + 1 > opened
    BY <1>1, <1>5 DEF OpenUrl, Conns
  <2>2. \A k \in 1 .. Len(GivenUp) : GivenUp[k][1] # "options"
    BY <1>3, <1>4, <2>1
  <2>3. \A j \in 1 .. Len(tasks') : tasks'[j][1] = "options" => j = Len(GivenUp) + 1
    BY <2>1, <2>2, OptionsPosted
  <2> QED
    BY <2>1, <2>3 DEF AppInv
<1>6. CASE Close \/ OpenFails
  <2>1. \A k \in 1 .. Len(tasks) : tasks[k][1] # "options"
    <3>1. CASE Close
      BY <1>3, <3>1 DEF Close
    <3>2. CASE OpenFails
      <4>1. ~ \E t \in ToSet(tasks) : t[1] = "options"
        BY <3>2, Zenon DEF OpenFails
      <4>2. \A k \in 1 .. Len(tasks) : tasks[k] \in ToSet(tasks)
        BY <1>1 DEF ToSet
      <4> QED
        BY <4>1, <4>2
    <3> QED
      BY <1>6, <3>1, <3>2
  <2>2. tasks' = GivenUp
    BY <1>6, NothingPosted DEF Close, OpenFails
  <2> QED
    BY <1>4, <2>1, <2>2
<1>7. CASE OpenSucceeds
  <2>1. tasks' = tasks /\ conn[rtsp_conn].state = "START_PUSH"
    BY <1>7 DEF OpenSucceeds
  <2> QED
    BY <1>3, <2>1 DEF SilentInv
<1>8. CASE RunTask
  <2>1. UNCHANGED <<opening, rtsp_conn>>
    BY <1>8 DEF RunTask, SendOptions, Disconnect, CloseDangling, app
  <2>2. \A j \in 1 .. Len(tasks') : tasks'[j][1] = "options" =>
          j + 1 \in 1 .. Len(tasks) /\ tasks[j + 1][1] = "options" /\ j + 1 # 1 /\ j \in Int
    BY <1>8, TaskDone
  <2>3. ~SendOptions
    <3>1. SUFFICES ASSUME SendOptions PROVE FALSE
      OBVIOUS
    <3>2. 1 \in 1 .. Len(tasks) /\ tasks[1][1] = "options"
      BY <3>1, HeadTask DEF SendOptions
    <3> QED
      BY <1>3, <2>2, <3>2
  <2>4. log'[rtsp_conn] = <<>>
    BY <1>3, <2>2, <2>3, Kept
  <2>5. \A j \in 1 .. Len(tasks') : tasks'[j][1] = "options" => j + 1 = i + 1 /\ j \in Int /\ i \in Int
    BY <1>3, <2>2
  <2> QED
    BY <1>3, <2>1, <2>2, <2>4, <2>5
<1>9. CASE UNCHANGED <<opening, rtsp_conn, tasks>> /\ ~RunTask
  <2>1. ~SendOptions
    BY <1>9 DEF RunTask, Next, SendOptions, HandleRead
  <2> QED
    BY <1>3, <1>9, <2>1, Kept
<1> QED
  BY <1>5, <1>6, <1>7, <1>8, <1>9
     DEF Next, App, RemoveSession, Reads, Server, HandleRead, HandlePeerClose, Answer, vars, app

LEMMA SilentStep ==
  ASSUME IInv, [Next]_vars
  PROVE  SilentInv'
<1> USE DEF IInv, TypeInv
<1> SUFFICES ASSUME NEW c \in Conns, log'[c] = <<>>
             PROVE  /\ conn'[c].cseq = 0 /\ conn'[c].state = "START_CONNECT" /\ conn'[c].setup = {}
                    /\ answered'[c] = 0 /\ incoming'[c] = <<>> /\ mem'[c] = <<>> /\ writer'[c] = 0
                    /\ ~cut'[c]
  BY DEF SilentInv
<1> USE DEF ConnType
<1>1. CASE SendOptions
  <2>1. UNCHANGED <<mem, writer, answered, incoming, cut>>
    BY <1>1 DEF SendOptions, reader, server
  <2>2. CASE UNCHANGED <<conn, log>>
    BY <2>1, <2>2 DEF SilentInv
  <2>3. CASE ~UNCHANGED <<conn, log>>
    <3> DEFINE r == [conn[rtsp_conn] EXCEPT !.method = "OPTIONS"]
               q == [method |-> "OPTIONS", cseq |-> conn[rtsp_conn].cseq + 1, channel |-> 0]
    <3>1. /\ conn' = [conn EXCEPT ![rtsp_conn] = r] /\ rtsp_conn \in Conns
          /\ log' = log \/ log' = [log EXCEPT ![rtsp_conn] = Append(@, q)]
      BY <1>1, <2>3, SentOptions
    <3>2. /\ r.cseq = conn[rtsp_conn].cseq /\ r.state = conn[rtsp_conn].state
          /\ r.setup = conn[rtsp_conn].setup
      BY <3>1 DEF Members
    <3>3. q \in Requests
      BY <3>1 DEF Members, Requests, Names
    <3> HIDE DEF r, q
    <3>4. Append(log[rtsp_conn], q) # <<>>
      <4>1. log[rtsp_conn] \in Seq(Requests)
        BY <3>1
      <4> QED
        BY <3>3, <4>1, LogGrows
    <3>5. log[c] = <<>>
      BY <3>1, <3>4
    <3> QED
      BY <2>1, <3>1, <3>2, <3>5 DEF SilentInv
  <2> QED
    BY <2>2, <2>3
<1>2. CASE Disconnect
  <2> DEFINE d == Head(tasks)[2]
             r == [New EXCEPT !.alive = FALSE, !.client = conn[d].client]
  <2>1. d \in Conns
    BY <1>2, DisconnectedIs
  <2>2. /\ conn' = [conn EXCEPT ![d] = r]
        /\ mem' = [mem EXCEPT ![d] = <<>>] /\ writer' = [writer EXCEPT ![d] = 0]
        /\ log' = [log EXCEPT ![d] = <<>>]
        /\ answered' = [answered EXCEPT ![d] = 0]
        /\ incoming' = [incoming EXCEPT ![d] = <<>>]
        /\ cut' = [cut EXCEPT ![d] = FALSE]
    BY <1>2 DEF Disconnect
  <2>3. r.cseq = 0 /\ r.state = "START_CONNECT" /\ r.setup = {}
    BY DEF New
  <2> HIDE DEF d, r
  <2> QED
    BY <2>1, <2>2, <2>3 DEF SilentInv
<1>3. ASSUME NEW d \in Conns, NEW n \in 1 .. Len(incoming[d]), HandleRead(d, n)
      PROVE  /\ conn'[c].cseq = 0 /\ conn'[c].state = "START_CONNECT" /\ conn'[c].setup = {}
             /\ answered'[c] = 0 /\ incoming'[c] = <<>> /\ mem'[c] = <<>> /\ writer'[c] = 0
             /\ ~cut'[c]
  <2>1. PICK r \in Members, l \in Seq(Requests) :
          /\ conn' = [conn EXCEPT ![d] = r] /\ log' = [log EXCEPT ![d] = l]
          /\ l = log[d] \/ \E q \in Requests : l = Append(log[d], q)
    BY <1>3, ReadEffect
  <2>2. log[d] # <<>>
    BY <1>3, NothingToRead
  <2>3. l # <<>>
    BY <2>1, <2>2, AppendProperties
  <2>4. c # d
    BY <2>1, <2>3
  <2> QED
    BY <1>3, <2>1, <2>4 DEF SilentInv, HandleRead
<1>4. ASSUME NEW d \in Conns, HandlePeerClose(d)
      PROVE  /\ conn'[c].cseq = 0 /\ conn'[c].state = "START_CONNECT" /\ conn'[c].setup = {}
             /\ answered'[c] = 0 /\ incoming'[c] = <<>> /\ mem'[c] = <<>> /\ writer'[c] = 0
             /\ ~cut'[c]
  <2>1. /\ Closed(conn[d]).cseq = conn[d].cseq /\ Closed(conn[d]).state = conn[d].state
        /\ Closed(conn[d]).setup = conn[d].setup
    BY DEF Closed, Members
  <2>2. /\ conn' = [conn EXCEPT ![d] = Closed(conn[d])]
        /\ UNCHANGED <<log, mem, writer, answered, incoming, cut>>
    BY <1>4 DEF HandlePeerClose, reader, server
  <2> QED
    BY <2>1, <2>2 DEF SilentInv
<1>5. ASSUME NEW d \in Conns, NEW response \in Responses, Answer(d, response)
      PROVE  /\ conn'[c].cseq = 0 /\ conn'[c].state = "START_CONNECT" /\ conn'[c].setup = {}
             /\ answered'[c] = 0 /\ incoming'[c] = <<>> /\ mem'[c] = <<>> /\ writer'[c] = 0
             /\ ~cut'[c]
  <2>1. log[d] # <<>>
    BY <1>5, NothingToRead
  <2> QED
    BY <1>5, <2>1 DEF SilentInv, Answer, reader
<1>6. CASE UNCHANGED <<conn, reader, log, server, cut>>
  BY <1>6 DEF SilentInv, reader, server
<1> QED
  BY <1>1, <1>2, <1>3, <1>4, <1>5, <1>6
     DEF Next, RunTask, CloseDangling, App, OpenUrl, Close, OpenFails, OpenSucceeds, RemoveSession,
         Reads, Server, vars

-----------------------------------------------------------------------------
(***************************************************************************)
(* The stages of a connection                                              *)
(***************************************************************************)

LEMMA SourcesStay ==
  ASSUME [Next]_vars
  PROVE  sources' = sources /\ Handshake' = Handshake
BY DEF Next, RunTask, SendOptions, Disconnect, CloseDangling, App, OpenUrl, Close, OpenFails,
       OpenSucceeds, RemoveSession, Reads, Server, HandleRead, HandlePeerClose, Answer, vars,
       Handshake

\* Nothing happens to it, or it is closed.
LEMMA StageStays ==
  ASSUME NEW c, Stage(c), Handshake' = Handshake,
         log'[c] = log[c], mem'[c] = mem[c], writer'[c] = writer[c], answered'[c] = answered[c],
         accepted'[c] = accepted[c], incoming'[c] = incoming[c],
         conn'[c].state = conn[c].state,
         \/ conn'[c].closed
         \/ /\ conn'[c].closed = conn[c].closed /\ conn'[c].method = conn[c].method
            /\ conn'[c].cseq = conn[c].cseq /\ conn'[c].setup = conn[c].setup
  PROVE  Stage(c)'
<1>1. LogInv(c)'
  BY DEF Stage, LogInv
<1>2. CASE conn'[c].closed
  BY <1>1, <1>2 DEF Stage
<1>3. CASE /\ conn'[c].closed = conn[c].closed /\ conn'[c].method = conn[c].method
           /\ conn'[c].cseq = conn[c].cseq /\ conn'[c].setup = conn[c].setup
  <2>1. DoneInv(c)' <=> DoneInv(c)
    BY DEF DoneInv
  <2>2. WaitInv(c)' <=> WaitInv(c)
    BY <1>3 DEF WaitInv
  <2> QED
    BY <1>1, <1>3, <2>1, <2>2 DEF Stage
<1> QED
  BY <1>2, <1>3

\* It has not sent anything.
LEMMA StageBegins ==
  ASSUME NEW c, log'[c] = <<>>, mem'[c] = <<>>, writer'[c] = 0, conn'[c].state = "START_CONNECT",
         Handshake' = Handshake
  PROVE  Stage(c)'
<1>1. Len(log'[c]) = 0 /\ 1 .. 0 = {} /\ 0 <= Len(Handshake)
  BY EmptySeq, TheHandshake
<1>2. LogInv(c)'
  BY <1>1 DEF LogInv
<1> QED
  BY <1>2 DEF Stage

\* It sends the next request, when the one before has been accepted.
LEMMA StageMoves ==
  ASSUME IInv, TypeInv', NEW c \in Conns, LogInv(c), Handshake' = Handshake,
         NEW k, k = Len(log[c]), k + 1 <= Len(Handshake), k > 0 => k \in accepted[c],
         NEW q \in Requests, q.method = Handshake[k + 1], q.cseq = k + 1,
         log'[c] = Append(log[c], q), accepted'[c] = accepted[c],
         writer'[c] = 0, mem'[c] = <<>> \/ mem'[c] \in Responses,
         answered'[c] = k, incoming'[c] = <<>>,
         conn'[c].state = "START_CONNECT", conn'[c].method = q.method, conn'[c].cseq = k,
         conn'[c].method \in {"OPTIONS", "ANNOUNCE"} => conn'[c].setup = {},
         conn'[c].method = "SETUP" => MaxChannelCount - 1 \in conn'[c].setup
  PROVE  Stage(c)'
<1>1. log[c] \in Seq(Requests) /\ k \in Nat
  BY LenProperties DEF IInv, TypeInv, ConnType
<1>2. /\ Len(log'[c]) = k + 1 /\ log'[c][k + 1] = q
      /\ \A i \in 1 .. k : log'[c][i] = log[c][i]
  BY <1>1, LogGrows
<1>3. \A i \in 1 .. k : log[c][i].method = Handshake[i] /\ log[c][i].cseq = i
  BY DEF LogInv
<1>4. \A i \in 1 .. k : i \in accepted[c]
  BY <1>1 DEF LogInv
<1>5. \A i \in 1 .. k + 1 : i \in 1 .. k \/ i = k + 1
  BY <1>1
<1>6. LogInv(c)'
  BY <1>1, <1>2, <1>3, <1>4, <1>5 DEF LogInv
<1>7. WaitInv(c)'
  BY <1>1, <1>2 DEF WaitInv
<1> QED
  BY <1>6, <1>7 DEF Stage

\* A response that is read whole is the answer to the last request.
LEMMA ReadWhole ==
  ASSUME IInv, ~late, NEW c \in Conns, NEW n \in 1 .. Len(incoming[c]), HandleRead(c, n), ~cut'[c]
  PROVE  /\ ~cut[c] /\ LogInv(c) /\ WaitInv(c) /\ ~conn[c].closed
         /\ conn[c].state = "START_CONNECT"
         /\ incoming[c] \in Responses /\ Memory(c, n) = incoming[c]
         /\ incoming'[c] = <<>> /\ mem'[c] = incoming[c] /\ writer'[c] = 0
         /\ Len(log[c]) \in 1 .. Len(Handshake) /\ answered[c] = Len(log[c])
<1> USE DEF IInv
<1>1. /\ incoming[c] \in Seq(Texts) /\ mem[c] \in Seq(Texts) /\ cut[c] \in BOOLEAN
      /\ log[c] \in Seq(Requests) /\ conn[c] \in Members
  BY DEF TypeInv, ConnType
<1>2. /\ ~conn[c].closed
      /\ cut'[c] = (cut[c] \/ Last(SubSeq(incoming[c], 1, n)) # "end")
      /\ mem'[c] = Memory(c, n)
      /\ incoming'[c] = SubSeq(incoming[c], n + 1, Len(incoming[c]))
      /\ writer'[c] = IF "end" \in ToSet(Memory(c, n)) THEN 0 ELSE writer[c] + n
  BY DEF HandleRead, Memory, TypeInv, ConnType
<1>3. ~cut[c] /\ Last(SubSeq(incoming[c], 1, n)) = "end"
  BY <1>1, <1>2
<1>4. incoming[c] # <<>> /\ Len(incoming[c]) \in Nat
  BY <1>1, EmptySeq, LenProperties
<1>5. log[c] # <<>> /\ Stage(c)
  BY <1>3, NothingToRead DEF StageInv
<1>6. WaitInv(c) /\ LogInv(c) /\ conn[c].state = "START_CONNECT"
  BY <1>1, <1>2, <1>4, <1>5 DEF Stage, DoneInv, Members
<1>7. incoming[c] \in Responses /\ answered[c] = Len(log[c])
  BY <1>4, <1>6 DEF WaitInv
<1>8. Len(incoming[c]) = 2 /\ incoming[c][1] # "end" /\ ToSet(incoming[c]) = {incoming[c][1], "end"}
  BY <1>7, AResponse
<1>9. n = 2
  <2>1. SUFFICES ASSUME n = 1 PROVE FALSE
    BY <1>8
  <2>2. /\ Len(SubSeq(incoming[c], 1, 1)) = 1
        /\ SubSeq(incoming[c], 1, 1)[1] = incoming[c][1]
    <3>1. incoming[c][1] \in Texts
      BY <1>1, <1>8, ElementOfSeq
    <3>2. \A i \in 1 .. 1 : incoming[c][i] \in Texts
      BY <3>1
    <3> QED
      BY <3>2, SubSeqProperties
  <2>3. Last(SubSeq(incoming[c], 1, 1)) = incoming[c][1]
    BY <2>2 DEF Last
  <2> QED
    BY <1>3, <1>8, <2>1, <2>2, <2>3
<1>10. writer[c] = 0 /\ (mem[c] = <<>> \/ Len(mem[c]) = 2)
  BY <1>6, AResponse DEF LogInv
<1>11. Memory(c, n) = incoming[c]
  <2>1. SubSeq(mem[c], 1, writer[c]) = <<>>
    BY <1>10, SubSeqEmpty
  <2>2. SubSeq(incoming[c], 1, n) = incoming[c]
    BY <1>1, <1>8, <1>9, SubSeqFull
  <2>3. Len(mem[c]) \in Int /\ Len(mem[c]) < writer[c] + n + 1
    <3>1. Len(mem[c]) = 0 \/ Len(mem[c]) = 2
      BY <1>1, <1>10, EmptySeq
    <3>2. Len(mem[c]) \in Nat
      BY <1>1, LenProperties
    <3>3. writer[c] + n + 1 = 3
      BY <1>9, <1>10
    <3>4. \A l \in Nat : l = 0 \/ l = 2 => l \in Int /\ l < 3
      OBVIOUS
    <3> QED
      BY <3>1, <3>2, <3>3, <3>4
  <2>4. SubSeq(mem[c], writer[c] + n + 1, Len(mem[c])) = <<>>
    BY <1>9, <1>10, <2>3, SubSeqEmpty
  <2>5. Memory(c, n) = (<<>> \o incoming[c]) \o <<>>
    BY <2>1, <2>2, <2>4 DEF Memory
  <2>6. <<>> \o incoming[c] = incoming[c] /\ incoming[c] \o <<>> = incoming[c]
    BY <1>1, ConcatEmptySeq
  <2> QED
    BY <2>5, <2>6
<1>12. incoming'[c] = <<>>
  BY <1>2, <1>8, <1>9, SubSeqEmpty
<1>13. Len(log[c]) \in 1 .. Len(Handshake)
  BY <1>1, <1>5, <1>6, LenProperties, EmptySeq, TheHandshake DEF LogInv
<1> QED
  BY <1>2, <1>3, <1>6, <1>7, <1>8, <1>11, <1>12, <1>13

\* The next request, as the connection's members s say.
LEMMA StageSends ==
  ASSUME IInv, TypeInv', NEW c \in Conns, LogInv(c), Handshake' = Handshake,
         NEW k, k = Len(log[c]), k + 1 <= Len(Handshake), k > 0 => k \in accepted[c],
         NEW s \in Members, NEW name \in Names, NEW channel \in Nat,
         name = Handshake[k + 1], ~conn[c].closed,
         conn' = [conn EXCEPT ![c] = s], Request(c, name, channel), accepted' = accepted,
         writer'[c] = 0, mem'[c] = <<>> \/ mem'[c] \in Responses,
         answered'[c] = k, incoming'[c] = <<>>,
         s.state = "START_CONNECT", s.method = name, s.cseq = k,
         name \in {"OPTIONS", "ANNOUNCE"} => s.setup = {},
         name = "SETUP" => MaxChannelCount - 1 \in s.setup
  PROVE  Stage(c)'
<1> DEFINE q == [method |-> name, cseq |-> k + 1, channel |-> channel]
<1>1. conn \in [Conns -> Members] /\ log \in [Conns -> Seq(Requests)] /\ k \in Nat
  BY LenProperties DEF IInv, TypeInv, ConnType
<1>2. conn'[c] = s
  BY <1>1
<1>3. q \in Requests /\ q.method = name /\ q.cseq = k + 1
  BY <1>1 DEF Requests
<1>4. log'[c] = Append(log[c], q)
  BY <1>1, <1>2 DEF Request
<1> HIDE DEF q
<1> QED
  BY <1>2, <1>3, <1>4, StageMoves

\* What OnRead makes of it.
LEMMA StageRead ==
  ASSUME IInv, TypeInv', ~late, NEW c \in Conns, NEW n \in 1 .. Len(incoming[c]),
         HandleRead(c, n), ~cut'[c], Handshake' = Handshake
  PROVE  Stage(c)'
<1> USE DEF IInv
<1> DEFINE m == Memory(c, n)
           k == Len(log[c])
           r == ParseResponse(conn[c], m)
<1>1. /\ LogInv(c) /\ WaitInv(c) /\ ~conn[c].closed /\ conn[c].state = "START_CONNECT"
      /\ m \in Responses /\ m = incoming[c] /\ k \in 1 .. Len(Handshake) /\ answered[c] = k
      /\ incoming'[c] = <<>> /\ mem'[c] = m /\ writer'[c] = 0
  BY ReadWhole
<1>2. HandleRtspResponse(c, m) /\ accepted' = accepted /\ answered' = answered
  BY DEF HandleRead, Memory
<1>3. /\ conn[c] \in Members /\ log[c] \in Seq(Requests) /\ conn \in [Conns -> Members]
      /\ log \in [Conns -> Seq(Requests)] /\ Len(Handshake) \in Nat /\ k \in Nat
      /\ MaxChannelCount - 1 \in Nat
  BY TheHandshake, ChannelsAssumption, LenProperties DEF TypeInv, ConnType
<1>4. /\ m[1] \in {"ok", "error"} /\ ToSet(m) = {m[1], "end"}
  BY <1>1, AResponse
<1>5. /\ conn[c].method = Handshake[k] /\ conn[c].cseq = k - 1
      /\ conn[c].method \in {"OPTIONS", "ANNOUNCE"} => conn[c].setup = {}
      /\ conn[c].method = "SETUP" => MaxChannelCount - 1 \in conn[c].setup
      /\ m[1] = "ok" => k \in accepted[c]
  BY <1>1 DEF WaitInv, LogInv
<1> HIDE DEF m
<1>6. ASSUME NEW s \in Members, s.closed, s.state = "START_CONNECT",
             conn' = [conn EXCEPT ![c] = s], log' = log
      PROVE  Stage(c)'
  <2>1. conn'[c] = s
    BY <1>3, <1>6
  <2>2. LogInv(c)'
    BY <1>1, <1>2, <1>6, <2>1 DEF LogInv
  <2> QED
    BY <1>6, <2>1, <2>2 DEF Stage
<1>7. ASSUME NEW s \in Members PROVE /\ Closed(s) \in Members /\ Closed(s).closed
                                     /\ Closed(s).state = s.state
  BY DEF Closed, Members
<1>8. CASE m[1] = "error"
  <2>1. Refused(m)
    BY <1>4, <1>8 DEF Refused
  <2>2. conn' = [conn EXCEPT ![c] = Closed(conn[c])] /\ log' = log
    BY <1>2, <1>3, <2>1 DEF HandleRtspResponse
  <2> QED
    BY <1>1, <1>3, <1>6, <1>7, <2>2
<1>9. CASE m[1] = "ok"
  <2>1. ~Refused(m) /\ r = [conn[c] EXCEPT !.cseq = @ + 1] /\ k \in accepted[c]
    BY <1>4, <1>5, <1>9 DEF Refused, ParseResponse
  <2>2. /\ r \in Members /\ r.cseq = k /\ r.method = Handshake[k]
        /\ r.setup = conn[c].setup /\ r.state = "START_CONNECT"
    <3> DEFINE t == [conn[c] EXCEPT !.cseq = @ + 1]
    <3>1. /\ t \in Members /\ t.cseq = conn[c].cseq + 1 /\ t.method = conn[c].method
          /\ t.setup = conn[c].setup /\ t.state = conn[c].state
      <4>1. \A x \in Members : LET y == [x EXCEPT !.cseq = @ + 1]
                               IN /\ y \in Members /\ y.cseq = x.cseq + 1 /\ y.method = x.method
                                  /\ y.setup = x.setup /\ y.state = x.state
        BY DEF Members
      <4> QED
        BY <1>3, <4>1
    <3>2. r = t
      BY <2>1
    <3> HIDE DEF t, r, k
    <3>3. k - 1 + 1 = k
      BY <1>3
    <3> QED
      BY <1>1, <1>5, <3>1, <3>2, <3>3
  <2> HIDE DEF r, k
  <2>3. CASE r.method = "OPTIONS" /\ SendAnnounce(c, r)
    <3> DEFINE s == [r EXCEPT !.client = TRUE, !.method = "ANNOUNCE"]
    <3>1. s \in Members
      BY <2>2 DEF Members, Names
    <3>2. s.cseq = k /\ s.method = "ANNOUNCE" /\ s.setup = {} /\ s.state = "START_CONNECT"
      BY <1>5, <2>2, <2>3 DEF Members
    <3>3. k = 1 /\ Handshake[k + 1] = "ANNOUNCE" /\ k + 1 <= Len(Handshake)
      <4>1. Handshake[k] = "OPTIONS" /\ k = 1
        BY <1>1, <2>2, <2>3, TheHandshake
      <4> QED
        BY <4>1, TheHandshake
    <3>4. CASE session
      <4>1. conn' = [conn EXCEPT ![c] = s] /\ Request(c, "ANNOUNCE", 0) /\ "ANNOUNCE" \in Names
            /\ 0 \in Nat
        BY <2>3, <3>4 DEF SendAnnounce, Names
      <4> HIDE DEF s
      <4> QED
        BY <1>1, <1>2, <2>1, <3>1, <3>2, <3>3, <4>1, StageSends DEF k
    <3>5. CASE ~session
      BY <1>6, <1>7, <2>2, <2>3, <3>5 DEF SendAnnounce
    <3> QED
      BY <3>4, <3>5
  <2>4. CASE r.method \in {"ANNOUNCE", "SETUP"} /\ SendSetup(c, r)
    <3> DEFINE new  == sources \ r.setup
               name == IF MaxChannelCount - 1 \in new THEN "SETUP" ELSE "RECORD"
               s    == [SetupRtpOverTcp(r, new) EXCEPT !.method = name]
    <3>1. name \in Names /\ new \subseteq Channels /\ name \in {"SETUP", "RECORD"}
      BY DEF Names, TypeInv, AppType
    <3>2. name = Handshake[k + 1] /\ k + 1 <= Len(Handshake)
      <4>1. CASE r.method = "ANNOUNCE"
        <5>1. k = 2 /\ r.setup = {}
          BY <1>1, <1>5, <2>2, <4>1, TheHandshake
        <5>2. name = IF MaxChannelCount - 1 \in sources THEN "SETUP" ELSE "RECORD"
          BY <5>1
        <5> HIDE DEF name
        <5> QED
          BY <1>3, <5>1, <5>2, TheHandshake
      <4>2. CASE r.method = "SETUP"
        <5>1. k = 3 /\ Len(Handshake) = 4
          BY <1>1, <2>2, <4>2, TheHandshake
        <5>2. name = "RECORD"
          BY <1>5, <2>2, <4>2
        <5> HIDE DEF name
        <5>3. 4 \in 1 .. Len(Handshake)
          BY <5>1
        <5>4. Handshake[4] = "RECORD"
          BY <5>1, <5>3, TheHandshake
        <5> QED
          BY <5>1, <5>2, <5>4
      <4> QED
        BY <2>4, <4>1, <4>2
    <3>3. name = "SETUP" => MaxChannelCount - 1 \in new
      OBVIOUS
    <3> HIDE DEF name, new
    <3>4. s \in Members
      BY <2>2, <3>1 DEF Members, SetupRtpOverTcp
    <3>5. s.cseq = k /\ s.method = name /\ s.state = "START_CONNECT" /\ new \subseteq s.setup
      BY <2>2 DEF Members, SetupRtpOverTcp
    <3>6. CASE session
      <4>1. conn' = [conn EXCEPT ![c] = s] /\ Request(c, name, MaxChannelCount - 1)
        BY <2>4, <3>6 DEF SendSetup, name, new
      <4> HIDE DEF s
      <4> QED
        BY <1>1, <1>2, <1>3, <2>1, <3>1, <3>2, <3>3, <3>4, <3>5, <4>1, StageSends DEF k
    <3>7. CASE ~session
      BY <1>6, <1>7, <2>2, <2>4, <3>7 DEF SendSetup
    <3> QED
      BY <3>6, <3>7
  <2>5. CASE r.method \notin {"OPTIONS", "ANNOUNCE", "SETUP"} /\ HandleRecord(c, r)
    <3> DEFINE s == [Record(r) EXCEPT !.state = "START_PUSH"]
    <3>1. s.state = "START_PUSH"
      BY <2>2 DEF Members, Record
    <3>2. conn' = [conn EXCEPT ![c] = s] /\ log' = log
      BY <2>5 DEF HandleRecord
    <3> HIDE DEF s
    <3>3. conn'[c].state = "START_PUSH"
      BY <1>3, <3>1, <3>2
    <3>4. k = Len(Handshake)
      <4>1. Handshake[k] \in Names
        BY <1>1, TheHandshake, ElementOfSeq
      <4>2. Handshake[k] = "RECORD"
        BY <2>2, <2>5, <4>1 DEF Names
      <4> QED
        BY <1>1, <4>2, TheHandshake
    <3>5. LogInv(c)'
      BY <1>1, <1>2, <2>1, <3>2, <3>4 DEF LogInv, k
    <3>6. DoneInv(c)'
      BY <1>1, <1>2, <3>2 DEF DoneInv, k
    <3> QED
      BY <3>3, <3>5, <3>6 DEF Stage
  <2> QED
    BY <1>2, <2>1, <2>3, <2>4, <2>5 DEF HandleRtspResponse, r
<1> QED
  BY <1>4, <1>8, <1>9

\* OPTIONS, on a connection that has sent nothing.
LEMMA StageOpens ==
  ASSUME IInv, TypeInv', ~late, SendOptions, NEW c \in Conns, ~cut[c], Handshake' = Handshake
  PROVE  Stage(c)'
<1> USE DEF IInv
<1>1. UNCHANGED <<mem, writer, answered, accepted, incoming>>
  BY DEF SendOptions, reader, server
<1>2. Stage(c) /\ conn \in [Conns -> Members] /\ log \in [Conns -> Seq(Requests)]
  BY DEF StageInv, TypeInv, ConnType
<1>3. CASE UNCHANGED <<conn, log>>
  BY <1>1, <1>2, <1>3, StageStays
<1>4. CASE ~UNCHANGED <<conn, log>>
  <2> DEFINE s == [conn[rtsp_conn] EXCEPT !.method = "OPTIONS"]
  <2>1. /\ rtsp_conn \in Conns /\ conn' = [conn EXCEPT ![rtsp_conn] = s]
        /\ log' = IF conn[rtsp_conn].closed THEN log
                  ELSE [log EXCEPT ![rtsp_conn] =
                          Append(@, [method |-> "OPTIONS", cseq |-> conn[rtsp_conn].cseq + 1,
                                     channel |-> 0])]
    BY <1>4, SentOptions
  <2>2. /\ s \in Members /\ s.method = "OPTIONS" /\ s.cseq = conn[rtsp_conn].cseq
        /\ s.setup = conn[rtsp_conn].setup /\ s.state = conn[rtsp_conn].state
        /\ s.closed = conn[rtsp_conn].closed
    BY <1>2, <2>1 DEF Members, Names
  <2> HIDE DEF s
  <2>3. conn'[rtsp_conn] = s
    BY <1>2, <2>1
  <2>4. CASE c # rtsp_conn
    <3>1. conn'[c] = conn[c] /\ log'[c] = log[c]
      BY <1>2, <2>1, <2>4
    <3> QED
      BY <1>1, <1>2, <3>1, StageStays
  <2>5. CASE c = rtsp_conn /\ conn[c].closed
    <3>1. conn'[c].closed /\ conn'[c].state = conn[c].state /\ log'[c] = log[c]
      BY <2>1, <2>2, <2>3, <2>5
    <3> QED
      BY <1>1, <1>2, <3>1, StageStays
  <2>6. CASE c = rtsp_conn /\ ~conn[c].closed
    <3> DEFINE q == [method |-> "OPTIONS", cseq |-> conn[c].cseq + 1, channel |-> 0]
    <3>1. 1 \in 1 .. Len(tasks) /\ tasks[1][1] = "options"
      BY HeadTask DEF SendOptions, TypeInv
    <3>2. log[c] = <<>>
      BY <2>6, <3>1 DEF OptionsInv
    <3>3. /\ conn[c].cseq = 0 /\ conn[c].state = "START_CONNECT" /\ conn[c].setup = {}
          /\ answered[c] = 0 /\ incoming[c] = <<>> /\ mem[c] = <<>> /\ writer[c] = 0
      BY <3>2 DEF SilentInv
    <3>4. q \in Requests /\ q.method = "OPTIONS" /\ q.cseq = 1
      BY <3>3 DEF Requests, Names
    <3>5. log'[c] = Append(log[c], q)
      BY <1>2, <2>1, <2>6
    <3> HIDE DEF q
    <3>6. /\ Len(log[c]) = 0 /\ 0 + 1 <= Len(Handshake) /\ Handshake[0 + 1] = "OPTIONS"
          /\ ~(0 > 0) /\ 0 + 1 = 1
      BY <3>2, EmptySeq, TheHandshake
    <3>7. /\ conn'[c].state = "START_CONNECT" /\ conn'[c].method = "OPTIONS"
          /\ conn'[c].cseq = 0 /\ conn'[c].setup = {}
      BY <2>2, <2>3, <2>6, <3>3
    <3> QED
      BY <1>1, <1>2, <3>3, <3>4, <3>5, <3>6, <3>7, StageMoves DEF Stage
  <2> QED
    BY <2>4, <2>5, <2>6
<1> QED
  BY <1>3, <1>4

\* The server's answer is to the last request.
LEMMA StageAnswered ==
  ASSUME IInv, ~late, NEW c \in Conns, NEW response \in Responses, Answer(c, response), ~cut[c],
         Handshake' = Handshake
  PROVE  Stage(c)'
<1> USE DEF IInv
<1> DEFINE k == Len(log[c])
<1>1. /\ UNCHANGED <<conn, mem, writer, log>> /\ ~conn[c].closed /\ answered[c] < Min({k, MaxAnswers})
      /\ answered'[c] = answered[c] + 1 /\ incoming'[c] = incoming[c] \o response
      /\ accepted[c] \subseteq accepted'[c]
      /\ response[1] = "ok" => answered'[c] \in accepted'[c]
  BY DEF Answer, reader, TypeInv, ConnType
<1>2. k \in Nat /\ answered[c] \in Nat /\ log[c] # <<>> /\ Stage(c)
  BY LenProperties, NothingToRead DEF StageInv, TypeInv, ConnType
<1>3. answered[c] < k
  <2>1. Min({k, MaxAnswers}) <= k /\ Min({k, MaxAnswers}) \in {k, MaxAnswers}
    <3>1. \E x \in {k, MaxAnswers} : \A y \in {k, MaxAnswers} : x <= y
      <4>1. CASE k <= MaxAnswers
        BY <1>2, <4>1, BoundsAssumption
      <4>2. CASE ~(k <= MaxAnswers)
        BY <1>2, <4>2, BoundsAssumption
      <4> QED
        BY <4>1, <4>2
    <3> HIDE DEF k
    <3> QED
      BY <1>2, <3>1, MinAtMost, BoundsAssumption DEF Min
  <2> HIDE DEF k
  <2> QED
    BY <1>1, <1>2, <2>1, BoundsAssumption
<1>4. LogInv(c)'
  BY <1>1, <1>2 DEF Stage, LogInv
<1>5. conn[c].state # "START_PUSH" /\ WaitInv(c)
  BY <1>1, <1>2, <1>3 DEF Stage, DoneInv
<1>6. answered[c] = k - 1 /\ incoming[c] = <<>>
  BY <1>2, <1>3, <1>5 DEF WaitInv
<1>7. incoming'[c] = response /\ answered'[c] = k
  <2>1. response \in Seq(Texts)
    BY AResponse
  <2> QED
    BY <1>1, <1>2, <1>6, <2>1, ConcatEmptySeq
<1>8. WaitInv(c)'
  BY <1>1, <1>5, <1>7 DEF WaitInv
<1> QED
  BY <1>1, <1>4, <1>5, <1>8 DEF Stage

LEMMA StageStep ==
  ASSUME IInv, [Next]_vars
  PROVE  StageInv'
<1> USE DEF IInv
<1>1. TypeInv' /\ Handshake' = Handshake
  BY TypeStep, SourcesStay
<1> SUFFICES ASSUME ~late', NEW c \in Conns, ~cut'[c] PROVE Stage(c)'
  BY DEF StageInv
<1>2. ~late
  BY DEF Next, RunTask, SendOptions, Disconnect, CloseDangling, App, OpenUrl, Close, OpenFails,
         OpenSucceeds, RemoveSession, Reads, Server, HandleRead, HandlePeerClose, Answer, vars
<1>3. ConnType
  BY DEF TypeInv
<1>4. CASE SendOptions
  BY <1>1, <1>2, <1>4, StageOpens DEF SendOptions
<1>5. CASE Disconnect
  <2> DEFINE d == Head(tasks)[2]
             r == [New EXCEPT !.alive = FALSE, !.client = conn[d].client]
  <2>1. d \in Conns
    BY <1>5, DisconnectedIs
  <2>2. /\ conn' = [conn EXCEPT ![d] = r]
        /\ mem' = [mem EXCEPT ![d] = <<>>] /\ writer' = [writer EXCEPT ![d] = 0]
        /\ log' = [log EXCEPT ![d] = <<>>]
        /\ answered' = [answered EXCEPT ![d] = 0] /\ accepted' = [accepted EXCEPT ![d] = {}]
        /\ incoming' = [incoming EXCEPT ![d] = <<>>]
        /\ cut' = [cut EXCEPT ![d] = FALSE]
    BY <1>5 DEF Disconnect
  <2>3. r.state = "START_CONNECT"
    BY DEF New
  <2> HIDE DEF d, r
  <2>4. CASE c = d
    BY <1>1, <1>3, <2>2, <2>3, <2>4, StageBegins DEF ConnType
  <2>5. CASE c # d
    <3>1. /\ conn'[c] = conn[c] /\ mem'[c] = mem[c] /\ writer'[c] = writer[c] /\ log'[c] = log[c]
          /\ answered'[c] = answered[c] /\ accepted'[c] = accepted[c]
          /\ incoming'[c] = incoming[c] /\ cut'[c] = cut[c]
      BY <1>3, <2>2, <2>5 DEF ConnType
    <3> QED
      BY <1>1, <1>2, <3>1, StageStays DEF StageInv
  <2> QED
    BY <2>4, <2>5
<1>6. ASSUME NEW d \in Conns, NEW n \in 1 .. Len(incoming[d]), HandleRead(d, n) PROVE Stage(c)'
  <2>1. CASE c = d
    BY <1>1, <1>2, <1>6, <2>1, StageRead
  <2>2. CASE c # d
    <3>1. PICK r \in Members, l \in Seq(Requests) :
            conn' = [conn EXCEPT ![d] = r] /\ log' = [log EXCEPT ![d] = l]
      BY <1>6, ReadEffect
    <3>2. conn'[c] = conn[c] /\ log'[c] = log[c]
      BY <1>3, <2>2, <3>1 DEF ConnType
    <3>3. /\ mem'[c] = mem[c] /\ writer'[c] = writer[c] /\ incoming'[c] = incoming[c]
          /\ answered'[c] = answered[c] /\ accepted'[c] = accepted[c] /\ cut'[c] = cut[c]
      BY <1>3, <1>6, <2>2 DEF ConnType, HandleRead
    <3> QED
      BY <1>1, <1>2, <3>2, <3>3, StageStays DEF StageInv
  <2> QED
    BY <2>1, <2>2
<1>7. ASSUME NEW d \in Conns, HandlePeerClose(d) PROVE Stage(c)'
  <2>1. /\ conn' = [conn EXCEPT ![d] = Closed(conn[d])]
        /\ UNCHANGED <<log, mem, writer, answered, accepted, incoming, cut>>
    BY <1>7 DEF HandlePeerClose, reader, server
  <2>2. Closed(conn[d]).closed /\ Closed(conn[d]).state = conn[d].state
    BY <1>3 DEF Closed, Members, ConnType
  <2>3. /\ conn'[c].state = conn[c].state /\ (c = d => conn'[c].closed)
        /\ (c # d => conn'[c] = conn[c])
    BY <1>3, <2>1, <2>2 DEF ConnType
  <2> QED
    BY <1>1, <1>2, <2>1, <2>3, StageStays DEF StageInv
<1>8. ASSUME NEW d \in Conns, NEW response \in Responses, Answer(d, response) PROVE Stage(c)'
  <2>1. CASE c = d
    BY <1>1, <1>2, <1>8, <2>1, StageAnswered DEF Answer
  <2>2. CASE c # d
    <3>1. /\ UNCHANGED <<conn, log, mem, writer, cut>> /\ answered'[c] = answered[c]
          /\ accepted'[c] = accepted[c] /\ incoming'[c] = incoming[c]
      BY <1>3, <1>8, <2>2 DEF Answer, ConnType, reader
    <3> QED
      BY <1>1, <1>2, <3>1, StageStays DEF StageInv
  <2> QED
    BY <2>1, <2>2
<1>9. CASE UNCHANGED <<conn, reader, log, server, cut>>
  BY <1>1, <1>2, <1>9, StageStays DEF StageInv, reader, server
<1> QED
  BY <1>4, <1>5, <1>6, <1>7, <1>8, <1>9
     DEF Next, RunTask, CloseDangling, App, OpenUrl, Close, OpenFails, OpenSucceeds, RemoveSession,
         Reads, Server, vars

-----------------------------------------------------------------------------
(***************************************************************************)
(* The theorems                                                            *)
(***************************************************************************)

LEMMA InitialState ==
  ASSUME Init
  PROVE  IInv
<1>1. New \in Members
  BY DEF New, Members
<1>2. <<>> \in Seq(Texts) /\ <<>> \in Seq(Requests) /\ <<>> \in Seq(Tasks) /\ Len(<<>>) = 0
  BY EmptySeq
<1>3. TypeInv
  <2>1. AppType
    <3>1. /\ sources \subseteq Channels /\ session = TRUE /\ opening = FALSE
          /\ crashed = FALSE /\ late = FALSE
      BY Zenon DEF Init
    <3>2. opened = 0 /\ rtsp_conn = 0 /\ 0 \in 0 .. MaxOpens /\ 0 \in 0 .. 0
      BY BoundsAssumption DEF Init
    <3> QED
      BY <3>1, <3>2 DEF AppType
  <2>2. ConnType
    BY <1>1, <1>2 DEF Init, ConnType
  <2>3. TaskType
    BY <1>2 DEF Init, TaskType
  <2> QED
    BY <2>1, <2>2, <2>3 DEF TypeInv
<1>4. AppInv /\ OptionsInv
  BY <1>2 DEF Init, AppInv, OptionsInv, New
<1>5. SilentInv
  BY DEF Init, SilentInv, New
<1>6. ASSUME NEW c \in Conns PROVE Stage(c)
  <2>1. LogInv(c)
    BY <1>2, <1>6, TheHandshake DEF Init, LogInv, New
  <2> QED
    BY <1>6, <2>1 DEF Init, Stage
<1> QED
  BY <1>3, <1>4, <1>5, <1>6 DEF IInv, StageInv

LEMMA InvariantStep ==
  ASSUME IInv, [Next]_vars
  PROVE  IInv'
BY TypeStep, AppStep, OptionsStep, SilentStep, StageStep DEF IInv

LEMMA AlwaysIInv == Spec => []IInv
BY InitialState, InvariantStep, PTL DEF Spec

LEMMA StagesInStep ==
  ASSUME IInv
  PROVE  InStep
<1> SUFFICES ASSUME ~late, NEW c \in Conns, ~cut[c]
             PROVE  /\ IsPrefix([i \in DOMAIN log[c] |-> log[c][i].method], Handshake)
                    /\ \A i \in DOMAIN log[c] : log[c][i].cseq = i /\ (i > 1 => i - 1 \in accepted[c])
                    /\ conn[c].state = "START_PUSH" =>
                         Len(log[c]) = Len(Handshake) /\ Len(log[c]) \in accepted[c]
  BY DEF InStep
<1> DEFINE methods == [i \in DOMAIN log[c] |-> log[c][i].method]
           k       == Len(log[c])
<1>1. LogInv(c) /\ log[c] \in Seq(Requests)
  BY DEF IInv, StageInv, Stage, TypeInv, ConnType
<1>2. k \in Nat /\ DOMAIN log[c] = 1 .. k
  BY <1>1, LenProperties
<1>3. methods \in Seq(Names) /\ Len(methods) = k
  <2>1. \A i \in 1 .. k : log[c][i].method \in Names
    <3>1. \A i \in 1 .. k : log[c][i] \in Requests
      BY <1>1, ElementOfSeq
    <3> QED
      BY <3>1 DEF Requests
  <2>2. methods \in [1 .. k -> Names]
    BY <1>2, <2>1
  <2> HIDE DEF methods
  <2> QED
    BY <1>2, <2>2, SeqDef, LenProperties
<1>4. \A i \in 1 .. k : methods[i] = Handshake[i]
  BY <1>1, <1>2 DEF LogInv
<1>5. IsPrefix(methods, Handshake)
  <2> HIDE DEF methods, k
  <2>1. k <= Len(Handshake) /\ Handshake \in Seq(Names) /\ Len(Handshake) \in Nat
    BY <1>1, TheHandshake, LenProperties DEF LogInv, k
  <2>2. SubSeq(Handshake, 1, k) = methods
    <3>1. \A i \in 1 .. k : Handshake[i] \in Names
      BY <1>2, <2>1, ElementOfSeq
    <3>2. /\ SubSeq(Handshake, 1, k) \in Seq(Names) /\ Len(SubSeq(Handshake, 1, k)) = k
          /\ \A i \in 1 .. k : SubSeq(Handshake, 1, k)[i] = Handshake[i]
      BY <1>2, <3>1, SubSeqProperties DEF k
    <3> QED
      BY <1>3, <1>4, <3>2, SeqEqual
  <2>3. SubSeq(methods, 1, Len(methods)) = methods
    BY <1>3, SubSeqFull
  <2> QED
    BY <1>3, <2>1, <2>2, <2>3 DEF IsPrefix
<1>6. \A i \in DOMAIN log[c] : log[c][i].cseq = i /\ (i > 1 => i - 1 \in accepted[c])
  BY <1>1, <1>2 DEF LogInv
<1> QED
  BY <1>1, <1>5, <1>6 DEF LogInv

\* The application's state and each connection's members, memory, requests and answers are
\* of their types; writer_index_ never passes the memory.
THEOREM PusherTypeCorrect == Spec => []TypeInv
<1>1. IInv => TypeInv
  BY DEF IInv
<1> QED
  BY <1>1, AlwaysIInv, PTL

\* While every response is read whole and no OpenUrl has given up early: a request is sent
\* only when the server has accepted the one before, each with the next CSeq, and
\* IsRecord holds only when RECORD was accepted.
THEOREM HandshakeInStep == Spec => []InStep
BY AlwaysIInv, StagesInStep, PTL

-----------------------------------------------------------------------------
(***************************************************************************)
(* RtspRequest, the stream of a client's messages, with any bounds.        *)
(*                                                                         *)
(* What is behind reader_index_ and what is still to be read is always an  *)
(* end of what the client sent (StreamInv): OnRead, HandleRtcp and the     *)
(* parser only take from its front.  So all that is left is behind the     *)
(* request line that the parser holds, and, as long as it has no CSeq, all *)
(* header lines of that request are left (HeadersInv): the first CSeq that *)
(* it finds is that request's.  Without a CSeq in every request this is    *)
(* wrong: the parser takes the one of the request behind.                  *)
(***************************************************************************)

\* Every request has a CSeq.
CSeqs == \A m \in Messages : m.method # "RTCP" => "CSeq" \in ToSet(m.lines)

Triples == Nat \X Nat \X Nat

Transports == Lines \cup {"none"}

Replies == [method : Methods, request : Nat, cseq : Nat, auth : BOOLEAN, transport : Transports]

RequestTypeInv ==
  /\ sent \in Seq(Messages)
  /\ wire \in Seq(Triples) /\ buffer \in Seq(Triples) /\ Len(buffer) <= MaxPieces
  /\ state \in {"line", "headers"} /\ method \in Methods \cup {"NONE", "RTCP"}
  /\ request \in Nat /\ cseq \in Nat /\ auth \in BOOLEAN /\ transport \in Transports
  /\ closed \in BOOLEAN /\ mixed \in BOOLEAN /\ torn \in BOOLEAN
  /\ replies \in Seq(Replies)

\* The stream that is left.
Stream == buffer \o wire

\* In the order of the stream.
Before(p, q) ==
  \/ p[1] < q[1]
  \/ p[1] = q[1] /\ p[2] < q[2]
  \/ p[1] = q[1] /\ p[2] = q[2] /\ p[3] < q[3]

\* p is a piece of what was sent.
IsPiece(p) ==
  /\ p[1] \in 1 .. Len(sent)
  /\ IF IsRtcp(p[1]) THEN p[2] = 0 /\ p[3] \in 0 .. 2
     ELSE p[2] \in 0 .. Len(sent[p[1]].lines) /\ p[3] \in 1 .. 2

Ordered(s) ==
  /\ \A i \in 1 .. Len(s) : IsPiece(s[i])
  /\ \A i, j \in 1 .. Len(s) : i < j => Before(s[i], s[j])

\* All header lines of request k are in s.
Whole(s, k) ==
  \A l \in 1 .. Len(sent[k].lines), h \in 1 .. 2 : \E i \in 1 .. Len(s) : s[i] = <<k, l, h>>

\* With a request line all its header lines are there.
Wholes(s) == \A i \in 1 .. Len(s) : ~IsRtcp(s[i][1]) /\ s[i][2] = 0 => Whole(s, s[i][1])

\* Nothing is left of request k's line and of what is before it.
Past(s, k) == \A i \in 1 .. Len(s) : Before(<<k, 0, 2>>, s[i])

StreamInv == Ordered(Stream) /\ Wholes(Stream)

AtRequest(k) == k \in 1 .. Len(sent) /\ sent[k].method \in Methods

\* All that is left is behind the line of the request that the parser holds; until it has
\* the CSeq, all header lines are left.
HeadersInv ==
  /\ state = "line" => cseq = 0
  /\ state = "headers" /\ ~closed =>
       /\ AtRequest(request) /\ Past(Stream, request)
       /\ method \in {"RTCP", sent[request].method}
       /\ cseq = request \/ (cseq = 0 /\ Whole(Stream, request))

\* Nothing is left of what has been answered, and the parser holds a later request.
ReplyInv ==
  \A i \in 1 .. Len(replies) :
    LET r == replies[i]
    IN /\ AtRequest(r.request) /\ r.cseq = r.request /\ r.method = sent[r.request].method
       /\ Past(Stream, r.request)
       /\ state = "headers" /\ ~closed => r.request < request
       /\ \A j \in 1 .. i - 1 : replies[j].request < r.request

RequestInv == RequestTypeInv /\ StreamInv /\ HeadersInv /\ ReplyInv

-----------------------------------------------------------------------------
(***************************************************************************)
(* The least and the greatest of a set of places                           *)
(***************************************************************************)

LEMMA LeastPlace ==
  ASSUME NEW S, S \subseteq Nat, S # {}
  PROVE  Min(S) \in S /\ \A x \in S : Min(S) <= x
<1> DEFINE R == {p \in Nat \X Nat : p[1] < p[2]}
<1>1. IsWellFoundedOn(R, Nat)
  BY NatLessThanWellFounded DEF OpToRel
<1>2. \E x \in S : \A y \in S : ~(<<y, x>> \in R)
  BY <1>1, WFMin
<1>3. \A x, y \in Nat : <<y, x>> \in R <=> y < x
  OBVIOUS
<1>4. \A x, y \in S : ~(<<y, x>> \in R) => x =< y
  <2> HIDE DEF R
  <2> QED
    BY <1>3
<1>5. \E x \in S : \A y \in S : x =< y
  BY <1>2, <1>4
<1> QED
  BY <1>5 DEF Min

LEMMA GreatestPlace ==
  ASSUME NEW S, NEW n \in Nat, S \subseteq 0 .. n, S # {}
  PROVE  Max(S) \in S /\ \A x \in S : Max(S) >= x
<1> DEFINE T == {y \in 0 .. n : n - y \in S}
<1>1. T \subseteq Nat /\ T # {}
  <2>1. PICK x : x \in S
    OBVIOUS
  <2>2. n - x \in T
    BY <2>1
  <2> QED
    BY <2>2
<1>2. PICK y \in T : \A z \in T : y <= z
  BY <1>1, LeastPlace
<1>3. n - y \in S
  BY <1>2
<1>4. ASSUME NEW x \in S PROVE n - y >= x
  <2>1. n - x \in T /\ x \in 0 .. n
    BY <1>4
  <2>2. y <= n - x /\ y \in 0 .. n
    BY <1>2, <2>1
  <2> QED
    BY <2>1, <2>2
<1>5. \E x \in S : \A z \in S : x >= z
  BY <1>3, <1>4
<1> QED
  BY <1>5 DEF Max

-----------------------------------------------------------------------------
(***************************************************************************)
(* The ends of a stream                                                    *)
(***************************************************************************)

\* t is s without its first e pieces.
Suffix(t, s, e) ==
  /\ e \in 0 .. Len(s) /\ Len(t) = Len(s) - e
  /\ \A i \in 1 .. Len(t) : t[i] = s[i + e]

LEMMA SuffixOfItself ==
  ASSUME NEW s \in Seq(Triples)
  PROVE  Suffix(s, s, 0)
<1>1. Len(s) \in Nat
  BY LenProperties
<1>2. 0 \in 0 .. Len(s) /\ Len(s) = Len(s) - 0 /\ \A i \in 1 .. Len(s) : i = i + 0
  BY <1>1
<1> QED
  BY <1>2 DEF Suffix

LEMMA SuffixOfSuffix ==
  ASSUME NEW s \in Seq(Triples), NEW t \in Seq(Triples), NEW u \in Seq(Triples), NEW e, NEW f,
         Suffix(t, s, e), Suffix(u, t, f)
  PROVE  Suffix(u, s, e + f)
<1>1. /\ Len(s) \in Nat /\ Len(t) \in Nat /\ Len(u) \in Nat /\ e \in 0 .. Len(s) /\ f \in 0 .. Len(t)
      /\ Len(t) = Len(s) - e /\ Len(u) = Len(t) - f
  BY LenProperties DEF Suffix
<1>2. ASSUME NEW i \in 1 .. Len(u) PROVE u[i] = s[i + (e + f)]
  <2>1. i + f \in 1 .. Len(t) /\ (i + f) + e = i + (e + f)
    BY <1>1
  <2> QED
    BY <2>1 DEF Suffix
<1> QED
  BY <1>1, <1>2 DEF Suffix

LEMMA CutProperties ==
  ASSUME NEW b \in Seq(Triples), NEW w \in Seq(Triples), NEW e \in 0 .. Len(b)
  PROVE  /\ RetrieveUntil(b, e) \in Seq(Triples) /\ Len(RetrieveUntil(b, e)) = Len(b) - e
         /\ RetrieveUntil(b, e) \o w \in Seq(Triples)
         /\ Suffix(RetrieveUntil(b, e) \o w, b \o w, e)
<1> DEFINE c == SubSeq(b, e + 1, Len(b))
<1>1. Len(b) \in Nat /\ Len(w) \in Nat /\ e \in Nat
  BY LenProperties
<1>2. /\ c \in Seq(Triples) /\ Len(c) = Len(b) - e
      /\ \A i \in 1 .. Len(b) - e : c[i] = b[i + e]
  <2>1. \A i \in e + 1 .. Len(b) : b[i] \in Triples
    BY <1>1, ElementOfSeq
  <2>2. e + 1 \in Int /\ Len(b) \in Int
    BY <1>1
  <2>3. /\ c \in Seq(Triples) /\ Len(c) = IF e + 1 <= Len(b) THEN Len(b) - (e + 1) + 1 ELSE 0
        /\ \A i \in 1 .. Len(b) - (e + 1) + 1 : c[i] = b[e + 1 + i - 1]
    BY <2>1, <2>2, SubSeqProperties
  <2> HIDE DEF c
  <2>4. Len(c) = Len(b) - e
    BY <1>1, <2>3
  <2>5. ASSUME NEW i \in 1 .. Len(b) - e PROVE c[i] = b[i + e]
    <3>1. i \in 1 .. Len(b) - (e + 1) + 1 /\ e + 1 + i - 1 = i + e
      BY <1>1
    <3> QED
      BY <2>3, <3>1
  <2> QED
    BY <2>3, <2>4, <2>5
<1>3. RetrieveUntil(b, e) = c
  BY DEF RetrieveUntil
<1> HIDE DEF c
<1>4. /\ c \o w \in Seq(Triples) /\ Len(c \o w) = Len(c) + Len(w)
      /\ \A i \in 1 .. Len(c) + Len(w) : (c \o w)[i] = IF i <= Len(c) THEN c[i] ELSE w[i - Len(c)]
  BY <1>2, ConcatProperties
<1>5. /\ b \o w \in Seq(Triples) /\ Len(b \o w) = Len(b) + Len(w)
      /\ \A i \in 1 .. Len(b) + Len(w) : (b \o w)[i] = IF i <= Len(b) THEN b[i] ELSE w[i - Len(b)]
  BY ConcatProperties
<1>6. ASSUME NEW i \in 1 .. Len(c \o w) PROVE (c \o w)[i] = (b \o w)[i + e]
  <2>1. i \in 1 .. Len(c) + Len(w) /\ i + e \in 1 .. Len(b) + Len(w) /\ i \in Nat
    BY <1>1, <1>2, <1>4
  <2>2. CASE i <= Len(c)
    <3>1. i + e <= Len(b) /\ i \in 1 .. Len(b) - e
      BY <1>1, <1>2, <2>1, <2>2
    <3> QED
      BY <1>2, <1>4, <1>5, <2>1, <2>2, <3>1
  <2>3. CASE ~(i <= Len(c))
    <3>1. ~(i + e <= Len(b)) /\ (i + e) - Len(b) = i - Len(c)
      BY <1>1, <1>2, <2>1, <2>3
    <3> QED
      BY <1>4, <1>5, <2>1, <2>3, <3>1
  <2> QED
    BY <2>2, <2>3
<1> QED
  BY <1>1, <1>2, <1>3, <1>4, <1>5, <1>6 DEF Suffix

\* What OnRead leaves of b.
LEMMA LeftProperties ==
  ASSUME NEW b \in Seq(Triples), NEW w \in Seq(Triples), Left(b)
  PROVE  /\ buffer' \in Seq(Triples) /\ Len(buffer') <= MaxPieces
         /\ \E e \in 0 .. Len(b) : Suffix(buffer' \o w, b \o w, e)
         /\ Len(b) <= MaxPieces => buffer' = b
<1>1. Len(b) \in Nat /\ MaxPieces \in Nat
  BY PiecesAssumption, LenProperties
<1>2. CASE Len(b) > MaxPieces
  <2>1. buffer' = <<>>
    BY <1>2 DEF Left
  <2>2. RetrieveUntil(b, Len(b)) = <<>>
    BY <1>1, SubSeqEmpty DEF RetrieveUntil
  <2>3. Suffix(buffer' \o w, b \o w, Len(b)) /\ Len(b) \in 0 .. Len(b)
    <3>1. Len(b) \in 0 .. Len(b)
      BY <1>1
    <3>2. Suffix(RetrieveUntil(b, Len(b)) \o w, b \o w, Len(b))
      BY <3>1, CutProperties
    <3> QED
      BY <2>1, <2>2, <3>1, <3>2
  <2> QED
    BY <1>1, <1>2, <2>1, <2>3, EmptySeq
<1>3. CASE ~(Len(b) > MaxPieces)
  <2>1. buffer' = b
    BY <1>3 DEF Left
  <2>2. RetrieveUntil(b, 0) = b
    BY SubSeqFull DEF RetrieveUntil
  <2>3. Suffix(buffer' \o w, b \o w, 0) /\ 0 \in 0 .. Len(b)
    BY <1>1, <2>1, <2>2, CutProperties
  <2> QED
    BY <1>1, <1>3, <2>1, <2>3
<1> QED
  BY <1>2, <1>3

\* What is so of a stream is so of its ends.
LEMMA SuffixKeeps ==
  ASSUME NEW s \in Seq(Triples), NEW t \in Seq(Triples), NEW e, Suffix(t, s, e),
         Ordered(s), Wholes(s)
  PROVE  Ordered(t) /\ Wholes(t) /\ \A k : Past(s, k) => Past(t, k)
<1>1. /\ Len(s) \in Nat /\ Len(t) \in Nat /\ e \in Nat /\ Len(t) = Len(s) - e
      /\ \A i \in 1 .. Len(t) : t[i] = s[i + e] /\ i + e \in 1 .. Len(s)
  <2>1. Len(s) \in Nat /\ Len(t) \in Nat /\ e \in 0 .. Len(s) /\ Len(t) = Len(s) - e
    BY LenProperties DEF Suffix
  <2>2. \A i \in 1 .. Len(t) : i + e \in 1 .. Len(s)
    BY <2>1
  <2> QED
    BY <2>1, <2>2 DEF Suffix
<1>2. Ordered(t)
  <2>1. \A i, j \in 1 .. Len(t) : i < j => i + e < j + e
    BY <1>1
  <2> QED
    BY <1>1, <2>1 DEF Ordered
<1>3. ASSUME NEW i \in 1 .. Len(t), ~IsRtcp(t[i][1]), t[i][2] = 0 PROVE Whole(t, t[i][1])
  <2> DEFINE k == t[i][1]
  <2>1. Whole(s, k)
    BY <1>1, <1>3 DEF Wholes
  <2>2. ASSUME NEW l \in 1 .. Len(sent[k].lines), NEW h \in 1 .. 2
        PROVE  \E j \in 1 .. Len(t) : t[j] = <<k, l, h>>
    <3>1. PICK j \in 1 .. Len(s) : s[j] = <<k, l, h>>
      BY <2>1 DEF Whole
    <3>2. s[j][1] = k /\ s[j][2] = l /\ l \in Nat /\ l > 0
      BY <3>1
    <3>3. ~(j < i + e)
      <4>1. s[i + e] \in Triples
        BY <1>1, ElementOfSeq
      <4>2. SUFFICES ASSUME Before(s[j], s[i + e]) PROVE FALSE
        BY <1>1 DEF Ordered
      <4> QED
        <5> DEFINE p == s[j]
                   q == s[i + e]
        <5>1. p[1] = q[1] /\ q[2] = 0 /\ p[2] = l
          BY <1>1, <1>3, <3>2
        <5>2. q[1] \in Nat
          BY <4>1 DEF Triples
        <5> HIDE DEF p, q
        <5>3. Before(p, q)
          BY <4>2 DEF p, q
        <5> QED
          BY <3>2, <5>1, <5>2, <5>3 DEF Before
    <3>4. j # i + e
      BY <1>1, <1>3, <3>2
    <3>5. j - e \in 1 .. Len(t) /\ (j - e) + e = j
      BY <1>1, <3>3, <3>4
    <3> QED
      BY <1>1, <3>1, <3>5
  <2> QED
    BY <2>2 DEF Whole
<1>4. \A k : Past(s, k) => Past(t, k)
  BY <1>1 DEF Past
<1> QED
  BY <1>2, <1>3, <1>4 DEF Wholes

-----------------------------------------------------------------------------
(***************************************************************************)
(* What the parser finds                                                   *)
(***************************************************************************)

LEMMA ChunkProperties ==
  ASSUME NEW b \in Seq(Triples), NEW w \in Seq(Triples), NEW e \in 0 .. Len(b)
  PROVE  /\ SubSeq(b, 1, e) \in Seq(Triples) /\ Len(SubSeq(b, 1, e)) = e
         /\ Len(b \o w) \in Nat /\ e <= Len(b \o w)
         /\ \A i \in 1 .. e : SubSeq(b, 1, e)[i] = b[i] /\ b[i] = (b \o w)[i]
<1> DEFINE c == SubSeq(b, 1, e)
<1>1. Len(b) \in Nat /\ Len(w) \in Nat /\ e \in Nat
  BY LenProperties
<1>2. /\ c \in Seq(Triples) /\ Len(c) = IF 1 <= e THEN e - 1 + 1 ELSE 0
      /\ \A i \in 1 .. e - 1 + 1 : c[i] = b[1 + i - 1]
  <2>1. \A i \in 1 .. e : b[i] \in Triples
    BY <1>1, ElementOfSeq
  <2> QED
    BY <1>1, <2>1, SubSeqProperties
<1>3. /\ Len(b \o w) = Len(b) + Len(w)
      /\ \A i \in 1 .. Len(b) + Len(w) : (b \o w)[i] = IF i <= Len(b) THEN b[i] ELSE w[i - Len(b)]
  BY ConcatProperties
<1> HIDE DEF c
<1>4. Len(c) = e
  BY <1>1, <1>2
<1>5. ASSUME NEW i \in 1 .. e PROVE c[i] = b[i] /\ b[i] = (b \o w)[i]
  <2>1. i \in 1 .. e - 1 + 1 /\ 1 + i - 1 = i /\ i \in 1 .. Len(b) + Len(w) /\ i <= Len(b)
    BY <1>1
  <2> QED
    BY <1>2, <1>3, <2>1
<1>6. Len(b \o w) \in Nat /\ e <= Len(b \o w)
  BY <1>1, <1>3
<1> QED
  BY <1>2, <1>4, <1>5, <1>6 DEF c

LEMMA CrlfPlaces ==
  ASSUME NEW b \in Seq(Triples)
  PROVE  /\ FindFirstCrlf(b) \in 0 .. Len(b)
         /\ FindFirstCrlf(b) # 0 => FindFirstCrlf(b) \in Crlfs(b)
         /\ FindLastCrlf(b) \in 0 .. Len(b)
         /\ FindLastCrlf(b) = 0 => Crlfs(b) = {}
<1>1. Len(b) \in Nat /\ Crlfs(b) \subseteq 1 .. Len(b)
  BY LenProperties DEF Crlfs
<1>2. Crlfs(b) # {} => Min(Crlfs(b)) \in Crlfs(b)
  BY <1>1, LeastPlace
<1>3. /\ Max(Crlfs(b) \cup {0}) \in Crlfs(b) \cup {0}
      /\ \A x \in Crlfs(b) : Max(Crlfs(b) \cup {0}) >= x
  <2>1. Crlfs(b) \cup {0} \subseteq 0 .. Len(b) /\ Crlfs(b) \cup {0} # {}
    BY <1>1
  <2> QED
    BY <1>1, <2>1, GreatestPlace
<1>4. /\ FindFirstCrlf(b) \in 0 .. Len(b)
      /\ FindFirstCrlf(b) # 0 => FindFirstCrlf(b) \in Crlfs(b)
  BY <1>1, <1>2 DEF FindFirstCrlf
<1>5. FindLastCrlf(b) \in 0 .. Len(b)
  BY <1>1, <1>3 DEF FindLastCrlf
<1>6. FindLastCrlf(b) = 0 => Crlfs(b) = {}
  <2>1. SUFFICES ASSUME NEW x \in Crlfs(b), FindLastCrlf(b) = 0 PROVE FALSE
    OBVIOUS
  <2>2. 0 >= x /\ x \in 1 .. Len(b)
    BY <1>1, <1>3, <2>1 DEF FindLastCrlf
  <2> QED
    BY <1>1, <2>2
<1> QED
  BY <1>4, <1>5, <1>6

LEMMA FirstFound ==
  ASSUME NEW c \in Seq(Triples), NEW kinds, Found(c, kinds) # {}
  PROVE  /\ Min(Found(c, kinds)) \in Found(c, kinds)
         /\ Found(c, kinds) \subseteq 1 .. Len(c)
         /\ \A x \in Found(c, kinds) : Min(Found(c, kinds)) <= x
         /\ Kind(First(c, kinds)) \in kinds /\ First(c, kinds)[1] \in Nat
<1>1. Len(c) \in Nat /\ Found(c, kinds) \subseteq 1 .. Len(c)
  BY LenProperties DEF Found, Crlfs
<1>2. Found(c, kinds) \subseteq Nat
  BY <1>1
<1>3. /\ Min(Found(c, kinds)) \in Found(c, kinds)
      /\ \A x \in Found(c, kinds) : Min(Found(c, kinds)) <= x
  BY <1>2, LeastPlace
<1>4. First(c, kinds) \in Triples
  BY <1>1, <1>3, ElementOfSeq DEF First
<1> QED
  BY <1>1, <1>3, <1>4 DEF First, Found, Triples

LEMMA LinesOf ==
  ASSUME RequestTypeInv, CSeqs, NEW k, AtRequest(k)
  PROVE  /\ k \in Nat /\ k # 0 /\ ~IsRtcp(k) /\ sent[k].lines \in Seq(Lines)
         /\ Len(sent[k].lines) \in Nat
         /\ \E l \in 1 .. Len(sent[k].lines) : sent[k].lines[l] = "CSeq"
<1>1. k \in 1 .. Len(sent) /\ sent[k] \in Messages /\ Len(sent) \in Nat /\ sent[k].method # "RTCP"
  BY ElementOfSeq, LenProperties DEF RequestTypeInv, AtRequest, Methods
<1>2. sent[k].lines \in Seq(Lines) /\ "CSeq" \in ToSet(sent[k].lines)
  BY <1>1, MessagesAssumption DEF CSeqs, IsMessage
<1>3. Len(sent[k].lines) \in Nat /\ DOMAIN sent[k].lines = 1 .. Len(sent[k].lines)
  BY <1>2, LenProperties
<1> QED
  BY <1>1, <1>2, <1>3 DEF IsRtcp, ToSet

\* The first two pieces that are left are those of the first header line.
LEMMA FirstPieces ==
  ASSUME RequestTypeInv, CSeqs, NEW s \in Seq(Triples), Ordered(s), NEW k, AtRequest(k),
         Past(s, k), Whole(s, k)
  PROVE  Len(s) >= 2 /\ s[2] = <<k, 1, 2>>
<1>1. /\ k \in Nat /\ ~IsRtcp(k) /\ 1 \in 1 .. Len(sent[k].lines) /\ Len(s) \in Nat
  <2>1. k \in Nat /\ ~IsRtcp(k) /\ Len(sent[k].lines) \in Nat
        /\ \E l \in 1 .. Len(sent[k].lines) : TRUE
    BY LinesOf
  <2> QED
    BY <2>1, LenProperties
<1> DEFINE At(l, h) == \E n \in 1 .. Len(s) : s[n] = <<k, l, h>>
<1>x. \A l \in 1 .. Len(sent[k].lines), h \in 1 .. 2 : At(l, h)
  BY DEF Whole
<1>y. 1 \in 1 .. 2 /\ 2 \in 1 .. 2
  OBVIOUS
<1>z. At(1, 1) /\ At(1, 2)
  <2> HIDE DEF At
  <2> QED
    BY <1>1, <1>x, <1>y
<1>2. PICK i \in 1 .. Len(s) : s[i] = <<k, 1, 1>>
  BY <1>z
<1>3. PICK j \in 1 .. Len(s) : s[j] = <<k, 1, 2>>
  BY <1>z
<1>4. /\ s[i][1] = k /\ s[i][2] = 1 /\ s[i][3] = 1
      /\ s[j][1] = k /\ s[j][2] = 1 /\ s[j][3] = 2
  BY <1>2, <1>3
<1>5. ASSUME NEW n \in 1 .. Len(s)
      PROVE  /\ s[n][1] \in Nat /\ s[n][2] \in Nat /\ s[n][3] \in Nat
             /\ \/ k < s[n][1] \/ (k = s[n][1] /\ 0 < s[n][2])
                \/ k = s[n][1] /\ 0 = s[n][2] /\ 2 < s[n][3]
             /\ s[n][1] = k => s[n][3] \in 1 .. 2
  <2>1. s[n] \in Triples
    BY ElementOfSeq
  <2>2. Before(<<k, 0, 2>>, s[n]) /\ IsPiece(s[n])
    BY DEF Past, Ordered
  <2>3. s[n][1] = k => s[n][3] \in 1 .. 2
    BY <1>1, <2>2 DEF IsPiece
  <2>4. s[n][1] \in Nat /\ s[n][2] \in Nat /\ s[n][3] \in Nat
    BY <2>1 DEF Triples
  <2>5. \/ k < s[n][1] \/ (k = s[n][1] /\ 0 < s[n][2])
        \/ k = s[n][1] /\ 0 = s[n][2] /\ 2 < s[n][3]
    <3> DEFINE o == <<k, 0, 2>>
               p == s[n]
    <3>1. o[1] = k /\ o[2] = 0 /\ o[3] = 2
      OBVIOUS
    <3>2. Before(o, p)
      BY <2>2
    <3> HIDE DEF o, p
    <3>3. \/ k < p[1] \/ (k = p[1] /\ 0 < p[2])
          \/ k = p[1] /\ 0 = p[2] /\ 2 < p[3]
      BY <3>1, <3>2 DEF Before
    <3> QED
      BY <3>3 DEF p
  <2> QED
    BY <2>3, <2>4, <2>5
<1>6. i = 1
  <2>1. SUFFICES ASSUME i # 1 PROVE FALSE
    OBVIOUS
  <2>2. 1 \in 1 .. Len(s) /\ 1 < i
    BY <1>1, <2>1
  <2>3. Before(s[1], s[i])
    BY <2>2 DEF Ordered
  <2> QED
    BY <1>1, <1>4, <1>5, <2>2, <2>3 DEF Before
<1>7. j = 2
  <2>1. SUFFICES ASSUME j # 2 PROVE FALSE
    OBVIOUS
  <2>2. j # 1
    BY <1>4, <1>6
  <2>3. 2 \in 1 .. Len(s) /\ 2 < j /\ 1 \in 1 .. Len(s) /\ 1 < 2
    BY <1>1, <2>1, <2>2
  <2>4. Before(s[1], s[2]) /\ Before(s[2], s[j])
    BY <2>3 DEF Ordered
  <2>5. s[1][1] = k /\ s[1][2] = 1 /\ s[1][3] = 1
    BY <1>4, <1>6
  <2> QED
    BY <1>1, <1>4, <1>5, <2>3, <2>4, <2>5 DEF Before
<1> QED
  BY <1>1, <1>3, <1>7

\* While all header lines of request k are still to be read, the CSeq that is found is its.
LEMMA ItsCSeq ==
  ASSUME RequestTypeInv, CSeqs, NEW s \in Seq(Triples), Ordered(s), NEW k, AtRequest(k),
         Past(s, k), Whole(s, k), NEW c \in Seq(Triples), Len(c) <= Len(s),
         \A i \in 1 .. Len(c) : c[i] = s[i], Found(c, {"CSeq"}) # {}
  PROVE  First(c, {"CSeq"})[1] = k
<1> DEFINE i == Min(Found(c, {"CSeq"}))
<1>1. /\ i \in Found(c, {"CSeq"}) /\ i \in 1 .. Len(c) /\ \A x \in Found(c, {"CSeq"}) : i <= x
      /\ First(c, {"CSeq"}) = c[i]
  BY FirstFound DEF First
<1>2. /\ k \in Nat /\ ~IsRtcp(k) /\ Len(s) \in Nat /\ Len(c) \in Nat
      /\ DOMAIN c = 1 .. Len(c)
  BY LinesOf, LenProperties
<1> HIDE DEF i
<1>3. c[i] = s[i] /\ i \in 1 .. Len(s) /\ s[i] \in Triples
  BY <1>1, <1>2, ElementOfSeq
<1>4. SUFFICES ASSUME s[i][1] # k PROVE FALSE
  BY <1>1, <1>3
<1>5. k < s[i][1] /\ s[i][1] \in Nat
  <2>1. Before(<<k, 0, 2>>, s[i])
    BY <1>3 DEF Past
  <2> QED
    BY <1>3, <1>4, <2>1 DEF Before, Triples
<1>6. PICK l \in 1 .. Len(sent[k].lines) : sent[k].lines[l] = "CSeq"
  BY LinesOf
<1>7. ASSUME NEW h \in 1 .. 2 PROVE \E j \in 1 .. Len(c) : j < i /\ c[j] = <<k, l, h>>
  <2>1. PICK j \in 1 .. Len(s) : s[j] = <<k, l, h>>
    BY DEF Whole
  <2>2. s[j][1] = k
    BY <2>1
  <2>3. j # i /\ ~(i < j)
    <3>1. ASSUME i < j PROVE FALSE
      <4>1. Before(s[i], s[j])
        BY <1>3, <3>1 DEF Ordered
      <4> QED
        BY <1>2, <1>5, <2>2, <4>1 DEF Before
    <3> QED
      BY <1>4, <2>2, <3>1
  <2>4. j \in 1 .. Len(c) /\ j < i
    BY <1>1, <1>2, <2>3
  <2> QED
    BY <2>1, <2>4
<1>8. PICK a \in 1 .. Len(c) : a < i /\ c[a] = <<k, l, 1>>
  BY <1>7
<1>9. PICK d \in 1 .. Len(c) : d < i /\ c[d] = <<k, l, 2>>
  BY <1>7
<1>10. d \in Found(c, {"CSeq"})
  <2>1. c[d][1] = k /\ c[d][2] = l /\ c[d][3] = 2 /\ l > 0
    BY <1>9, <1>6
  <2>2. Kind(c[d]) = "CSeq" /\ IsCrlf(c[d])
    BY <1>2, <1>6, <2>1 DEF Kind, IsCrlf
  <2>3. <<c[d][1], c[d][2], 1>> \in ToSet(c)
    BY <1>2, <1>8, <2>1 DEF ToSet
  <2> QED
    BY <1>2, <2>1, <2>2, <2>3 DEF Found, Crlfs
<1> QED
  BY <1>1, <1>2, <1>9, <1>10

LEMMA TransportType ==
  ASSUME RequestTypeInv, NEW c \in Seq(Triples)
  PROVE  Transport(c) \in Transports
<1> DEFINE tcp == {"TransportTcp", "TransportBad"}
<1>1. Found(c, tcp) # {} => Kind(First(c, tcp)) \in tcp
  BY FirstFound
<1>2. tcp \subseteq Transports /\ {"TransportUdp", "TransportMulticast"} \subseteq Transports
  BY DEF Transports, Lines
<1>3. transport \in Transports
  BY DEF RequestTypeInv
<1>4. CASE Found(c, tcp) # {}
  <2>1. Transport(c) = Kind(First(c, tcp))
    BY <1>4 DEF Transport
  <2> QED
    BY <1>1, <1>2, <1>4, <2>1
<1>5. CASE Found(c, tcp) = {}
  <2>1. Transport(c) \in {"TransportUdp", "TransportMulticast", transport}
    BY <1>5 DEF Transport
  <2> QED
    BY <1>2, <1>3, <2>1
<1> QED
  BY <1>4, <1>5

\* What ParseHeadersLine does for request k, with b in front of w.
HeadersDone(m, k, b, w) ==
  /\ buffer' \in Seq(Triples) /\ Len(buffer') <= MaxPieces
  /\ \E e \in Nat : Suffix(buffer' \o w, b \o w, e)
  /\ request' = k /\ method' = m
  /\ auth' \in BOOLEAN /\ transport' \in Transports
  /\ \/ closed' = TRUE /\ state' = "headers" /\ cseq' = cseq /\ replies' = replies
     \/ /\ closed' = closed /\ state' = "headers" /\ replies' = replies
        /\ cseq' = k \/ (cseq' = 0 /\ Whole(buffer' \o w, k))
     \/ /\ closed' = closed /\ state' = "line" /\ cseq' = 0
        /\ \E r \in Replies : /\ r.request = k /\ r.cseq = k /\ r.method = sent[k].method
                              /\ replies' = Append(replies, r)

LEMMA Parsed ==
  ASSUME RequestTypeInv, CSeqs, NEW b \in Seq(Triples), NEW w \in Seq(Triples),
         Ordered(b \o w), NEW k, AtRequest(k), Past(b \o w, k),
         cseq = k \/ (cseq = 0 /\ Whole(b \o w, k)),
         NEW m, m \in {"RTCP", sent[k].method}, ParseHeadersLine(m, k, b)
  PROVE  HeadersDone(m, k, b, w)
<1> USE DEF HeadersDone
<1> DEFINE s     == b \o w
           e     == FindLastCrlf(b)
           chunk == SubSeq(b, 1, e)
           rest  == RetrieveUntil(b, e)
<1>1. e \in 0 .. Len(b) /\ Len(b) \in Nat /\ (e = 0 => Crlfs(b) = {}) /\ DOMAIN b = 1 .. Len(b)
  BY CrlfPlaces, LenProperties
<1> HIDE DEF e
<1>2. /\ chunk \in Seq(Triples) /\ Len(chunk) = e /\ e <= Len(s)
      /\ \A i \in 1 .. e : chunk[i] = s[i]
  BY <1>1, ChunkProperties
<1>3. rest \in Seq(Triples) /\ rest \o w \in Seq(Triples) /\ Suffix(rest \o w, s, e)
  BY <1>1, CutProperties
<1>4. s \in Seq(Triples)
  BY ConcatProperties
<1>5. /\ method' = m /\ request' = k /\ Left(rest)
      /\ IF chunk = <<>> THEN state' = "headers" /\ UNCHANGED <<cseq, auth, transport, closed, replies>>
         ELSE IF ParseCSeq(chunk) = 0
           THEN closed' = TRUE /\ state' = "headers" /\ UNCHANGED <<cseq, auth, transport, replies>>
         ELSE /\ auth' = ParseAuthorization(m, chunk)
              /\ transport' = IF m = "SETUP" THEN Transport(chunk) ELSE transport
              /\ UNCHANGED closed
              /\ IF GotAll(m, k, chunk)
                   THEN HandleRtspRequest(m, k, ParseCSeq(chunk))
                   ELSE /\ state' = "headers" /\ cseq' = ParseCSeq(chunk)
                        /\ UNCHANGED replies
  BY DEF ParseHeadersLine, e
<1> HIDE DEF chunk, rest, s
<1>6. /\ buffer' \in Seq(Triples) /\ Len(buffer') <= MaxPieces
      /\ \E f \in 0 .. Len(rest) : Suffix(buffer' \o w, rest \o w, f)
      /\ Len(rest) <= MaxPieces => buffer' = rest
  BY <1>3, <1>5, LeftProperties
<1>7. \E f \in Nat : Suffix(buffer' \o w, s, f)
  <2>1. PICK f \in 0 .. Len(rest) : Suffix(buffer' \o w, rest \o w, f)
    BY <1>6
  <2>2. Suffix(buffer' \o w, s, e + f)
    BY <1>3, <1>4, <1>6, <2>1, ConcatProperties, SuffixOfSuffix
  <2>3. e + f \in Nat
    BY <1>1, <1>3, <2>1, LenProperties
  <2> QED
    BY <2>2, <2>3
<1>8. auth \in BOOLEAN /\ transport \in Transports
  BY DEF RequestTypeInv
<1>9. CASE chunk = <<>>
  <2>1. e = 0 /\ Crlfs(b) = {}
    BY <1>1, <1>2, <1>9, EmptySeq
  <2>2. rest = b
    BY <2>1, SubSeqFull DEF rest, RetrieveUntil
  <2>3. CASE cseq = k
    BY <1>5, <1>6, <1>7, <1>8, <1>9, <2>3 DEF s
  <2>4. CASE cseq = 0 /\ Whole(s, k)
    <3>1. Len(s) >= 2 /\ s[2] = <<k, 1, 2>>
      BY <1>4, <2>4, FirstPieces DEF s
    <3>2. Len(b) <= 1
      <4>1. SUFFICES ASSUME 2 <= Len(b) PROVE FALSE
        BY <1>1
      <4>2. 2 \in 1 .. Len(b) /\ Len(b) \in 0 .. Len(b)
        BY <1>1, <4>1
      <4>3. b[2] = <<k, 1, 2>>
        BY <3>1, <4>2, ChunkProperties DEF s
      <4>4. IsCrlf(b[2])
        BY <4>3, LinesOf DEF IsCrlf
      <4> QED
        BY <1>1, <2>1, <4>2, <4>4 DEF Crlfs
    <3>3. buffer' = b
      <4>1. Len(rest) <= MaxPieces
        BY <1>1, <2>2, <3>2, PiecesAssumption
      <4> QED
        BY <1>6, <2>2, <4>1
    <3> QED
      BY <1>5, <1>6, <1>7, <1>8, <1>9, <2>4, <3>3 DEF s
  <2> QED
    BY <2>3, <2>4 DEF s
<1>10. CASE chunk # <<>> /\ ParseCSeq(chunk) = 0
  BY <1>5, <1>6, <1>7, <1>8, <1>10 DEF s
<1>11. CASE chunk # <<>> /\ ParseCSeq(chunk) # 0
  <2>1. ParseCSeq(chunk) = k
    <3>1. CASE cseq = 0 /\ Whole(s, k)
      <4>1. Found(chunk, {"CSeq"}) # {}
        BY <1>11, <3>1 DEF ParseCSeq
      <4>2. First(chunk, {"CSeq"})[1] = k
        BY <1>2, <1>4, <3>1, <4>1, ItsCSeq DEF s
      <4> QED
        BY <3>1, <4>1, <4>2 DEF ParseCSeq
    <3>2. CASE cseq = k
      BY <3>2, LinesOf DEF ParseCSeq
    <3> QED
      BY <3>1, <3>2 DEF s
  <2>2. auth' \in BOOLEAN
    BY <1>5, <1>8, <1>11, Zenon DEF ParseAuthorization
  <2>3. transport' \in Transports
    BY <1>2, <1>5, <1>8, <1>11, TransportType
  <2>4. CASE GotAll(m, k, chunk)
    <3> DEFINE r == [method |-> m, request |-> k, cseq |-> k, auth |-> auth', transport |-> transport']
    <3>1. /\ replies' = Append(replies, r) /\ state' = "line" /\ cseq' = 0
      BY <1>5, <1>11, <2>1, <2>4 DEF HandleRtspRequest, Reset
    <3>2. m # "RTCP"
      BY <2>4 DEF GotAll
    <3>3. m = sent[k].method /\ m \in Methods /\ k \in Nat
      BY <3>2, LinesOf DEF AtRequest
    <3>4. r \in Replies /\ r.request = k /\ r.cseq = k /\ r.method = m
      BY <2>2, <2>3, <3>3 DEF Replies
    <3> HIDE DEF r
    <3> QED
      BY <1>5, <1>6, <1>7, <1>11, <2>2, <2>3, <3>1, <3>3, <3>4 DEF s
  <2>5. CASE ~GotAll(m, k, chunk)
    BY <1>5, <1>6, <1>7, <1>11, <2>1, <2>2, <2>3, <2>5 DEF s
  <2> QED
    BY <2>4, <2>5
<1> QED
  BY <1>9, <1>10, <1>11

-----------------------------------------------------------------------------
(***************************************************************************)
(* The steps                                                               *)
(***************************************************************************)

\* The invariant, of the stream that is left, when sent stays as it is.
LEMMA StreamGoes ==
  ASSUME RequestInv, sent' = sent, NEW t \in Seq(Triples), buffer' \o wire' = t,
         NEW e, Suffix(t, Stream, e)
  PROVE  /\ StreamInv' /\ \A k : Past(Stream, k) => Past(t, k)
         /\ \A i \in 1 .. Len(replies) : Past(t, replies[i].request)
<1> USE DEF RequestInv
<1>1. Stream \in Seq(Triples)
  BY ConcatProperties DEF Stream, RequestTypeInv
<1>2. /\ Ordered(t) /\ Wholes(t) /\ \A k : Past(Stream, k) => Past(t, k)
  BY <1>1, SuffixKeeps DEF StreamInv
<1>3. StreamInv' <=> Ordered(t) /\ Wholes(t)
  BY DEF StreamInv, Stream, Ordered, Wholes, Whole, IsPiece, IsRtcp
<1> QED
  BY <1>2, <1>3 DEF ReplyInv

\* Nothing but the stream, the method and the connection's end changes.
LEMMA NothingParsed ==
  ASSUME RequestInv, sent' = sent, NEW t \in Seq(Triples), buffer' \o wire' = t,
         NEW e, Suffix(t, Stream, e),
         UNCHANGED <<state, request, cseq, replies>>,
         \/ closed'
         \/ /\ closed' = closed
            /\ state = "headers" => method' \in {method, "RTCP"} /\ (cseq = 0 => t = Stream)
  PROVE  StreamInv' /\ HeadersInv' /\ ReplyInv'
<1> USE DEF RequestInv
<1>1. /\ StreamInv' /\ \A k : Past(Stream, k) => Past(t, k)
      /\ \A i \in 1 .. Len(replies) : Past(t, replies[i].request)
  BY StreamGoes
<1>2. /\ Stream' = t /\ \A k : Past(Stream, k)' <=> Past(t, k)
      /\ \A k : AtRequest(k)' <=> AtRequest(k)
      /\ \A k : Whole(Stream, k)' <=> Whole(t, k)
  BY DEF Stream, Past, AtRequest, Whole
<1>3. HeadersInv'
  <2>1. CASE closed'
    BY <2>1 DEF HeadersInv
  <2>2. CASE ~closed'
    BY <1>1, <1>2, <2>2 DEF HeadersInv
  <2> QED
    BY <2>1, <2>2
<1>4. ReplyInv'
  BY <1>1, <1>2 DEF ReplyInv
<1> QED
  BY <1>1, <1>3, <1>4

\* ParseHeadersLine of request k, whose line is not in b any more.
LEMMA HeadersParsed ==
  ASSUME RequestInv, CSeqs, sent' = sent, ~closed, NEW b \in Seq(Triples),
         NEW w \in Seq(Triples), wire' = w, NEW e, Suffix(b \o w, Stream, e),
         NEW k, AtRequest(k), Past(b \o w, k),
         cseq = k \/ (cseq = 0 /\ Whole(b \o w, k)),
         \A i \in 1 .. Len(replies) : replies[i].request < k,
         NEW m, m \in {"RTCP", sent[k].method}, ParseHeadersLine(m, k, b),
         mixed' \in BOOLEAN, torn' \in BOOLEAN
  PROVE  RequestInv'
<1> USE DEF RequestInv
<1>1. Stream \in Seq(Triples) /\ b \o w \in Seq(Triples)
  BY ConcatProperties DEF Stream, RequestTypeInv
<1>2. Ordered(b \o w) /\ Wholes(b \o w)
  BY <1>1, SuffixKeeps DEF StreamInv
<1>3. HeadersDone(m, k, b, w)
  <2>1. RequestTypeInv
    OBVIOUS
  <2> QED
    BY <1>2, <2>1, Parsed
<1> USE DEF HeadersDone
<1> DEFINE t == buffer' \o w
<1>4. t \in Seq(Triples) /\ \E f : Suffix(t, Stream, f)
  <2>1. t \in Seq(Triples)
    BY <1>3, ConcatProperties
  <2>2. PICK f \in Nat : Suffix(t, b \o w, f)
    BY <1>3
  <2> HIDE DEF t
  <2> QED
    BY <1>1, <2>1, <2>2, SuffixOfSuffix
<1>5. Past(t, k)
  <2>1. PICK f \in Nat : Suffix(t, b \o w, f)
    BY <1>3
  <2> HIDE DEF t
  <2> QED
    BY <1>1, <1>2, <1>4, <2>1, SuffixKeeps
<1>6. StreamInv' /\ \A i \in 1 .. Len(replies) : Past(t, replies[i].request)
  <2>1. buffer' \o wire' = t
    OBVIOUS
  <2> HIDE DEF t
  <2> QED
    BY <1>4, <2>1, StreamGoes
<1>7. /\ Stream' = t /\ \A j : Past(Stream, j)' <=> Past(t, j)
      /\ \A j : AtRequest(j)' <=> AtRequest(j)
      /\ \A j : Whole(Stream, j)' <=> Whole(t, j)
  BY DEF Stream, Past, AtRequest, Whole
<1> HIDE DEF t
<1>8. k \in Nat /\ k # 0 /\ sent[k].method \in Methods /\ m \in Methods \cup {"NONE", "RTCP"}
  BY LinesOf DEF AtRequest
<1>9. RequestTypeInv'
  <2>1. replies' \in Seq(Replies)
    <3>1. replies \in Seq(Replies) /\ \A r \in Replies : Append(replies, r) \in Seq(Replies)
      BY AppendProperties DEF RequestTypeInv
    <3> QED
      BY <1>3, <3>1
  <2>2. cseq' \in Nat /\ state' \in {"line", "headers"} /\ closed' \in BOOLEAN
    <3>1. cseq \in Nat /\ closed \in BOOLEAN
      BY DEF RequestTypeInv
    <3>2. /\ state' \in {"line", "headers"}
          /\ cseq' = cseq \/ cseq' = k \/ cseq' = 0
      BY <1>3
    <3>3. closed' = TRUE \/ closed' = closed
      BY <1>3
    <3>4. closed' \in BOOLEAN
      BY <3>1, <3>3, Zenon
    <3> QED
      BY <1>8, <3>1, <3>2, <3>4
  <2>3. sent' \in Seq(Messages) /\ wire' \in Seq(Triples)
    BY DEF RequestTypeInv
  <2> QED
    BY <1>3, <1>8, <2>1, <2>2, <2>3 DEF RequestTypeInv
<1>10. HeadersInv'
  <2>1. state' = "line" => cseq' = 0
    BY <1>3
  <2>2. ASSUME state' = "headers", ~closed'
        PROVE  /\ AtRequest(k) /\ Past(t, k) /\ m \in {"RTCP", sent[k].method}
               /\ cseq' = k \/ (cseq' = 0 /\ Whole(t, k))
    BY <1>3, <1>5, <2>2 DEF t
  <2> QED
    BY <1>3, <1>7, <2>1, <2>2 DEF HeadersInv
<1>11. ReplyInv'
  <2>1. CASE replies' = replies
    BY <1>3, <1>6, <1>7, <2>1 DEF ReplyInv
  <2>2. CASE ~closed' /\ state' = "line" /\ \E r \in Replies :
               /\ r.request = k /\ r.cseq = k /\ r.method = sent[k].method
               /\ replies' = Append(replies, r)
    <3>1. PICK r \in Replies : /\ r.request = k /\ r.cseq = k /\ r.method = sent[k].method
                               /\ replies' = Append(replies, r)
      BY <2>2
    <3> DEFINE n == Len(replies)
    <3>2. /\ n \in Nat /\ Len(replies') = n + 1 /\ replies'[n + 1] = r
          /\ \A i \in 1 .. n : replies'[i] = replies[i]
      BY <3>1, AppendProperties, LenProperties DEF RequestTypeInv
    <3> HIDE DEF n
    <3>3. ASSUME NEW i \in 1 .. n
          PROVE  LET x == replies'[i]
                 IN /\ AtRequest(x.request) /\ x.cseq = x.request /\ x.method = sent[x.request].method
                    /\ Past(t, x.request) /\ \A j \in 1 .. i - 1 : replies'[j].request < x.request
      <4>1. \A j \in 1 .. i - 1 : j \in 1 .. n
        BY <3>2
      <4> QED
        BY <1>6, <3>2, <4>1 DEF ReplyInv, n
    <3>4. \A j \in 1 .. (n + 1) - 1 : replies'[j].request < k
      <4>1. (n + 1) - 1 = n
        BY <3>2
      <4> QED
        BY <3>2, <4>1 DEF n
    <3>5. \A i \in 1 .. Len(replies') : i \in 1 .. n \/ i = n + 1
      BY <3>2
    <3>6. \A i \in 1 .. Len(replies') :
            LET x == replies'[i]
            IN /\ AtRequest(x.request) /\ x.cseq = x.request /\ x.method = sent[x.request].method
               /\ Past(t, x.request) /\ \A j \in 1 .. i - 1 : replies'[j].request < x.request
      BY <1>5, <3>1, <3>2, <3>3, <3>4, <3>5
    <3> QED
      BY <1>7, <2>2, <3>6 DEF ReplyInv
  <2> QED
    BY <1>3, <2>1, <2>2
<1> QED
  BY <1>6, <1>9, <1>10, <1>11

\* A read cuts the stream in two.
LEMMA SplitRead ==
  ASSUME RequestTypeInv, NEW n \in 1 .. Len(wire)
  PROVE  /\ buffer \o SubSeq(wire, 1, n) \in Seq(Triples) /\ RetrieveUntil(wire, n) \in Seq(Triples)
         /\ Len(buffer \o SubSeq(wire, 1, n)) >= 1
         /\ (buffer \o SubSeq(wire, 1, n)) \o RetrieveUntil(wire, n) = Stream
<1> DEFINE c == SubSeq(wire, 1, n)
           w == RetrieveUntil(wire, n)
<1>1. /\ wire \in Seq(Triples) /\ buffer \in Seq(Triples) /\ Len(wire) \in Nat /\ Len(buffer) \in Nat
      /\ n \in Nat /\ n >= 1 /\ n \in 0 .. Len(wire)
  BY LenProperties DEF RequestTypeInv
<1>2. c \in Seq(Triples) /\ Len(c) = n
  BY <1>1, ChunkProperties
<1>3. w \in Seq(Triples)
  BY <1>1, CutProperties
<1>4. c \o w = wire
  <2>1. /\ 1 \in 1 .. Len(wire) + 1 /\ n \in 1 - 1 .. Len(wire) /\ Len(wire) \in n .. Len(wire)
        /\ n + 1 <= Len(wire) + 1
    BY <1>1
  <2>2. c \o SubSeq(wire, n + 1, Len(wire)) = SubSeq(wire, 1, Len(wire))
    BY <1>1, <2>1, ConcatAdjacentSubSeq
  <2>3. SubSeq(wire, 1, Len(wire)) = wire
    BY <1>1, SubSeqFull
  <2> QED
    BY <2>2, <2>3 DEF RetrieveUntil
<1> HIDE DEF c, w
<1>5. buffer \o c \in Seq(Triples) /\ Len(buffer \o c) = Len(buffer) + n
  BY <1>1, <1>2, ConcatProperties
<1>6. (buffer \o c) \o w = Stream
  <2>1. \A x, y, z \in Seq(Triples) : (x \o y) \o z = x \o (y \o z)
    OBVIOUS
  <2>2. (buffer \o c) \o w = buffer \o (c \o w)
    BY <1>1, <1>2, <1>3, <2>1, Zenon
  <2> QED
    BY <1>4, <2>2 DEF Stream
<1>7. Len(buffer \o c) >= 1
  BY <1>1, <1>5
<1> QED
  BY <1>3, <1>5, <1>6, <1>7 DEF c, w

\* What is left of b without its first e pieces.
LEMMA RestLeft ==
  ASSUME NEW b \in Seq(Triples), NEW w \in Seq(Triples), NEW e \in 0 .. Len(b),
         Left(RetrieveUntil(b, e))
  PROVE  /\ buffer' \in Seq(Triples) /\ Len(buffer') <= MaxPieces /\ buffer' \o w \in Seq(Triples)
         /\ \E f : Suffix(buffer' \o w, b \o w, f)
<1> DEFINE rest == RetrieveUntil(b, e)
<1>1. rest \in Seq(Triples) /\ rest \o w \in Seq(Triples) /\ Suffix(rest \o w, b \o w, e)
  BY CutProperties
<1>2. b \o w \in Seq(Triples)
  BY ConcatProperties
<1> HIDE DEF rest
<1>3. /\ buffer' \in Seq(Triples) /\ Len(buffer') <= MaxPieces
      /\ \E f \in 0 .. Len(rest) : Suffix(buffer' \o w, rest \o w, f)
  BY <1>1, LeftProperties DEF rest
<1>4. buffer' \o w \in Seq(Triples)
  BY <1>3, ConcatProperties
<1> QED
  BY <1>1, <1>2, <1>3, <1>4, SuffixOfSuffix

\* A line that is a request's is both halves of a request line.
LEMMA RequestLine ==
  ASSUME NEW line, "request" \in LineIs(line)
  PROVE  /\ Len(line) = 2 /\ line[2][2] = 0 /\ line[1] = <<line[2][1], 0, 1>>
         /\ Last(line) = line[2] /\ Kind(line[2]) \in Methods
<1> DEFINE p == Last(line)
<1>1. Len(line) = 2
  BY DEF LineIs
<1>2. line[1] = <<p[1], p[2], 1>>
  BY <1>1 DEF LineIs
<1>3. p = line[2]
  BY <1>1 DEF Last
<1> HIDE DEF p
<1>4. LineIs(line) = IF p[2] = 0 THEN {IF Kind(p) \in Methods THEN "request" ELSE "error"}
                     ELSE {IF Kind(p) \in {"Authorization", "UserAgent"} THEN "error" ELSE "passed"}
  BY <1>1, <1>2 DEF LineIs, p
<1>5. p[2] = 0 /\ Kind(p) \in Methods
  BY <1>4
<1> QED
  BY <1>1, <1>2, <1>3, <1>5 DEF p

\* Request k's line is in front of the stream, and is taken.
LEMMA LineTaken ==
  ASSUME RequestInv, Len(Stream) >= 2, NEW k, Stream[1] = <<k, 0, 1>>, Stream[2] = <<k, 0, 2>>,
         k \in Nat, ~IsRtcp(k), NEW t \in Seq(Triples), Suffix(t, Stream, 2)
  PROVE  /\ k \in 1 .. Len(sent) /\ Past(t, k) /\ Whole(t, k)
         /\ \A i \in 1 .. Len(replies) : replies[i].request < k
<1> USE DEF RequestInv
<1>1. /\ Stream \in Seq(Triples) /\ Len(Stream) \in Nat /\ Len(t) \in Nat /\ Len(t) = Len(Stream) - 2
      /\ \A i \in 1 .. Len(t) : t[i] = Stream[i + 2]
  BY ConcatProperties, LenProperties DEF Stream, RequestTypeInv, Suffix
<1> DEFINE a == Stream[1]
           z == Stream[2]
<1>2. /\ a[1] = k /\ a[2] = 0 /\ a[3] = 1 /\ z[1] = k /\ z[2] = 0 /\ z[3] = 2
      /\ 1 \in 1 .. Len(Stream) /\ 2 \in 1 .. Len(Stream)
  BY <1>1
<1>3. k \in 1 .. Len(sent)
  BY <1>2 DEF StreamInv, Ordered, IsPiece
<1>4. Past(t, k)
  <2>1. ASSUME NEW i \in 1 .. Len(t) PROVE Before(<<k, 0, 2>>, t[i])
    <3>1. i + 2 \in 1 .. Len(Stream) /\ 2 < i + 2
      BY <1>1
    <3>2. Before(Stream[2], Stream[i + 2])
      BY <1>2, <3>1 DEF StreamInv, Ordered
    <3> QED
      BY <1>1, <3>2
  <2> QED
    BY <2>1 DEF Past
<1>5. Whole(t, k)
  <2>1. Whole(Stream, k)
    BY <1>2 DEF StreamInv, Wholes
  <2>2. ASSUME NEW l \in 1 .. Len(sent[k].lines), NEW h \in 1 .. 2
        PROVE  \E i \in 1 .. Len(t) : t[i] = <<k, l, h>>
    <3>1. PICK j \in 1 .. Len(Stream) : Stream[j] = <<k, l, h>>
      BY <2>1 DEF Whole
    <3>2. Stream[j][2] = l /\ l # 0
      BY <3>1
    <3>3. j # 1 /\ j # 2
      BY <1>2, <3>2
    <3>4. j - 2 \in 1 .. Len(t) /\ (j - 2) + 2 = j
      BY <1>1, <3>3
    <3> QED
      BY <1>1, <3>1, <3>4
  <2> QED
    BY <2>2 DEF Whole
<1>6. ASSUME NEW i \in 1 .. Len(replies) PROVE replies[i].request < k
  <2> DEFINE q == replies[i].request
             o == <<q, 0, 2>>
  <2>1. Before(o, a)
    BY <1>2 DEF ReplyInv, Past
  <2>2. o[1] = q /\ o[2] = 0 /\ o[3] = 2
    OBVIOUS
  <2> HIDE DEF o, a, q
  <2>3. q < k
    BY <1>2, <2>1, <2>2 DEF Before
  <2> QED
    BY <2>3 DEF q
<1> QED
  BY <1>3, <1>4, <1>5, <1>6

\* ParseRequestLine of all that is there.
LEMMA LineParsed ==
  ASSUME RequestInv, CSeqs, sent' = sent, ~closed, state = "line",
         NEW b \in Seq(Triples), NEW w \in Seq(Triples), wire' = w, b \o w = Stream,
         ParseRequestLine(b), mixed' \in BOOLEAN, torn' \in BOOLEAN
  PROVE  RequestInv'
<1> USE DEF RequestInv
<1> DEFINE end  == FindFirstCrlf(b)
           line == SubSeq(b, 1, end)
           rest == RetrieveUntil(b, end)
<1>1. /\ end \in 0 .. Len(b) /\ Len(b) \in Nat /\ 0 \in 0 .. Len(b)
      /\ end # 0 => end \in Crlfs(b)
  BY CrlfPlaces, LenProperties
<1>2. Stream \in Seq(Triples) /\ Len(Stream) \in Nat
  BY ConcatProperties, LenProperties DEF Stream, RequestTypeInv
<1>3. ParseRequestLine(b) <=>
        IF end = 0 THEN Left(b) /\ UNCHANGED <<parser, closed, replies>>
        ELSE \E is \in LineIs(line) :
               \/ /\ is = "request"
                  /\ ParseHeadersLine(Kind(Last(line)), Last(line)[1], rest)
               \/ is = "passed"  /\ Left(rest) /\ UNCHANGED <<parser, closed, replies>>
               \/ is = "error"   /\ Left(rest) /\ method' = "NONE" /\ closed' = TRUE
                                 /\ UNCHANGED <<state, request, cseq, auth, transport, replies>>
  BY DEF ParseRequestLine
<1>4. RetrieveUntil(b, 0) = b
  BY SubSeqFull DEF RetrieveUntil
<1>5. /\ sent' \in Seq(Messages) /\ wire' \in Seq(Triples) /\ mixed' \in BOOLEAN /\ torn' \in BOOLEAN
  BY DEF RequestTypeInv
<1>6. ASSUME NEW e \in 0 .. Len(b), Left(RetrieveUntil(b, e)),
             UNCHANGED <<state, request, cseq, auth, transport, replies>>,
             closed' = closed \/ closed' = TRUE, method' \in {method, "NONE"}
      PROVE  RequestInv'
  <2>1. /\ buffer' \in Seq(Triples) /\ Len(buffer') <= MaxPieces /\ buffer' \o w \in Seq(Triples)
        /\ \E f : Suffix(buffer' \o w, Stream, f)
    BY <1>6, RestLeft
  <2>2. StreamInv' /\ HeadersInv' /\ ReplyInv'
    BY <1>6, <2>1, NothingParsed
  <2>3. closed' \in BOOLEAN
    BY <1>6, Zenon DEF RequestTypeInv
  <2>4. RequestTypeInv'
    BY <1>5, <1>6, <2>1, <2>3 DEF RequestTypeInv
  <2> QED
    BY <2>2, <2>4
<1>7. CASE end = 0
  BY <1>1, <1>3, <1>4, <1>6, <1>7 DEF parser
<1>8. CASE end # 0 /\ Left(rest) /\ UNCHANGED <<parser, closed, replies>>
  BY <1>1, <1>6, <1>8 DEF parser
<1>9. CASE /\ end # 0 /\ Left(rest) /\ method' = "NONE" /\ closed' = TRUE
           /\ UNCHANGED <<state, request, cseq, auth, transport, replies>>
  BY <1>1, <1>6, <1>9
<1>10. CASE /\ end # 0 /\ "request" \in LineIs(line)
            /\ ParseHeadersLine(Kind(Last(line)), Last(line)[1], rest)
  <2> DEFINE k == line[2][1]
  <2>1. /\ Len(line) = 2 /\ line[2][2] = 0 /\ line[1] = <<k, 0, 1>>
        /\ Last(line) = line[2] /\ Kind(line[2]) \in Methods
    BY <1>10, RequestLine
  <2>2. /\ Len(line) = end /\ end <= Len(Stream)
        /\ \A i \in 1 .. end : line[i] = b[i] /\ b[i] = Stream[i]
    BY <1>1, ChunkProperties
  <2>3. end = 2 /\ Len(Stream) >= 2 /\ 1 \in 1 .. end /\ 2 \in 1 .. end
    <3> HIDE DEF line, end
    <3>1. end = 2 /\ end <= Len(Stream) /\ Len(Stream) \in Nat
      BY <1>2, <2>1, <2>2
    <3> QED
      BY <3>1
  <2>4. line[1] = Stream[1] /\ line[2] = Stream[2] /\ line[2] = b[2]
    BY <2>2, <2>3
  <2>5. ~IsRtcp(k) /\ line[2][3] = 2
    BY <1>1, <2>3, <2>4 DEF Crlfs, IsCrlf
  <2>6. line[2] \in Triples
    BY <1>2, <2>3, <2>4, ElementOfSeq
  <2>7. k \in Nat /\ line[2] = <<k, 0, 2>>
    <3> DEFINE p == line[2]
    <3> HIDE DEF line
    <3>1. p \in Triples /\ p[2] = 0 /\ p[3] = 2
      BY <2>1, <2>5, <2>6
    <3> HIDE DEF p
    <3>2. p = <<p[1], 0, 2>> /\ p[1] \in Nat
      BY <3>1 DEF Triples
    <3> QED
      BY <3>2 DEF p
  <2>8. rest \in Seq(Triples) /\ rest \o w \in Seq(Triples) /\ Suffix(rest \o w, Stream, 2)
    BY <1>1, <2>3, CutProperties
  <2>9. /\ Kind(Last(line)) = sent[k].method /\ sent[k].method \in Methods
        /\ Last(line)[1] = k
    BY <2>1 DEF Kind
  <2>10. Stream[1] = <<k, 0, 1>> /\ Stream[2] = <<k, 0, 2>>
    BY <2>1, <2>4, <2>7
  <2> HIDE DEF k, rest, line, end
  <2>11. /\ k \in 1 .. Len(sent) /\ Past(rest \o w, k) /\ Whole(rest \o w, k)
         /\ \A i \in 1 .. Len(replies) : replies[i].request < k
    BY <2>3, <2>5, <2>7, <2>8, <2>10, LineTaken
  <2>12. AtRequest(k) /\ cseq = 0
    BY <2>9, <2>11 DEF AtRequest, HeadersInv
  <2>13. ParseHeadersLine(sent[k].method, k, rest)
    BY <1>10, <2>9
  <2> QED
    BY <2>8, <2>11, <2>12, <2>13, HeadersParsed
<1> HIDE DEF end, line, rest
<1> QED
  BY <1>3, <1>7, <1>8, <1>9, <1>10

\* The packet in front is not an RTCP packet while the CSeq is still to be read.
LEMMA NoPacket ==
  ASSUME RequestInv, CSeqs, ~closed, state = "headers", cseq = 0, Len(Stream) >= 1
  PROVE  ~IsRtcp(Stream[1][1])
<1> USE DEF RequestInv
<1>1. /\ AtRequest(request) /\ Past(Stream, request) /\ Whole(Stream, request)
      /\ request # 0 /\ ~IsRtcp(request) /\ request \in Nat
  <2>1. AtRequest(request)
    BY DEF HeadersInv
  <2> QED
    BY <2>1, LinesOf DEF HeadersInv
<1>2. Stream \in Seq(Triples)
  BY ConcatProperties DEF Stream, RequestTypeInv
<1>3. Len(Stream) >= 2 /\ Stream[2] = <<request, 1, 2>> /\ Len(Stream) \in Nat
  BY <1>1, <1>2, FirstPieces, LenProperties DEF StreamInv
<1> DEFINE a == Stream[1]
           z == Stream[2]
           o == <<request, 0, 2>>
<1>4. a \in Triples /\ z[1] = request /\ z[2] = 1 /\ o[1] = request
  BY <1>2, <1>3, ElementOfSeq
<1>5. Before(o, a) /\ Before(a, z)
  <2>1. 1 \in 1 .. Len(Stream) /\ 2 \in 1 .. Len(Stream) /\ 1 < 2
    BY <1>3
  <2> QED
    BY <1>1, <2>1 DEF StreamInv, Ordered, Past
<1> HIDE DEF a, z, o
<1>6. a[1] = request
  <2>1. a[1] \in Nat
    BY <1>4 DEF Triples
  <2> QED
    BY <1>1, <1>4, <1>5, <2>1 DEF Before
<1> QED
  BY <1>1, <1>6 DEF a

LEMMA ReadStep ==
  ASSUME RequestInv, CSeqs, NEW n \in 1 .. Len(wire), OnRead(n)
  PROVE  RequestInv'
<1> USE DEF RequestInv
<1> DEFINE b == buffer \o SubSeq(wire, 1, n)
           w == RetrieveUntil(wire, n)
<1>1. b \in Seq(Triples) /\ w \in Seq(Triples) /\ Len(b) >= 1 /\ b \o w = Stream
  BY SplitRead
<1>2. /\ ~closed /\ wire' = w /\ sent' = sent
      /\ mixed' = (mixed \/ \E p, q \in ToSet(b) : p[1] # q[1])
      /\ torn' = (torn \/ Tears(b))
      /\ \/ /\ IsRtcp(b[1][1])
            /\ method' = "RTCP" /\ Left(HandleRtcp(b))
            /\ UNCHANGED <<state, request, cseq, auth, transport, closed, replies>>
         \/ IF state = "line" THEN ParseRequestLine(b) ELSE ParseHeadersLine(method, request, b)
  BY DEF OnRead
<1> HIDE DEF b, w
<1>3. mixed' \in BOOLEAN /\ torn' \in BOOLEAN
  BY <1>2, Zenon
<1>4. CASE state = "line" /\ ParseRequestLine(b)
  BY <1>1, <1>2, <1>3, <1>4, LineParsed
<1>5. CASE state # "line" /\ ParseHeadersLine(method, request, b)
  <2>1. /\ AtRequest(request) /\ Past(Stream, request) /\ method \in {"RTCP", sent[request].method}
        /\ cseq = request \/ (cseq = 0 /\ Whole(Stream, request))
        /\ \A i \in 1 .. Len(replies) : replies[i].request < request
    BY <1>2, <1>5 DEF RequestTypeInv, HeadersInv, ReplyInv
  <2>2. Suffix(b \o w, Stream, 0)
    <3>1. Stream \in Seq(Triples)
      BY ConcatProperties DEF Stream, RequestTypeInv
    <3>2. Suffix(Stream, Stream, 0)
      BY <3>1, SuffixOfItself
    <3> QED
      BY <1>1, <3>2
  <2>3. Past(b \o w, request) /\ (cseq = request \/ (cseq = 0 /\ Whole(b \o w, request)))
    BY <1>1, <2>1
  <2> QED
    BY <1>1, <1>2, <1>3, <1>5, <2>1, <2>2, <2>3, HeadersParsed
<1>6. CASE /\ IsRtcp(b[1][1])
           /\ method' = "RTCP" /\ Left(HandleRtcp(b))
           /\ UNCHANGED <<state, request, cseq, auth, transport, closed, replies>>
  <2>1. \E e \in 0 .. Len(b) : HandleRtcp(b) = RetrieveUntil(b, e)
    <3>1. Len(b) \in Nat /\ 0 \in 0 .. Len(b) /\ Len(b) \in 0 .. Len(b)
      BY <1>1, LenProperties
    <3>2. RetrieveUntil(b, 0) = b /\ RetrieveUntil(b, Len(b)) = <<>>
      BY <1>1, <3>1, SubSeqFull, SubSeqEmpty DEF RetrieveUntil
    <3>3. HandleRtcp(b) = b \/ HandleRtcp(b) = <<>>
      BY DEF HandleRtcp
    <3> QED
      BY <3>1, <3>2, <3>3
  <2>2. PICK e \in 0 .. Len(b) : HandleRtcp(b) = RetrieveUntil(b, e)
    BY <2>1
  <2>3. /\ buffer' \in Seq(Triples) /\ Len(buffer') <= MaxPieces /\ buffer' \o w \in Seq(Triples)
        /\ \E f : Suffix(buffer' \o w, Stream, f)
    <3>1. Left(RetrieveUntil(b, e))
      BY <1>6, <2>2
    <3> QED
      BY <1>1, <3>1, RestLeft
  <2>4. ~(state = "headers" /\ cseq = 0)
    <3>1. Len(b) \in Nat /\ 1 \in 1 .. Len(b) /\ Len(b) \in 0 .. Len(b)
      BY <1>1, LenProperties
    <3>2. b[1] = Stream[1] /\ Len(b) <= Len(Stream) /\ Len(Stream) \in Nat
      BY <1>1, <3>1, ChunkProperties
    <3>3. Len(Stream) >= 1
      BY <3>1, <3>2
    <3> QED
      BY <1>2, <1>6, <3>2, <3>3, NoPacket
  <2>5. StreamInv' /\ HeadersInv' /\ ReplyInv'
    BY <1>2, <1>6, <2>3, <2>4, NothingParsed
  <2>6. RequestTypeInv'
    BY <1>1, <1>2, <1>3, <1>6, <2>3 DEF RequestTypeInv
  <2> QED
    BY <2>5, <2>6
<1> QED
  BY <1>2, <1>4, <1>5, <1>6

\* The pieces of message k.
LEMMA PiecesProperties ==
  ASSUME NEW k \in Nat, NEW m \in Messages
  PROVE  /\ Pieces(k, m) \in Seq(Triples)
         /\ \A i \in 1 .. Len(Pieces(k, m)) :
              LET p == Pieces(k, m)[i]
              IN /\ p[1] = k
                 /\ IF m.method = "RTCP" THEN p[2] = 0 /\ p[3] \in 0 .. 2
                    ELSE p[2] \in 0 .. Len(m.lines) /\ p[3] \in 1 .. 2
         /\ \A i, j \in 1 .. Len(Pieces(k, m)) :
              i < j => Before(Pieces(k, m)[i], Pieces(k, m)[j])
         /\ m.method # "RTCP" =>
              \A l \in 0 .. Len(m.lines), h \in 1 .. 2 :
                \E i \in 1 .. Len(Pieces(k, m)) : Pieces(k, m)[i] = <<k, l, h>>
         /\ m.method = "RTCP" =>
              \A h \in 0 .. 2 : \E i \in 1 .. Len(Pieces(k, m)) : Pieces(k, m)[i] = <<k, 0, h>>
<1> DEFINE P == Pieces(k, m)
<1>1. CASE m.method = "RTCP"
  <2> DEFINE x == <<k, 0, 0>>
             y == <<k, 0, 1>>
             z == <<k, 0, 2>>
  <2>1. P = <<x, y, z>>
    BY <1>1 DEF Pieces
  <2>2. /\ x \in Triples /\ y \in Triples /\ z \in Triples
        /\ x[1] = k /\ x[2] = 0 /\ x[3] = 0 /\ y[1] = k /\ y[2] = 0 /\ y[3] = 1
        /\ z[1] = k /\ z[2] = 0 /\ z[3] = 2
    BY DEF Triples
  <2>3. Before(x, y) /\ Before(y, z) /\ Before(x, z)
    BY DEF Before
  <2> HIDE DEF x, y, z, P
  <2>4. P \in Seq(Triples) /\ Len(P) = 3 /\ P[1] = x /\ P[2] = y /\ P[3] = z
    BY <2>1, <2>2
  <2>5. \A i \in 1 .. 3 : P[i][1] = k /\ P[i][2] = 0 /\ P[i][3] \in 0 .. 2
    BY <2>2, <2>4
  <2>6. \A i, j \in 1 .. 3 : i < j => Before(P[i], P[j])
    BY <2>3, <2>4
  <2>7. 1 .. Len(P) = 1 .. 3
    BY <2>4
  <2>8. \A h \in 0 .. 2 : \E i \in 1 .. Len(P) : P[i] = <<k, 0, h>>
    BY <2>4 DEF x, y, z
  <2> QED
    BY <1>1, <2>4, <2>5, <2>6, <2>7, <2>8 DEF P
<1>2. CASE m.method # "RTCP"
  <2> DEFINE n == Len(m.lines)
             L(i) == (i - 1) \div 2
             H(i) == 1 + ((i - 1) % 2)
             p(i) == <<k, L(i), H(i)>>
  <2>1. n \in Nat
    BY <1>2, MessagesAssumption, LenProperties DEF IsMessage
  <2>2. P = [i \in 1 .. 2 * (n + 1) |-> p(i)]
    BY <1>2 DEF Pieces
  <2> HIDE DEF n
  <2>3. \A i \in 1 .. 2 * (n + 1) : L(i) \in 0 .. n /\ H(i) \in 1 .. 2 /\ i = 2 * L(i) + H(i)
    BY <2>1
  <2>4. ASSUME NEW l \in 0 .. n, NEW h \in 1 .. 2
        PROVE  2 * l + h \in 1 .. 2 * (n + 1) /\ L(2 * l + h) = l /\ H(2 * l + h) = h
    BY <2>1
  <2> HIDE DEF L, H
  <2>5. \A i \in 1 .. 2 * (n + 1) : /\ p(i) \in Triples /\ p(i)[1] = k
                                    /\ p(i)[2] = L(i) /\ p(i)[3] = H(i)
    <3>1. \A i \in 1 .. 2 * (n + 1) : L(i) \in Nat /\ H(i) \in Nat
      BY <2>1, <2>3
    <3> QED
      BY <3>1 DEF Triples
  <2>6. \A l \in 0 .. n, h \in 1 .. 2 : p(2 * l + h) = <<k, l, h>>
    BY <2>4
  <2> HIDE DEF p, P
  <2>7. P \in Seq(Triples) /\ Len(P) = 2 * (n + 1) /\ \A i \in 1 .. 2 * (n + 1) : P[i] = p(i)
    <3>1. 2 * (n + 1) \in Nat
      BY <2>1
    <3> QED
      BY <2>2, <2>5, <3>1
  <2>8. ASSUME NEW i \in 1 .. 2 * (n + 1), NEW j \in 1 .. 2 * (n + 1), i < j
        PROVE  Before(P[i], P[j])
    <3>1. L(i) < L(j) \/ (L(i) = L(j) /\ H(i) < H(j))
      <4>1. /\ L(i) \in 0 .. n /\ H(i) \in 1 .. 2 /\ i = 2 * L(i) + H(i)
            /\ L(j) \in 0 .. n /\ H(j) \in 1 .. 2 /\ j = 2 * L(j) + H(j)
        BY <2>3
      <4> QED
        BY <2>1, <2>8, <4>1
    <3> QED
      BY <2>5, <2>7, <3>1 DEF Before
  <2>9. \A i \in 1 .. 2 * (n + 1) : P[i][1] = k /\ P[i][2] \in 0 .. n /\ P[i][3] \in 1 .. 2
    BY <2>3, <2>5, <2>7
  <2>10. \A l \in 0 .. n, h \in 1 .. 2 : \E i \in 1 .. Len(P) : P[i] = <<k, l, h>>
    BY <2>4, <2>6, <2>7
  <2> QED
    BY <1>2, <2>7, <2>8, <2>9, <2>10 DEF n, P
<1> QED
  BY <1>1, <1>2

\* The stream u after the client has sent m is the one before and m's pieces.
Extended(u, m) ==
  LET P == Pieces(Len(sent) + 1, m)
      n == Len(Stream)
  IN /\ u \in Seq(Triples) /\ buffer' \o wire' = u
     /\ \A i \in 1 .. Len(u) : \/ i \in 1 .. n /\ u[i] = Stream[i]
                               \/ i > n /\ i - n \in 1 .. Len(P) /\ u[i] = P[i - n]
     /\ \A i \in 1 .. n : i \in 1 .. Len(u) /\ u[i] = Stream[i]
     /\ \A i \in 1 .. Len(P) : n + i \in 1 .. Len(u) /\ u[n + i] = P[i]

LEMMA StreamSent ==
  ASSUME RequestInv, NEW m \in Messages, ClientSend(m)
  PROVE  /\ Len(sent) \in Nat /\ Len(sent') = Len(sent) + 1 /\ sent'[Len(sent) + 1] = m
         /\ \A k \in 1 .. Len(sent) : sent'[k] = sent[k]
         /\ wire' \in Seq(Triples)
         /\ \E u : Extended(u, m)
<1> USE DEF RequestInv
<1> DEFINE K == Len(sent) + 1
           P == Pieces(K, m)
           s == Stream
           t == s \o P
           n == Len(s)
<1>1. /\ sent \in Seq(Messages) /\ Len(sent) \in Nat /\ K \in Nat
      /\ sent' = Append(sent, m) /\ wire' = wire \o P /\ buffer' = buffer
  BY LenProperties DEF RequestTypeInv, ClientSend
<1>2. /\ Len(sent') = K /\ sent'[K] = m /\ \A k \in 1 .. Len(sent) : sent'[k] = sent[k]
  BY <1>1, AppendProperties
<1>3. P \in Seq(Triples)
  BY <1>1, PiecesProperties
<1> HIDE DEF P
<1>4. wire \in Seq(Triples) /\ buffer \in Seq(Triples) /\ s \in Seq(Triples) /\ n \in Nat /\ Len(P) \in Nat
  BY <1>3, ConcatProperties, LenProperties DEF Stream, RequestTypeInv
<1>5. wire' \in Seq(Triples) /\ buffer' \o wire' = t
  <2>1. \A x, y, z \in Seq(Triples) : (x \o y) \o z = x \o (y \o z)
    OBVIOUS
  <2>2. (buffer \o wire) \o P = buffer \o (wire \o P)
    BY <1>3, <1>4, <2>1, Zenon
  <2>3. wire \o P \in Seq(Triples)
    BY <1>3, <1>4, ConcatProperties
  <2> QED
    BY <1>1, <2>2, <2>3 DEF Stream
<1>6. /\ t \in Seq(Triples) /\ Len(t) = n + Len(P)
      /\ \A i \in 1 .. n + Len(P) : t[i] = IF i <= n THEN s[i] ELSE P[i - n]
  BY <1>3, <1>4, ConcatProperties
<1> HIDE DEF t, s, n, K
<1>7. \A i \in 1 .. Len(t) : \/ i \in 1 .. n /\ t[i] = s[i]
                             \/ i > n /\ i - n \in 1 .. Len(P) /\ t[i] = P[i - n]
  BY <1>4, <1>6
<1>8. \A i \in 1 .. n : i \in 1 .. Len(t) /\ t[i] = s[i]
  BY <1>4, <1>6
<1>9. \A i \in 1 .. Len(P) : n + i \in 1 .. Len(t) /\ t[n + i] = P[i]
  <2>1. \A i \in 1 .. Len(P) : n + i \in 1 .. n + Len(P) /\ ~(n + i <= n) /\ (n + i) - n = i
    BY <1>4
  <2> QED
    BY <1>6, <2>1
<1>10. Extended(t, m)
  BY <1>5, <1>6, <1>7, <1>8, <1>9 DEF Extended, s, n, P, K
<1> QED
  BY <1>1, <1>2, <1>5, <1>10 DEF K

\* What the client adds to the stream is behind all that is there.
LEMMA StreamGrows ==
  ASSUME RequestInv, NEW m \in Messages, ClientSend(m)
  PROVE  /\ Len(sent') = Len(sent) + 1 /\ Len(sent) \in Nat
         /\ \A k \in 1 .. Len(sent) : sent'[k] = sent[k]
         /\ wire' \in Seq(Triples) /\ StreamInv'
         /\ \E t \in Seq(Triples) :
              /\ buffer' \o wire' = t
              /\ \A k \in 1 .. Len(sent) :
                   /\ Past(Stream, k) => Past(t, k)
                   /\ Whole(Stream, k) =>
                        \A l \in 1 .. Len(sent[k].lines), h \in 1 .. 2 :
                          \E i \in 1 .. Len(t) : t[i] = <<k, l, h>>
<1> USE DEF RequestInv
<1> DEFINE K == Len(sent) + 1
           P == Pieces(K, m)
           s == Stream
           n == Len(s)
<1>1. Len(sent) \in Nat /\ K \in Nat /\ wire' \in Seq(Triples)
  BY StreamSent
<1>2. /\ Len(sent') = K /\ sent'[K] = m /\ \A k \in 1 .. Len(sent) : sent'[k] = sent[k]
  BY StreamSent
<1>3. /\ P \in Seq(Triples)
      /\ \A i \in 1 .. Len(P) : /\ P[i][1] = K
                                /\ IF m.method = "RTCP" THEN P[i][2] = 0 /\ P[i][3] \in 0 .. 2
                                   ELSE P[i][2] \in 0 .. Len(m.lines) /\ P[i][3] \in 1 .. 2
      /\ \A i, j \in 1 .. Len(P) : i < j => Before(P[i], P[j])
      /\ m.method # "RTCP" => \A l \in 0 .. Len(m.lines), h \in 1 .. 2 :
                                \E i \in 1 .. Len(P) : P[i] = <<K, l, h>>
  BY <1>1, PiecesProperties
<1> HIDE DEF P
<1>4. s \in Seq(Triples) /\ n \in Nat /\ Len(P) \in Nat
  BY <1>3, ConcatProperties, LenProperties DEF Stream, RequestTypeInv
<1>5. PICK u : Extended(u, m)
  BY StreamSent
<1> HIDE DEF s, n, K
<1>6. /\ Ordered(s) /\ Wholes(s) /\ \A i \in 1 .. n : IsPiece(s[i]) /\ s[i][1] \in 1 .. Len(sent)
  BY DEF StreamInv, s, n, Ordered, IsPiece
<1>7. /\ u \in Seq(Triples) /\ buffer' \o wire' = u
      /\ \A i \in 1 .. Len(u) : \/ i \in 1 .. n /\ u[i] = s[i]
                                \/ i > n /\ i - n \in 1 .. Len(P) /\ u[i] = P[i - n]
      /\ \A i \in 1 .. n : i \in 1 .. Len(u) /\ u[i] = s[i]
      /\ \A i \in 1 .. Len(P) : n + i \in 1 .. Len(u) /\ u[n + i] = P[i]
  BY <1>5 DEF Extended, s, n, P, K
<1>8. ASSUME NEW k \in 1 .. Len(sent), Past(s, k) PROVE Past(u, k)
  <2>1. SUFFICES ASSUME NEW i \in 1 .. Len(u) PROVE Before(<<k, 0, 2>>, u[i])
    BY DEF Past
  <2>2. CASE i \in 1 .. n /\ u[i] = s[i]
    BY <1>8, <2>2 DEF Past, n
  <2>3. CASE i > n /\ i - n \in 1 .. Len(P) /\ u[i] = P[i - n]
    <3>1. u[i][1] = K /\ k < K
      BY <1>1, <1>3, <2>3 DEF K
    <3> QED
      BY <3>1 DEF Before
  <2> QED
    BY <1>7, <2>2, <2>3
<1>9. ASSUME NEW k \in 1 .. Len(sent), Whole(s, k)
      PROVE  \A l \in 1 .. Len(sent[k].lines), h \in 1 .. 2 : \E i \in 1 .. Len(u) : u[i] = <<k, l, h>>
  <2>1. SUFFICES ASSUME NEW l \in 1 .. Len(sent[k].lines), NEW h \in 1 .. 2
                 PROVE  \E i \in 1 .. Len(u) : u[i] = <<k, l, h>>
    OBVIOUS
  <2>2. PICK i \in 1 .. n : s[i] = <<k, l, h>>
    BY <1>9 DEF Whole, n
  <2> QED
    BY <1>7, <2>2
<1>10. \A i \in 1 .. Len(u) : IsPiece(u[i])'
  <2>1. SUFFICES ASSUME NEW i \in 1 .. Len(u) PROVE IsPiece(u[i])'
    OBVIOUS
  <2>2. CASE i \in 1 .. n /\ u[i] = s[i]
    <3>1. IsPiece(u[i])
      BY <1>6, <2>2
    <3> QED
      BY <1>1, <1>2, <3>1 DEF IsPiece, IsRtcp, K
  <2>3. CASE i > n /\ i - n \in 1 .. Len(P) /\ u[i] = P[i - n]
    <3>1. /\ u[i][1] = K
          /\ IF m.method = "RTCP" THEN u[i][2] = 0 /\ u[i][3] \in 0 .. 2
             ELSE u[i][2] \in 0 .. Len(m.lines) /\ u[i][3] \in 1 .. 2
      BY <1>3, <2>3
    <3>2. K \in 1 .. Len(sent') /\ sent'[K] = m
      BY <1>1, <1>2 DEF K
    <3> QED
      BY <3>1, <3>2 DEF IsPiece, IsRtcp
  <2> QED
    BY <1>7, <2>2, <2>3
<1>11. ASSUME NEW i \in 1 .. Len(u), NEW j \in 1 .. Len(u), i < j PROVE Before(u[i], u[j])
  <2>1. CASE i \in 1 .. n /\ u[i] = s[i] /\ j \in 1 .. n /\ u[j] = s[j]
    BY <1>6, <1>11, <2>1 DEF Ordered, n
  <2>2. CASE /\ i \in 1 .. n /\ u[i] = s[i]
             /\ j - n \in 1 .. Len(P) /\ u[j] = P[j - n]
    <3>1. u[j][1] = K /\ u[i][1] \in 1 .. Len(sent)
      BY <1>3, <1>6, <2>2
    <3>2. u[i][1] < u[j][1]
      BY <1>1, <3>1 DEF K
    <3> QED
      BY <3>2 DEF Before
  <2>3. CASE /\ i - n \in 1 .. Len(P) /\ u[i] = P[i - n]
             /\ j - n \in 1 .. Len(P) /\ u[j] = P[j - n]
    <3>1. i - n < j - n
      BY <1>4, <1>11
    <3> QED
      BY <1>3, <2>3, <3>1
  <2>4. ~(i > n /\ j \in 1 .. n)
    BY <1>4, <1>11
  <2> QED
    BY <1>7, <2>1, <2>2, <2>3, <2>4
<1>12. ASSUME NEW i \in 1 .. Len(u), ~IsRtcp(u[i][1])', u[i][2] = 0
       PROVE  Whole(u, u[i][1])'
  <2>1. CASE i \in 1 .. n /\ u[i] = s[i]
    <3>1. u[i][1] \in 1 .. Len(sent) /\ ~IsRtcp(u[i][1])
      BY <1>2, <1>6, <1>12, <2>1 DEF IsRtcp
    <3>2. Whole(s, u[i][1])
      BY <1>6, <1>12, <2>1, <3>1 DEF Wholes, n
    <3>3. \A l \in 1 .. Len(sent[u[i][1]].lines), h \in 1 .. 2 :
            \E j \in 1 .. Len(u) : u[j] = <<u[i][1], l, h>>
      BY <1>9, <3>1, <3>2
    <3>4. sent'[u[i][1]] = sent[u[i][1]]
      BY <1>2, <3>1
    <3> QED
      BY <3>3, <3>4 DEF Whole
  <2>2. CASE i > n /\ i - n \in 1 .. Len(P) /\ u[i] = P[i - n]
    <3>1. u[i][1] = K /\ sent'[K] = m
      BY <1>2, <1>3, <2>2
    <3>2. m.method # "RTCP"
      BY <1>12, <3>1 DEF IsRtcp
    <3>3. ASSUME NEW l \in 1 .. Len(m.lines), NEW h \in 1 .. 2
          PROVE  \E j \in 1 .. Len(u) : u[j] = <<K, l, h>>
      <4>1. Len(m.lines) \in Nat
        BY <3>2, MessagesAssumption, LenProperties DEF IsMessage
      <4>2. l \in 0 .. Len(m.lines)
        BY <4>1
      <4>3. PICK j \in 1 .. Len(P) : P[j] = <<K, l, h>>
        BY <1>3, <3>2, <4>2
      <4> QED
        BY <1>7, <4>3
    <3> QED
      BY <3>1, <3>3 DEF Whole
  <2> QED
    BY <1>7, <2>1, <2>2
<1>13. StreamInv'
  <2>1. Stream' = u
    BY <1>7 DEF Stream
  <2>2. Ordered(u)' /\ Wholes(u)'
    BY <1>10, <1>11, <1>12 DEF Ordered, Wholes, Before
  <2> QED
    BY <2>1, <2>2 DEF StreamInv, Stream, Ordered, Wholes, Whole
<1>14. /\ \A k \in 1 .. Len(sent) :
            /\ Past(Stream, k) => Past(u, k)
            /\ Whole(Stream, k) =>
                 \A l \in 1 .. Len(sent[k].lines), h \in 1 .. 2 :
                   \E i \in 1 .. Len(u) : u[i] = <<k, l, h>>
  BY <1>8, <1>9 DEF s
<1> QED
  BY <1>1, <1>2, <1>7, <1>13, <1>14 DEF K

LEMMA ClientStep ==
  ASSUME RequestInv, NEW m \in Messages, ClientSend(m)
  PROVE  RequestInv'
<1> USE DEF RequestInv
<1>1. /\ Len(sent') = Len(sent) + 1 /\ Len(sent) \in Nat
      /\ \A k \in 1 .. Len(sent) : sent'[k] = sent[k]
      /\ wire' \in Seq(Triples) /\ StreamInv'
      /\ \E t \in Seq(Triples) :
           /\ buffer' \o wire' = t
           /\ \A k \in 1 .. Len(sent) :
                /\ Past(Stream, k) => Past(t, k)
                /\ Whole(Stream, k) =>
                     \A l \in 1 .. Len(sent[k].lines), h \in 1 .. 2 :
                       \E i \in 1 .. Len(t) : t[i] = <<k, l, h>>
  BY StreamGrows
<1>2. PICK t \in Seq(Triples) :
        /\ buffer' \o wire' = t
        /\ \A k \in 1 .. Len(sent) :
             /\ Past(Stream, k) => Past(t, k)
             /\ Whole(Stream, k) =>
                  \A l \in 1 .. Len(sent[k].lines), h \in 1 .. 2 :
                    \E i \in 1 .. Len(t) : t[i] = <<k, l, h>>
  BY <1>1
<1>3. /\ Stream' = t
      /\ \A k : AtRequest(k) => AtRequest(k)' /\ sent'[k] = sent[k]
      /\ \A k : AtRequest(k) /\ Past(Stream, k) => Past(t, k)
      /\ \A k : AtRequest(k) /\ Whole(Stream, k) => Whole(t, k)'
  <2>1. Stream' = t
    BY <1>2 DEF Stream
  <2>2. \A k : AtRequest(k) => k \in 1 .. Len(sent) /\ k \in 1 .. Len(sent')
    BY <1>1 DEF AtRequest
  <2>3. \A k : AtRequest(k) => AtRequest(k)' /\ sent'[k] = sent[k]
    BY <1>1, <2>2 DEF AtRequest
  <2>4. \A k : AtRequest(k) /\ Whole(Stream, k) => Whole(t, k)'
    BY <1>2, <2>2, <2>3 DEF Whole
  <2> QED
    BY <1>2, <2>1, <2>2, <2>3, <2>4
<1>4. UNCHANGED <<buffer, state, method, request, cseq, auth, transport, closed, replies, mixed, torn>>
  BY DEF ClientSend, parser, history
<1>5. RequestTypeInv'
  <2>1. sent' \in Seq(Messages)
    BY AppendProperties DEF RequestTypeInv, ClientSend
  <2> QED
    BY <1>1, <1>4, <2>1 DEF RequestTypeInv
<1>6. HeadersInv'
  <2>1. PICK k : k = request
    OBVIOUS
  <2>2. state = "headers" /\ ~closed => /\ AtRequest(k)' /\ Past(t, k)
                                        /\ method \in {"RTCP", sent'[k].method}
                                        /\ cseq = k \/ (cseq = 0 /\ Whole(t, k)')
    BY <1>3, <2>1 DEF HeadersInv
  <2>3. state = "line" => cseq = 0
    BY DEF HeadersInv
  <2>4. request' = k /\ (Past(Stream, request)' <=> Past(t, k))
    BY <1>3, <1>4, <2>1 DEF Past
  <2>5. /\ AtRequest(request)' <=> AtRequest(k)'
        /\ Whole(Stream, request)' <=> Whole(t, k)'
    BY <1>3, <2>4 DEF AtRequest, Whole
  <2> QED
    BY <1>4, <2>2, <2>3, <2>4, <2>5 DEF HeadersInv
<1>7. ReplyInv'
  <2>1. SUFFICES ASSUME NEW i \in 1 .. Len(replies)
                 PROVE  LET r == replies'[i]
                        IN /\ r.request \in 1 .. Len(sent') /\ sent'[r.request].method \in Methods
                           /\ r.cseq = r.request
                           /\ r.method = sent'[r.request].method
                           /\ Past(t, r.request)
                           /\ state = "headers" /\ ~closed => r.request < request
                           /\ \A j \in 1 .. i - 1 : replies[j].request < r.request
    BY <1>3, <1>4 DEF ReplyInv, AtRequest, Past
  <2>2. PICK r : r = replies[i]
    OBVIOUS
  <2>3. /\ AtRequest(r.request) /\ r.cseq = r.request /\ r.method = sent[r.request].method
        /\ Past(Stream, r.request)
        /\ state = "headers" /\ ~closed => r.request < request
        /\ \A j \in 1 .. i - 1 : replies[j].request < r.request
    BY <2>2 DEF ReplyInv
  <2>4. AtRequest(r.request)' /\ sent'[r.request] = sent[r.request] /\ Past(t, r.request)
    BY <1>3, <2>3
  <2>5. replies'[i] = r
    BY <1>4, <2>2
  <2> QED
    BY <2>3, <2>4, <2>5 DEF AtRequest
<1> QED
  BY <1>1, <1>5, <1>6, <1>7

-----------------------------------------------------------------------------
(***************************************************************************)
(* The theorems of RtspRequest                                             *)
(***************************************************************************)

LEMMA RequestInitialState ==
  ASSUME RequestInit
  PROVE  RequestInv
<1>1. Stream = <<>> /\ Len(Stream) = 0 /\ Len(replies) = 0
  BY DEF RequestInit, Stream
<1>2. RequestTypeInv
  <2>1. transport \in Transports
    BY DEF RequestInit, Transports
  <2>2. /\ sent \in Seq(Messages) /\ wire \in Seq(Triples) /\ buffer \in Seq(Triples)
        /\ replies \in Seq(Replies) /\ Len(buffer) <= MaxPieces
    BY PiecesAssumption DEF RequestInit
  <2> QED
    BY <2>1, <2>2 DEF RequestInit, RequestTypeInv
<1>3. StreamInv
  BY <1>1 DEF StreamInv, Ordered, Wholes
<1>4. HeadersInv
  BY DEF RequestInit, HeadersInv
<1>5. ReplyInv
  BY <1>1 DEF ReplyInv
<1> QED
  BY <1>2, <1>3, <1>4, <1>5 DEF RequestInv

LEMMA NothingHappens ==
  ASSUME RequestInv, UNCHANGED requestVars
  PROVE  RequestInv'
<1> USE DEF RequestInv
<1>1. UNCHANGED <<sent, wire, buffer, state, method, request, cseq, auth, transport, closed, replies,
                  mixed, torn>>
  BY DEF requestVars, parser, history
<1>2. RequestTypeInv'
  BY <1>1 DEF RequestTypeInv
<1>3. StreamInv'
  <2>1. Stream \in Seq(Triples)
    BY ConcatProperties DEF Stream, RequestTypeInv
  <2>2. PICK t \in Seq(Triples) : t = Stream
    BY <2>1
  <2>3. Suffix(t, Stream, 0) /\ buffer' \o wire' = t
    BY <1>1, <2>1, <2>2, SuffixOfItself DEF Stream
  <2> QED
    BY <1>1, <2>3, StreamGoes
<1>4. HeadersInv'
  BY <1>1 DEF HeadersInv, AtRequest, Past, Whole, Stream
<1>5. ReplyInv'
  BY <1>1 DEF ReplyInv, AtRequest, Past, Stream
<1> QED
  BY <1>2, <1>3, <1>4, <1>5

LEMMA RequestStep ==
  ASSUME CSeqs, RequestInv, [RequestNext]_requestVars
  PROVE  RequestInv'
<1>1. ASSUME NEW m \in Messages, ClientSend(m) PROVE RequestInv'
  BY <1>1, ClientStep
<1>2. ASSUME NEW n \in 1 .. Len(wire), OnRead(n) PROVE RequestInv'
  BY <1>2, ReadStep
<1> QED
  BY <1>1, <1>2, NothingHappens DEF RequestNext

LEMMA AlwaysRequestInv ==
  ASSUME CSeqs
  PROVE  RequestSpec => []RequestInv
<1>1. RequestInv /\ [RequestNext]_requestVars => RequestInv'
  BY RequestStep
<1> QED
  BY <1>1, RequestInitialState, PTL DEF RequestSpec

\* The parser's members are of their types, and the buffer never keeps more than
\* MAX_RTSP_MESSAGE_SIZE.
THEOREM RequestTypeCorrect ==
  ASSUME CSeqs
  PROVE  RequestSpec => []RequestTypeInv
<1>1. RequestInv => RequestTypeInv
  BY DEF RequestInv
<1> QED
  BY <1>1, AlwaysRequestInv, PTL

\* However the stream is cut, and however many requests a read finds: a reply has the CSeq
\* and the method of one request, and no request is answered twice or out of order.
THEOREM EveryReplyMatches ==
  ASSUME CSeqs
  PROVE  RequestSpec => []RepliesMatch
<1>1. RequestInv => RepliesMatch
  <2> SUFFICES ASSUME RequestInv PROVE RepliesMatch
    OBVIOUS
  <2>1. DOMAIN replies = 1 .. Len(replies)
    BY LenProperties DEF RequestInv, RequestTypeInv
  <2> QED
    BY <2>1 DEF RequestInv, ReplyInv, RepliesMatch
<1> QED
  BY <1>1, AlwaysRequestInv, PTL

-----------------------------------------------------------------------------
(***************************************************************************)
(* AnsweredUnlessTorn, the other way round: nothing is lost, as long as    *)
(* every read finds one message and none ends where the parser loses       *)
(* something.                                                              *)
(*                                                                         *)
(* The stream that is left is then one of whole lines (Paired), of which   *)
(* at most half a line is in the buffer.  A request is answered, or all of *)
(* it is left, or it is the one that the parser is in, which may be cut    *)
(* and whose deciding line is still to come (Begun).  Of one that is       *)
(* answered nothing is left but its blank line, which ParseRequestLine     *)
(* passes over.  CalmInv is that; a read ends in one of three ways, none   *)
(* of which breaks it (CalmRead).                                          *)
(***************************************************************************)

\* A header line, by its name.
Header(l) ==
  IF l \in {"TransportTcp", "TransportUdp", "TransportMulticast", "TransportBad"} THEN "Transport" ELSE l

\* Every request ends in its blank line, and no header comes twice, as in what a client
\* sends.  (Of a header that comes twice the parser finds the first that has come.)
WellFormed ==
  \A m \in Messages : m.method # "RTCP" =>
    /\ m.lines # <<>> /\ m.lines[Len(m.lines)] = "Blank"
    /\ \A i, j \in 1 .. Len(m.lines) : Header(m.lines[i]) = Header(m.lines[j]) => i = j

Halves(k) == IF IsRtcp(k) THEN 0 .. 2 ELSE 1 .. 2

Holds(s, p) == \E i \in 1 .. Len(s) : s[i] = p

\* No line is left in part.
Paired(s) ==
  \A i \in 1 .. Len(s) : \A h \in Halves(s[i][1]) : Holds(s, <<s[i][1], s[i][2], h>>)

\* All of request k is left.
AllLeft(s, k) == \A l \in 0 .. Len(sent[k].lines), h \in 1 .. 2 : Holds(s, <<k, l, h>>)

Answered(k) == \E i \in 1 .. Len(replies) : replies[i].request = k

\* A reply has the authorization of its request, and its transport.
Fits(r) ==
  LET m == sent[r.request]
  IN /\ m.method \in {"DESCRIBE", "SETUP", "PLAY"} => (r.auth <=> "Authorization" \in ToSet(m.lines))
     /\ m.method = "SETUP" => r.transport \in ToSet(m.lines)

\* The parser is in request k, which may be cut anywhere, and its deciding line is left.
Begun(s, k) ==
  /\ AtRequest(k) /\ Answerable(sent[k]) /\ Robust(sent[k])
  /\ method = sent[k].method
  /\ \A h \in 1 .. 2 : Holds(s, <<k, Len(sent[k].lines) - 1, h>>)

Calm ==
  /\ ~closed /\ Len(buffer) <= 1
  /\ Paired(Stream)
  /\ \A i \in 1 .. Len(replies) : Fits(replies[i])
  /\ state = "headers" => Begun(Stream, request)
  /\ \A k \in 1 .. Len(sent) : ~IsRtcp(k) =>
       Answered(k) \/ AllLeft(Stream, k) \/ (state = "headers" /\ k = request)
  /\ \A i \in 1 .. Len(Stream) :
       Answered(Stream[i][1]) => Stream[i][2] = Len(sent[Stream[i][1]].lines)

CalmInv == ~mixed /\ ~torn => Calm

-----------------------------------------------------------------------------

\* The places of pieces are in the order of the pieces.
LEMMA OrderedPlaces ==
  ASSUME NEW s \in Seq(Triples), Ordered(s), NEW i \in 1 .. Len(s), NEW j \in 1 .. Len(s)
  PROVE  /\ i < j <=> Before(s[i], s[j])
         /\ s[i] = s[j] => i = j
<1> DEFINE p == s[i]
           q == s[j]
<1>1. /\ p[1] \in Nat /\ p[2] \in Nat /\ p[3] \in Nat
      /\ q[1] \in Nat /\ q[2] \in Nat /\ q[3] \in Nat
  <2>1. p \in Triples /\ q \in Triples
    BY ElementOfSeq
  <2> QED
    BY <2>1 DEF Triples
<1>2. (i < j => Before(p, q)) /\ (j < i => Before(q, p))
  BY DEF Ordered
<1>3. i \in Nat /\ j \in Nat
  OBVIOUS
<1> HIDE DEF p, q
<1>4. ~(Before(p, q) /\ Before(q, p)) /\ (p = q => ~Before(p, q))
  BY <1>1 DEF Before
<1>5. i < j <=> Before(p, q)
  <2>1. CASE i < j
    BY <1>2, <2>1
  <2>2. CASE j < i
    BY <1>2, <1>3, <1>4, <2>2
  <2>3. CASE i = j
    <3>1. p = q
      BY <2>3 DEF p, q
    <3> QED
      BY <1>3, <1>4, <2>3, <3>1
  <2> QED
    BY <1>3, <2>1, <2>2, <2>3
<1>6. p = q => i = j
  BY <1>2, <1>3, <1>4
<1> QED
  BY <1>5, <1>6 DEF p, q

\* What is in an ordered stream, by its parts.
LEMMA PieceParts ==
  ASSUME NEW s \in Seq(Triples), Ordered(s), NEW i \in 1 .. Len(s)
  PROVE  /\ s[i][1] \in 1 .. Len(sent) /\ s[i][2] \in Nat /\ s[i][3] \in Halves(s[i][1])
         /\ s[i] = <<s[i][1], s[i][2], s[i][3]>>
         /\ IsRtcp(s[i][1]) => s[i][2] = 0
         /\ ~IsRtcp(s[i][1]) => s[i][2] \in 0 .. Len(sent[s[i][1]].lines)
<1>1. IsPiece(s[i])
  BY DEF Ordered
<1>2. s[i] \in Triples
  BY ElementOfSeq
<1>3. s[i][2] \in Nat /\ s[i] = <<s[i][1], s[i][2], s[i][3]>>
  BY <1>2 DEF Triples
<1> QED
  BY <1>1, <1>3 DEF IsPiece, Halves

\* A stream begins with the first half of a line, and its second half is next.
LEMMA FirstTwo ==
  ASSUME NEW s \in Seq(Triples), Ordered(s), Paired(s), Len(s) >= 1
  PROVE  /\ IsRtcp(s[1][1]) => s[1][3] = 0
         /\ ~IsRtcp(s[1][1]) => s[1][3] = 1 /\ Len(s) >= 2 /\ s[2] = <<s[1][1], s[1][2], 2>>
<1> DEFINE k == s[1][1]
           l == s[1][2]
<1>1. Len(s) \in Nat /\ 1 \in 1 .. Len(s)
  BY LenProperties
<1>2. k \in Nat /\ l \in Nat /\ s[1][3] \in Halves(k) /\ s[1][3] \in Nat
  BY <1>1, PieceParts DEF Halves
<1>3. ASSUME NEW h \in Halves(k) PROVE \E i \in 1 .. Len(s) : s[i] = <<k, l, h>>
  BY <1>1 DEF Paired, Holds
<1>4. ASSUME NEW h \in Halves(k) PROVE s[1][3] <= h
  <2>1. PICK i \in 1 .. Len(s) : s[i] = <<k, l, h>>
    BY <1>3
  <2>2. s[i][1] = k /\ s[i][2] = l /\ s[i][3] = h /\ h \in Nat
    BY <2>1 DEF Halves
  <2>3. CASE i = 1
    BY <1>2, <2>2, <2>3
  <2>4. CASE i # 1
    <3>1. Before(s[1], s[i])
      BY <1>1, <2>4 DEF Ordered
    <3> QED
      BY <1>2, <2>2, <3>1 DEF Before
  <2> QED
    BY <2>3, <2>4
<1>5. IsRtcp(k) => s[1][3] = 0
  <2>1. SUFFICES ASSUME IsRtcp(k) PROVE s[1][3] = 0
    OBVIOUS
  <2>2. 0 \in Halves(k)
    BY <2>1 DEF Halves
  <2>3. s[1][3] <= 0
    BY <1>4, <2>2
  <2> QED
    BY <1>2, <2>3
<1>6. ASSUME ~IsRtcp(k) PROVE s[1][3] = 1 /\ Len(s) >= 2 /\ s[2] = <<k, l, 2>>
  <2>1. s[1][3] = 1
    <3>1. 1 \in Halves(k) /\ s[1][3] \in 1 .. 2
      BY <1>2, <1>6 DEF Halves
    <3>2. s[1][3] <= 1
      BY <1>4, <3>1
    <3> QED
      BY <3>1, <3>2
  <2>2. 2 \in Halves(k)
    BY <1>6 DEF Halves
  <2>3. PICK i \in 1 .. Len(s) : s[i] = <<k, l, 2>>
    BY <1>3, <2>2
  <2>4. s[i][1] = k /\ s[i][2] = l /\ s[i][3] = 2
    BY <2>3
  <2>5. i # 1
    BY <2>1, <2>4
  <2>6. 2 \in 1 .. Len(s) /\ i >= 2 /\ Len(s) >= 2
    BY <1>1, <2>5
  <2>7. i = 2
    <3>1. SUFFICES ASSUME 2 < i PROVE FALSE
      BY <2>6
    <3>2. Before(s[1], s[2]) /\ Before(s[2], s[i])
      BY <1>1, <2>6, <3>1 DEF Ordered
    <3>3. s[2][1] \in Nat /\ s[2][2] \in Nat /\ s[2][3] \in Nat
      <4>1. s[2] \in Triples
        BY <2>6, ElementOfSeq
      <4> QED
        BY <4>1 DEF Triples
    <3> QED
      BY <1>2, <2>1, <2>4, <3>2, <3>3 DEF Before
  <2> QED
    BY <2>1, <2>3, <2>6, <2>7
<1> QED
  BY <1>5, <1>6

\* A cut behind the last half of a line leaves no line in part.
LEMMA PairedKept ==
  ASSUME NEW s \in Seq(Triples), NEW t \in Seq(Triples), NEW e, Suffix(t, s, e),
         Ordered(s), Paired(s), e = 0 \/ s[e][3] = 2
  PROVE  Paired(t)
<1>1. /\ Len(s) \in Nat /\ Len(t) \in Nat /\ e \in 0 .. Len(s) /\ Len(t) = Len(s) - e
      /\ \A i \in 1 .. Len(t) : t[i] = s[i + e] /\ i + e \in 1 .. Len(s)
  <2>1. Len(s) \in Nat /\ Len(t) \in Nat /\ e \in 0 .. Len(s) /\ Len(t) = Len(s) - e
    BY LenProperties DEF Suffix
  <2>2. \A i \in 1 .. Len(t) : i + e \in 1 .. Len(s)
    BY <2>1
  <2> QED
    BY <2>1, <2>2 DEF Suffix
<1>2. SUFFICES ASSUME NEW i \in 1 .. Len(t), NEW h \in Halves(t[i][1])
               PROVE  Holds(t, <<t[i][1], t[i][2], h>>)
  BY DEF Paired
<1> DEFINE p == s[i + e]
<1>3. i + e \in 1 .. Len(s) /\ t[i] = p
  BY <1>1
<1>4. PICK j \in 1 .. Len(s) : s[j] = <<p[1], p[2], h>>
  BY <1>2, <1>3 DEF Paired, Holds
<1>5. s[j][1] = p[1] /\ s[j][2] = p[2] /\ s[j][3] = h
  BY <1>4
<1>6. p[1] \in Nat /\ p[2] \in Nat /\ p[3] \in 0 .. 2 /\ h \in 0 .. 2
  BY <1>2, <1>3, PieceParts DEF Halves
<1>7. ~(j <= e)
  <2>1. SUFFICES ASSUME j <= e PROVE FALSE
    OBVIOUS
  <2> DEFINE q == s[e]
  <2>2. e \in 1 .. Len(s) /\ q[3] = 2 /\ e < i + e
    BY <1>1, <1>3, <2>1
  <2>3. Before(q, p)
    BY <1>3, <2>2 DEF Ordered
  <2>4. q[1] \in Nat /\ q[2] \in Nat
    BY <2>2, PieceParts
  <2>5. j = e \/ Before(s[j], q)
    BY <2>1, <2>2 DEF Ordered
  <2>6. CASE j = e
    <3>1. q[1] = p[1] /\ q[2] = p[2]
      BY <1>5, <2>6
    <3> HIDE DEF p, q
    <3> QED
      BY <1>6, <2>2, <2>3, <2>4, <3>1 DEF Before
  <2>7. CASE Before(s[j], q)
    <3> DEFINE r == s[j]
    <3>1. r[1] = p[1] /\ r[2] = p[2] /\ r[3] = h /\ Before(r, q)
      BY <1>5, <2>7
    <3> HIDE DEF p, q, r
    <3> QED
      BY <1>6, <2>2, <2>3, <2>4, <3>1 DEF Before
  <2> QED
    BY <2>5, <2>6, <2>7
<1>8. j - e \in 1 .. Len(t) /\ (j - e) + e = j
  BY <1>1, <1>7
<1>9. t[j - e] = <<t[i][1], t[i][2], h>>
  BY <1>1, <1>3, <1>4, <1>8
<1> QED
  BY <1>8, <1>9 DEF Holds

\* The three ends of a read that leaves t and has taken e pieces of message k, if any:
\* nothing is replied to; the parser is in request k; request k is replied to.
Idles(e, k) ==
  /\ state = "line" /\ state' = "line" /\ replies' = replies
  /\ e = 0 \/ Answered(k) \/ IsRtcp(k)

Begins(t, k) ==
  /\ state' = "headers" /\ request' = k /\ replies' = replies
  /\ state = "headers" => request = k
  /\ AtRequest(k) /\ Answerable(sent[k]) /\ Robust(sent[k]) /\ method' = sent[k].method
  /\ \A h \in 1 .. 2 : Holds(t, <<k, Len(sent[k].lines) - 1, h>>)

Replied(t, k) ==
  /\ state' = "line" /\ (state = "headers" => request = k)
  /\ \A i \in 1 .. Len(t) : t[i][1] = k => t[i][2] = Len(sent[k].lines)
  /\ \E r \in Replies : r.request = k /\ Fits(r) /\ replies' = Append(replies, r)

LEMMA CalmRead ==
  ASSUME RequestInv, Calm, sent' = sent, NEW t \in Seq(Triples), buffer' \o wire' = t,
         NEW e, Suffix(t, Stream, e), e = 0 \/ Stream[e][3] = 2,
         NEW k, \A i \in 1 .. e : Stream[i][1] = k,
         ~closed', Len(buffer') <= 1,
         Idles(e, k) \/ Begins(t, k) \/ Replied(t, k)
  PROVE  Calm'
<1> USE DEF RequestInv
<1>1. Stream \in Seq(Triples)
  BY ConcatProperties DEF Stream, RequestTypeInv
<1>2. /\ Len(Stream) \in Nat /\ Len(t) \in Nat /\ e \in 0 .. Len(Stream)
      /\ Len(t) = Len(Stream) - e
      /\ \A i \in 1 .. Len(t) : t[i] = Stream[i + e] /\ i + e \in 1 .. Len(Stream)
  <2>1. /\ Len(Stream) \in Nat /\ Len(t) \in Nat /\ e \in 0 .. Len(Stream)
        /\ Len(t) = Len(Stream) - e
    BY <1>1, LenProperties DEF Suffix
  <2>2. \A i \in 1 .. Len(t) : i + e \in 1 .. Len(Stream)
    BY <2>1
  <2> QED
    BY <2>1, <2>2 DEF Suffix
<1>3. Stream' = t /\ Len(sent) \in Nat /\ replies \in Seq(Replies) /\ Len(replies) \in Nat
  BY LenProperties DEF Stream, RequestTypeInv
<1>4. Paired(t)
  BY <1>1, PairedKept DEF StreamInv, Calm
<1>5. \/ replies' = replies
      \/ \E r \in Replies : /\ r.request = k /\ Fits(r) /\ replies' = Append(replies, r)
                            /\ \A i \in 1 .. Len(t) : t[i][1] = k => t[i][2] = Len(sent[k].lines)
  BY DEF Idles, Begins, Replied
<1>6. /\ \A i \in 1 .. Len(replies') : Fits(replies'[i])
      /\ \A j : Answered(j) => Answered(j)'
      /\ \A j : Answered(j)' => \/ Answered(j)
                                \/ /\ j = k
                                   /\ \A i \in 1 .. Len(t) : t[i][1] = k => t[i][2] = Len(sent[k].lines)
  <2>1. CASE replies' = replies
    BY <2>1 DEF Calm, Answered
  <2>2. ASSUME NEW r \in Replies, r.request = k, Fits(r), replies' = Append(replies, r),
               \A i \in 1 .. Len(t) : t[i][1] = k => t[i][2] = Len(sent[k].lines)
        PROVE  <1>6!1 /\ <1>6!2 /\ <1>6!3
    <3> DEFINE n == Len(replies)
    <3>1. /\ n \in Nat /\ Len(replies') = n + 1 /\ replies'[n + 1] = r
          /\ \A i \in 1 .. n : replies'[i] = replies[i]
      BY <1>3, <2>2, AppendProperties
    <3>2. \A i \in 1 .. n : Fits(replies[i])
      BY DEF Calm
    <3> HIDE DEF n
    <3>3. 1 .. Len(replies') = (1 .. n) \cup {n + 1}
      BY <3>1
    <3>4. \A j : Answered(j) <=> \E i \in 1 .. n : replies'[i].request = j
      BY <3>1 DEF Answered, n
    <3>5. \A j : Answered(j)' <=> \E i \in (1 .. n) \cup {n + 1} : replies'[i].request = j
      BY <3>3 DEF Answered
    <3>6. \A j : Answered(j)' <=> Answered(j) \/ j = k
      BY <2>2, <3>1, <3>4, <3>5
    <3>7. \A i \in 1 .. Len(replies') : Fits(replies'[i])
      BY <2>2, <3>1, <3>2, <3>3
    <3> QED
      BY <2>2, <3>6, <3>7
  <2> QED
    BY <1>5, <2>1, <2>2
<1>7. ASSUME NEW j \in 1 .. Len(sent), ~IsRtcp(j)
      PROVE  Answered(j)' \/ AllLeft(t, j) \/ (state' = "headers" /\ j = request')
  <2>1. CASE Answered(j)
    BY <1>6, <2>1
  <2>2. CASE j = k /\ ~Answered(j)
    <3>1. CASE replies' = replies /\ state' = "headers" /\ request' = k
      BY <2>2, <3>1
    <3>2. CASE \E r \in Replies : r.request = k /\ replies' = Append(replies, r)
      <4>1. PICK r \in Replies : r.request = k /\ replies' = Append(replies, r)
        BY <3>2
      <4>2. /\ Len(replies') = Len(replies) + 1 /\ replies'[Len(replies) + 1] = r
        BY <1>3, <4>1, AppendProperties
      <4>3. Len(replies) + 1 \in 1 .. Len(replies')
        BY <1>3, <4>2
      <4> QED
        BY <2>2, <4>1, <4>2, <4>3 DEF Answered
    <3>3. CASE e = 0 /\ state = "line"
      <4>1. AllLeft(Stream, j)
        BY <1>7, <2>2, <3>3 DEF Calm
      <4>2. \A i \in 1 .. Len(Stream) : i \in 1 .. Len(t) /\ t[i] = Stream[i]
        BY <1>2, <3>3
      <4> QED
        BY <4>1, <4>2 DEF AllLeft, Holds
    <3> QED
      BY <1>7, <2>2, <3>1, <3>2, <3>3 DEF Idles, Begins, Replied
  <2>3. CASE j # k /\ ~Answered(j)
    <3>0. state = "headers" => request = k
      BY DEF Idles, Begins, Replied
    <3>1. AllLeft(Stream, j)
      BY <1>7, <2>3, <3>0 DEF Calm
    <3>2. ASSUME NEW l \in 0 .. Len(sent[j].lines), NEW h \in 1 .. 2
          PROVE  Holds(t, <<j, l, h>>)
      <4>1. PICK i \in 1 .. Len(Stream) : Stream[i] = <<j, l, h>>
        BY <3>1 DEF AllLeft, Holds
      <4>2. Stream[i][1] = j
        BY <4>1
      <4>3. ~(i <= e)
        <5>1. SUFFICES ASSUME i <= e PROVE FALSE
          OBVIOUS
        <5>2. i \in 1 .. e
          BY <1>2, <5>1
        <5> QED
          BY <2>3, <4>2, <5>2
      <4>4. i - e \in 1 .. Len(t) /\ (i - e) + e = i
        BY <1>2, <4>3
      <4>5. t[i - e] = <<j, l, h>>
        BY <1>2, <4>1, <4>4
      <4> QED
        BY <4>4, <4>5 DEF Holds
    <3> QED
      BY <3>2 DEF AllLeft
  <2> QED
    BY <2>1, <2>2, <2>3
<1>8. ASSUME NEW i \in 1 .. Len(t), Answered(t[i][1])'
      PROVE  t[i][2] = Len(sent[t[i][1]].lines)
  <2>1. CASE Answered(t[i][1])
    BY <1>2, <2>1 DEF Calm
  <2>2. CASE t[i][1] = k /\ \A n \in 1 .. Len(t) : t[n][1] = k => t[n][2] = Len(sent[k].lines)
    BY <2>2
  <2> QED
    BY <1>6, <1>8, <2>1, <2>2
<1>9. state' = "headers" =>
        /\ AtRequest(request') /\ Answerable(sent[request']) /\ Robust(sent[request'])
        /\ method' = sent[request'].method
        /\ \A h \in 1 .. 2 : Holds(t, <<request', Len(sent[request'].lines) - 1, h>>)
  <2>1. SUFFICES ASSUME state' = "headers"
                 PROVE  /\ AtRequest(request') /\ Answerable(sent[request']) /\ Robust(sent[request'])
                        /\ method' = sent[request'].method
                        /\ \A h \in 1 .. 2 : Holds(t, <<request', Len(sent[request'].lines) - 1, h>>)
    OBVIOUS
  <2>2. Begins(t, k)
    BY <2>1 DEF Idles, Replied
  <2> QED
    BY <2>2 DEF Begins
<1>10. Paired(Stream)'
  BY <1>3, <1>4 DEF Paired, Holds, Halves, IsRtcp
<1>13. (\A i \in 1 .. Len(replies) : Fits(replies[i]))'
  BY <1>6 DEF Fits
<1>14. (\A i \in 1 .. Len(Stream) :
          Answered(Stream[i][1]) => Stream[i][2] = Len(sent[Stream[i][1]].lines))'
  BY <1>3, <1>8
<1>11. state' = "headers" => Begun(Stream, request)'
  BY <1>3, <1>9 DEF Begun, AtRequest, Holds
<1>12. \A j \in 1 .. Len(sent') : ~IsRtcp(j)' =>
         Answered(j)' \/ AllLeft(Stream, j)' \/ (state' = "headers" /\ j = request')
  <2>1. \A j : AllLeft(Stream, j)' <=> AllLeft(t, j)
    BY <1>3 DEF AllLeft, Holds
  <2>2. \A j : IsRtcp(j)' <=> IsRtcp(j)
    BY DEF IsRtcp
  <2> QED
    BY <1>7, <2>1, <2>2
<1> QED
  BY <1>10, <1>11, <1>12, <1>13, <1>14 DEF Calm

-----------------------------------------------------------------------------

\* c is in front of s, and nothing but request k is in it.
FrontOf(c, s, k) ==
  Len(c) <= Len(s) /\ \A i \in 1 .. Len(c) : c[i] = s[i] /\ c[i][1] = k

LEMMA RequestShape ==
  ASSUME RequestTypeInv, CSeqs, WellFormed, NEW k, AtRequest(k)
  PROVE  LET n == Len(sent[k].lines)
         IN /\ k \in 1 .. Len(sent) /\ ~IsRtcp(k)
            /\ n \in Nat /\ n >= 1 /\ sent[k].lines[n] = "Blank"
            /\ DOMAIN sent[k].lines = 1 .. n
            /\ \A i, j \in 1 .. n : Header(sent[k].lines[i]) = Header(sent[k].lines[j]) => i = j
<1>1. /\ k \in 1 .. Len(sent) /\ sent[k] \in Messages /\ sent[k].method # "RTCP"
      /\ sent[k].lines \in Seq(Lines) /\ ~IsRtcp(k)
  <2>1. k \in 1 .. Len(sent) /\ sent[k].method # "RTCP"
    BY DEF AtRequest, Methods
  <2> QED
    BY <2>1, LinesOf, ElementOfSeq DEF RequestTypeInv
<1>2. /\ sent[k].lines # <<>> /\ sent[k].lines[Len(sent[k].lines)] = "Blank"
      /\ \A i, j \in 1 .. Len(sent[k].lines) :
           Header(sent[k].lines[i]) = Header(sent[k].lines[j]) => i = j
  BY <1>1 DEF WellFormed
<1>3. Len(sent[k].lines) \in Nat /\ DOMAIN sent[k].lines = 1 .. Len(sent[k].lines)
  BY <1>1, LenProperties
<1>4. Len(sent[k].lines) >= 1
  BY <1>1, <1>2, <1>3, EmptySeq
<1> QED
  BY <1>1, <1>2, <1>3, <1>4

\* A line that is found in front of the stream is a header line of request k.
LEMMA FoundLine ==
  ASSUME NEW s \in Seq(Triples), Ordered(s), NEW c \in Seq(Triples), NEW k, ~IsRtcp(k),
         FrontOf(c, s, k), NEW kinds, NEW x \in Found(c, kinds)
  PROVE  /\ x \in 1 .. Len(c) /\ c[x][2] \in 1 .. Len(sent[k].lines)
         /\ c[x] = <<k, c[x][2], 2>> /\ Kind(c[x]) = sent[k].lines[c[x][2]]
         /\ Kind(c[x]) \in kinds
<1>1. /\ Len(c) \in Nat /\ DOMAIN c = 1 .. Len(c) /\ Len(s) \in Nat
  BY LenProperties
<1>2. x \in 1 .. Len(c) /\ IsCrlf(c[x]) /\ c[x][2] > 0 /\ Kind(c[x]) \in kinds
  BY <1>1 DEF Found, Crlfs
<1>3. x \in 1 .. Len(s) /\ c[x] = s[x] /\ c[x][1] = k
  BY <1>1, <1>2 DEF FrontOf
<1>4. /\ c[x][2] \in 0 .. Len(sent[k].lines) /\ c[x][3] = 2
      /\ c[x] = <<c[x][1], c[x][2], c[x][3]>>
  BY <1>2, <1>3, PieceParts DEF IsCrlf
<1>5. c[x][2] \in 1 .. Len(sent[k].lines)
  BY <1>2, <1>4
<1>6. Kind(c[x]) = sent[k].lines[c[x][2]]
  BY <1>3, <1>5 DEF Kind
<1> QED
  BY <1>2, <1>3, <1>4, <1>5, <1>6

\* A line whose halves are in front of the stream is found.
LEMMA LineFound ==
  ASSUME NEW c \in Seq(Triples), NEW k, ~IsRtcp(k), NEW l \in 1 .. Len(sent[k].lines),
         Holds(c, <<k, l, 1>>), NEW x \in 1 .. Len(c), c[x] = <<k, l, 2>>,
         NEW kinds, sent[k].lines[l] \in kinds
  PROVE  x \in Found(c, kinds)
<1>1. DOMAIN c = 1 .. Len(c)
  BY LenProperties
<1>2. c[x][1] = k /\ c[x][2] = l /\ c[x][3] = 2 /\ l > 0
  OBVIOUS
<1>3. Kind(c[x]) = sent[k].lines[l] /\ IsCrlf(c[x])
  BY <1>2 DEF Kind, IsCrlf
<1>4. <<c[x][1], c[x][2], 1>> \in ToSet(c)
  BY <1>1, <1>2 DEF Holds, ToSet
<1> QED
  BY <1>1, <1>2, <1>3, <1>4 DEF Found, Crlfs

\* Transports that the parser takes are those of the request.
LEMMA ItsTransport ==
  ASSUME NEW s \in Seq(Triples), Ordered(s), NEW c \in Seq(Triples), NEW k, ~IsRtcp(k),
         DOMAIN sent[k].lines = 1 .. Len(sent[k].lines), FrontOf(c, s, k),
         Found(c, {"TransportTcp", "TransportBad", "TransportUdp", "TransportMulticast"}) # {}
  PROVE  /\ Transport(c) \in ToSet(sent[k].lines)
         /\ Transport(c) \in {"TransportTcp", "TransportBad", "TransportUdp", "TransportMulticast"}
<1> DEFINE tcp   == {"TransportTcp", "TransportBad"}
           group == {"TransportUdp", "TransportMulticast"}
           all   == {"TransportTcp", "TransportBad", "TransportUdp", "TransportMulticast"}
<1>1. ASSUME NEW kinds, NEW x \in Found(c, kinds)
      PROVE  Kind(c[x]) \in ToSet(sent[k].lines) /\ Kind(c[x]) \in kinds
  BY FoundLine DEF ToSet
<1>2. CASE Found(c, tcp) # {}
  <2>1. Transport(c) = Kind(First(c, tcp))
    BY <1>2 DEF Transport
  <2>2. Min(Found(c, tcp)) \in Found(c, tcp)
    BY <1>2, FirstFound
  <2>3. Kind(First(c, tcp)) \in ToSet(sent[k].lines) /\ Kind(First(c, tcp)) \in tcp
    BY <1>1, <2>2 DEF First
  <2> QED
    BY <2>1, <2>3
<1>3. CASE Found(c, tcp) = {} /\ Found(c, {"TransportUdp"}) # {}
  <2>2. PICK x : x \in Found(c, {"TransportUdp"})
    BY <1>3
  <2>3. x \in Found(c, group)
    BY <2>2 DEF Found
  <2>1. Transport(c) = "TransportUdp"
    BY <1>3, <2>3 DEF Transport
  <2> QED
    BY <1>1, <2>1, <2>2
<1>4. CASE Found(c, tcp) = {} /\ Found(c, {"TransportUdp"}) = {}
  <2>1. PICK x : x \in Found(c, all)
    OBVIOUS
  <2>2. Kind(c[x]) \in all
    BY <1>1, <2>1
  <2>3. \A kinds : Kind(c[x]) \in kinds => x \in Found(c, kinds)
    BY <2>1 DEF Found
  <2>4. Kind(c[x]) \notin tcp /\ Kind(c[x]) # "TransportUdp"
    BY <1>4, <2>3
  <2>5. Kind(c[x]) = "TransportMulticast" /\ x \in Found(c, group)
    BY <2>2, <2>3, <2>4
  <2>6. Transport(c) = "TransportMulticast"
    BY <1>4, <2>5 DEF Transport
  <2> QED
    BY <1>1, <2>1, <2>5, <2>6
<1> QED
  BY <1>2, <1>3, <1>4

\* The line that decides is enough.
LEMMA Decided ==
  ASSUME RequestTypeInv, CSeqs, WellFormed, NEW k, AtRequest(k), Answerable(sent[k]),
         NEW s \in Seq(Triples), Ordered(s), NEW c \in Seq(Triples), FrontOf(c, s, k),
         NEW l \in 1 .. Len(sent[k].lines), sent[k].lines[l] \in Decides(sent[k]),
         Holds(c, <<k, l, 1>>), Holds(c, <<k, l, 2>>)
  PROVE  GotAll(sent[k].method, k, c)
<1> DEFINE m == sent[k]
<1>1. /\ ~IsRtcp(k) /\ DOMAIN m.lines = 1 .. Len(m.lines)
      /\ \A i, j \in 1 .. Len(m.lines) : Header(m.lines[i]) = Header(m.lines[j]) => i = j
  BY RequestShape
<1>2. PICK x \in 1 .. Len(c) : c[x] = <<k, l, 2>>
  BY DEF Holds
<1>3. ASSUME NEW kinds, m.lines[l] \in kinds PROVE x \in Found(c, kinds)
  BY <1>1, <1>2, <1>3, LineFound
<1>4. m.method \in Methods
  BY DEF AtRequest
<1>5. CASE m.method = "DESCRIBE"
  <2>1. Decides(m) = {"Accept"}
    BY <1>5 DEF Decides
  <2> QED
    BY <1>3, <1>5, <2>1 DEF GotAll
<1>6. CASE m.method = "PLAY"
  <2>1. Decides(m) = {"Session"}
    BY <1>6 DEF Decides
  <2> QED
    BY <1>3, <1>6, <2>1 DEF GotAll
<1>7. CASE m.method = "SETUP"
  <2> DEFINE good == {"TransportTcp", "TransportUdp", "TransportMulticast"}
             all  == {"TransportTcp", "TransportBad", "TransportUdp", "TransportMulticast"}
  <2>1. Decides(m) = good
    BY <1>7 DEF Decides
  <2>2. m.lines[l] \in good /\ m.lines[l] \in all
    BY <2>1
  <2>3. x \in Found(c, all)
    BY <1>3, <2>2
  <2>4. Transport(c) \in ToSet(m.lines) /\ Transport(c) \in all
    BY <1>1, <2>3, ItsTransport
  <2>5. PICK i \in 1 .. Len(m.lines) : m.lines[i] = Transport(c)
    BY <1>1, <2>4 DEF ToSet
  <2>6. Header(m.lines[i]) = "Transport" /\ Header(m.lines[l]) = "Transport"
    BY <2>2, <2>4, <2>5 DEF Header
  <2>7. i = l
    BY <1>1, <2>6
  <2>8. Transport(c) # "TransportBad"
    BY <2>2, <2>5, <2>7
  <2>9. m.track
    BY <1>7 DEF Answerable
  <2> QED
    BY <1>7, <2>3, <2>8, <2>9 DEF GotAll, ParseTransport, ParseMediaChannel
<1>8. CASE m.method \in {"OPTIONS", "TEARDOWN", "GET_PARAMETER"}
  BY <1>8 DEF GotAll
<1> QED
  BY <1>4, <1>5, <1>6, <1>7, <1>8 DEF Methods

\* A robust request that is enough has had its deciding line, the last but one.
LEMMA DecidedBy ==
  ASSUME RequestTypeInv, CSeqs, WellFormed, NEW k, AtRequest(k), Answerable(sent[k]), Robust(sent[k]),
         NEW s \in Seq(Triples), Ordered(s), Past(s, k), NEW c \in Seq(Triples), FrontOf(c, s, k),
         \A h \in 1 .. 2 : Holds(s, <<k, Len(sent[k].lines) - 1, h>>),
         Len(c) >= 1, c[Len(c)][3] = 2, GotAll(sent[k].method, k, c)
  PROVE  Holds(c, <<k, Len(sent[k].lines) - 1, 2>>)
<1> DEFINE m == sent[k]
           n == Len(m.lines)
<1>1. /\ ~IsRtcp(k) /\ DOMAIN m.lines = 1 .. n /\ k \in 1 .. Len(sent)
      /\ \A i, j \in 1 .. n : Header(m.lines[i]) = Header(m.lines[j]) => i = j
      /\ n \in Nat /\ n >= 1 /\ m.lines[n] = "Blank" /\ Len(sent) \in Nat
  BY RequestShape, LenProperties DEF RequestTypeInv
<1>2. m.lines[1] = "CSeq" /\ m.lines[n - 1] \in Decides(m)
  BY DEF Robust
<1> HIDE DEF n
<1>3. n - 1 \in 1 .. n
  <2>1. n # 1
    BY <1>1, <1>2
  <2> QED
    BY <1>1, <2>1
<1>4. m.method \in Methods
  BY DEF AtRequest
<1>5. ASSUME NEW kinds, Found(c, kinds) # {},
             \A i \in kinds : Header(i) = Header(m.lines[n - 1])
      PROVE  Holds(c, <<k, n - 1, 2>>)
  <2>1. PICK x : x \in Found(c, kinds)
    BY <1>5
  <2>2. /\ x \in 1 .. Len(c) /\ c[x][2] \in 1 .. n /\ c[x] = <<k, c[x][2], 2>>
        /\ m.lines[c[x][2]] \in kinds
    BY <1>1, <2>1, FoundLine DEF n
  <2>3. c[x][2] = n - 1
    BY <1>1, <1>3, <1>5, <2>2
  <2> QED
    BY <2>2, <2>3 DEF Holds
<1>6. CASE m.method = "DESCRIBE"
  <2> DEFINE key == {"Accept"}
  <2>1. Found(c, key) # {} /\ m.lines[n - 1] = "Accept"
    BY <1>2, <1>6 DEF GotAll, Decides
  <2>2. \A i \in key : Header(i) = Header(m.lines[n - 1])
    BY <2>1
  <2> HIDE DEF key
  <2> QED
    BY <1>5, <2>1, <2>2 DEF n
<1>7. CASE m.method = "PLAY"
  <2> DEFINE key == {"Session"}
  <2>1. Found(c, key) # {} /\ m.lines[n - 1] = "Session"
    BY <1>2, <1>7 DEF GotAll, Decides
  <2>2. \A i \in key : Header(i) = Header(m.lines[n - 1])
    BY <2>1
  <2> HIDE DEF key
  <2> QED
    BY <1>5, <2>1, <2>2 DEF n
<1>8. CASE m.method = "SETUP"
  <2> DEFINE all == {"TransportTcp", "TransportBad", "TransportUdp", "TransportMulticast"}
  <2>1. ParseTransport(c) /\ m.lines[n - 1] \in {"TransportTcp", "TransportUdp", "TransportMulticast"}
    BY <1>2, <1>8 DEF GotAll, Decides
  <2>2. Found(c, all) # {}
    BY <2>1 DEF ParseTransport
  <2>3. \A i \in all : Header(i) = Header(m.lines[n - 1])
    BY <2>1 DEF Header
  <2> HIDE DEF all
  <2> QED
    BY <1>5, <2>2, <2>3 DEF n
<1>9. CASE m.method \in {"OPTIONS", "TEARDOWN", "GET_PARAMETER"}
  <2>1. n - 1 = 1
    <3>1. m.lines[n - 1] = "CSeq" /\ 1 \in 1 .. n
      BY <1>1, <1>2, <1>9 DEF Decides
    <3> QED
      BY <1>1, <1>2, <1>3, <3>1
  <2>2. PICK j \in 1 .. Len(s) : s[j] = <<k, 1, 2>>
    <3>1. \A h \in 1 .. 2 : Holds(s, <<k, n - 1, h>>)
      BY DEF n
    <3>2. Holds(s, <<k, 1, 2>>)
      BY <2>1, <3>1
    <3> QED
      BY <3>2 DEF Holds
  <2> DEFINE e == Len(c)
             p == s[e]
  <2>3. /\ e \in 1 .. Len(c) /\ e \in 1 .. Len(s) /\ c[e] = p /\ p[1] = k /\ p[3] = 2
    <3>1. Len(c) \in Nat /\ Len(s) \in Nat /\ e \in 1 .. Len(c)
      BY LenProperties
    <3> QED
      BY <3>1 DEF FrontOf
  <2>4. p[2] >= 1 /\ p[2] \in Nat
    <3>1. Before(<<k, 0, 2>>, p) /\ p[2] \in Nat
      BY <2>3, PieceParts DEF Past
    <3> DEFINE o == <<k, 0, 2>>
    <3>2. o[1] = k /\ o[2] = 0 /\ o[3] = 2
      OBVIOUS
    <3> HIDE DEF p, o
    <3>3. Before(o, p) /\ p[2] \in Nat
      BY <3>1 DEF o
    <3> QED
      BY <1>1, <2>3, <3>2, <3>3 DEF Before
  <2>5. j <= e
    <3>1. SUFFICES ASSUME e < j PROVE FALSE
      BY <2>3
    <3> DEFINE q == s[j]
    <3>2. Before(p, q) /\ q[1] = k /\ q[2] = 1 /\ q[3] = 2
      <4>1. e \in 1 .. Len(s) /\ j \in 1 .. Len(s)
        BY <2>3
      <4>2. Before(s[e], s[j])
        BY <3>1, <4>1 DEF Ordered
      <4> QED
        BY <2>2, <4>2
    <3> HIDE DEF p, q
    <3> QED
      BY <1>1, <2>3, <2>4, <3>2 DEF Before
  <2>6. j \in 1 .. Len(c) /\ c[j] = <<k, 1, 2>>
    <3>1. j \in 1 .. Len(c)
      BY <2>3, <2>5
    <3> QED
      BY <2>2, <3>1 DEF FrontOf
  <2> QED
    BY <2>1, <2>6 DEF Holds, n
<1> QED
  BY <1>4, <1>6, <1>7, <1>8, <1>9 DEF Methods

\* The reply that is made of what has been found fits the request.
LEMMA ReplyFits ==
  ASSUME RequestTypeInv, CSeqs, WellFormed, NEW k, AtRequest(k),
         NEW s \in Seq(Triples), Ordered(s), NEW c \in Seq(Triples), FrontOf(c, s, k),
         \/ Robust(sent[k])
         \/ \A l \in 1 .. Len(sent[k].lines), h \in 1 .. 2 : Holds(c, <<k, l, h>>),
         GotAll(sent[k].method, k, c), NEW r, r.request = k,
         r.auth = ParseAuthorization(sent[k].method, c),
         sent[k].method = "SETUP" => r.transport = Transport(c)
  PROVE  Fits(r)
<1> DEFINE m == sent[k]
<1>1. /\ ~IsRtcp(k) /\ DOMAIN m.lines = 1 .. Len(m.lines)
  BY RequestShape
<1>2. ASSUME m.method \in {"DESCRIBE", "SETUP", "PLAY"}
      PROVE  r.auth <=> "Authorization" \in ToSet(m.lines)
  <2>1. r.auth = (Found(c, {"Authorization"}) # {})
    BY <1>2 DEF ParseAuthorization
  <2>2. ASSUME NEW x \in Found(c, {"Authorization"}) PROVE "Authorization" \in ToSet(m.lines)
    BY <1>1, FoundLine DEF ToSet
  <2>3. ASSUME "Authorization" \in ToSet(m.lines) PROVE Found(c, {"Authorization"}) # {}
    <3>1. \A l \in 1 .. Len(m.lines), h \in 1 .. 2 : Holds(c, <<k, l, h>>)
      BY <2>3 DEF Robust
    <3>2. PICK l \in 1 .. Len(m.lines) : m.lines[l] = "Authorization"
      BY <1>1, <2>3 DEF ToSet
    <3>3. Holds(c, <<k, l, 1>>) /\ Holds(c, <<k, l, 2>>)
      BY <3>1
    <3>4. PICK x \in 1 .. Len(c) : c[x] = <<k, l, 2>>
      BY <3>3 DEF Holds
    <3>5. x \in Found(c, {"Authorization"})
      BY <1>1, <3>2, <3>3, <3>4, LineFound
    <3> QED
      BY <3>5
  <2> QED
    BY <2>1, <2>2, <2>3
<1>3. ASSUME m.method = "SETUP" PROVE r.transport \in ToSet(m.lines)
  <2>1. ParseTransport(c)
    BY <1>3 DEF GotAll
  <2> QED
    BY <1>1, <1>3, <2>1, ItsTransport DEF ParseTransport
<1> QED
  BY <1>2, <1>3 DEF Fits

-----------------------------------------------------------------------------

LEMMA LastCrlf ==
  ASSUME NEW b \in Seq(Triples)
  PROVE  /\ FindLastCrlf(b) # 0 => FindLastCrlf(b) \in Crlfs(b)
         /\ \A x \in Crlfs(b) : x <= FindLastCrlf(b)
<1>1. Len(b) \in Nat /\ Crlfs(b) \subseteq 1 .. Len(b)
  BY LenProperties DEF Crlfs
<1>2. /\ Max(Crlfs(b) \cup {0}) \in Crlfs(b) \cup {0}
      /\ \A x \in Crlfs(b) \cup {0} : Max(Crlfs(b) \cup {0}) >= x
  <2>1. Crlfs(b) \cup {0} \subseteq 0 .. Len(b) /\ Crlfs(b) \cup {0} # {}
    BY <1>1
  <2> QED
    BY <1>1, <2>1, GreatestPlace
<1>3. Max(Crlfs(b) \cup {0}) \in Nat
  BY <1>1, <1>2
<1> QED
  BY <1>1, <1>2, <1>3 DEF FindLastCrlf

\* The last CRLF of what has come of request k leaves at most half a line.
LEMMA HalfLineLeft ==
  ASSUME NEW b \in Seq(Triples), NEW w \in Seq(Triples), Ordered(b \o w), Paired(b \o w),
         NEW k, ~IsRtcp(k), \A i \in 1 .. Len(b) : b[i][1] = k,
         NEW e, e = FindLastCrlf(b), NEW rest, rest = RetrieveUntil(b, e)
  PROVE  /\ e \in 0 .. Len(b) /\ (e = 0 \/ (b \o w)[e][3] = 2)
         /\ Len(rest) <= 1 /\ rest \in Seq(Triples)
         /\ Suffix(rest \o w, b \o w, e) /\ rest \o w \in Seq(Triples)
         /\ Ordered(rest \o w) /\ Paired(rest \o w)
<1> DEFINE s == b \o w
           t == rest \o w
<1>1. /\ e \in 0 .. Len(b) /\ Len(b) \in Nat /\ (e # 0 => e \in Crlfs(b))
      /\ \A x \in Crlfs(b) : x <= e
  BY CrlfPlaces, LastCrlf, LenProperties
<1>2. /\ rest \in Seq(Triples) /\ Len(rest) = Len(b) - e /\ t \in Seq(Triples)
      /\ Suffix(t, s, e)
  BY <1>1, CutProperties
<1>3. s \in Seq(Triples) /\ Len(s) \in Nat /\ Len(t) \in Nat
      /\ \A i \in 1 .. Len(b) : b[i] = s[i] /\ i \in 1 .. Len(s)
  <2>1. s \in Seq(Triples)
    BY ConcatProperties
  <2>2. Len(b) \in 0 .. Len(b)
    BY <1>1
  <2>3. Len(b) <= Len(s) /\ \A i \in 1 .. Len(b) : b[i] = s[i]
    BY <2>2, ChunkProperties
  <2>4. Len(s) \in Nat /\ Len(t) \in Nat
    BY <1>2, <2>1, LenProperties
  <2> QED
    BY <1>1, <2>1, <2>3, <2>4
<1>4. e = 0 \/ s[e][3] = 2
  <2>1. SUFFICES ASSUME e # 0 PROVE s[e][3] = 2
    OBVIOUS
  <2>2. e \in 1 .. Len(b) /\ IsCrlf(b[e])
    BY <1>1, <2>1 DEF Crlfs
  <2> QED
    BY <1>3, <2>2 DEF IsCrlf
<1> HIDE DEF s, t
<1>5. Ordered(t) /\ Paired(t)
  <2>1. Ordered(s) /\ Paired(s)
    BY DEF s
  <2>2. Paired(t)
    BY <1>2, <1>3, <1>4, <2>1, PairedKept
  <2>3. Ordered(t)
    <3>1. \A i \in 1 .. Len(t) : i + e \in 1 .. Len(s) /\ t[i] = s[i + e] /\ i + e \in Nat
      BY <1>1, <1>2, <1>3 DEF Suffix
    <3>2. \A i, j \in 1 .. Len(t) : i < j => i + e < j + e
      BY <1>1
    <3> QED
      BY <2>1, <3>1, <3>2 DEF Ordered
  <2> QED
    BY <2>2, <2>3
<1>6. Len(rest) <= 1
  <2>1. SUFFICES ASSUME Len(rest) >= 2 PROVE FALSE
    BY <1>1, <1>2
  <2>2. e + 1 \in 1 .. Len(b) /\ e + 2 \in 1 .. Len(b)
    BY <1>1, <1>2, <2>1
  <2>3. Len(t) >= 2 /\ t[1] = b[e + 1] /\ t[2] = b[e + 2]
    <3>1. Len(t) = Len(s) - e /\ e + 2 <= Len(s)
      BY <1>2, <1>3, <2>2 DEF Suffix
    <3>2. Len(t) >= 2 /\ 1 \in 1 .. Len(t) /\ 2 \in 1 .. Len(t) /\ 1 + e = e + 1 /\ 2 + e = e + 2
      BY <1>1, <1>3, <3>1
    <3>3. t[1] = s[e + 1] /\ t[2] = s[e + 2]
      BY <1>2, <3>2 DEF Suffix
    <3> QED
      BY <1>3, <2>2, <3>2, <3>3
  <2>4. t[1][1] = k
    BY <2>2, <2>3
  <2>5. t[2] = <<t[1][1], t[1][2], 2>>
    <3>1. Len(t) >= 1
      BY <1>3, <2>3
    <3> QED
      BY <1>2, <1>5, <2>4, <3>1, FirstTwo
  <2>6. b[e + 2][1] = k /\ b[e + 2][3] = 2
    BY <2>3, <2>4, <2>5
  <2>7. e + 2 \in Crlfs(b)
    <3>1. DOMAIN b = 1 .. Len(b)
      BY LenProperties
    <3> QED
      BY <2>2, <2>6, <3>1 DEF Crlfs, IsCrlf
  <2> QED
    BY <1>1, <2>7
<1> QED
  BY <1>1, <1>2, <1>4, <1>5, <1>6 DEF s, t

\* Behind the end of line y of request k there are only later lines of it.
LEMMA BehindLine ==
  ASSUME NEW s \in Seq(Triples), Ordered(s), NEW k, k \in 1 .. Len(sent), ~IsRtcp(k),
         NEW x \in 1 .. Len(s), NEW y \in Nat, s[x] = <<k, y, 2>>,
         NEW i \in 1 .. Len(s), x < i, s[i][1] = k
  PROVE  y < s[i][2] /\ s[i][2] <= Len(sent[k].lines) /\ s[i][2] \in Nat
<1> DEFINE p == s[x]
           q == s[i]
<1>1. /\ q[1] = k /\ q[2] \in Nat /\ q[3] \in 1 .. 2 /\ q[2] \in 0 .. Len(sent[k].lines)
  BY PieceParts DEF Halves
<1>2. p[1] = k /\ p[2] = y /\ p[3] = 2 /\ Before(p, q)
  BY DEF Ordered
<1>3. k \in Nat
  OBVIOUS
<1> HIDE DEF p, q
<1>4. y < q[2]
  BY <1>1, <1>2, <1>3 DEF Before
<1> QED
  BY <1>1, <1>4 DEF q

\* When the end of request k has come, all its header lines have.
LEMMA AllFound ==
  ASSUME RequestTypeInv, CSeqs, WellFormed, NEW k, AtRequest(k), NEW s \in Seq(Triples), Ordered(s),
         Whole(s, k), NEW c \in Seq(Triples), FrontOf(c, s, k),
         NEW e \in 1 .. Len(s), s[e] = <<k, Len(sent[k].lines), 2>>, e <= Len(c),
         NEW l \in 1 .. Len(sent[k].lines), NEW h \in 1 .. 2
  PROVE  Holds(c, <<k, l, h>>)
<1> DEFINE n == Len(sent[k].lines)
<1>1. k \in 1 .. Len(sent) /\ ~IsRtcp(k) /\ n \in Nat /\ Len(c) \in Nat
  BY RequestShape, LenProperties
<1>2. PICK j \in 1 .. Len(s) : s[j] = <<k, l, h>>
  BY DEF Whole
<1>3. s[j][1] = k /\ s[j][2] = l
  BY <1>2
<1>4. ~(e < j)
  <2>1. SUFFICES ASSUME e < j PROVE FALSE
    OBVIOUS
  <2>2. n < l
    BY <1>1, <1>3, <2>1, BehindLine
  <2> QED
    BY <1>1, <2>2
<1>5. j \in 1 .. Len(c)
  BY <1>1, <1>4
<1> QED
  BY <1>2, <1>5 DEF FrontOf, Holds

\* Whatever has come of the header lines, up to a CRLF, has the CSeq.
LEMMA CSeqFound ==
  ASSUME RequestTypeInv, CSeqs, WellFormed, NEW k, AtRequest(k), NEW s \in Seq(Triples),
         Ordered(s), Paired(s), Past(s, k), cseq = k \/ (cseq = 0 /\ Whole(s, k)),
         NEW c \in Seq(Triples), FrontOf(c, s, k), Len(c) >= 1, c[Len(c)][3] = 2,
         \/ Robust(sent[k])
         \/ \A l \in 1 .. Len(sent[k].lines), h \in 1 .. 2 : Holds(c, <<k, l, h>>)
  PROVE  ParseCSeq(c) = k /\ k # 0
<1>1. /\ k \in Nat /\ k # 0 /\ ~IsRtcp(k)
      /\ \E l \in 1 .. Len(sent[k].lines) : sent[k].lines[l] = "CSeq"
      /\ Len(sent[k].lines) \in Nat /\ Len(sent[k].lines) >= 1
  BY LinesOf, RequestShape
<1>2. CASE cseq = k
  BY <1>1, <1>2 DEF ParseCSeq
<1>3. CASE cseq = 0 /\ Whole(s, k)
  <2>1. \E l \in 1 .. Len(sent[k].lines) :
          sent[k].lines[l] = "CSeq" /\ Holds(c, <<k, l, 1>>) /\ Holds(c, <<k, l, 2>>)
    <3>1. CASE Robust(sent[k])
      <4>1. Len(s) >= 2 /\ s[2] = <<k, 1, 2>>
        BY <1>3, FirstPieces
      <4>2. Len(s) \in Nat /\ Len(c) \in Nat /\ 1 \in 1 .. Len(s) /\ 1 \in 1 .. Len(c)
        <5>1. Len(s) \in Nat /\ Len(c) \in Nat
          BY LenProperties
        <5> QED
          BY <4>1, <5>1
      <4>3. c[1] = s[1] /\ s[1][1] = k
        BY <4>2 DEF FrontOf
      <4>4. s[1][3] = 1 /\ s[2] = <<k, s[1][2], 2>>
        <5>1. Len(s) >= 1
          BY <4>1, <4>2
        <5> QED
          BY <1>1, <4>3, <5>1, FirstTwo
      <4>5. s[1] = <<k, 1, 1>>
        <5>1. s[1] = <<s[1][1], s[1][2], s[1][3]>>
          BY <4>2, PieceParts
        <5>2. s[1][2] = 1
          <6>1. s[2][2] = 1 /\ s[2][2] = s[1][2]
            BY <4>1, <4>4
          <6> QED
            BY <6>1
        <5> QED
          BY <4>3, <4>4, <5>1, <5>2
      <4>6. Len(c) >= 2
        <5> DEFINE m == Len(c)
        <5>1. m # 1 /\ m \in Nat /\ m >= 1
          BY <4>2, <4>3, <4>4
        <5> HIDE DEF m
        <5>2. m >= 2
          BY <5>1
        <5> QED
          BY <5>2 DEF m
      <4>7. 2 \in 1 .. Len(c) /\ c[2] = <<k, 1, 2>> /\ c[1] = <<k, 1, 1>>
        <5>1. 2 \in 1 .. Len(c)
          BY <4>2, <4>6
        <5> QED
          BY <4>1, <4>3, <4>5, <5>1 DEF FrontOf
      <4>8. Holds(c, <<k, 1, 1>>) /\ Holds(c, <<k, 1, 2>>)
        BY <4>2, <4>7 DEF Holds
      <4>9. sent[k].lines[1] = "CSeq" /\ 1 \in 1 .. Len(sent[k].lines)
        BY <1>1, <3>1 DEF Robust
      <4> QED
        BY <4>8, <4>9
    <3>2. CASE \A l \in 1 .. Len(sent[k].lines), h \in 1 .. 2 : Holds(c, <<k, l, h>>)
      BY <1>1, <3>2
    <3> QED
      BY <3>1, <3>2
  <2>2. PICK l \in 1 .. Len(sent[k].lines) :
          sent[k].lines[l] = "CSeq" /\ Holds(c, <<k, l, 1>>) /\ Holds(c, <<k, l, 2>>)
    BY <2>1
  <2>3. PICK x \in 1 .. Len(c) : c[x] = <<k, l, 2>>
    BY <2>2 DEF Holds
  <2>4. x \in Found(c, {"CSeq"})
    BY <1>1, <2>2, <2>3, LineFound
  <2>5. First(c, {"CSeq"})[1] = k
    <3>1. Min(Found(c, {"CSeq"})) \in 1 .. Len(c)
      BY <2>4, FirstFound
    <3> QED
      BY <3>1 DEF First, FrontOf
  <2> QED
    BY <1>1, <1>3, <2>4, <2>5 DEF ParseCSeq
<1> QED
  BY <1>2, <1>3

\* The end of request k has come, and all its header lines are left.
AllInHand(k, s, b) ==
  Whole(s, k) /\ Len(b) >= 1 /\ b[Len(b)] = <<k, Len(sent[k].lines), 2>>

\* ParseHeadersLine of request k, of which d pieces have been taken before, leaves the
\* parser in k or has replied to it; if k must not be cut, its end has come.
LEMMA HeadersCalm ==
  ASSUME RequestInv, Calm, CSeqs, WellFormed, sent' = sent,
         NEW b \in Seq(Triples), NEW w \in Seq(Triples), wire' = w,
         NEW d \in Nat, Suffix(b \o w, Stream, d), d = 0 \/ Stream[d][3] = 2,
         NEW k, AtRequest(k), \A i \in 1 .. d : Stream[i][1] = k, \A i \in 1 .. Len(b) : b[i][1] = k,
         Past(b \o w, k), cseq = k \/ (cseq = 0 /\ Whole(b \o w, k)),
         state = "headers" => request = k, Answerable(sent[k]),
         \/ AllInHand(k, b \o w, b)
         \/ /\ Robust(sent[k])
            /\ \A h \in 1 .. 2 : Holds(b \o w, <<k, Len(sent[k].lines) - 1, h>>),
         ParseHeadersLine(sent[k].method, k, b)
  PROVE  Calm'
<1> USE DEF RequestInv
<1> DEFINE s    == b \o w
           e    == FindLastCrlf(b)
           c    == SubSeq(b, 1, e)
           rest == RetrieveUntil(b, e)
           t    == rest \o w
           m    == sent[k].method
           n    == Len(sent[k].lines)
<1>1. s \in Seq(Triples) /\ Stream \in Seq(Triples)
  BY ConcatProperties DEF Stream, RequestTypeInv
<1>2. Ordered(s) /\ Wholes(s)
  BY <1>1, SuffixKeeps DEF StreamInv
<1>3. Paired(s)
  BY <1>1, PairedKept DEF StreamInv, Calm
<1>4. /\ k \in 1 .. Len(sent) /\ ~IsRtcp(k) /\ n \in Nat /\ n >= 1 /\ sent[k].lines[n] = "Blank"
  BY RequestShape
<1>5. /\ e \in 0 .. Len(b) /\ (e = 0 \/ s[e][3] = 2)
      /\ Len(rest) <= 1 /\ rest \in Seq(Triples)
      /\ Suffix(t, s, e) /\ t \in Seq(Triples) /\ Ordered(t) /\ Paired(t)
  BY <1>2, <1>3, <1>4, HalfLineLeft
<1>6. /\ method' = m /\ request' = k /\ Left(rest)
      /\ IF c = <<>> THEN state' = "headers" /\ UNCHANGED <<cseq, auth, transport, closed, replies>>
         ELSE IF ParseCSeq(c) = 0
           THEN closed' = TRUE /\ state' = "headers" /\ UNCHANGED <<cseq, auth, transport, replies>>
         ELSE /\ auth' = ParseAuthorization(m, c)
              /\ transport' = IF m = "SETUP" THEN Transport(c) ELSE transport
              /\ UNCHANGED closed
              /\ IF GotAll(m, k, c)
                   THEN HandleRtspRequest(m, k, ParseCSeq(c))
                   ELSE /\ state' = "headers" /\ cseq' = ParseCSeq(c)
                        /\ UNCHANGED replies
  BY DEF ParseHeadersLine
<1>7. /\ c \in Seq(Triples) /\ Len(c) = e /\ Len(b) \in Nat /\ Len(s) \in Nat /\ e <= Len(s)
      /\ Len(b) <= Len(s) /\ \A i \in 1 .. Len(b) : b[i] = s[i] /\ s[i][1] = k
      /\ \A i \in 1 .. e : c[i] = b[i]
  <2>1. Len(b) \in Nat /\ Len(s) \in Nat /\ Len(b) \in 0 .. Len(b)
    BY <1>1, LenProperties
  <2>2. Len(b) <= Len(s) /\ \A i \in 1 .. Len(b) : b[i] = s[i]
    BY <2>1, ChunkProperties
  <2>3. c \in Seq(Triples) /\ Len(c) = e /\ e <= Len(s) /\ \A i \in 1 .. e : c[i] = b[i]
    BY <1>5, ChunkProperties
  <2> QED
    BY <2>1, <2>2, <2>3
<1>8. AllInHand(k, s, b) \/ (Robust(sent[k]) /\ \A h \in 1 .. 2 : Holds(s, <<k, n - 1, h>>))
  BY DEF AllInHand
<1>9. buffer' = rest /\ Len(buffer') <= 1
  <2>1. Len(rest) \in Nat /\ Len(rest) <= MaxPieces
    BY <1>5, LenProperties, PiecesAssumption
  <2> QED
    BY <1>5, <1>6, <2>1, LeftProperties
<1> HIDE DEF s, e, c, rest, t, m, n
<1>10. /\ e \in Nat /\ d + e \in Nat /\ Suffix(t, Stream, d + e) /\ buffer' \o wire' = t
       /\ d + e = 0 \/ Stream[d + e][3] = 2
       /\ \A i \in 1 .. d + e : Stream[i][1] = k
  <2>1. Suffix(t, Stream, d + e)
    BY <1>1, <1>5, SuffixOfSuffix DEF s
  <2>2. e \in Nat /\ d + e \in Nat /\ buffer' \o wire' = t
    BY <1>5, <1>7, <1>9 DEF t
  <2>3. \A i \in 1 .. Len(s) : s[i] = Stream[i + d]
    BY DEF Suffix, s
  <2>4. d + e = 0 \/ Stream[d + e][3] = 2
    <3>1. CASE e = 0
      BY <2>2, <3>1
    <3>2. CASE e # 0
      <4>1. e \in 1 .. Len(s) /\ e + d = d + e
        BY <1>7, <2>2, <3>2
      <4> QED
        BY <1>5, <2>3, <3>2, <4>1
    <3> QED
      BY <3>1, <3>2
  <2>5. ASSUME NEW i \in 1 .. d + e PROVE Stream[i][1] = k
    <3>1. CASE i <= d
      BY <2>2, <3>1
    <3>2. CASE ~(i <= d)
      <4>1. i - d \in 1 .. Len(b) /\ i - d \in 1 .. Len(s) /\ (i - d) + d = i
        BY <1>5, <1>7, <2>2, <3>2
      <4>2. s[i - d] = Stream[i]
        BY <2>3, <4>1
      <4> QED
        BY <1>7, <4>1, <4>2
    <3> QED
      BY <3>1, <3>2
  <2> QED
    BY <2>1, <2>2, <2>4, <2>5
<1>11. ASSUME Begins(t, k) \/ Replied(t, k), ~closed' PROVE Calm'
  BY <1>5, <1>9, <1>10, <1>11, CalmRead
<1>12. \A x \in 1 .. Len(b) : b[x][3] = 2 => x <= e
  <2>1. DOMAIN b = 1 .. Len(b)
    BY LenProperties
  <2>2. \A x \in Crlfs(b) : x <= e
    BY LastCrlf DEF e
  <2> QED
    BY <1>4, <1>7, <2>1, <2>2 DEF Crlfs, IsCrlf
<1>13. ASSUME AllInHand(k, s, b) PROVE e = Len(b) /\ Len(b) \in 1 .. Len(s) /\ s[Len(b)] = <<k, n, 2>>
  <2>1. Len(b) \in 1 .. Len(b) /\ b[Len(b)] = <<k, n, 2>>
    BY <1>7, <1>13 DEF AllInHand, n
  <2>2. b[Len(b)][3] = 2
    BY <2>1
  <2>3. Len(b) <= e
    BY <1>12, <2>1, <2>2
  <2> QED
    BY <1>5, <1>7, <2>1, <2>3
<1>14. CASE c = <<>>
  <2>1. e = 0
    BY <1>7, <1>14, EmptySeq
  <2>2. t = s
    <3>1. RetrieveUntil(b, 0) = b
      BY SubSeqFull DEF RetrieveUntil
    <3>2. rest = RetrieveUntil(b, e)
      BY DEF rest, e
    <3> QED
      BY <2>1, <3>1, <3>2 DEF t, s
  <2>3. Robust(sent[k]) /\ \A h \in 1 .. 2 : Holds(s, <<k, n - 1, h>>)
    <3>1. ~AllInHand(k, s, b)
      BY <1>13, <2>1
    <3> QED
      BY <1>8, <3>1
  <2>4. ~closed' /\ state' = "headers" /\ replies' = replies
    BY <1>6, <1>14 DEF Calm
  <2>5. Begins(t, k)
    BY <1>6, <2>2, <2>3, <2>4 DEF Begins, m, n
  <2> QED
    BY <1>11, <2>4, <2>5
<1>15. CASE c # <<>>
  <2>1. Len(c) >= 1 /\ FrontOf(c, s, k) /\ c[Len(c)][3] = 2 /\ Len(c) = e /\ e \in 1 .. Len(s)
    <3>1. e # 0
      BY <1>7, <1>15, EmptySeq
    <3>2. e \in 1 .. Len(b) /\ e \in 1 .. Len(s) /\ e \in 1 .. e
      BY <1>5, <1>7, <3>1
    <3>3. c[e] = s[e]
      BY <1>7, <3>2
    <3>4. \A i \in 1 .. e : c[i] = s[i] /\ c[i][1] = k
      <4>1. \A i \in 1 .. e : i \in 1 .. Len(b)
        BY <1>5, <1>7
      <4> QED
        BY <1>7, <4>1
    <3> QED
      BY <1>5, <1>7, <3>1, <3>2, <3>3, <3>4 DEF FrontOf
  <2>2. ASSUME AllInHand(k, s, b), NEW l \in 1 .. n, NEW h \in 1 .. 2 PROVE Holds(c, <<k, l, h>>)
    <3>1. e \in 1 .. Len(s) /\ s[e] = <<k, n, 2>> /\ Whole(s, k) /\ e <= Len(c)
      BY <1>5, <1>13, <2>1, <2>2 DEF AllInHand
    <3> QED
      BY <1>1, <1>2, <1>7, <2>1, <3>1, AllFound DEF n
  <2>3. \/ AllInHand(k, s, b) /\ \A l \in 1 .. n, h \in 1 .. 2 : Holds(c, <<k, l, h>>)
        \/ Robust(sent[k]) /\ \A h \in 1 .. 2 : Holds(s, <<k, n - 1, h>>)
    BY <1>8, <2>2
  <2>4. ParseCSeq(c) = k /\ k # 0
    <3>1. Past(s, k) /\ (cseq = k \/ (cseq = 0 /\ Whole(s, k)))
      BY DEF s
    <3> QED
      BY <1>1, <1>2, <1>3, <1>7, <2>1, <2>3, <3>1, CSeqFound DEF n
  <2>5. ~closed'
    BY <1>6, <1>15, <2>4 DEF Calm
  <2>6. \A i \in 1 .. Len(t) : t[i] = s[i + e] /\ i + e \in 1 .. Len(s) /\ e < i + e
    <3>1. Len(t) \in Nat /\ Len(t) = Len(s) - e
      BY <1>5, LenProperties DEF Suffix
    <3> QED
      BY <1>5, <1>7, <1>10, <3>1 DEF Suffix
  <2>7. CASE GotAll(m, k, c)
    <3> DEFINE r == [method |-> m, request |-> k, cseq |-> k, auth |-> auth', transport |-> transport']
    <3>1. replies' = Append(replies, r) /\ state' = "line"
      BY <1>6, <1>15, <2>4, <2>7 DEF HandleRtspRequest, Reset
    <3>2. auth' = ParseAuthorization(m, c) /\ (m = "SETUP" => transport' = Transport(c))
      BY <1>6, <1>15, <2>4
    <3>3. r \in Replies
      <4>1. HeadersDone(m, k, b, w)
        <5>1. RequestTypeInv
          OBVIOUS
        <5> QED
          BY <1>2, <5>1, Parsed DEF s, m
      <4>2. auth' \in BOOLEAN /\ transport' \in Transports
        BY <4>1 DEF HeadersDone
      <4>3. m \in Methods /\ k \in Nat
        BY <1>4 DEF AtRequest, m
      <4> QED
        BY <4>2, <4>3 DEF Replies
    <3>4. r.request = k /\ r.auth = auth' /\ r.transport = transport'
      OBVIOUS
    <3> HIDE DEF r
    <3>5. Fits(r)
      <4>1. /\ GotAll(sent[k].method, k, c)
            /\ r.auth = ParseAuthorization(sent[k].method, c)
            /\ sent[k].method = "SETUP" => r.transport = Transport(c)
        BY <2>7, <3>2, <3>4 DEF m
      <4>2. \/ Robust(sent[k])
            \/ \A l \in 1 .. Len(sent[k].lines), h \in 1 .. 2 : Holds(c, <<k, l, h>>)
        BY <2>3 DEF n
      <4>3. RequestTypeInv
        OBVIOUS
      <4> QED
        BY <1>1, <1>2, <1>7, <2>1, <3>4, <4>1, <4>2, <4>3, ReplyFits
    <3>6. \E x \in 1 .. e, y \in {n - 1, n} : s[x] = <<k, y, 2>>
      <4>1. CASE AllInHand(k, s, b)
        <5>1. e \in 1 .. e /\ s[e] = <<k, n, 2>>
          BY <1>13, <2>1, <4>1
        <5> QED
          BY <5>1
      <4>2. CASE Robust(sent[k]) /\ \A h \in 1 .. 2 : Holds(s, <<k, n - 1, h>>)
        <5>1. Past(s, k)
          BY DEF s
        <5>2. Holds(c, <<k, n - 1, 2>>)
          <6>1. /\ GotAll(sent[k].method, k, c)
                /\ \A h \in 1 .. 2 : Holds(s, <<k, Len(sent[k].lines) - 1, h>>)
            BY <2>7, <4>2 DEF m, n
          <6>2. RequestTypeInv
            OBVIOUS
          <6>3. Holds(c, <<k, Len(sent[k].lines) - 1, 2>>)
            BY <1>1, <1>2, <1>7, <2>1, <4>2, <5>1, <6>1, <6>2, DecidedBy
          <6> QED
            BY <6>3 DEF n
        <5>3. PICK x \in 1 .. Len(c) : c[x] = <<k, n - 1, 2>>
          BY <5>2 DEF Holds
        <5>4. x \in 1 .. e /\ s[x] = <<k, n - 1, 2>>
          BY <2>1, <5>3 DEF FrontOf
        <5> QED
          BY <5>4
      <4> QED
        BY <2>3, <4>1, <4>2
    <3>7. ASSUME NEW i \in 1 .. Len(t), t[i][1] = k PROVE t[i][2] = n
      <4>1. PICK x \in 1 .. e, y \in {n - 1, n} : s[x] = <<k, y, 2>>
        BY <3>6
      <4>2. x \in 1 .. Len(s) /\ y \in Nat /\ x < i + e /\ i + e \in 1 .. Len(s) /\ s[i + e][1] = k
        <5>1. i + e \in 1 .. Len(s) /\ s[i + e][1] = k /\ e < i + e
          BY <2>6, <3>7
        <5>2. y \in Nat
          BY <1>4
        <5>3. x \in Nat /\ x <= e /\ e \in Nat /\ i \in Nat
          BY <1>10
        <5>4. x \in 1 .. Len(s) /\ x < i + e
          BY <1>7, <5>1, <5>3
        <5> QED
          BY <5>1, <5>2, <5>4
      <4>3. y < s[i + e][2] /\ s[i + e][2] <= n /\ s[i + e][2] \in Nat
        BY <1>1, <1>2, <1>4, <4>1, <4>2, BehindLine DEF n
      <4>4. s[i + e][2] = n
        BY <1>4, <4>1, <4>3
      <4> QED
        BY <2>6, <4>4
    <3>8. Replied(t, k)
      BY <3>1, <3>3, <3>4, <3>5, <3>7 DEF Replied, n
    <3> QED
      BY <1>11, <2>5, <3>8
  <2>8. CASE ~GotAll(m, k, c)
    <3>1. state' = "headers" /\ replies' = replies
      BY <1>6, <1>15, <2>4, <2>8
    <3>2. ASSUME NEW l \in 1 .. n, sent[k].lines[l] \in Decides(sent[k]),
                 Holds(c, <<k, l, 1>>), Holds(c, <<k, l, 2>>)
          PROVE  FALSE
      <4>1. ~GotAll(sent[k].method, k, c) /\ l \in 1 .. Len(sent[k].lines)
        BY <2>8 DEF m, n
      <4>2. RequestTypeInv
        OBVIOUS
      <4> QED
        BY <1>1, <1>2, <1>7, <2>1, <3>2, <4>1, <4>2, Decided
    <3>3. Robust(sent[k]) /\ \A h \in 1 .. 2 : Holds(s, <<k, n - 1, h>>)
      <4>1. SUFFICES ASSUME \A l \in 1 .. n, h \in 1 .. 2 : Holds(c, <<k, l, h>>) PROVE FALSE
        BY <2>3
      <4>2. PICK l \in 1 .. n : sent[k].lines[l] \in Decides(sent[k])
        <5>1. DOMAIN sent[k].lines = 1 .. n
          BY RequestShape DEF n
        <5> QED
          BY <5>1 DEF Answerable, ToSet
      <4>3. Holds(c, <<k, l, 1>>) /\ Holds(c, <<k, l, 2>>)
        BY <4>1
      <4> QED
        BY <3>2, <4>2, <4>3
    <3>4. n - 1 \in 1 .. n /\ sent[k].lines[n - 1] \in Decides(sent[k])
      <4>1. sent[k].lines[1] = "CSeq" /\ sent[k].lines[n - 1] \in Decides(sent[k])
        BY <3>3 DEF Robust, n
      <4>2. n # 1
        BY <1>4, <4>1
      <4> QED
        BY <1>4, <4>1, <4>2
    <3>5. PICK i \in 1 .. Len(s) : s[i] = <<k, n - 1, 1>>
      BY <3>3 DEF Holds
    <3>6. PICK j \in 1 .. Len(s) : s[j] = <<k, n - 1, 2>>
      BY <3>3 DEF Holds
    <3>7. i < j
      <4>1. Before(s[i], s[j])
        BY <3>5, <3>6 DEF Before
      <4> QED
        BY <1>1, <1>2, <4>1, OrderedPlaces
    <3>8. e < j
      <4>1. SUFFICES ASSUME j <= e PROVE FALSE
        BY <1>10
      <4>2. i \in 1 .. e /\ j \in 1 .. e
        BY <1>10, <3>7, <4>1
      <4>3. c[i] = <<k, n - 1, 1>> /\ c[j] = <<k, n - 1, 2>>
        BY <2>1, <3>5, <3>6, <4>2 DEF FrontOf
      <4>4. Holds(c, <<k, n - 1, 1>>) /\ Holds(c, <<k, n - 1, 2>>)
        BY <2>1, <4>2, <4>3 DEF Holds
      <4> QED
        BY <3>2, <3>4, <4>4
    <3>9. j - e \in 1 .. Len(t) /\ t[j - e] = <<k, n - 1, 2>>
      <4>1. Len(t) = Len(s) - e /\ Len(t) \in Nat
        BY <1>5, LenProperties DEF Suffix
      <4>2. j - e \in 1 .. Len(t) /\ (j - e) + e = j
        BY <1>7, <1>10, <3>8, <4>1
      <4> QED
        BY <2>6, <3>6, <4>2
    <3>10. \A h \in 1 .. 2 : Holds(t, <<k, n - 1, h>>)
      <4>1. t[j - e][1] = k /\ t[j - e][2] = n - 1
        BY <3>9
      <4>2. Halves(k) = 1 .. 2
        BY <1>4 DEF Halves
      <4> QED
        BY <1>5, <3>9, <4>1, <4>2 DEF Paired
    <3>11. Begins(t, k)
      BY <1>6, <3>1, <3>3, <3>10 DEF Begins, m, n
    <3> QED
      BY <1>11, <2>5, <3>11
  <2> QED
    BY <2>7, <2>8
<1> QED
  BY <1>14, <1>15

-----------------------------------------------------------------------------

\* While the parser is in a request, the stream begins with the rest of it.
LEMMA HeadersFirst ==
  ASSUME RequestInv, Calm, state = "headers", Len(Stream) >= 1
  PROVE  Stream[1][1] = request
<1> USE DEF RequestInv
<1> DEFINE p == Stream[1]
           o == <<request, 0, 2>>
<1>1. Stream \in Seq(Triples) /\ Len(Stream) \in Nat /\ 1 \in 1 .. Len(Stream)
  <2>1. Stream \in Seq(Triples)
    BY ConcatProperties DEF Stream, RequestTypeInv
  <2>2. Len(Stream) \in Nat
    BY <2>1, LenProperties
  <2> QED
    BY <2>1, <2>2
<1>2. Before(o, p) /\ o[1] = request
  <2>1. Past(Stream, request)
    BY DEF Calm, HeadersInv
  <2> QED
    BY <1>1, <2>1 DEF Past
<1>3. Holds(Stream, <<request, Len(sent[request].lines) - 1, 1>>)
  BY DEF Calm, Begun
<1>4. PICK j \in 1 .. Len(Stream) : Stream[j] = <<request, Len(sent[request].lines) - 1, 1>>
  BY <1>3 DEF Holds
<1>5. Stream[j][1] = request
  BY <1>4
<1>6. request \in Nat /\ p[1] \in Nat
  BY <1>1, PieceParts DEF RequestTypeInv, StreamInv
<1>7. CASE j = 1
  BY <1>5, <1>7
<1>8. CASE j # 1
  <2>1. Before(p, Stream[j])
    BY <1>1, <1>8 DEF StreamInv, Ordered
  <2> HIDE DEF p, o
  <2>2. p[1] = request
    BY <1>2, <1>5, <1>6, <2>1 DEF Before
  <2> QED
    BY <2>2 DEF p
<1> QED
  BY <1>7, <1>8

LEMMA LastPiece ==
  ASSUME NEW k \in Nat, NEW m \in Messages, m.method # "RTCP"
  PROVE  Last(Pieces(k, m)) = <<k, Len(m.lines), 2>>
<1> DEFINE n == Len(m.lines)
           p(i) == <<k, (i - 1) \div 2, 1 + ((i - 1) % 2)>>
<1>1. n \in Nat
  BY MessagesAssumption, LenProperties DEF IsMessage
<1>2. Pieces(k, m) = [i \in 1 .. 2 * (n + 1) |-> p(i)]
  BY DEF Pieces
<1> HIDE DEF n
<1>3. 2 * (n + 1) \in Nat /\ 2 * (n + 1) \in 1 .. 2 * (n + 1)
  BY <1>1
<1>4. (2 * (n + 1) - 1) \div 2 = n /\ (2 * (n + 1) - 1) % 2 = 1
  BY <1>1
<1>5. p(2 * (n + 1)) = <<k, n, 2>>
  BY <1>4
<1> HIDE DEF p
<1>6. Len([i \in 1 .. 2 * (n + 1) |-> p(i)]) = 2 * (n + 1)
  BY <1>3
<1> QED
  BY <1>2, <1>3, <1>5, <1>6 DEF Last, n

\* A read that finds an RTCP packet in front.
LEMMA PacketCalm ==
  ASSUME RequestInv, Calm, sent' = sent, NEW b \in Seq(Triples), NEW w \in Seq(Triples), wire' = w,
         b \o w = Stream, Len(b) >= 1, NEW k, IsRtcp(k), \A i \in 1 .. Len(b) : b[i][1] = k,
         Left(HandleRtcp(b)), UNCHANGED <<state, request, cseq, auth, transport, closed, replies>>,
         ~Tears(b)
  PROVE  Calm'
<1> USE DEF RequestInv
<1>1. /\ Len(b) \in Nat /\ Len(b) <= Len(Stream) /\ Stream \in Seq(Triples) /\ Len(Stream) \in Nat
      /\ \A i \in 1 .. Len(b) : b[i] = Stream[i]
      /\ 1 \in 1 .. Len(b) /\ Len(b) \in 1 .. Len(b) /\ DOMAIN b = 1 .. Len(b)
  <2>1. Len(b) \in Nat /\ Len(b) \in 0 .. Len(b) /\ DOMAIN b = 1 .. Len(b)
    BY LenProperties
  <2>2. Stream \in Seq(Triples)
    BY ConcatProperties
  <2> QED
    BY <2>1, <2>2, ChunkProperties, LenProperties
<1>2. \A i \in 1 .. Len(b) : i \in 1 .. Len(Stream) /\ Stream[i][1] = k
  BY <1>1
<1>3. k \in 1 .. Len(sent) /\ sent[k] \in Messages /\ sent[k].length \in Lengths
  <2>1. k \in 1 .. Len(sent)
    BY <1>1, <1>2, PieceParts DEF StreamInv
  <2>2. sent[k] \in Messages
    BY <2>1, ElementOfSeq DEF RequestTypeInv
  <2> QED
    BY <2>1, <2>2, MessagesAssumption DEF IsRtcp, IsMessage, Methods
<1>4. state = "line"
  <2>1. SUFFICES ASSUME state = "headers" PROVE FALSE
    BY DEF RequestTypeInv
  <2>2. request = k
    <3>1. Len(Stream) >= 1 /\ Stream[1][1] = k
      BY <1>1, <1>2
    <3> QED
      BY <2>1, <3>1, HeadersFirst
  <2> QED
    BY <2>1, <2>2 DEF Calm, Begun, AtRequest, IsRtcp, Methods
<1>5. b[Len(b)][3] # 1 /\ sent[k].length # "wraps"
  BY <1>1 DEF Tears, Last
<1>6. sent[k].length \in {"plain", "negative"}
  BY <1>3, <1>5 DEF Lengths
<1>7. \A p \in ToSet(b) : p[1] = k
  BY <1>1 DEF ToSet
<1>8. HandleRtcp(b) = IF Len(b) > 1 THEN <<>> ELSE b
  <2>1. b[1][1] = k
    BY <1>1
  <2> QED
    BY <1>6, <1>7, <2>1 DEF HandleRtcp
<1>9. MaxPieces \in Nat /\ 1 <= MaxPieces
  BY PiecesAssumption
<1>10. ~closed'
  BY DEF Calm
<1>11. CASE Len(b) = 1
  <2>1. buffer' = b
    <3>1. HandleRtcp(b) = b /\ Len(b) <= MaxPieces
      BY <1>8, <1>9, <1>11
    <3>2. Left(b)
      BY <3>1
    <3> QED
      BY <3>1, <3>2, LeftProperties
  <2>2. buffer' \o wire' = Stream /\ Suffix(Stream, Stream, 0) /\ Len(buffer') <= 1
    BY <1>1, <1>11, <2>1, SuffixOfItself
  <2>3. Idles(0, k)
    BY <1>4 DEF Idles
  <2>4. \A i \in 1 .. 0 : Stream[i][1] = k
    OBVIOUS
  <2> QED
    BY <1>1, <1>10, <2>2, <2>3, <2>4, CalmRead
<1>12. CASE Len(b) > 1
  <2>1. buffer' = <<>> /\ Len(buffer') <= 1
    BY <1>8, <1>9, <1>12 DEF Left
  <2>2. RetrieveUntil(b, Len(b)) = <<>> /\ Len(b) \in 0 .. Len(b)
    BY <1>1, SubSeqEmpty DEF RetrieveUntil
  <2>3. buffer' \o w \in Seq(Triples) /\ Suffix(buffer' \o w, Stream, Len(b))
    <3>1. /\ RetrieveUntil(b, Len(b)) \o w \in Seq(Triples)
          /\ Suffix(RetrieveUntil(b, Len(b)) \o w, Stream, Len(b))
      BY <2>2, CutProperties
    <3> QED
      BY <2>1, <2>2, <3>1
  <2>4. Stream[Len(b)][3] = 2
    <3> DEFINE p == Stream[1]
               q == Stream[Len(b)]
    <3>1. p[1] = k /\ q[1] = k
      BY <1>1, <1>2
    <3>2. Before(p, q)
      BY <1>1, <1>2, <1>12 DEF StreamInv, Ordered
    <3>3. p[2] = 0 /\ q[2] = 0 /\ p[3] \in 0 .. 2 /\ q[3] \in 0 .. 2
      BY <1>1, <1>2, PieceParts DEF StreamInv, Halves
    <3>4. q[3] # 1
      BY <1>1, <1>5
    <3>5. k \in Nat
      BY <1>3
    <3> HIDE DEF p, q
    <3>6. q[3] = 2
      BY <3>1, <3>2, <3>3, <3>4, <3>5 DEF Before
    <3> QED
      BY <3>6 DEF q
  <2>5. Idles(Len(b), k)
    BY <1>4 DEF Idles
  <2>6. \A i \in 1 .. Len(b) : Stream[i][1] = k
    BY <1>2
  <2> DEFINE t == buffer' \o w
  <2>7. t \in Seq(Triples) /\ Suffix(t, Stream, Len(b)) /\ buffer' \o wire' = t
    BY <2>3
  <2> HIDE DEF t
  <2> QED
    BY <1>10, <2>1, <2>4, <2>5, <2>6, <2>7, CalmRead
<1> QED
  BY <1>1, <1>11, <1>12

\* A read while the parser waits for a line.
LEMMA LineCalm ==
  ASSUME RequestInv, Calm, CSeqs, WellFormed, sent' = sent, state = "line",
         NEW b \in Seq(Triples), NEW w \in Seq(Triples), wire' = w, b \o w = Stream, Len(b) >= 1,
         NEW k, AtRequest(k), \A i \in 1 .. Len(b) : b[i][1] = k, Answerable(sent[k]),
         Robust(sent[k]) \/ b[Len(b)] = <<k, Len(sent[k].lines), 2>>,
         ParseRequestLine(b)
  PROVE  Calm'
<1> USE DEF RequestInv
<1> DEFINE end  == FindFirstCrlf(b)
           line == SubSeq(b, 1, end)
           rest == RetrieveUntil(b, end)
           n    == Len(sent[k].lines)
           y    == Stream[1][2]
<1>1. /\ Len(b) \in Nat /\ Len(b) <= Len(Stream) /\ Stream \in Seq(Triples) /\ Len(Stream) \in Nat
      /\ \A i \in 1 .. Len(b) : b[i] = Stream[i] /\ i \in 1 .. Len(Stream)
      /\ 1 \in 1 .. Len(b) /\ Len(b) \in 1 .. Len(b) /\ DOMAIN b = 1 .. Len(b)
  <2>1. Len(b) \in Nat /\ Len(b) \in 0 .. Len(b) /\ DOMAIN b = 1 .. Len(b)
    BY LenProperties
  <2>2. Stream \in Seq(Triples)
    BY ConcatProperties
  <2>3. Len(Stream) \in Nat /\ Len(b) <= Len(Stream) /\ \A i \in 1 .. Len(b) : b[i] = Stream[i]
    BY <2>1, <2>2, ChunkProperties, LenProperties
  <2>4. \A i \in 1 .. Len(b) : i \in 1 .. Len(Stream)
    BY <2>1, <2>3
  <2> QED
    BY <2>1, <2>2, <2>3, <2>4
<1>2. /\ k \in 1 .. Len(sent) /\ ~IsRtcp(k) /\ n \in Nat /\ n >= 1 /\ sent[k].lines[n] = "Blank"
      /\ k \in Nat
  BY RequestShape
<1>3. Ordered(Stream) /\ Paired(Stream) /\ ~closed
  BY DEF StreamInv, Calm
<1>4. /\ Len(Stream) >= 2 /\ Stream[1] = <<k, y, 1>> /\ Stream[2] = <<k, y, 2>>
      /\ y \in 0 .. n
  <2>1. Stream[1][1] = k /\ 1 \in 1 .. Len(Stream) /\ Len(Stream) >= 1
    BY <1>1
  <2>2. Stream[1][3] = 1 /\ Len(Stream) >= 2 /\ Stream[2] = <<k, y, 2>>
    BY <1>1, <1>2, <1>3, <2>1, FirstTwo
  <2>3. Stream[1] = <<Stream[1][1], Stream[1][2], Stream[1][3]>> /\ y \in 0 .. n
    BY <1>1, <1>2, <1>3, <2>1, PieceParts
  <2> QED
    BY <2>1, <2>2, <2>3
<1>5. ParseRequestLine(b) <=>
        IF end = 0 THEN Left(b) /\ UNCHANGED <<parser, closed, replies>>
        ELSE \E is \in LineIs(line) :
               \/ /\ is = "request"
                  /\ ParseHeadersLine(Kind(Last(line)), Last(line)[1], rest)
               \/ is = "passed"  /\ Left(rest) /\ UNCHANGED <<parser, closed, replies>>
               \/ is = "error"   /\ Left(rest) /\ method' = "NONE" /\ closed' = TRUE
                                 /\ UNCHANGED <<state, request, cseq, auth, transport, replies>>
  BY DEF ParseRequestLine
<1>6. 1 \notin Crlfs(b) /\ (Len(b) >= 2 => 2 \in Crlfs(b)) /\ Crlfs(b) \subseteq 1 .. Len(b)
  <2>1. b[1] = <<k, y, 1>>
    BY <1>1, <1>4
  <2>2. 1 \notin Crlfs(b)
    BY <2>1 DEF Crlfs, IsCrlf
  <2>3. ASSUME Len(b) >= 2 PROVE 2 \in Crlfs(b)
    <3>1. 2 \in 1 .. Len(b) /\ b[2] = <<k, y, 2>>
      <4>1. 2 \in 1 .. Len(b)
        BY <1>1, <2>3
      <4> QED
        BY <1>1, <1>4, <4>1
    <3> QED
      BY <1>1, <1>2, <3>1 DEF Crlfs, IsCrlf
  <2> QED
    BY <1>1, <2>2, <2>3 DEF Crlfs
<1>7. MaxPieces \in Nat /\ 1 <= MaxPieces
  BY PiecesAssumption
<1>8. CASE Len(b) = 1
  <2>1. Crlfs(b) = {}
    BY <1>6, <1>8
  <2>2. Left(b) /\ UNCHANGED <<parser, closed, replies>>
    BY <1>5, <2>1 DEF FindFirstCrlf
  <2>3. buffer' = b
    BY <1>7, <1>8, <2>2, LeftProperties
  <2>4. Idles(0, k) /\ ~closed'
    BY <1>3, <2>2 DEF Idles, parser
  <2>5. /\ buffer' \o wire' = Stream /\ Suffix(Stream, Stream, 0) /\ Len(buffer') <= 1
        /\ \A i \in 1 .. 0 : Stream[i][1] = k
    <3>1. Suffix(Stream, Stream, 0)
      BY <1>1, SuffixOfItself
    <3>2. buffer' \o wire' = b \o w
      BY <2>3
    <3>3. Len(buffer') <= 1
      BY <1>8, <2>3
    <3>4. \A i \in 1 .. 0 : Stream[i][1] = k
      OBVIOUS
    <3> QED
      BY <3>1, <3>2, <3>3, <3>4
  <2> QED
    BY <1>1, <2>4, <2>5, CalmRead
<1>9. CASE Len(b) >= 2
  <2>1. end = 2
    <3>1. Crlfs(b) # {} /\ Crlfs(b) \subseteq Nat
      BY <1>1, <1>6, <1>9
    <3>2. Min(Crlfs(b)) \in Crlfs(b) /\ Min(Crlfs(b)) <= 2
      BY <1>6, <1>9, <3>1, LeastPlace
    <3>3. Min(Crlfs(b)) # 1 /\ Min(Crlfs(b)) \in 1 .. Len(b)
      BY <1>6, <3>2
    <3> QED
      BY <1>1, <3>1, <3>2, <3>3 DEF FindFirstCrlf
  <2>2. 2 \in 1 .. Len(b) /\ 2 \in 0 .. Len(b)
    BY <1>1, <1>9
  <2>3. Len(line) = 2 /\ line[1] = <<k, y, 1>> /\ line[2] = <<k, y, 2>> /\ Last(line) = <<k, y, 2>>
    <3>1. /\ SubSeq(b, 1, 2) \in Seq(Triples) /\ Len(SubSeq(b, 1, 2)) = 2
          /\ \A i \in 1 .. 2 : SubSeq(b, 1, 2)[i] = b[i]
      BY <2>2, ChunkProperties
    <3>2. line = SubSeq(b, 1, 2)
      BY <2>1
    <3>x. 1 \in 1 .. 2 /\ 2 \in 1 .. 2
      OBVIOUS
    <3>y. SubSeq(b, 1, 2)[1] = b[1] /\ SubSeq(b, 1, 2)[2] = b[2] /\ Len(SubSeq(b, 1, 2)) = 2
      BY ONLY <3>1, <3>x
    <3>3. line[1] = b[1] /\ line[2] = b[2] /\ Len(line) = 2
      BY <3>2, <3>y, Zenon
    <3>4. b[1] = Stream[1] /\ b[2] = Stream[2]
      BY <1>1, <2>2
    <3> QED
      BY <1>4, <3>3, <3>4 DEF Last
  <2>4. /\ rest \in Seq(Triples) /\ Len(rest) = Len(b) - 2 /\ rest \o w \in Seq(Triples)
        /\ Suffix(rest \o w, Stream, 2)
    BY <2>1, <2>2, CutProperties
  <2>5. Stream[2][3] = 2 /\ \A i \in 1 .. 2 : Stream[i][1] = k
    BY <1>4
  <2>6. LineIs(line) = LET p == <<k, y, 2>>
                       IN IF y = 0 THEN {IF Kind(p) \in Methods THEN "request" ELSE "error"}
                          ELSE {IF Kind(p) \in {"Authorization", "UserAgent"} THEN "error" ELSE "passed"}
    <3> DEFINE p == <<k, y, 2>>
    <3>1. p[1] = k /\ p[2] = y /\ Last(line) = p /\ line[1] = <<p[1], p[2], 1>> /\ Len(line) = 2
      BY <2>3
    <3> HIDE DEF p, y, line
    <3>2. LineIs(line) = IF p[2] = 0 THEN {IF Kind(p) \in Methods THEN "request" ELSE "error"}
                         ELSE {IF Kind(p) \in {"Authorization", "UserAgent"} THEN "error" ELSE "passed"}
      BY <3>1 DEF LineIs
    <3> QED
      BY <3>1, <3>2 DEF p
  <2> HIDE DEF end, line, rest, n, y
  <2>7. CASE Answered(k)
    <3>1. y = n
      <4>1. Answered(Stream[1][1]) => Stream[1][2] = Len(sent[Stream[1][1]].lines)
        BY <1>1 DEF Calm
      <4>2. Stream[1][1] = k
        BY <1>4
      <4> QED
        BY <2>7, <4>1, <4>2 DEF n, y
    <3>2. Kind(<<k, y, 2>>) = "Blank"
      <4>1. y # 0 /\ sent[k].lines[y] = "Blank"
        BY <1>2, <3>1
      <4> QED
        BY <4>1 DEF Kind
    <3>3. LineIs(line) = {"passed"}
      <4>1. y # 0
        BY <1>2, <3>1
      <4> DEFINE q == Kind(<<k, y, 2>>)
      <4>2. q = "Blank"
        BY <3>2
      <4>3. LineIs(line) = IF y = 0 THEN {IF q \in Methods THEN "request" ELSE "error"}
                           ELSE {IF q \in {"Authorization", "UserAgent"} THEN "error" ELSE "passed"}
        BY <2>6
      <4> HIDE DEF q
      <4> QED
        BY <4>1, <4>2, <4>3
    <3>4. Left(rest) /\ UNCHANGED <<parser, closed, replies>>
      BY <1>5, <2>1, <3>3
    <3>5. Len(b) = 2
      <4>1. SUFFICES ASSUME 3 \in 1 .. Len(b) PROVE FALSE
        BY <1>1, <1>9
      <4>2. 3 \in 1 .. Len(Stream) /\ 2 \in 1 .. Len(Stream) /\ Stream[3][1] = k
        BY <1>1, <2>2, <4>1
      <4>3. y < Stream[3][2] /\ Stream[3][2] <= n /\ Stream[3][2] \in Nat
        <5>1. y \in Nat /\ 2 < 3 /\ Stream[2] = <<k, y, 2>>
          BY <1>2, <1>4
        <5> QED
          BY <1>1, <1>2, <1>3, <4>2, <5>1, BehindLine DEF n
      <4> QED
        BY <1>2, <3>1, <4>3
    <3>6. buffer' = rest /\ Len(buffer') <= 1
      <4>1. Len(rest) = 0
        BY <2>4, <3>5
      <4>2. Len(rest) <= MaxPieces
        BY <1>7, <4>1
      <4>3. Left(rest) /\ rest \in Seq(Triples)
        BY <2>4, <3>4
      <4>4. buffer' = rest
        BY <4>2, <4>3, LeftProperties
      <4> QED
        BY <4>1, <4>4
    <3>7. buffer' \o wire' = rest \o w
      BY <3>6
    <3>8. Idles(2, k) /\ ~closed'
      BY <1>3, <2>7, <3>4 DEF Idles, parser
    <3> QED
      BY <2>4, <2>5, <3>6, <3>7, <3>8, CalmRead
  <2>8. CASE AllLeft(Stream, k)
    <3>1. y = 0
      <4>1. 0 \in 0 .. Len(sent[k].lines) /\ 1 \in 1 .. 2
        BY <1>2 DEF n
      <4>2. PICK j \in 1 .. Len(Stream) : Stream[j] = <<k, 0, 1>>
        BY <2>8, <4>1 DEF AllLeft, Holds
      <4> DEFINE p == <<k, y, 1>>
                 q == <<k, 0, 1>>
      <4>3. Stream[1] = p /\ Stream[j] = q /\ p[1] = k /\ p[2] = y /\ q[1] = k /\ q[2] = 0
        BY <1>4, <4>2
      <4>4. j = 1 \/ Before(p, q)
        <5>1. j = 1 \/ 1 < j
          BY <1>1
        <5> QED
          BY <1>1, <1>3, <4>3, <5>1 DEF Ordered
      <4>5. CASE j = 1
        BY <4>3, <4>5
      <4>6. CASE Before(p, q)
        <5> HIDE DEF p, q
        <5> QED
          BY <1>2, <1>4, <4>3, <4>6 DEF Before
      <4> QED
        BY <4>4, <4>5, <4>6
    <3>2. Kind(<<k, y, 2>>) = sent[k].method /\ sent[k].method \in Methods
      BY <3>1 DEF Kind, AtRequest
    <3>3. LineIs(line) = {"request"}
      BY <2>6, <3>1, <3>2
    <3>4. ParseHeadersLine(sent[k].method, k, rest)
      <4>1. Kind(Last(line)) = sent[k].method
        BY <2>3, <3>2
      <4>2. Last(line)[1] = k
        BY <2>3
      <4>3. ParseHeadersLine(Kind(Last(line)), Last(line)[1], rest)
        BY <1>5, <2>1, <3>3
      <4> QED
        BY <4>1, <4>2, <4>3
    <3>5. Past(rest \o w, k) /\ Whole(rest \o w, k)
      <4>1. Stream[1] = <<k, 0, 1>> /\ Stream[2] = <<k, 0, 2>>
        BY <1>4, <3>1
      <4> QED
        BY <1>2, <1>4, <2>4, <4>1, LineTaken
    <3>6. cseq = 0
      BY DEF HeadersInv
    <3>7. \A i \in 1 .. Len(rest) : rest[i][1] = k /\ rest[i] = b[i + 2]
      <4>1. \A i \in 1 .. Len(rest) : i + 2 \in 1 .. Len(b) /\ i + 2 \in 1 .. Len(Stream)
        BY <1>1, <2>4
      <4>2. \A i \in 1 .. Len(rest) : rest[i] = (rest \o w)[i] /\ i \in 1 .. Len(rest \o w)
        <5>1. Len(rest) \in 0 .. Len(rest)
          BY <2>4, LenProperties
        <5>2. /\ Len(rest \o w) \in Nat /\ Len(rest) <= Len(rest \o w)
              /\ \A i \in 1 .. Len(rest) : rest[i] = (rest \o w)[i]
          BY <2>4, <5>1, ChunkProperties
        <5> QED
          BY <5>1, <5>2
      <4>3. \A i \in 1 .. Len(rest) : (rest \o w)[i] = Stream[i + 2]
        BY <2>4, <4>2 DEF Suffix
      <4> QED
        BY <1>1, <4>1, <4>2, <4>3
    <3>8. CASE Robust(sent[k])
      <4>1. n # 1
        BY <1>2, <3>8 DEF Robust, n
      <4>2. n - 1 \in 1 .. Len(sent[k].lines)
        <5>1. n - 1 \in 1 .. n
          BY <1>2, <4>1
        <5> QED
          BY <5>1 DEF n
      <4>3. \A h \in 1 .. 2 : Holds(rest \o w, <<k, Len(sent[k].lines) - 1, h>>)
        BY <3>5, <4>2 DEF Whole, Holds, n
      <4> QED
        BY <2>4, <2>5, <3>4, <3>5, <3>6, <3>7, <3>8, <4>3, HeadersCalm
    <3>9. CASE b[Len(b)] = <<k, n, 2>>
      <4>1. Len(b) # 2
        <5>1. SUFFICES ASSUME Len(b) = 2 PROVE FALSE
          OBVIOUS
        <5>2. <<k, n, 2>> = <<k, y, 2>>
          BY <1>1, <1>4, <3>9, <5>1
        <5> QED
          BY <1>2, <3>1, <5>2
      <4>2. Len(rest) \in 1 .. Len(rest) /\ Len(rest) + 2 = Len(b) /\ Len(rest) >= 1
        BY <1>1, <1>9, <2>4, <4>1
      <4>3. rest[Len(rest)] = <<k, n, 2>>
        BY <3>7, <3>9, <4>2
      <4>4. AllInHand(k, rest \o w, rest)
        BY <3>5, <4>2, <4>3 DEF AllInHand, n
      <4> QED
        BY <2>4, <2>5, <3>4, <3>5, <3>6, <3>7, <4>4, HeadersCalm
    <3> QED
      BY <3>8, <3>9 DEF n
  <2>9. Answered(k) \/ AllLeft(Stream, k)
    BY <1>2 DEF Calm
  <2> QED
    BY <2>7, <2>8, <2>9
<1> QED
  BY <1>1, <1>8, <1>9

\* No read that calm is asked of takes what the parser loses.
LEMMA ReadCalm ==
  ASSUME RequestInv, CalmInv, CSeqs, WellFormed, NEW n \in 1 .. Len(wire), OnRead(n)
  PROVE  CalmInv'
<1> USE DEF RequestInv
<1> DEFINE b == buffer \o SubSeq(wire, 1, n)
           w == RetrieveUntil(wire, n)
           k == b[1][1]
<1>1. b \in Seq(Triples) /\ w \in Seq(Triples) /\ Len(b) >= 1 /\ b \o w = Stream
  BY SplitRead
<1>2. /\ wire' = w /\ sent' = sent
      /\ mixed' = (mixed \/ \E p, q \in ToSet(b) : p[1] # q[1])
      /\ torn' = (torn \/ Tears(b))
      /\ \/ /\ IsRtcp(k) /\ b[1][3] = 0
            /\ method' = "RTCP" /\ Left(HandleRtcp(b))
            /\ UNCHANGED <<state, request, cseq, auth, transport, closed, replies>>
         \/ /\ ~(IsRtcp(k) /\ b[1][3] = 0)
            /\ IF state = "line" THEN ParseRequestLine(b) ELSE ParseHeadersLine(method, request, b)
  BY DEF OnRead
<1> HIDE DEF b, w, k
<1>3. SUFFICES ASSUME ~mixed', ~torn' PROVE Calm'
  BY DEF CalmInv
<1>4. ~mixed /\ ~torn /\ ~Tears(b) /\ \A p, q \in ToSet(b) : p[1] = q[1]
  BY <1>2, <1>3, Zenon
<1>5. Calm
  BY <1>4 DEF CalmInv
<1>6. /\ Len(b) \in Nat /\ Len(b) <= Len(Stream) /\ Stream \in Seq(Triples) /\ Len(Stream) \in Nat
      /\ \A i \in 1 .. Len(b) : b[i] = Stream[i]
      /\ 1 \in 1 .. Len(b) /\ Len(b) \in 1 .. Len(b) /\ DOMAIN b = 1 .. Len(b)
      /\ Len(Stream) >= 1 /\ 1 \in 1 .. Len(Stream)
  <2>1. Len(b) \in Nat /\ Len(b) \in 0 .. Len(b) /\ DOMAIN b = 1 .. Len(b)
    BY <1>1, LenProperties
  <2>2. Stream \in Seq(Triples)
    BY <1>1, ConcatProperties
  <2>3. Len(Stream) \in Nat /\ Len(b) <= Len(Stream) /\ \A i \in 1 .. Len(b) : b[i] = Stream[i]
    BY <1>1, <2>1, <2>2, ChunkProperties, LenProperties
  <2> QED
    BY <1>1, <2>1, <2>2, <2>3
<1>7. \A i \in 1 .. Len(b) : b[i][1] = k
  BY <1>4, <1>6 DEF ToSet, k
<1>8. Ordered(Stream) /\ Paired(Stream) /\ ~closed
  BY <1>5 DEF StreamInv, Calm
<1>9. k \in 1 .. Len(sent) /\ (IsRtcp(k) => b[1][3] = 0)
  <2>1. Stream[1][1] = k /\ b[1][3] = Stream[1][3]
    BY <1>6, <1>7
  <2>2. k \in 1 .. Len(sent)
    BY <1>6, <1>8, <2>1, PieceParts
  <2>3. IsRtcp(k) => b[1][3] = 0
    BY <1>6, <1>8, <2>1, FirstTwo
  <2> QED
    BY <2>2, <2>3
<1>10. CASE IsRtcp(k)
  <2>1. /\ Left(HandleRtcp(b))
        /\ UNCHANGED <<state, request, cseq, auth, transport, closed, replies>>
    BY <1>2, <1>9, <1>10
  <2> QED
    BY <1>1, <1>2, <1>4, <1>5, <1>7, <1>10, <2>1, PacketCalm
<1>11. CASE ~IsRtcp(k)
  <2>1. IF state = "line" THEN ParseRequestLine(b) ELSE ParseHeadersLine(method, request, b)
    BY <1>2, <1>11
  <2>2. Last(b) = b[Len(b)] /\ b[Len(b)][1] = k
    BY <1>6, <1>7 DEF Last
  <2>3. Answerable(sent[k]) /\ (Robust(sent[k]) \/ b[Len(b)] = Last(Pieces(k, sent[k])))
    BY <1>4, <1>11, <2>2 DEF Tears
  <2>4. AtRequest(k)
    BY <1>9, <2>3 DEF Answerable, AtRequest
  <2>5. Last(Pieces(k, sent[k])) = <<k, Len(sent[k].lines), 2>>
    <3>1. sent[k] \in Messages /\ k \in Nat
      BY <1>9, ElementOfSeq DEF RequestTypeInv
    <3> QED
      BY <1>11, <3>1, LastPiece DEF IsRtcp
  <2>6. CASE state = "line"
    BY <1>1, <1>2, <1>5, <1>7, <2>1, <2>3, <2>4, <2>5, <2>6, LineCalm
  <2>7. CASE state = "headers"
    <3>1. request = k
      BY <1>5, <1>6, <1>7, <2>7, HeadersFirst
    <3>2. Begun(Stream, k)
      BY <1>5, <2>7, <3>1 DEF Calm
    <3>3. ParseHeadersLine(sent[k].method, k, b)
      BY <2>1, <2>7, <3>1, <3>2 DEF Begun
    <3>4. Past(Stream, k) /\ (cseq = k \/ (cseq = 0 /\ Whole(Stream, k)))
      BY <1>8, <2>7, <3>1 DEF HeadersInv
    <3>5. /\ Robust(sent[k])
          /\ \A h \in 1 .. 2 : Holds(Stream, <<k, Len(sent[k].lines) - 1, h>>)
      BY <3>2 DEF Begun
    <3>6. Suffix(b \o w, Stream, 0) /\ 0 \in Nat
      <4>1. Suffix(Stream, Stream, 0)
        BY <1>6, SuffixOfItself
      <4> QED
        BY <1>1, <4>1
    <3>7. \A i \in 1 .. 0 : Stream[i][1] = k
      OBVIOUS
    <3>8. /\ Past(b \o w, k) /\ (cseq = k \/ (cseq = 0 /\ Whole(b \o w, k)))
          /\ \A h \in 1 .. 2 : Holds(b \o w, <<k, Len(sent[k].lines) - 1, h>>)
      BY <1>1, <3>4, <3>5
    <3> QED
      BY <1>1, <1>2, <1>5, <1>7, <2>3, <2>4, <3>1, <3>3, <3>5, <3>6, <3>7, <3>8, HeadersCalm
  <2> QED
    BY <2>6, <2>7 DEF RequestTypeInv
<1> QED
  BY <1>10, <1>11

\* A message that is sent is whole, and nothing of it has been answered.
LEMMA SendCalm ==
  ASSUME RequestInv, Calm, NEW m \in Messages, ClientSend(m)
  PROVE  Calm'
<1> USE DEF RequestInv
<1> DEFINE K == Len(sent) + 1
           P == Pieces(K, m)
           n == Len(Stream)
<1>1. /\ Len(sent) \in Nat /\ K \in Nat /\ Len(sent') = K /\ sent'[K] = m
      /\ \A k \in 1 .. Len(sent) : sent'[k] = sent[k] /\ k \in 1 .. Len(sent')
  BY StreamSent
<1>2. UNCHANGED <<buffer, state, method, request, cseq, auth, transport, closed, replies>>
  BY DEF ClientSend, parser
<1>3. PICK u : Extended(u, m)
  BY StreamSent
<1>4. /\ Stream' = u /\ u \in Seq(Triples)
      /\ \A i \in 1 .. Len(u) : \/ i \in 1 .. n /\ u[i] = Stream[i]
                                \/ i - n \in 1 .. Len(P) /\ u[i] = P[i - n]
      /\ \A i \in 1 .. n : i \in 1 .. Len(u) /\ u[i] = Stream[i]
      /\ \A i \in 1 .. Len(P) : n + i \in 1 .. Len(u) /\ u[n + i] = P[i]
  BY <1>3 DEF Extended, Stream
<1>5. /\ \A i \in 1 .. Len(P) : /\ P[i][1] = K
                                /\ IF m.method = "RTCP" THEN P[i][2] = 0 /\ P[i][3] \in 0 .. 2
                                   ELSE P[i][2] \in 0 .. Len(m.lines) /\ P[i][3] \in 1 .. 2
      /\ m.method # "RTCP" => \A l \in 0 .. Len(m.lines), h \in 1 .. 2 :
                                \E i \in 1 .. Len(P) : P[i] = <<K, l, h>>
      /\ m.method = "RTCP" => \A h \in 0 .. 2 : \E i \in 1 .. Len(P) : P[i] = <<K, 0, h>>
  <2>1. K \in Nat
    BY <1>1
  <2> HIDE DEF K
  <2>2. m.method # "RTCP" => \A l \in 0 .. Len(m.lines), h \in 1 .. 2 :
                              \E i \in 1 .. Len(P) : P[i] = <<K, l, h>>
    BY <2>1, PiecesProperties
  <2>3. m.method = "RTCP" => \A h \in 0 .. 2 : \E i \in 1 .. Len(P) : P[i] = <<K, 0, h>>
    BY <2>1, PiecesProperties
  <2>4. \A i \in 1 .. Len(P) : /\ P[i][1] = K
                              /\ IF m.method = "RTCP" THEN P[i][2] = 0 /\ P[i][3] \in 0 .. 2
                                 ELSE P[i][2] \in 0 .. Len(m.lines) /\ P[i][3] \in 1 .. 2
    BY <2>1, PiecesProperties
  <2> QED
    BY <2>2, <2>3, <2>4
<1>6. /\ Stream \in Seq(Triples) /\ n \in Nat /\ replies \in Seq(Replies) /\ Len(replies) \in Nat
      /\ \A i \in 1 .. n : Stream[i][1] \in 1 .. Len(sent)
  <2>1. Stream \in Seq(Triples)
    BY ConcatProperties DEF Stream, RequestTypeInv
  <2>2. \A i \in 1 .. n : Stream[i][1] \in 1 .. Len(sent)
    BY DEF StreamInv, Ordered, IsPiece
  <2> QED
    BY <2>1, <2>2, LenProperties DEF RequestTypeInv
<1> HIDE DEF K, P, n
<1>7. \A p : Holds(Stream, p) => Holds(u, p)
  BY <1>4 DEF Holds, n
<1>8. \A i \in 1 .. Len(P) : Holds(u, P[i])
  BY <1>4 DEF Holds
<1>9. \A k \in 1 .. Len(sent) : /\ (IsRtcp(k)' <=> IsRtcp(k)) /\ (AtRequest(k)' <=> AtRequest(k))
                               /\ Halves(k)' = Halves(k) /\ k # K
  <2>1. ASSUME NEW k \in 1 .. Len(sent) PROVE IsRtcp(k)' <=> IsRtcp(k)
    <3>1. sent'[k] = sent[k]
      BY <1>1
    <3> QED
      BY <3>1 DEF IsRtcp
  <2>2. ASSUME NEW k \in 1 .. Len(sent) PROVE AtRequest(k)' <=> AtRequest(k)
    BY <1>1 DEF AtRequest
  <2>3. ASSUME NEW k \in 1 .. Len(sent) PROVE Halves(k)' = Halves(k)
    BY <2>1 DEF Halves
  <2>4. ASSUME NEW k \in 1 .. Len(sent) PROVE k # K
    BY <1>1 DEF K
  <2> QED
    BY <2>1, <2>2, <2>3, <2>4
<1>10. \A i \in 1 .. Len(replies) : replies[i].request \in 1 .. Len(sent)
  BY DEF ReplyInv, AtRequest
<1>11. /\ \A k : Answered(k)' <=> Answered(k)
       /\ ~Answered(K)
  BY <1>2, <1>9, <1>10 DEF Answered
<1>12. Paired(Stream)'
  <2>1. SUFFICES ASSUME NEW i \in 1 .. Len(u), NEW h \in Halves(u[i][1])'
                 PROVE  Holds(u, <<u[i][1], u[i][2], h>>)
    BY <1>4 DEF Paired, Holds
  <2>2. CASE i \in 1 .. n /\ u[i] = Stream[i]
    <3>1. h \in Halves(u[i][1])
      BY <1>6, <1>9, <2>1, <2>2
    <3> QED
      BY <1>7, <2>2, <3>1 DEF Calm, Paired, n
  <2>3. CASE i - n \in 1 .. Len(P) /\ u[i] = P[i - n]
    <3>1. /\ u[i][1] = K
          /\ IF m.method = "RTCP" THEN u[i][2] = 0 ELSE u[i][2] \in 0 .. Len(m.lines)
      BY <1>5, <2>3
    <3>2. IF m.method = "RTCP" THEN h \in 0 .. 2 ELSE h \in 1 .. 2
      <4>1. sent'[u[i][1]] = m
        BY <1>1, <3>1
      <4> QED
        BY <2>1, <4>1 DEF Halves, IsRtcp
    <3>3. \E j \in 1 .. Len(P) : P[j] = <<K, u[i][2], h>>
      BY <1>5, <3>1, <3>2
    <3> QED
      BY <1>8, <3>1, <3>3
  <2> QED
    BY <1>4, <2>2, <2>3
<1>13. \A i \in 1 .. Len(replies) : Fits(replies[i])'
  <2>1. SUFFICES ASSUME NEW i \in 1 .. Len(replies) PROVE Fits(replies[i])'
    OBVIOUS
  <2>2. PICK r : r = replies[i]
    OBVIOUS
  <2>3. Fits(r) /\ sent'[r.request] = sent[r.request]
    BY <1>1, <1>10, <2>2 DEF Calm
  <2>4. replies'[i] = r
    BY <1>2, <2>2
  <2> QED
    BY <2>3, <2>4 DEF Fits
<1>14. (state = "headers" => Begun(Stream, request))'
  <2>1. SUFFICES ASSUME state = "headers" PROVE Begun(Stream, request)'
    BY <1>2
  <2>2. PICK k : k = request
    OBVIOUS
  <2>3. Begun(Stream, k)
    BY <2>1, <2>2 DEF Calm
  <2>4. k \in 1 .. Len(sent) /\ sent'[k] = sent[k] /\ AtRequest(k)'
    BY <1>1, <1>9, <2>3 DEF Begun, AtRequest
  <2>5. \A h \in 1 .. 2 : Holds(u, <<k, Len(sent'[k].lines) - 1, h>>)
    BY <1>7, <2>3, <2>4 DEF Begun
  <2>6. Begun(u, k)'
    BY <1>2, <2>3, <2>4, <2>5 DEF Begun
  <2> QED
    BY <1>2, <1>4, <2>2, <2>6 DEF Begun, AtRequest, Holds
<1>15. (\A k \in 1 .. Len(sent) : ~IsRtcp(k) =>
          Answered(k) \/ AllLeft(Stream, k) \/ (state = "headers" /\ k = request))'
  <2>1. SUFFICES ASSUME NEW k \in 1 .. Len(sent'), ~IsRtcp(k)'
                 PROVE  Answered(k) \/ AllLeft(u, k)' \/ (state = "headers" /\ k = request)
    BY <1>2, <1>4, <1>11 DEF AllLeft, Holds
  <2>2. CASE k \in 1 .. Len(sent)
    <3>1. Answered(k) \/ AllLeft(Stream, k) \/ (state = "headers" /\ k = request)
      BY <1>9, <2>1, <2>2 DEF Calm
    <3>2. AllLeft(Stream, k) => AllLeft(u, k)'
      BY <1>1, <1>7, <2>2 DEF AllLeft
    <3> QED
      BY <3>1, <3>2
  <2>3. CASE k = K
    <3>1. \A l \in 0 .. Len(m.lines), h \in 1 .. 2 : Holds(u, <<K, l, h>>)
      <4>1. m.method # "RTCP"
        BY <1>1, <2>1, <2>3 DEF IsRtcp
      <4>2. ASSUME NEW l \in 0 .. Len(m.lines), NEW h \in 1 .. 2 PROVE Holds(u, <<K, l, h>>)
        BY <1>5, <1>8, <4>1
      <4> QED
        BY <4>2
    <3> QED
      BY <1>1, <2>3, <3>1 DEF AllLeft
  <2> QED
    BY <1>1, <2>2, <2>3 DEF K
<1>16. (\A i \in 1 .. Len(Stream) :
          Answered(Stream[i][1]) => Stream[i][2] = Len(sent[Stream[i][1]].lines))'
  <2>1. SUFFICES ASSUME NEW i \in 1 .. Len(u), Answered(u[i][1])
                 PROVE  u[i][2] = Len(sent'[u[i][1]].lines)
    BY <1>4, <1>11
  <2>2. CASE i \in 1 .. n /\ u[i] = Stream[i]
    <3>1. u[i][2] = Len(sent[u[i][1]].lines)
      BY <2>1, <2>2 DEF Calm, n
    <3> QED
      BY <1>1, <1>6, <2>2, <3>1
  <2>3. CASE i - n \in 1 .. Len(P) /\ u[i] = P[i - n]
    BY <1>5, <1>11, <2>1, <2>3
  <2> QED
    BY <1>4, <2>2, <2>3
<1>17. ~closed' /\ Len(buffer') <= 1
  BY <1>2 DEF Calm
<1> QED
  BY <1>2, <1>12, <1>13, <1>14, <1>15, <1>16, <1>17 DEF Calm

LEMMA CalmStep ==
  ASSUME RequestInv, CalmInv, CSeqs, WellFormed, [RequestNext]_requestVars
  PROVE  CalmInv'
<1>1. ASSUME NEW m \in Messages, ClientSend(m) PROVE CalmInv'
  <2>1. UNCHANGED <<mixed, torn>>
    BY <1>1 DEF ClientSend, history
  <2>2. Calm => Calm'
    BY <1>1, SendCalm
  <2> QED
    BY <2>1, <2>2 DEF CalmInv
<1>2. ASSUME NEW n \in 1 .. Len(wire), OnRead(n) PROVE CalmInv'
  BY <1>2, ReadCalm
<1>3. ASSUME UNCHANGED requestVars PROVE CalmInv'
  <2>1. UNCHANGED <<sent, wire, buffer, state, method, request, cseq, auth, transport, closed, replies,
                    mixed, torn>>
    BY <1>3 DEF requestVars, parser, history
  <2>2. Calm' <=> Calm
    BY <2>1 DEF Calm, Paired, Holds, Halves, IsRtcp, Fits, Begun, AtRequest, AllLeft, Answered, Stream
  <2> QED
    BY <2>1, <2>2 DEF CalmInv
<1> QED
  BY <1>1, <1>2, <1>3 DEF RequestNext

LEMMA CalmAtFirst ==
  ASSUME RequestInit
  PROVE  CalmInv
<1>1. Stream = <<>> /\ Len(Stream) = 0 /\ Len(replies) = 0 /\ Len(sent) = 0 /\ Len(buffer) = 0
  BY DEF RequestInit, Stream
<1>2. Paired(Stream)
  BY <1>1 DEF Paired
<1> QED
  BY <1>1, <1>2 DEF RequestInit, CalmInv, Calm

LEMMA AlwaysCalm ==
  ASSUME CSeqs, WellFormed
  PROVE  RequestSpec => [](RequestInv /\ CalmInv)
<1>1. RequestInit => RequestInv /\ CalmInv
  BY RequestInitialState, CalmAtFirst
<1>2. RequestInv /\ CalmInv /\ [RequestNext]_requestVars => (RequestInv /\ CalmInv)'
  BY RequestStep, CalmStep
<1> QED
  BY <1>1, <1>2, PTL DEF RequestSpec

\* When all that the client sent has been read, no request is left, not even in part.
LEMMA NoneLeft ==
  ASSUME RequestInv, Calm, wire = <<>>
  PROVE  state # "headers" /\ \A k \in 1 .. Len(sent) : ~AllLeft(Stream, k) \/ IsRtcp(k)
<1> USE DEF RequestInv
<1>1. buffer \in Seq(Triples) /\ Stream = buffer /\ Len(Stream) \in Nat /\ Len(Stream) <= 1
  <2>1. buffer \in Seq(Triples)
    BY DEF RequestTypeInv
  <2>2. buffer \o <<>> = buffer
    BY <2>1
  <2> QED
    BY <2>1, <2>2, LenProperties DEF Stream, Calm
<1>2. ASSUME NEW k, NEW l, Holds(Stream, <<k, l, 1>>), Holds(Stream, <<k, l, 2>>) PROVE FALSE
  <2>1. PICK i \in 1 .. Len(Stream) : Stream[i] = <<k, l, 1>>
    BY <1>2 DEF Holds
  <2>2. PICK j \in 1 .. Len(Stream) : Stream[j] = <<k, l, 2>>
    BY <1>2 DEF Holds
  <2>3. i = j
    BY <1>1
  <2> QED
    BY <2>1, <2>2, <2>3
<1>3. state # "headers"
  BY <1>2 DEF Calm, Begun
<1>4. ASSUME NEW k \in 1 .. Len(sent), AllLeft(Stream, k), ~IsRtcp(k) PROVE FALSE
  <2>1. 0 \in 0 .. Len(sent[k].lines)
    <3>1. sent[k] \in Messages
      BY ElementOfSeq DEF RequestTypeInv
    <3>2. Len(sent[k].lines) \in Nat
      BY <1>4, <3>1, MessagesAssumption, LenProperties DEF IsMessage, IsRtcp
    <3> QED
      BY <3>2
  <2>2. Holds(Stream, <<k, 0, 1>>) /\ Holds(Stream, <<k, 0, 2>>)
    BY <1>4, <2>1 DEF AllLeft
  <2> QED
    BY <1>2, <2>2
<1> QED
  BY <1>3, <1>4

\* As long as no read finds two messages, and none ends where the parser loses something,
\* every request that was sent and read is answered, once, in order, with its own
\* authorization and transport, and the connection stays.
THEOREM EveryRequestAnswered ==
  ASSUME CSeqs, WellFormed
  PROVE  RequestSpec => []AnsweredUnlessTorn
<1>1. RequestInv /\ CalmInv => AnsweredUnlessTorn
  <2>1. SUFFICES ASSUME RequestInv, CalmInv, ~mixed, ~torn, wire = <<>>
                 PROVE  /\ ~closed
                        /\ {replies[i].request : i \in DOMAIN replies} =
                             {k \in DOMAIN sent : ~IsRtcp(k)}
                        /\ \A i, j \in DOMAIN replies :
                             i < j => replies[i].request < replies[j].request
                        /\ \A i \in DOMAIN replies : Fits(replies[i])
    BY DEF AnsweredUnlessTorn, Fits
  <2>2. Calm
    BY <2>1 DEF CalmInv
  <2>3. /\ DOMAIN replies = 1 .. Len(replies) /\ DOMAIN sent = 1 .. Len(sent)
        /\ Len(replies) \in Nat /\ Len(sent) \in Nat
    BY <2>1, LenProperties DEF RequestInv, RequestTypeInv
  <2>4. ASSUME NEW k \in 1 .. Len(sent), ~IsRtcp(k) PROVE Answered(k)
    BY <2>1, <2>2, <2>4, NoneLeft DEF Calm
  <2>5. ASSUME NEW i \in 1 .. Len(replies)
        PROVE  replies[i].request \in 1 .. Len(sent) /\ ~IsRtcp(replies[i].request)
    BY <2>1 DEF RequestInv, ReplyInv, AtRequest, IsRtcp, Methods
  <2>6. {replies[i].request : i \in DOMAIN replies} = {k \in DOMAIN sent : ~IsRtcp(k)}
    BY <2>3, <2>4, <2>5 DEF Answered
  <2>7. ASSUME NEW i \in 1 .. Len(replies), NEW j \in 1 .. Len(replies), i < j
        PROVE  replies[i].request < replies[j].request
    <3>1. i \in 1 .. j - 1
      BY <2>3, <2>7
    <3> QED
      BY <2>1, <3>1 DEF RequestInv, ReplyInv
  <2> QED
    BY <2>2, <2>3, <2>6, <2>7 DEF Calm
<1> QED
  BY <1>1, AlwaysCalm, PTL

=============================================================================
