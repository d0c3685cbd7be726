---------------------------- MODULE RtspRequest ----------------------------
(***************************************************************************)
(* The way of a client's bytes through a connection in RTSP_SERVER mode:   *)
(* BufferReader, RtspRequest and RtspConnection::OnRead, up to the reply   *)
(* that HandleRtspRequest sends.  TCP keeps the order of the bytes, not    *)
(* the borders of the messages: one read may end anywhere in a message     *)
(* and may hold several.                                                   *)
(*                                                                         *)
(* A request is a request line and header lines, each of two halves that   *)
(* may arrive apart.  An interleaved RTCP packet is its four byte header   *)
(* and two halves of its payload; no half of it holds a CRLF.              *)
(***************************************************************************)
EXTENDS Integers, Sequences, FiniteSets, FiniteSetsExt, SequencesExt

CONSTANTS
  Messages,     \* what a client may send: [method, lines, track] of a request,
                \* [method, length] of an RTCP packet
  MaxMessages,  \* bound: messages that the client sends
  MaxPieces     \* MAX_RTSP_MESSAGE_SIZE, in halves of lines

Methods == {"OPTIONS", "DESCRIBE", "SETUP", "PLAY", "TEARDOWN", "GET_PARAMETER"}

\* Header lines, by what the parser looks for in them.  TransportBad is RTP/AVP/TCP
\* without channels.  The blank line ends a request.
Lines == {"CSeq", "Accept", "Session", "Authorization", "UserAgent", "Blank",
          "TransportTcp", "TransportUdp", "TransportMulticast", "TransportBad"}

\* The lower byte of an RTCP packet's length, which is read as a signed char: not
\* negative; negative; so little below zero that adding 4 wraps around.
Lengths == {"plain", "negative", "wraps"}

IsMessage(m) ==
  \/ m.method = "RTCP" /\ m.length \in Lengths
  \/ m.method \in Methods \cup {"UNKNOWN"} /\ m.track \in BOOLEAN /\ m.lines \in Seq(Lines)

ASSUME MessagesAssumption == \A m \in Messages : IsMessage(m)
ASSUME PiecesAssumption == MaxMessages \in Nat /\ MaxPieces \in Nat \ {0}

VARIABLES
  sent,      \* the messages that the client has sent
  wire,      \* their pieces that are not read yet
  buffer,    \* the pieces from reader_index_ to writer_index_
  state,     \* state_: "line" or "headers" (kGotAll lasts only within a read)
  method,    \* method_
  request,   \* the message whose request line is behind request_line_param_
  cseq,      \* the message that header_line_param_["cseq"] came from, or 0
  auth,      \* auth_response_ is not empty
  transport, \* transport_, as the header line that it came from
  closed,    \* a read callback answered FALSE: the connection closes
  replies,   \* what HandleRtspRequest was called to answer
  mixed,     \* history: a read found pieces of two messages in the buffer
  torn       \* history: a read ended where the parser loses something

parser  == <<state, method, request, cseq, auth, transport>>
history == <<mixed, torn>>
requestVars == <<sent, wire, buffer, parser, closed, replies, history>>

-----------------------------------------------------------------------------
(***************************************************************************)
(* Pieces: <<message, line, half>>; the request line is line 0             *)
(***************************************************************************)

IsRtcp(k) == sent[k].method = "RTCP"

Pieces(k, m) ==
  IF m.method = "RTCP" THEN <<<<k, 0, 0>>, <<k, 0, 1>>, <<k, 0, 2>>>>
  ELSE [i \in 1 .. 2 * (Len(m.lines) + 1) |-> <<k, (i - 1) \div 2, 1 + ((i - 1) % 2)>>]

IsCrlf(p) == ~IsRtcp(p[1]) /\ p[3] = 2
Crlfs(b)  == {i \in DOMAIN b : IsCrlf(b[i])}

\* How many pieces there are up to it, or 0.
FindFirstCrlf(b) == IF Crlfs(b) = {} THEN 0 ELSE Min(Crlfs(b))
FindLastCrlf(b)  == Max(Crlfs(b) \cup {0})

RetrieveUntil(b, end) == SubSeq(b, end + 1, Len(b))

Kind(p) == IF p[2] = 0 THEN sent[p[1]].method ELSE sent[p[1]].lines[p[2]]

\* The ends of the header lines of those kinds that are whole in b, and the first.
Found(b, kinds) ==
  {i \in Crlfs(b) : b[i][2] > 0 /\ Kind(b[i]) \in kinds /\ <<b[i][1], b[i][2], 1>> \in ToSet(b)}

First(b, kinds) == b[Min(Found(b, kinds))]

-----------------------------------------------------------------------------
(***************************************************************************)
(* RtspRequest                                                             *)
(***************************************************************************)

\* What a line is to ParseRequestLine: a request, an error (three words or more, and
\* no method that is known), or passed over.  A line that has lost its beginning, or
\* begins with what is left of an RTCP packet, is one of the last two.
LineIs(line) ==
  LET p == Last(line)
  IN CASE Len(line) # 2 -> {"error", "passed"}
       [] Len(line) = 2 /\ line[1] # <<p[1], p[2], 1>> -> {"error", "passed"}
       [] OTHER -> IF p[2] = 0 THEN {IF Kind(p) \in Methods THEN "request" ELSE "error"}
                   ELSE {IF Kind(p) \in {"Authorization", "UserAgent"} THEN "error" ELSE "passed"}

\* ParseCSeq: emplace keeps a CSeq that is there.
ParseCSeq(chunk) ==
  IF cseq = 0 /\ Found(chunk, {"CSeq"}) # {} THEN First(chunk, {"CSeq"})[1] ELSE cseq

\* ParseTransport: RTP/AVP/TCP is looked for first, then unicast.
Transport(chunk) ==
  LET tcp == {"TransportTcp", "TransportBad"}
      Has(kinds) == Found(chunk, kinds) # {}
  IN CASE Has(tcp) -> Kind(First(chunk, tcp))
       [] ~Has(tcp) /\ Has({"TransportUdp"}) -> "TransportUdp"
       [] ~Has(tcp) /\ ~Has({"TransportUdp", "TransportMulticast"}) -> transport
       [] OTHER -> "TransportMulticast"

ParseTransport(chunk) ==
  LET all == Found(chunk, {"TransportTcp", "TransportBad", "TransportUdp", "TransportMulticast"})
  IN all # {} /\ Transport(chunk) # "TransportBad"

\* ParseMediaChannel: the track is in the url of the request line.
ParseMediaChannel(k) == sent[k].track

\* Whether what has come is enough.
GotAll(m, k, chunk) ==
  CASE m = "DESCRIBE" -> Found(chunk, {"Accept"}) # {}
    [] m = "SETUP"    -> ParseTransport(chunk) /\ ParseMediaChannel(k)
    [] m = "PLAY"     -> Found(chunk, {"Session"}) # {}
    [] OTHER          -> m \in {"OPTIONS", "TEARDOWN", "GET_PARAMETER"}

\* Mutant: the last authorization is kept.
ParseAuthorizationKept(m, chunk) == auth \/ Found(chunk, {"Authorization"}) # {}

ParseAuthorization(m, chunk) ==
  IF m \in {"DESCRIBE", "SETUP", "PLAY"} THEN Found(chunk, {"Authorization"}) # {} ELSE auth

\* Mutant: the header lines of a request that is answered stay.
ResetKeepsHeaders == state' = "line" /\ UNCHANGED cseq

Reset == state' = "line" /\ cseq' = 0

\* The handler replies to the CSeq that the parser has, and Reset follows.
HandleRtspRequest(m, k, seq) ==
  /\ replies' = Append(replies, [method |-> m, request |-> k, cseq |-> seq,
                                 auth |-> auth', transport |-> transport'])
  /\ Reset

\* RtspConnection::OnRead: too much for one message is thrown away.
Left(b) == buffer' = IF Len(b) > MaxPieces THEN <<>> ELSE b

\* ParseHeadersLine of all that has come up to the last CRLF, for the request line of
\* message k, and HandleRtspRequest when that is enough.
ParseHeadersLine(m, k, b) ==
  LET chunk == SubSeq(b, 1, FindLastCrlf(b))
  IN /\ method' = m /\ request' = k
     /\ Left(RetrieveUntil(b, FindLastCrlf(b)))
     /\ IF chunk = <<>> THEN state' = "headers" /\ UNCHANGED <<cseq, auth, transport, closed, replies>>
        ELSE IF ParseCSeq(chunk) = 0
          THEN closed' = TRUE /\ state' = "headers" /\ UNCHANGED <<cseq, auth, transport, replies>>
        ELSE /\ auth' = ParseAuthorization(m, chunk)
             /\ transport' = IF m = "SETUP" THEN Transport(chunk) ELSE transport
             /\ UNCHANGED closed
             /\ IF GotAll(m, k, chunk)
                  THEN HandleRtspRequest(m, k, ParseCSeq(chunk))
                  ELSE /\ state' = "headers" /\ cseq' = ParseCSeq(chunk)
                       /\ UNCHANGED replies

\* One line, and the headers behind it if it is a request's.
ParseRequestLine(b) ==
  LET end  == FindFirstCrlf(b)
      line == SubSeq(b, 1, end)
      rest == RetrieveUntil(b, end)
  IN IF end = 0 THEN Left(b) /\ UNCHANGED <<parser, closed, replies>>
     ELSE \E is \in LineIs(line) :
       \/ is = "request" /\ ParseHeadersLine(Kind(Last(line)), Last(line)[1], rest)
       \/ is = "passed"  /\ Left(rest) /\ UNCHANGED <<parser, closed, replies>>
       \/ is = "error"   /\ Left(rest) /\ method' = "NONE" /\ closed' = TRUE
                         /\ UNCHANGED <<state, request, cseq, auth, transport, replies>>

\* HandleRtcp: a packet is dropped when nothing follows it; a part of one drops all
\* that there is, since Retrieve of too much is RetrieveAll, and so does a length that
\* is negative as size_t.
HandleRtcp(b) ==
  LET length == sent[b[1][1]].length
      follow == \E p \in ToSet(b) : p[1] # b[1][1]
  IN IF Len(b) > 1 /\ (length = "negative" \/ (length = "plain" /\ ~follow)) THEN <<>> ELSE b

-----------------------------------------------------------------------------
(***************************************************************************)
(* What the parser is known to lose                                        *)
(***************************************************************************)

Decides(m) == CASE m.method = "DESCRIBE" -> {"Accept"}
                [] m.method = "PLAY"     -> {"Session"}
                [] m.method = "SETUP"    -> {"TransportTcp", "TransportUdp", "TransportMulticast"}
                [] OTHER                 -> {"CSeq"}

Answerable(m) ==
  /\ m.method \in Methods /\ (m.method = "SETUP" => m.track)
  /\ "CSeq" \in ToSet(m.lines) /\ Decides(m) \cap ToSet(m.lines) # {}

\* CSeq comes first, what decides comes last, and there is nothing to authorize: this
\* request may be cut anywhere.
Robust(m) ==
  /\ m.lines[1] = "CSeq" /\ m.lines[Len(m.lines) - 1] \in Decides(m)
  /\ "Authorization" \notin ToSet(m.lines)

\* b ends inside the payload of an RTCP packet, or inside a request that is not
\* robust; or it holds what the parser does not get over.
Tears(b) ==
  LET p == Last(b)
      m == sent[p[1]]
  IN IF IsRtcp(p[1]) THEN p[3] = 1 \/ m.length = "wraps"
     ELSE ~Answerable(m) \/ (~Robust(m) /\ p # Last(Pieces(p[1], m)))

-----------------------------------------------------------------------------
RequestInit ==
  /\ sent = <<>> /\ wire = <<>> /\ buffer = <<>>
  /\ state = "line" /\ method = "NONE" /\ request = 0 /\ cseq = 0
  /\ auth = FALSE /\ transport = "none"
  /\ closed = FALSE /\ replies = <<>>
  /\ mixed = FALSE /\ torn = FALSE

\* The client sends; it may or may not wait for replies.
ClientSend(m) ==
  /\ Len(sent) < MaxMessages
  /\ sent' = Append(sent, m)
  /\ wire' = wire \o Pieces(Len(sent) + 1, m)
  /\ UNCHANGED <<buffer, parser, closed, replies, history>>

\* HandleRead: recv takes some of what has come; OnRead parses it.
OnRead(n) ==
  LET b == buffer \o SubSeq(wire, 1, n)
  IN /\ ~closed
     /\ wire' = RetrieveUntil(wire, n)
     /\ mixed' = (mixed \/ \E p, q \in ToSet(b) : p[1] # q[1])
     /\ torn' = (torn \/ Tears(b))
     /\ UNCHANGED sent
     /\ \/ /\ IsRtcp(b[1][1]) /\ b[1][3] = 0
           /\ method' = "RTCP"
           /\ Left(HandleRtcp(b))
           /\ UNCHANGED <<state, request, cseq, auth, transport, closed, replies>>
        \/ /\ ~(IsRtcp(b[1][1]) /\ b[1][3] = 0)
           /\ IF state = "line" THEN ParseRequestLine(b) ELSE ParseHeadersLine(method, request, b)

RequestNext ==
  \/ \E m \in Messages : ClientSend(m)
  \/ \E n \in 1 .. Len(wire) : OnRead(n)

RequestSpec == RequestInit /\ [][RequestNext]_requestVars

-----------------------------------------------------------------------------
(***************************************************************************)
(* Properties                                                              *)
(***************************************************************************)

\* However the bytes are cut, and however many requests come at once: a reply has the
\* CSeq of the request whose method it answers, and no request gets two (Reset,
\* emplace in ParseCSeq).
RepliesMatch ==
  \A i \in DOMAIN replies :
    LET r == replies[i]
    IN /\ r.cseq = r.request /\ r.method = sent[r.request].method
       /\ \A j \in 1 .. i - 1 : replies[j].request < r.request

\* As long as no read finds two messages in the buffer, none ends inside the payload of
\* an RTCP packet, and those that must not be cut are not, every request is
\* answered, in order, with the authorization that it has and no other, RTCP
\* packets between them or not, and the connection stays.
AnsweredUnlessTorn ==
  ~mixed /\ ~torn /\ wire = <<>> =>
    /\ ~closed
    /\ {replies[i].request : i \in DOMAIN replies} = {k \in DOMAIN sent : ~IsRtcp(k)}
    /\ \A i, j \in DOMAIN replies : i < j => replies[i].request < replies[j].request
    /\ \A i \in DOMAIN replies :
         LET r == replies[i]
             m == sent[r.request]
         IN /\ m.method \in {"DESCRIBE", "SETUP", "PLAY"} => (r.auth <=> "Authorization" \in ToSet(m.lines))
            /\ m.method = "SETUP" => r.transport \in ToSet(m.lines)

=============================================================================
