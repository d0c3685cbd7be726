---------------------------- MODULE MCRtspRequest ----------------------------
EXTENDS RtspRequest

Request(name, headers) == [method |-> name, lines |-> headers, track |-> TRUE]

MCMessages ==
  {Request("OPTIONS", <<"CSeq", "Blank">>),
   Request("GET_PARAMETER", <<"CSeq", "UserAgent", "Blank">>),
   Request("DESCRIBE", <<"CSeq", "Authorization", "Accept", "Blank">>),
   Request("SETUP", <<"CSeq", "UserAgent", "TransportTcp", "Blank">>),
   Request("SETUP", <<"CSeq", "TransportUdp", "Session", "Blank">>),
   Request("SETUP", <<"CSeq", "TransportBad", "Blank">>),
   Request("PLAY", <<"CSeq", "Session", "Blank">>),
   Request("UNKNOWN", <<"CSeq", "Blank">>),
   [method |-> "RTCP", length |-> "plain"],
   [method |-> "RTCP", length |-> "negative"],
   [method |-> "RTCP", length |-> "wraps"]}
=============================================================================
