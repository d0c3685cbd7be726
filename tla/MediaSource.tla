----------------------------- MODULE MediaSource -----------------------------
(***************************************************************************)
(* One encoded frame on its way through a MediaSource: HandleFrame of      *)
(* H264Source, H265Source and AACSource cuts it into RTP packets and hands *)
(* each to send_frame_callback_; the gate of RtpConnection (SetFrameType,  *)
(* is_play) decides which of them one client gets.  PLAY is handled by     *)
(* another thread than the frame: it comes between any two packets.        *)
(*                                                                         *)
(* A frame is bytes: an Annex B byte stream for video.  The bytes that     *)
(* matter are 0 and 1 (start codes) and the headers; the rest is filling.  *)
(* What the client makes of the packets is not this repository's: Rebuild  *)
(* is RFC 6184, RFC 7798 and RFC 3640 read backwards.                      *)
(*                                                                         *)
(* The callback that AddSource installs copies the packet and answers TRUE *)
(* always, so that no packet ends a frame early.                           *)
(***************************************************************************)
EXTENDS Integers, Sequences, FiniteSets, FiniteSetsExt, SequencesExt

CONSTANTS
  MaxPayload,   \* MAX_RTP_PAYLOAD_SIZE
  Frames        \* the frames: [codec, units, codes, align], codes being the
                \* lengths of the start codes and align the buffer's address % 4

Codecs == {"h264", "h265", "aac"}

ASSUME PayloadAssumption == MaxPayload \in Nat /\ MaxPayload > 4
ASSUME FramesAssumption ==
  \A f \in Frames : /\ f.codec \in Codecs /\ f.align \in 0 .. 3
                    /\ Len(f.units) = Len(f.codes) /\ Len(f.units) > 0

VARIABLES
  frame,        \* the encoder's frame
  nal,          \* nal_unit_list_ of Nal, once the frame is taken
  nal_index,    \* the unit that is next, from 1
  skip,         \* bytes of its body that are sent in fragments
  packet,       \* the packet that was handed over last
  is_play,      \* the client plays
  has_key,      \* its has_key_frame_
  early,        \* history: is_play before the frame
  had_key,      \* history: has_key before the frame
  received,     \* history: the units the client has rebuilt
  partial       \* the fragments of the unit that it is rebuilding

source == <<frame, nal, nal_index, skip, packet>>
client == <<is_play, has_key, early, had_key, received, partial>>
vars   == <<source, client>>

-----------------------------------------------------------------------------
(***************************************************************************)
(* Nal: the units of a byte stream                                         *)
(***************************************************************************)

codec == frame.codec

StartCode(len) == IF len = 4 THEN <<0, 0, 0, 1>> ELSE <<0, 0, 1>>

\* What the encoder puts into the packet.
Buffer ==
  FlattenSeq([i \in 1 .. Len(frame.units) |->
                (IF codec = "aac" THEN <<>> ELSE StartCode(frame.codes[i])) \o frame.units[i]])

End == Len(Buffer)

\* *p, p being an offset from the buffer's start
At(p) == Buffer[p + 1]

CodeAt(p) == At(p) = 0 /\ At(p + 1) = 0 /\ At(p + 2) = 1

\* FFmpegFindStartcodeInternal: byte by byte up to an aligned address, then
\* words of four, of which only those with a zero byte are looked at, then the
\* last bytes one by one.
FFmpegFindStartcodeInternal(p) ==
  LET aligned == p + 4 - ((p + frame.align) % 4)
      words   == Max({p, Min({aligned, End - 3})})
      Word(q) == q >= words /\ (q - words) % 4 = 0
                 /\ \E i \in 0 .. 3 : At(q + i) = 0
      inWord  == {q + i : q \in {r \in words .. End - 7 : Word(r)}, i \in 0 .. 3}
      rest    == words + 4 * Cardinality({q \in words .. End - 7 : (q - words) % 4 = 0})
      found   == {q \in p .. words - 1 : q < aligned /\ CodeAt(q)}
                 \cup {q \in inWord : CodeAt(q)}
                 \cup {q \in rest .. End - 4 : CodeAt(q)}
  IN IF found = {} THEN End ELSE Min(found)

\* Mutant: the first zero of a four byte start code stays with the unit before.
FindStartCodeShort(p) == FFmpegFindStartcodeInternal(p)

\* A zero before the start code belongs to it.
FindStartCode(p) ==
  LET out == FFmpegFindStartcodeInternal(p)
  IN IF p < out /\ out < End /\ At(out - 1) = 0 THEN out - 1 ELSE out

\* NalUnitWhile from nal_start on: zeros and the one after them are passed over,
\* and the unit goes to the next start code.
NalUnitWhile ==
  LET units[nal_start \in 0 .. End] ==
        LET ones  == {q \in nal_start .. End - 1 : At(q) # 0}
            first == IF ones = {} THEN End ELSE Min(ones) + 1
            next  == FindStartCode(first)
        IN IF first = End THEN <<>>
           ELSE <<SubSeq(Buffer, first + 1, next)>> \o units[next]
  IN IF End = 0 THEN <<>> ELSE units[FindStartCode(0)]

-----------------------------------------------------------------------------
(***************************************************************************)
(* H264NalUnit, H265NalUnit: what a unit's header says                     *)
(***************************************************************************)

HeaderSize == IF codec = "h264" THEN 1 ELSE 2    \* H264_NALU_HEADER_SIZE, H265_...

H264Type(unit) == unit[1] % 32
RefIdc(unit)   == (unit[1] \div 32) % 4

H265Type(unit)   == (unit[1] \div 2) % 64
LayerId(unit)    == 32 * (unit[1] % 2) + unit[2] \div 8
TemporalId(unit) == unit[2] % 8

\* At most room bytes from offset on, and the same of the body.
CopyData(unit, room, offset) ==
  SubSeq(unit, offset + 1, Min({offset + room, Len(unit)}))

CopyBody(unit, room, offset) == CopyData(unit, room, HeaderSize + offset)

\* IsIdrFrame and IsFrame, H264_NAL_SLICE to H264_NAL_SLICE_IDR.
H264FrameType(unit) ==
  CASE H264Type(unit) = 5      -> "idr"
    [] H264Type(unit) \in 1..4 -> "not_idr"
    [] OTHER                   -> "none"

\* H265_NAL_IDR_W_RADL, H265_NAL_IDR_N_LP, and all up to H265_NAL_CRA_NUT.
H265FrameType(unit) ==
  CASE H265Type(unit) \in {19, 20} -> "idr"
    [] H265Type(unit) \in (0..21) \ {19, 20} -> "not_idr"
    [] OTHER -> "none"

GetRtpFrameType(unit) == IF codec = "h264" THEN H264FrameType(unit) ELSE H265FrameType(unit)

-----------------------------------------------------------------------------
(***************************************************************************)
(* The client: RtpConnection's gate, and what is rebuilt behind it         *)
(***************************************************************************)

\* The sizes and units of an aggregation packet's payload, from offset i on.
Aggregated(payload, hdr) ==
  LET split[i \in 1 .. Len(payload) + 1] ==
        IF i > Len(payload) THEN <<>>
        ELSE LET size == 256 * payload[i] + payload[i + 1]
             IN <<SubSeq(payload, i + 2, i + 1 + size)>> \o split[Min({i + 2 + size, Len(payload) + 1})]
  IN split[hdr + 1]

FragmentHeader(payload) ==
  IF codec = "h264" THEN <<32 * (payload[1] \div 32) + (payload[2] % 32)>>
  ELSE <<(payload[1] % 2) + 2 * (payload[3] % 64) + 128 * (payload[1] \div 128), payload[2]>>

\* A fragment starts a unit, goes on with the one begun, or is useless.
Fragment(payload) ==
  LET fu     == payload[HeaderSize + 1]
      body   == SubSeq(payload, HeaderSize + 2, Len(payload))
      joined == IF fu >= 128 THEN FragmentHeader(payload) \o body
                ELSE IF partial = <<>> THEN <<>> ELSE partial \o body
      ends   == (fu \div 64) % 2 = 1
  IN IF ends /\ joined # <<>>
       THEN received' = Append(received, joined) /\ partial' = <<>>
       ELSE partial' = joined /\ UNCHANGED received

Rebuild(payload) ==
  CASE codec = "aac" ->
         /\ received' = Append(received, SubSeq(payload, 5, 4 + 32 * payload[3] + payload[4] \div 8))
         /\ UNCHANGED partial
    [] codec = "h264" /\ payload[1] % 32 = 28         -> Fragment(payload)
    [] codec = "h265" /\ (payload[1] \div 2) % 64 = 49 -> Fragment(payload)
    [] codec = "h264" /\ payload[1] % 32 = 24         ->
         received' = received \o Aggregated(payload, 1) /\ UNCHANGED partial
    [] codec = "h265" /\ (payload[1] \div 2) % 64 = 48 ->
         received' = received \o Aggregated(payload, 2) /\ UNCHANGED partial
    [] OTHER -> received' = Append(received, payload) /\ UNCHANGED partial

\* Mutant: only an IDR picture opens the gate, not what comes before it.
OpensGateIdr(type) == type = "idr"

\* SetFrameType
OpensGate(type) == type \in {"none", "idr"}

\* send_frame_callback_, down to the posted send: SetFrameType, and the packet
\* goes out if is_play and has_key_frame_.
Send(type, last, size, payload) ==
  /\ packet' = [type |-> type, last |-> last, size |-> size, payload |-> payload]
  /\ has_key' = (has_key \/ OpensGate(type))
  /\ IF is_play /\ has_key' THEN Rebuild(payload) ELSE UNCHANGED <<received, partial>>
  /\ UNCHANGED <<frame, nal, is_play, early, had_key>>

\* RtpConnection::Play; before the frame it is Init's choice.
Play ==
  /\ ~is_play
  /\ nal_index > 0
  /\ is_play' = TRUE
  /\ UNCHANGED <<source, has_key, early, had_key, received, partial>>

-----------------------------------------------------------------------------
(***************************************************************************)
(* HandleFrame                                                             *)
(***************************************************************************)

Init ==
  /\ frame \in Frames
  /\ nal = <<>> /\ nal_index = 0 /\ skip = 0
  /\ packet = [type |-> "none", last |-> TRUE, size |-> 0, payload |-> <<>>]
  /\ is_play \in BOOLEAN /\ has_key \in BOOLEAN
  /\ early = is_play /\ had_key = has_key
  /\ received = <<>> /\ partial = <<>>

\* Nal<...> nal(frame.buffer, frame.size)
TakeFrame ==
  /\ nal_index = 0
  /\ codec # "aac"
  /\ nal' = NalUnitWhile
  /\ nal_index' = 1
  /\ UNCHANGED <<frame, skip, packet, client>>

\* AACSource::HandleFrame.  A frame that does not fit is dropped; the plugin's
\* frames have no ADTS header (has_adts is false).
AacFrame ==
  LET size == Len(Buffer)
      au   == <<0, 16, (size \div 32) % 256, 8 * (size % 32)>>
  IN /\ nal_index = 0
     /\ codec = "aac"
     /\ nal_index' = 2
     /\ IF size > MaxPayload - 4
          THEN UNCHANGED <<frame, nal, skip, packet, client>>
          ELSE Send("audio", TRUE, size + 4, au \o Buffer) /\ UNCHANGED skip

Rest == Len(nal) - nal_index + 1     \* units that are not sent

\* size_count when the first n of them are taken
SizeCount(n) == HeaderSize + MapThenSumSet(LAMBDA i : Len(nal[nal_index + i - 1]) + 2, 1 .. n)

\* Mutant: the unit that is too much is not given back.
SpanTooLong ==
  Min({n \in 1 .. Rest : SizeCount(n) >= MaxPayload} \cup {Rest})

\* How many units the next packet takes: as many as reach the limit, without the
\* last of them if it exceeds it.
Span ==
  LET n == Min({k \in 1 .. Rest : SizeCount(k) >= MaxPayload} \cup {Rest})
  IN IF SizeCount(n) > MaxPayload /\ n > 1 THEN n - 1 ELSE n

Ready == nal_index \in 1 .. Len(nal) /\ skip = 0

\* all_frame_type: "idr" if one unit is, otherwise the first that is not "none".
AllFrameType(units) ==
  LET types == [i \in 1 .. Len(units) |-> GetRtpFrameType(units[i])]
  IN IF \E i \in DOMAIN types : types[i] = "idr" THEN "idr"
     ELSE IF \E i \in DOMAIN types : types[i] # "none" THEN "not_idr" ELSE "none"

\* The units of the next packet, and the unit that is next.
Taken == SubSeq(nal, nal_index, nal_index + Span - 1)
Unit  == nal[nal_index]

\* Several units, each behind its size, in one packet.
Aggregate(header) ==
  LET units == Taken
      room  == MaxPayload - HeaderSize - 2
      Part(u) == <<Len(u) \div 256, Len(u) % 256>> \o CopyData(u, room, 0)
  IN /\ Ready
     /\ Span > 1
     /\ Send(AllFrameType(units), TRUE, SizeCount(Span),
             header \o FlattenSeq([i \in 1 .. Len(units) |-> Part(units[i])]))
     /\ nal_index' = nal_index + Span
     /\ UNCHANGED skip

\* One unit that fits.
Single ==
  /\ Ready
  /\ Span = 1
  /\ Len(Unit) <= MaxPayload
  /\ Send(GetRtpFrameType(Unit), TRUE, Len(Unit), Unit)
  /\ nal_index' = nal_index + 1
  /\ UNCHANGED skip

\* A unit that does not fit goes in fragments: the first (S = 128), those that
\* leave too much for one packet, and the last (E = 64).
Room == MaxPayload - HeaderSize - 1

Unsent == Len(Unit) - HeaderSize - skip

FirstFragment(indicator, type) ==
  /\ Ready
  /\ Span = 1
  /\ Len(Unit) > MaxPayload
  /\ Send(GetRtpFrameType(Unit), FALSE, MaxPayload,
          indicator \o <<128 + type>> \o CopyBody(Unit, Room, 0))
  /\ skip' = Room
  /\ UNCHANGED nal_index

MiddleFragment(indicator, type) ==
  /\ skip > 0
  /\ Unsent > Room
  /\ Send(GetRtpFrameType(Unit), FALSE, MaxPayload,
          indicator \o <<type>> \o CopyBody(Unit, Room, skip))
  /\ skip' = skip + Room
  /\ UNCHANGED nal_index

LastFragment(indicator, type) ==
  LET body == CopyBody(Unit, Room, skip)
  IN /\ skip > 0
     /\ Unsent <= Room
     /\ Send(GetRtpFrameType(Unit), TRUE, Len(body) + HeaderSize + 1,
             indicator \o <<64 + type>> \o body)
     /\ nal_index' = nal_index + 1
     /\ skip' = 0

-----------------------------------------------------------------------------
(***************************************************************************)
(* H264Source::HandleFrame: STAP-A, single NAL unit, FU-A                  *)
(***************************************************************************)

\* maximum_ref_idc, and the type 24
StapAHeader(units) == <<32 * Max({RefIdc(units[i]) : i \in 1 .. Len(units)}) + 24>>

\* F and NRI of the unit, and the type 28
FuAIndicator(unit) == <<32 * (unit[1] \div 32) + 28>>

StapA       == codec = "h264" /\ Aggregate(StapAHeader(Taken))
SingleNal   == codec = "h264" /\ Single
FuA         == codec = "h264" /\ \/ FirstFragment(FuAIndicator(Unit), H264Type(Unit))
                                 \/ MiddleFragment(FuAIndicator(Unit), H264Type(Unit))
                                 \/ LastFragment(FuAIndicator(Unit), H264Type(Unit))

(***************************************************************************)
(* H265Source::HandleFrame: aggregation, single NAL unit, FU               *)
(***************************************************************************)

\* lowest_layer_id, lowest_temporal_id, and the type 48
ApHeader(units) ==
  LET layer    == Min({LayerId(units[i]) : i \in 1 .. Len(units)})
      temporal == Min({TemporalId(units[i]) : i \in 1 .. Len(units)})
  IN <<layer \div 32 + 96, (8 * layer + temporal) % 256>>

\* the first and the last bit of the header's first byte, and the type 49
FuIndicator(unit) == <<128 * (unit[1] \div 128) + 98 + (unit[1] % 2), unit[2]>>

Ap         == codec = "h265" /\ Aggregate(ApHeader(Taken))
SingleNalu == codec = "h265" /\ Single
Fu         == codec = "h265" /\ \/ FirstFragment(FuIndicator(Unit), H265Type(Unit))
                                \/ MiddleFragment(FuIndicator(Unit), H265Type(Unit))
                                \/ LastFragment(FuIndicator(Unit), H265Type(Unit))

Next == \/ TakeFrame \/ AacFrame \/ Play
        \/ StapA \/ SingleNal \/ FuA \/ Ap \/ SingleNalu \/ Fu

Spec == Init /\ [][Next]_vars

-----------------------------------------------------------------------------
(***************************************************************************)
(* Properties                                                              *)
(***************************************************************************)

Finished == nal_index > Len(nal) /\ nal_index > 0

\* Frames that a decoder can begin with.
KeyFrame == \E i \in DOMAIN frame.units : codec # "aac" /\ GetRtpFrameType(frame.units[i]) = "idr"

TooBig == codec = "aac" /\ Len(Buffer) > MaxPayload - 4

\* A client that played before the frame, and either had its key frame or gets it
\* with this one, has rebuilt every unit that the encoder put into it, byte for
\* byte and in order, parameter sets included: whatever their sizes, the lengths
\* of the start codes, and the address of the buffer (Nal, HandleFrame).
WholeFrame ==
  Finished /\ early /\ (had_key \/ KeyFrame) /\ ~TooBig => received = frame.units /\ partial = <<>>

\* Whenever PLAY came, also between two fragments, what the client rebuilds are
\* units of the frame, whole and in order: the start and end bits never let it
\* join pieces that do not belong together.
NeverGarbled == IsSuffix(received, SubSeq(frame.units, 1, IF codec = "aac" THEN 1 ELSE nal_index - 1))

\* No packet exceeds the payload that RtpPacket::data has room for, the size it is
\* sent with is the number of bytes that were written, and only a packet that ends
\* a unit has the marker.
PacketsFit ==
  /\ packet.size = Len(packet.payload) /\ packet.size <= MaxPayload
  /\ nal_index > 0 => (packet.last <=> skip = 0)

=============================================================================
