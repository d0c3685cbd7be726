--------------------------- MODULE MCMediaSource ---------------------------
EXTENDS MediaSource

\* Real headers.  H.264: SPS, IDR slice, slice, unused slice, SEI.
\* H.265: VPS, IDR_W_RADL, TRAIL_R of two temporal layers, prefix SEI.
Key264   == <<<<103>>, <<101>>, <<101>>>>
Delta264 == <<<<6>>, <<65>>, <<1>>>>
Key265   == <<<<64, 1>>, <<38, 1>>, <<38, 1>>>>
Delta265 == <<<<78, 1>>, <<2, 2>>, <<2, 1>>>>

\* Bodies: filling, with zeros in it, and never a zero at the end.
Body(size, zeros) == [i \in 1 .. size |-> IF zeros /\ i < size /\ i % 3 # 0 THEN 0 ELSE 9]

Units(headers, sizes, zeros) == [i \in 1 .. Len(sizes) |-> headers[i] \o Body(sizes[i], zeros)]

\* In packets of 13: two or three units in one packet, exactly full ones among
\* them; a unit that just fits; two full fragments; two and a byte.
Sizes264 == {1, 2, 12, 22, 23}
Sizes265 == {1, 2, 11, 20, 21}
Codes == {<<4, 3, 3>>, <<3, 3, 4>>}

FramesOf(c, headers, Sizes) ==
  {[codec |-> c, units |-> Units(headers, sizes, zeros), codes |-> SubSeq(codes, 1, Len(sizes)),
    align |-> align] :
     sizes \in UNION {[1 .. n -> Sizes] : n \in 1 .. 3}, zeros \in BOOLEAN,
     codes \in Codes, align \in {0, 3}}

AacFrames ==
  {[codec |-> "aac", units |-> <<Body(size, FALSE)>>, codes |-> <<3>>, align |-> 0] : size \in 1 .. 15}

MCFrames ==
  AacFrames \cup FramesOf("h264", Key264, Sizes264) \cup FramesOf("h264", Delta264, Sizes264)
    \cup FramesOf("h265", Key265, Sizes265) \cup FramesOf("h265", Delta265, Sizes265)

=============================================================================
