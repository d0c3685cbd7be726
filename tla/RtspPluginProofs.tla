--------------------------- MODULE RtspPluginProofs ---------------------------
(***************************************************************************)
(* The plugin's own data, for any parameters.                              *)
(*                                                                         *)
(* First the safety invariants of RtspPlugin, for any audio tracks and any *)
(* number of captures.  What a slot will do to the dialog is as good as    *)
(* done once it is posted: PostedInv is about the last two calls in the    *)
(* queue, ShownInv about the widgets that no call in it will set.          *)
(* AudioInv goes from a start to the first packet, which makes the         *)
(* session, and AuthInv over the ways that settings take to the server and *)
(* to the dialog.                                                          *)
(*                                                                         *)
(* Then KeepsNewest of ThreadsafeQueue, which shares no name with          *)
(* RtspPlugin (below).                                                     *)
(***************************************************************************)
EXTENDS RtspPlugin, ThreadsafeQueue, TLAPS, SequenceTheorems, FiniteSetTheorems,
        WellFoundedInduction

Slots == {<<"buttons", ToStart>>, <<"buttons", ToStop>>, <<"timer", TRUE>>, <<"timer", FALSE>>}

FlagType ==
  /\ starting \in BOOLEAN /\ active \in BOOLEAN /\ stopping \in BOOLEAN
  /\ capture \in BOOLEAN /\ calling \in {"ui", "hotkey", "nobody"} /\ starts \in 0 .. MaxStarts
  /\ loaded \in BOOLEAN /\ gone \in BOOLEAN
  /\ odd \subseteq {"ignored", "overtaken", "again"}

SettingsType ==
  /\ settings \in [auth : BOOLEAN, named : BOOLEAN, audio : BOOLEAN]
  /\ server_auth \in BOOLEAN
  /\ topic \in {"tracks", "auth"} /\ edited \in BOOLEAN /\ shown \in BOOLEAN
  /\ config \subseteq Tracks /\ boxes \in [tracks : SUBSET Tracks, auth : BOOLEAN]

AudioType ==
  /\ encoders \in Seq(Tracks) /\ ticked \subseteq Tracks /\ most \in Nat
  /\ channel_ids = ChannelIds(Len(encoders))
  /\ capture => Len(encoders) > 0

StatusType ==
  /\ buttons \in [start : BOOLEAN, stop : BOOLEAN] /\ timer \in BOOLEAN
  /\ posted \in Seq(Slots)

TypeInv == FlagType /\ SettingsType /\ AudioType /\ StatusType

\* The flags belong to a capture, and exceptions are forgotten with it.
FlagInv ==
  /\ starting \/ active \/ stopping \/ calling # "nobody" => capture
  /\ ~(starting /\ active)
  /\ calling # "nobody" => ~starting /\ ~active
  /\ ~capture => odd = {}

\* The timer that the posted calls come to.
Ticks == capture /\ "overtaken" \notin odd

\* The last calls that are posted are those of the last start or stop, or, when a start
\* has overtaken them, those of the stop before.
PostedInv ==
  /\ Len(posted) > 0 => posted[Len(posted)] = <<"timer", Ticks>>
  /\ "overtaken" \notin odd /\ Len(posted) > 1 =>
       posted[Len(posted) - 1] = <<"buttons", IF capture THEN ToStop ELSE ToStart>>

\* What no posted call will set is as it has to be.
ShownInv ==
  /\ Len(posted) = 0 => (timer <=> Ticks)
  /\ Len(posted) <= 1 =>
       /\ ~capture => buttons = ToStart
       /\ Ticks => ~buttons.start /\ (buttons.stop \/ stopping \/ "ignored" \in odd)

Sources == {<<channel_ids[i], i>> : i \in DOMAIN encoders}

\* From the settings of a start to the sources of the session.
AudioInv ==
  /\ capture /\ ~active /\ "again" \notin odd => (settings.audio <=> ticked # {})
  /\ active => channels \in {{}, Sources}
  /\ active /\ "again" \notin odd => (channels = {} <=> ticked = {})
  /\ capture /\ ticked # {} /\ most <= Cardinality(ticked) => ToSet(encoders) = ticked

\* From the settings to the server and to the dialog.
AuthInv ==
  /\ ~edited /\ shown => (boxes.auth <=> settings.named /\ settings.auth)
  /\ ~edited /\ capture => (server_auth <=> settings.auth) /\ (settings.auth => settings.named)

IInv == TypeInv /\ FlagInv /\ PostedInv /\ ShownInv /\ AudioInv /\ AuthInv

-----------------------------------------------------------------------------
(***************************************************************************)
(* Sets of tracks in their order                                           *)
(***************************************************************************)

LEMMA LeastTrack == Min(Tracks) \in Tracks
<1> DEFINE R == {p \in Nat \X Nat : p[1] < p[2]}
<1>1. IsWellFoundedOn(R, Nat)
  BY NatLessThanWellFounded DEF OpToRel
<1>2. \E x \in Tracks : \A y \in Tracks : ~(<<y, x>> \in R)
  BY <1>1, WFMin, TracksAssumption
<1>3. \A x, y \in Nat : <<y, x>> \in R <=> y < x
  OBVIOUS
<1>4. \A x, y \in Tracks : ~(<<y, x>> \in R) => x =< y
  <2> HIDE DEF R
  <2> QED
    BY <1>3, TracksAssumption
<1>5. \E x \in Tracks : \A y \in Tracks : x =< y
  BY <1>2, <1>4
<1> QED
  BY <1>5 DEF Min

LEMMA MaxOfTwo ==
  ASSUME NEW a \in Nat, NEW b \in Nat
  PROVE  Max({a, b}) \in Nat /\ Max({a, b}) >= a /\ Max({a, b}) >= b
<1>1. \E x \in {a, b} : \A y \in {a, b} : x >= y
  OBVIOUS
<1> QED
  BY <1>1 DEF Max

\* The place of a track is how many there are up to it.
LEMMA AscendingExists ==
  ASSUME NEW T, T \subseteq Nat, IsFiniteSet(T)
  PROVE  \E s \in [1 .. Cardinality(T) -> T] :
           \A i, j \in 1 .. Cardinality(T) : i < j => s[i] < s[j]
<1> DEFINE n == Cardinality(T)
           Upto(t) == {u \in T : u <= t}
           Rank == [t \in T |-> Cardinality(Upto(t))]
           s == [i \in 1 .. n |-> CHOOSE t \in T : Rank[t] = i]
<1>1. n \in Nat
  BY FS_CardinalityType
<1>2. ASSUME NEW t \in T PROVE IsFiniteSet(Upto(t)) /\ Rank[t] \in 1 .. n
  <2>1. IsFiniteSet(Upto(t)) /\ Cardinality(Upto(t)) <= n
    BY FS_Subset
  <2>2. Cardinality(Upto(t)) \in Nat /\ Cardinality(Upto(t)) # 0
    <3>1. t \in Upto(t)
      OBVIOUS
    <3> QED
      BY <2>1, <3>1, FS_EmptySet, FS_CardinalityType
  <2> QED
    BY <1>1, <2>1, <2>2
<1>3. ASSUME NEW t \in T, NEW u \in T, t < u PROVE Rank[t] < Rank[u]
  <2>1. Upto(t) \subseteq Upto(u) /\ u \in Upto(u) /\ u \notin Upto(t)
    <3>1. t \in Nat /\ u \in Nat
      OBVIOUS
    <3>2. \A v \in T : v <= t => v <= u
      BY <1>3, <3>1
    <3>3. Upto(t) \subseteq Upto(u)
      BY <3>2
    <3>4. u \in Upto(u) /\ u \notin Upto(t)
      BY <1>3, <3>1
    <3> QED
      BY <3>3, <3>4
  <2>2. /\ Cardinality(Upto(t)) <= Cardinality(Upto(u))
        /\ Cardinality(Upto(t)) # Cardinality(Upto(u))
    BY <1>2, <2>1, FS_Subset
  <2>3. Rank[t] \in 1 .. n /\ Rank[u] \in 1 .. n
    BY <1>2
  <2> QED
    BY <1>1, <2>2, <2>3
<1>4. Rank \in Surjection(T, 1 .. n)
  <2>1. Rank \in [T -> 1 .. n]
    BY <1>2
  <2>2. \A t, u \in T : Rank[t] = Rank[u] => t = u
    <3> SUFFICES ASSUME NEW t \in T, NEW u \in T, Rank[t] = Rank[u], t # u PROVE FALSE
      OBVIOUS
    <3>1. t < u \/ u < t
      OBVIOUS
    <3>2. Rank[t] \in 1 .. n /\ Rank[u] \in 1 .. n
      BY <1>2
    <3> HIDE DEF Rank
    <3> QED
      BY <1>1, <1>3, <3>1, <3>2
  <2>3. Rank \in Injection(T, 1 .. n)
    BY <2>1, <2>2 DEF Injection, IsInjective
  <2>4. IsFiniteSet(1 .. n) /\ Cardinality(1 .. n) = n
    BY <1>1, FS_Interval
  <2> HIDE DEF Rank
  <2> QED
    BY <2>3, <2>4, FS_Injection
<1>5. ASSUME NEW i \in 1 .. n PROVE s[i] \in T /\ Rank[s[i]] = i
  <2>1. \E t \in T : Rank[t] = i
    BY <1>4 DEF Surjection
  <2> HIDE DEF Rank
  <2> QED
    BY <2>1
<1>6. ASSUME NEW i \in 1 .. n, NEW j \in 1 .. n, i < j PROVE s[i] < s[j]
  <2>1. s[i] \in Nat /\ s[j] \in Nat /\ Rank[s[i]] = i /\ Rank[s[j]] = j
    BY <1>5
  <2>2. ~(s[j] < s[i]) /\ s[i] # s[j]
    <3> HIDE DEF Rank, s
    <3> QED
      BY <1>1, <1>3, <1>5, <1>6, <2>1
  <2> HIDE DEF s
  <2> QED
    BY <2>1, <2>2
<1>7. s \in [1 .. n -> T]
  BY <1>5
<1> HIDE DEF s
<1> QED
  BY <1>6, <1>7

LEMMA InOrderProperties ==
  ASSUME NEW T \in SUBSET Tracks
  PROVE  /\ Cardinality(T) \in Nat
         /\ InOrder(T) \in Seq(Tracks) /\ Len(InOrder(T)) = Cardinality(T)
         /\ ToSet(InOrder(T)) = T
<1> DEFINE n == Cardinality(T)
           s == InOrder(T)
<1>1. IsFiniteSet(T) /\ T \subseteq Nat /\ n \in Nat
  BY TracksAssumption, FS_Subset, FS_CardinalityType
<1>2. s \in [1 .. n -> T] /\ \A i, j \in 1 .. n : i < j => s[i] < s[j]
  BY <1>1, AscendingExists DEF InOrder
<1> HIDE DEF s
<1>3. s \in Injection(1 .. n, T)
  <2>1. \A i, j \in 1 .. n : s[i] = s[j] => i = j
    <3> SUFFICES ASSUME NEW i \in 1 .. n, NEW j \in 1 .. n, s[i] = s[j], i # j PROVE FALSE
      OBVIOUS
    <3>1. i < j \/ j < i
      BY <1>1
    <3>2. s[i] \in Nat /\ s[j] \in Nat
      BY <1>1, <1>2
    <3> QED
      BY <1>2, <3>1, <3>2
  <2> QED
    BY <1>2, <2>1 DEF Injection, IsInjective
<1>4. s \in Surjection(1 .. n, T)
  <2>1. IsFiniteSet(1 .. n) /\ Cardinality(1 .. n) = n
    BY <1>1, FS_Interval
  <2> QED
    BY <1>1, <1>3, <2>1, FS_Injection
<1>5. s \in Seq(T) /\ Len(s) = n /\ DOMAIN s = 1 .. n
  BY <1>1, <1>2
<1>6. s \in Seq(Tracks)
  BY <1>5
<1>7. ToSet(s) = T
  BY <1>2, <1>4, <1>5 DEF ToSet, Surjection
<1> QED
  BY <1>1, <1>5, <1>6, <1>7 DEF s

-----------------------------------------------------------------------------
(***************************************************************************)
(* What a start does                                                       *)
(***************************************************************************)

\* The part of Start up to obs_output_begin_data_capture.
Prepared ==
  /\ ~starting /\ ~stopping
  /\ CreateAudioEncoder
  /\ rtsp_output_update([settings EXCEPT !.audio = config' # {}])
  /\ channel_ids' = ChannelIds(Len(encoders'))
  /\ UNCHANGED <<flags, channels>>

Denied ==
  /\ Prepared
  /\ odd' = IF capture /\ ~active THEN odd \cup {"again"} ELSE odd
  /\ UNCHANGED <<capture, calling, starts, ticked, most, status>>

Begun(thread) ==
  /\ Prepared
  /\ ~capture /\ starts < MaxStarts
  /\ capture' = TRUE /\ starts' = starts + 1
  /\ calling' = thread
  /\ ticked' = config'
  /\ most' = Max({most, Len(encoders)})
  /\ OnOutputStart(thread)
  /\ odd' = IF thread = "ui" /\ posted # <<>> THEN odd \cup {"overtaken"} ELSE odd

Refused == UNCHANGED <<output, audio, auth, status, odd>>

StartCalls ==
  \/ \E thread \in {"ui", "hotkey"} : rtsp_output_start_hotkey(thread)
  \/ onPushButtonStartClicked \/ rtsp_output_auto_start

StopCalls == rtsp_output_stop_hotkey \/ onPushButtonStopClicked \/ Exit

Edits ==
  \/ \E tracks \in SUBSET Tracks : TickTracks(tracks)
  \/ \E checked \in BOOLEAN : onCheckBoxEnableAuthenticationClicked(checked)
  \/ \E named \in BOOLEAN : onLineEditTextChanged(named)
  \/ showEvent \/ closeEvent \/ Reject

LEMMA Steps ==
  ASSUME Next
  PROVE  StartCalls \/ StopCalls \/ Edits \/ Packets \/ RunPosted \/ StartReturns
BY DEF Next, StartCalls, StopCalls, Edits

LEMMA StartCases ==
  ASSUME TypeInv, StartCalls
  PROVE  /\ UNCHANGED <<topic, boxes, shown, edited, gone>>
         /\ config' \subseteq Tracks /\ loaded' \in BOOLEAN
         /\ Refused \/ Denied \/ \E thread \in {"ui", "hotkey"} : Begun(thread)
<1>1. \A thread : Start(thread) => Refused \/ Denied \/ Begun(thread)
  BY DEF Start, Refused, Denied, Begun, Prepared
<1>2. CASE \E thread \in {"ui", "hotkey"} : rtsp_output_start_hotkey(thread)
  BY <1>1, <1>2 DEF rtsp_output_start_hotkey, module, TypeInv, FlagType, SettingsType
<1>3. CASE onPushButtonStartClicked
  BY <1>1, <1>3 DEF onPushButtonStartClicked, SaveConfig, module, TypeInv, FlagType,
     SettingsType
<1>4. CASE rtsp_output_auto_start
  BY <1>1, <1>4 DEF rtsp_output_auto_start, Refused, TypeInv, FlagType, SettingsType
<1> QED
  BY <1>2, <1>3, <1>4, StartCalls DEF StartCalls

\* The encoders of a start: those of the tracks, and what is left of older ones.
LEMMA EncodersMade ==
  ASSUME TypeInv, Prepared, config' \subseteq Tracks
  PROVE  /\ encoders' \in Seq(Tracks) /\ Len(encoders') > 0
         /\ capture => encoders' = encoders
         /\ ~capture /\ config' # {} /\ Len(encoders) <= Cardinality(config') =>
              ToSet(encoders') = config'
<1> DEFINE T == IF config' = {} THEN {Min(Tracks)} ELSE config'
           new == InOrder(T)
           rest == SubSeq(encoders, Len(new) + 1, Len(encoders))
<1>1. T \in SUBSET Tracks /\ T # {}
  BY LeastTrack
<1>2. /\ Cardinality(T) \in Nat /\ new \in Seq(Tracks) /\ Len(new) = Cardinality(T)
      /\ ToSet(new) = T
  BY <1>1, InOrderProperties
<1>3. Len(new) > 0
  <2>1. IsFiniteSet(T)
    BY <1>1, TracksAssumption, FS_Subset
  <2> QED
    BY <1>1, <1>2, <2>1, FS_EmptySet
<1>4. CASE capture
  BY <1>4 DEF Prepared, CreateAudioEncoder, TypeInv, AudioType
<1>5. CASE ~capture
  <2>1. encoders' = new \o rest
    BY <1>5 DEF Prepared, CreateAudioEncoder
  <2>2. encoders \in Seq(Tracks) /\ Len(encoders) \in Nat
    BY LenProperties DEF TypeInv, AudioType
  <2>3. rest \in Seq(Tracks)
    BY <1>2, <2>2
  <2>4. encoders' \in Seq(Tracks) /\ Len(encoders') > 0
    <3> HIDE DEF new, rest
    <3>1. Len(new) \in Nat /\ Len(rest) \in Nat
      BY <1>2, <2>3, LenProperties
    <3>2. encoders' \in Seq(Tracks) /\ Len(encoders') = Len(new) + Len(rest)
      BY <1>2, <2>1, <2>3, ConcatProperties
    <3> QED
      BY <1>3, <3>1, <3>2
  <2>5. ASSUME config' # {}, Len(encoders) <= Cardinality(config')
        PROVE  ToSet(encoders') = config'
    <3>1. rest = <<>>
      BY <1>2, <2>2, <2>5
    <3>2. encoders' = new
      BY <1>2, <2>1, <3>1, ConcatEmptySeq
    <3> QED
      BY <1>2, <2>5, <3>2
  <2> QED
    BY <1>5, <2>4, <2>5
<1> QED
  BY <1>4, <1>5

-----------------------------------------------------------------------------
(***************************************************************************)
(* The slots that are posted                                               *)
(***************************************************************************)

\* Two calls more at the end of a queue of them.
LEMMA TwoPosted ==
  ASSUME NEW q \in Seq(Slots), NEW a \in Slots, NEW b \in Slots,
         NEW p, p = q \o <<a, b>>
  PROVE  p \in Seq(Slots) /\ Len(p) > 1 /\ p[Len(p)] = b /\ p[Len(p) - 1] = a
<1>1. <<a, b>> \in Seq(Slots) /\ Len(<<a, b>>) = 2 /\ <<a, b>>[1] = a /\ <<a, b>>[2] = b
  OBVIOUS
<1>2. Len(q) \in Nat
  BY LenProperties
<1>3. /\ p \in Seq(Slots) /\ Len(p) = Len(q) + 2
      /\ \A i \in 1 .. Len(q) + 2 :
           p[i] = IF i <= Len(q) THEN q[i] ELSE <<a, b>>[i - Len(q)]
  BY <1>1, ConcatProperties
<1> QED
  BY <1>1, <1>2, <1>3

\* The two calls that OnOutputStart posts, if it does, and those of OnOutputStop.
LEMMA StartPosts ==
  ASSUME TypeInv, OnOutputStart("hotkey")
  PROVE  /\ posted' \in Seq(Slots) /\ Len(posted') > 1 /\ UNCHANGED <<buttons, timer>>
         /\ posted'[Len(posted')] = <<"timer", TRUE>>
         /\ posted'[Len(posted') - 1] = <<"buttons", ToStop>>
<1>1. <<"timer", TRUE>> \in Slots /\ <<"buttons", ToStop>> \in Slots
  BY DEF Slots
<1>2. /\ posted' = posted \o <<<<"buttons", ToStop>>, <<"timer", TRUE>>>>
      /\ UNCHANGED <<buttons, timer>>
  BY DEF OnOutputStart
<1>3. posted \in Seq(Slots)
  BY DEF TypeInv, StatusType
<1> QED
  <2> DEFINE a == <<"buttons", ToStop>>
             b == <<"timer", TRUE>>
  <2>1. a \in Slots /\ b \in Slots /\ posted' = posted \o <<a, b>>
    BY <1>1, <1>2
  <2> HIDE DEF a, b
  <2>2. /\ posted' \in Seq(Slots) /\ Len(posted') > 1
        /\ posted'[Len(posted')] = b /\ posted'[Len(posted') - 1] = a
    BY <1>3, <2>1, TwoPosted
  <2> QED
    BY <1>2, <2>2 DEF a, b

LEMMA StopPosts ==
  ASSUME TypeInv, NEW times \in {1, 2}, OnOutputStop(times)
  PROVE  /\ posted' \in Seq(Slots) /\ Len(posted') > 1 /\ UNCHANGED <<buttons, timer>>
         /\ posted'[Len(posted')] = <<"timer", FALSE>>
         /\ posted'[Len(posted') - 1] = <<"buttons", ToStart>>
<1> DEFINE slots == <<<<"buttons", ToStart>>, <<"timer", FALSE>>>>
<1>1. <<"timer", FALSE>> \in Slots /\ <<"buttons", ToStart>> \in Slots
  BY DEF Slots
<1>2. posted \in Seq(Slots)
  BY DEF TypeInv, StatusType
<1>3. PICK q \in Seq(Slots) : posted' = q \o slots
  <2>1. posted \o slots \in Seq(Slots)
    BY <1>1, <1>2, TwoPosted
  <2> QED
    BY <1>2, <2>1 DEF OnOutputStop
<1>4. /\ posted' \in Seq(Slots) /\ Len(posted') > 1
      /\ posted'[Len(posted')] = <<"timer", FALSE>>
      /\ posted'[Len(posted') - 1] = <<"buttons", ToStart>>
  <2> DEFINE a == <<"buttons", ToStart>>
             b == <<"timer", FALSE>>
  <2>1. a \in Slots /\ b \in Slots /\ posted' = q \o <<a, b>>
    BY <1>1, <1>3
  <2> HIDE DEF a, b
  <2>2. /\ posted' \in Seq(Slots) /\ Len(posted') > 1
        /\ posted'[Len(posted')] = b /\ posted'[Len(posted') - 1] = a
    BY <2>1, TwoPosted
  <2> QED
    BY <2>2 DEF a, b
<1> QED
  BY <1>3, <1>4 DEF OnOutputStop

-----------------------------------------------------------------------------
(***************************************************************************)
(* The invariant holds initially, and each step preserves its parts        *)
(***************************************************************************)

LEMMA InitialState == Init => IInv
<1> SUFFICES ASSUME Init PROVE IInv
  OBVIOUS
<1>1. posted = <<>> /\ Len(posted) = 0 /\ posted \in Seq(Slots)
  BY DEF Init
<1>2. FlagType
  <2>1. 0 \in 0 .. MaxStarts
    BY StartsAssumption
  <2> QED
    BY <2>1 DEF Init, FlagType
<1>3. SettingsType
  <2>1. settings \in [auth : BOOLEAN, named : BOOLEAN, audio : BOOLEAN]
    BY DEF Init
  <2>2. config \subseteq Tracks /\ boxes \in [tracks : SUBSET Tracks, auth : BOOLEAN]
    BY DEF Init
  <2> QED
    BY <2>1, <2>2 DEF Init, SettingsType
<1>4. AudioType
  <2>1. encoders \in Seq(Tracks) /\ Len(encoders) = 0 /\ channel_ids = ChannelIds(Len(encoders))
    BY DEF Init, ChannelIds
  <2> QED
    BY <2>1 DEF Init, AudioType
<1>5. StatusType
  BY <1>1 DEF Init, StatusType, ToStart
<1>6. FlagInv /\ PostedInv /\ ShownInv
  BY <1>1 DEF Init, FlagInv, PostedInv, ShownInv, Ticks, ToStart
<1>7. AudioInv /\ AuthInv
  BY DEF Init, AudioInv, AuthInv
<1> QED
  BY <1>2, <1>3, <1>4, <1>5, <1>6, <1>7 DEF IInv, TypeInv

LEMMA FlagStep ==
  ASSUME IInv, [Next]_vars
  PROVE  FlagType' /\ FlagInv'
<1> USE StartsAssumption DEF FlagType, FlagInv
<1> USE DEF IInv, TypeInv
<1>1. CASE StartCalls
  <2>1. loaded' \in BOOLEAN /\ UNCHANGED gone
    BY <1>1, StartCases
  <2>2. CASE Refused
    BY <2>1, <2>2 DEF Refused, flags, output
  <2>3. CASE Denied
    BY <2>1, <2>3 DEF Denied, Prepared, flags
  <2>4. ASSUME NEW thread \in {"ui", "hotkey"}, Begun(thread) PROVE FlagType' /\ FlagInv'
    BY <2>1, <2>4 DEF Begun, Prepared, flags
  <2> QED
    BY <1>1, <2>2, <2>3, <2>4, StartCases
<1>2. CASE StopCalls
  <2>1. Stop /\ UNCHANGED <<starting, active, capture, calling, starts, loaded>>
    BY <1>2 DEF StopCalls, rtsp_output_stop_hotkey, onPushButtonStopClicked, Exit, module
  <2>2. gone' \in BOOLEAN
    BY <1>2 DEF StopCalls, rtsp_output_stop_hotkey, onPushButtonStopClicked, Exit, module
  <2> QED
    BY <2>1, <2>2 DEF Stop
<1>3. CASE Edits
  BY <1>3 DEF Edits, TickTracks, onCheckBoxEnableAuthenticationClicked, onLineEditTextChanged,
     showEvent, closeEvent, Reject, output, flags, module
<1>4. CASE Packets
  BY <1>4 DEF Packets, FirstPacket, LastPacket, ActualStop, module
<1>5. CASE StartReturns
  BY <1>5 DEF StartReturns, module
<1>6. CASE RunPosted \/ UNCHANGED vars
  <2>1. UNCHANGED <<output, module, odd>>
    BY <1>6 DEF RunPosted, vars
  <2> QED
    BY <2>1 DEF output, flags, module
<1> QED
  BY <1>1, <1>2, <1>3, <1>4, <1>5, <1>6, Steps

LEMMA SettingsStep ==
  ASSUME IInv, [Next]_vars
  PROVE  SettingsType' /\ AuthInv'
<1> USE DEF SettingsType, AuthInv, IInv, TypeInv
<1>1. CASE StartCalls
  <2>1. UNCHANGED <<topic, boxes, shown, edited>> /\ config' \subseteq Tracks
    BY <1>1, StartCases
  <2>2. CASE Refused
    BY <2>1, <2>2 DEF Refused, auth, output
  <2>3. ASSUME Prepared PROVE SettingsType' /\ AuthInv'
    <3>1. /\ settings' \in [auth : BOOLEAN, named : BOOLEAN, audio : BOOLEAN]
          /\ settings'.auth <=> settings.auth /\ settings.named
          /\ settings'.named <=> settings.named
          /\ server_auth' \in BOOLEAN /\ (server_auth' <=> settings'.auth)
      BY <2>3 DEF Prepared, rtsp_output_update
    <3> QED
      BY <2>1, <3>1
  <2> QED
    BY <1>1, <2>2, <2>3, StartCases DEF Denied, Begun
<1>2. CASE StopCalls
  BY <1>2 DEF StopCalls, rtsp_output_stop_hotkey, onPushButtonStopClicked, Exit, auth, dialog
<1>3. CASE Edits
  <2>1. CASE \E tracks \in SUBSET Tracks : TickTracks(tracks)
    BY <2>1 DEF TickTracks, auth, output
  <2>2. CASE \E checked \in BOOLEAN : onCheckBoxEnableAuthenticationClicked(checked)
    BY <2>2 DEF onCheckBoxEnableAuthenticationClicked
  <2>3. CASE \E named \in BOOLEAN : onLineEditTextChanged(named)
    BY <2>3 DEF onLineEditTextChanged
  <2>4. CASE showEvent
    <3>1. UNCHANGED <<capture, settings, server_auth, topic, config, edited>>
      BY <2>4 DEF showEvent, auth, output
    <3>2. /\ shown' = TRUE
          /\ boxes' = [boxes EXCEPT !.auth = settings.named /\ settings.auth]
      BY <2>4 DEF showEvent
    <3> QED
      BY <3>1, <3>2
  <2>6. CASE Reject
    BY <2>6 DEF Reject, auth, output
  <2>5. CASE closeEvent
    BY <2>5 DEF closeEvent, SaveConfig, rtsp_output_update, output
  <2> QED
    BY <1>3, <2>1, <2>2, <2>3, <2>4, <2>5, <2>6 DEF Edits
<1>4. CASE Packets
  BY <1>4 DEF Packets, FirstPacket, LastPacket, ActualStop, auth, dialog, FlagInv
<1>5. CASE RunPosted \/ StartReturns \/ UNCHANGED vars
  BY <1>5 DEF RunPosted, StartReturns, vars, output, auth, dialog
<1> QED
  BY <1>1, <1>2, <1>3, <1>4, <1>5, Steps

\* The first call of the queue is run.
LEMMA PostedRuns ==
  ASSUME IInv, RunPosted
  PROVE  StatusType' /\ PostedInv' /\ ShownInv'
<1>1. /\ posted \in Seq(Slots) /\ posted # <<>> /\ posted' = Tail(posted)
      /\ Slot(Head(posted))
      /\ UNCHANGED <<capture, stopping, odd>>
  BY DEF RunPosted, IInv, TypeInv, StatusType, output, flags
<1>2. /\ Len(posted) \in Nat /\ Len(posted) > 0
      /\ Head(posted) = posted[1] /\ posted[1] \in Slots
  BY <1>1, LenProperties
<1>3. /\ posted' \in Seq(Slots) /\ Len(posted') = Len(posted) - 1
      /\ \A i \in 1 .. Len(posted') : posted'[i] = posted[i + 1]
  BY <1>1, HeadTailProperties
<1>4. StatusType'
  <2>1. /\ buttons \in [start : BOOLEAN, stop : BOOLEAN] /\ timer \in BOOLEAN
        /\ ToStart \in [start : BOOLEAN, stop : BOOLEAN]
        /\ ToStop \in [start : BOOLEAN, stop : BOOLEAN]
    BY DEF ToStart, ToStop, StatusType, IInv, TypeInv
  <2>2. CASE posted[1] \in {<<"buttons", ToStart>>, <<"buttons", ToStop>>}
    BY <1>1, <1>2, <1>3, <2>1, <2>2 DEF Slot, StatusType
  <2>3. CASE posted[1] \in {<<"timer", TRUE>>, <<"timer", FALSE>>}
    <3>1. ASSUME NEW b \in {TRUE, FALSE}, posted[1] = <<"timer", b>>
          PROVE  timer' = b /\ UNCHANGED buttons
      BY <1>1, <1>2, <3>1 DEF Slot
    <3>2. timer' \in BOOLEAN /\ UNCHANGED buttons
      BY <2>3, <3>1
    <3> QED
      BY <1>3, <2>1, <3>2 DEF StatusType
  <2> QED
    BY <1>2, <2>2, <2>3 DEF Slots
<1>5. PostedInv'
  <2>1. Len(posted') > 0 => posted'[Len(posted')] = posted[Len(posted)]
    BY <1>2, <1>3
  <2>2. Len(posted') > 1 => posted'[Len(posted') - 1] = posted[Len(posted) - 1]
    BY <1>2, <1>3
  <2>3. PostedInv
    BY DEF IInv
  <2> QED
    BY <1>1, <1>2, <1>3, <2>1, <2>2, <2>3 DEF PostedInv, Ticks
<1>6. ShownInv'
  <2> SUFFICES ASSUME Len(posted) <= 2
               PROVE  /\ Len(posted) = 1 => (timer' <=> Ticks)
                      /\ ~capture => buttons' = ToStart
                      /\ Ticks => /\ ~buttons'.start
                                  /\ buttons'.stop \/ stopping \/ "ignored" \in odd
    BY <1>1, <1>2, <1>3 DEF ShownInv, Ticks
  <2>1. CASE Len(posted) = 1
    <3>1. posted[1] = <<"timer", Ticks>>
      BY <2>1 DEF IInv, PostedInv
    <3>2. (timer' <=> Ticks) /\ UNCHANGED buttons
      BY <1>1, <1>2, <3>1 DEF Slot
    <3> QED
      BY <2>1, <3>2 DEF IInv, ShownInv
  <2>2. CASE Len(posted) = 2
    <3>1. Ticks \/ ~capture =>
            posted[1] = <<"buttons", IF capture THEN ToStop ELSE ToStart>>
      BY <2>2 DEF IInv, PostedInv, Ticks, FlagInv
    <3>2. Ticks \/ ~capture => buttons' = IF capture THEN ToStop ELSE ToStart
      BY <1>1, <1>2, <3>1 DEF Slot
    <3> QED
      BY <2>2, <3>2 DEF ToStart, ToStop, Ticks
  <2>3. Len(posted) = 1 \/ Len(posted) = 2
    <3>1. Len(posted) \in Nat /\ Len(posted) > 0
      BY <1>2
    <3>2. \A n \in Nat : n > 0 /\ n <= 2 => n = 1 \/ n = 2
      OBVIOUS
    <3> QED
      BY <3>1, <3>2
  <2> QED
    BY <2>1, <2>2, <2>3
<1> QED
  BY <1>4, <1>5, <1>6

LEMMA StatusStep ==
  ASSUME IInv, [Next]_vars
  PROVE  StatusType' /\ PostedInv' /\ ShownInv'
<1> USE DEF IInv, TypeInv
<1>1. CASE StartCalls
  <2>1. CASE Refused
    BY <2>1 DEF Refused, output, flags, status, StatusType, PostedInv, ShownInv, Ticks
  <2>2. CASE Denied
    <3>1. UNCHANGED <<capture, stopping, status>> /\ odd \subseteq odd'
          /\ ("overtaken" \in odd' => "overtaken" \in odd)
      BY <2>2 DEF Denied, Prepared, flags
    <3>2. Ticks' <=> Ticks
      BY <3>1 DEF Ticks
    <3> QED
      BY <3>1, <3>2 DEF status, StatusType, PostedInv, ShownInv, Ticks
  <2>3. ASSUME Begun("ui") PROVE StatusType' /\ PostedInv' /\ ShownInv'
    <3>1. /\ buttons' = ToStop /\ timer' = TRUE /\ UNCHANGED posted
          /\ ~capture /\ capture' = TRUE /\ UNCHANGED stopping
          /\ odd' = IF posted # <<>> THEN odd \cup {"overtaken"} ELSE odd
      BY <2>3 DEF Begun, OnOutputStart, Prepared, flags
    <3>2. odd = {} /\ Ticks = FALSE
      BY <3>1 DEF FlagInv, Ticks
    <3>3. CASE posted = <<>>
      <4>1. Len(posted') = 0 /\ Ticks'
        BY <3>1, <3>2, <3>3 DEF Ticks
      <4> QED
        BY <3>1, <4>1 DEF ToStop, StatusType, PostedInv, ShownInv
    <3>4. CASE posted # <<>>
      <4>1. Len(posted) \in Nat /\ Len(posted) > 0
        BY <3>4, LenProperties DEF StatusType
      <4>2. "overtaken" \in odd' /\ Ticks' = FALSE
        BY <3>1, <3>4 DEF Ticks
      <4>3. posted'[Len(posted')] = <<"timer", FALSE>>
        BY <3>1, <3>2, <4>1 DEF PostedInv
      <4>4. PostedInv'
        BY <4>2, <4>3 DEF PostedInv
      <4> QED
        BY <3>1, <4>1, <4>2, <4>4 DEF ToStop, StatusType, ShownInv
    <3> QED
      BY <3>3, <3>4
  <2>4. ASSUME Begun("hotkey") PROVE StatusType' /\ PostedInv' /\ ShownInv'
    <3>1. OnOutputStart("hotkey") /\ capture' = TRUE /\ odd' = {}
      BY <2>4 DEF Begun, FlagInv
    <3>2. /\ posted' \in Seq(Slots) /\ Len(posted') > 1 /\ UNCHANGED <<buttons, timer>>
          /\ posted'[Len(posted')] = <<"timer", TRUE>>
          /\ posted'[Len(posted') - 1] = <<"buttons", ToStop>>
      BY <3>1, StartPosts
    <3>3. Len(posted') \in Nat /\ Ticks' = TRUE
      BY <3>1, <3>2, LenProperties DEF Ticks
    <3> QED
      BY <3>1, <3>2, <3>3 DEF StatusType, PostedInv, ShownInv
  <2> QED
    BY <1>1, <2>1, <2>2, <2>3, <2>4, StartCases
<1>2. CASE StopCalls
  <2>1. Stop /\ UNCHANGED <<starting, capture, posted, timer>>
    BY <1>2 DEF StopCalls, rtsp_output_stop_hotkey, onPushButtonStopClicked, Exit, status
  <2>2. \/ UNCHANGED buttons
        \/ buttons.stop /\ buttons' = Neither
    BY <1>2 DEF StopCalls, rtsp_output_stop_hotkey, onPushButtonStopClicked, Exit, status
  <2>3. StatusType' /\ PostedInv'
    <3>1. StatusType'
      <4>1. Neither \in [start : BOOLEAN, stop : BOOLEAN]
        BY DEF Neither
      <4> QED
        BY <2>1, <2>2, <4>1 DEF StatusType
    <3>2. "overtaken" \in odd <=> "overtaken" \in odd'
      BY <2>1 DEF Stop
    <3> QED
      BY <2>1, <3>1, <3>2 DEF PostedInv, Ticks
  <2>4. ShownInv'
    <3>1. (Ticks' <=> Ticks) /\ UNCHANGED <<capture, posted, timer>>
      BY <2>1 DEF Stop, Ticks
    <3>2. ASSUME Len(posted) <= 1, ~capture PROVE buttons' = ToStart
      BY <2>2, <3>2 DEF ShownInv, ToStart
    <3>3. ASSUME Len(posted) <= 1, Ticks
          PROVE  ~buttons'.start /\ (buttons'.stop \/ stopping' \/ "ignored" \in odd')
      <4>1. /\ capture /\ ~buttons.start
            /\ buttons.stop \/ stopping \/ "ignored" \in odd
        BY <3>3 DEF ShownInv, Ticks
      <4>2. ~buttons'.start
        BY <2>2, <4>1 DEF Neither
      <4>3. CASE starting
        BY <2>1, <4>1, <4>2, <4>3 DEF Stop
      <4>4. CASE ~starting
        BY <2>1, <4>1, <4>2, <4>4 DEF Stop
      <4> QED
        BY <4>3, <4>4
    <3> QED
      BY <3>1, <3>2, <3>3 DEF ShownInv
  <2> QED
    BY <2>3, <2>4
<1>3. CASE Edits
  <2>1. UNCHANGED <<output, status, odd>>
    BY <1>3 DEF Edits, TickTracks, onCheckBoxEnableAuthenticationClicked,
       onLineEditTextChanged, showEvent, closeEvent, Reject
  <2> QED
    BY <2>1 DEF output, flags, status, StatusType, PostedInv, ShownInv, Ticks
<1>4. CASE Packets
  <2>1. \/ \E times \in {1, 2} : ActualStop(times)
        \/ UNCHANGED <<capture, stopping, status, odd>>
    BY <1>4 DEF Packets, FirstPacket, LastPacket
  <2>2. ASSUME NEW times \in {1, 2}, ActualStop(times)
        PROVE  StatusType' /\ PostedInv' /\ ShownInv'
    <3>1. OnOutputStop(times) /\ capture' = FALSE /\ odd' = {} /\ Ticks' = FALSE
      BY <2>2 DEF ActualStop, Ticks
    <3>2. /\ posted' \in Seq(Slots) /\ Len(posted') > 1 /\ UNCHANGED <<buttons, timer>>
          /\ posted'[Len(posted')] = <<"timer", FALSE>>
          /\ posted'[Len(posted') - 1] = <<"buttons", ToStart>>
      BY <3>1, StopPosts
    <3>3. Len(posted') \in Nat
      BY <3>2, LenProperties
    <3> QED
      <4>1. StatusType' /\ ShownInv'
        BY <3>2, <3>3 DEF StatusType, ShownInv
      <4>2. PostedInv'
        BY <3>1, <3>2 DEF PostedInv
      <4> QED
        BY <4>1, <4>2
  <2>3. CASE UNCHANGED <<capture, stopping, status, odd>>
    BY <2>3 DEF status, StatusType, PostedInv, ShownInv, Ticks
  <2> QED
    BY <2>1, <2>2, <2>3
<1>5. CASE RunPosted
  BY <1>5, PostedRuns
<1>6. CASE StartReturns \/ UNCHANGED vars
  <2>1. UNCHANGED <<capture, stopping, status, odd>>
    BY <1>6 DEF StartReturns, vars, output, flags
  <2> QED
    BY <2>1 DEF status, StatusType, PostedInv, ShownInv, Ticks
<1> QED
  BY <1>1, <1>2, <1>3, <1>4, <1>5, <1>6, Steps

\* What the first packet of a capture finds is what its start has left.
LEMMA AudioKept ==
  ASSUME IInv, UNCHANGED <<active, capture, encoders, channel_ids, channels, ticked, most>>,
         odd \subseteq odd',
         settings'.audio = settings.audio \/ (capture /\ ~active => "again" \in odd')
  PROVE  AudioType' /\ AudioInv'
BY DEF IInv, TypeInv, AudioType, AudioInv, Sources

LEMMA AudioStep ==
  ASSUME IInv, [Next]_vars
  PROVE  AudioType' /\ AudioInv'
<1>1. CASE StartCalls
  <2>1. CASE Refused
    BY <2>1, AudioKept DEF Refused, output, flags, audio, auth
  <2>2. CASE Denied
    <3>1. CASE capture
      <4>1. encoders' = encoders
        BY <1>1, <2>2, <3>1, StartCases, EncodersMade DEF Denied, IInv
      <4>2. channel_ids' = channel_ids
        BY <2>2, <4>1 DEF Denied, Prepared, IInv, TypeInv, AudioType
      <4> QED
        BY <2>2, <3>1, <4>1, <4>2, AudioKept DEF Denied, Prepared, flags
    <3>2. CASE ~capture
      <4>1. encoders' \in Seq(Tracks)
        BY <1>1, <2>2, StartCases, EncodersMade DEF Denied, IInv
      <4>2. ~capture' /\ ~active'
        BY <2>2, <3>2 DEF Denied, Prepared, flags, IInv, FlagInv
      <4> QED
        BY <2>2, <4>1, <4>2 DEF Denied, Prepared, IInv, TypeInv, AudioType, AudioInv
    <3> QED
      BY <3>1, <3>2
  <2>3. ASSUME NEW thread \in {"ui", "hotkey"}, Begun(thread) PROVE AudioType' /\ AudioInv'
    <3>1. config' \subseteq Tracks /\ Prepared /\ ~capture /\ ~active'
      BY <1>1, <2>3, StartCases DEF Begun, Prepared, flags, IInv, FlagInv
    <3>2. /\ ticked' = config' /\ most' = Max({most, Len(encoders)})
          /\ channel_ids' = ChannelIds(Len(encoders'))
      BY <2>3 DEF Begun, Prepared
    <3>3. most' \in Nat /\ most' >= Len(encoders)
      <4>1. most \in Nat /\ Len(encoders) \in Nat
        BY LenProperties DEF IInv, TypeInv, AudioType
      <4> QED
        BY <3>2, <4>1, MaxOfTwo
    <3>4. /\ encoders' \in Seq(Tracks) /\ Len(encoders') > 0
          /\ config' # {} /\ Len(encoders) <= Cardinality(config') => ToSet(encoders') = config'
      BY <3>1, EncodersMade DEF IInv
    <3>5. settings'.audio <=> config' # {}
      BY <3>1 DEF Prepared, rtsp_output_update, IInv, TypeInv, SettingsType
    <3>6. config' # {} /\ most' <= Cardinality(config') => ToSet(encoders') = config'
      <4>1. Cardinality(config') \in Nat /\ Len(encoders) \in Nat
        BY <3>1, InOrderProperties, LenProperties DEF IInv, TypeInv, AudioType
      <4> QED
        BY <3>3, <3>4, <4>1
    <3> QED
      BY <3>1, <3>2, <3>3, <3>4, <3>5, <3>6 DEF AudioType, AudioInv
  <2> QED
    BY <1>1, <2>1, <2>2, <2>3, StartCases DEF IInv
<1>2. CASE StopCalls
  <2>1. /\ Stop /\ UNCHANGED <<active, capture, audio, auth>>
    BY <1>2 DEF StopCalls, rtsp_output_stop_hotkey, onPushButtonStopClicked, Exit
  <2> QED
    BY <2>1, AudioKept DEF Stop, audio, auth
<1>3. CASE Edits
  <2>1. UNCHANGED <<output, audio, odd>> /\ settings'.audio = settings.audio
    BY <1>3 DEF Edits, TickTracks, onCheckBoxEnableAuthenticationClicked,
       onLineEditTextChanged, showEvent, closeEvent, rtsp_output_update, Reject, auth, IInv,
       TypeInv, SettingsType
  <2> QED
    BY <2>1, AudioKept DEF output, flags, audio
<1>4. CASE Packets
  <2>1. CASE \E times \in {1, 2} : ActualStop(times)
    BY <2>1 DEF ActualStop, IInv, TypeInv, AudioType, AudioInv
  <2>2. CASE /\ capture /\ starting /\ active' = TRUE
             /\ channels' = IF ~settings.audio THEN {} ELSE Sources
             /\ UNCHANGED <<capture, encoders, channel_ids, ticked, most, odd>>
    <3>1. ~active /\ Len(encoders) > 0 /\ Len(encoders) \in Nat
      BY <2>2, LenProperties DEF IInv, TypeInv, AudioType, FlagInv
    <3>2. Sources # {}
      <4>1. 1 \in DOMAIN encoders
        BY <3>1, LenProperties DEF IInv, TypeInv, AudioType
      <4> QED
        BY <4>1 DEF Sources
    <3>3. Sources' = Sources
      BY <2>2 DEF Sources
    <3> QED
      BY <2>2, <3>1, <3>2, <3>3 DEF IInv, TypeInv, AudioType, AudioInv
  <2> QED
    BY <1>4, <2>1, <2>2 DEF Packets, FirstPacket, LastPacket, Sources
<1>5. CASE RunPosted \/ StartReturns \/ UNCHANGED vars
  <2>1. UNCHANGED <<active, capture, audio, auth, odd>>
    BY <1>5 DEF RunPosted, StartReturns, vars, output, flags
  <2> QED
    BY <2>1, AudioKept DEF audio, auth
<1> QED
  BY <1>1, <1>2, <1>3, <1>4, <1>5, Steps

LEMMA InvariantStep == IInv /\ [Next]_vars => IInv'
<1> SUFFICES ASSUME IInv, [Next]_vars PROVE IInv'
  OBVIOUS
<1> QED
  BY FlagStep, SettingsStep, StatusStep, AudioStep DEF IInv, TypeInv

LEMMA AlwaysIInv == Spec => []IInv
BY InitialState, InvariantStep, PTL DEF Spec

\* The types of flags, settings, encoders and widgets, whatever thread a start or a stop
\* comes on (RtspProperties, RtspOutputHelper).
THEOREM TypeCorrect == Spec => []TypeInv
<1>1. IInv => TypeInv
  BY DEF IInv
<1> QED
  BY <1>1, AlwaysIInv, PTL

\* When no call is posted, buttons and timer are those of the capture, on whichever thread
\* it began and ended (onButtonStatusChanging, onStatusTimerStatusChanging); a stop while
\* starting leaves the stop button off, and after a start that overtook posted slots the
\* timer is off.
THEOREM DialogFollows == Spec => []DialogInStep
<1>1. posted = <<>> => Len(posted) = 0
  OBVIOUS
<1>2. IInv => DialogInStep
  BY <1>1 DEF IInv, ShownInv, DialogInStep, Ticks
<1> QED
  BY <1>2, AlwaysIInv, PTL

\* The session has the encoders that the start made, each in a channel of its own, and
\* these are those of the ticked tracks (CreateAudioEncoder, rtsp_output_rtsp_start).
THEOREM AudioFollows == Spec => []AudioAsConfigured
<1>1. ASSUME IInv, active PROVE capture
  BY <1>1 DEF IInv, FlagInv
<1>2. ASSUME IInv, active, NEW c \in channels, NEW d \in channels
      PROVE  c[1] # 0 /\ (c[1] = d[1] => c = d)
  <2>1. Len(encoders) \in Nat /\ DOMAIN encoders = 1 .. Len(encoders)
    BY <1>2, LenProperties DEF IInv, TypeInv, AudioType
  <2>2. \A i \in DOMAIN encoders : channel_ids[i] = i
    BY <1>2, <2>1 DEF IInv, TypeInv, AudioType, ChannelIds
  <2>3. PICK i \in DOMAIN encoders : c = <<channel_ids[i], i>>
    BY <1>2 DEF IInv, AudioInv, Sources
  <2>4. PICK j \in DOMAIN encoders : d = <<channel_ids[j], j>>
    BY <1>2 DEF IInv, AudioInv, Sources
  <2> QED
    BY <2>1, <2>2, <2>3, <2>4
<1>3. IInv => AudioAsConfigured
  BY <1>1, <1>2 DEF IInv, AudioInv, Sources, AudioAsConfigured
<1> QED
  BY <1>3, AlwaysIInv, PTL

\* While data is captured the server asks for a password exactly when the settings, and a
\* dialog that was opened then, say so (rtsp_output_update, showEvent, closeEvent).
THEOREM AuthFollows == Spec => []AuthAsShown
<1>1. IInv => AuthAsShown
  BY DEF IInv, AuthInv, AuthAsShown
<1> QED
  BY <1>1, AlwaysIInv, PTL

-----------------------------------------------------------------------------
(***************************************************************************)
(* The frame queue, for any number of producers and consumers, any frames  *)
(* and any limit.                                                          *)
(*                                                                         *)
(* Frames are pushed once each, so the places of entered name them apart:  *)
(* the frame that overflows the queue, and the one that is popped, are at  *)
(* one place only, and changing their fate says nothing of other places.   *)
(* PushInv carries that through a move_push that has begun.  Frames need   *)
(* not be finite: the set of the dropped ones is.                          *)
(***************************************************************************)

\* Frames that have left the queue.
Gone == Len(entered) - Len(data_queue)

Dropped == {f \in Frames : fate[f] = "dropped"}

OrderInv ==
  /\ Gone >= 0
  /\ \A i \in 1..Len(data_queue) : data_queue[i] = entered[Gone + i]
  /\ \A i, j \in 1..Len(entered) : entered[i] = entered[j] => i = j

FateInv ==
  /\ \A i \in 1..Gone : fate[entered[i]] \in {"popped", "dropped"}
  /\ \A i \in Gone + 1..Len(entered) : fate[entered[i]] = "queued"

PushInv ==
  /\ \A p \in Producers : pushing[p] # NoFrame => fate[pushing[p]] = "pushing"
  /\ \A p, r \in Producers : pushing[p] = pushing[r] /\ pushing[p] # NoFrame => p = r

CountInv ==
  /\ IsFiniteSet(Dropped)
  /\ m_dropped_count - first_count = Cardinality(Dropped)

QueueInv == TypeOK /\ OrderInv /\ FateInv /\ PushInv /\ CountInv

-----------------------------------------------------------------------------

LEMMA QueueInitialState == QueueInit => QueueInv
<1> SUFFICES ASSUME QueueInit PROVE QueueInv
  OBVIOUS
<1> USE LimitAssumption, CountsAssumption, FramesAssumption
<1>1. TypeOK
  <2>1. data_queue \in Seq(Frames) /\ Len(data_queue) <= SizeLimit /\ entered \in Seq(Frames)
    BY EmptySeq DEF QueueInit
  <2>2. m_dropped_count \in Nat /\ first_count \in InitialCounts
    BY DEF QueueInit
  <2>3. pushing \in [Producers -> Frames \cup {NoFrame}]
    BY DEF QueueInit
  <2>4. fate \in [Frames -> {"new", "pushing", "queued", "ignored", "popped", "dropped"}]
    BY DEF QueueInit
  <2> QED
    BY <2>1, <2>2, <2>3, <2>4 DEF QueueInit, TypeOK
<1>2. OrderInv /\ FateInv /\ PushInv
  BY DEF QueueInit, OrderInv, FateInv, PushInv, Gone
<1>3. CountInv
  <2>1. Dropped = {}
    BY DEF QueueInit, Dropped
  <2> QED
    BY <2>1, FS_EmptySet DEF QueueInit, CountInv
<1> QED
  BY <1>1, <1>2, <1>3 DEF QueueInv

\* What a full queue does with a frame f that is appended to it: nothing is lost
\* unless one is too many, and then the oldest is.
LEMMA TrimProperties ==
  ASSUME NEW q \in Seq(Frames), Len(q) <= SizeLimit, NEW f \in Frames
  PROVE  LET a == Append(q, f)
             k == IF Len(a) > SizeLimit THEN 1 ELSE 0
         IN  /\ Trim(a) \in Seq(Frames) /\ Len(Trim(a)) = Len(a) - k
             /\ Len(Trim(a)) <= SizeLimit
             /\ \A i \in 1..Len(Trim(a)) : Trim(a)[i] = a[i + k]
             /\ Len(a) > SizeLimit => q # <<>> /\ Head(a) = q[1] /\ Head(a) \in Frames
<1> DEFINE a == Append(q, f)
<1>1. a \in Seq(Frames) /\ a # <<>> /\ Len(a) = Len(q) + 1 /\ Len(q) \in Nat
  BY AppendProperties, LenProperties
<1>2. CASE Len(a) > SizeLimit
  <2>1. Trim(a) = Tail(a) /\ Len(q) = SizeLimit /\ Len(q) > 0
    BY <1>1, <1>2, LimitAssumption DEF Trim
  <2>2. Tail(a) \in Seq(Frames) /\ Len(Tail(a)) = Len(a) - 1
        /\ \A i \in 1..Len(Tail(a)) : Tail(a)[i] = a[i + 1]
    BY <1>1, HeadTailProperties
  <2>3. q # <<>> /\ Head(a) = q[1] /\ Head(a) \in Frames
    BY <1>1, <2>1
  <2> QED
    BY <1>1, <1>2, <2>1, <2>2, <2>3, LimitAssumption
<1>3. CASE ~(Len(a) > SizeLimit)
  <2>1. Trim(a) = a
    BY <1>3 DEF Trim
  <2> QED
    BY <1>1, <1>3, <2>1, LimitAssumption
<1> QED
  BY <1>2, <1>3

\* A frame whose move_push has not come to its critical section is in no place of
\* entered.
LEMMA NotEntered ==
  ASSUME QueueInv, NEW f \in Frames, fate[f] \notin {"queued", "popped", "dropped"}
  PROVE  \A i \in 1..Len(entered) : entered[i] # f
<1> SUFFICES ASSUME NEW i \in 1..Len(entered), entered[i] = f PROVE FALSE
  OBVIOUS
<1>1. Len(entered) \in Nat /\ Len(data_queue) \in Nat
  BY LenProperties DEF QueueInv, TypeOK
<1>2. i \in 1..Gone \/ i \in Gone + 1..Len(entered)
  BY <1>1 DEF QueueInv, OrderInv, Gone
<1> QED
  BY <1>2 DEF QueueInv, FateInv

-----------------------------------------------------------------------------
(***************************************************************************)
(* The steps that touch a frame                                            *)
(***************************************************************************)

LEMMA IgnoreStep ==
  ASSUME QueueInv, NEW p \in Producers, NEW f \in Frames, IgnorePush(p, f)
  PROVE  QueueInv'
<1>1. \A i \in 1..Len(entered) : entered[i] # f
  BY NotEntered DEF IgnorePush
<1>2. fate' = [fate EXCEPT ![f] = "ignored"] /\ fate[f] = "new"
      /\ UNCHANGED <<data_queue, m_dropped_count, pushing, entered, first_count>>
  BY DEF IgnorePush
<1>3. TypeOK'
  BY <1>2 DEF QueueInv, TypeOK, IgnorePush
<1>4. OrderInv' /\ Gone' = Gone
  BY <1>2 DEF QueueInv, OrderInv, Gone
<1>5. Len(entered) \in Nat /\ Gone \in Nat /\ Gone <= Len(entered)
  BY LenProperties DEF QueueInv, TypeOK, OrderInv, Gone
<1>6. FateInv'
  BY <1>1, <1>2, <1>4, <1>5 DEF QueueInv, TypeOK, FateInv
<1>7. PushInv'
  BY <1>2 DEF QueueInv, TypeOK, PushInv
<1>8. CountInv'
  <2>1. Dropped' = Dropped
    BY <1>2 DEF Dropped, QueueInv, TypeOK
  <2> QED
    BY <1>2, <2>1 DEF QueueInv, CountInv
<1> QED
  BY <1>3, <1>4, <1>6, <1>7, <1>8 DEF QueueInv

LEMMA BeginStep ==
  ASSUME QueueInv, NEW p \in Producers, NEW f \in Frames, BeginPush(p, f)
  PROVE  QueueInv'
<1>1. \A i \in 1..Len(entered) : entered[i] # f
  BY NotEntered DEF BeginPush
<1>2. /\ fate' = [fate EXCEPT ![f] = "pushing"] /\ fate[f] = "new"
      /\ pushing' = [pushing EXCEPT ![p] = f]
      /\ UNCHANGED <<data_queue, m_dropped_count, entered, first_count>>
  BY DEF BeginPush
<1>3. TypeOK'
  BY <1>2 DEF QueueInv, TypeOK, BeginPush
<1>4. OrderInv' /\ Gone' = Gone
  BY <1>2 DEF QueueInv, OrderInv, Gone
<1>5. Len(entered) \in Nat /\ Gone \in Nat /\ Gone <= Len(entered)
  BY LenProperties DEF QueueInv, TypeOK, OrderInv, Gone
<1>6. FateInv'
  BY <1>1, <1>2, <1>4, <1>5 DEF QueueInv, TypeOK, FateInv
<1>7. PushInv'
  <2>1. \A r \in Producers : pushing'[r] = IF r = p THEN f ELSE pushing[r]
    BY <1>2 DEF QueueInv, TypeOK
  <2>2. \A r \in Producers : pushing[r] # f
    BY <1>2, FramesAssumption DEF QueueInv, PushInv
  <2>3. \A r \in Producers : pushing'[r] # NoFrame => fate'[pushing'[r]] = "pushing"
    BY <1>2, <2>1, <2>2 DEF QueueInv, TypeOK, PushInv
  <2> QED
    BY <2>1, <2>2, <2>3 DEF QueueInv, PushInv
<1>8. CountInv'
  <2>1. Dropped' = Dropped
    BY <1>2 DEF Dropped, QueueInv, TypeOK
  <2> QED
    BY <1>2, <2>1 DEF QueueInv, CountInv
<1> QED
  BY <1>3, <1>4, <1>6, <1>7, <1>8 DEF QueueInv

LEMMA PopStep ==
  ASSUME QueueInv, NEW c \in Consumers, Pop(c)
  PROVE  QueueInv'
<1> DEFINE h == Head(data_queue)
<1>1. /\ fate' = [fate EXCEPT ![h] = "popped"]
      /\ data_queue' = Tail(data_queue) /\ data_queue # <<>>
      /\ UNCHANGED <<m_termination, m_dropped_count, pushing, waiting, left, entered, first_count>>
  BY DEF Pop
<1>2. /\ Len(entered) \in Nat /\ Len(data_queue) \in Nat /\ Len(data_queue) > 0
      /\ data_queue' \in Seq(Frames) /\ Len(data_queue') = Len(data_queue) - 1
      /\ \A i \in 1..Len(data_queue') : data_queue'[i] = data_queue[i + 1]
  BY <1>1, HeadTailProperties, LenProperties, EmptySeq DEF QueueInv, TypeOK
<1>3. h = entered[Gone + 1] /\ Gone + 1 \in 1..Len(entered) /\ Gone \in Nat /\ h \in Frames
  BY <1>1, <1>2 DEF QueueInv, TypeOK, OrderInv, Gone
<1>4. Gone' = Gone + 1
  BY <1>1, <1>2 DEF Gone
<1>5. \A i \in 1..Len(entered) : i # Gone + 1 => entered[i] # h /\ entered[i] \in Frames
  BY <1>3, ElementOfSeq DEF QueueInv, OrderInv, TypeOK
<1>6. fate[h] = "queued"
  BY <1>3 DEF QueueInv, FateInv
<1>7. TypeOK'
  <2>1. data_queue' \in Seq(Frames) /\ Len(data_queue') <= SizeLimit
    BY <1>2, LimitAssumption DEF QueueInv, TypeOK
  <2>2. fate' \in [Frames -> {"new", "pushing", "queued", "ignored", "popped", "dropped"}]
    BY <1>1, <1>3 DEF QueueInv, TypeOK
  <2> QED
    BY <1>1, <2>1, <2>2 DEF QueueInv, TypeOK
<1>8. OrderInv'
  <2>1. \A i \in 1..Len(data_queue') : data_queue'[i] = entered'[Gone' + i]
    BY <1>1, <1>2, <1>3, <1>4 DEF QueueInv, OrderInv
  <2> QED
    BY <1>1, <1>3, <1>4, <2>1 DEF QueueInv, OrderInv
<1>9. FateInv'
  BY <1>1, <1>3, <1>4, <1>5 DEF QueueInv, TypeOK, FateInv
<1>10. PushInv'
  BY <1>1, <1>6 DEF QueueInv, TypeOK, PushInv
<1>11. CountInv'
  <2>1. Dropped' = Dropped
    BY <1>1, <1>3, <1>6 DEF Dropped, QueueInv, TypeOK
  <2> QED
    BY <1>1, <2>1 DEF QueueInv, CountInv
<1> QED
  BY <1>7, <1>8, <1>9, <1>10, <1>11 DEF QueueInv

LEMMA FinishStep ==
  ASSUME QueueInv, NEW p \in Producers, FinishPush(p)
  PROVE  QueueInv'
<1> DEFINE f == pushing[p]
           a == Append(data_queue, f)
           k == IF Len(a) > SizeLimit THEN 1 ELSE 0
           h == Head(a)
<1>1. /\ data_queue' = Trim(a) /\ entered' = Append(entered, f)
      /\ m_dropped_count' = m_dropped_count + k
      /\ fate' = IF k = 1 THEN [fate EXCEPT ![f] = "queued", ![h] = "dropped"]
                          ELSE [fate EXCEPT ![f] = "queued"]
      /\ pushing' = [pushing EXCEPT ![p] = NoFrame]
      /\ UNCHANGED <<m_termination, left, first_count>>
      /\ waiting' \in SUBSET waiting
  <2>1. waiting' \in SUBSET waiting
    BY DEF FinishPush, NotifyOne
  <2>2. m_dropped_count' = m_dropped_count + k
    BY DEF FinishPush, DroppedCountAfter, QueueInv, TypeOK
  <2>3. k = 1 <=> Len(a) > SizeLimit
    OBVIOUS
  <2>4. fate' = IF Len(a) > SizeLimit THEN [fate EXCEPT ![f] = "queued", ![h] = "dropped"]
                                      ELSE [fate EXCEPT ![f] = "queued"]
    BY DEF FinishPush
  <2>5. /\ data_queue' = Trim(a) /\ entered' = Append(entered, f)
        /\ pushing' = [pushing EXCEPT ![p] = NoFrame]
        /\ UNCHANGED <<m_termination, left, first_count>>
    BY DEF FinishPush
  <2> HIDE DEF a, h, f
  <2> QED
    BY <2>1, <2>2, <2>3, <2>4, <2>5
<1>2. f \in Frames /\ fate[f] = "pushing" /\ \A i \in 1..Len(entered) : entered[i] # f
  <2>1. f \in Frames /\ fate[f] = "pushing"
    BY DEF FinishPush, QueueInv, TypeOK, PushInv
  <2> QED
    BY <2>1, NotEntered
<1>3. /\ Len(entered) \in Nat /\ Len(data_queue) \in Nat /\ Gone \in Nat
      /\ Gone + Len(data_queue) = Len(entered)
  BY LenProperties DEF QueueInv, TypeOK, OrderInv, Gone
<1>4. /\ entered' \in Seq(Frames) /\ Len(entered') = Len(entered) + 1
      /\ \A i \in 1..Len(entered) : entered'[i] = entered[i]
      /\ entered'[Len(entered) + 1] = f
  BY <1>1, <1>2, AppendProperties DEF QueueInv, TypeOK
<1>5. /\ Len(a) = Len(data_queue) + 1 /\ a[Len(data_queue) + 1] = f
      /\ \A i \in 1..Len(data_queue) : a[i] = data_queue[i]
  BY <1>2, AppendProperties DEF QueueInv, TypeOK
<1>6. /\ data_queue' \in Seq(Frames) /\ Len(data_queue') = Len(data_queue) + 1 - k
      /\ Len(data_queue') <= SizeLimit
      /\ \A i \in 1..Len(data_queue') : data_queue'[i] = a[i + k]
      /\ k = 1 => data_queue # <<>> /\ h = data_queue[1] /\ h \in Frames
  <2>1. /\ data_queue' \in Seq(Frames) /\ Len(data_queue') = Len(a) - k
        /\ Len(data_queue') <= SizeLimit
        /\ \A i \in 1..Len(data_queue') : data_queue'[i] = a[i + k]
        /\ Len(a) > SizeLimit => data_queue # <<>> /\ h \in Frames /\ h = data_queue[1]
    BY <1>1, <1>2, TrimProperties DEF QueueInv, TypeOK
  <2> QED
    BY <1>3, <1>5, <2>1
<1>7. k \in {0, 1} /\ Gone' = Gone + k
  BY <1>3, <1>4, <1>6 DEF Gone
<1>8. ASSUME k = 1
      PROVE  h = entered[Gone + 1] /\ Gone + 1 \in 1..Len(entered) /\ fate[h] = "queued" /\ h # f
  <2>1. Len(data_queue) > 0
    BY <1>3, <1>6, <1>8, EmptySeq DEF QueueInv, TypeOK
  <2>2. h = entered[Gone + 1] /\ Gone + 1 \in 1..Len(entered)
    BY <1>3, <1>6, <1>8, <2>1 DEF QueueInv, OrderInv
  <2> QED
    BY <1>2, <1>3, <2>2 DEF QueueInv, FateInv
<1>9. \A g \in Frames : fate'[g] = IF k = 1 /\ g = h THEN "dropped"
                                   ELSE IF g = f THEN "queued" ELSE fate[g]
  <2>1. CASE k = 1
    BY <1>1, <1>2, <1>6, <2>1 DEF QueueInv, TypeOK
  <2>2. CASE k = 0
    BY <1>1, <1>2, <2>2 DEF QueueInv, TypeOK
  <2> QED
    BY <1>7, <2>1, <2>2
<1>10. TypeOK'
  <2>1. fate' \in [Frames -> {"new", "pushing", "queued", "ignored", "popped", "dropped"}]
    BY <1>1, <1>2 DEF QueueInv, TypeOK
  <2>2. m_dropped_count' \in Nat
    BY <1>1, <1>7 DEF QueueInv, TypeOK
  <2>3. pushing' \in [Producers -> Frames \cup {NoFrame}]
    BY <1>1 DEF QueueInv, TypeOK
  <2> QED
    BY <1>1, <1>4, <1>6, <2>1, <2>2, <2>3 DEF QueueInv, TypeOK
<1>11. OrderInv'
  <2>1. ASSUME NEW i \in 1..Len(data_queue') PROVE data_queue'[i] = entered'[Gone' + i]
    <3>1. i + k \in 1..Len(data_queue) + 1 /\ Gone' + i = Gone + (i + k)
      BY <1>3, <1>6, <1>7
    <3>2. CASE i + k = Len(data_queue) + 1
      BY <1>3, <1>4, <1>5, <1>6, <3>1, <3>2
    <3>3. CASE i + k \in 1..Len(data_queue)
      <4>1. data_queue[i + k] = entered[Gone + (i + k)]
        BY <3>3 DEF QueueInv, OrderInv
      <4> QED
        BY <1>3, <1>4, <1>5, <1>6, <3>1, <3>3, <4>1
    <3> QED
      BY <1>3, <3>1, <3>2, <3>3
  <2>2. ASSUME NEW i \in 1..Len(entered'), NEW j \in 1..Len(entered'), entered'[i] = entered'[j]
        PROVE  i = j
    <3>1. CASE i \in 1..Len(entered) /\ j \in 1..Len(entered)
      BY <1>4, <2>2, <3>1 DEF QueueInv, OrderInv
    <3>2. \A m \in 1..Len(entered') : m \in 1..Len(entered) \/ m = Len(entered) + 1
      BY <1>3, <1>4
    <3> QED
      BY <1>2, <1>3, <1>4, <2>2, <3>1, <3>2
  <2> QED
    BY <1>3, <1>7, <2>1, <2>2 DEF OrderInv
<1>12. FateInv'
  <2>1. ASSUME NEW i \in 1..Len(entered)
        PROVE  entered'[i] = entered[i] /\ entered[i] \in Frames
               /\ fate'[entered[i]] = IF k = 1 /\ i = Gone + 1 THEN "dropped" ELSE fate[entered[i]]
    <3>1. entered'[i] = entered[i] /\ entered[i] \in Frames /\ entered[i] # f
      BY <1>2, <1>4, ElementOfSeq DEF QueueInv, TypeOK
    <3>2. k = 1 => (entered[i] = h <=> i = Gone + 1)
      BY <1>8 DEF QueueInv, OrderInv
    <3> QED
      BY <1>9, <3>1, <3>2
  <2>2. fate'[entered'[Len(entered) + 1]] = "queued"
    BY <1>2, <1>4, <1>8, <1>9
  <2> HIDE DEF k, f, h
  <2>3. ASSUME NEW i \in 1..Gone' PROVE fate'[entered'[i]] \in {"popped", "dropped"}
    <3>1. i \in 1..Len(entered) /\ (i \in 1..Gone \/ (k = 1 /\ i = Gone + 1))
      BY <1>3, <1>7, <1>8
    <3> QED
      BY <1>3, <2>1, <3>1 DEF QueueInv, FateInv
  <2>4. ASSUME NEW i \in Gone' + 1..Len(entered') PROVE fate'[entered'[i]] = "queued"
    <3>1. CASE i = Len(entered) + 1
      BY <2>2, <3>1
    <3>2. CASE i # Len(entered) + 1
      <4>1. i \in Gone + 1..Len(entered) /\ i \in 1..Len(entered) /\ ~(k = 1 /\ i = Gone + 1)
        BY <1>3, <1>4, <1>7, <3>2
      <4> QED
        BY <2>1, <4>1 DEF QueueInv, FateInv
    <3> QED
      BY <3>1, <3>2
  <2> QED
    BY <2>3, <2>4 DEF FateInv
<1>13. PushInv'
  <2>1. \A r \in Producers : pushing'[r] = IF r = p THEN NoFrame ELSE pushing[r]
    BY <1>1 DEF QueueInv, TypeOK
  <2>2. ASSUME NEW r \in Producers, pushing'[r] # NoFrame PROVE fate'[pushing'[r]] = "pushing"
    <3>1. r # p /\ pushing'[r] = pushing[r] /\ pushing[r] \in Frames /\ fate[pushing[r]] = "pushing"
      BY <2>1, <2>2 DEF QueueInv, TypeOK, PushInv
    <3>2. pushing[r] # f
      BY <3>1, <2>2 DEF QueueInv, PushInv
    <3> QED
      BY <1>8, <1>9, <3>1, <3>2
  <2> QED
    BY <2>1, <2>2 DEF QueueInv, PushInv
<1>14. CountInv'
  <2>1. Dropped' = IF k = 1 THEN Dropped \cup {h} ELSE Dropped
    BY <1>2, <1>6, <1>7, <1>9 DEF Dropped
  <2>2. k = 1 => h \notin Dropped
    BY <1>8 DEF Dropped
  <2>3. /\ IsFiniteSet(Dropped')
        /\ Cardinality(Dropped') = Cardinality(Dropped) + k
        /\ Cardinality(Dropped) \in Nat
    BY <1>7, <2>1, <2>2, FS_AddElement, FS_CardinalityType DEF QueueInv, CountInv
  <2>4. m_dropped_count \in Int /\ first_count \in Int
    BY CountsAssumption DEF QueueInv, TypeOK
  <2> QED
    BY <1>1, <1>7, <2>3, <2>4 DEF QueueInv, CountInv
<1> QED
  BY <1>10, <1>11, <1>12, <1>13, <1>14 DEF QueueInv

-----------------------------------------------------------------------------
(***************************************************************************)
(* The other steps, and the theorems                                       *)
(***************************************************************************)

LEMMA FramesUntouched ==
  ASSUME QueueInv, UNCHANGED <<data_queue, m_dropped_count, pushing, entered, fate, first_count>>,
         m_termination' \in BOOLEAN, waiting' \subseteq Consumers, left' \subseteq Consumers
  PROVE  QueueInv'
<1>1. TypeOK'
  BY DEF QueueInv, TypeOK
<1>2. Gone' = Gone /\ Dropped' = Dropped
  BY DEF Gone, Dropped
<1> QED
  BY <1>1, <1>2 DEF QueueInv, OrderInv, FateInv, PushInv, CountInv

LEMMA QueueInvStep == QueueInv /\ [QueueNext]_queueVars => QueueInv'
<1> SUFFICES ASSUME QueueInv, [QueueNext]_queueVars PROVE QueueInv'
  OBVIOUS
<1>1. ASSUME NEW p \in Producers, NEW f \in Frames, IgnorePush(p, f) PROVE QueueInv'
  BY <1>1, IgnoreStep
<1>2. ASSUME NEW p \in Producers, NEW f \in Frames, BeginPush(p, f) PROVE QueueInv'
  BY <1>2, BeginStep
<1>3. ASSUME NEW p \in Producers, FinishPush(p) PROVE QueueInv'
  BY <1>3, FinishStep
<1>4. ASSUME NEW c \in Consumers, Pop(c) PROVE QueueInv'
  BY <1>4, PopStep
<1>5. ASSUME NEW c \in Consumers, Block(c) \/ Leave(c) \/ WakeSpuriously(c) PROVE QueueInv'
  <2>1. /\ UNCHANGED <<data_queue, m_dropped_count, pushing, entered, fate, first_count>>
        /\ m_termination' = m_termination
    BY <1>5 DEF Block, Leave, WakeSpuriously
  <2>2. waiting' \subseteq Consumers /\ left' \subseteq Consumers /\ m_termination \in BOOLEAN
    BY <1>5 DEF Block, Leave, WakeSpuriously, QueueInv, TypeOK
  <2> QED
    BY <2>1, <2>2, FramesUntouched
<1>6. CASE Terminate
  <2>1. waiting' \subseteq Consumers /\ left' \subseteq Consumers
    BY <1>6 DEF Terminate, QueueInv, TypeOK
  <2> QED
    BY <1>6, <2>1, FramesUntouched DEF Terminate
<1>7. CASE UNCHANGED queueVars
  <2>1. waiting' \subseteq Consumers /\ left' \subseteq Consumers /\ m_termination' \in BOOLEAN
    BY <1>7 DEF queueVars, QueueInv, TypeOK
  <2> QED
    BY <1>7, <2>1, FramesUntouched DEF queueVars
<1> QED
  BY <1>1, <1>2, <1>3, <1>4, <1>5, <1>6, <1>7 DEF QueueNext

LEMMA AlwaysQueueInv == QueueSpec => []QueueInv
BY QueueInitialState, QueueInvStep, PTL DEF QueueSpec

\* The queue never holds more than size_limit frames while mut is free.
THEOREM QueueTypeCorrect == QueueSpec => []TypeOK
<1>1. QueueInv => TypeOK
  BY DEF QueueInv
<1> QED
  BY <1>1, AlwaysQueueInv, PTL

\* The queue is the newest part of what entered, in order, whatever entered
\* before was popped or dropped, and dropped_count() counts the dropped ones.
THEOREM NewestKept == QueueSpec => []KeepsNewest
<1>1. ASSUME QueueInv PROVE KeepsNewest
  <2>1. /\ Len(entered) \in Nat /\ Len(data_queue) \in Nat /\ Gone \in Nat
        /\ Gone + Len(data_queue) = Len(entered)
    BY <1>1, LenProperties DEF QueueInv, TypeOK, OrderInv, Gone
  <2>2. data_queue = SubSeq(entered, Gone + 1, Len(entered))
    <3> DEFINE s == SubSeq(entered, Gone + 1, Len(entered))
    <3>1. \A i \in Gone + 1..Len(entered) : entered[i] \in Frames
      BY <1>1, <2>1, ElementOfSeq DEF QueueInv, TypeOK
    <3>2. /\ s \in Seq(Frames) /\ Len(s) = Len(data_queue)
          /\ \A i \in 1..Len(data_queue) : s[i] = entered[Gone + 1 + i - 1]
      BY <2>1, <3>1, SubSeqProperties
    <3>3. \A i \in 1..Len(data_queue) : data_queue[i] = s[i]
      <4>1. ASSUME NEW i \in 1..Len(data_queue)
            PROVE  data_queue[i] = entered[Gone + i] /\ s[i] = entered[Gone + i]
        <5>1. Gone + 1 + i - 1 = Gone + i
          BY <2>1
        <5> QED
          BY <1>1, <3>2, <5>1 DEF QueueInv, OrderInv
      <4> QED
        BY <4>1
    <3> QED
      BY <1>1, <3>2, <3>3, SeqEqual DEF QueueInv, TypeOK
  <2> QED
    BY <1>1, <2>1, <2>2 DEF QueueInv, FateInv, CountInv, KeepsNewest, Gone, Dropped
<1> QED
  BY <1>1, AlwaysQueueInv, PTL

=============================================================================
