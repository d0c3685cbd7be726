------------------------------ MODULE RtspPlugin ------------------------------
(***************************************************************************)
(* The plugin around the output: the dialog (RtspProperties), the helper   *)
(* that makes the encoders before a start (RtspOutputHelper), the events   *)
(* of OBS (rtsp_main.cpp), the hotkeys, and of rtsp_output.cpp what these  *)
(* agree on: settings, audio channels, and the flags.  The threads inside  *)
(* a start and a stop are RtspOutput's matter: here the calls of the       *)
(* encoder's thread are one step each.                                     *)
(*                                                                         *)
(* Three threads.  The UI thread runs the dialog and the events of OBS.    *)
(* Hotkeys come on it or on one of their own.  The encoder's thread calls  *)
(* rtsp_output_data.  The output's signals "start" and "stop" are raised   *)
(* on the thread that starts or stops it; OnOutputStart and OnOutputStop   *)
(* call the dialog's slots at once on the UI thread, and from others post  *)
(* them to it.                                                             *)
(*                                                                         *)
(* OBS is not in the repository.  It captures data from                    *)
(* obs_output_begin_data_capture, which raises "start", to                 *)
(* obs_output_end_data_capture or obs_output_signal_stop, which raise      *)
(* "stop"; passes a stop on only while it captures; changes no encoder of  *)
(* an output that does; and an output keeps an encoder till it gets        *)
(* another for its place.                                                  *)
(***************************************************************************)
EXTENDS Integers, Sequences, FiniteSets, FiniteSetsExt, SequencesExt

CONSTANTS
  Tracks,      \* audio tracks of OBS, numbers
  MaxStarts    \* bound: captures that begin

ASSUME TracksAssumption == IsFiniteSet(Tracks) /\ Tracks \subseteq Nat /\ Tracks # {}
ASSUME StartsAssumption == MaxStarts \in Nat

VARIABLES
  starting, active, stopping,  \* the flags of rtsp_out_data
  capture,       \* obs_output_active
  calling,       \* who is in rtsp_output_start past the "start" signal: "ui", "hotkey", "nobody"
  starts,        \* captures that have begun
  settings,      \* the output's settings: [auth, named (realm and user name), audio]
  server_auth,   \* has_auth_info_ of the server
  encoders,      \* the output's audio encoders: the track of each, from index 1 on
  channel_ids,   \* the channel of each index
  channels,      \* of the session: those with an audio source, and whose index it is
  topic,         \* bound: what the user edits in this behaviour, "tracks" or "auth"
  config,        \* AudioTracks of config.ini, as a set
  boxes,         \* the dialog's check boxes: [tracks, auth]
  shown,         \* the dialog is shown
  buttons,       \* which are enabled: [start, stop]
  timer,         \* statusTimer runs
  posted,        \* slot calls posted to the UI thread: <<slot, argument>>
  loaded,        \* FINISHED_LOADING has come
  gone,          \* EXIT has come: the helper is deleted
  ticked,        \* history: the tracks of config.ini at the last start
  most,          \* history: the most tracks a start before that one had
  edited,        \* history: a setting was changed since the dialog opened or closed
  odd            \* history of this capture: "ignored" (a stop while starting), "overtaken"
                 \* (a start on the UI thread while slots of a stop were posted), "again"
                 \* (a start that failed between "start" and the first packet)

flags   == <<starting, active, stopping>>
output  == <<flags, capture, calling, starts>>
audio   == <<encoders, channel_ids, channels, ticked, most>>
auth    == <<settings, server_auth>>
dialog  == <<topic, config, boxes, shown, edited>>
status  == <<buttons, timer, posted>>
module  == <<loaded, gone>>
vars    == <<output, audio, auth, dialog, status, module, odd>>

-----------------------------------------------------------------------------
(***************************************************************************)
(* The slots: setButtonStatus, setStatusTimerStatus                        *)
(***************************************************************************)

\* onButtonStatusChanging, onStatusTimerStatusChanging
Slot(call) ==
  IF call[1] = "buttons" THEN buttons' = call[2] /\ UNCHANGED timer
  ELSE timer' = call[2] /\ UNCHANGED buttons

ToStart == [start |-> TRUE, stop |-> FALSE]
ToStop  == [start |-> FALSE, stop |-> TRUE]
Neither == [start |-> FALSE, stop |-> FALSE]

OnOutputStart(thread) ==
  IF thread = "ui" THEN buttons' = ToStop /\ timer' = TRUE /\ UNCHANGED posted
  ELSE /\ posted' = posted \o <<<<"buttons", ToStop>>, <<"timer", TRUE>>>>
       /\ UNCHANGED <<buttons, timer>>

\* Mutant: the timer is not stopped.
OnOutputStopKeepsTimer(times) ==
  /\ posted' = posted \o <<<<"buttons", ToStart>>>>
  /\ UNCHANGED <<buttons, timer>>

\* times: how often "stop" is raised.
OnOutputStop(times) ==
  LET slots == <<<<"buttons", ToStart>>, <<"timer", FALSE>>>>
  IN /\ posted' = IF times = 1 THEN posted \o slots ELSE posted \o slots \o slots
     /\ UNCHANGED <<buttons, timer>>

RunPosted ==
  /\ posted # <<>> /\ calling # "ui"
  /\ Slot(Head(posted))
  /\ posted' = Tail(posted)
  /\ UNCHANGED <<output, audio, auth, dialog, module, odd>>

-----------------------------------------------------------------------------
(***************************************************************************)
(* RtspOutputHelper: what the "pre_start" signal does                      *)
(***************************************************************************)

\* rtsp_output_update: without a realm or a user name authentication is switched off.
rtsp_output_update(s) ==
  /\ settings' = [s EXCEPT !.auth = s.auth /\ s.named]
  /\ server_auth' = settings'.auth

\* The loop over the bits of AudioTracks: the lowest track first.
InOrder(tracks) ==
  CHOOSE s \in [1 .. Cardinality(tracks) -> tracks] :
    \A i, j \in 1 .. Cardinality(tracks) : i < j => s[i] < s[j]

\* CreateAudioEncoder: an encoder for each track of config.ini, and without any for the
\* first; those at higher places stay.
CreateAudioEncoder ==
  LET tracks == IF config' = {} THEN {Min(Tracks)} ELSE config'
      new    == InOrder(tracks)
  IN encoders' = IF capture THEN encoders
                 ELSE new \o SubSeq(encoders, Len(new) + 1, Len(encoders))

\* Mutant: numbered from the video's channel on.
ChannelIdsFromVideo(n) == [i \in 1 .. n |-> i - 1]

\* rtsp_output_start: ++enabled_audio_channels_count for each index with an encoder.
ChannelIds(n) == [i \in 1 .. n |-> i]

-----------------------------------------------------------------------------
(***************************************************************************)
(* rtsp_output_start, by way of obs_output_start                           *)
(***************************************************************************)

\* Up to obs_output_begin_data_capture: nothing at all, an error, or a capture.
Start(thread) ==
  IF starting \/ stopping THEN UNCHANGED <<output, audio, auth, status, odd>>
  ELSE /\ CreateAudioEncoder
       /\ rtsp_output_update([settings EXCEPT !.audio = config' # {}])
       /\ channel_ids' = ChannelIds(Len(encoders'))
       /\ UNCHANGED <<flags, channels>>
       /\ \/ /\ odd' = IF capture /\ ~active THEN odd \cup {"again"} ELSE odd
             /\ UNCHANGED <<capture, calling, starts, ticked, most, status>>
          \/ /\ ~capture /\ starts < MaxStarts
             /\ capture' = TRUE /\ starts' = starts + 1
             /\ calling' = thread
             /\ ticked' = config'
             /\ most' = Max({most, Len(encoders)})
             /\ OnOutputStart(thread)
             /\ odd' = IF thread = "ui" /\ posted # <<>> THEN odd \cup {"overtaken"} ELSE odd

\* The rest of it.
StartReturns ==
  /\ calling # "nobody"
  /\ starting' = TRUE
  /\ calling' = "nobody"
  /\ UNCHANGED <<active, stopping, capture, starts, audio, auth, dialog, status, module, odd>>

\* rtsp_output_stop, by way of obs_output_stop
Stop ==
  /\ stopping' = (stopping \/ (capture /\ ~starting))
  /\ odd' = IF capture /\ starting THEN odd \cup {"ignored"} ELSE odd

-----------------------------------------------------------------------------
(***************************************************************************)
(* Hotkeys                                                                 *)
(***************************************************************************)

rtsp_output_start_hotkey(thread) ==
  /\ ~gone
  /\ thread = "ui" => calling # "ui"
  /\ calling # "hotkey"
  /\ ~starting /\ ~stopping /\ ~active
  /\ UNCHANGED config
  /\ Start(thread)
  /\ UNCHANGED <<topic, boxes, shown, edited, module>>

rtsp_output_stop_hotkey ==
  /\ ~gone
  /\ ~starting /\ ~stopping /\ active
  /\ Stop
  /\ UNCHANGED <<starting, active, capture, calling, starts, audio, auth, dialog, status, module>>

-----------------------------------------------------------------------------
(***************************************************************************)
(* rtsp_output_data, on the encoder's thread                               *)
(***************************************************************************)

\* rtsp_output_actual_stop.  A code above 0 ends the capture and signals: "stop" comes
\* twice.  One below 0 only signals, and 0 only ends the capture.
ActualStop(times) ==
  /\ active' = FALSE /\ starting' = FALSE /\ stopping' = FALSE
  /\ capture' = FALSE
  /\ channels' = {}
  /\ OnOutputStop(times)
  /\ odd' = {}
  /\ UNCHANGED <<calling, starts, encoders, channel_ids, ticked, most, auth, dialog, module>>

\* The first packet: rtsp_output_rtsp_start makes the session, with a source for each
\* encoder, or fails with a code above 0.
FirstPacket ==
  /\ capture /\ starting
  /\ \/ ActualStop(2)
     \/ /\ channels' = IF ~settings.audio THEN {}
                       ELSE {<<channel_ids[i], i>> : i \in DOMAIN encoders}
        /\ active' = TRUE /\ starting' = FALSE
        /\ UNCHANGED <<stopping, capture, calling, starts, encoders, channel_ids, ticked, most,
                       auth, dialog, status, module, odd>>

\* The packet that is no packet (OBS_OUTPUT_ENCODE_ERROR, below 0; at any time), and the
\* one that has reached stop_ts (0; when stopping).  All others are pushed.
LastPacket ==
  /\ capture /\ active /\ ~starting
  /\ ActualStop(1)

-----------------------------------------------------------------------------
(***************************************************************************)
(* RtspProperties and the events of OBS, on the UI thread                  *)
(***************************************************************************)

OnUi == calling # "ui" /\ ~gone

\* SaveConfig
SaveConfig == config' = boxes.tracks

onPushButtonStartClicked ==
  /\ OnUi /\ shown /\ buttons.start
  /\ SaveConfig
  /\ Start("ui")
  /\ UNCHANGED <<topic, boxes, shown, edited, module>>

onPushButtonStopClicked ==
  /\ OnUi /\ shown /\ buttons.stop
  /\ Stop
  /\ buttons' = Neither
  /\ UNCHANGED <<starting, active, capture, calling, starts, audio, auth, dialog, timer,
                 posted, module>>

\* The boxes of the tracks are enabled with the start button.
TickTracks(tracks) ==
  /\ OnUi /\ shown /\ topic = "tracks"
  /\ buttons.start
  /\ boxes' = [boxes EXCEPT !.tracks = tracks]
  /\ UNCHANGED <<output, audio, auth, topic, config, shown, edited, status, module, odd>>

onCheckBoxEnableAuthenticationClicked(checked) ==
  /\ OnUi /\ shown /\ topic = "auth"
  /\ boxes' = [boxes EXCEPT !.auth = checked]
  /\ settings' = [settings EXCEPT !.auth = checked]
  /\ edited' = TRUE
  /\ UNCHANGED <<output, audio, server_auth, topic, config, shown, status, module, odd>>

\* onLineEditRealmTextChanged, onLineEditUsernameTextChanged
onLineEditTextChanged(named) ==
  /\ OnUi /\ shown /\ topic = "auth"
  /\ settings' = [settings EXCEPT !.named = named]
  /\ edited' = TRUE
  /\ UNCHANGED <<output, audio, server_auth, topic, config, boxes, shown, status, module, odd>>

showEvent ==
  /\ OnUi /\ loaded /\ ~shown
  /\ shown' = TRUE
  /\ boxes' = [boxes EXCEPT !.auth = settings.named /\ settings.auth]
  /\ UNCHANGED <<output, audio, auth, topic, config, edited, status, module, odd>>

\* Mutant: the settings that were edited are not put into effect.
closeEventNoUpdate ==
  /\ OnUi /\ shown
  /\ shown' = FALSE
  /\ SaveConfig
  /\ edited' = FALSE
  /\ UNCHANGED <<output, audio, auth, topic, boxes, status, module, odd>>

\* closeEvent: SaveConfig, UpdateSettings
closeEvent ==
  /\ OnUi /\ shown
  /\ shown' = FALSE
  /\ SaveConfig
  /\ rtsp_output_update(settings)
  /\ edited' = FALSE
  /\ UNCHANGED <<output, audio, topic, boxes, status, module, odd>>

\* Hidden without being closed (QDialog's Escape).
Reject ==
  /\ OnUi /\ shown
  /\ shown' = FALSE
  /\ UNCHANGED <<output, audio, auth, topic, config, boxes, edited, status, module, odd>>

\* rtsp_output_auto_start, on FINISHED_LOADING: AutoStart of config.ini is TRUE, or FALSE.
rtsp_output_auto_start ==
  /\ OnUi /\ ~loaded
  /\ loaded' = TRUE
  /\ UNCHANGED config
  /\ Start("ui") \/ UNCHANGED <<output, audio, auth, status, odd>>
  /\ UNCHANGED <<topic, boxes, shown, edited, gone>>

\* EXIT: Stop, and what has to be saved; the dialog lives on till the main window goes.
Exit ==
  /\ OnUi /\ loaded /\ ~shown
  /\ gone' = TRUE
  /\ Stop
  /\ UNCHANGED <<starting, active, capture, calling, starts, audio, auth, dialog, status, loaded>>

-----------------------------------------------------------------------------
\* obs_module_load: settings and config.ini as the last time left them, the dialog made.
Init ==
  /\ starting = FALSE /\ active = FALSE /\ stopping = FALSE
  /\ capture = FALSE /\ calling = "nobody" /\ starts = 0
  /\ topic \in {"tracks", "auth"}
  /\ settings \in IF topic = "auth" THEN [auth : BOOLEAN, named : BOOLEAN, audio : {TRUE}]
                  ELSE [auth : {FALSE}, named : {FALSE}, audio : BOOLEAN]
  /\ server_auth = FALSE
  /\ encoders = <<>> /\ channel_ids = <<>> /\ channels = {}
  /\ config \in IF topic = "auth" THEN {Tracks} ELSE SUBSET Tracks
  /\ boxes = [tracks |-> config, auth |-> FALSE]     \* LoadConfig
  /\ shown = FALSE /\ buttons = ToStart /\ timer = FALSE /\ posted = <<>>
  /\ loaded = FALSE /\ gone = FALSE
  /\ ticked = {} /\ most = 0 /\ edited = FALSE /\ odd = {}

Packets == FirstPacket \/ LastPacket

Next ==
  \/ \E thread \in {"ui", "hotkey"} : rtsp_output_start_hotkey(thread)
  \/ StartReturns \/ rtsp_output_stop_hotkey \/ RunPosted \/ Packets
  \/ onPushButtonStartClicked \/ onPushButtonStopClicked
  \/ \E tracks \in SUBSET Tracks : TickTracks(tracks)
  \/ \E checked \in BOOLEAN : onCheckBoxEnableAuthenticationClicked(checked)
  \/ \E named \in BOOLEAN : onLineEditTextChanged(named)
  \/ showEvent \/ closeEvent \/ Reject \/ rtsp_output_auto_start \/ Exit

Spec == Init /\ [][Next]_vars

-----------------------------------------------------------------------------
(***************************************************************************)
(* Properties                                                              *)
(***************************************************************************)

\* When nothing is posted and no start is under way, the dialog agrees with the output,
\* wherever it was started and stopped from: without a capture it can be started, and the
\* timer is off; in a capture it cannot be, the timer runs, and it can be stopped unless a
\* stop is under way.  The exceptions are the code's: a stop that came while the output
\* was starting is ignored, and has left the stop button off; and when a start on the UI
\* thread has overtaken what a stop had posted, the dialog shows that stop, and the timer
\* is off for the whole capture.
DialogInStep ==
  posted = <<>> /\ calling = "nobody" =>
    /\ ~capture => buttons = ToStart
    /\ timer <=> capture /\ "overtaken" \notin odd
    /\ capture /\ "overtaken" \notin odd =>
         /\ ~buttons.start
         /\ buttons.stop \/ stopping \/ "ignored" \in odd

\* While the output is active each audio encoder has a channel of its own, which is not the
\* video's, and the session has a source in each of them and in no other, or in none if
\* no track was ticked; and, unless a start before had more tracks, the encoders are those
\* of the tracks that config.ini had at this start, whatever was ticked since.  A start
\* that fails since another has begun changes output_audio before it is denied.
AudioAsConfigured ==
  active =>
    /\ channels \in {{}, {<<channel_ids[i], i>> : i \in DOMAIN encoders}}
    /\ \A c, d \in channels : c[1] # 0 /\ (c[1] = d[1] => c = d)
    /\ "again" \notin odd => (channels = {} <=> ticked = {})
    /\ ticked # {} /\ most <= Cardinality(ticked) => ToSet(encoders) = ticked

\* While data is captured and no setting is edited, the server asks for a password exactly
\* when the settings say so, and a dialog that was opened then shows it.
AuthAsShown ==
  capture /\ ~edited => (server_auth <=> settings.auth) /\ (shown => (boxes.auth <=> server_auth))

=============================================================================
