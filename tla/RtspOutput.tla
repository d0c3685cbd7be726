----------------------------- MODULE RtspOutput -----------------------------
(***************************************************************************)
(* rtsp_output.cpp: the OBS output that owns the server, the frame queue   *)
(* and the push thread.  Three threads share rtsp_out_data:                *)
(*                                                                         *)
(*   ui       OBS's UI thread calls rtsp_output_start and rtsp_output_stop *)
(*            (the dialog, the hotkeys, auto start, exit);                 *)
(*   encoder  OBS calls rtsp_output_data with every packet, one call at a  *)
(*            time; it does the real start and the real stop from there;   *)
(*   pusher   rtsp_push_frame, from the queue to RtspServer::PushFrame.    *)
(*                                                                         *)
(* starting, active and stopping are atomics that are tested and set apart *)
(* from each other: every test and every store is a step of its own.  The  *)
(* queue is ThreadsafeQueue, a new one for each start.                     *)
(*                                                                         *)
(* OBS itself is not in the repository.  What the code relies on: packets  *)
(* come only while data is captured; stop is called only on an output that *)
(* captures; a capture that ends is over, and another may begin, only when *)
(* no callback is running.                                                 *)
(***************************************************************************)
EXTENDS Integers, Sequences, FiniteSets

CONSTANTS
  Frames,       \* the frames that the encoders may deliver between start and stop
  SizeLimit,    \* OBS_RTSPSERVER_QUEUE_SIZE_LIMIT
  NoFrame,      \* no frame
  MaxStarts     \* bound of the model: calls of rtsp_output_start

ASSUME StartsAssumption == MaxStarts \in Nat
ASSUME LimitAssumption  == SizeLimit \in Nat \ {0}
ASSUME FramesAssumption == NoFrame \notin Frames

VARIABLES
  starting, active, stopping,   \* the flags of rtsp_out_data
  due,          \* the packets' time has reached stop_ts
  frame_queue,  \* frame_queue is not null
  session_id,   \* session_id is not 0: the session is in the server
  listening,    \* the server has acceptors
  capture,      \* OBS: "off", "on", "failed" (an encoder gave up), "ending"
  ui,           \* where the UI thread is in start or stop
  starts,       \* how many calls of rtsp_output_start passed the first test
  encoder,      \* where the encoder's callback is
  pusher,       \* frame_push_thread: "none", "popping", "serving", "done"
  hand,         \* the frame that the pusher has popped
  served,       \* history: frames that reached a registered session
  late,         \* history: a stop was accepted after the capture began to end
  data_queue, m_termination, m_dropped_count, pushing, waiting, left, entered, fate,
  first_count   \* the queue, as in ThreadsafeQueue

Queue == INSTANCE ThreadsafeQueue
           WITH Producers <- {"encoder"}, Consumers <- {"pusher"}, InitialCounts <- {0}

flags == <<starting, active, stopping>>
queue == <<data_queue, m_termination, m_dropped_count, pushing, waiting, left, entered,
           fate, first_count>>
server == <<session_id, listening>>
vars  == <<flags, due, frame_queue, server, capture, ui, starts, encoder, pusher, hand,
           served, late, queue>>

Init ==
  /\ starting = FALSE /\ active = FALSE /\ stopping = FALSE
  /\ due = FALSE
  /\ frame_queue = FALSE
  /\ session_id = FALSE
  /\ listening = FALSE
  /\ capture = "off"
  /\ ui = "idle"
  /\ starts = 0
  /\ encoder = "idle"
  /\ pusher = "none"
  /\ hand = NoFrame
  /\ served = {}
  /\ late = FALSE
  /\ Queue!QueueInit

-----------------------------------------------------------------------------
(***************************************************************************)
(* rtsp_output_start                                                       *)
(***************************************************************************)

uiElse == <<starting, active, stopping, due, frame_queue, session_id, encoder, pusher,
            hand, served, late, queue>>

\* Neither starting nor stopping.
StartTest ==
  /\ ui = "idle"
  /\ starts < MaxStarts
  /\ ~starting /\ ~stopping
  /\ ui' = "begin"
  /\ starts' = starts + 1
  /\ UNCHANGED <<uiElse, listening, capture>>

\* Data is captured already, or the encoders cannot be initialised: return
\* false.  obs_output_can_begin_data_capture waits for a capture that is ending.
StartDenied ==
  /\ ui = "begin"
  /\ capture # "ending"
  /\ ui' = "idle"
  /\ UNCHANGED <<uiElse, starts, listening, capture>>

EncodersReady ==
  /\ ui = "begin"
  /\ capture = "off"
  /\ ui' = "listen"
  /\ UNCHANGED <<uiElse, starts, listening, capture>>

\* Mutant: what was opened before the second address failed is not closed.
ServerHalfStarted ==
  /\ ui = "listen"
  /\ listening' = TRUE
  /\ ui' = "idle"
  /\ UNCHANGED <<uiElse, starts, capture>>

\* One of the two server->Start fails: server->Stop, return false.
ServerNotStarted ==
  /\ ui = "listen"
  /\ listening' = FALSE
  /\ ui' = "idle"
  /\ UNCHANGED <<uiElse, starts, capture>>

ServerStarted ==
  /\ ui = "listen"
  /\ listening' = TRUE
  /\ ui' = "capture"
  /\ UNCHANGED <<uiElse, starts, capture>>

\* obs_output_begin_data_capture; what it returns is ignored.
BeginCapture ==
  /\ ui = "capture"
  /\ capture' \in {"on", "off"}
  /\ ui' = "mark"
  /\ UNCHANGED <<uiElse, starts, listening>>

MarkStarting ==
  /\ ui = "mark"
  /\ starting' = TRUE
  /\ ui' = "idle"
  /\ UNCHANGED <<active, stopping, due, frame_queue, server, capture, starts, encoder,
                 pusher, hand, served, late, queue>>

-----------------------------------------------------------------------------
(***************************************************************************)
(* rtsp_output_stop                                                        *)
(***************************************************************************)

\* Neither starting nor stopping.
StopTest ==
  /\ ui = "idle"
  /\ capture # "off"
  /\ ~starting /\ ~stopping
  /\ ui' = "stop"
  /\ UNCHANGED <<uiElse, starts, listening, capture>>

\* stop_ts and stopping are set, whatever has happened since the test.
StopMark ==
  /\ ui = "stop"
  /\ stopping' = TRUE
  /\ due' = FALSE
  /\ late' = (late \/ (encoder = "idle" /\ ~active))
  /\ ui' = "idle"
  /\ UNCHANGED <<starting, active, frame_queue, server, capture, starts, encoder, pusher,
                 hand, served, queue>>

UiWorks == \/ StartDenied \/ EncodersReady \/ ServerNotStarted \/ ServerStarted
           \/ BeginCapture \/ MarkStarting \/ StopMark

-----------------------------------------------------------------------------
(***************************************************************************)
(* rtsp_output_data: which way a packet goes                               *)
(***************************************************************************)

Capturing == capture \in {"on", "failed"}

encoderOnly == <<flags, due, frame_queue, server, ui, starts, pusher, hand, served, late,
                 queue>>

\* Packets have caught up with stop_ts.
TimePasses ==
  /\ stopping /\ ~due
  /\ Capturing
  /\ due' = TRUE
  /\ UNCHANGED <<flags, frame_queue, server, capture, ui, starts, encoder, pusher, hand,
                 served, late, queue>>

\* starting: the packet is used up by rtsp_output_rtsp_start.
StartPacket ==
  /\ encoder = "idle" /\ Capturing
  /\ starting
  /\ encoder' = "sources"
  /\ UNCHANGED <<encoderOnly, capture>>

\* The null packet of an encoder that failed: ignored by an output that is
\* idle, taken for a first packet by one that is starting, and otherwise the
\* end of the output.
NullPacket ==
  /\ encoder = "idle"
  /\ capture = "on"
  /\ capture' = "failed"
  /\ encoder' = CASE starting           -> "sources"
                  [] ~starting /\ active  -> "deactivate"
                  [] ~starting /\ ~active -> "idle"
  /\ UNCHANGED encoderOnly

\* stopping, and the packet is not older than stop_ts.
LastPacket ==
  /\ encoder = "idle" /\ Capturing
  /\ active /\ ~starting
  /\ stopping /\ due
  /\ encoder' = "deactivate"
  /\ UNCHANGED <<encoderOnly, capture>>

\* rtsp_output_video and rtsp_output_audio: move_push is entered ...
PushPacket ==
  /\ encoder = "idle" /\ Capturing
  /\ active /\ ~starting
  /\ ~(stopping /\ due)
  /\ \/ (\E f \in Frames : Queue!IgnorePush("encoder", f)) /\ UNCHANGED encoder
     \/ (\E f \in Frames : Queue!BeginPush("encoder", f)) /\ encoder' = "push"
  /\ UNCHANGED <<flags, due, frame_queue, server, capture, ui, starts, pusher, hand,
                 served, late>>

\* ... and done.
PushPacketDone ==
  /\ encoder = "push"
  /\ Queue!FinishPush("encoder")
  /\ encoder' = "idle"
  /\ UNCHANGED <<flags, due, frame_queue, server, capture, ui, starts, pusher, hand,
                 served, late>>

-----------------------------------------------------------------------------
(***************************************************************************)
(* rtsp_output_rtsp_start, in the encoder's callback                       *)
(***************************************************************************)

\* No video encoder, or an audio channel that cannot be added: actual_stop.
SourcesFail ==
  /\ encoder = "sources"
  /\ encoder' = "deactivate"
  /\ UNCHANGED <<encoderOnly, capture>>

\* The session has its sources; a new frame queue.
NewQueue ==
  /\ encoder = "sources"
  /\ frame_queue' = TRUE
  /\ data_queue' = <<>> /\ entered' = <<>>
  /\ m_termination' = FALSE
  /\ m_dropped_count' = 0 /\ first_count' = 0
  /\ pushing' = [p \in {"encoder"} |-> NoFrame]
  /\ waiting' = {} /\ left' = {}
  /\ fate' = [f \in Frames |-> "new"]
  /\ served' = {}
  /\ encoder' = "register"
  /\ UNCHANGED <<flags, due, server, capture, ui, starts, pusher, hand, late>>

\* server->AddSession
AddSession ==
  /\ encoder = "register"
  /\ session_id' = TRUE
  /\ encoder' = "multicast"
  /\ UNCHANGED <<flags, due, frame_queue, listening, capture, ui, starts, pusher, hand,
                 served, late, queue>>

\* StartMulticast finds no address: actual_stop, with no push thread yet.
MulticastFails ==
  /\ encoder = "multicast"
  /\ encoder' = "deactivate"
  /\ UNCHANGED <<encoderOnly, capture>>

\* Multicast is off or started: the push thread is created.
SpawnPusher ==
  /\ encoder = "multicast"
  /\ pusher' = "popping"
  /\ encoder' = "activate"
  /\ UNCHANGED <<flags, due, frame_queue, server, capture, ui, starts, hand, served, late,
                 queue>>

Activate ==
  /\ encoder = "activate"
  /\ active' = TRUE
  /\ encoder' = "started"
  /\ UNCHANGED <<starting, stopping, due, frame_queue, server, capture, ui, starts, pusher,
                 hand, served, late, queue>>

Started ==
  /\ encoder = "started"
  /\ starting' = FALSE
  /\ encoder' = "idle"
  /\ UNCHANGED <<active, stopping, due, frame_queue, server, capture, ui, starts, pusher,
                 hand, served, late, queue>>

-----------------------------------------------------------------------------
(***************************************************************************)
(* rtsp_output_actual_stop, in the encoder's callback                      *)
(***************************************************************************)

\* Mutant: the output stays active while it is taken down.
DeactivateNot ==
  /\ encoder = "deactivate"
  /\ encoder' = "terminate"
  /\ UNCHANGED <<encoderOnly, capture>>

Deactivate ==
  /\ encoder = "deactivate"
  /\ active' = FALSE
  /\ encoder' = "terminate"
  /\ UNCHANGED <<starting, stopping, due, frame_queue, server, capture, ui, starts, pusher,
                 hand, served, late, queue>>

\* Mutant: the queue is not told to end.
TerminateNothing ==
  /\ encoder = "terminate"
  /\ encoder' = "join"
  /\ UNCHANGED <<encoderOnly, capture>>

\* frame_queue->termination(), if there is one.
TerminateQueue ==
  /\ encoder = "terminate"
  /\ IF frame_queue THEN Queue!Terminate ELSE UNCHANGED queue
  /\ encoder' = "join"
  /\ UNCHANGED <<flags, due, frame_queue, server, capture, ui, starts, pusher, hand, served,
                 late>>

\* Mutant: the push thread is not waited for.
JoinNobody ==
  /\ encoder = "join"
  /\ encoder' = "unregister"
  /\ UNCHANGED <<encoderOnly, capture>>

\* frame_push_thread->join(), if there is one.
JoinPusher ==
  /\ encoder = "join"
  /\ pusher \in {"none", "done"}
  /\ pusher' = "none"
  /\ encoder' = "unregister"
  /\ UNCHANGED <<flags, due, frame_queue, server, capture, ui, starts, hand, served, late,
                 queue>>

\* server->RemoveSession, if there is a session.
RemoveSession ==
  /\ encoder = "unregister"
  /\ session_id' = FALSE
  /\ encoder' = "close"
  /\ UNCHANGED <<flags, due, frame_queue, listening, capture, ui, starts, pusher, hand,
                 served, late, queue>>

\* server->Stop returns.
StopServer ==
  /\ encoder = "close"
  /\ listening' = FALSE
  /\ encoder' = "drop"
  /\ UNCHANGED <<flags, due, frame_queue, session_id, capture, ui, starts, pusher, hand,
                 served, late, queue>>

\* frame_queue.reset()
DropQueue ==
  /\ encoder = "drop"
  /\ frame_queue' = FALSE
  /\ encoder' = "end"
  /\ UNCHANGED <<flags, due, server, capture, ui, starts, pusher, hand, served, late, queue>>

\* obs_output_end_data_capture, or obs_output_signal_stop with an error code:
\* either way OBS begins to end the capture.
EndCapture ==
  /\ encoder = "end"
  /\ capture' = "ending"
  /\ encoder' = "clear starting"
  /\ UNCHANGED encoderOnly

ClearStarting ==
  /\ encoder = "clear starting"
  /\ starting' = FALSE
  /\ encoder' = "clear stopping"
  /\ UNCHANGED <<active, stopping, due, frame_queue, server, capture, ui, starts, pusher,
                 hand, served, late, queue>>

\* Mutant: stopping is not cleared.
ClearStoppingNot ==
  /\ encoder = "clear stopping"
  /\ encoder' = "idle"
  /\ UNCHANGED <<encoderOnly, capture>>

ClearStopping ==
  /\ encoder = "clear stopping"
  /\ stopping' = FALSE
  /\ encoder' = "idle"
  /\ UNCHANGED <<starting, active, due, frame_queue, server, capture, ui, starts, pusher,
                 hand, served, late, queue>>

EncoderWorks ==
  \/ PushPacketDone
  \/ SourcesFail \/ NewQueue \/ AddSession \/ MulticastFails \/ SpawnPusher \/ Activate
  \/ Started
  \/ Deactivate \/ TerminateQueue \/ JoinPusher \/ RemoveSession \/ StopServer \/ DropQueue
  \/ EndCapture \/ ClearStarting \/ ClearStopping

\* OBS waits for a running callback before it takes the capture for ended.
CaptureEnds ==
  /\ capture = "ending"
  /\ encoder = "idle"
  /\ capture' = "off"
  /\ UNCHANGED <<encoderOnly, encoder>>

-----------------------------------------------------------------------------
(***************************************************************************)
(* rtsp_push_frame                                                         *)
(***************************************************************************)

pusherElse == <<flags, due, frame_queue, server, capture, ui, starts, encoder, late>>

PopFrame ==
  /\ pusher = "popping"
  /\ Queue!Pop("pusher")
  /\ hand' = Head(data_queue)
  /\ pusher' = "serving"
  /\ UNCHANGED <<pusherElse, served>>

WaitForFrame ==
  /\ pusher = "popping"
  /\ Queue!Block("pusher")
  /\ UNCHANGED <<pusherElse, pusher, hand, served>>

WakeForNothing ==
  /\ Queue!WakeSpuriously("pusher")
  /\ UNCHANGED <<pusherElse, pusher, hand, served>>

\* server->PushFrame finds the session, or not.
PushFrame ==
  /\ pusher = "serving"
  /\ served' = IF session_id THEN served \cup {hand} ELSE served
  /\ hand' = NoFrame
  /\ pusher' = "popping"
  /\ UNCHANGED <<pusherElse, queue>>

\* Mutant: the push thread ends as soon as the queue is terminated.
LeaveAtOnce ==
  /\ pusher = "popping"
  /\ m_termination
  /\ left' = left \cup {"pusher"}
  /\ pusher' = "done"
  /\ UNCHANGED <<pusherElse, hand, served, data_queue, m_termination, m_dropped_count,
                 pushing, waiting, entered, fate, first_count>>

\* nullptr: the push thread ends.
LeaveQueue ==
  /\ pusher = "popping"
  /\ Queue!Leave("pusher")
  /\ pusher' = "done"
  /\ UNCHANGED <<pusherElse, hand, served>>

PusherWorks == PopFrame \/ WaitForFrame \/ PushFrame \/ LeaveQueue

-----------------------------------------------------------------------------

Next ==
  \/ StartTest \/ StopTest \/ UiWorks
  \/ StartPacket \/ NullPacket \/ LastPacket \/ PushPacket \/ TimePasses
  \/ EncoderWorks
  \/ CaptureEnds
  \/ PusherWorks \/ WakeForNothing

(***************************************************************************)
(* The threads run.  While encoders work, packets come, their time passes  *)
(* stop_ts, and each is given to rtsp_output_data; nothing obliges an      *)
(* encoder to fail, OBS to start or stop, or a given frame to exist.       *)
(***************************************************************************)
Fairness ==
  /\ WF_vars(UiWorks)
  /\ WF_vars(capture = "on" /\ (StartPacket \/ LastPacket \/ TimePasses))
  /\ WF_vars(EncoderWorks)
  /\ WF_vars(CaptureEnds)
  /\ WF_vars(PusherWorks)

Spec == Init /\ [][Next]_vars /\ Fairness

-----------------------------------------------------------------------------
(***************************************************************************)
(* Properties                                                              *)
(***************************************************************************)

Stops == {"deactivate", "terminate", "join", "unregister", "close", "drop", "end",
          "clear starting", "clear stopping"}

\* Every variable holds a value of its type, and the pusher holds a frame
\* exactly while it serves it.
TypeOK ==
  /\ starting \in BOOLEAN /\ active \in BOOLEAN /\ stopping \in BOOLEAN
  /\ due \in BOOLEAN /\ frame_queue \in BOOLEAN
  /\ session_id \in BOOLEAN /\ listening \in BOOLEAN
  /\ capture \in {"off", "on", "failed", "ending"}
  /\ ui \in {"idle", "begin", "listen", "capture", "mark", "stop"}
  /\ starts \in 0..MaxStarts
  /\ encoder \in Stops \cup {"idle", "push", "sources", "register", "multicast", "activate",
                             "started"}
  /\ pusher \in {"none", "popping", "serving", "done"}
  /\ hand \in Frames \cup {NoFrame} /\ (hand # NoFrame <=> pusher = "serving")
  /\ served \subseteq Frames
  /\ late \in BOOLEAN
  /\ Queue!TypeOK

\* Whenever the flags say active, there is all that an active output needs:
\* acceptors, the session, the queue and the push thread.  The callbacks use
\* frame_queue on the strength of the flag alone.
ReadyWhenActive == active => listening /\ session_id /\ frame_queue /\ pusher # "none"

\* While the push thread lives, the queue that it pops from is not destroyed or
\* replaced, its session stays in the server, and no second push thread is
\* created over it (rtsp_push_frame, rtsp_output_actual_stop).
PusherNotOrphaned ==
  /\ pusher # "none" => frame_queue /\ session_id
  /\ pusher # "none" => encoder \notin {"sources", "register", "multicast"}

\* The frames that were in the queue when the output stopped are still served:
\* once the push thread is joined, each frame that entered the queue was
\* dropped or reached the session.
QueueDrained ==
  encoder = "unregister" =>
    \A f \in Frames : fate[f] \in {"new", "ignored", "dropped"} \/ f \in served

\* An output that is off, whichever way a start failed or a stop came, holds
\* neither acceptors, session, queue nor thread.
NothingLeftBehind ==
  capture = "off" /\ ui = "idle" /\ ~starting =>
    ~listening /\ ~session_id /\ ~frame_queue /\ pusher = "none"

\* stopping is set only on the way to a stop, except when rtsp_output_stop was
\* called on an output that had stopped by itself and whose capture OBS was
\* still ending: then nothing clears it.
OnlyLateStopSticks == stopping => active \/ encoder \in Stops \/ late

\* A stop of an active output whose encoders work ends.
StopCompletes == stopping /\ active /\ capture = "on" ~> ~stopping

\* A start whose capture has begun is over some time: the first packet starts
\* the server or takes it down.
StartCompletes == starting /\ capture = "on" ~> ~starting

\* rtsp_output_actual_stop returns, whatever state the push thread is in (its
\* join waits for that thread, which waits on the queue), and OBS gets to end
\* the capture.
TakedownCompletes == encoder = "deactivate" ~> capture = "off"

\* What the user asked for comes to an end, in the encoder's callbacks: stops, starts,
\* and the takedown that either of them may lead to.
CallsComplete == StopCompletes /\ StartCompletes /\ TakedownCompletes

=============================================================================
