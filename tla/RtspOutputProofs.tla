--------------------------- MODULE RtspOutputProofs ---------------------------
(***************************************************************************)
(* The safety invariants of RtspOutput, proved for any frames, any limit   *)
(* of the queue and any number of starts.                                  *)
(*                                                                         *)
(* starting, active and stopping are no lock: what keeps the threads apart *)
(* is where each of them can be when a flag has a value.  CaptureInv,      *)
(* UiInv and FlagsInv say that; ResourceInv ties what the output holds to  *)
(* where the encoder's callback is; QueueInv follows each frame, up to the *)
(* end of the push thread, which leaves an empty, terminated queue.        *)
(***************************************************************************)
EXTENDS RtspOutput, TLAPS, SequenceTheorems

Clearing  == {"clear starting", "clear stopping"}
Preparing == {"sources", "register", "multicast"}

\* Where the encoder's callback can be.
Places ==
  {"idle", "push", "sources", "register", "multicast", "activate", "started", "deactivate",
   "terminate", "join", "unregister", "close", "drop", "end", "clear starting",
   "clear stopping"}

\* TypeOK, without the queue and the frames.
FlagTypes ==
  /\ starting \in BOOLEAN /\ active \in BOOLEAN /\ stopping \in BOOLEAN
  /\ due \in BOOLEAN /\ frame_queue \in BOOLEAN
  /\ session_id \in BOOLEAN /\ listening \in BOOLEAN
  /\ late \in BOOLEAN

PlaceTypes ==
  /\ capture \in {"off", "on", "failed", "ending"}
  /\ ui \in {"idle", "begin", "listen", "capture", "mark", "stop"}
  /\ starts \in 0..MaxStarts
  /\ encoder \in Places
  /\ pusher \in {"none", "popping", "serving", "done"}

CaptureInv ==
  /\ capture = "off" => encoder = "idle" /\ ~active
  /\ capture = "ending" => encoder \in Clearing \cup {"idle"} /\ ~active
  /\ encoder \in Clearing => capture = "ending"
  /\ capture = "ending" /\ encoder # "clear starting" => ~starting

UiInv ==
  /\ starting => ui = "idle"
  /\ ui \in {"listen", "capture"} => capture = "off"
  /\ ui = "mark" => capture # "ending" /\ encoder = "idle" /\ ~active
  /\ ui \in {"capture", "mark"} => listening

FlagsInv ==
  /\ encoder \in Preparing \cup {"activate"} => starting /\ ~active
  /\ encoder = "started" => starting /\ active
  /\ encoder = "push" => ~starting /\ active
  /\ encoder = "idle" => ~(starting /\ active)
  /\ encoder \in Stops \ {"deactivate"} => ~active

ResourceInv ==
  /\ active \/ encoder = "activate" => listening /\ session_id /\ frame_queue /\ pusher # "none"
  /\ pusher # "none" =>
       frame_queue /\ session_id
       /\ (active \/ encoder \in {"activate", "deactivate", "terminate", "join"})
  /\ encoder \in {"idle", "sources"} /\ ~active => ~frame_queue /\ ~session_id
  /\ encoder = "register" => frame_queue /\ ~session_id
  /\ encoder = "multicast" => frame_queue /\ session_id
  /\ encoder \in Preparing => listening /\ pusher = "none"
  /\ encoder = "idle" /\ starting => listening
  /\ encoder \in {"close", "drop", "end"} \cup Clearing => ~session_id
  /\ encoder \in {"drop", "end"} \cup Clearing => ~listening
  /\ encoder \in {"end"} \cup Clearing => ~frame_queue
  /\ encoder = "idle" /\ ~active /\ ~starting /\ ui \notin {"capture", "mark"} => ~listening

Control ==
  /\ FlagTypes /\ PlaceTypes
  /\ CaptureInv /\ UiInv /\ FlagsInv /\ ResourceInv /\ OnlyLateStopSticks

\* Every frame was refused, dropped or served.
Drained == \A f \in Frames : fate[f] \in {"new", "ignored", "dropped"} \/ f \in served

QueueType ==
  /\ hand \in Frames \cup {NoFrame} /\ (hand # NoFrame <=> pusher = "serving")
  /\ served \subseteq Frames
  /\ Queue!TypeOK

FrameInv ==
  /\ \A f \in Frames : fate[f] = "pushing" => pushing["encoder"] = f
  /\ \A f \in Frames : fate[f] = "queued" => \E i \in 1..Len(data_queue) : data_queue[i] = f
  /\ \A f \in Frames : fate[f] = "popped" => f \in served \/ f = hand

EndInv ==
  /\ encoder = "push" <=> pushing["encoder"] # NoFrame
  /\ m_termination => ~active /\ encoder \notin {"push", "register", "multicast", "activate"}
  /\ pusher = "done" => m_termination
  /\ pusher \in {"none", "done"} => Drained

Path == QueueType /\ FrameInv /\ EndInv

IInv == Control /\ Path

-----------------------------------------------------------------------------
(***************************************************************************)
(* Where the threads are, and what the flags say of it                     *)
(***************************************************************************)

LEMMA InitialControl == Init => Control
<1> SUFFICES ASSUME Init PROVE Control
  OBVIOUS
<1>1. FlagTypes
  BY DEF Init, FlagTypes
<1>4. PlaceTypes
  BY StartsAssumption DEF Init, PlaceTypes, Places
<1>2. CaptureInv /\ UiInv /\ FlagsInv
  BY DEF Init, CaptureInv, UiInv, FlagsInv, Clearing, Preparing, Stops
<1>3. ResourceInv /\ OnlyLateStopSticks
  BY DEF Init, ResourceInv, OnlyLateStopSticks, Preparing
<1> QED
  BY <1>1, <1>2, <1>3, <1>4 DEF Control

\* The pusher's steps, before and after its thread exists, and the passing of time.
LEMMA OtherThreads ==
  ASSUME Control,
         UNCHANGED <<flags, frame_queue, server, capture, ui, starts, encoder, late>>,
         due' \in BOOLEAN, pusher' \in {"none", "popping", "serving", "done"},
         pusher' = "none" <=> pusher = "none"
  PROVE  Control'
<1> USE DEF flags, server
<1>1. FlagTypes' /\ PlaceTypes'
  BY DEF Control, FlagTypes, PlaceTypes
<1>2. CaptureInv' /\ UiInv' /\ FlagsInv'
  BY DEF Control, CaptureInv, UiInv, FlagsInv
<1>3. ResourceInv' /\ OnlyLateStopSticks'
  BY DEF Control, ResourceInv, OnlyLateStopSticks
<1> QED
  BY <1>1, <1>2, <1>3 DEF Control

LEMMA UiControl == Control /\ (StartTest \/ StopTest \/ UiWorks) => Control'
<1> SUFFICES ASSUME Control, StartTest \/ StopTest \/ UiWorks PROVE Control'
  OBVIOUS
<1> USE DEF uiElse, flags, server, FlagTypes, PlaceTypes, CaptureInv, UiInv, FlagsInv,
            Clearing, Preparing
<1>1. CASE StartTest
  <2>1. FlagTypes'
    BY <1>1 DEF StartTest, Control
  <2>2. PlaceTypes'
    <3>1. starts \in 0..MaxStarts /\ starts < MaxStarts /\ starts' = starts + 1
      BY <1>1 DEF StartTest, Control
    <3>2. starts' \in 0..MaxStarts
      BY <3>1, StartsAssumption
    <3> QED
      BY <1>1, <3>2 DEF StartTest, Control
  <2>3. CaptureInv' /\ UiInv' /\ FlagsInv'
    BY <1>1 DEF StartTest, Control, Stops, Places
  <2>4. ResourceInv' /\ OnlyLateStopSticks'
    BY <1>1 DEF StartTest, Control, Stops, Places, ResourceInv, OnlyLateStopSticks
  <2> QED
    BY <2>1, <2>2, <2>3, <2>4 DEF Control
<1>2. CASE StopTest
  <2>1. FlagTypes'
    BY <1>2 DEF StopTest, Control
  <2>2. PlaceTypes'
    BY <1>2 DEF StopTest, Control
  <2>3. CaptureInv' /\ UiInv' /\ FlagsInv'
    BY <1>2 DEF StopTest, Control, Stops, Places
  <2>4. ResourceInv' /\ OnlyLateStopSticks'
    BY <1>2 DEF StopTest, Control, Stops, Places, ResourceInv, OnlyLateStopSticks
  <2> QED
    BY <2>1, <2>2, <2>3, <2>4 DEF Control
<1>3. CASE StartDenied
  <2>1. FlagTypes'
    BY <1>3 DEF StartDenied, Control
  <2>2. PlaceTypes'
    BY <1>3 DEF StartDenied, Control
  <2>3. CaptureInv' /\ UiInv' /\ FlagsInv'
    BY <1>3 DEF StartDenied, Control, Stops, Places
  <2>4. ResourceInv' /\ OnlyLateStopSticks'
    BY <1>3 DEF StartDenied, Control, Stops, Places, ResourceInv, OnlyLateStopSticks
  <2> QED
    BY <2>1, <2>2, <2>3, <2>4 DEF Control
<1>4. CASE EncodersReady
  <2>1. FlagTypes'
    BY <1>4 DEF EncodersReady, Control
  <2>2. PlaceTypes'
    BY <1>4 DEF EncodersReady, Control
  <2>3. CaptureInv' /\ UiInv' /\ FlagsInv'
    BY <1>4 DEF EncodersReady, Control, Stops, Places
  <2>4. ResourceInv' /\ OnlyLateStopSticks'
    BY <1>4 DEF EncodersReady, Control, Stops, Places, ResourceInv, OnlyLateStopSticks
  <2> QED
    BY <2>1, <2>2, <2>3, <2>4 DEF Control
<1>5. CASE ServerNotStarted
  <2>1. FlagTypes'
    BY <1>5 DEF ServerNotStarted, Control
  <2>2. PlaceTypes'
    BY <1>5 DEF ServerNotStarted, Control
  <2>3. CaptureInv' /\ UiInv' /\ FlagsInv'
    BY <1>5 DEF ServerNotStarted, Control, Stops, Places
  <2>4. ResourceInv' /\ OnlyLateStopSticks'
    BY <1>5 DEF ServerNotStarted, Control, Stops, Places, ResourceInv, OnlyLateStopSticks
  <2> QED
    BY <2>1, <2>2, <2>3, <2>4 DEF Control
<1>6. CASE ServerStarted
  <2>1. FlagTypes'
    BY <1>6 DEF ServerStarted, Control
  <2>2. PlaceTypes'
    BY <1>6 DEF ServerStarted, Control
  <2>3. CaptureInv' /\ UiInv' /\ FlagsInv'
    BY <1>6 DEF ServerStarted, Control, Stops, Places
  <2>4. ResourceInv' /\ OnlyLateStopSticks'
    BY <1>6 DEF ServerStarted, Control, Stops, Places, ResourceInv, OnlyLateStopSticks
  <2> QED
    BY <2>1, <2>2, <2>3, <2>4 DEF Control
<1>7. CASE BeginCapture
  <2>1. FlagTypes'
    BY <1>7 DEF BeginCapture, Control
  <2>2. PlaceTypes'
    BY <1>7 DEF BeginCapture, Control
  <2>3. CaptureInv' /\ UiInv' /\ FlagsInv'
    BY <1>7 DEF BeginCapture, Control, Stops, Places
  <2>4. ResourceInv' /\ OnlyLateStopSticks'
    BY <1>7 DEF BeginCapture, Control, Stops, Places, ResourceInv, OnlyLateStopSticks
  <2> QED
    BY <2>1, <2>2, <2>3, <2>4 DEF Control
<1>8. CASE MarkStarting
  <2>1. FlagTypes'
    BY <1>8 DEF MarkStarting, Control
  <2>2. PlaceTypes'
    BY <1>8 DEF MarkStarting, Control
  <2>3. CaptureInv' /\ UiInv' /\ FlagsInv'
    BY <1>8 DEF MarkStarting, Control, Stops, Places
  <2>4. ResourceInv' /\ OnlyLateStopSticks'
    BY <1>8 DEF MarkStarting, Control, Stops, Places, ResourceInv, OnlyLateStopSticks
  <2> QED
    BY <2>1, <2>2, <2>3, <2>4 DEF Control
<1>9. CASE StopMark
  <2>1. FlagTypes'
    BY <1>9 DEF StopMark, Control
  <2>2. PlaceTypes'
    BY <1>9 DEF StopMark, Control
  <2>3. CaptureInv' /\ UiInv' /\ FlagsInv'
    BY <1>9 DEF StopMark, Control, Stops, Places
  <2>4. ResourceInv' /\ OnlyLateStopSticks'
    BY <1>9 DEF StopMark, Control, Stops, Places, ResourceInv, OnlyLateStopSticks
  <2> QED
    BY <2>1, <2>2, <2>3, <2>4 DEF Control
<1> QED
  BY <1>1, <1>2, <1>3, <1>4, <1>5, <1>6, <1>7, <1>8, <1>9 DEF UiWorks

LEMMA EncoderControl ==
  ASSUME Control,
         \/ StartPacket \/ NullPacket \/ LastPacket \/ PushPacket
         \/ EncoderWorks \/ CaptureEnds
  PROVE  Control'
<1> USE DEF encoderOnly, flags, server, FlagTypes, PlaceTypes, CaptureInv, UiInv, FlagsInv,
            Clearing, Preparing
<1>1. CASE StartPacket
  <2>1. FlagTypes'
    BY <1>1 DEF StartPacket, Control
  <2>2. PlaceTypes'
    BY <1>1 DEF StartPacket, Control, Places
  <2>3. CaptureInv' /\ UiInv'
    BY <1>1 DEF StartPacket, Control, Places, Capturing
  <2>4. FlagsInv'
    BY <1>1 DEF StartPacket, Control, Stops, Places
  <2>5. ResourceInv' /\ OnlyLateStopSticks'
    BY <1>1 DEF StartPacket, Control, Places, ResourceInv, OnlyLateStopSticks, Stops
  <2> QED
    BY <2>1, <2>2, <2>3, <2>4, <2>5 DEF Control
<1>2. CASE NullPacket
  <2>1. FlagTypes'
    BY <1>2 DEF NullPacket, Control
  <2>2. PlaceTypes'
    BY <1>2 DEF NullPacket, Control, Places
  <2>3. CaptureInv' /\ UiInv' /\ FlagsInv'
    BY <1>2 DEF NullPacket, Control, Stops, Places
  <2>4. ResourceInv' /\ OnlyLateStopSticks'
    BY <1>2 DEF NullPacket, Control, Stops, Places, ResourceInv, OnlyLateStopSticks
  <2> QED
    BY <2>1, <2>2, <2>3, <2>4 DEF Control
<1>3. CASE LastPacket
  <2>1. FlagTypes'
    BY <1>3 DEF LastPacket, Control
  <2>2. PlaceTypes'
    BY <1>3 DEF LastPacket, Control, Places
  <2>3. CaptureInv' /\ UiInv' /\ FlagsInv'
    BY <1>3 DEF LastPacket, Control, Stops, Places
  <2>4. ResourceInv' /\ OnlyLateStopSticks'
    BY <1>3 DEF LastPacket, Control, Stops, Places, ResourceInv, OnlyLateStopSticks
  <2> QED
    BY <2>1, <2>2, <2>3, <2>4 DEF Control
<1>4. CASE PushPacket
  <2>1. FlagTypes'
    BY <1>4 DEF PushPacket, Control
  <2>2. PlaceTypes'
    BY <1>4 DEF PushPacket, Control, Places
  <2>3. CaptureInv' /\ UiInv' /\ FlagsInv'
    BY <1>4 DEF PushPacket, Control, Stops, Places
  <2>4. ResourceInv' /\ OnlyLateStopSticks'
    BY <1>4 DEF PushPacket, Control, Stops, Places, ResourceInv, OnlyLateStopSticks
  <2> QED
    BY <2>1, <2>2, <2>3, <2>4 DEF Control
<1>5. CASE CaptureEnds
  <2>1. FlagTypes'
    BY <1>5 DEF CaptureEnds, Control
  <2>2. PlaceTypes'
    BY <1>5 DEF CaptureEnds, Control, Places
  <2>3. CaptureInv' /\ UiInv' /\ FlagsInv'
    BY <1>5 DEF CaptureEnds, Control, Stops, Places
  <2>4. ResourceInv' /\ OnlyLateStopSticks'
    BY <1>5 DEF CaptureEnds, Control, Stops, Places, ResourceInv, OnlyLateStopSticks
  <2> QED
    BY <2>1, <2>2, <2>3, <2>4 DEF Control
<1>6. CASE PushPacketDone
  <2>1. FlagTypes'
    BY <1>6 DEF PushPacketDone, Control
  <2>2. PlaceTypes'
    BY <1>6 DEF PushPacketDone, Control, Places
  <2>3. CaptureInv' /\ UiInv' /\ FlagsInv'
    BY <1>6 DEF PushPacketDone, Control, Stops, Places
  <2>4. ResourceInv' /\ OnlyLateStopSticks'
    BY <1>6 DEF PushPacketDone, Control, Stops, Places, ResourceInv, OnlyLateStopSticks
  <2> QED
    BY <2>1, <2>2, <2>3, <2>4 DEF Control
<1>7. CASE SourcesFail
  <2>1. FlagTypes'
    BY <1>7 DEF SourcesFail, Control
  <2>2. PlaceTypes'
    BY <1>7 DEF SourcesFail, Control, Places
  <2>3. CaptureInv' /\ UiInv' /\ FlagsInv'
    BY <1>7 DEF SourcesFail, Control, Stops, Places
  <2>4. ResourceInv' /\ OnlyLateStopSticks'
    BY <1>7 DEF SourcesFail, Control, Stops, Places, ResourceInv, OnlyLateStopSticks
  <2> QED
    BY <2>1, <2>2, <2>3, <2>4 DEF Control
<1>8. CASE NewQueue
  <2>1. FlagTypes'
    BY <1>8 DEF NewQueue, Control
  <2>2. PlaceTypes'
    BY <1>8 DEF NewQueue, Control, Places
  <2>3. CaptureInv' /\ UiInv' /\ FlagsInv'
    BY <1>8 DEF NewQueue, Control, Stops, Places
  <2>4. ResourceInv' /\ OnlyLateStopSticks'
    BY <1>8 DEF NewQueue, Control, Stops, Places, ResourceInv, OnlyLateStopSticks
  <2> QED
    BY <2>1, <2>2, <2>3, <2>4 DEF Control
<1>9. CASE AddSession
  <2>1. FlagTypes'
    BY <1>9 DEF AddSession, Control
  <2>2. PlaceTypes'
    BY <1>9 DEF AddSession, Control, Places
  <2>3. CaptureInv' /\ UiInv' /\ FlagsInv'
    BY <1>9 DEF AddSession, Control, Stops, Places
  <2>4. ResourceInv' /\ OnlyLateStopSticks'
    BY <1>9 DEF AddSession, Control, Stops, Places, ResourceInv, OnlyLateStopSticks
  <2> QED
    BY <2>1, <2>2, <2>3, <2>4 DEF Control
<1>10. CASE MulticastFails
  <2>1. FlagTypes'
    BY <1>10 DEF MulticastFails, Control
  <2>2. PlaceTypes'
    BY <1>10 DEF MulticastFails, Control, Places
  <2>3. CaptureInv' /\ UiInv' /\ FlagsInv'
    BY <1>10 DEF MulticastFails, Control, Stops, Places
  <2>4. ResourceInv' /\ OnlyLateStopSticks'
    BY <1>10 DEF MulticastFails, Control, Stops, Places, ResourceInv, OnlyLateStopSticks
  <2> QED
    BY <2>1, <2>2, <2>3, <2>4 DEF Control
<1>11. CASE SpawnPusher
  <2>1. FlagTypes'
    BY <1>11 DEF SpawnPusher, Control
  <2>2. PlaceTypes'
    BY <1>11 DEF SpawnPusher, Control, Places
  <2>3. CaptureInv' /\ UiInv' /\ FlagsInv'
    BY <1>11 DEF SpawnPusher, Control, Stops, Places
  <2>4. ResourceInv' /\ OnlyLateStopSticks'
    BY <1>11 DEF SpawnPusher, Control, Stops, Places, ResourceInv, OnlyLateStopSticks
  <2> QED
    BY <2>1, <2>2, <2>3, <2>4 DEF Control
<1>12. CASE Activate
  <2>1. FlagTypes'
    BY <1>12 DEF Activate, Control
  <2>2. PlaceTypes'
    BY <1>12 DEF Activate, Control, Places
  <2>3. CaptureInv' /\ UiInv' /\ FlagsInv'
    BY <1>12 DEF Activate, Control, Stops, Places
  <2>4. ResourceInv' /\ OnlyLateStopSticks'
    BY <1>12 DEF Activate, Control, Stops, Places, ResourceInv, OnlyLateStopSticks
  <2> QED
    BY <2>1, <2>2, <2>3, <2>4 DEF Control
<1>13. CASE Started
  <2>1. FlagTypes'
    BY <1>13 DEF Started, Control
  <2>2. PlaceTypes'
    BY <1>13 DEF Started, Control, Places
  <2>3. CaptureInv' /\ UiInv' /\ FlagsInv'
    BY <1>13 DEF Started, Control, Stops, Places
  <2>4. ResourceInv' /\ OnlyLateStopSticks'
    BY <1>13 DEF Started, Control, Stops, Places, ResourceInv, OnlyLateStopSticks
  <2> QED
    BY <2>1, <2>2, <2>3, <2>4 DEF Control
<1>14. CASE Deactivate
  <2>1. FlagTypes'
    BY <1>14 DEF Deactivate, Control
  <2>2. PlaceTypes'
    BY <1>14 DEF Deactivate, Control, Places
  <2>3. CaptureInv' /\ UiInv' /\ FlagsInv'
    BY <1>14 DEF Deactivate, Control, Stops, Places
  <2>4. ResourceInv' /\ OnlyLateStopSticks'
    BY <1>14 DEF Deactivate, Control, Stops, Places, ResourceInv, OnlyLateStopSticks
  <2> QED
    BY <2>1, <2>2, <2>3, <2>4 DEF Control
<1>15. CASE TerminateQueue
  <2>1. FlagTypes'
    BY <1>15 DEF TerminateQueue, Control
  <2>2. PlaceTypes'
    BY <1>15 DEF TerminateQueue, Control, Places
  <2>3. CaptureInv' /\ UiInv' /\ FlagsInv'
    BY <1>15 DEF TerminateQueue, Control, Stops, Places
  <2>4. ResourceInv' /\ OnlyLateStopSticks'
    BY <1>15 DEF TerminateQueue, Control, Stops, Places, ResourceInv, OnlyLateStopSticks
  <2> QED
    BY <2>1, <2>2, <2>3, <2>4 DEF Control
<1>16. CASE JoinPusher
  <2>1. FlagTypes'
    BY <1>16 DEF JoinPusher, Control
  <2>2. PlaceTypes'
    BY <1>16 DEF JoinPusher, Control, Places
  <2>3. CaptureInv' /\ UiInv' /\ FlagsInv'
    BY <1>16 DEF JoinPusher, Control, Stops, Places
  <2>4. ResourceInv' /\ OnlyLateStopSticks'
    BY <1>16 DEF JoinPusher, Control, Stops, Places, ResourceInv, OnlyLateStopSticks
  <2> QED
    BY <2>1, <2>2, <2>3, <2>4 DEF Control
<1>17. CASE RemoveSession
  <2>1. FlagTypes'
    BY <1>17 DEF RemoveSession, Control
  <2>2. PlaceTypes'
    BY <1>17 DEF RemoveSession, Control, Places
  <2>3. CaptureInv' /\ UiInv' /\ FlagsInv'
    BY <1>17 DEF RemoveSession, Control, Stops, Places
  <2>4. ResourceInv' /\ OnlyLateStopSticks'
    BY <1>17 DEF RemoveSession, Control, Stops, Places, ResourceInv, OnlyLateStopSticks
  <2> QED
    BY <2>1, <2>2, <2>3, <2>4 DEF Control
<1>18. CASE StopServer
  <2>1. FlagTypes'
    BY <1>18 DEF StopServer, Control
  <2>2. PlaceTypes'
    BY <1>18 DEF StopServer, Control, Places
  <2>3. CaptureInv' /\ UiInv' /\ FlagsInv'
    BY <1>18 DEF StopServer, Control, Stops, Places
  <2>4. ResourceInv' /\ OnlyLateStopSticks'
    BY <1>18 DEF StopServer, Control, Stops, Places, ResourceInv, OnlyLateStopSticks
  <2> QED
    BY <2>1, <2>2, <2>3, <2>4 DEF Control
<1>19. CASE DropQueue
  <2>1. FlagTypes'
    BY <1>19 DEF DropQueue, Control
  <2>2. PlaceTypes'
    BY <1>19 DEF DropQueue, Control, Places
  <2>3. CaptureInv' /\ UiInv' /\ FlagsInv'
    BY <1>19 DEF DropQueue, Control, Stops, Places
  <2>4. ResourceInv' /\ OnlyLateStopSticks'
    BY <1>19 DEF DropQueue, Control, Stops, Places, ResourceInv, OnlyLateStopSticks
  <2> QED
    BY <2>1, <2>2, <2>3, <2>4 DEF Control
<1>20. CASE EndCapture
  <2>1. FlagTypes'
    BY <1>20 DEF EndCapture, Control
  <2>2. PlaceTypes'
    BY <1>20 DEF EndCapture, Control, Places
  <2>3. CaptureInv' /\ UiInv'
    BY <1>20 DEF EndCapture, Control, Stops, Places
  <2>4. FlagsInv'
    BY <1>20 DEF EndCapture, Control, Stops, Places
  <2>5. ResourceInv' /\ OnlyLateStopSticks'
    BY <1>20 DEF EndCapture, Control, Places, ResourceInv, OnlyLateStopSticks, Stops
  <2> QED
    BY <2>1, <2>2, <2>3, <2>4, <2>5 DEF Control
<1>21. CASE ClearStarting
  <2>1. FlagTypes'
    BY <1>21 DEF ClearStarting, Control
  <2>2. PlaceTypes'
    BY <1>21 DEF ClearStarting, Control, Places
  <2>3. CaptureInv' /\ UiInv' /\ FlagsInv'
    BY <1>21 DEF ClearStarting, Control, Stops, Places
  <2>4. ResourceInv' /\ OnlyLateStopSticks'
    BY <1>21 DEF ClearStarting, Control, Stops, Places, ResourceInv, OnlyLateStopSticks
  <2> QED
    BY <2>1, <2>2, <2>3, <2>4 DEF Control
<1>22. CASE ClearStopping
  <2>1. FlagTypes'
    BY <1>22 DEF ClearStopping, Control
  <2>2. PlaceTypes'
    BY <1>22 DEF ClearStopping, Control, Places
  <2>3. CaptureInv' /\ UiInv' /\ FlagsInv'
    BY <1>22 DEF ClearStopping, Control, Stops, Places
  <2>4. ResourceInv' /\ OnlyLateStopSticks'
    BY <1>22 DEF ClearStopping, Control, Stops, Places, ResourceInv, OnlyLateStopSticks
  <2> QED
    BY <2>1, <2>2, <2>3, <2>4 DEF Control
<1> QED
  BY <1>1, <1>2, <1>3, <1>4, <1>5, <1>6, <1>7, <1>8, <1>9, <1>10, <1>11,
     <1>12, <1>13, <1>14, <1>15, <1>16, <1>17, <1>18, <1>19, <1>20, <1>21, <1>22
  DEF EncoderWorks

-----------------------------------------------------------------------------
(***************************************************************************)
(* The way of a frame                                                      *)
(***************************************************************************)

LEMMA InitialPath == Init => Path
<1> SUFFICES ASSUME Init PROVE Path
  OBVIOUS
<1> USE DEF Init, Queue!QueueInit
<1>1. QueueType
  <2>1. data_queue \in Seq(Frames) /\ Len(data_queue) <= SizeLimit /\ entered \in Seq(Frames)
    BY EmptySeq, LimitAssumption
  <2>2. m_dropped_count \in Nat /\ first_count \in {0}
    OBVIOUS
  <2>3. pushing \in [{"encoder"} -> Frames \cup {NoFrame}]
    OBVIOUS
  <2>4. fate \in [Frames -> {"new", "pushing", "queued", "ignored", "popped", "dropped"}]
    OBVIOUS
  <2> QED
    BY <2>1, <2>2, <2>3, <2>4 DEF QueueType, Queue!TypeOK
<1>2. FrameInv
  BY DEF FrameInv
<1>3. EndInv
  BY DEF EndInv, Drained
<1> QED
  BY <1>1, <1>2, <1>3 DEF Path

\* A step that leaves the queue and its frames alone.
LEMMA QueueUntouched ==
  ASSUME Path, UNCHANGED <<queue, hand, served>>,
         \/ pusher' = pusher
         \/ pusher = "none" /\ pusher' = "popping"
         \/ pusher \in {"none", "done"} /\ pusher' = "none",
         encoder' = "push" <=> encoder = "push",
         m_termination =>
           ~active' /\ encoder' \notin {"push", "register", "multicast", "activate"}
  PROVE  Path'
<1> USE DEF queue
<1>1. QueueType'
  BY DEF Path, QueueType, Queue!TypeOK
<1>2. FrameInv'
  BY DEF Path, FrameInv
<1>3. Drained' = Drained
  BY DEF Drained
<1>4. EndInv'
  BY <1>3 DEF Path, EndInv
<1> QED
  BY <1>1, <1>2, <1>4 DEF Path

LEMMA UiPath == ASSUME IInv, StartTest \/ StopTest \/ UiWorks PROVE Path'
<1>1. UNCHANGED <<queue, hand, served, pusher, encoder, active, m_termination>>
  BY DEF StartTest, StopTest, UiWorks, StartDenied, EncodersReady, ServerNotStarted,
         ServerStarted, BeginCapture, MarkStarting, StopMark, uiElse, queue
<1> QED
  BY <1>1, QueueUntouched DEF IInv, Path, EndInv

\* Steps of the encoder's callback that leave the queue alone.
LEMMA CallbackPath ==
  ASSUME IInv,
         \/ StartPacket \/ NullPacket \/ LastPacket \/ TimePasses \/ CaptureEnds
         \/ SourcesFail \/ AddSession \/ MulticastFails \/ SpawnPusher \/ Activate \/ Started
         \/ Deactivate \/ JoinPusher \/ RemoveSession \/ StopServer \/ DropQueue
         \/ EndCapture \/ ClearStarting \/ ClearStopping
  PROVE  Path'
<1> USE DEF encoderOnly, flags
<1>1. UNCHANGED <<queue, hand, served>>
  BY DEF StartPacket, NullPacket, LastPacket, TimePasses, CaptureEnds, SourcesFail, AddSession,
         MulticastFails, SpawnPusher, Activate, Started, Deactivate, JoinPusher, RemoveSession,
         StopServer, DropQueue, EndCapture, ClearStarting, ClearStopping
<1>2. \/ pusher' = pusher
      \/ pusher = "none" /\ pusher' = "popping"
      \/ pusher \in {"none", "done"} /\ pusher' = "none"
  BY DEF StartPacket, NullPacket, LastPacket, TimePasses, CaptureEnds, SourcesFail, AddSession,
         MulticastFails, SpawnPusher, Activate, Started, Deactivate, JoinPusher, RemoveSession,
         StopServer, DropQueue, EndCapture, ClearStarting, ClearStopping,
         IInv, Control, ResourceInv, Preparing
<1>3. encoder' = "push" <=> encoder = "push"
  BY DEF StartPacket, NullPacket, LastPacket, TimePasses, CaptureEnds, SourcesFail, AddSession,
         MulticastFails, SpawnPusher, Activate, Started, Deactivate, JoinPusher, RemoveSession,
         StopServer, DropQueue, EndCapture, ClearStarting, ClearStopping, IInv, Control, FlagTypes
<1>4. m_termination =>
        ~active' /\ encoder' \notin {"push", "register", "multicast", "activate"}
  BY DEF StartPacket, NullPacket, LastPacket, TimePasses, CaptureEnds, SourcesFail, AddSession,
         MulticastFails, SpawnPusher, Activate, Started, Deactivate, JoinPusher, RemoveSession,
         StopServer, DropQueue, EndCapture, ClearStarting, ClearStopping,
         IInv, Path, EndInv, Control, FlagTypes
<1> QED
  BY <1>1, <1>2, <1>3, <1>4, QueueUntouched DEF IInv

LEMMA PushPath == ASSUME IInv, PushPacket PROVE Path'
<1>1. active /\ ~m_termination /\ pusher \in {"popping", "serving"} /\ encoder = "idle"
  BY DEF PushPacket, IInv, Path, EndInv, Control, ResourceInv, PlaceTypes, FlagTypes
<1>2. PICK f \in Frames : Queue!BeginPush("encoder", f)
  BY <1>1 DEF PushPacket, Queue!IgnorePush
<1>3. /\ fate[f] = "new" /\ fate' = [fate EXCEPT ![f] = "pushing"]
      /\ pushing' = [pushing EXCEPT !["encoder"] = f]
      /\ UNCHANGED <<data_queue, m_termination, m_dropped_count, waiting, left, entered,
                     first_count, hand, served, pusher, active>>
  BY <1>2 DEF PushPacket, Queue!BeginPush, flags
<1>4. encoder' = "push"
  BY <1>1 DEF PushPacket, Queue!IgnorePush
<1>5. pushing["encoder"] = NoFrame /\ pushing'["encoder"] = f /\ f # NoFrame
  BY <1>2, <1>3, FramesAssumption DEF Queue!BeginPush, IInv, Path, QueueType, Queue!TypeOK
<1>6. QueueType'
  BY <1>3 DEF IInv, Path, QueueType, Queue!TypeOK
<1>7. \A g \in Frames : fate'[g] = IF g = f THEN "pushing" ELSE fate[g]
  BY <1>3 DEF IInv, Path, QueueType, Queue!TypeOK
<1>8. FrameInv'
  BY <1>3, <1>5, <1>7, FramesAssumption DEF IInv, Path, FrameInv
<1>9. EndInv'
  BY <1>1, <1>3, <1>4, <1>5 DEF EndInv
<1> QED
  BY <1>6, <1>8, <1>9 DEF Path

\* The queue keeps every frame but the one that move_push drops.
LEMMA TrimKeeps ==
  ASSUME NEW q \in Seq(Frames), Len(q) <= SizeLimit, NEW f \in Frames
  PROVE  LET a == Append(q, f)
         IN  /\ Queue!Trim(a) \in Seq(Frames) /\ Len(Queue!Trim(a)) <= SizeLimit
             /\ Head(a) \in Frames
             /\ \A g \in Frames :
                  /\ g = f \/ \E i \in 1..Len(q) : q[i] = g
                  /\ Len(a) > SizeLimit => g # Head(a)
                  => \E i \in 1..Len(Queue!Trim(a)) : Queue!Trim(a)[i] = g
<1> DEFINE a == Append(q, f)
<1>1. /\ a \in Seq(Frames) /\ a # <<>> /\ Len(a) = Len(q) + 1 /\ Len(q) \in Nat
      /\ a[Len(q) + 1] = f /\ \A i \in 1..Len(q) : a[i] = q[i]
  BY AppendProperties, LenProperties
<1>2. Head(a) = a[1] /\ Head(a) \in Frames
  BY <1>1, HeadTailProperties
<1>3. \A g \in Frames : g = f \/ (\E i \in 1..Len(q) : q[i] = g) => \E i \in 1..Len(a) : a[i] = g
  BY <1>1
<1>4. CASE Len(a) > SizeLimit
  <2>1. /\ Queue!Trim(a) = Tail(a) /\ Tail(a) \in Seq(Frames) /\ Len(Tail(a)) = Len(a) - 1
        /\ \A i \in 1..Len(Tail(a)) : Tail(a)[i] = a[i + 1]
    BY <1>1, <1>4, HeadTailProperties DEF Queue!Trim
  <2>2. ASSUME NEW g \in Frames, g # Head(a), NEW i \in 1..Len(a), a[i] = g
        PROVE  \E j \in 1..Len(Tail(a)) : Tail(a)[j] = g
    <3>1. i - 1 \in 1..Len(Tail(a)) /\ Tail(a)[i - 1] = a[(i - 1) + 1] /\ (i - 1) + 1 = i
      BY <1>1, <1>2, <2>1, <2>2
    <3> QED
      BY <2>2, <3>1
  <2>3. Len(Tail(a)) <= SizeLimit
    BY <1>1, <2>1, LimitAssumption
  <2>4. \A g \in Frames : (g = f \/ \E i \in 1..Len(q) : q[i] = g) /\ g # Head(a)
          => \E j \in 1..Len(Tail(a)) : Tail(a)[j] = g
    BY <1>3, <2>2
  <2> QED
    BY <1>2, <1>4, <2>1, <2>3, <2>4
<1>5. CASE ~(Len(a) > SizeLimit)
  <2>1. Queue!Trim(a) = a
    BY <1>5 DEF Queue!Trim
  <2> QED
    BY <1>1, <1>2, <1>3, <1>5, <2>1, LimitAssumption
<1> QED
  BY <1>4, <1>5

LEMMA PushDonePath == ASSUME IInv, PushPacketDone PROVE Path'
<1> DEFINE f == pushing["encoder"]
           a == Append(data_queue, f)
           full == Len(a) > SizeLimit
           h == Head(a)
<1>1. active /\ ~m_termination /\ pusher \in {"popping", "serving"} /\ encoder = "push"
  BY DEF PushPacketDone, IInv, Path, EndInv, Control, FlagsInv, ResourceInv, PlaceTypes, FlagTypes
<1>2. f \in Frames /\ f # NoFrame
  BY <1>1 DEF IInv, Path, EndInv, QueueType, Queue!TypeOK
<1>3. /\ data_queue' = Queue!Trim(a) /\ entered' = Append(entered, f)
      /\ m_dropped_count' = IF full THEN m_dropped_count + 1 ELSE m_dropped_count
      /\ fate' = IF full THEN [fate EXCEPT ![f] = "queued", ![h] = "dropped"]
                         ELSE [fate EXCEPT ![f] = "queued"]
      /\ pushing' = [pushing EXCEPT !["encoder"] = NoFrame]
      /\ waiting' \subseteq waiting
      /\ encoder' = "idle"
      /\ UNCHANGED <<m_termination, left, first_count, hand, served, pusher, active>>
  <2>1. waiting' \subseteq waiting
    BY DEF PushPacketDone, Queue!FinishPush, Queue!NotifyOne
  <2>2. m_dropped_count' = IF full THEN m_dropped_count + 1 ELSE m_dropped_count
    BY DEF PushPacketDone, Queue!FinishPush, Queue!DroppedCountAfter
  <2>3. fate' = IF full THEN [fate EXCEPT ![f] = "queued", ![h] = "dropped"]
                        ELSE [fate EXCEPT ![f] = "queued"]
    BY DEF PushPacketDone, Queue!FinishPush
  <2>4. /\ data_queue' = Queue!Trim(a) /\ entered' = Append(entered, f)
        /\ pushing' = [pushing EXCEPT !["encoder"] = NoFrame]
        /\ encoder' = "idle"
        /\ UNCHANGED <<m_termination, left, first_count, hand, served, pusher, active>>
    BY DEF PushPacketDone, Queue!FinishPush, flags
  <2> HIDE DEF a, f, h, full
  <2> QED
    BY <2>1, <2>2, <2>3, <2>4
<1>4. /\ data_queue' \in Seq(Frames) /\ Len(data_queue') <= SizeLimit /\ h \in Frames
      /\ \A g \in Frames :
           /\ g = f \/ \E i \in 1..Len(data_queue) : data_queue[i] = g
           /\ full => g # h
           => \E i \in 1..Len(data_queue') : data_queue'[i] = g
  <2>1. data_queue \in Seq(Frames) /\ Len(data_queue) <= SizeLimit
    BY DEF IInv, Path, QueueType, Queue!TypeOK
  <2> HIDE DEF f
  <2> QED
    BY <1>2, <1>3, <2>1, TrimKeeps
<1>5. \A g \in Frames : fate'[g] = IF full /\ g = h THEN "dropped"
                                   ELSE IF g = f THEN "queued" ELSE fate[g]
  <2> HIDE DEF full, h, f
  <2> QED
    BY <1>2, <1>3, <1>4 DEF IInv, Path, QueueType, Queue!TypeOK
<1>6. pushing'["encoder"] = NoFrame
  BY <1>3 DEF IInv, Path, QueueType, Queue!TypeOK
<1> HIDE DEF full, h, a
<1>7. QueueType'
  <2>1. fate' \in [Frames -> {"new", "pushing", "queued", "ignored", "popped", "dropped"}]
    BY <1>2, <1>3, <1>4 DEF IInv, Path, QueueType, Queue!TypeOK
  <2>2. m_dropped_count' \in Nat /\ pushing' \in [{"encoder"} -> Frames \cup {NoFrame}]
    BY <1>3 DEF IInv, Path, QueueType, Queue!TypeOK
  <2>3. entered' \in Seq(Frames)
    BY <1>2, <1>3, AppendProperties DEF IInv, Path, QueueType, Queue!TypeOK
  <2> QED
    BY <1>3, <1>4, <2>1, <2>2, <2>3 DEF IInv, Path, QueueType, Queue!TypeOK
<1>8. FrameInv'
  <2>1. ASSUME NEW g \in Frames, fate'[g] = "pushing" PROVE FALSE
    BY <1>5, <2>1 DEF IInv, Path, FrameInv
  <2>2. ASSUME NEW g \in Frames, fate'[g] = "queued"
        PROVE  \E i \in 1..Len(data_queue') : data_queue'[i] = g
    BY <1>4, <1>5, <2>2 DEF IInv, Path, FrameInv
  <2>3. ASSUME NEW g \in Frames, fate'[g] = "popped" PROVE g \in served' \/ g = hand'
    BY <1>3, <1>5, <2>3 DEF IInv, Path, FrameInv
  <2> QED
    BY <2>1, <2>2, <2>3 DEF FrameInv
<1>9. EndInv'
  BY <1>1, <1>3, <1>6 DEF EndInv
<1> QED
  BY <1>7, <1>8, <1>9 DEF Path

LEMMA NewQueuePath == ASSUME IInv, NewQueue PROVE Path'
<1>1. pusher = "none" /\ hand = NoFrame /\ encoder # "push" /\ ~active
  BY DEF NewQueue, IInv, Control, ResourceInv, FlagsInv, Preparing, Path, QueueType
<1> USE DEF NewQueue
<1>2. QueueType'
  <2>1. data_queue' \in Seq(Frames) /\ Len(data_queue') <= SizeLimit /\ entered' \in Seq(Frames)
    BY EmptySeq, LimitAssumption
  <2>2. fate' \in [Frames -> {"new", "pushing", "queued", "ignored", "popped", "dropped"}]
    OBVIOUS
  <2>3. pushing' \in [{"encoder"} -> Frames \cup {NoFrame}]
    OBVIOUS
  <2> QED
    BY <1>1, <2>1, <2>2, <2>3 DEF QueueType, Queue!TypeOK
<1>3. FrameInv'
  BY DEF FrameInv
<1>4. pushing'["encoder"] = NoFrame
  OBVIOUS
<1>5. EndInv'
  BY <1>1, <1>4 DEF EndInv, Drained
<1> QED
  BY <1>2, <1>3, <1>5 DEF Path

LEMMA TerminatePath == ASSUME IInv, TerminateQueue PROVE Path'
<1>1. /\ UNCHANGED <<data_queue, m_dropped_count, pushing, left, entered, fate, first_count,
                     hand, served, pusher, active>>
      /\ m_termination' \in BOOLEAN /\ (m_termination => m_termination')
      /\ waiting' \subseteq waiting
      /\ encoder = "terminate" /\ encoder' = "join"
  BY DEF TerminateQueue, Queue!Terminate, queue, flags, IInv, Path, QueueType, Queue!TypeOK
<1>2. ~active
  BY <1>1 DEF IInv, Control, FlagsInv, Stops
<1>3. QueueType'
  BY <1>1 DEF IInv, Path, QueueType, Queue!TypeOK
<1>4. FrameInv'
  BY <1>1 DEF IInv, Path, FrameInv
<1>5. Drained' = Drained
  BY <1>1 DEF Drained
<1>6. EndInv'
  BY <1>1, <1>2, <1>5 DEF IInv, Path, EndInv
<1> QED
  BY <1>3, <1>4, <1>6 DEF Path

LEMMA PopPath == ASSUME IInv, PopFrame PROVE Path'
<1> DEFINE h == Head(data_queue)
<1>1. /\ fate' = [fate EXCEPT ![h] = "popped"] /\ data_queue' = Tail(data_queue)
      /\ data_queue # <<>> /\ hand' = h /\ pusher = "popping" /\ pusher' = "serving"
      /\ UNCHANGED <<m_termination, m_dropped_count, pushing, waiting, left, entered,
                     first_count, served, encoder, active>>
  BY DEF PopFrame, Queue!Pop, pusherElse, flags
<1>2. /\ data_queue' \in Seq(Frames) /\ Len(data_queue') = Len(data_queue) - 1
      /\ \A i \in 1..Len(data_queue') : data_queue'[i] = data_queue[i + 1]
      /\ h = data_queue[1] /\ h \in Frames /\ Len(data_queue) \in Nat
  BY <1>1, HeadTailProperties, LenProperties DEF IInv, Path, QueueType, Queue!TypeOK
<1>3. \A g \in Frames : fate'[g] = IF g = h THEN "popped" ELSE fate[g]
  BY <1>1 DEF IInv, Path, QueueType, Queue!TypeOK
<1>4. hand = NoFrame
  BY <1>1 DEF IInv, Path, QueueType
<1>5. QueueType'
  <2>1. data_queue' \in Seq(Frames) /\ Len(data_queue') <= SizeLimit
    BY <1>2, LimitAssumption DEF IInv, Path, QueueType, Queue!TypeOK
  <2>2. fate' \in [Frames -> {"new", "pushing", "queued", "ignored", "popped", "dropped"}]
    BY <1>1, <1>2 DEF IInv, Path, QueueType, Queue!TypeOK
  <2>3. hand' \in Frames /\ hand' # NoFrame
    BY <1>1, <1>2, FramesAssumption
  <2> QED
    BY <1>1, <2>1, <2>2, <2>3 DEF IInv, Path, QueueType, Queue!TypeOK
<1>6. FrameInv'
  <2>1. ASSUME NEW g \in Frames, fate'[g] = "queued"
        PROVE  \E i \in 1..Len(data_queue') : data_queue'[i] = g
    <3>1. PICK i \in 1..Len(data_queue) : data_queue[i] = g
      BY <1>3, <2>1 DEF IInv, Path, FrameInv
    <3>2. i # 1
      BY <1>2, <1>3, <2>1, <3>1
    <3>3. i - 1 \in 1..Len(data_queue') /\ (i - 1) + 1 = i
      BY <1>2, <3>2
    <3> QED
      BY <1>2, <3>1, <3>3
  <2>2. ASSUME NEW g \in Frames, fate'[g] = "popped" PROVE g \in served' \/ g = hand'
    BY <1>1, <1>3, <1>4, <2>2, FramesAssumption DEF IInv, Path, FrameInv
  <2>3. ASSUME NEW g \in Frames, fate'[g] = "pushing" PROVE pushing'["encoder"] = g
    BY <1>1, <1>3, <2>3 DEF IInv, Path, FrameInv
  <2> QED
    BY <2>1, <2>2, <2>3 DEF FrameInv
<1>7. EndInv'
  BY <1>1 DEF IInv, Path, EndInv
<1> QED
  BY <1>5, <1>6, <1>7 DEF Path

LEMMA WaitPath == ASSUME IInv, WaitForFrame \/ WakeForNothing PROVE Path'
<1>1. /\ UNCHANGED <<data_queue, m_termination, m_dropped_count, pushing, left, entered, fate,
                     first_count, hand, served, pusher, encoder, active>>
      /\ waiting' \subseteq waiting \cup {"pusher"}
  BY DEF WaitForFrame, WakeForNothing, Queue!Block, Queue!WakeSpuriously, pusherElse, flags
<1>2. QueueType'
  BY <1>1 DEF IInv, Path, QueueType, Queue!TypeOK
<1>3. FrameInv'
  BY <1>1 DEF IInv, Path, FrameInv
<1>4. Drained' = Drained
  BY <1>1 DEF Drained
<1>5. EndInv'
  BY <1>1, <1>4 DEF IInv, Path, EndInv
<1> QED
  BY <1>2, <1>3, <1>5 DEF Path

LEMMA ServePath == ASSUME IInv, PushFrame PROVE Path'
<1>1. /\ session_id /\ hand \in Frames /\ served' = served \cup {hand} /\ hand' = NoFrame
      /\ pusher' = "popping"
  BY DEF PushFrame, IInv, Control, ResourceInv, Path, QueueType
<1>2. UNCHANGED <<queue, encoder, active>>
  BY DEF PushFrame, pusherElse, flags
<1>3. QueueType'
  BY <1>1, <1>2 DEF IInv, Path, QueueType, Queue!TypeOK, queue
<1>4. FrameInv'
  BY <1>1, <1>2 DEF IInv, Path, FrameInv, queue
<1>5. EndInv'
  BY <1>1, <1>2 DEF IInv, Path, EndInv, queue
<1> QED
  BY <1>3, <1>4, <1>5 DEF Path

\* The push thread leaves an empty queue into which nothing can be pushed any more.
LEMMA LeavePath == ASSUME IInv, LeaveQueue PROVE Path'
<1>1. /\ UNCHANGED <<data_queue, m_termination, m_dropped_count, pushing, waiting, entered, fate,
                     first_count, hand, served, encoder, active>>
      /\ data_queue = <<>> /\ m_termination /\ left' = left \cup {"pusher"}
      /\ pusher = "popping" /\ pusher' = "done"
  BY DEF LeaveQueue, Queue!Leave, pusherElse, flags
<1>2. hand = NoFrame /\ pushing["encoder"] = NoFrame
  BY <1>1 DEF IInv, Path, QueueType, EndInv
<1>3. Drained
  <2>1. ASSUME NEW f \in Frames
        PROVE  fate[f] \in {"new", "ignored", "dropped"} \/ f \in served
    <3>1. fate[f] # "pushing" /\ (fate[f] = "popped" => f \in served)
      BY <1>2, FramesAssumption DEF IInv, Path, FrameInv
    <3>2. fate[f] # "queued"
      BY <1>1 DEF IInv, Path, FrameInv
    <3> QED
      BY <3>1, <3>2 DEF IInv, Path, QueueType, Queue!TypeOK
  <2> QED
    BY <2>1 DEF Drained
<1>4. QueueType'
  BY <1>1, <1>2 DEF IInv, Path, QueueType, Queue!TypeOK
<1>5. FrameInv'
  BY <1>1 DEF IInv, Path, FrameInv
<1>6. EndInv'
  BY <1>1, <1>3 DEF IInv, Path, EndInv, Drained
<1> QED
  BY <1>4, <1>5, <1>6 DEF Path

-----------------------------------------------------------------------------
(***************************************************************************)
(* The inductive invariant and the theorems                                *)
(***************************************************************************)

LEMMA InductiveStep == IInv /\ [Next]_vars => IInv'
<1> SUFFICES ASSUME IInv, [Next]_vars PROVE IInv'
  OBVIOUS
<1>1. CASE StartTest \/ StopTest \/ UiWorks
  BY <1>1, UiControl, UiPath DEF IInv
<1>2. CASE TimePasses
  BY <1>2, CallbackPath, OtherThreads DEF IInv, Control, FlagTypes, PlaceTypes, TimePasses
<1>3. CASE StartPacket \/ NullPacket \/ LastPacket \/ CaptureEnds
  BY <1>3, CallbackPath, EncoderControl DEF IInv
<1>4. CASE PushPacket
  BY <1>4, PushPath, EncoderControl DEF IInv
<1>5. CASE EncoderWorks
  BY <1>5, CallbackPath, PushDonePath, NewQueuePath, TerminatePath, EncoderControl
     DEF IInv, EncoderWorks
<1>6. CASE PusherWorks \/ WakeForNothing
  <2>1. Path'
    BY <1>6, PopPath, WaitPath, ServePath, LeavePath DEF PusherWorks
  <2>2. /\ UNCHANGED <<flags, frame_queue, server, capture, ui, starts, encoder, late, due>>
        /\ pusher' \in {"none", "popping", "serving", "done"}
        /\ pusher' = "none" <=> pusher = "none"
    BY <1>6 DEF PusherWorks, PopFrame, WaitForFrame, PushFrame, LeaveQueue, WakeForNothing,
                pusherElse, IInv, Control, PlaceTypes
  <2> QED
    BY <2>1, <2>2, OtherThreads DEF IInv, Control, FlagTypes
<1>7. CASE UNCHANGED vars
  <2>1. Control'
    BY <1>7, OtherThreads DEF vars, IInv, Control, FlagTypes, PlaceTypes
  <2>2. UNCHANGED <<queue, hand, served, pusher, encoder, active, m_termination>>
    BY <1>7 DEF vars, queue, flags
  <2>3. Path'
    BY <2>2, QueueUntouched DEF IInv, Path, EndInv
  <2> QED
    BY <2>1, <2>3 DEF IInv
<1> QED
  BY <1>1, <1>2, <1>3, <1>4, <1>5, <1>6, <1>7 DEF Next

LEMMA Invariance == Spec => []IInv
<1>1. Init => IInv
  BY InitialControl, InitialPath DEF IInv
<1> QED
  BY <1>1, InductiveStep, PTL DEF Spec

\* Every variable of the output, and of its queue, holds a value of its type.
THEOREM TypeCorrect == Spec => []TypeOK
<1>1. ASSUME IInv PROVE TypeOK
  <2>1. encoder \in Stops \cup {"idle", "push", "sources", "register", "multicast", "activate",
                                "started"}
    BY <1>1 DEF IInv, Control, PlaceTypes, Places, Stops
  <2> QED
    BY <1>1, <2>1 DEF IInv, Control, FlagTypes, PlaceTypes, Path, QueueType, TypeOK
<1> QED
  BY <1>1, Invariance, PTL

\* An output that is active has acceptors, the session, the queue and the push
\* thread: rtsp_output_video and rtsp_output_audio may use them on that flag alone.
THEOREM ActiveIsReady == Spec => []ReadyWhenActive
<1>1. IInv => ReadyWhenActive
  BY DEF IInv, Control, ResourceInv, ReadyWhenActive
<1> QED
  BY <1>1, Invariance, PTL

\* rtsp_push_frame never outlives its queue or its session, and is never doubled.
THEOREM PusherIsOwned == Spec => []PusherNotOrphaned
<1>1. IInv => PusherNotOrphaned
  BY DEF IInv, Control, ResourceInv, Preparing, PusherNotOrphaned
<1> QED
  BY <1>1, Invariance, PTL

\* When rtsp_output_actual_stop has joined the push thread, every frame that was
\* pushed has been dropped or served.
THEOREM StopDrains == Spec => []QueueDrained
<1>1. ASSUME IInv, encoder = "unregister" PROVE pusher = "none" /\ Drained
  BY <1>1 DEF IInv, Control, ResourceInv, FlagsInv, Stops, Path, EndInv
<1>2. IInv => QueueDrained
  BY <1>1 DEF QueueDrained, Drained
<1> QED
  BY <1>2, Invariance, PTL

\* An output that is off holds nothing, however its start failed or its stop came.
THEOREM OffHoldsNothing == Spec => []NothingLeftBehind
<1>1. IInv => NothingLeftBehind
  BY DEF IInv, Control, CaptureInv, ResourceInv, NothingLeftBehind
<1> QED
  BY <1>1, Invariance, PTL

\* stopping outlives the output only if the stop came after the output had ended.
THEOREM StopSticksOnlyLate == Spec => []OnlyLateStopSticks
<1>1. IInv => OnlyLateStopSticks
  BY DEF IInv, Control
<1> QED
  BY <1>1, Invariance, PTL

=============================================================================
