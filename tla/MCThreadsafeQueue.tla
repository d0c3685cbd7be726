------------------------- MODULE MCThreadsafeQueue -------------------------
(* Frames are pushed by whichever producer comes first.                     *)
EXTENDS ThreadsafeQueue
=============================================================================
