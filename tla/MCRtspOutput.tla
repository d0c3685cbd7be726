---------------------------- MODULE MCRtspOutput ----------------------------
(* Two starts: the second finds what the first left behind.                 *)
EXTENDS RtspOutput
=============================================================================
