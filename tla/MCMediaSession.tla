--------------------------- MODULE MCMediaSession ---------------------------
EXTENDS MediaSession, TLC

CONSTANTS c1, c2

MCFamily  == c1 :> "v4" @@ c2 :> "v6"
MCMode    == c1 :> "tcp" @@ c2 :> "udp"
MCFamily1 == c1 :> "v4"
MCMode1   == c1 :> "tcp"

=============================================================================
