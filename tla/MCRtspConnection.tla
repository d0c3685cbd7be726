-------------------------- MODULE MCRtspConnection --------------------------
EXTENDS RtspConnection

\* One suffix: the second session can only take the place of the first.
MCSuffix == [s \in Sessions |-> "live"]
=============================================================================
