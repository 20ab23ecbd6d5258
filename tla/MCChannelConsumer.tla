--------------------------- MODULE MCChannelConsumer ---------------------------
(* Instances of ChannelConsumer for TLC.                                    *)
EXTENDS ChannelConsumer, TLC

\* Model values.
CONSTANTS w1, w2, a, b
=============================================================================
