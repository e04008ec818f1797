--------------------------- MODULE MCChannelStage ---------------------------
(* Small instances of ChannelStage. *)
EXTENDS ChannelStage

CONSTANTS latest, next, v1, v2

\* A plan that promotes one version to two channels.
Promotion == <<[channel |-> latest, to |-> v1], [channel |-> next, to |-> v1]>>
=============================================================================
