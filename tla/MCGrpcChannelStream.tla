------------------------- MODULE MCGrpcChannelStream -------------------------
(* One stream of at most three messages. *)
EXTENDS GrpcChannelStream
=============================================================================
