------------------------ MODULE MCGrpcChannelBidirect ------------------------
(* One bidirectional stream: one message from the server, three writes. *)
EXTENDS GrpcChannelBidirect
=============================================================================
