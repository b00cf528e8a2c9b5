-------------------------- MODULE MCGrpcChannelCall --------------------------
(* One unary call: the server answers with at most one message. *)
EXTENDS GrpcChannelCall
=============================================================================
