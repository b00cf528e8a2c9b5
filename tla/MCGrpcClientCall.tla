-------------------------- MODULE MCGrpcClientCall --------------------------
(* One call of each kind, from each thread, with each fault: the module has *)
(* no parameters.                                                           *)
EXTENDS GrpcClientCall
=============================================================================
