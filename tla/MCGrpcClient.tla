---------------------------- MODULE MCGrpcClient ----------------------------
(* Three stream objects for three keys, so that callers share, abort and     *)
(* replace streams while timers of earlier ones are pending.                 *)
EXTENDS GrpcClient
=============================================================================
