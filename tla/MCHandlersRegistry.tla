------------------------- MODULE MCHandlersRegistry -------------------------
(* Three threads share two permits: the third reader waits with the mutex.  *)
EXTENDS HandlersRegistry
=============================================================================
