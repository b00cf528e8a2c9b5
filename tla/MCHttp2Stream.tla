---------------------------- MODULE MCHttp2Stream ----------------------------
(* Up to two messages, empty ones too, in chunks of every size.              *)
EXTENDS Http2Stream

\* Below zero, zero, less than a header, of an empty message, a possible message,
\* and more than there is.
MCGarbage == {-1, 0, 2, H, H + 2, 20}
=============================================================================
