------------------------- MODULE MCGeneratedMessage -------------------------
(* Two messages, so that one is copied, moved or shared with the other.     *)
EXTENDS GeneratedMessage, TLC

CONSTANTS m1, m2

Symmetric == Permutations(Messages)
=============================================================================
