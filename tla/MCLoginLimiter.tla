--------------------------- MODULE MCLoginLimiter ---------------------------
(***************************************************************************)
(* LoginLimiter for TLC.  Requests and keys are alike.                     *)
(***************************************************************************)
EXTENDS LoginLimiter, TLC

Alike == Permutations(Requests) \union Permutations(Keys)
=============================================================================
