--------------------------- MODULE MCDevelopment ---------------------------
(***************************************************************************)
(* Development for TLC: revisions, sessions, tasks and calls are           *)
(* interchangeable model values.                                           *)
(***************************************************************************)
EXTENDS Development, TLC

Symmetry == Permutations(Revisions) \union Permutations(Sessions)
              \union Permutations(Tasks) \union Permutations(Calls)
=============================================================================
