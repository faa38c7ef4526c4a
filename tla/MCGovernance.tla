--------------------------- MODULE MCGovernance ---------------------------
(***************************************************************************)
(* Governance for TLC: slugs, clients, objections and definitions are      *)
(* interchangeable model values.                                           *)
(***************************************************************************)
EXTENDS Governance, TLC

Symmetry == Permutations(Pages) \union Permutations(Clients)
              \union Permutations(Objections) \union Permutations(Definitions)
=============================================================================
