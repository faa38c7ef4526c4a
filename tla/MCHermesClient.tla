-------------------------- MODULE MCHermesClient --------------------------
(***************************************************************************)
(* HermesClient for TLC: the last call is the one the consumer makes.      *)
(***************************************************************************)
EXTENDS HermesClient

LastCall == {MaxCalls}
=============================================================================
