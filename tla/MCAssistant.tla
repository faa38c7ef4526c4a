----------------------------- MODULE MCAssistant -----------------------------
(***************************************************************************)
(* The assistant runtime on small instances; its constants are numbers,    *)
(* which the configurations give.                                          *)
(***************************************************************************)
EXTENDS Assistant
=============================================================================
