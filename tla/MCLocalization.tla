--------------------------- MODULE MCLocalization ---------------------------
(***************************************************************************)
(* Localization for TLC: two revisions of one page.                        *)
(***************************************************************************)
EXTENDS Localization

Owners == <<"p", "p">>
=============================================================================
