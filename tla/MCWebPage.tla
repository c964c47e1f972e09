----------------------------- MODULE MCWebPage -----------------------------
(***************************************************************************)
(* A page with two transfers and two polls in flight.                      *)
(***************************************************************************)
EXTENDS WebPage

=============================================================================
