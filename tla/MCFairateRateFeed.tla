------------------------- MODULE MCFairateRateFeed -------------------------
(***************************************************************************)
(* Two days and a half of the schedule of publish-rate.yml, at 6 and 18    *)
(* hours, and a provider that quotes one of two rates or none.             *)
(***************************************************************************)
EXTENDS FairateRateFeed

MCRuns == {6, 18, 30, 42, 54}

=============================================================================
