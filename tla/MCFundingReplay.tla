--------------------------- MODULE MCFundingReplay ---------------------------
(* Bounds of the TLC runs of FundingReplay. *)
EXTENDS FundingReplay
=============================================================================
