--------------------------- MODULE MCCampaignRun ---------------------------
(* Instances of CampaignRun for TLC. *)
EXTENDS CampaignRun, TLC

TwoPeople == 1 .. 2

\* Batch jobs are told apart by their ids only.
BatchIds == Permutations(Batches)
=============================================================================
