------------------------- MODULE MCCampaignProposal -------------------------
(* Two requests and one sweep at a time; the requests are interchangeable.  *)
EXTENDS CampaignProposal, TLC

Symmetry == Permutations(Requests)
=============================================================================
