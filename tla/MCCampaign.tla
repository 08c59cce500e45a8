----------------------------- MODULE MCCampaign -----------------------------
(***************************************************************************)
(* Campaign on a small table.                                              *)
(***************************************************************************)
EXTENDS Campaign, TLC

\* No definition of Campaign orders slots, keys or bodies.
Symmetry == Permutations(Job) \cup Permutations(CampaignId)
                \cup Permutations(Body)

=============================================================================
