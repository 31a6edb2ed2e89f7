---------------------------- MODULE MCCampaign ----------------------------
(* Model-checking instance of Campaign.                                    *)
EXTENDS Campaign, TLC

Symm == Permutations(Users)
=============================================================================
