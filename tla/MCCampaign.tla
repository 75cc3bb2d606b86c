----------------------------- MODULE MCCampaign -----------------------------
(* Two processes, three commands, two cells of two problems; one batch is  *)
(* smaller than the dataset and one stands for "all".                      *)
EXTENDS Campaign, TLC

MCSymmetry == Permutations(Commands) \cup Permutations(Versions)
=============================================================================
