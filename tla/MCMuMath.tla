------------------------------ MODULE MCMuMath ------------------------------
(* Three rows: two right solutions, by two models, and a wrong one.        *)
EXTENDS MuMath, TLC

MCLabel == <<TRUE, FALSE, TRUE>>
MCSource == <<"a", "a", "b">>

MCSymmetry == Permutations(Commands) \cup Permutations(Versions)
=============================================================================
