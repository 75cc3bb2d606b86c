---------------------------- MODULE MCAFlowSearch ---------------------------
(* Two processes and four searches of one directory with one round of      *)
(* proposals: a proposal may tie with the initial workflow on calls, on    *)
(* nodes or on both.                                                       *)
EXTENDS AFlowSearch, TLC

CONSTANTS s1, s2, Small, Wide, Deep

MCWorkflows == {Small, Wide, Deep}

MCCalls == [w \in MCWorkflows |-> IF w = Deep THEN 2 ELSE 1]
MCNodes == [w \in MCWorkflows |-> IF w = Small THEN 1 ELSE 2]

MCSymmetry == Permutations(Searches)
=============================================================================
