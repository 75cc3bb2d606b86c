-------------------------- MODULE MCEvaluationCell --------------------------
EXTENDS CellProperties, TLC

MCOutcome == {"evaluated", "error", "raised"}
MCWidths == {1, 2}
MCBatchSizes == {1, 3}
MCSymmetry == Permutations(Runners) \cup Permutations(Experiment)
=============================================================================
