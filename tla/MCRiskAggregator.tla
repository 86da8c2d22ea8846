-------------------------- MODULE MCRiskAggregator --------------------------
(* Instances of RiskAggregator for TLC.                                    *)
EXTENDS RiskAggregator, TLC

CONSTANTS w1, w2

MCWorkers == {w1, w2}
Symmetry == Permutations(MCWorkers)

MCWeights == {-1, 1, 2}
=============================================================================
