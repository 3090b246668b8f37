-------------------------- MODULE MCOperatorBoard --------------------------
(* Models of OperatorBoard for TLC.                                        *)
EXTENDS OperatorBoard, TLC

CONSTANTS a1, a2, c1, c2, right, wrong

Symmetry == Permutations(Agent) \cup Permutations(Challenge)
=============================================================================
