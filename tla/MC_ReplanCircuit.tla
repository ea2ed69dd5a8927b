------------------------- MODULE MC_ReplanCircuit --------------------------
EXTENDS ReplanCircuit
CONSTANTS f1, f2
(* A defect two owners may be named for, and one left to the human.        *)
Classes == {<<f1, 1>>, <<f1, 2>>, <<f2, Human>>}
=============================================================================
