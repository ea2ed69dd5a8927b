---------------------------- MODULE MC_PhaseLoop ----------------------------
(* PhaseLoop for TLC: the configurations give every constant.              *)
EXTENDS PhaseLoop
=============================================================================
