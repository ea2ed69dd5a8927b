----------------------------- MODULE MC_RunLock -----------------------------
(* Instances of RunLock for TLC: the processes are model values and        *)
(* interchangeable.                                                        *)
EXTENDS RunLock, TLC

=============================================================================
