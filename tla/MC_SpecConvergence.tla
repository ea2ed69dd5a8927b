------------------------ MODULE MC_SpecConvergence ------------------------
(* Small instances of SpecConvergence: an upstream-owned and a downstream- *)
(* owned defect, an own one asked for by a request, the gates' finding.    *)
EXTENDS SpecConvergence

CONSTANTS up, down, plan, gate

MCIdentities == {up, down, plan, gate}
MCOwner == [f \in MCIdentities |->
  CASE f = up -> "upstream" [] f = down -> "downstream" [] OTHER -> "spec"]
MCHigh == [f \in MCIdentities |-> f = gate]
=============================================================================
