-------------------------- MODULE MC_ArtifactLoop --------------------------
(* ArtifactLoop for TLC: the configurations give every constant.           *)
EXTENDS ArtifactLoop
=============================================================================
