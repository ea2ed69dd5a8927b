--------------------------- MODULE MC_VerifyLoop ---------------------------
(* Small instances of VerifyLoop.                                          *)
EXTENDS VerifyLoop
=============================================================================
