--------------------------- MODULE MC_AttemptLoop ---------------------------
(* Small instances of AttemptLoop: two attempts, two RED tries.            *)
EXTENDS AttemptLoop
=============================================================================
