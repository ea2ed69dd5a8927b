---------------------------- MODULE MC_Flywheel ----------------------------
(* Small instances of Flywheel: runs of two tracks under two versions, one *)
(* golden case on the metric's face and one with a target of its own.      *)
EXTENDS Flywheel, TLC

CONSTANTS onface, apart

MCTrack == [r \in Runs |-> r % 2]
MCVersion == [r \in Runs |-> IF r = 1 THEN 1 ELSE 2]
MCExpected == onface :> "fail" @@ apart :> "pass"
MCLabel == onface :> "none" @@ apart :> "fail"
MCMetrics == <<"usual">>
MCRows == <<[run |-> 0, ts |-> 1, value |-> "odd", band |-> "3 sigma", final |-> "fail"]>>
=============================================================================
