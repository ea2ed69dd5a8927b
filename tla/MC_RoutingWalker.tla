-------------------------- MODULE MC_RoutingWalker --------------------------
(* The pipeline walk at two grains, each explored on its own: the walker with *)
(* its route-backs (RoutingWalker), and a run of the node tree with its rows, *)
(* its ledger and its status (RunTree). They share no state: a behaviour      *)
(* picks a part, and the other rests in an initial state.                     *)
EXTENDS RoutingWalker, RunTree

VARIABLE part

walkVars == <<vars, treeVars, part>>

WalkInit ==
  /\ part \in {"walk", "run"}
  /\ Init /\ RunTreeInit
  /\ part = "walk" => ledger = NewLedger

WalkNext ==
  /\ UNCHANGED part
  /\ \/ part = "walk" /\ Next /\ UNCHANGED treeVars
     \/ part = "run" /\ RunTreeNext /\ UNCHANGED vars

WalkSpec == WalkInit /\ [][WalkNext]_walkVars
=============================================================================
