---------------------------- MODULE RouteBudget ----------------------------
(***************************************************************************)
(* What the routing journal promises, whatever files, crashes and resumes  *)
(* lie beneath it: within one logical run every back-edge is taken at most *)
(* Budget times for each account the run has.  A fresh run begins with one *)
(* account, and gets another when it forgets when it began.                *)
(***************************************************************************)
EXTENDS Naturals

CONSTANTS
  Edge,     \* the back-edges <<from, to>>
  Budget    \* jumps per edge and account

VARIABLES taken, accounts

RBInit == taken = [e \in Edge |-> 0] /\ accounts = 1

TakeEdge(e) ==
  /\ taken[e] < Budget * accounts
  /\ taken' = [taken EXCEPT ![e] = @ + 1]
  /\ UNCHANGED accounts

NewRun == taken' = [e \in Edge |-> 0] /\ accounts' = 1

Forget == accounts' = accounts + 1 /\ UNCHANGED taken

RBNext == NewRun \/ Forget \/ \E e \in Edge : TakeEdge(e)

RBSpec == RBInit /\ [][RBNext]_<<taken, accounts>>
=============================================================================
