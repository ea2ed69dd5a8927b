------------------------ MODULE Implementation_proofs ------------------------
(***************************************************************************)
(* Proofs about the implementation stage, for every value of its caps,     *)
(* budgets, projects and numbers of phases: the attempts of a phase        *)
(* (AttemptLoop), the gates their verdicts come from (Gates), and the      *)
(* passes over the phases with the tree they work in (PhaseLoop).  An      *)
(* agent, the oracle, the judge, a human and a runner may answer anything  *)
(* at every step.                                                          *)
(***************************************************************************)
EXTENDS AttemptLoop, Gates, PhaseLoop, FiniteSetTheorems, WellFoundedInduction, TLAPS

(***************************************************************************)
(* The attempts of a phase.                                                *)
(***************************************************************************)


(* The RED branch: it is entered with no accepted suite and its evidence   *)
(* ends with it.                                                           *)
InBranch == {"tdd", "ladder", "accept"}
BranchInv ==
  /\ pc \in InBranch => acceptedRed = NoRed
  /\ pc \notin InBranch \cup {"done"} => ev = None
  /\ ev = "red" => disk # 0
  /\ ev = "unknown" /\ requiresTests => failClosed

(* The accepted suite: what the gates leave behind a failed attempt is the *)
(* suite again, because every failed gate round restores the snapshot.     *)
TestsInv ==
  /\ acceptedRed.status = "red" => snapshot = acceptedRed.suite /\ snapshot # 0
  /\ acceptedRed # NoRed /\ requiresTests => acceptedRed.status = "red"
  /\ pc \in {"implement", "join", "protect", "gates"} => acceptedRed # NoRed
  /\ pc \in {"blocked", "governor", "inherited", "valve"} \/ outcome = "green" =>
       (acceptedRed.status = "red" => disk = snapshot)

(* The review in flight: it begins with a confirmed suite, which no exit   *)
(* of the branch but acceptance can be taken with.                         *)
ReviewInv ==
  /\ outcome = "open" <=> pc # "done"
  /\ inFlight => pc \in {"accept", "implement", "join"} \/ outcome = "abort"
  /\ inFlight /\ pc = "accept" => ev = "red"
  /\ stop = "red-weakening" => pc \in {"accept", "done"} /\ ev = "weakened"

Counted == pc \notin {"boundary", "done"} => attempt <= maxPhaseAttempts

AttemptInv ==
  /\ TypeOK /\ Counted
  /\ requiresTests \in BOOLEAN /\ inFlight \in BOOLEAN /\ testWasDirty \in BOOLEAN
  /\ BranchInv /\ TestsInv /\ ReviewInv

-----------------------------------------------------------------------------
(* The smallest of the five versions that three do not use. *)
LEMMA SomeVersion ==
  ASSUME NEW a \in Version, NEW b \in Version, NEW c \in Version
  PROVE  \E v \in Version \ {0, a, b, c} : \A w \in Version \ {0, a, b, c} : v <= w
<1>1. CASE 1 \notin {a, b, c}
  BY <1>1 DEF Version
<1>2. CASE 1 \in {a, b, c} /\ 2 \notin {a, b, c}
  BY <1>2 DEF Version
<1>3. CASE {1, 2} \subseteq {a, b, c} /\ 3 \notin {a, b, c}
  BY <1>3 DEF Version
<1>4. CASE {1, 2, 3} \subseteq {a, b, c}
  <2>1. 4 \in Version \ {0, a, b, c} /\ \A w \in Version \ {0, a, b, c} : w = 4
    BY <1>4 DEF Version
  <2>. QED BY <2>1
<1>. QED BY <1>1, <1>2, <1>3, <1>4

LEMMA FreshIsNew ==
  ASSUME TypeOK
  PROVE  Fresh \in Version \ {0, disk, acceptedRed.suite, snapshot}
<1>1. disk \in Version /\ snapshot \in Version /\ acceptedRed.suite \in Version
  BY DEF TypeOK
<1>2. \E v \in Version \ {0, disk, acceptedRed.suite, snapshot} :
        \A w \in Version \ {0, disk, acceptedRed.suite, snapshot} : v <= w
  BY <1>1, SomeVersion
<1>. QED BY <1>2 DEF Fresh

LEMMA LeftBounds ==
  ASSUME TypeOK, NEW n \in Nat
  PROVE  Left(n) \in 0 .. MaxAgents
BY AttemptAssumption DEF TypeOK, Left

(* The budgets after the judge was asked. *)
LEMMA JudgePays ==
  ASSUME TypeOK, NEW A, NEW route, JudgeSays(A, route)
  PROVE  judge' \in 0 .. MaxJudgeCalls /\ budget' \in 0 .. MaxAgents
BY AttemptAssumption, LeftBounds DEF TypeOK, JudgeSays, Left

(* Evidence is a status; a confirmed suite was named and seen red; what a  *)
(* phase that needs tests cannot tell fails closed; a review is asked for  *)
(* confirmed evidence only.                                                *)
LEMMA EvidenceFacts ==
  ASSUME requiresTests \in BOOLEAN, NEW o \in Try
  PROVE  /\ Evidence(o) \in RedStatus /\ FailsClosed(o) \in BOOLEAN
         /\ Evidence(o) = "red" => o.named
         /\ Evidence(o) = "unknown" /\ requiresTests => FailsClosed(o)
         /\ Reviewable(o) => Evidence(o) = "red" /\ ~RetryHint(o)
<1>1. Classified(o) \in RedStatus /\ (Classified(o) = "red" => o.named)
  BY DEF Classified, Try, RedStatus, Rejected, None
<1>. QED BY <1>1 DEF Evidence, FailsClosed, Reviewable, RetryHint, RedStatus, Rejected, Try, None

-----------------------------------------------------------------------------
(* Every step keeps the invariant, one lemma per part of the loop.         *)

LEMMA InitHolds == Init => AttemptInv
<1>. SUFFICES ASSUME Init PROVE AttemptInv
  OBVIOUS
<1>1. acceptedRed \in [status : {"red", "unknown", None}, suite : Version] /\ acceptedRed = NoRed
      /\ acceptedRed.status = None
  BY DEF Init, NoRed, Version
<1>2. /\ pc = "boundary" /\ attempt = 1 /\ stop = "failed" /\ outcome = "open" /\ ev = None
      /\ inFlight = FALSE /\ testWasDirty = FALSE
      /\ {disk, snapshot} \subseteq Version /\ fault = "product"
      /\ startDirt \in {None, "tree"} /\ judge = MaxJudgeCalls /\ budget = MaxAgents
  BY DEF Init, Version
<1>4. requiresTests \in BOOLEAN
  BY AttemptAssumption DEF Init
<1>3. TypeOK
  BY <1>1, <1>2, AttemptAssumption DEF TypeOK, FaultClass
<1>. QED BY <1>1, <1>2, <1>3, <1>4 DEF AttemptInv, Counted, BranchInv, TestsInv, ReviewInv, InBranch, None

LEMMA BoundaryStep ==
  ASSUME AttemptInv, OutOfBudget \/ AttemptCap \/ Fenced \/ StartAttempt
  PROVE  AttemptInv'
<1>. USE AttemptAssumption DEF AttemptInv, TypeOK, Counted, BranchInv, TestsInv, ReviewInv,
   InBranch, None, RedStatus, Rejected, FaultClass, AtBoundary,
   loop, red, tests, failure, counts, run, purse
<1>1. CASE OutOfBudget
  BY <1>1 DEF OutOfBudget, Partial
<1>2. CASE AttemptCap
  BY <1>2 DEF AttemptCap, Partial
<1>3. CASE Fenced
  BY <1>3 DEF Fenced, Partial
<1>4. CASE StartAttempt
  <2>1. /\ pc = "boundary" /\ attempt <= maxPhaseAttempts /\ outcome = "open"
        /\ UNCHANGED <<attempt, stop, outcome, ev, failClosed, disk, acceptedRed, snapshot, requiresTests, startDirt, purse>>
        /\ inFlight' = FALSE /\ fault' = "product" /\ testWasDirty' \in BOOLEAN
        /\ pc' = IF acceptedRed # NoRed THEN "implement" ELSE "tdd"
    BY <1>4 DEF StartAttempt, Goto
  <2>. HIDE DEF RedStatus, Rejected
  <2>2. TypeOK' /\ Counted'
    BY <2>1
  <2>3. BranchInv' /\ testWasDirty' \in BOOLEAN /\ requiresTests' \in BOOLEAN
    BY <2>1
  <2>4. TestsInv'
    BY <2>1
  <2>5. ReviewInv' /\ inFlight' \in BOOLEAN
    BY <2>1
  <2>. QED BY ONLY <2>2, <2>3, <2>4, <2>5 DEF AttemptInv
<1>. QED BY <1>1, <1>2, <1>3, <1>4

LEMMA RedStep ==
  ASSUME AttemptInv, RedLoop
  PROVE  AttemptInv'
<1>. USE AttemptAssumption DEF AttemptInv, TypeOK, Counted, BranchInv, TestsInv, ReviewInv,
   InBranch, None, RedStatus, Rejected, FaultClass,
   loop, red, tests, failure, counts, run, purse
<1>1. CASE TryRed
  <2>1. PICK o \in Try :
          /\ ev' = Evidence(o) /\ failClosed' = FailsClosed(o)
          /\ disk' \in {disk, Fresh} /\ (o.named => disk' # 0)
          /\ inFlight' = Reviewable(o)
          /\ \E n \in Nat : budget' = Left(n)
          /\ Goto(IF RetryHint(o) /\ Evidence(o) # "satisfied" THEN "ladder" ELSE "accept")
    BY <1>1 DEF TryRed
  <2>2. budget' \in 0 .. MaxAgents
    BY <2>1, LeftBounds
  <2>3. disk' \in Version
    BY <2>1, FreshIsNew
  <2>4. pc = "tdd" /\ requiresTests' = requiresTests /\ acceptedRed' = acceptedRed
        /\ snapshot' = snapshot /\ testWasDirty' = testWasDirty /\ fault' = fault
        /\ startDirt' = startDirt /\ judge' = judge
    BY <1>1 DEF TryRed
  <2>5. pc' \in {"ladder", "accept"} /\ (Reviewable(o) => pc' = "accept")
        /\ attempt' = attempt /\ stop' = stop /\ outcome' = outcome
    BY <2>1, EvidenceFacts DEF Goto
  <2>6. inFlight' \in BOOLEAN
    BY <2>1 DEF Reviewable
  <2>. HIDE DEF Rejected, RedStatus
  <2>. QED BY <2>1, <2>2, <2>3, <2>4, <2>5, <2>6, EvidenceFacts
<1>2. CASE RedBudgetGone
  BY <1>2 DEF RedBudgetGone, Goto
<1>3. CASE AgentFatal
  <2>1. budget' \in 0 .. MaxAgents
    BY <1>3, LeftBounds DEF AgentFatal
  <2>. QED BY <1>3, <2>1 DEF AgentFatal, FatalAbort
<1>4. CASE RetryRed
  BY <1>4 DEF RetryRed, Goto, Unaccepted, Version
<1>5. CASE WeakeningHandoff
  BY <1>5 DEF WeakeningHandoff, ReplanRouted
<1>6. CASE JudgeRed
  <2>1. judge' \in 0 .. MaxJudgeCalls /\ budget' \in 0 .. MaxAgents
    BY <1>6, JudgePays DEF JudgeRed
  <2>2. /\ pc = "ladder" /\ attempt' = attempt /\ outcome' = outcome
        /\ pc' \in {"tdd", "accept"} /\ stop' \in {stop, "no-progress", "environment-blocked"}
        /\ UNCHANGED <<ev, failClosed, testWasDirty, tests, requiresTests, failure, startDirt>>
    BY <1>6 DEF JudgeRed, RedRestart, RedEnds
  <2>. QED BY <2>1, <2>2
<1>. QED BY <1>1, <1>2, <1>3, <1>4, <1>5, <1>6 DEF RedLoop

LEMMA AcceptStep ==
  ASSUME AttemptInv, RedAcceptance
  PROVE  AttemptInv'
<1>. USE AttemptAssumption DEF AttemptInv, TypeOK, Counted, BranchInv, TestsInv, ReviewInv,
   InBranch, None, RedStatus, Rejected, FaultClass,
   loop, red, tests, failure, counts, run, purse
<1>1. CASE NoEvidence
  BY <1>1 DEF NoEvidence, Partial
<1>2. CASE AlreadySatisfied
  BY <1>2 DEF AlreadySatisfied, Partial, Green, NoRed
<1>3. CASE RejectRed
  BY <1>3 DEF RejectRed, Partial, NotConfirmed, Unaccepted, Version
<1>4. CASE AcceptRed
  <2>1. acceptedRed' \in [status : {"red", "unknown", None}, suite : Version]
        /\ acceptedRed'.status = ev /\ acceptedRed'.suite = disk
    BY <1>4 DEF AcceptRed
  <2>2. acceptedRed' # NoRed /\ (requiresTests => ev = "red")
    BY <1>4 DEF AcceptRed, NoRed, NotConfirmed
  <2>3. /\ pc = "accept" /\ pc' = "implement" /\ ev \in {"red", "unknown"} /\ ev' = None
        /\ snapshot' = IF ev = "red" THEN disk ELSE snapshot
        /\ UNCHANGED <<attempt, stop, outcome, disk, inFlight, requiresTests, fault, startDirt, purse>>
        /\ testWasDirty' \in BOOLEAN /\ stop # "red-weakening"
    BY <1>4 DEF AcceptRed, FreshBranch, Goto
  <2>. HIDE DEF RedStatus, Rejected
  <2>4. TypeOK' /\ Counted'
    BY <2>1, <2>3
  <2>5. BranchInv' /\ testWasDirty' \in BOOLEAN /\ requiresTests' \in BOOLEAN
    BY <2>1, <2>2, <2>3
  <2>6. TestsInv'
    BY <2>1, <2>2, <2>3
  <2>7. ReviewInv' /\ inFlight' \in BOOLEAN
    BY <2>3
  <2>. QED BY ONLY <2>4, <2>5, <2>6, <2>7 DEF AttemptInv
<1>. QED BY <1>1, <1>2, <1>3, <1>4 DEF RedAcceptance

LEMMA ImplementStep ==
  ASSUME AttemptInv, ImplementerRound \/ NoBreach \/ Breach
  PROVE  AttemptInv'
<1>. USE AttemptAssumption DEF AttemptInv, TypeOK, Counted, BranchInv, TestsInv, ReviewInv,
   InBranch, None, RedStatus, Rejected, FaultClass,
   loop, red, tests, failure, counts, run, purse
<1>0. NoRed \in [status : {"red", "unknown", None}, suite : Version] /\ NoRed.status = None
  BY DEF NoRed, Version
<1>1. CASE Implement
  <2>1. budget' \in 0 .. MaxAgents
    BY <1>1, LeftBounds DEF Implement, AssistCalls
  <2>2. disk' \in Version
    BY <1>1, FreshIsNew DEF Implement
  <2>. QED BY <1>1, <2>1, <2>2 DEF Implement, Goto
<1>2. CASE ReviewPasses
  <2>1. /\ pc = "join" /\ pc' = "protect" /\ inFlight' = FALSE
        /\ UNCHANGED <<attempt, stop, outcome, red, disk, acceptedRed, snapshot, requiresTests, fault, startDirt, purse>>
    BY <1>2 DEF ReviewPasses, Goto
  <2>. HIDE DEF RedStatus, Rejected
  <2>2. TypeOK' /\ Counted'
    BY <2>1
  <2>3. BranchInv' /\ testWasDirty' \in BOOLEAN /\ requiresTests' \in BOOLEAN
    BY <2>1
  <2>4. TestsInv'
    BY <2>1
  <2>5. ReviewInv' /\ inFlight' \in BOOLEAN
    BY <2>1
  <2>. QED BY ONLY <2>2, <2>3, <2>4, <2>5 DEF AttemptInv
<1>3. CASE ReviewRejects
  <2>1. startDirt' \in {None, "tree", "stashed", "lost"}
    BY <1>3 DEF ReviewRejects, Discarded
  <2>2. snapshot' \in Version
    BY <1>3 DEF ReviewRejects, Version
  <2>3. CASE TooManyRejects
    BY <1>0, <1>3, <2>1, <2>2, <2>3 DEF ReviewRejects, Partial
  <2>4. CASE ~TooManyRejects
    <3>1. NextAttempt
      BY <1>3, <2>4 DEF ReviewRejects
    <3>2. /\ pc = "join" /\ inFlight' = FALSE /\ acceptedRed' = NoRed
          /\ UNCHANGED <<purse, red, disk, requiresTests, failure>>
      BY <1>3 DEF ReviewRejects
    <3>3. pc' = "boundary" /\ attempt' \in 1 .. maxPhaseAttempts + 1 /\ UNCHANGED <<stop, outcome>>
      BY <3>1, <3>2 DEF NextAttempt
    <3>4. TypeOK'
      BY <1>0, <2>1, <2>2, <3>2, <3>3
    <3>. QED BY <1>0, <3>2, <3>3, <3>4
  <2>. QED BY <2>3, <2>4
<1>4. CASE NoBreach
  BY <1>4 DEF NoBreach, Goto
<1>5. CASE Breach
  <2>1. /\ pc = "protect"
        /\ UNCHANGED <<red, disk, snapshot, inFlight, requiresTests, failure, startDirt>>
    BY <1>5 DEF Breach
  <2>2. judge' \in 0 .. MaxJudgeCalls /\ budget' \in 0 .. MaxAgents
    BY <1>5, JudgePays DEF Breach
  <2>3. acceptedRed' \in {acceptedRed, NoRed}
    BY <1>5 DEF Breach
  <2>4. SameAttempt \/ NextAttempt \/ Partial("no-progress")
    BY <1>5 DEF Breach
  <2>. QED BY <1>0, <2>1, <2>2, <2>3, <2>4 DEF SameAttempt, NextAttempt, Partial
<1>. QED BY <1>1, <1>2, <1>3, <1>4, <1>5 DEF ImplementerRound

LEMMA GateStep ==
  ASSUME AttemptInv, GateRound \/ Regate \/ JudgeEnvironment
  PROVE  AttemptInv'
<1>. USE AttemptAssumption DEF AttemptInv, TypeOK, Counted, BranchInv, TestsInv, ReviewInv,
   InBranch, None, RedStatus, Rejected, FaultClass,
   loop, red, tests, failure, counts, run, purse
<1>0. NoRed \in [status : {"red", "unknown", None}, suite : Version] /\ NoRed.status = None
  BY DEF NoRed, Version
<1>1. CASE GreenBoundary
  <2>1. ~Modified
    BY <1>1 DEF GreenBoundary, Passes, ownScope, tddClean
  <2>. QED BY <1>1, <2>1 DEF GreenBoundary, Green, Modified
<1>2. CASE DoorInTheFence
  BY <1>2 DEF DoorInTheFence, Partial, FatalAbort
<1>3. CASE GatesFail
  <2>1. /\ pc = "gates" /\ pc' \in {"blocked", "governor"}
        /\ disk' = IF Modified THEN snapshot ELSE disk
        /\ acceptedRed' \in {acceptedRed, NoRed}
        /\ fault' \in FaultClass
        /\ UNCHANGED <<attempt, stop, outcome, red, snapshot, inFlight, requiresTests,
                       startDirt, purse>>
    BY <1>3 DEF GatesFail, Goto, classifyGateFault
  <2>2. acceptedRed.status = "red" => disk' = snapshot
    BY <1>0, <2>1 DEF Modified
  <2>3. ev = None /\ disk' \in Version
    BY <2>1
  <2>. QED BY <1>0, <2>1, <2>2, <2>3
<1>4. CASE Regate
  <2>1. fault' \in FaultClass
    BY <1>4 DEF Regate
  <2>2. CASE Green
    BY <1>4, <2>1, <2>2 DEF Regate, Green
  <2>3. CASE Goto("governor")
    BY <1>4, <2>1, <2>3 DEF Regate, Goto
  <2>. QED BY <1>4, <2>2, <2>3 DEF Regate
<1>5. CASE JudgeEnvironment
  <2>1. judge' \in 0 .. MaxJudgeCalls /\ budget' \in 0 .. MaxAgents
    BY <1>5, JudgePays DEF JudgeEnvironment
  <2>2. fault' \in FaultClass /\ (Goto("governor") \/ Partial("failed"))
    BY <1>5 DEF JudgeEnvironment
  <2>3. /\ pc = "blocked"
        /\ UNCHANGED <<red, tests, requiresTests, defects, startDirt>>
    BY <1>5 DEF JudgeEnvironment
  <2>. QED BY <2>1, <2>2, <2>3 DEF Goto, Partial
<1>. QED BY <1>1, <1>2, <1>3, <1>4, <1>5 DEF GateRound

LEMMA GovernorStep ==
  ASSUME AttemptInv, Challenge \/ Govern \/ InheritedRedLadder \/ Valve
  PROVE  AttemptInv'
<1>. USE AttemptAssumption DEF AttemptInv, TypeOK, Counted, BranchInv, TestsInv, ReviewInv,
   InBranch, None, RedStatus, Rejected, FaultClass,
   loop, red, tests, failure, counts, run, purse
<1>0. NoRed \in [status : {"red", "unknown", None}, suite : Version] /\ NoRed.status = None
  BY DEF NoRed, Version
<1>1. CASE Challenge
  BY <1>0, <1>1 DEF Challenge, NextAttempt
<1>2. CASE Govern
  <2>1. Goto("inherited") \/ Goto("valve") \/ NextAttempt
    BY <1>2 DEF Govern
  <2>2. /\ pc = "governor"
        /\ UNCHANGED <<purse, red, tests, requiresTests, fault, startDirt>>
    BY <1>2 DEF Govern
  <2>. QED BY <2>1, <2>2 DEF Goto, NextAttempt
<1>3. CASE OwnLeak
  <2>1. Goto("valve") \/ NextAttempt
    BY <1>3 DEF OwnLeak, AfterLadder
  <2>. QED BY <1>3, <2>1 DEF OwnLeak, Goto, NextAttempt
<1>4. CASE FlakeGreen
  BY <1>4 DEF FlakeGreen, Green
<1>5. CASE Inherited
  BY <1>5 DEF Inherited, Partial, FatalAbort
<1>6. CASE Valve
  <2>1. judge' \in 0 .. MaxJudgeCalls /\ budget' \in 0 .. MaxAgents
    BY <1>6, JudgePays DEF Valve
  <2>2. /\ pc = "valve"
        /\ UNCHANGED <<red, disk, snapshot, inFlight, requiresTests, failure, startDirt>>
    BY <1>6 DEF Valve
  <2>3. acceptedRed' \in {acceptedRed, NoRed} /\ (NextAttempt \/ Partial("no-progress"))
    BY <1>6 DEF Valve, Reauthor
  <2>. QED BY <1>0, <2>1, <2>2, <2>3 DEF NextAttempt, Partial
<1>. QED BY <1>1, <1>2, <1>3, <1>4, <1>5, <1>6 DEF InheritedRedLadder

LEMMA AttemptStep ==
  ASSUME AttemptInv, [Next]_vars
  PROVE  AttemptInv'
<1>1. CASE UNCHANGED vars
  BY <1>1 DEF vars, loop, red, tests, failure, counts, run, purse, AttemptInv, TypeOK, Counted,
     BranchInv, TestsInv, ReviewInv
<1>2. CASE Done
  BY <1>1, <1>2 DEF Done
<1>. QED BY <1>1, <1>2, BoundaryStep, RedStep, AcceptStep, ImplementStep, GateStep, GovernorStep
        DEF Next

(* The invariant holds in every state of the phase. *)
THEOREM AttemptInvariant == Spec => []AttemptInv
<1>1. Init => AttemptInv
  BY InitHolds
<1>2. AttemptInv /\ [Next]_vars => AttemptInv'
  BY AttemptStep
<1>. QED BY <1>1, <1>2, PTL DEF Spec

(* The phase keeps to its types: caps, budgets and labels. *)
THEOREM AttemptTypeCorrect == Spec => []TypeOK
BY AttemptInvariant, PTL DEF AttemptInv

(* A phase goes green with the very tests that were seen failing. *)
THEOREM KeepsTests == Spec => []GreenKeepsTests
<1>1. AttemptInv => GreenKeepsTests
  BY DEF AttemptInv, TestsInv, GreenKeepsTests
<1>. QED BY <1>1, AttemptInvariant, PTL

(* No implementer starts before the tests its contract asks for are seen   *)
(* failing.                                                                *)
THEOREM Confirmed == Spec => []ConfirmedBeforeImplement
<1>1. AttemptInv => ConfirmedBeforeImplement
  BY DEF AttemptInv, TestsInv, ConfirmedBeforeImplement
<1>. QED BY <1>1, AttemptInvariant, PTL

(* The review beside the implementer is heard before any gate. *)
THEOREM Joined == Spec => []ReviewIsJoined
<1>1. AttemptInv => ReviewIsJoined
  BY DEF AttemptInv, ReviewInv, ReviewIsJoined
<1>. QED BY <1>1, AttemptInvariant, PTL
-----------------------------------------------------------------------------
(* The phase winds down: a measure that every step lowers.  It counts the   *)
(* attempts left, the strike that gives one back, the budget, and, within   *)
(* an attempt, how far the label is from the end.                           *)

LabelRank(l) ==
  CASE l = "boundary" -> 12 [] l = "ladder" -> 11 [] l = "tdd" -> 10 [] l = "accept" -> 9
    [] l = "implement" -> 8 [] l = "join" -> 7 [] l = "protect" -> 6 [] l = "gates" -> 5
    [] l = "blocked" -> 4 [] l = "governor" -> 3 [] l = "inherited" -> 2 [] l = "valve" -> 1
    [] OTHER -> 0

AttemptsLeft == (maxPhaseAttempts + 1 - attempt) * 2 + (IF strikes = 0 THEN 1 ELSE 0)
StepsLeft == (AttemptsLeft * (MaxAgents + 1) + budget) * 13 + LabelRank(pc)

(* Every step of the phase lowers a natural number.                         *)
WindsDown ==
  /\ [](StepsLeft \in Nat)
  /\ [][StepsLeft' < StepsLeft]_vars

Measured == AttemptInv /\ strikes \in Nat

(* Weighing what comes first by more than all that comes after it.          *)
LEMMA Weighed ==
  ASSUME NEW k \in Nat, NEW a \in Nat, NEW b \in 0 .. k, NEW c \in Nat, NEW d \in 0 .. k, c < a \/ (c = a /\ d < b)
  PROVE  /\ a * (k + 1) + b \in Nat /\ c * (k + 1) + d \in Nat
         /\ c * (k + 1) + d < a * (k + 1) + b
<1>. DEFINE A == a * (k + 1)
            C == c * (k + 1)
<1>1. A \in Nat /\ C \in Nat
  OBVIOUS
<1>2. CASE c = a /\ d < b
  <2>1. A = C
    BY <1>2
  <2>. HIDE DEF A, C
  <2>2. A + b \in Nat /\ C + d \in Nat /\ C + d < A + b
    BY <1>1, <1>2, <2>1
  <2>. QED BY <2>2 DEF A, C
<1>3. CASE c < a
  <2>1. PICK e \in Nat : a = c + 1 + e
    <3>1. a - c - 1 \in Nat /\ a = c + 1 + (a - c - 1)
      BY <1>3
    <3>. QED BY <3>1
  <2>2. A = C + (k + 1) + e * (k + 1)
    BY <2>1
  <2>3. e * (k + 1) \in Nat
    OBVIOUS
  <2>4. A >= C + (k + 1)
    <3>. DEFINE f == e * (k + 1)
    <3>. HIDE DEF A, C, f
    <3>1. A = C + (k + 1) + f /\ f \in Nat
      BY <2>2, <2>3 DEF f
    <3>. QED BY <1>1, <3>1
  <2>. HIDE DEF A, C
  <2>5. A + b \in Nat /\ C + d \in Nat /\ C + d < A + b
    BY <1>1, <2>4
  <2>. QED BY <2>5 DEF A, C
<1>. QED BY <1>2, <1>3

LEMMA Ranked ==
  ASSUME TypeOK
  PROVE  LabelRank(pc) \in 0 .. 12 /\ AttemptsLeft \in Nat /\ budget \in 0 .. MaxAgents
<1>1. LabelRank(pc) \in 0 .. 12
  BY DEF LabelRank
<1>2. maxPhaseAttempts + 1 - attempt \in Nat /\ budget \in 0 .. MaxAgents
  BY AttemptAssumption DEF TypeOK
<1>. QED BY <1>1, <1>2 DEF AttemptsLeft

LEMMA StepsCount ==
  ASSUME TypeOK
  PROVE  StepsLeft \in Nat
<1>. DEFINE n == AttemptsLeft * (MaxAgents + 1) + budget
<1>1. LabelRank(pc) \in Nat /\ AttemptsLeft \in Nat /\ budget \in Nat /\ MaxAgents \in Nat
  BY Ranked, AttemptAssumption
<1>2. n \in Nat
  BY <1>1
<1>. HIDE DEF n
<1>3. n * 13 + LabelRank(pc) \in Nat
  BY <1>1, <1>2
<1>. QED BY <1>3 DEF StepsLeft, n

(* A step goes on to a later label, or pays, or takes up an attempt.        *)
Descends ==
  \/ attempt' = attempt + 1
  \/ attempt' = attempt /\ strikes = 0 /\ strikes' # 0
  \/ attempt' = attempt /\ strikes' = strikes /\ budget' < budget
  \/ /\ attempt' = attempt /\ (strikes' = strikes \/ (strikes # 0 /\ strikes' # 0)) /\ budget' <= budget
     /\ LabelRank(pc') < LabelRank(pc)

LEMMA DescentCounts ==
  ASSUME TypeOK, TypeOK', Descends
  PROVE  StepsLeft' < StepsLeft
<1>1. /\ LabelRank(pc) \in 0 .. 12 /\ AttemptsLeft \in Nat /\ budget \in 0 .. MaxAgents
      /\ LabelRank(pc') \in 0 .. 12 /\ AttemptsLeft' \in Nat /\ budget' \in 0 .. MaxAgents
  <2>1. LabelRank(pc) \in 0 .. 12 /\ AttemptsLeft \in Nat /\ budget \in 0 .. MaxAgents
    BY Ranked
  <2>2. LabelRank(pc') \in 0 .. 12
    BY DEF TypeOK, LabelRank
  <2>3. maxPhaseAttempts + 1 - attempt' \in Nat /\ budget' \in 0 .. MaxAgents
    BY AttemptAssumption DEF TypeOK
  <2>. QED BY <2>1, <2>2, <2>3 DEF AttemptsLeft
<1>2. \/ AttemptsLeft' < AttemptsLeft
      \/ AttemptsLeft' = AttemptsLeft /\ budget' < budget
      \/ AttemptsLeft' = AttemptsLeft /\ budget' = budget /\ LabelRank(pc') < LabelRank(pc)
  <2>1. attempt \in Nat /\ attempt' \in Nat /\ maxPhaseAttempts \in Nat
    BY AttemptAssumption DEF TypeOK
  <2>2. budget \in Nat /\ budget' \in Nat
    BY <1>1, AttemptAssumption
  <2>. DEFINE s == IF strikes = 0 THEN 1 ELSE 0
              t == IF strikes' = 0 THEN 1 ELSE 0
  <2>3. AttemptsLeft = (maxPhaseAttempts + 1 - attempt) * 2 + s /\ AttemptsLeft' = (maxPhaseAttempts + 1 - attempt') * 2 + t
    BY DEF AttemptsLeft
  <2>4. /\ s \in {0, 1} /\ t \in {0, 1}
        /\ strikes = 0 /\ strikes' # 0 => s = 1 /\ t = 0
        /\ strikes' = strikes \/ (strikes # 0 /\ strikes' # 0) => s = t
    OBVIOUS
  <2>. HIDE DEF s, t
  <2>5. CASE attempt' = attempt + 1
    BY <2>1, <2>3, <2>4, <2>5
  <2>6. CASE attempt' = attempt /\ strikes = 0 /\ strikes' # 0
    BY <2>1, <2>3, <2>4, <2>6
  <2>7. CASE attempt' = attempt /\ s = t
    <3>1. AttemptsLeft' = AttemptsLeft
      BY <2>3, <2>7
    <3>. QED BY <2>1, <2>2, <2>4, <2>7, <3>1 DEF Descends
  <2>. QED BY <2>4, <2>5, <2>6, <2>7 DEF Descends
<1>. DEFINE u == AttemptsLeft * (MaxAgents + 1) + budget
            v == AttemptsLeft' * (MaxAgents + 1) + budget'
<1>3. u \in Nat /\ v \in Nat
  BY <1>1, AttemptAssumption
<1>4. v < u \/ (v = u /\ LabelRank(pc') < LabelRank(pc))
  <2>1. MaxAgents \in Nat
    BY AttemptAssumption
  <2>2. CASE AttemptsLeft' < AttemptsLeft \/ (AttemptsLeft' = AttemptsLeft /\ budget' < budget)
    BY <1>1, <2>1, <2>2, Weighed
  <2>3. CASE AttemptsLeft' = AttemptsLeft /\ budget' = budget /\ LabelRank(pc') < LabelRank(pc)
    BY <2>3
  <2>. QED BY <1>2, <2>2, <2>3
<1>. HIDE DEF u, v
<1>5. v * 13 + LabelRank(pc') < u * 13 + LabelRank(pc)
  BY <1>1, <1>3, <1>4
<1>. QED BY <1>5 DEF StepsLeft, u, v

LEMMA WindingStep ==
  ASSUME Measured, Next, ~UNCHANGED vars
  PROVE  Descends /\ strikes' \in Nat
<1>. USE DEF LabelRank
<1>0. /\ attempt \in Nat /\ budget \in Nat /\ strikes \in Nat /\ judge \in Nat
  BY AttemptAssumption DEF Measured, AttemptInv, TypeOK
<1>1. \A n \in Nat : /\ Left(n) \in Nat /\ Left(n) <= budget
                     /\ n > 0 /\ budget > 0 => Left(n) < budget
  BY <1>0 DEF Left
<1>. DEFINE Later == /\ attempt' = attempt /\ strikes' = strikes /\ budget' <= budget
                     /\ LabelRank(pc') < LabelRank(pc)
<1>2. Later => Descends /\ strikes' \in Nat
  BY <1>0 DEF Descends
<1>3. CASE OutOfBudget \/ AttemptCap \/ Fenced
  <2>1. Later
    BY <1>0, <1>3 DEF OutOfBudget, AttemptCap, Fenced, AtBoundary, Partial, counts, purse
  <2>. QED BY <1>2, <2>1
<1>4. CASE StartAttempt
  <2>1. Later
    BY <1>0, <1>4 DEF StartAttempt, AtBoundary, Goto, counts, purse
  <2>. QED BY <1>2, <2>1
<1>5. CASE TryRed
  <2>1. attempt' = attempt /\ strikes' = strikes /\ budget > 0 /\ \E n \in Nat : n > 0 /\ budget' = Left(n)
    BY <1>5 DEF TryRed, Goto
  <2>. QED BY <1>0, <1>1, <2>1 DEF Descends
<1>6. CASE RedBudgetGone \/ RetryRed
  <2>1. Later
    BY <1>0, <1>6 DEF RedBudgetGone, RetryRed, Goto, counts, purse
  <2>. QED BY <1>2, <2>1
<1>7. CASE AgentFatal
  <2>1. attempt' = attempt /\ strikes' = strikes /\ budget > 0 /\ budget' = Left(1)
    BY <1>7 DEF AgentFatal, FatalAbort, counts
  <2>. QED BY <1>0, <1>1, <2>1 DEF Descends
<1>8. CASE WeakeningHandoff
  <2>1. Later
    BY <1>0, <1>8 DEF WeakeningHandoff, counts, purse
  <2>. QED BY <1>2, <2>1
<1>9. ASSUME NEW A, NEW route, JudgeSays(A, route) PROVE budget' <= budget
  BY <1>1, <1>9 DEF JudgeSays
<1>10. CASE JudgeRed
  <2>1. pc = "ladder" /\ pc' \in {"tdd", "accept"} /\ attempt' = attempt /\ strikes' = strikes
    BY <1>10 DEF JudgeRed, RedRestart, RedEnds, counts
  <2>2. budget' <= budget
    BY <1>9, <1>10 DEF JudgeRed
  <2>3. Later
    BY <2>1, <2>2
  <2>. QED BY <1>2, <2>3
<1>11. CASE RedAcceptance
  <2>1. pc = "accept" /\ pc' \in {"done", "implement"} /\ attempt' = attempt /\ strikes' = strikes /\ budget' = budget
    BY <1>11 DEF RedAcceptance, NoEvidence, AlreadySatisfied, RejectRed, AcceptRed, Partial, Green, Goto, counts, purse
  <2>2. Later
    BY <1>0, <2>1
  <2>. QED BY <1>2, <2>2
<1>12. CASE Implement
  <2>1. pc = "implement" /\ pc' \in {"join", "protect"} /\ attempt' = attempt /\ strikes' = strikes /\ budget' = Left(1 + AssistCalls)
    BY <1>12 DEF Implement, Goto
  <2>2. 1 + AssistCalls \in Nat
    BY DEF AssistCalls
  <2>3. Later
    BY <1>1, <2>1, <2>2
  <2>. QED BY <1>2, <2>3
<1>13. CASE ReviewPasses \/ NoBreach
  <2>1. Later
    BY <1>0, <1>13 DEF ReviewPasses, NoBreach, Goto, counts, purse
  <2>. QED BY <1>2, <2>1
<1>14. CASE ReviewRejects
  <2>1. strikes' = strikes /\ (attempt' = attempt + 1 \/ Later)
    BY <1>0, <1>14 DEF ReviewRejects, Partial, NextAttempt, purse
  <2>. QED BY <1>0, <1>2, <2>1 DEF Descends
<1>15. CASE Breach
  <2>1. CASE Excused(strikes + 1) /\ strikes' = strikes + 1 /\ SameAttempt
    BY <1>0, <2>1 DEF Excused, SameAttempt, Descends
  <2>2. CASE /\ ~Excused(strikes + 1)
             /\ \E route \in Judged({"replan-upstream", "challenge-test"}) :
                  /\ JudgeSays({"replan-upstream", "challenge-test"}, route)
                  /\ \/ strikes' = 0 /\ NextAttempt
                     \/ strikes' = strikes + 1 /\ Partial("no-progress")
    <3>1. budget' <= budget
      BY <1>9, <2>2
    <3>2. CASE strikes' = 0 /\ NextAttempt
      BY <3>2 DEF NextAttempt, Descends
    <3>3. CASE strikes' = strikes + 1 /\ Partial("no-progress")
      <4>1. pc = "protect" /\ pc' = "done" /\ attempt' = attempt
        BY <1>15, <3>3 DEF Breach, Partial
      <4>2. strikes # 0 /\ strikes' # 0 /\ strikes' \in Nat
        BY <1>0, <2>2, <3>3 DEF Excused
      <4>. QED BY <3>1, <4>1, <4>2 DEF Descends
    <3>. QED BY <2>2, <3>2, <3>3
  <2>. QED BY <1>15, <2>1, <2>2 DEF Breach
<1>16. CASE GateRound
  <2>1. pc = "gates" /\ pc' \in {"done", "blocked", "governor"} /\ attempt' = attempt /\ strikes' = strikes /\ budget' = budget
    BY <1>16 DEF GateRound, GreenBoundary, DoorInTheFence, GatesFail, Partial, Green, FatalAbort, Goto, counts, purse
  <2>2. Later
    BY <1>0, <2>1
  <2>. QED BY <1>2, <2>2
<1>17. CASE Regate
  <2>1. pc = "blocked" /\ pc' \in {"done", "governor"} /\ attempt' = attempt /\ strikes' = strikes /\ budget' = budget
    BY <1>17 DEF Regate, Green, Goto, counts, purse
  <2>2. Later
    BY <1>0, <2>1
  <2>. QED BY <1>2, <2>2
<1>18. CASE JudgeEnvironment
  <2>1. pc = "blocked" /\ pc' \in {"done", "governor"} /\ attempt' = attempt /\ strikes' = strikes
    BY <1>18 DEF JudgeEnvironment, Partial, Goto, counts
  <2>2. budget' <= budget
    BY <1>9, <1>18 DEF JudgeEnvironment
  <2>3. Later
    BY <2>1, <2>2
  <2>. QED BY <1>2, <2>3
<1>19. CASE Challenge
  <2>1. strikes' = strikes /\ attempt' = attempt + 1
    BY <1>19 DEF Challenge, NextAttempt
  <2>. QED BY <1>0, <2>1 DEF Descends
<1>20. CASE Govern
  <2>1. /\ pc = "governor" /\ strikes' = strikes /\ budget' = budget
        /\ Goto("inherited") \/ Goto("valve") \/ NextAttempt
    BY <1>20 DEF Govern, purse
  <2>2. attempt' = attempt + 1 \/ Later
    BY <1>0, <2>1 DEF Goto, NextAttempt
  <2>. QED BY <1>0, <1>2, <2>1, <2>2 DEF Descends
<1>21. CASE InheritedRedLadder
  <2>1. /\ pc = "inherited" /\ strikes' = strikes /\ budget' = budget
        /\ attempt' = attempt + 1 \/ (attempt' = attempt /\ pc' \in {"valve", "done"})
    BY <1>21 DEF InheritedRedLadder, OwnLeak, FlakeGreen, Inherited, AfterLadder, Goto, NextAttempt, Green, Partial, FatalAbort, counts, purse
  <2>2. attempt' = attempt + 1 \/ Later
    BY <1>0, <2>1
  <2>. QED BY <1>0, <1>2, <2>1, <2>2 DEF Descends
<1>22. CASE Valve
  <2>1. /\ pc = "valve" /\ strikes' = strikes
        /\ attempt' = attempt + 1 \/ (attempt' = attempt /\ pc' = "done")
    BY <1>22 DEF Valve, Reauthor, NextAttempt, Partial
  <2>2. budget' <= budget
    BY <1>9, <1>22 DEF Valve
  <2>3. attempt' = attempt + 1 \/ Later
    BY <2>1, <2>2
  <2>. QED BY <1>0, <1>2, <2>1, <2>3 DEF Descends
<1>23. ~Done
  BY DEF Done
<1>. QED BY <1>3, <1>4, <1>5, <1>6, <1>7, <1>8, <1>10, <1>11, <1>12, <1>13, <1>14, <1>15, <1>16, <1>17, <1>18, <1>19,
            <1>20, <1>21, <1>22, <1>23 DEF Next, RedLoop, ImplementerRound

(* For any caps and budgets every step of the phase uses up some of a       *)
(* number that is finite when it begins: no phase goes on for ever.         *)
THEOREM Winding == Spec => WindsDown
<1>1. Init => Measured
  BY InitHolds DEF Init, Measured
<1>2. Measured /\ [Next]_vars => Measured' /\ [StepsLeft' < StepsLeft]_vars
  <2>. SUFFICES ASSUME Measured, [Next]_vars PROVE Measured' /\ [StepsLeft' < StepsLeft]_vars
    OBVIOUS
  <2>1. AttemptInv'
    BY AttemptStep DEF Measured
  <2>2. CASE UNCHANGED vars
    BY <2>1, <2>2 DEF Measured, vars, counts
  <2>3. CASE Next /\ ~UNCHANGED vars
    <3>1. Descends /\ strikes' \in Nat
      BY <2>3, WindingStep
    <3>2. StepsLeft' < StepsLeft
      BY <2>1, <3>1, DescentCounts DEF Measured, AttemptInv
    <3>. QED BY <2>1, <3>1, <3>2 DEF Measured
  <2>. QED BY <2>2, <2>3
<1>3. Measured => StepsLeft \in Nat
  BY StepsCount DEF Measured, AttemptInv
<1>. QED BY <1>1, <1>2, <1>3, PTL DEF Spec, WindsDown

(***************************************************************************)
(* The gates.  Why a released failure was there before the branch: a       *)
(* remembered verdict was computed against the merge base the run still    *)
(* has, so "preexisting" says of every subject it was asked about that it  *)
(* fails there.  Why a phase that is red only for others may still turn    *)
(* green: the clauses of its files held when it was measured.              *)
(***************************************************************************)
VerdictsHold ==
  \A k \in DOMAIN cache : cache[k] = "preexisting" /\ k[1] # "rust" => \A s \in k[2] : base[s] = "bad"

BlockedIsOwn ==
  phase = "blocked" => world.contract \cap FileClauses \subseteq met \cup (IF reverted THEN {"scenario"} ELSE {})

GatesInv == GatesTypeOK /\ VerdictsHold /\ ReleaseIsEarned /\ BlockedIsOwn

LEMMA VerdictOf ==
  ASSUME GatesTypeOK, VerdictsHold, NEW fam, NEW S, NEW wholeSuite \in BOOLEAN, NEW upset
  PROVE  /\ verifyUntouchedFailures(fam, S, wholeSuite, upset) \in Verdicts
         /\ fam # "rust" /\ verifyUntouchedFailures(fam, S, wholeSuite, upset) = "preexisting"
              => \A s \in S : base[s] = "bad"
<1>. DEFINE v == BaselineRun(fam, S, wholeSuite)
            failing == BadAtBase({s \in subs : Family[s] = "node"})
<1>1. /\ classifyFileSubjects(S, failing) \in Verdicts /\ classifyFileSubjects(S, BadAtBase(S)) \in Verdicts
      /\ classifyFileSubjects(S, failing) = "preexisting" => \A s \in S : base[s] = "bad"
      /\ classifyFileSubjects(S, BadAtBase(S)) = "preexisting" => \A s \in S : base[s] = "bad"
  BY DEF classifyFileSubjects, BadAtBase, Verdicts
<1>2. v \in Verdicts /\ (fam # "rust" /\ v = "preexisting" => \A s \in S : base[s] = "bad")
  <2>1. CASE fam \in {"mixed", "rust"}
    BY <2>1 DEF BaselineRun, Verdicts
  <2>2. CASE fam \in {"python", "go"} /\ AbsentAtBase(S) # {}
    BY <2>2 DEF BaselineRun, Verdicts
  <2>3. CASE fam = "node" /\ wholeSuite
    <3>1. \/ v = "regression" \/ v = "unknown" \/ v = classifyFileSubjects(S, failing)
      BY <2>3 DEF BaselineRun
    <3>. QED BY <1>1, <3>1 DEF Verdicts
  <2>4. CASE fam = "node" /\ ~wholeSuite /\ S = AbsentAtBase(S)
    BY <2>4 DEF BaselineRun, Verdicts
  <2>5. CASE /\ fam \notin {"mixed", "rust"}
             /\ ~(fam \in {"python", "go"} /\ AbsentAtBase(S) # {})
             /\ ~(fam = "node" /\ wholeSuite)
             /\ ~(fam = "node" /\ ~wholeSuite /\ S = AbsentAtBase(S))
    <3>1. v = "regression" \/ v = classifyFileSubjects(S, BadAtBase(S))
      BY <2>5 DEF BaselineRun
    <3>. QED BY <1>1, <3>1 DEF Verdicts
  <2>. QED BY <2>1, <2>2, <2>3, <2>4, <2>5
<1>. HIDE DEF v
<1>3. PICK k : k = CacheKey(fam, S)
  OBVIOUS
<1>4. k[1] = fam /\ k[2] = S
  BY <1>3 DEF CacheKey
<1>5. k \in DOMAIN cache => /\ cache[k] \in Verdicts
                            /\ cache[k] = "preexisting" /\ fam # "rust" => \A s \in S : base[s] = "bad"
  BY <1>4 DEF GatesTypeOK, VerdictsHold
<1>6. \/ verifyUntouchedFailures(fam, S, wholeSuite, upset) = "unknown"
      \/ k \in DOMAIN cache /\ verifyUntouchedFailures(fam, S, wholeSuite, upset) = cache[k]
      \/ verifyUntouchedFailures(fam, S, wholeSuite, upset) = v
  BY <1>3, Zenon DEF verifyUntouchedFailures, v
<1>. QED BY <1>2, <1>5, <1>6 DEF Verdicts

(* A plan runs the subjects of one language, in a rust project only rust.   *)
LEMMA PlanLanguage ==
  ASSUME NEW modules, NEW P \in Plans(modules)
  PROVE  /\ P \subseteq subs
         /\ \E f : (lang = "rust" => f = "rust") /\ \A s \in P : Family[s] = f
<1>1. P = RootPlan \/ (lang # "rust" /\ \E f \in modules : P = NestedPlan(f))
  BY DEF Plans
<1>. QED BY <1>1 DEF RootPlan, NestedPlan

(* Every block of a gate's output names failures of one plan.               *)
LEMMA BlockOfPlan ==
  ASSUME NEW modules, NEW ran, NEW t \in Tails(modules, ran), NEW boot \in BOOLEAN, NEW b \in Blocks(t, boot)
  PROVE  /\ b \subseteq subs
         /\ \E f : (lang = "rust" => f = "rust") /\ \A s \in b : Family[s] = f
<1>1. CASE b = {}
  BY <1>1
<1>2. CASE b # {}
  <2>1. DOMAIN t = FailingPlans(modules, ran)
    BY DEF Tails
  <2>2. PICK P \in FailingPlans(modules, ran) : b = t[P]
    BY <1>2, <2>1 DEF Blocks
  <2>3. P \in Plans(modules) /\ b \subseteq P
    BY <2>2 DEF FailingPlans, Tails, Bad
  <2>. QED BY <2>3, PlanLanguage
<1>. QED BY <1>1, <1>2

(* What a gate releases it has read: the block names something, and no node *)
(* test, and no crate the plan's gate did not settle, that it saw touched.  *)
Unseen(b, seen) ==
  \A s \in b : (lang # "rust" /\ Family[s] = "node") \/ (lang = "rust" /\ ~world.gate) => s \notin seen

LEMMA ReleasedBlock ==
  ASSUME NEW blocks, NEW seen, NEW listed, NEW b \in Released(blocks, seen, listed), b \subseteq subs
  PROVE  b # {} /\ Unseen(b, seen)
<1>1. CASE lang = "rust"
  BY <1>1 DEF Released, classifyOutOfScopeErrors, AnyTouched, Scope, Unseen
<1>2. CASE lang # "rust"
  <2>1. Markers(b) # {} /\ ~AnyTouched(Markers(b), {s \in subs : InTouched(s, seen)})
    BY <1>2 DEF Released, classifyOutOfScopeNpmErrors
  <2>. QED BY <1>2, <2>1 DEF Markers, AnyTouched, InTouched, Unseen
<1>. QED BY <1>1, <1>2

(* A subject of a block is one of those its group is asked about, unless it *)
(* is one that cannot be judged.                                            *)
LEMMA GroupAsks ==
  ASSUME NEW b, NEW named, NEW scope, NEW f, NEW s \in b, b \subseteq subs, b \subseteq named,
         subs \subseteq DOMAIN Family, \A x \in b : Family[x] = f,
         f # "rust", ~(f = "node" /\ lang \in {"go", "python"}), lang \in {"node", "go", "python", "mixed"},
         ~(f = "go" /\ s \notin Nested /\ named \cap Nested # {})
  PROVE  s \in GroupSubjects(GroupOf(b), named, scope) /\ GroupOf(b) # "rust"
<1>1. Family[CHOOSE x \in b : TRUE] = f
  OBVIOUS
<1>2. f \in {"node", "go", "python"}
  BY GatesAssumption
<1>3. CASE f = "node"
  <2>1. GroupOf(b) \in {"node", "mixed"}
    BY <1>1, <1>3 DEF GroupOf
  <2>. QED BY <1>3, <2>1 DEF GroupSubjects
<1>4. CASE f = "python"
  BY <1>1, <1>4 DEF GroupOf, GroupSubjects
<1>5. CASE f = "go"
  <2>1. GroupOf(b) = "go"
    BY <1>1, <1>5 DEF GroupOf
  <2>. DEFINE g == {x \in named : Family[x] = "go"}
  <2>2. GroupSubjects("go", named, scope) = IF g \cap Nested # {} THEN g \cap Nested ELSE g
    BY DEF GroupSubjects
  <2>3. s \in g
    BY <1>5
  <2>4. g \cap Nested # {} => s \in Nested
    BY <1>5
  <2>. QED BY <2>1, <2>2, <2>3, <2>4
<1>. QED BY <1>2, <1>3, <1>4, <1>5

(* The step of a gate, with what it read and what it asked named.           *)
Asked(out, seen, groups) ==
  \E wholeSuite \in BOOLEAN, upset \in Mishaps : groups = Groups(out, seen, wholeSuite, upset)

GateReads(blocks, out, groups, seen) ==
  /\ out \subseteq blocks
  /\ \A b \in blocks : b \subseteq subs /\ \E f : (lang = "rust" => f = "rust") /\ \A s \in b : Family[s] = f
  /\ \A b \in out : b # {} /\ Unseen(b, seen)
  /\ \A s \in touched \ seen : (IF s \in untracked THEN "untracked" ELSE "diff") \in last'.failed
  /\ groups = {} \/ Asked(out, seen, groups)
  /\ hasDefault /\ blocks # {} /\ blocks \subseteq out => Asked(out, seen, groups)
  /\ last'.pass = (blocks = {}) /\ last'.inScope = resolveInScopePass(blocks, out, groups)
  /\ last'.named = UNION blocks /\ last'.groups = groups
  /\ \/ cache' = cache
     \/ cache' = [k \in DOMAIN cache \cup {CacheKey(g.fam, g.subs) : g \in groups} |->
                   IF k \in DOMAIN cache THEN cache[k]
                   ELSE (CHOOSE g \in groups : CacheKey(g.fam, g.subs) = k).status]

(* Every failing plan the gate knew of has a block of its own unless the    *)
(* bootstrap failed, and the block of a failed bootstrap is never released. *)
Reported(blocks, out) ==
  \/ {} \in blocks /\ {} \notin out
  \/ \E modules, ran :
       /\ modules = dirty \/ "plan" \in last'.failed
       /\ last'.flaky = {s \in subs : ran[s] # tree[s]}
       /\ \A P \in FailingPlans(modules, ran) : \E b \in blocks : b \subseteq Bad(P, ran)

(* What a gate of this outcome leaves, as RunGate says it.                  *)
Leaves(upset, ran, listed, t, wholeSuite) ==
  LET seen   == touchedFilePaths(upset)
      blocks == Blocks(t, "bootstrap" \in upset)
      out    == Released(blocks, seen, listed)
      groups == IF hasDefault /\ blocks # {} /\ blocks \subseteq out THEN Groups(out, seen, wholeSuite, upset) ELSE {} IN
  /\ wholeSuite => groups # {} /\ \E g \in groups : g.fam = "node"
  /\ last' = [pass |-> blocks = {}, inScope |-> resolveInScopePass(blocks, out, groups),
              named |-> UNION blocks, groups |-> groups,
              failed |-> upset \cap {"diff", "untracked", "plan"}, flaky |-> {s \in subs : ran[s] # tree[s]}]
  /\ cache' = Remembered(groups, upset)

LEMMA SuiteStep ==
  ASSUME RunGate
  PROVE  /\ \E blocks, out, groups, seen : GateReads(blocks, out, groups, seen) /\ Reported(blocks, out)
         /\ \E f \in BOOLEAN : Faulty(f)
<1>1. PICK upset \in Mishaps :
        /\ Faulty(upset # {})
        /\ \E ran \in Outcomes(upset), modules \in Modules(upset),
              listed \in Listings(touchedFilePaths(upset), upset) :
           \E t \in Tails(modules, ran), wholeSuite \in BOOLEAN : Leaves(upset, ran, listed, t, wholeSuite)
  BY ONLY RunGate, Zenon DEF RunGate, Leaves
<1>2. PICK ran \in Outcomes(upset), modules \in Modules(upset), listed \in Listings(touchedFilePaths(upset), upset) :
        \E t \in Tails(modules, ran), wholeSuite \in BOOLEAN : Leaves(upset, ran, listed, t, wholeSuite)
  BY <1>1
<1>3. PICK t \in Tails(modules, ran), wholeSuite \in BOOLEAN : Leaves(upset, ran, listed, t, wholeSuite)
  BY <1>2
<1>4. PICK seen : seen = touchedFilePaths(upset)
  OBVIOUS
<1>5. PICK boot : boot = ("bootstrap" \in upset)
  OBVIOUS
<1>6. PICK blocks : blocks = Blocks(t, boot)
  OBVIOUS
<1>7. PICK out : out = Released(blocks, seen, listed)
  OBVIOUS
<1>8. PICK groups : groups = IF hasDefault /\ blocks # {} /\ blocks \subseteq out
                            THEN Groups(out, seen, wholeSuite, upset) ELSE {}
  OBVIOUS
<1>9. /\ last' = [pass |-> blocks = {}, inScope |-> resolveInScopePass(blocks, out, groups),
                  named |-> UNION blocks, groups |-> groups,
                  failed |-> upset \cap {"diff", "untracked", "plan"},
                  flaky |-> {s \in subs : ran[s] # tree[s]}]
      /\ cache' = Remembered(groups, upset)
  BY <1>3, <1>4, <1>5, <1>6, <1>7, <1>8 DEF Leaves
<1>10. boot \in BOOLEAN
  BY <1>5
<1>11. /\ last'.pass = (blocks = {}) /\ last'.inScope = resolveInScopePass(blocks, out, groups)
      /\ last'.named = UNION blocks /\ last'.groups = groups
      /\ last'.failed = upset \cap {"diff", "untracked", "plan"} /\ last'.flaky = {s \in subs : ran[s] # tree[s]}
  BY <1>9
<1>12. \/ cache' = cache
      \/ cache' = [k \in DOMAIN cache \cup {CacheKey(g.fam, g.subs) : g \in groups} |->
                    IF k \in DOMAIN cache THEN cache[k]
                    ELSE (CHOOSE g \in groups : CacheKey(g.fam, g.subs) = k).status]
  BY <1>9, Zenon DEF Remembered
<1>13. \A b \in blocks : b \subseteq subs /\ \E f : (lang = "rust" => f = "rust") /\ \A s \in b : Family[s] = f
  BY <1>10, <1>6, BlockOfPlan
<1>14. out \subseteq blocks
  BY <1>7 DEF Released, classifyOutOfScopeErrors, classifyOutOfScopeNpmErrors
<1>15. \A b \in out : b # {} /\ Unseen(b, seen)
  BY <1>13, <1>14, <1>7, ReleasedBlock
<1>16. \A s \in touched \ seen : (IF s \in untracked THEN "untracked" ELSE "diff") \in last'.failed
  BY <1>11, <1>4 DEF touchedFilePaths
<1>17. groups = {} \/ Asked(out, seen, groups)
  BY <1>8 DEF Asked
<1>18. hasDefault /\ blocks # {} /\ blocks \subseteq out => Asked(out, seen, groups)
  BY <1>8 DEF Asked
<1>19. GateReads(blocks, out, groups, seen)
  BY <1>11, <1>12, <1>13, <1>14, <1>15, <1>16, <1>17, <1>18 DEF GateReads
<1>20. Reported(blocks, out)
  <2>1. CASE boot
    BY <1>15, <1>6, <2>1 DEF Blocks, Reported
  <2>2. CASE ~boot
    <3>1. \A P \in FailingPlans(modules, ran) : t[P] \in blocks /\ t[P] \subseteq Bad(P, ran)
      <4>1. DOMAIN t = FailingPlans(modules, ran)
        BY DEF Tails
      <4>. QED BY <1>6, <2>2, <4>1 DEF Blocks, Tails
    <3>2. modules = dirty \/ "plan" \in last'.failed
      BY <1>11 DEF Modules
    <3>. QED BY <1>11, <3>1, <3>2 DEF Reported
  <2>. QED BY <1>10, <2>1, <2>2
<1>21. \E f \in BOOLEAN : Faulty(f)
  <2>1. Faulty(upset # {}) /\ (upset # {}) \in BOOLEAN
    BY <1>1
  <2>. QED BY <2>1
<1>. QED BY <1>19, <1>20, <1>21

Group(f, named, seen, wholeSuite, upset) ==
  [fam |-> f, subs |-> GroupSubjects(f, named, Scope(seen)),
   status |-> verifyUntouchedFailures(f, GroupSubjects(f, named, Scope(seen)), wholeSuite, upset)]

LEMMA GroupForm ==
  ASSUME NEW out, NEW seen, NEW wholeSuite, NEW upset
  PROVE  /\ \A g \in Groups(out, seen, wholeSuite, upset) :
               \E f : g = Group(f, UNION {b \in out : GroupOf(b) = f}, seen, wholeSuite, upset)
         /\ \A b \in out :
               GroupSubjects(GroupOf(b), UNION {c \in out : GroupOf(c) = GroupOf(b)}, Scope(seen)) # {} =>
               Group(GroupOf(b), UNION {c \in out : GroupOf(c) = GroupOf(b)}, seen, wholeSuite, upset)
                 \in Groups(out, seen, wholeSuite, upset)
BY DEF Groups, Group

LEMMA AskedGroups ==
  ASSUME GatesTypeOK, VerdictsHold, NEW out, NEW seen, NEW groups, Asked(out, seen, groups), NEW g \in groups
  PROVE  /\ g.status \in Verdicts
         /\ g.fam # "rust" /\ g.status = "preexisting" => \A s \in g.subs : base[s] = "bad"
<1>1. PICK wholeSuite \in BOOLEAN, upset \in Mishaps : groups = Groups(out, seen, wholeSuite, upset)
  BY DEF Asked
<1>2. PICK f : g = Group(f, UNION {b \in out : GroupOf(b) = f}, seen, wholeSuite, upset)
  BY <1>1, GroupForm
<1>3. PICK S : S = GroupSubjects(f, UNION {b \in out : GroupOf(b) = f}, Scope(seen))
  OBVIOUS
<1>4. g.fam = f /\ g.subs = S /\ g.status = verifyUntouchedFailures(f, S, wholeSuite, upset)
  BY <1>2, <1>3 DEF Group
<1>. QED BY <1>4, VerdictOf

(* The remembered verdicts stay true, for the merge base does not move.     *)
LEMMA GateRemembers ==
  ASSUME GatesTypeOK, VerdictsHold, RunGate, UNCHANGED env
  PROVE  VerdictsHold' /\ \A k \in DOMAIN cache' : cache'[k] \in Verdicts
<1>1. PICK blocks, out, groups, seen : GateReads(blocks, out, groups, seen)
  BY SuiteStep
<1>2. SUFFICES ASSUME NEW k \in DOMAIN cache'
               PROVE  /\ cache'[k] \in Verdicts
                      /\ cache'[k] = "preexisting" /\ k[1] # "rust" => \A s \in k[2] : base[s] = "bad"
  BY DEF VerdictsHold, env
<1>3. CASE k \in DOMAIN cache
  <2>1. cache'[k] = cache[k]
    BY <1>1, <1>3 DEF GateReads
  <2>. QED BY <1>3, <2>1 DEF VerdictsHold, GatesTypeOK
<1>4. CASE k \notin DOMAIN cache
  <2>1. \E g \in groups : CacheKey(g.fam, g.subs) = k
    BY <1>1, <1>2, <1>4 DEF GateReads
  <2>2. PICK g \in groups : CacheKey(g.fam, g.subs) = k /\ cache'[k] = g.status
    <3>1. cache'[k] = (CHOOSE g \in groups : CacheKey(g.fam, g.subs) = k).status
      BY <1>1, <1>2, <1>4 DEF GateReads
    <3>. QED BY <2>1, <3>1
  <2>3. Asked(out, seen, groups)
    BY <1>1, <2>2 DEF GateReads
  <2>4. k[1] = g.fam /\ k[2] = g.subs
    BY <2>2 DEF CacheKey
  <2>. QED BY <2>2, <2>3, <2>4, AskedGroups
<1>. QED BY <1>3, <1>4

(* What a gate lets through it has earned, also when files are put back in  *)
(* the same step: a touched file that remains is tracked as it was.         *)
Remains == \A s \in touched' : s \in touched /\ (s \in untracked' <=> s \in untracked)

LEMMA GateEarns ==
  ASSUME GatesTypeOK, VerdictsHold, RunGate, UNCHANGED env, Remains
  PROVE  ReleaseIsEarned'
<1>1. PICK blocks, out, groups, seen : GateReads(blocks, out, groups, seen)
  BY SuiteStep
<1>2. /\ last'.pass = (blocks = {}) /\ last'.inScope = resolveInScopePass(blocks, out, groups)
      /\ last'.named = UNION blocks /\ last'.groups = groups
  BY <1>1 DEF GateReads
<1>3. lang' = lang /\ world' = world /\ hasDefault' = hasDefault /\ base' = base
  BY DEF lang, env
<1>4. SUFFICES ASSUME resolveInScopePass(blocks, out, groups), blocks # {}, NEW b \in blocks, NEW s \in b
               PROVE  /\ s \in touched' /\ (Family[s] = "node" \/ (lang = "rust" /\ ~world.gate)) => NotListed(s)'
                      /\ base[s] = "bad" \/ Unjudged(s)'
  BY <1>2, <1>3 DEF ReleaseIsEarned
<1>5. blocks \subseteq out /\ (hasDefault => \A g \in groups : g.status # "regression")
  BY <1>4 DEF resolveInScopePass
<1>6. b \in out /\ b \subseteq subs /\ s \in subs
  BY <1>1, <1>4, <1>5 DEF GateReads
<1>7. PICK f : (lang = "rust" => f = "rust") /\ \A x \in b : Family[x] = f
  BY <1>1, <1>4 DEF GateReads
<1>8. s \in touched' /\ (Family[s] = "node" \/ (lang = "rust" /\ ~world.gate)) => NotListed(s)'
  <2>. SUFFICES ASSUME s \in touched', Family[s] = "node" \/ (lang = "rust" /\ ~world.gate) PROVE NotListed(s)'
    OBVIOUS
  <2>1. s \notin seen
    <3>1. Unseen(b, seen)
      BY <1>1, <1>6 DEF GateReads
    <3>. QED BY <1>4, <1>7, <3>1 DEF Unseen
  <2>2. s \in touched /\ (s \in untracked' <=> s \in untracked)
    BY DEF Remains
  <2>3. (IF s \in untracked THEN "untracked" ELSE "diff") \in last'.failed
    BY <1>1, <2>1, <2>2 DEF GateReads
  <2>. QED BY <2>2, <2>3 DEF NotListed
<1>9. world \in Worlds /\ subs \subseteq DOMAIN Family /\ lang \in {"node", "go", "rust", "python", "mixed"}
  BY GatesAssumption DEF GatesTypeOK, subs, lang
<1>10. CASE ~hasDefault \/ f = "rust" \/ (f = "node" /\ lang \in {"go", "python"})
  BY <1>3, <1>4, <1>7, <1>8, <1>10 DEF Unjudged
<1>11. PICK named : named = UNION {c \in out : GroupOf(c) = GroupOf(b)}
  OBVIOUS
<1>12. b \subseteq named /\ named \subseteq UNION blocks
  BY <1>1, <1>6, <1>11 DEF GateReads
<1>13. CASE f = "go" /\ s \notin Nested /\ named \cap Nested # {}
  BY <1>2, <1>4, <1>7, <1>8, <1>12, <1>13 DEF Unjudged
<1>14. CASE /\ hasDefault /\ f # "rust" /\ ~(f = "node" /\ lang \in {"go", "python"})
            /\ ~(f = "go" /\ s \notin Nested /\ named \cap Nested # {})
  <2>1. PICK wholeSuite \in BOOLEAN, upset \in Mishaps : groups = Groups(out, seen, wholeSuite, upset)
    BY <1>1, <1>4, <1>5, <1>14 DEF GateReads, Asked
  <2>2. lang \in {"node", "go", "python", "mixed"}
    BY <1>7, <1>9, <1>14
  <2>3. s \in GroupSubjects(GroupOf(b), named, Scope(seen)) /\ GroupOf(b) # "rust"
    BY <1>4, <1>6, <1>7, <1>9, <1>12, <1>14, <2>2, GroupAsks
  <2>4. PICK g \in groups : g.fam = GroupOf(b) /\ g.subs = GroupSubjects(GroupOf(b), named, Scope(seen))
    <3>1. Group(GroupOf(b), named, seen, wholeSuite, upset) \in groups
      BY <1>6, <1>11, <2>1, <2>3, GroupForm
    <3>. QED BY <3>1 DEF Group
  <2>5. Asked(out, seen, groups)
    BY <2>1 DEF Asked
  <2>6. g.status \in Verdicts /\ (g.status = "preexisting" => base[s] = "bad")
    BY <2>3, <2>4, <2>5, AskedGroups
  <2>7. g.status # "regression"
    BY <1>5, <1>14
  <2>8. CASE g.status = "preexisting"
    BY <1>8, <2>6, <2>8
  <2>9. CASE g.status = "unknown"
    BY <1>2, <1>8, <2>3, <2>4, <2>9 DEF Unjudged
  <2>. QED BY <2>6, <2>7, <2>8, <2>9 DEF Verdicts
<1>. QED BY <1>10, <1>13, <1>14

LEMMA CheckTypes ==
  ASSUME GatesTypeOK, NEW skipTests \in BOOLEAN, CheckDeliverables(skipTests)
  PROVE  /\ lister' \in {"empty", "unavailable", "with", "without"}
         /\ ~skipTests /\ "test" \in world.contract /\ lister' # "without" => suite \/ lister' = "unavailable"
BY DEF CheckDeliverables, loadTestList, resetDeliverableCheckCache, GatesTypeOK

LEMMA FaultsCounted ==
  ASSUME GatesTypeOK, RunGate
  PROVE  faults' \in 0 .. MaxFaults
<1>1. PICK f \in BOOLEAN : faults' = faults + (IF f THEN 1 ELSE 0) /\ faults' <= MaxFaults
  BY SuiteStep DEF Faulty
<1>. QED BY <1>1, GatesAssumption DEF GatesTypeOK

(* Files put back leave a tree of the same kind, and take at most the       *)
(* scenario's tag out of the contract.                                      *)
LEMMA PutBackKeeps ==
  ASSUME GatesTypeOK, NEW S, S \subseteq subs, PutBack(S)
  PROVE  /\ tree' \in [subs -> Status]
         /\ touched' \subseteq subs /\ untracked' \subseteq touched' /\ dirty' = dirty
         /\ met' \subseteq FileClauses /\ met \ {"scenario"} \subseteq met'
         /\ suite' \in BOOLEAN /\ text' \in BOOLEAN
         /\ Remains
<1>1. PICK s \in S : \E v \in {tree[s], base[s], "bad"}, T \in SUBSET ({s} \cap touched) :
        tree' = [tree EXCEPT ![s] = v] /\ touched' = touched \ T /\ untracked' = untracked \ T
  BY DEF PutBack
<1>2. PICK v \in {tree[s], base[s], "bad"}, T \in SUBSET ({s} \cap touched) :
        tree' = [tree EXCEPT ![s] = v] /\ touched' = touched \ T /\ untracked' = untracked \ T
  BY <1>1
<1>3. v \in Status
  BY <1>1, <1>2 DEF GatesTypeOK, Status
<1>4. tree' \in [subs -> Status]
  BY <1>1, <1>2, <1>3 DEF GatesTypeOK
<1>5. touched' \subseteq subs /\ untracked' \subseteq touched' /\ Remains
  BY <1>2 DEF GatesTypeOK, Remains
<1>6. met' \subseteq FileClauses /\ met \ {"scenario"} \subseteq met'
  BY DEF PutBack, GatesTypeOK, FileClauses
<1>7. suite' \in BOOLEAN /\ text' \in BOOLEAN /\ dirty' = dirty
  BY DEF PutBack, GatesTypeOK
<1>. QED BY <1>4, <1>5, <1>6, <1>7

(* Every caller that measures gate and deliverables: the suite, which may   *)
(* put leaked files back afterwards, the phase after a quarantine, the      *)
(* resumed phase, the phase that RED found done, and the re-check at the    *)
(* close of the stage.                                                      *)
Measures == \E extra \in BOOLEAN, ladder \in BOOLEAN : Verified(extra, ladder)

LEMMA Callers ==
  ASSUME GatesTypeOK, GateSuite \/ GateAgain \/ ResumeNoOp \/ SatisfiedAtRed \/ CloseReverify
  PROVE  Measures /\ (Undisturbed \/ LeakRevert) /\ regateSpent' \in BOOLEAN
<1>1. ASSUME NEW claimed PROVE (computeChangeGate(claimed) /\ computeSymbolGate(claimed)) \in BOOLEAN
  BY DEF computeChangeGate, computeSymbolGate
<1>2. CASE GateSuite
  <2>1. \E own \in BOOLEAN : Verified(own, TRUE)
    BY <1>1, <1>2 DEF GateSuite
  <2>. QED BY <1>2, <2>1 DEF GateSuite, Measures, GatesTypeOK
<1>3. CASE GateAgain \/ ResumeNoOp \/ SatisfiedAtRed \/ CloseReverify
  <2>1. Verified(TRUE, FALSE) /\ Undisturbed /\ (UNCHANGED regateSpent \/ regateSpent' = FALSE)
    BY <1>3 DEF GateAgain, ResumeNoOp, SatisfiedAtRed, CloseReverify
  <2>. QED BY <2>1 DEF Measures, GatesTypeOK
<1>. QED BY <1>2, <1>3

(* What the tree keeps of a measured state.                                 *)
LEMMA AfterMeasure ==
  ASSUME GatesTypeOK, UNCHANGED env, Undisturbed \/ LeakRevert
  PROVE  /\ tree' \in [subs -> Status]
         /\ touched' \subseteq subs /\ untracked' \subseteq touched' /\ dirty' = dirty
         /\ met' \subseteq FileClauses /\ met \subseteq met' \cup (IF reverted' THEN {"scenario"} ELSE {})
         /\ suite' \in BOOLEAN /\ text' \in BOOLEAN /\ reverted' \in BOOLEAN
         /\ Remains
<1>1. CASE Undisturbed
  BY <1>1 DEF Undisturbed, worktree, GatesTypeOK, Remains
<1>2. CASE LeakRevert
  <2>1. world.later \subseteq subs
    BY GatesAssumption DEF GatesTypeOK, subs
  <2>2. PutBack(world.later) /\ reverted' = TRUE
    BY <1>2 DEF LeakRevert
  <2>. QED BY <2>1, <2>2, PutBackKeeps
<1>. QED BY <1>1, <1>2

LEMMA CallerKeeps ==
  ASSUME GatesInv, Measures, Undisturbed \/ LeakRevert, regateSpent' \in BOOLEAN
  PROVE  GatesInv'
<1>1. PICK extra \in BOOLEAN, ladder \in BOOLEAN : Verified(extra, ladder)
  BY DEF Measures
<1>2. RunGate /\ UNCHANGED <<env, flakeSpent, edits>> /\ CheckDeliverables(~BuildGreen)
  BY <1>1 DEF Verified
<1>3. VerdictsHold' /\ \A k \in DOMAIN cache' : cache'[k] \in Verdicts
  BY <1>2, GateRemembers DEF GatesInv
<1>4. /\ tree' \in [subs -> Status]
      /\ touched' \subseteq subs /\ untracked' \subseteq touched' /\ dirty' = dirty
      /\ met' \subseteq FileClauses /\ met \subseteq met' \cup (IF reverted' THEN {"scenario"} ELSE {})
      /\ suite' \in BOOLEAN /\ text' \in BOOLEAN /\ reverted' \in BOOLEAN
      /\ Remains
  BY <1>2, AfterMeasure DEF GatesInv
<1>5. ReleaseIsEarned'
  BY <1>2, <1>4, GateEarns DEF GatesInv
<1>6. faults' \in 0 .. MaxFaults
  BY <1>2, FaultsCounted DEF GatesInv
<1>7. lister' \in {"empty", "unavailable", "with", "without"}
  <2>1. (~BuildGreen) \in BOOLEAN
    OBVIOUS
  <2>. QED BY <1>2, <2>1, CheckTypes DEF GatesInv
<1>8. phase' \in {"open", "blocked", "green"} /\ (phase' = "blocked" => Missing(~BuildGreen, lister') = {})
  BY <1>1 DEF Verified
<1>9. BlockedIsOwn'
  <2>1. Missing(~BuildGreen, lister') = {} => world.contract \cap FileClauses \subseteq met
    BY DEF Missing, Unmet
  <2>. QED BY <1>2, <1>4, <1>8, <2>1 DEF BlockedIsOwn, env
<1>10. GatesTypeOK'
  <2>1. subs' = subs /\ world' = world /\ hasDefault' = hasDefault /\ base' = base
    BY <1>2 DEF subs, env
  <2>2. world' \in Worlds /\ hasDefault' \in BOOLEAN /\ base' \in [subs' -> Status]
    BY <2>1 DEF GatesInv, GatesTypeOK
  <2>3. edits' \in 0..MaxEdits[world'] /\ flakeSpent' \in BOOLEAN
    BY <1>2, <2>1 DEF GatesInv, GatesTypeOK
  <2>4. dirty' \subseteq {Family[s] : s \in subs' \cap Nested}
    BY <1>4, <2>1 DEF GatesInv, GatesTypeOK
  <2>. QED BY <1>3, <1>4, <1>6, <1>7, <1>8, <2>1, <2>2, <2>3, <2>4 DEF GatesTypeOK
<1>. QED BY <1>3, <1>5, <1>9, <1>10 DEF GatesInv

LEMMA RerunKeeps ==
  ASSUME GatesInv, FlakeRerun
  PROVE  GatesInv'
<1>1. /\ RunGate /\ UNCHANGED <<env, worktree, lister, reverted, regateSpent, edits>>
      /\ phase' \in {"open", "green"} /\ flakeSpent' = TRUE
  BY DEF FlakeRerun
<1>2. VerdictsHold' /\ \A k \in DOMAIN cache' : cache'[k] \in Verdicts
  BY <1>1, GateRemembers DEF GatesInv
<1>3. ReleaseIsEarned'
  BY <1>1, GateEarns DEF GatesInv, Remains, worktree
<1>4. faults' \in 0 .. MaxFaults
  BY <1>1, FaultsCounted DEF GatesInv
<1>5. GatesTypeOK'
  BY <1>1, <1>2, <1>4 DEF GatesInv, GatesTypeOK, subs, env, worktree
<1>6. BlockedIsOwn'
  BY <1>1 DEF BlockedIsOwn
<1>. QED BY <1>2, <1>3, <1>5, <1>6 DEF GatesInv

LEMMA QuarantineKeeps ==
  ASSUME GatesInv, Quarantine
  PROVE  GatesInv'
<1>1. /\ PutBack(subs) /\ cache' = <<>> /\ phase' = "stashed" /\ last' = NoVerdict /\ regateSpent' = TRUE
      /\ UNCHANGED <<env, lister, reverted, flakeSpent, edits, faults>>
  BY DEF Quarantine
<1>2. /\ tree' \in [subs -> Status]
      /\ touched' \subseteq subs /\ untracked' \subseteq touched' /\ dirty' = dirty
      /\ met' \subseteq FileClauses /\ suite' \in BOOLEAN /\ text' \in BOOLEAN
  BY <1>1, PutBackKeeps DEF GatesInv
<1>3. DOMAIN cache' = {}
  BY <1>1
<1>4. GatesTypeOK'
  BY <1>1, <1>2, <1>3 DEF GatesInv, GatesTypeOK, subs, env
<1>5. VerdictsHold' /\ ReleaseIsEarned' /\ BlockedIsOwn'
  BY <1>1, <1>3 DEF VerdictsHold, ReleaseIsEarned, BlockedIsOwn, NoVerdict
<1>. QED BY <1>4, <1>5 DEF GatesInv

LEMMA EditKeeps ==
  ASSUME GatesInv,
         \/ EditDeliverable
         \/ \E s \in subs, v \in Status : \E T \in {{}} \cup {{x} : x \in subs} : Edit(s, v, T)
  PROVE  GatesInv'
<1>1. /\ UNCHANGED <<world, hasDefault, base, cache, lister, reverted, flakeSpent, regateSpent, faults>>
      /\ phase' = "open" /\ last' = NoVerdict
      /\ edits < MaxEdits[world] /\ edits' = edits + 1
  BY DEF EditDeliverable, Edit, env, grants
<1>2. edits' \in 0 .. MaxEdits[world]
  <2>1. MaxEdits[world] \in Nat
    BY GatesAssumption DEF GatesInv, GatesTypeOK
  <2>. QED BY <1>1, <2>1 DEF GatesInv, GatesTypeOK
<1>3. met' \subseteq FileClauses /\ suite' \in BOOLEAN /\ text' \in BOOLEAN
  BY DEF EditDeliverable, Edit, GatesInv, GatesTypeOK
<1>4. /\ tree' \in [subs -> Status] /\ touched' \subseteq subs /\ untracked' \subseteq touched'
      /\ dirty' \subseteq {Family[s] : s \in subs \cap Nested}
  <2>1. CASE EditDeliverable
    BY <2>1 DEF EditDeliverable, GatesInv, GatesTypeOK
  <2>2. CASE \E s \in subs, v \in Status : \E T \in {{}} \cup {{x} : x \in subs} : Edit(s, v, T)
    <3>1. PICK s \in subs, v \in Status, T \in {{}} \cup {{x} : x \in subs} : Edit(s, v, T)
      BY <2>2
    <3>2. T \subseteq subs
      OBVIOUS
    <3>3. tree' \in [subs -> Status] /\ dirty' \subseteq {Family[x] : x \in subs \cap Nested}
      BY <3>1, <3>2 DEF Edit, GatesInv, GatesTypeOK
    <3>4. PICK removed, new : /\ touched' = (touched \cup T) \ removed
                           /\ untracked' = ((untracked \ T) \cup (IF new THEN T ELSE {})) \ removed
      BY <3>1 DEF Edit
    <3>. QED BY <3>2, <3>3, <3>4 DEF GatesInv, GatesTypeOK
  <2>. QED BY <2>1, <2>2
<1>5. subs' = subs
  BY <1>1 DEF subs
<1>6. GatesTypeOK'
  BY <1>1, <1>2, <1>3, <1>4, <1>5 DEF GatesInv, GatesTypeOK
<1>7. VerdictsHold' /\ ReleaseIsEarned' /\ BlockedIsOwn'
  BY <1>1 DEF GatesInv, VerdictsHold, ReleaseIsEarned, BlockedIsOwn, NoVerdict
<1>. QED BY <1>6, <1>7 DEF GatesInv

LEMMA GatesStart == GatesInit => GatesInv
<1> SUFFICES ASSUME GatesInit PROVE GatesInv
  OBVIOUS
<1>1. GatesTypeOK
  <2>1. met \subseteq FileClauses /\ suite \in BOOLEAN /\ text \in BOOLEAN
    BY DEF GatesInit
  <2>2. edits \in 0 .. MaxEdits[world] /\ faults \in 0 .. MaxFaults
    BY GatesAssumption DEF GatesInit
  <2>3. /\ tree \in [subs -> Status] /\ touched \subseteq subs /\ untracked \subseteq touched
        /\ dirty \subseteq {Family[s] : s \in subs \cap Nested}
    BY DEF GatesInit
  <2>4. \A k \in DOMAIN cache : cache[k] \in Verdicts
    BY DEF GatesInit
  <2>. QED BY <2>1, <2>2, <2>3, <2>4 DEF GatesInit, GatesTypeOK
<1>2. VerdictsHold /\ ReleaseIsEarned /\ BlockedIsOwn
  BY DEF GatesInit, VerdictsHold, ReleaseIsEarned, BlockedIsOwn, NoVerdict
<1>. QED BY <1>1, <1>2 DEF GatesInv

LEMMA GatesStep == GatesInv /\ [GatesNext]_gatesVars => GatesInv'
<1> SUFFICES ASSUME GatesInv, [GatesNext]_gatesVars PROVE GatesInv'
  OBVIOUS
<1>1. CASE UNCHANGED gatesVars
  <2>1. GatesTypeOK'
    BY <1>1 DEF gatesVars, GatesInv, GatesTypeOK, subs
  <2>2. VerdictsHold' /\ BlockedIsOwn'
    BY <1>1 DEF gatesVars, GatesInv, VerdictsHold, BlockedIsOwn
  <2>3. ReleaseIsEarned'
    BY <1>1 DEF gatesVars, GatesInv, ReleaseIsEarned, Unjudged, NotListed, lang
  <2>. QED BY <2>1, <2>2, <2>3 DEF GatesInv
<1>2. CASE GateSuite \/ GateAgain \/ ResumeNoOp \/ SatisfiedAtRed \/ CloseReverify
  <2>1. Measures /\ (Undisturbed \/ LeakRevert) /\ regateSpent' \in BOOLEAN
    BY <1>2, Callers DEF GatesInv
  <2>. QED BY <2>1, CallerKeeps
<1>. QED BY <1>1, <1>2, RerunKeeps, QuarantineKeeps, EditKeeps DEF GatesNext

(* The state of the gates is well typed; a remembered verdict is one of the *)
(* three.                                                                    *)
THEOREM GatesTypeCorrect == GatesSpec => []GatesTypeOK
<1>1. GatesInv => GatesTypeOK
  BY DEF GatesInv
<1>. QED BY <1>1, GatesStart, GatesStep, PTL DEF GatesSpec

(* scope.ts, baseline.ts: a gate that fails but passes in scope names no     *)
(* node test the branch touched, and no crate it touched that the plan's     *)
(* gate did not settle, unless the command that lists the file failed; and   *)
(* what it names fails at the merge base already or could not be judged: for *)
(* every project, its languages, nested modules and contract, whichever of   *)
(* the two commands fails, and any number of edits and faulty gates.         *)
THEOREM Earned == GatesSpec => []ReleaseIsEarned
<1>1. GatesInv => ReleaseIsEarned
  BY DEF GatesInv
<1>. QED BY <1>1, GatesStart, GatesStep, PTL DEF GatesSpec

(* deliverable.ts, gate-suite.ts, phase-entry.ts, red-acceptance.ts,         *)
(* inherited-red-ladder.ts, env-blocker-regate.ts, stage-close-reverify.ts:  *)
(* whichever of the six callers turns a phase green, the contract holds in   *)
(* the tree it stands on, the required test is in the suite of that tree     *)
(* unless no list could be had, and a plan with a failure was named to the   *)
(* gate and released; except that leaked files put back after the measure    *)
(* may take a tag, a test or an outcome along, and that the re-run for a     *)
(* flake follows a check that left the test out.                             *)
THEOREM Met == GatesSpec => GreenIsMet
<1>. DEFINE Clauses == world.contract \cap FileClauses \subseteq met' \cup (IF reverted' THEN {"scenario"} ELSE {})
            rerun == flakeSpent' # flakeSpent
            Test == "test" \in world.contract => suite' \/ lister' = "unavailable" \/ reverted' \/ rerun
            Named == \A P \in Plans(dirty') :
                       /\ P = RootPlan \/ "plan" \notin last'.failed
                       /\ \E s \in P \ last'.flaky : tree'[s] = "bad"
                       => P \cap last'.named # {}
            Stands == /\ Clauses
                      /\ Test
                      /\ rerun \/ ~reverted' => Named
<1>1. ASSUME RunGate, BuildGreen, UNCHANGED worktree PROVE Named
  <2>. SUFFICES ASSUME NEW P \in Plans(dirty'), P = RootPlan \/ "plan" \notin last'.failed,
                       NEW s \in P \ last'.flaky, tree'[s] = "bad"
                PROVE  P \cap last'.named # {}
    OBVIOUS
  <2>1. PICK blocks, out, groups, seen : GateReads(blocks, out, groups, seen) /\ Reported(blocks, out)
    BY <1>1, SuiteStep
  <2>2. /\ last'.pass = (blocks = {}) /\ last'.inScope = resolveInScopePass(blocks, out, groups)
        /\ last'.named = UNION blocks
    BY <2>1 DEF GateReads
  <2>3. blocks \subseteq out
    BY <1>1, <2>2 DEF BuildGreen, resolveInScopePass
  <2>4. PICK modules, ran : /\ modules = dirty \/ "plan" \in last'.failed
                            /\ last'.flaky = {x \in subs : ran[x] # tree[x]}
                            /\ \A Q \in FailingPlans(modules, ran) : \E b \in blocks : b \subseteq Bad(Q, ran)
    BY <2>1, <2>3 DEF Reported
  <2>5. tree' = tree /\ dirty' = dirty
    BY <1>1 DEF worktree
  <2>6. P \in Plans(modules) /\ P \subseteq subs
    <3>1. P \in Plans(dirty)
      BY <2>5
    <3>2. P = RootPlan => P \in Plans(modules)
      BY <3>1 DEF Plans
    <3>. QED BY <2>4, <3>1, <3>2, PlanLanguage
  <2>7. ran[s] = "bad"
    BY <2>4, <2>5, <2>6
  <2>8. P \in FailingPlans(modules, ran)
    BY <2>6, <2>7 DEF FailingPlans, Bad
  <2>9. PICK b \in blocks : b \subseteq Bad(P, ran)
    BY <2>4, <2>8
  <2>10. b # {}
    BY <2>1, <2>3 DEF GateReads
  <2>. QED BY <2>2, <2>9, <2>10 DEF Bad
<1>2. ASSUME GatesInv, Measures, Undisturbed \/ LeakRevert, phase' = "green"
      PROVE  Stands
  <2>1. PICK extra \in BOOLEAN, ladder \in BOOLEAN : Verified(extra, ladder)
    BY <1>2 DEF Measures
  <2>2. /\ RunGate /\ BuildGreen /\ UNCHANGED <<env, flakeSpent>>
        /\ Missing(~BuildGreen, lister') = {} /\ CheckDeliverables(~BuildGreen)
    BY <1>2, <2>1 DEF Verified
  <2>3. Missing(FALSE, lister') = {} /\ CheckDeliverables(FALSE)
    <3>1. (~BuildGreen) = FALSE
      BY <2>2
    <3>. QED BY <2>2, <3>1
  <2>4. Clauses
    <3>1. world.contract \cap FileClauses \subseteq met
      BY <2>3 DEF Missing, Unmet
    <3>2. met \subseteq met' \cup (IF reverted' THEN {"scenario"} ELSE {})
      BY <1>2, <2>2, AfterMeasure DEF GatesInv
    <3>. QED BY <3>1, <3>2
  <2>5. CASE LeakRevert
    BY <2>2, <2>4, <2>5 DEF LeakRevert
  <2>6. CASE Undisturbed
    <3>1. UNCHANGED worktree /\ suite' = suite
      BY <2>6 DEF Undisturbed, worktree
    <3>2. "test" \in world.contract => suite' \/ lister' = "unavailable"
      <4>1. "test" \in world.contract => lister' # "without"
        BY <2>3 DEF Missing
      <4>. QED BY <1>2, <2>3, <3>1, <4>1, CheckTypes DEF GatesInv
    <3>3. Named
      BY <1>1, <2>2, <3>1
    <3>. QED BY <2>4, <3>2, <3>3
  <2>. QED BY <1>2, <2>5, <2>6
<1>3. ASSUME GatesInv, FlakeRerun, phase' = "green"
      PROVE  Stands
  <2>1. /\ RunGate /\ UNCHANGED worktree /\ reverted' = reverted /\ phase = "blocked"
        /\ flakeSpent' = TRUE /\ ~flakeSpent
    BY <1>3 DEF FlakeRerun
  <2>2. BuildGreen
    BY <1>3 DEF FlakeRerun
  <2>3. Named
    BY <1>1, <2>1, <2>2
  <2>4. Clauses
    BY <1>3, <2>1 DEF GatesInv, BlockedIsOwn, worktree
  <2>. QED BY <2>1, <2>3, <2>4
<1>. HIDE DEF Stands
<1>4. ASSUME GatesInv, [GatesNext]_gatesVars, phase # "green", phase' = "green"
      PROVE  Stands
  <2>1. CASE FlakeRerun
    BY <1>3, <1>4, <2>1
  <2>2. CASE GateSuite \/ GateAgain \/ ResumeNoOp \/ SatisfiedAtRed \/ CloseReverify
    <3>1. Measures /\ (Undisturbed \/ LeakRevert)
      BY <1>4, <2>2, Callers DEF GatesInv
    <3>. QED BY <1>2, <1>4, <3>1
  <2>. QED BY <1>4, <2>1, <2>2 DEF GatesNext, gatesVars, Edit, EditDeliverable, Quarantine
<1>5. GatesInv /\ [GatesNext]_gatesVars
        => [phase # "green" /\ phase' = "green" => Stands]_gatesVars
  BY <1>4
<1>6. [][phase # "green" /\ phase' = "green" => Stands]_gatesVars <=> GreenIsMet
  BY DEF GreenIsMet, Stands
<1>. QED BY <1>5, <1>6, GatesStart, GatesStep, PTL DEF GatesSpec
(***************************************************************************)
(* The phases.  Why no stale stamp is counted: the phase list has one row  *)
(* for each phase; while a pass lasts its stamps are of the instructions   *)
(* it began with; as long as it counted no phase it walked past no stamp;  *)
(* and it ends before the last phase only with a reason for which no pass  *)
(* follows it.                                                             *)
(***************************************************************************)
OneRowEach(rows) == \A i, j \in DOMAIN rows : rows[i].id = rows[j].id => i = j

StampedUnder(rows, u) == \A i \in DOMAIN rows : rows[i].status = "green" => rows[i].under = u

StampedFrom(rows, p) == \A i \in DOMAIN rows : rows[i].status = "green" => rows[i].id >= p

Unstamped(rows, p) == \A i \in DOMAIN rows : rows[i].status = "green" => rows[i].id # p

InPass == {"walk", "enter", "attempts", "reapply", "close"}

PassInv ==
  /\ step \in InPass => StampedUnder(phaseStatus, entered)
  /\ step \in InPass /\ phasesCompleted = 0 => StampedFrom(phaseStatus, at)
  /\ step \in {"enter", "attempts"} => Unstamped(phaseStatus, at)
  /\ step = "reapply" => phasesCompleted > 0
  /\ step \in InPass /\ replanPending => ~allGreen
  /\ step = "close" =>
       \/ at > NumPhases
       \/ ~allGreen /\ (convergenceBlocked \/ replanPending \/ gone)

(* Between two passes the stamps are of the instructions the last one      *)
(* ended with, unless no pass follows or the next one drops them.          *)
LoopInv ==
  step = "loop" =>
    \/ control.blocked \/ control.stale \/ replanPending \/ gone
    \/ StampedUnder(phaseStatus, control.seen)

PhaseInv == PhaseTypeOK /\ OneRowEach(phaseStatus) /\ PassInv /\ LoopInv /\ NoStaleStamp

-----------------------------------------------------------------------------
(* A set of numbers has a smallest one, and a largest if it is bounded.     *)

LEMMA LessIsWellFounded == IsWellFoundedOn({ss \in Nat \X Nat : ss[1] < ss[2]}, Nat)
BY ONLY NatLessThanWellFounded, Zenon DEF OpToRel

LEMMA SmallestOf ==
  ASSUME NEW S \in SUBSET Nat, S # {}
  PROVE  \E n \in S : \A m \in S : n <= m
<1>. DEFINE Less == {ss \in Nat \X Nat : ss[1] < ss[2]}
<1>1. PICK x \in S : \A y \in S : ~ (<<y, x>> \in Less)
  BY LessIsWellFounded, WFMin
<1>2. \A a, b \in Nat : a < b => <<a, b>> \in Less
  OBVIOUS
<1>3. ASSUME NEW m \in S PROVE x <= m
  <2>1. ~ (<<m, x>> \in Less) /\ m \in Nat /\ x \in Nat
    BY <1>1
  <2>. HIDE DEF Less
  <2>. QED BY <1>2, <2>1
<1>. QED BY <1>3

LEMMA MinIn ==
  ASSUME NEW S \in SUBSET Nat, S # {}
  PROVE  Min(S) \in S
BY SmallestOf DEF Min

LEMMA MaxIn ==
  ASSUME NEW n \in Nat, NEW S \in SUBSET (0 .. n), S # {}
  PROVE  Max(S) \in S
<1>. DEFINE Below == {k \in 0 .. n : n - k \in S}
<1>1. PICK s \in S : TRUE
  OBVIOUS
<1>2. n - s \in Below /\ Below \in SUBSET Nat
  BY <1>1
<1>3. PICK k \in Below : \A m \in Below : k <= m
  <2>. HIDE DEF Below
  <2>. QED BY <1>2, SmallestOf
<1>4. ASSUME NEW y \in S PROVE n - k >= y
  <2>1. n - y \in Below /\ y \in 0 .. n
    OBVIOUS
  <2>2. k <= n - y /\ k \in 0 .. n
    BY <1>3, <2>1
  <2>. QED BY <2>1, <2>2
<1>5. n - k \in S
  OBVIOUS
<1>. QED BY <1>4, <1>5 DEF Max

-----------------------------------------------------------------------------
(* What the operations on the phase list leave in it.                       *)

LEMMA AsManyAsPhases ==
  ASSUME NEW rows \in Seq(Row), OneRowEach(rows)
  PROVE  Len(rows) <= NumPhases
<1>1. SUFFICES ASSUME Len(rows) > NumPhases PROVE FALSE
  BY PhaseAssumption
<1>. DEFINE f == [i \in 1 .. Len(rows) |-> rows[i].id]
<1>2. f \in [1 .. Len(rows) -> 1 .. NumPhases]
  <2>1. \A i \in 1 .. Len(rows) : rows[i] \in Row
    OBVIOUS
  <2>. QED BY <2>1 DEF Row, Phase
<1>3. /\ IsFiniteSet(1 .. Len(rows)) /\ IsFiniteSet(1 .. NumPhases)
      /\ Cardinality(1 .. Len(rows)) = Len(rows) /\ Cardinality(1 .. NumPhases) = NumPhases
  <2>1. 1 \in Int /\ Len(rows) \in Int /\ NumPhases \in Int /\ NumPhases >= 0
    BY PhaseAssumption
  <2>2. /\ IsFiniteSet(1 .. Len(rows))
        /\ Cardinality(1 .. Len(rows)) = IF 1 > Len(rows) THEN 0 ELSE Len(rows) - 1 + 1
    BY <2>1, FS_Interval
  <2>3. /\ IsFiniteSet(1 .. NumPhases)
        /\ Cardinality(1 .. NumPhases) = IF 1 > NumPhases THEN 0 ELSE NumPhases - 1 + 1
    BY <2>1, FS_Interval
  <2>. QED BY <1>1, <2>1, <2>2, <2>3
<1>4. \E x, y \in 1 .. Len(rows) : x # y /\ f[x] = f[y]
  <2>. HIDE DEF f
  <2>. QED BY <1>1, <1>2, <1>3, FS_PigeonHole, PhaseAssumption
<1>. QED BY <1>4 DEF OneRowEach

(* Every row of `new` is r or one of `rows` of another phase.               *)
Replaces(rows, r, new) ==
  /\ new \in Seq(Row) /\ OneRowEach(new)
  /\ \A i \in DOMAIN new :
       new[i] = r \/ \E j \in DOMAIN rows : new[i] = rows[j] /\ rows[j].id # r.id

LEMMA UpsertReplaces ==
  ASSUME NEW rows \in Seq(Row), OneRowEach(rows), NEW r \in Row
  PROVE  Replaces(rows, r, Upserted(rows, r))
<1>1. CASE \E i \in DOMAIN rows : rows[i].id = r.id
  <2>. DEFINE new == [i \in DOMAIN rows |-> IF rows[i].id = r.id THEN r ELSE rows[i]]
  <2>1. new \in Seq(Row) /\ DOMAIN new = DOMAIN rows
    OBVIOUS
  <2>2. OneRowEach(new)
    BY DEF OneRowEach
  <2>3. Upserted(rows, r) = new
    BY <1>1 DEF Upserted
  <2>. QED BY <2>1, <2>2, <2>3 DEF Replaces
<1>2. CASE ~ \E i \in DOMAIN rows : rows[i].id = r.id
  <2>1. Upserted(rows, r) = Append(rows, r)
    BY <1>2 DEF Upserted
  <2>. DEFINE new == Append(rows, r)
  <2>2. /\ new \in Seq(Row) /\ DOMAIN new = 1 .. Len(rows) + 1 /\ DOMAIN rows = 1 .. Len(rows)
        /\ new[Len(rows) + 1] = r /\ \A i \in 1 .. Len(rows) : new[i] = rows[i]
    OBVIOUS
  <2>. HIDE DEF new
  <2>3. ASSUME NEW i \in DOMAIN new
        PROVE  new[i] = r \/ \E j \in DOMAIN rows : new[i] = rows[j] /\ rows[j].id # r.id
    BY <1>2, <2>2
  <2>4. OneRowEach(new)
    BY <1>2, <2>2 DEF OneRowEach
  <2>. QED BY <2>1, <2>2, <2>3, <2>4 DEF Replaces, new
<1>. QED BY <1>1, <1>2

(* Cutting the list: what `upTo` of Invalidated is.                         *)
Cuts(f, n, rows, p) ==
  f = [i \in 0 .. n |->
         IF i = 0 THEN <<>>
         ELSE IF rows[i].id <= p THEN Append(f[i - 1], rows[i]) ELSE f[i - 1]]

LEMMA CutExists ==
  ASSUME NEW rows, NEW p, NEW n \in Nat
  PROVE  \E f : Cuts(f, n, rows, p)
<1>. DEFINE Uncut == {k \in Nat : \A f : ~ Cuts(f, k, rows, p)}
<1>1. ASSUME Uncut # {} PROVE FALSE
  <2>1. PICK k \in Uncut : \A m \in Uncut : k <= m
    BY <1>1, SmallestOf
  <2>2. k # 0
    <3>. DEFINE f == [i \in 0 .. 0 |-> <<>>]
    <3>1. f = [i \in 0 .. 0 |->
                 IF i = 0 THEN <<>>
                 ELSE IF rows[i].id <= p THEN Append(f[i - 1], rows[i]) ELSE f[i - 1]]
      OBVIOUS
    <3>2. Cuts(f, 0, rows, p)
      BY <3>1 DEF Cuts
    <3>. QED BY <3>2
  <2>3. PICK g : Cuts(g, k - 1, rows, p)
    BY <2>1, <2>2
  <2>. DEFINE newest == IF rows[k].id <= p THEN Append(g[k - 1], rows[k]) ELSE g[k - 1]
  <2>. DEFINE f == [i \in 0 .. k |-> IF i = k THEN newest ELSE g[i]]
  <2>4. \A i \in 0 .. k - 1 :
          /\ f[i] = g[i]
          /\ g[i] = IF i = 0 THEN <<>>
                    ELSE IF rows[i].id <= p THEN Append(g[i - 1], rows[i]) ELSE g[i - 1]
    <3>1. \A i \in 0 .. k - 1 :
            g[i] = IF i = 0 THEN <<>>
                   ELSE IF rows[i].id <= p THEN Append(g[i - 1], rows[i]) ELSE g[i - 1]
      BY <2>2, <2>3 DEF Cuts
    <3>2. \A i \in 0 .. k - 1 : i \in 0 .. k /\ i # k
      BY <2>2
    <3>. HIDE DEF newest
    <3>. QED BY <3>1, <3>2
  <2>5. f[k] = newest
    BY <2>2
  <2>6. ASSUME NEW i \in 0 .. k
        PROVE  f[i] = IF i = 0 THEN <<>>
                      ELSE IF rows[i].id <= p THEN Append(f[i - 1], rows[i]) ELSE f[i - 1]
    <3>. HIDE DEF f
    <3>1. CASE i = k
      <4>1. k - 1 \in 0 .. k - 1
        BY <2>2
      <4>2. f[k - 1] = g[k - 1]
        BY <2>4, <4>1
      <4>. QED BY <2>2, <2>5, <3>1, <4>2
    <3>2. CASE i = 0
      BY <2>2, <2>4, <3>2
    <3>3. CASE i # k /\ i # 0
      <4>1. i \in 0 .. k - 1 /\ i - 1 \in 0 .. k - 1
        BY <3>3
      <4>2. /\ f[i] = g[i] /\ f[i - 1] = g[i - 1]
            /\ g[i] = IF rows[i].id <= p THEN Append(g[i - 1], rows[i]) ELSE g[i - 1]
        BY <2>4, <3>3, <4>1
      <4>. QED BY <3>3, <4>2
    <3>. QED BY <3>1, <3>2, <3>3
  <2>7. f = [i \in 0 .. k |-> f[i]]
    OBVIOUS
  <2>. HIDE DEF f
  <2>8. f = [i \in 0 .. k |->
               IF i = 0 THEN <<>>
               ELSE IF rows[i].id <= p THEN Append(f[i - 1], rows[i]) ELSE f[i - 1]]
    BY <2>6, <2>7, Zenon
  <2>9. Cuts(f, k, rows, p)
    BY <2>8 DEF Cuts
  <2>. QED BY <2>1, <2>9
<1>. QED BY <1>1

(* The rows of `new` are rows of the list, those of its first n.            *)
PartOf(rows, n, new) ==
  /\ new \in Seq(Row) /\ OneRowEach(new)
  /\ \A i \in DOMAIN new : \E j \in 1 .. n : new[i] = rows[j]

LEMMA CutIsPart ==
  ASSUME PhaseTypeOK, OneRowEach(phaseStatus), NEW p \in Nat
  PROVE  PartOf(phaseStatus, Len(phaseStatus), Invalidated(p))
<1>. DEFINE n == Len(phaseStatus)
            f == CHOOSE g : Cuts(g, n, phaseStatus, p)
<1>1. n \in Nat /\ phaseStatus \in Seq(Row) /\ DOMAIN phaseStatus = 1 .. n
  BY DEF PhaseTypeOK
<1>. HIDE DEF n
<1>2. Cuts(f, n, phaseStatus, p)
  BY <1>1, CutExists
<1>3. Invalidated(p) = f[n]
  BY DEF Invalidated, Cuts, n
<1>. HIDE DEF f
<1>4. /\ f[0] = <<>>
      /\ \A i \in 1 .. n : f[i] = IF phaseStatus[i].id <= p THEN Append(f[i - 1], phaseStatus[i])
                                  ELSE f[i - 1]
  <2>1. f = [i \in 0 .. n |->
               IF i = 0 THEN <<>>
               ELSE IF phaseStatus[i].id <= p THEN Append(f[i - 1], phaseStatus[i]) ELSE f[i - 1]]
    BY <1>2 DEF Cuts
  <2>2. \A i \in 1 .. n : i \in 0 .. n /\ i # 0
    BY <1>1
  <2>3. 0 \in 0 .. n
    BY <1>1
  <2>. QED BY <2>1, <2>2, <2>3, Zenon
<1>. DEFINE Wrong == {i \in 0 .. n : ~ PartOf(phaseStatus, i, f[i])}
<1>5. ASSUME Wrong # {} PROVE FALSE
  <2>1. PICK k \in Wrong : \A m \in Wrong : k <= m
    <3>1. Wrong \in SUBSET Nat
      BY <1>1
    <3>. HIDE DEF Wrong
    <3>. QED BY <1>5, <3>1, SmallestOf
  <2>2. PartOf(phaseStatus, 0, f[0])
    BY <1>4 DEF PartOf, OneRowEach
  <2>3. k \in 1 .. n /\ k - 1 \in 0 .. n /\ ~ (k <= k - 1)
    BY <1>1, <2>1, <2>2
  <2>4. PICK old : old = f[k - 1]
    OBVIOUS
  <2>5. PartOf(phaseStatus, k - 1, old)
    BY <2>1, <2>3, <2>4
  <2>6. PartOf(phaseStatus, k, old)
    BY <2>3, <2>5, <1>1 DEF PartOf
  <2>7. PICK r : r = phaseStatus[k]
    OBVIOUS
  <2>8. r \in Row /\ \A i \in DOMAIN old : old[i].id # r.id
    BY <1>1, <2>3, <2>5, <2>7 DEF PartOf, OneRowEach
  <2>9. PartOf(phaseStatus, k, Append(old, r))
    <3>. DEFINE new == Append(old, r)
    <3>1. /\ old \in Seq(Row) /\ new \in Seq(Row) /\ DOMAIN old = 1 .. Len(old)
          /\ DOMAIN new = 1 .. Len(old) + 1 /\ Len(old) \in Nat
          /\ new[Len(old) + 1] = r /\ \A i \in 1 .. Len(old) : new[i] = old[i]
      BY <2>5, <2>8 DEF PartOf
    <3>. HIDE DEF new
    <3>2. OneRowEach(new)
      BY <2>5, <2>8, <3>1 DEF OneRowEach, PartOf
    <3>3. ASSUME NEW i \in DOMAIN new PROVE \E j \in 1 .. k : new[i] = phaseStatus[j]
      <4>1. CASE i = Len(old) + 1
        BY <2>3, <2>7, <3>1, <4>1
      <4>2. CASE i \in 1 .. Len(old)
        BY <2>6, <3>1, <4>2 DEF PartOf
      <4>. QED BY <3>1, <4>1, <4>2
    <3>4. PartOf(phaseStatus, k, new)
      BY <3>1, <3>2, <3>3 DEF PartOf
    <3>. QED BY <3>4 DEF new
  <2>. QED BY <1>4, <2>1, <2>3, <2>4, <2>6, <2>7, <2>9
<1>6. n \in 0 .. n
  BY <1>1
<1>7. PartOf(phaseStatus, n, f[n])
  BY <1>5, <1>6
<1>. QED BY <1>3, <1>7 DEF n
-----------------------------------------------------------------------------
(* The steps that leave the phase list alone.                               *)

(* The bounds are numbers, and the rows are rows.                           *)
LEMMA Bounds == NumPhases \in Nat /\ SpawnBudget \in Nat /\ MaxMishaps \in Nat
BY PhaseAssumption

LEMMA PhasesAre ==
  /\ \A p \in Phase : p \in 1 .. NumPhases /\ 1 .. p \subseteq Phase
  /\ \A p \in 1 .. NumPhases : p \in Phase
BY PhaseAssumption DEF Phase

LEMMA RowFields ==
  ASSUME NEW rows \in Seq(Row)
  PROVE  \A i \in DOMAIN rows : rows[i] \in Row /\ rows[i].id \in Phase
<1>1. \A i \in DOMAIN rows : rows[i] \in Row
  OBVIOUS
<1>. QED BY <1>1 DEF Row

(* The type invariant in parts: the tree, what is carried, the numbers and  *)
(* the flags of the process.                                                *)
TreeTyped ==
  /\ log \in Seq(Commit) /\ uncommitted \subseteq Phase /\ kept \subseteq Phase
  /\ gone \in BOOLEAN /\ inPlace \in BOOLEAN
  /\ pendingRollbackStash \in [phase : Phase, work : SUBSET Phase] \cup {NoStash}
  /\ baseline \in 0 .. Len(log)

CarryTyped ==
  /\ phaseStatus \in Seq(Row) /\ Len(phaseStatus) <= NumPhases
  /\ lastFailures \in [Phase -> Reasons \cup {NoReason}]
  /\ control \in [allGreen : BOOLEAN, blocked : BOOLEAN, stale : BOOLEAN, seen : Nat]

PassTyped ==
  /\ step \in {"loop", "walk", "enter", "attempts", "reapply", "close", "ended"}
  /\ at \in 1 .. NumPhases + 1
  /\ step \in {"enter", "attempts", "reapply"} => at \in Phase
  /\ phasesCompleted \in Nat /\ envBlocked \subseteq Phase
  /\ entered \in Nat /\ instructions \in Nat
  /\ callsLeft \in 0 .. SpawnBudget /\ mishaps \in 0 .. MaxMishaps

FlagsTyped ==
  /\ allGreen \in BOOLEAN /\ convergenceBlocked \in BOOLEAN
  /\ replanPending \in BOOLEAN /\ resumed \in BOOLEAN

LEMMA TypeInParts ==
  /\ PhaseTypeOK <=> TreeTyped /\ CarryTyped /\ PassTyped /\ FlagsTyped
  /\ PhaseTypeOK' <=> TreeTyped' /\ CarryTyped' /\ PassTyped' /\ FlagsTyped'
BY DEF PhaseTypeOK, TreeTyped, CarryTyped, PassTyped, FlagsTyped

LEMMA PhaseStart == PhaseInit => PhaseInv
<1>. SUFFICES ASSUME PhaseInit PROVE PhaseInv
  OBVIOUS
<1>1. /\ log \in Seq(Commit) /\ phaseStatus \in Seq(Row) /\ Len(log) = 0 /\ Len(phaseStatus) = 0
      /\ DOMAIN phaseStatus = {}
  BY DEF PhaseInit
<1>2. /\ lastFailures \in [Phase -> Reasons \cup {NoReason}]
      /\ control \in [allGreen : BOOLEAN, blocked : BOOLEAN, stale : BOOLEAN, seen : Nat]
      /\ callsLeft \in 0 .. SpawnBudget /\ mishaps \in 0 .. MaxMishaps /\ baseline \in 0 .. Len(log)
      /\ at \in 1 .. NumPhases + 1 /\ inPlace \in BOOLEAN
  BY <1>1, Bounds, PhaseAssumption DEF PhaseInit
<1>3. PhaseTypeOK
  <2>1. /\ uncommitted = {} /\ kept = {} /\ gone = FALSE /\ pendingRollbackStash = NoStash /\ step = "loop"
        /\ phasesCompleted = 0 /\ envBlocked = {} /\ entered = 0 /\ instructions = 0
    BY DEF PhaseInit
  <2>2. TreeTyped
    BY <1>1, <1>2, <2>1 DEF TreeTyped
  <2>3. CarryTyped
    BY <1>1, <1>2, Bounds DEF CarryTyped
  <2>4. PassTyped
    BY <1>2, <2>1 DEF PassTyped
  <2>5. FlagsTyped
    BY DEF FlagsTyped, PhaseInit
  <2>. QED BY <2>2, <2>3, <2>4, <2>5, TypeInParts
<1>4. OneRowEach(phaseStatus) /\ StampedUnder(phaseStatus, control.seen)
  BY <1>1 DEF OneRowEach, StampedUnder
<1>5. PassInv /\ LoopInv /\ NoStaleStamp
  BY <1>1, <1>4 DEF PhaseInit, PassInv, InPass, LoopInv, NoStaleStamp
<1>. QED BY <1>3, <1>4, <1>5 DEF PhaseInv

LEMMA LoopStep ==
  ASSUME PhaseInv, LeaveLoop \/ DeferToReplan \/ FuseAtBoundary \/ EnterPhase \/ PhasesDone
  PROVE  PhaseInv'
<1>. USE DEF PhaseInv, repository, place, carry, outside
<1>1. PhaseTypeOK'
  <2>1. CASE LeaveLoop
    BY <2>1, Bounds DEF LeaveLoop, PhaseTypeOK
  <2>2. CASE DeferToReplan
    BY <2>2, Bounds DEF DeferToReplan, PhaseTypeOK
  <2>3. CASE FuseAtBoundary
    BY <2>3, Bounds DEF FuseAtBoundary, PhaseTypeOK
  <2>4. CASE EnterPhase
    <3>1. at \in Phase
      BY <2>4, Bounds, PhasesAre DEF EnterPhase, Reached, Walking, PhaseTypeOK
    <3>. QED BY <2>4, <3>1, Bounds DEF EnterPhase, PhaseTypeOK
  <2>5. CASE PhasesDone
    BY <2>5, Bounds DEF PhasesDone, PhaseTypeOK
  <2>. QED BY <2>1, <2>2, <2>3, <2>4, <2>5
<1>2. OneRowEach(phaseStatus)'
  BY DEF LeaveLoop, DeferToReplan, FuseAtBoundary, EnterPhase, PhasesDone
<1>3. PassInv'
  <2>1. CASE LeaveLoop
    BY <2>1 DEF LeaveLoop, PassInv, InPass
  <2>2. CASE DeferToReplan \/ FuseAtBoundary \/ PhasesDone
    BY <2>2 DEF DeferToReplan, FuseAtBoundary, PhasesDone, Walking, PassInv, InPass
  <2>3. CASE EnterPhase
    <3>1. Unstamped(phaseStatus, at)
      BY <2>3 DEF EnterPhase, Reached, IsGreen, Has, RowsOf, Unstamped
    <3>. QED BY <2>3, <3>1 DEF EnterPhase, Reached, Walking, PassInv, InPass
  <2>. QED BY <2>1, <2>2, <2>3
<1>4. LoopInv'
  BY DEF LeaveLoop, DeferToReplan, FuseAtBoundary, EnterPhase, PhasesDone, LoopInv
<1>5. NoStaleStamp'
  BY DEF LeaveLoop, DeferToReplan, FuseAtBoundary, EnterPhase, PhasesDone, NoStaleStamp
<1>. QED BY <1>1, <1>2, <1>3, <1>4, <1>5

LEMMA SkipStep ==
  ASSUME PhaseInv, SkipGreen \/ SkipHopeless
  PROVE  PhaseInv'
<1>. USE DEF PhaseInv, repository, place, carry, outside
<1>1. PhaseTypeOK'
  <2>1. at + 1 \in 1 .. NumPhases + 1
    BY Bounds DEF SkipGreen, SkipHopeless, Walking, PhaseTypeOK
  <2>2. CASE SkipGreen
    BY <2>1, <2>2, Bounds DEF SkipGreen, Walking, PhaseTypeOK
  <2>3. CASE SkipHopeless
    BY <2>1, <2>3, Bounds DEF SkipHopeless, Walking, PhaseTypeOK
  <2>. QED BY <2>2, <2>3
<1>2. OneRowEach(phaseStatus)'
  BY DEF SkipGreen, SkipHopeless
<1>3. PassInv'
  <2>1. CASE SkipGreen
    BY <2>1 DEF SkipGreen, Walking, PassInv, InPass, PhaseTypeOK
  <2>2. CASE SkipHopeless
    <3>1. PICK i \in DOMAIN phaseStatus : phaseStatus[i].id = at /\ phaseStatus[i].status = "partial"
      BY <2>2 DEF SkipHopeless, Hopeless, RowsOf
    <3>2. \A j \in DOMAIN phaseStatus : phaseStatus[j].id \in Nat
      BY RowFields, Bounds, PhasesAre DEF PhaseTypeOK
    <3>3. StampedFrom(phaseStatus, at) => StampedFrom(phaseStatus, at + 1)
      BY <3>1, <3>2 DEF StampedFrom, OneRowEach, PhaseTypeOK
    <3>. QED BY <2>2, <3>3 DEF SkipHopeless, Walking, PassInv, InPass
  <2>. QED BY <2>1, <2>2
<1>4. LoopInv' /\ NoStaleStamp'
  BY DEF SkipGreen, SkipHopeless, Walking, LoopInv, NoStaleStamp
<1>. QED BY <1>1, <1>2, <1>3, <1>4

LEMMA OutsideStep ==
  ASSUME PhaseInv, Attempts \/ RollBackSkipped \/ ReapplyStash \/ InstructionsChange \/ RemoveWorktree
  PROVE  PhaseInv'
<1>. USE DEF PhaseInv, repository, place, carry, pass, outside
<1>1. PhaseTypeOK'
  <2>1. CASE Attempts
    <3>1. at \in Phase /\ 1 .. at \subseteq Phase
      BY <2>1, PhasesAre DEF Attempts, PhaseTypeOK
    <3>2. uncommitted' \subseteq Phase
      BY <2>1, <3>1 DEF Attempts, PhaseTypeOK
    <3>3. callsLeft' \in 0 .. SpawnBudget
      BY <2>1, PhaseAssumption DEF Attempts, Budgeted, PhaseTypeOK
    <3>. QED BY <2>1, <3>1, <3>2, <3>3 DEF Attempts, PhaseTypeOK
  <2>2. CASE RollBackSkipped
    <3>1. mishaps' \in 0 .. MaxMishaps
      BY <2>2, Bounds DEF RollBackSkipped, GitFails, Mishap, PhaseTypeOK
    <3>2. /\ UNCHANGED <<repository, place, carry, at, allGreen, convergenceBlocked, phasesCompleted, envBlocked,
                          entered, instructions, replanPending, resumed, callsLeft>>
          /\ step' = "enter" /\ at \in 1 .. NumPhases
      BY <2>2 DEF RollBackSkipped, Reached, Walking, PhaseTypeOK
    <3>3. at' \in Phase
      BY ONLY <3>2, PhasesAre
    <3>4. PhaseTypeOK
      OBVIOUS
    <3>5. TreeTyped /\ CarryTyped /\ PassTyped /\ FlagsTyped
      BY ONLY <3>4, TypeInParts
    <3>6. TreeTyped' /\ CarryTyped' /\ FlagsTyped'
      BY ONLY <3>2, <3>5, Zenon DEF TreeTyped, CarryTyped, FlagsTyped, repository, place, carry
    <3>7. PassTyped'
      BY ONLY <3>1, <3>2, <3>3, <3>5 DEF PassTyped
    <3>. QED BY ONLY <3>6, <3>7, TypeInParts
  <2>3. CASE ReapplyStash
    <3>1. pendingRollbackStash.work \subseteq Phase
      BY DEF PhaseTypeOK, NoStash
    <3>2. uncommitted' \subseteq Phase /\ kept' \subseteq Phase
      BY <2>3, <3>1 DEF ReapplyStash, PhaseTypeOK
    <3>. QED BY <2>3, <3>2, Bounds DEF ReapplyStash, PhaseTypeOK, Phase
  <2>4. CASE InstructionsChange
    BY <2>4, PhaseAssumption DEF InstructionsChange, Mishap, PhaseTypeOK
  <2>5. CASE RemoveWorktree
    BY <2>5, PhaseAssumption DEF RemoveWorktree, Mishap, PhaseTypeOK
  <2>. QED BY <2>1, <2>2, <2>3, <2>4, <2>5
<1>2. OneRowEach(phaseStatus)'
  BY DEF Attempts, RollBackSkipped, ReapplyStash, InstructionsChange, RemoveWorktree
<1>3. PassInv'
  <2>1. CASE Attempts
    BY <2>1 DEF Attempts, PassInv, InPass
  <2>2. CASE RollBackSkipped
    <3>1. Unstamped(phaseStatus, at)
      BY <2>2 DEF RollBackSkipped, Reached, IsGreen, Has, RowsOf, Unstamped
    <3>. QED BY <2>2, <3>1 DEF RollBackSkipped, Reached, Walking, PassInv, InPass
  <2>3. CASE ReapplyStash
    BY <2>3 DEF ReapplyStash, PassInv, InPass, PhaseTypeOK
  <2>4. CASE InstructionsChange \/ RemoveWorktree
    BY <2>4 DEF InstructionsChange, RemoveWorktree, PassInv, InPass
  <2>. QED BY <2>1, <2>2, <2>3, <2>4
<1>4. LoopInv' /\ NoStaleStamp'
  BY DEF Attempts, RollBackSkipped, Reached, Walking, ReapplyStash, InstructionsChange, RemoveWorktree,
         LoopInv, NoStaleStamp
<1>. QED BY <1>1, <1>2, <1>3, <1>4

LEMMA ResetStep ==
  ASSUME PhaseInv, FindWorktreeGone \/ PlanInfeasible \/ Restart
  PROVE  PhaseInv'
<1>. USE DEF PhaseInv, repository, place, pass
<1>1. PhaseTypeOK'
  <2>1. pendingRollbackStash.work \subseteq Phase
    BY DEF PhaseTypeOK, NoStash
  <2>2. log \in Seq(Commit) /\ Len(log) \in Nat /\ kept \subseteq Phase
    BY DEF PhaseTypeOK
  <2>3. CASE FindWorktreeGone \/ PlanInfeasible
    <3>1. /\ phaseStatus' = <<>> /\ lastFailures' = [p \in Phase |-> NoReason]
          /\ pendingRollbackStash' = NoStash /\ kept' = kept \cup pendingRollbackStash.work
          /\ baseline' = Len(log) /\ UNCHANGED <<log, uncommitted, place, pass, instructions, resumed, callsLeft, mishaps>>
          /\ control' = [control EXCEPT !.allGreen = FALSE, !.blocked = FALSE, !.stale = FALSE]
          /\ replanPending' \in BOOLEAN
      BY <2>3 DEF FindWorktreeGone, PlanInfeasible, EarlyResult, PhaseTypeOK
    <3>2. phaseStatus' \in Seq(Row) /\ Len(phaseStatus') = 0
      BY <3>1
    <3>3. control' \in [allGreen : BOOLEAN, blocked : BOOLEAN, stale : BOOLEAN, seen : Nat]
      BY <3>1 DEF PhaseTypeOK
    <3>. QED BY <2>1, <2>2, <3>1, <3>2, <3>3, Bounds DEF PhaseTypeOK
  <2>4. CASE Restart
    <3>1. phaseStatus' \in Seq(Row) /\ Len(phaseStatus') = 0
      BY <2>4 DEF Restart
    <3>2. mishaps' \in 0 .. MaxMishaps
      BY <2>4, Bounds DEF Restart, Mishap, PhaseTypeOK
    <3>3. /\ control' \in [allGreen : BOOLEAN, blocked : BOOLEAN, stale : BOOLEAN, seen : Nat]
          /\ lastFailures' \in [Phase -> Reasons \cup {NoReason}]
      BY <2>4 DEF Restart, PhaseTypeOK
    <3>4. /\ kept' = kept \cup pendingRollbackStash.work /\ pendingRollbackStash' = NoStash
          /\ baseline' = Len(log) /\ step' = "loop" /\ at' = 1
          /\ phasesCompleted' = 0 /\ envBlocked' = {} /\ entered' = 0 /\ callsLeft' = SpawnBudget
          /\ UNCHANGED <<log, uncommitted, gone, inPlace, instructions>>
      BY <2>4 DEF Restart, LeavePass
    <3>5. TreeTyped'
      BY <2>1, <2>2, <3>4 DEF TreeTyped, PhaseTypeOK
    <3>6. CarryTyped'
      BY <3>1, <3>3, Bounds DEF CarryTyped
    <3>7. PassTyped'
      BY <3>2, <3>4, Bounds, TypeInParts DEF PassTyped
    <3>8. FlagsTyped'
      BY <2>4 DEF FlagsTyped, Restart, LeavePass
    <3>. QED BY <3>5, <3>6, <3>7, <3>8, TypeInParts
  <2>. QED BY <2>3, <2>4
<1>2. phaseStatus' = <<>> /\ control'.allGreen = FALSE /\ step' = "loop"
  <2>1. CASE FindWorktreeGone \/ PlanInfeasible
    BY <2>1 DEF FindWorktreeGone, PlanInfeasible, EarlyResult, PhaseTypeOK
  <2>2. CASE Restart
    BY <2>2 DEF Restart, LeavePass
  <2>. QED BY <2>1, <2>2
<1>. QED BY <1>1, <1>2 DEF OneRowEach, PassInv, InPass, LoopInv, StampedUnder, NoStaleStamp

LEMMA EnterStep ==
  ASSUME PhaseInv, EnterPass
  PROVE  PhaseInv'
<1>. USE DEF PhaseInv, repository, place, outside
<1>1. phaseStatus' = <<>> \/ (phaseStatus' = phaseStatus /\ ~control.stale /\ control.seen = instructions)
  <2>1. phaseStatus' = IF control.stale \/ control.seen # instructions THEN <<>> ELSE phaseStatus
    BY DEF EnterPass
  <2>. QED BY <2>1
<1>2. PhaseTypeOK'
  <2>1. phaseStatus' \in Seq(Row) /\ Len(phaseStatus') <= NumPhases
    <3>1. <<>> \in Seq(Row) /\ Len(<<>>) = 0
      OBVIOUS
    <3>2. CASE phaseStatus' = <<>>
      BY <3>1, <3>2, Bounds
    <3>3. CASE phaseStatus' = phaseStatus
      BY <3>3 DEF PhaseTypeOK
    <3>. QED BY <1>1, <3>2, <3>3
  <2>2. lastFailures' \in [Phase -> Reasons \cup {NoReason}]
    <3>1. \/ lastFailures' = [p \in Phase |-> NoReason]
          \/ lastFailures' = lastFailures
      BY DEF EnterPass
    <3>. QED BY <3>1 DEF PhaseTypeOK
  <2>3. /\ step' = "walk" /\ at' = 1 /\ phasesCompleted' = 0 /\ envBlocked' = {} /\ entered' = instructions
        /\ UNCHANGED <<repository, place, pendingRollbackStash, baseline, control, outside>>
    BY DEF EnterPass
  <2>4. TreeTyped'
    BY <2>3, TypeInParts DEF TreeTyped
  <2>5. CarryTyped'
    BY <2>1, <2>2, <2>3, TypeInParts DEF CarryTyped
  <2>6. PassTyped'
    BY <2>3, TypeInParts, Bounds DEF PassTyped
  <2>7. FlagsTyped'
    BY TypeInParts DEF FlagsTyped, EnterPass
  <2>. QED BY <2>4, <2>5, <2>6, <2>7, TypeInParts
<1>3. OneRowEach(phaseStatus')
  BY <1>1 DEF OneRowEach
<1>4. StampedUnder(phaseStatus', instructions)
  BY <1>1 DEF StampedUnder, LoopInv, EnterPass, shouldIterate
<1>5. StampedFrom(phaseStatus', 1)
  <2>1. phaseStatus' \in Seq(Row)
    BY <1>2 DEF PhaseTypeOK
  <2>2. \A i \in DOMAIN phaseStatus' : phaseStatus'[i].id \in Phase
    BY <2>1, RowFields
  <2>. QED BY <2>2, Bounds, PhasesAre DEF StampedFrom
<1>6. PassInv' /\ LoopInv' /\ NoStaleStamp'
  BY <1>4, <1>5 DEF EnterPass, shouldIterate, PassInv, InPass, LoopInv, NoStaleStamp
<1>. QED BY <1>2, <1>3, <1>6
-----------------------------------------------------------------------------
(* The commits, and how much of them a roll-back keeps.                     *)

LEMMA WorkIsOfPhases ==
  ASSUME NEW s \in Seq(Commit)
  PROVE  WorkOf(s) \subseteq Phase
<1>1. \A i \in DOMAIN s : s[i] \in Commit
  OBVIOUS
<1>2. \A i \in DOMAIN s : s[i].work \subseteq Phase
  BY <1>1 DEF Commit
<1>. QED BY <1>2 DEF WorkOf

LEMMA WorkOfAppend ==
  ASSUME NEW s \in Seq(Commit), NEW c \in Commit
  PROVE  /\ Append(s, c) \in Seq(Commit) /\ Len(Append(s, c)) = Len(s) + 1
         /\ WorkOf(Append(s, c)) = WorkOf(s) \cup c.work
<1>. DEFINE t == Append(s, c)
<1>1. /\ t \in Seq(Commit) /\ Len(t) = Len(s) + 1 /\ DOMAIN s = 1 .. Len(s) /\ DOMAIN t = 1 .. Len(s) + 1
      /\ Len(s) \in Nat /\ t[Len(s) + 1] = c /\ \A i \in 1 .. Len(s) : t[i] = s[i]
  OBVIOUS
<1>. HIDE DEF t
<1>2. DOMAIN t = DOMAIN s \cup {Len(s) + 1}
  BY <1>1
<1>3. \A x : (x \in UNION {t[i].work : i \in DOMAIN t}) <=> \E i \in DOMAIN t : x \in t[i].work
  OBVIOUS
<1>4. \A x : (x \in UNION {s[i].work : i \in DOMAIN s}) <=> \E i \in DOMAIN s : x \in s[i].work
  OBVIOUS
<1>5. ASSUME NEW x PROVE (\E i \in DOMAIN t : x \in t[i].work) <=> (\E i \in DOMAIN s : x \in s[i].work) \/ x \in c.work
  BY <1>1, <1>2
<1>6. WorkOf(t) = WorkOf(s) \cup c.work
  BY <1>3, <1>4, <1>5 DEF WorkOf
<1>. QED BY <1>1, <1>6 DEF t

LEMMA RollbackKeeps ==
  ASSUME TreeTyped, NEW p \in Phase
  PROVE  RollbackTarget(p) \in baseline .. Len(log)
<1>1. log \in Seq(Commit) /\ Len(log) \in Nat /\ DOMAIN log = 1 .. Len(log) /\ baseline \in 0 .. Len(log)
  BY DEF TreeTyped
<1>2. CASE CommitsBefore(p) = {}
  BY <1>1, <1>2 DEF RollbackTarget
<1>3. CASE CommitsBefore(p) # {}
  <2>1. CommitsBefore(p) \in SUBSET (0 .. Len(log)) /\ \A i \in CommitsBefore(p) : i > baseline
    BY <1>1 DEF CommitsBefore
  <2>2. Max(CommitsBefore(p)) \in CommitsBefore(p)
    BY <1>1, <1>3, <2>1, MaxIn
  <2>. QED BY <1>1, <1>3, <2>1, <2>2 DEF RollbackTarget
<1>. QED BY <1>2, <1>3

LEMMA CutLog ==
  ASSUME NEW s \in Seq(Commit), NEW k \in 0 .. Len(s)
  PROVE  /\ SubSeq(s, 1, k) \in Seq(Commit) /\ Len(SubSeq(s, 1, k)) = k
         /\ SubSeq(s, k + 1, Len(s)) \in Seq(Commit)
         /\ WorkOf(s) \subseteq WorkOf(SubSeq(s, 1, k)) \cup WorkOf(SubSeq(s, k + 1, Len(s)))
<1>. DEFINE a == SubSeq(s, 1, k)
            b == SubSeq(s, k + 1, Len(s))
<1>1. /\ Len(s) \in Nat /\ k \in Nat /\ k <= Len(s) /\ DOMAIN s = 1 .. Len(s)
      /\ \A i \in 1 .. Len(s) : s[i] \in Commit
  OBVIOUS
<1>2. a \in Seq(Commit) /\ Len(a) = k /\ DOMAIN a = 1 .. k /\ \A i \in 1 .. k : a[i] = s[i]
  BY <1>1
<1>3. /\ b \in Seq(Commit) /\ Len(b) = Len(s) - k /\ DOMAIN b = 1 .. Len(s) - k
      /\ \A i \in 1 .. Len(s) - k : b[i] = s[k + i]
  <2>1. k + 1 \in Nat /\ Len(s) - (k + 1) + 1 = Len(s) - k /\ Len(s) - k \in Nat
    BY <1>1
  <2>2. b = [i \in 1 .. Len(s) - (k + 1) + 1 |-> s[k + 1 + i - 1]]
    OBVIOUS
  <2>3. ASSUME NEW i \in 1 .. Len(s) - k PROVE k + 1 + i - 1 = k + i /\ k + i \in 1 .. Len(s)
    BY <1>1
  <2>4. b = [i \in 1 .. Len(s) - k |-> s[k + i]]
    BY <2>1, <2>2, <2>3
  <2>. HIDE DEF b
  <2>5. \A i \in 1 .. Len(s) - k : s[k + i] \in Commit
    BY <1>1, <2>3
  <2>. QED BY <2>1, <2>4, <2>5
<1>. HIDE DEF a, b
<1>4. ASSUME NEW x \in WorkOf(s) PROVE x \in WorkOf(a) \cup WorkOf(b)
  <2>1. PICK i \in DOMAIN s : x \in s[i].work
    BY DEF WorkOf
  <2>2. CASE i <= k
    <3>1. i \in DOMAIN a /\ x \in a[i].work
      BY <1>1, <1>2, <2>1, <2>2
    <3>. QED BY <3>1 DEF WorkOf
  <2>3. CASE i > k
    <3>1. i - k \in 1 .. Len(s) - k /\ k + (i - k) = i
      BY <1>1, <2>1, <2>3
    <3>2. i - k \in DOMAIN b /\ x \in b[i - k].work
      BY <1>3, <2>1, <3>1
    <3>. QED BY <3>2 DEF WorkOf
  <2>. QED BY <1>1, <2>1, <2>2, <2>3
<1>. QED BY <1>2, <1>3, <1>4 DEF a, b

-----------------------------------------------------------------------------
(* The steps that change the phase list.                                    *)

LEMMA RollBackStep ==
  ASSUME PhaseInv, RollBack
  PROVE  PhaseInv'
<1>1. TreeTyped /\ CarryTyped /\ PassTyped /\ FlagsTyped
  BY TypeInParts DEF PhaseInv
<1>2. at \in Phase /\ at \in Nat /\ step = "walk" /\ ~replanPending
  BY <1>1, Bounds, PhasesAre DEF RollBack, Reached, Walking, PassTyped
<1>3. PICK keep, detached :
        /\ keep = RollbackTarget(at) /\ detached = WorkOf(SubSeq(log, keep + 1, Len(log)))
        /\ log' = SubSeq(log, 1, keep)
        /\ IF uncommitted = {}
           THEN kept' = kept \cup detached /\ UNCHANGED pendingRollbackStash
           ELSE /\ kept' = kept \cup detached \cup pendingRollbackStash.work
                /\ pendingRollbackStash' = [phase |-> at, work |-> uncommitted]
  BY DEF RollBack
<1>4. /\ uncommitted' = {} /\ phaseStatus' = Invalidated(at) /\ step' = "enter"
      /\ UNCHANGED <<place, lastFailures, baseline, control, at, allGreen, convergenceBlocked,
                     phasesCompleted, envBlocked, entered, outside>>
  BY DEF RollBack
<1>5. PartOf(phaseStatus, Len(phaseStatus), phaseStatus')
  BY <1>2, <1>4, CutIsPart DEF PhaseInv
<1>6. DOMAIN phaseStatus = 1 .. Len(phaseStatus)
  BY <1>1 DEF CarryTyped
<1>7. TreeTyped'
  <2>1. keep \in baseline .. Len(log) /\ log \in Seq(Commit) /\ Len(log) \in Nat /\ baseline \in 0 .. Len(log)
    BY <1>1, <1>2, <1>3, RollbackKeeps DEF TreeTyped
  <2>2. log' \in Seq(Commit) /\ Len(log') = keep /\ SubSeq(log, keep + 1, Len(log)) \in Seq(Commit)
    BY <1>3, <2>1, CutLog
  <2>3. detached \subseteq Phase
    BY <1>3, <2>2, WorkIsOfPhases
  <2>4. kept' \subseteq Phase /\ pendingRollbackStash' \in [phase : Phase, work : SUBSET Phase] \cup {NoStash}
    <3>1. /\ kept \subseteq Phase /\ uncommitted \subseteq Phase /\ pendingRollbackStash.work \subseteq Phase
          /\ pendingRollbackStash \in [phase : Phase, work : SUBSET Phase] \cup {NoStash}
      BY <1>1 DEF TreeTyped, NoStash
    <3>2. [phase |-> at, work |-> uncommitted] \in [phase : Phase, work : SUBSET Phase]
      BY <1>2, <3>1
    <3>3. CASE uncommitted = {}
      BY <1>3, <2>3, <3>1, <3>3
    <3>4. CASE uncommitted # {}
      BY <1>3, <2>3, <3>1, <3>2, <3>4
    <3>. QED BY <3>3, <3>4
  <2>. QED BY <1>1, <1>4, <2>1, <2>2, <2>4 DEF TreeTyped, place
<1>8. CarryTyped'
  BY <1>1, <1>4, <1>5, AsManyAsPhases DEF CarryTyped, PartOf
<1>9. PassTyped' /\ FlagsTyped'
  BY <1>1, <1>2, <1>4 DEF PassTyped, FlagsTyped, outside
<1>10. PhaseTypeOK' /\ OneRowEach(phaseStatus')
  BY <1>5, <1>7, <1>8, <1>9, TypeInParts DEF PartOf
<1>11. PassInv'
  <2>1. Unstamped(phaseStatus, at)
    BY DEF RollBack, Reached, IsGreen, Has, RowsOf, Unstamped
  <2>2. Unstamped(phaseStatus', at)
    BY <1>5, <1>6, <2>1 DEF PartOf, Unstamped
  <2>3. StampedUnder(phaseStatus', entered)
    BY <1>2, <1>5, <1>6 DEF PartOf, StampedUnder, PhaseInv, PassInv, InPass
  <2>4. phasesCompleted = 0 => StampedFrom(phaseStatus', at)
    BY <1>2, <1>5, <1>6 DEF PartOf, StampedFrom, PhaseInv, PassInv, InPass
  <2>. QED BY <1>2, <1>4, <2>2, <2>3, <2>4 DEF PassInv, InPass, outside
<1>12. LoopInv' /\ NoStaleStamp'
  BY <1>4 DEF LoopInv, NoStaleStamp
<1>. QED BY <1>10, <1>11, <1>12 DEF PhaseInv

(* What a stamp of the phase the pass is at does to the list.               *)
LEMMA StampKeeps ==
  ASSUME PhaseTypeOK, OneRowEach(phaseStatus), at \in Phase,
         phaseStatus' = Upserted(phaseStatus, GreenRow(at)),
         StampedUnder(phaseStatus, entered)
  PROVE  /\ phaseStatus' \in Seq(Row) /\ Len(phaseStatus') <= NumPhases /\ OneRowEach(phaseStatus')
         /\ StampedUnder(phaseStatus', entered)
<1>1. PICK r : r = GreenRow(at)
  OBVIOUS
<1>2. r \in Row /\ r.under = entered
  BY <1>1 DEF GreenRow, Row, NoSig, Sig, PhaseTypeOK
<1>3. Replaces(phaseStatus, r, phaseStatus')
  BY <1>1, <1>2, UpsertReplaces DEF PhaseTypeOK
<1>. QED BY <1>2, <1>3, AsManyAsPhases DEF Replaces, StampedUnder

LEMMA EnterSatisfiedStep ==
  ASSUME PhaseInv, EnterSatisfied
  PROVE  PhaseInv'
<1>1. TreeTyped /\ CarryTyped /\ PassTyped /\ FlagsTyped /\ PhaseTypeOK /\ OneRowEach(phaseStatus)
  BY TypeInParts DEF PhaseInv
<1>2. at \in Phase /\ at + 1 \in 1 .. NumPhases + 1 /\ StampedUnder(phaseStatus, entered)
  BY <1>1, PhasesAre, Bounds DEF EnterSatisfied, PassTyped, PhaseInv, PassInv, InPass
<1>3. /\ phaseStatus' = Upserted(phaseStatus, GreenRow(at))
      /\ lastFailures' = [lastFailures EXCEPT ![at] = NoReason]
      /\ phasesCompleted' = phasesCompleted + 1 /\ at' = at + 1 /\ step' = "walk"
      /\ UNCHANGED <<repository, place, pendingRollbackStash, baseline, control, allGreen,
                     convergenceBlocked, envBlocked, entered, outside>>
  BY DEF EnterSatisfied
<1>4. /\ phaseStatus' \in Seq(Row) /\ Len(phaseStatus') <= NumPhases /\ OneRowEach(phaseStatus')
      /\ StampedUnder(phaseStatus', entered)
  BY <1>1, <1>2, <1>3, StampKeeps
<1>5. TreeTyped' /\ CarryTyped'
  BY <1>1, <1>3, <1>4 DEF TreeTyped, CarryTyped, repository, place
<1>6. PassTyped' /\ FlagsTyped'
  BY <1>1, <1>2, <1>3 DEF PassTyped, FlagsTyped, outside
<1>7. phasesCompleted' > 0
  BY <1>1, <1>3 DEF PassTyped
<1>8. PassInv' /\ LoopInv' /\ NoStaleStamp'
  BY <1>3, <1>4, <1>7 DEF EnterSatisfied, PhaseInv, PassInv, InPass, LoopInv, NoStaleStamp, outside
<1>. QED BY <1>4, <1>5, <1>6, <1>8, TypeInParts DEF PhaseInv
LEMMA PartialKeeps ==
  ASSUME PhaseInv, at \in Phase, NEW sig \in Sig, NEW hitWall \in BOOLEAN,
         phaseStatus' = Upserted(phaseStatus, PartialRow(at, sig, hitWall))
  PROVE  /\ phaseStatus' \in Seq(Row) /\ Len(phaseStatus') <= NumPhases /\ OneRowEach(phaseStatus')
         /\ StampedUnder(phaseStatus, entered) => StampedUnder(phaseStatus', entered)
         /\ StampedFrom(phaseStatus, at) => StampedFrom(phaseStatus', at + 1)
<1>1. /\ phaseStatus \in Seq(Row) /\ OneRowEach(phaseStatus) /\ entered \in Nat
      /\ \A i \in DOMAIN phaseStatus : phaseStatus[i] \in Row
  BY DEF PhaseInv, PhaseTypeOK
<1>2. PICK n : n = IF /\ ~hitWall
                      /\ \E i \in RowsOf(at) : phaseStatus[i].status = "partial" /\ phaseStatus[i].sig = sig
                   THEN phaseStatus[CHOOSE i \in RowsOf(at) : TRUE].reEntries + 1 ELSE 0
  OBVIOUS
<1>3. n \in Nat
  <2>1. CASE RowsOf(at) = {}
    BY <1>2, <2>1
  <2>2. CASE RowsOf(at) # {}
    <3>1. PICK i : i = CHOOSE j \in RowsOf(at) : TRUE
      OBVIOUS
    <3>2. i \in DOMAIN phaseStatus
      BY <2>2, <3>1 DEF RowsOf
    <3>3. phaseStatus[i].reEntries \in Nat
      BY <1>1, <3>2 DEF Row
    <3>. QED BY <1>2, <3>1, <3>3
  <2>. QED BY <2>1, <2>2
<1>4. PICK r : r = [id |-> at, status |-> "partial", reEntries |-> n, sig |-> sig, under |-> entered]
  OBVIOUS
<1>5. r = PartialRow(at, sig, hitWall)
  BY <1>2, <1>4 DEF PartialRow
<1>6. r \in Row /\ r.status = "partial" /\ r.id = at
  BY <1>1, <1>3, <1>4 DEF Row
<1>7. Replaces(phaseStatus, r, phaseStatus')
  BY <1>1, <1>5, <1>6, UpsertReplaces
<1>8. StampedUnder(phaseStatus, entered) => StampedUnder(phaseStatus', entered)
  BY <1>6, <1>7 DEF Replaces, StampedUnder
<1>9. StampedFrom(phaseStatus, at) => StampedFrom(phaseStatus', at + 1)
  <2>1. \A i \in DOMAIN phaseStatus : phaseStatus[i].id \in Nat
    BY <1>1, RowFields, PhasesAre
  <2>2. at \in Nat
    BY PhasesAre
  <2>. QED BY <1>6, <1>7, <2>1, <2>2 DEF Replaces, StampedFrom
<1>. QED BY <1>7, <1>8, <1>9, AsManyAsPhases DEF Replaces

LEMMA PartialStep ==
  ASSUME PhaseInv, NEW why \in Stops, TailPartial(why)
  PROVE  PhaseInv'
<1>1. TreeTyped /\ CarryTyped /\ PassTyped /\ FlagsTyped
  BY TypeInParts DEF PhaseInv
<1>2. at \in Phase /\ at + 1 \in 1 .. NumPhases + 1 /\ step \in {"enter", "attempts"}
  BY <1>1, PhasesAre, Bounds DEF TailPartial, PassTyped
<1>3. PICK reason \in Reasons, diag \in BOOLEAN :
        /\ phaseStatus' = Upserted(phaseStatus,
                            PartialRow(at, [reason |-> reason, diag |-> diag], why = "wall"))
        /\ lastFailures' = [lastFailures EXCEPT ![at] = reason]
  BY DEF TailPartial
<1>4. /\ phaseStatus' \in Seq(Row) /\ Len(phaseStatus') <= NumPhases /\ OneRowEach(phaseStatus')
      /\ StampedUnder(phaseStatus, entered) => StampedUnder(phaseStatus', entered)
      /\ StampedFrom(phaseStatus, at) => StampedFrom(phaseStatus', at + 1)
  <2>1. [reason |-> reason, diag |-> diag] \in Sig /\ (why = "wall") \in BOOLEAN
    BY DEF Sig
  <2>. QED BY <1>2, <1>3, <2>1, PartialKeeps
<1>5. /\ UNCHANGED <<log, place, baseline, control, phasesCompleted, entered, instructions, resumed, callsLeft>>
      /\ pendingRollbackStash' = IF PendingHere THEN NoStash ELSE pendingRollbackStash
  BY DEF TailPartial
<1>6. TreeTyped'
  <2>1. StashReleased \subseteq Phase
    BY <1>1 DEF StashReleased, TreeTyped, NoStash
  <2>2. kept' \subseteq Phase /\ uncommitted' \subseteq Phase
    BY <1>1, <2>1 DEF TailPartial, Preserve, TreeTyped
  <2>3. pendingRollbackStash' \in [phase : Phase, work : SUBSET Phase] \cup {NoStash}
    BY <1>1, <1>5 DEF TreeTyped
  <2>. QED BY <1>1, <1>5, <2>2, <2>3 DEF TreeTyped, place
<1>7. CarryTyped'
  BY <1>1, <1>3, <1>4, <1>5 DEF CarryTyped
<1>8. \/ step' = "close" /\ at' = at /\ why = "worktree-gone"
      \/ step' = "walk" /\ at' = at + 1
  BY DEF TailPartial
<1>9. PassTyped'
  <2>1. mishaps' \in 0 .. MaxMishaps
    BY <1>1, Bounds DEF TailPartial, Preserve, GitFails, Mishap, PassTyped
  <2>2. envBlocked' \subseteq Phase
    BY <1>1, <1>2 DEF TailPartial, PassTyped
  <2>. QED BY <1>1, <1>2, <1>5, <1>8, <2>1, <2>2 DEF PassTyped
<1>10. FlagsTyped'
  BY <1>1, <1>5 DEF TailPartial, FlagsTyped
<1>11. PassInv'
  <2>1. StampedUnder(phaseStatus, entered) /\ (phasesCompleted = 0 => StampedFrom(phaseStatus, at))
    BY <1>2 DEF PhaseInv, PassInv, InPass
  <2>2. ~allGreen'
    BY DEF TailPartial
  <2>3. CASE step' = "walk" /\ at' = at + 1
    BY <1>4, <1>5, <2>1, <2>2, <2>3 DEF PassInv, InPass
  <2>4. CASE step' = "close" /\ at' = at /\ why = "worktree-gone"
    <3>1. gone'
      BY <2>4 DEF TailPartial, StopPossible, place
    <3>2. StampedFrom(phaseStatus', at + 1) => StampedFrom(phaseStatus', at)
      <4>1. \A i \in DOMAIN phaseStatus' : phaseStatus'[i].id \in Nat
        BY <1>4, RowFields, PhasesAre
      <4>2. at \in Nat
        BY <1>2, PhasesAre
      <4>. QED BY <4>1, <4>2 DEF StampedFrom
    <3>. QED BY <1>4, <1>5, <2>1, <2>2, <2>4, <3>1, <3>2 DEF PassInv, InPass
  <2>. QED BY <1>8, <2>3, <2>4
<1>12. LoopInv' /\ NoStaleStamp'
  BY <1>8 DEF LoopInv, NoStaleStamp
<1>. QED BY <1>4, <1>6, <1>7, <1>9, <1>10, <1>11, <1>12, TypeInParts DEF PhaseInv

LEMMA CommittedTyped ==
  ASSUME TreeTyped, NEW p \in 0 .. NumPhases, Committed(p)
  PROVE  /\ log' \in Seq(Commit) /\ Len(log') >= Len(log) /\ uncommitted' \subseteq Phase
         /\ mishaps' = mishaps
<1>1. log \in Seq(Commit) /\ Len(log) \in Nat /\ uncommitted \subseteq Phase
  BY DEF TreeTyped
<1>2. [phase |-> p, work |-> uncommitted] \in Commit
  BY <1>1 DEF Commit
<1>. QED BY <1>1, <1>2, WorkOfAppend DEF Committed

LEMMA SpendsTyped == callsLeft \in 0 .. SpawnBudget => Spend(1) \in 0 .. SpawnBudget
BY Bounds DEF Spend

LEMMA GreenStep ==
  ASSUME PhaseInv, TailGreen
  PROVE  PhaseInv'
<1>1. TreeTyped /\ CarryTyped /\ PassTyped /\ FlagsTyped /\ PhaseTypeOK /\ OneRowEach(phaseStatus)
  BY TypeInParts DEF PhaseInv
<1>2. at \in Phase /\ at + 1 \in 1 .. NumPhases + 1 /\ StampedUnder(phaseStatus, entered)
  BY <1>1, PhasesAre, Bounds DEF TailGreen, GreenPossible, PassTyped, PhaseInv, PassInv, InPass
<1>3. /\ phaseStatus' = Upserted(phaseStatus, GreenRow(at)) /\ phasesCompleted' = phasesCompleted + 1
      /\ UNCHANGED <<place, lastFailures, baseline, control, allGreen, convergenceBlocked,
                     envBlocked, entered, instructions, replanPending, resumed, kept>>
  BY DEF TailGreen, StampGreen
<1>4. /\ phaseStatus' \in Seq(Row) /\ Len(phaseStatus') <= NumPhases /\ OneRowEach(phaseStatus')
      /\ StampedUnder(phaseStatus', entered)
  BY <1>1, <1>2, <1>3, StampKeeps
<1>5. /\ step' \in {"walk", "reapply"} /\ at' = (IF step' = "walk" THEN at + 1 ELSE at)
      /\ UNCHANGED pendingRollbackStash
  BY DEF TailGreen, Reapply
<1>6. /\ log' \in Seq(Commit) /\ Len(log') >= Len(log) /\ uncommitted' \subseteq Phase
      /\ callsLeft' \in 0 .. SpawnBudget /\ mishaps' \in 0 .. MaxMishaps
  <2>1. log \in Seq(Commit) /\ Len(log) \in Nat /\ uncommitted \subseteq Phase
        /\ callsLeft \in 0 .. SpawnBudget /\ mishaps \in 0 .. MaxMishaps
    BY <1>1 DEF TreeTyped, PassTyped
  <2>2. CASE UNCHANGED <<log, uncommitted, callsLeft, mishaps>>
    BY <2>1, <2>2
  <2>3. CASE Committed(at) /\ UNCHANGED callsLeft
    <3>1. at \in 0 .. NumPhases
      BY <1>2, PhasesAre
    <3>. QED BY <1>1, <2>1, <2>3, <3>1, CommittedTyped
  <2>4. CASE /\ IF inPlace THEN UNCHANGED mishaps ELSE uncommitted # {} /\ GitFails
             /\ callsLeft' = Spend(1)
             /\ \/ log' = Append(log, [phase |-> 0, work |-> uncommitted]) /\ uncommitted' = {}
                \/ UNCHANGED <<log, uncommitted>>
    <3>1. [phase |-> 0, work |-> uncommitted] \in Commit
      BY <2>1, Bounds DEF Commit
    <3>2. mishaps' \in 0 .. MaxMishaps
      BY <2>1, <2>4, Bounds DEF GitFails, Mishap
    <3>3. callsLeft' \in 0 .. SpawnBudget
      BY <2>1, <2>4, SpendsTyped
    <3>4. log' \in Seq(Commit) /\ Len(log') >= Len(log) /\ uncommitted' \subseteq Phase
      <4>. DEFINE c == [phase |-> 0, work |-> uncommitted]
      <4>1. log' \in {log, Append(log, c)} /\ uncommitted' \in {uncommitted, {}}
        BY <2>4
      <4>. HIDE DEF c
      <4>2. Append(log, c) \in Seq(Commit) /\ Len(Append(log, c)) = Len(log) + 1
        BY ONLY <2>1, <3>1, WorkOfAppend DEF c
      <4>. QED BY ONLY <2>1, <4>1, <4>2
    <3>. QED BY <3>2, <3>3, <3>4
  <2>. QED BY <2>2, <2>3, <2>4 DEF TailGreen
<1>7. TreeTyped'
  <2>1. Len(log) \in Nat /\ Len(log') \in Nat
    BY <1>1, <1>6 DEF TreeTyped
  <2>. QED BY <1>1, <1>3, <1>5, <1>6, <2>1 DEF TreeTyped, place
<1>8. CarryTyped' /\ PassTyped'
  BY <1>1, <1>2, <1>3, <1>4, <1>5, <1>6 DEF CarryTyped, PassTyped
<1>9. FlagsTyped'
  BY <1>1, <1>3 DEF FlagsTyped
<1>10. phasesCompleted' > 0
  BY <1>1, <1>3 DEF PassTyped
<1>11. PassInv'
  <2>1. (replanPending => ~allGreen)'
    BY <1>3 DEF TailGreen, GreenPossible, PhaseInv, PassInv, InPass
  <2>. QED BY <1>3, <1>4, <1>5, <1>10, <2>1 DEF PassInv, InPass
<1>12. LoopInv' /\ NoStaleStamp'
  BY <1>5 DEF LoopInv, NoStaleStamp
<1>. QED BY <1>4, <1>7, <1>8, <1>9, <1>11, <1>12, TypeInParts DEF PhaseInv
(* Closing a pass: the flips turn their rows green under the pass's own     *)
(* instructions, and count, so changed instructions void the result.        *)
LEMMA FlipKeeps ==
  ASSUME PhaseInv, NEW flips \in SUBSET Flippable, phaseStatus' = FlipRows(flips)
  PROVE  /\ phaseStatus' \in Seq(Row) /\ Len(phaseStatus') = Len(phaseStatus) /\ OneRowEach(phaseStatus')
         /\ DOMAIN phaseStatus' = DOMAIN phaseStatus
         /\ StampedUnder(phaseStatus, entered) => StampedUnder(phaseStatus', entered)
         /\ flips = {} => phaseStatus' = phaseStatus
<1>1. /\ phaseStatus \in Seq(Row) /\ OneRowEach(phaseStatus) /\ entered \in Nat
      /\ \A i \in DOMAIN phaseStatus : phaseStatus[i] \in Row
  BY DEF PhaseInv, PhaseTypeOK
<1>2. \A p \in flips : /\ GreenRow(p) \in Row /\ GreenRow(p).id = p /\ GreenRow(p).under = entered
  BY <1>1 DEF GreenRow, Row, NoSig, Sig, Flippable
<1>3. phaseStatus' = [i \in DOMAIN phaseStatus |->
                        IF phaseStatus[i].id \in flips THEN GreenRow(phaseStatus[i].id) ELSE phaseStatus[i]]
  BY DEF FlipRows
<1>4. /\ \A i \in DOMAIN phaseStatus : phaseStatus'[i] \in Row /\ phaseStatus'[i].id = phaseStatus[i].id
      /\ DOMAIN phaseStatus' = DOMAIN phaseStatus
      /\ \A i \in DOMAIN phaseStatus : phaseStatus'[i] = phaseStatus[i] \/ phaseStatus'[i].under = entered
  BY <1>1, <1>2, <1>3
<1>5. phaseStatus' \in Seq(Row) /\ Len(phaseStatus') = Len(phaseStatus)
  <2>. DEFINE n == Len(phaseStatus)
  <2>1. n \in Nat /\ DOMAIN phaseStatus = 1 .. n
    BY <1>1
  <2>. HIDE DEF n
  <2>2. phaseStatus' = [i \in 1 .. n |-> phaseStatus'[i]] /\ \A i \in 1 .. n : phaseStatus'[i] \in Row
    BY <1>3, <1>4, <2>1
  <2>3. phaseStatus' \in Seq(Row) /\ Len(phaseStatus') = n
    BY <2>1, <2>2
  <2>. QED BY <2>3 DEF n
<1>6. OneRowEach(phaseStatus') /\ (StampedUnder(phaseStatus, entered) => StampedUnder(phaseStatus', entered))
  BY <1>1, <1>4 DEF OneRowEach, StampedUnder
<1>7. flips = {} => phaseStatus' = phaseStatus
  BY <1>1, <1>3
<1>. QED BY <1>4, <1>5, <1>6, <1>7

LEMMA FlipsAreCounted ==
  ASSUME NEW flips \in SUBSET Phase
  PROVE  Cardinality(flips) \in Nat /\ (Cardinality(flips) = 0 => flips = {})
<1>1. IsFiniteSet(1 .. NumPhases)
  BY FS_Interval, Bounds
<1>2. IsFiniteSet(flips)
  BY <1>1, FS_Subset DEF Phase
<1>. QED BY <1>2, FS_CardinalityType, FS_EmptySet

LEMMA CloseStep ==
  ASSUME PhaseInv, ClosePass
  PROVE  PhaseInv'
<1>1. TreeTyped /\ CarryTyped /\ PassTyped /\ FlagsTyped
  BY TypeInParts DEF PhaseInv
<1>2. PICK flips \in SUBSET Flippable :
        /\ CloseRows(flips)
        /\ LET done == phasesCompleted + Cardinality(flips)
               green == allGreen \/ (flips # {} /\ ForcedGreen)
               changed == ChangedUnder(done)
           IN control' = [allGreen |-> green /\ ~changed, blocked |-> convergenceBlocked,
                          stale |-> changed, seen |-> instructions]
  BY DEF ClosePass
<1>3. PICK done : done = phasesCompleted + Cardinality(flips)
  OBVIOUS
<1>4. control' = [allGreen |-> (allGreen \/ (flips # {} /\ ForcedGreen)) /\ ~ChangedUnder(done),
                  blocked |-> convergenceBlocked, stale |-> ChangedUnder(done), seen |-> instructions]
  BY <1>2, <1>3
<1>5. /\ step = "close" /\ callsLeft' = Spend(1)
      /\ step' = "loop" /\ at' = 1 /\ phasesCompleted' = 0 /\ envBlocked' = {} /\ entered' = 0
      /\ UNCHANGED <<kept, place, pendingRollbackStash, baseline, instructions>>
  BY DEF ClosePass, LeavePass
<1>6. flips \subseteq Phase /\ phaseStatus' = FlipRows(flips)
  BY <1>2 DEF CloseRows, Flippable
<1>7. done \in Nat /\ (done = 0 => phasesCompleted = 0 /\ flips = {})
  BY <1>1, <1>3, <1>6, FlipsAreCounted DEF PassTyped
<1>8. /\ phaseStatus' \in Seq(Row) /\ Len(phaseStatus') = Len(phaseStatus) /\ OneRowEach(phaseStatus')
      /\ StampedUnder(phaseStatus', entered) /\ (flips = {} => phaseStatus' = phaseStatus)
  BY <1>5, <1>6, FlipKeeps DEF PhaseInv, PassInv, InPass
<1>9. log' \in Seq(Commit) /\ Len(log') >= Len(log) /\ uncommitted' \subseteq Phase
      /\ mishaps' \in 0 .. MaxMishaps
  <2>1. log \in Seq(Commit) /\ Len(log) \in Nat /\ uncommitted \subseteq Phase /\ mishaps \in 0 .. MaxMishaps
    BY <1>1 DEF TreeTyped, PassTyped
  <2>2. CASE UNCHANGED <<log, uncommitted>> /\ (GitFails \/ UNCHANGED mishaps)
    BY <2>1, <2>2, Bounds DEF GitFails, Mishap
  <2>3. CASE flips # {} /\ Committed(Min(flips))
    <3>1. flips \in SUBSET Nat /\ flips # {}
      BY <1>6, <2>3, PhasesAre
    <3>2. Min(flips) \in flips
      BY <3>1, MinIn
    <3>3. Min(flips) \in 0 .. NumPhases
      BY <1>6, <3>2, PhasesAre
    <3>. QED BY <1>1, <2>1, <2>3, <3>3, CommittedTyped
  <2>. QED BY <1>2, <2>2, <2>3 DEF CloseRows
<1>10. TreeTyped'
  <2>1. Len(log) \in Nat /\ Len(log') \in Nat
    BY <1>1, <1>9 DEF TreeTyped
  <2>. QED BY <1>1, <1>5, <1>9, <2>1 DEF TreeTyped, place
<1>11. CarryTyped'
  <2>1. lastFailures' \in [Phase -> Reasons \cup {NoReason}]
    BY <1>1, <1>2 DEF CloseRows, CarryTyped
  <2>2. control' \in [allGreen : BOOLEAN, blocked : BOOLEAN, stale : BOOLEAN, seen : Nat]
    <3>1. /\ ((allGreen \/ (flips # {} /\ ForcedGreen)) /\ ~ChangedUnder(done)) \in BOOLEAN
          /\ convergenceBlocked \in BOOLEAN /\ ChangedUnder(done) \in BOOLEAN
      BY <1>1 DEF FlagsTyped, ChangedUnder
    <3>2. instructions \in Nat
      BY <1>1 DEF PassTyped
    <3>. QED BY <1>4, <3>1, <3>2
  <2>. QED BY <1>1, <1>8, <2>1, <2>2 DEF CarryTyped
<1>12. PassTyped'
  BY <1>1, <1>5, <1>9, Bounds, SpendsTyped DEF PassTyped
<1>13. FlagsTyped'
  BY <1>1 DEF FlagsTyped, ClosePass, LeavePass
<1>14. control'.seen = instructions /\ (control'.stale <=> ChangedUnder(done))
       /\ (control'.blocked <=> convergenceBlocked)
       /\ (control'.allGreen <=> (allGreen \/ (flips # {} /\ ForcedGreen)) /\ ~ChangedUnder(done))
  BY <1>4
<1>15. instructions = entered => StampedUnder(phaseStatus', control'.seen)
  BY <1>8, <1>14
<1>16. ASSUME instructions # entered, ~ChangedUnder(done)
       PROVE  flips = {} /\ phasesCompleted = 0 /\ phaseStatus' = phaseStatus
  BY <1>7, <1>8, <1>16 DEF ChangedUnder
<1>17. ASSUME phasesCompleted = 0, at > NumPhases, phaseStatus' = phaseStatus
       PROVE  StampedUnder(phaseStatus', control'.seen)
  <2>1. StampedFrom(phaseStatus, at)
    BY <1>5, <1>17 DEF PhaseInv, PassInv, InPass
  <2>2. \A i \in DOMAIN phaseStatus : phaseStatus[i].id \in 1 .. NumPhases
    BY <1>1, RowFields, PhasesAre DEF CarryTyped
  <2>3. at \in Nat /\ NumPhases \in Nat
    BY <1>1, Bounds DEF PassTyped
  <2>4. \A i \in DOMAIN phaseStatus : phaseStatus[i].status # "green"
    BY <1>17, <2>1, <2>2, <2>3 DEF StampedFrom
  <2>. QED BY <1>17, <2>4 DEF StampedUnder
<1>18. at > NumPhases \/ (~allGreen /\ (convergenceBlocked \/ replanPending \/ gone))
  BY <1>5 DEF PhaseInv, PassInv
<1>19. replanPending' = replanPending /\ gone' = gone
  BY DEF ClosePass, place
<1>20. LoopInv'
  <2>1. CASE instructions = entered
    BY <1>15, <2>1 DEF LoopInv
  <2>2. CASE ChangedUnder(done)
    BY <1>14, <2>2 DEF LoopInv
  <2>3. CASE instructions # entered /\ ~ChangedUnder(done)
    BY <1>14, <1>16, <1>17, <1>18, <1>19, <2>3 DEF LoopInv
  <2>. QED BY <2>1, <2>2, <2>3
<1>21. NoStaleStamp'
  <2>1. ASSUME control'.allGreen PROVE StampedUnder(phaseStatus', control'.seen)
    <3>1. CASE instructions = entered
      BY <1>15, <3>1
    <3>2. CASE instructions # entered
      BY <1>14, <1>16, <1>17, <1>18, <2>1, <3>2
    <3>. QED BY <3>1, <3>2
  <2>. QED BY <2>1 DEF NoStaleStamp, StampedUnder
<1>22. PassInv'
  BY <1>5 DEF PassInv, InPass
<1>. QED BY <1>8, <1>10, <1>11, <1>12, <1>13, <1>20, <1>21, <1>22, TypeInParts DEF PhaseInv

LEMMA PhaseStutter ==
  ASSUME PhaseInv, UNCHANGED phaseVars
  PROVE  PhaseInv'
BY DEF phaseVars, repository, place, carry, pass, outside, PhaseInv, PhaseTypeOK, OneRowEach, PassInv,
       LoopInv, NoStaleStamp

LEMMA PhaseInvariant == PhaseSpec => []PhaseInv
<1>1. PhaseInv /\ [PhaseNext]_phaseVars => PhaseInv'
  <2>. SUFFICES ASSUME PhaseInv, PhaseNext PROVE PhaseInv'
    BY PhaseStutter
  <2>1. ASSUME NEW why \in Stops, TailPartial(why) PROVE PhaseInv'
    BY <2>1, PartialStep
  <2>. QED
    BY <2>1, LoopStep, SkipStep, OutsideStep, ResetStep, EnterStep, RollBackStep, EnterSatisfiedStep,
       GreenStep, CloseStep
    DEF PhaseNext, Stage
<1>. QED BY <1>1, PhaseStart, PTL DEF PhaseSpec

(* Every reachable state of the phases is well typed; in particular the     *)
(* phase list never holds more rows than there are phases.                  *)
THEOREM PhaseTypeCorrect == PhaseSpec => []PhaseTypeOK
<1>1. PhaseInv => PhaseTypeOK
  BY DEF PhaseInv
<1>. QED BY <1>1, PhaseInvariant, PTL

(* A result that reports all green rests on no stamp of a pass that began   *)
(* under other runtime instructions, whatever restarts, roll-backs, git     *)
(* faults and changed instructions lie between (stage.ts:1405).             *)
THEOREM Stamps == PhaseSpec => []NoStaleStamp
<1>1. PhaseInv => NoStaleStamp
  BY DEF PhaseInv
<1>. QED BY <1>1, PhaseInvariant, PTL
-----------------------------------------------------------------------------
(* Nothing an attempt wrote is lost: each step that takes work out of the   *)
(* tree puts it in a stash, a commit or the list of detached commits.       *)

LEMMA SameTreeKeeps ==
  ASSUME UNCHANGED <<repository, pendingRollbackStash>>
  PROVE  Everything \subseteq Everything'
BY DEF repository, Everything, Satisfied, WorkOf

LEMMA StashIsKept ==
  ASSUME UNCHANGED <<log, uncommitted>>, kept' = kept \cup pendingRollbackStash.work
  PROVE  Everything \subseteq Everything'
BY DEF Everything, Satisfied, WorkOf

LEMMA CommitKeeps ==
  ASSUME TreeTyped, UNCHANGED <<kept, pendingRollbackStash>>, NEW p \in 0 .. NumPhases,
         \/ UNCHANGED <<log, uncommitted>>
         \/ log' = Append(log, [phase |-> p, work |-> uncommitted]) /\ uncommitted' = {}
         \/ Committed(p)
  PROVE  Everything \subseteq Everything'
<1>1. log \in Seq(Commit) /\ [phase |-> p, work |-> uncommitted] \in Commit
  BY DEF TreeTyped, Commit
<1>2. WorkOf(log) \cup uncommitted \subseteq WorkOf(log') \cup uncommitted'
  <2>1. CASE UNCHANGED <<log, uncommitted>>
    BY <2>1
  <2>2. CASE log' = Append(log, [phase |-> p, work |-> uncommitted])
    <3>1. WorkOf(log') = WorkOf(log) \cup uncommitted
      BY <1>1, <2>2, WorkOfAppend
    <3>. QED BY <3>1
  <2>3. CASE log' = log /\ uncommitted = {}
    BY <2>3
  <2>. QED BY <2>1, <2>2, <2>3 DEF Committed
<1>. QED BY <1>2 DEF Everything, Satisfied, WorkOf

LEMMA RollBackSaves ==
  ASSUME TreeTyped, PassTyped, RollBack
  PROVE  Everything \subseteq Everything'
<1>1. PICK keep, detached :
        /\ keep = RollbackTarget(at) /\ detached = WorkOf(SubSeq(log, keep + 1, Len(log)))
        /\ log' = SubSeq(log, 1, keep)
        /\ IF uncommitted = {}
           THEN kept' = kept \cup detached /\ UNCHANGED pendingRollbackStash
           ELSE /\ kept' = kept \cup detached \cup pendingRollbackStash.work
                /\ pendingRollbackStash' = [phase |-> at, work |-> uncommitted]
  BY DEF RollBack
<1>2. at \in Phase
  BY PhasesAre, Bounds DEF RollBack, Reached, Walking, PassTyped
<1>3. log \in Seq(Commit) /\ Len(log) \in Nat /\ baseline \in 0 .. Len(log) /\ keep \in baseline .. Len(log)
  BY <1>1, <1>2, RollbackKeeps DEF TreeTyped
<1>4. WorkOf(log) \subseteq WorkOf(log') \cup detached
  <2>1. keep \in 0 .. Len(log)
    BY <1>3
  <2>. QED BY <1>1, <1>3, <2>1, CutLog
<1>5. kept \cup detached \subseteq kept'
  BY <1>1
<1>6. uncommitted \cup pendingRollbackStash.work \subseteq kept' \cup pendingRollbackStash'.work
  BY <1>1
<1>. QED BY <1>4, <1>5, <1>6 DEF Everything, Satisfied, WorkOf

LEMMA PartialSaves ==
  ASSUME TreeTyped, NEW why \in Stops, TailPartial(why)
  PROVE  Everything \subseteq Everything'
<1>1. kept \cup uncommitted \cup StashReleased \subseteq kept' \cup uncommitted' /\ log' = log
  BY DEF TailPartial, Preserve
<1>2. pendingRollbackStash.work \subseteq StashReleased \cup pendingRollbackStash'.work
  BY DEF TailPartial, StashReleased
<1>. QED BY <1>1, <1>2 DEF Everything, Satisfied, WorkOf

LEMMA StepLosesNothing ==
  ASSUME PhaseInv, PhaseNext
  PROVE  \/ gone'
         \/ step = "reapply" /\ uncommitted # {}
         \/ Everything \subseteq Everything'
<1>1. TreeTyped /\ PassTyped
  BY TypeInParts DEF PhaseInv
<1>2. CASE \/ LeaveLoop \/ DeferToReplan \/ FuseAtBoundary \/ SkipGreen \/ SkipHopeless \/ EnterPhase
           \/ EnterPass \/ RollBackSkipped \/ EnterSatisfied \/ PhasesDone \/ InstructionsChange
  BY <1>2, SameTreeKeeps
  DEF LeaveLoop, DeferToReplan, FuseAtBoundary, SkipGreen, SkipHopeless, EnterPhase, EnterPass,
      RollBackSkipped, EnterSatisfied, PhasesDone, InstructionsChange, carry
<1>3. CASE FindWorktreeGone \/ PlanInfeasible \/ Restart
  BY <1>3, StashIsKept DEF FindWorktreeGone, PlanInfeasible, EarlyResult, Restart
<1>4. CASE RollBack
  BY <1>1, <1>4, RollBackSaves
<1>5. CASE Attempts
  BY <1>5 DEF Attempts, carry, Everything, Satisfied, WorkOf
<1>6. ASSUME NEW why \in Stops, TailPartial(why) PROVE Everything \subseteq Everything'
  BY <1>1, <1>6, PartialSaves
<1>7. CASE TailGreen
  <2>1. UNCHANGED <<kept, pendingRollbackStash>>
    BY <1>7 DEF TailGreen, Reapply
  <2>2. at \in 0 .. NumPhases /\ 0 \in 0 .. NumPhases
    BY <1>1, <1>7, PhasesAre, Bounds DEF TailGreen, GreenPossible, PassTyped
  <2>3. \/ UNCHANGED <<log, uncommitted>>
        \/ log' = Append(log, [phase |-> 0, work |-> uncommitted]) /\ uncommitted' = {}
        \/ Committed(at)
    BY <1>7 DEF TailGreen
  <2>. QED BY <1>1, <2>1, <2>2, <2>3, CommitKeeps
<1>8. CASE ReapplyStash
  <2>1. SUFFICES ASSUME uncommitted = {} PROVE Everything \subseteq Everything'
    BY <1>8 DEF ReapplyStash
  <2>2. /\ pendingRollbackStash.work \subseteq kept' \cup uncommitted' \cup WorkOf(log)
        /\ kept \subseteq kept' /\ log' = log
    BY <1>8 DEF ReapplyStash
  <2>. QED BY <2>1, <2>2 DEF Everything, Satisfied, WorkOf
<1>9. CASE ClosePass
  <2>1. PICK flips \in SUBSET Flippable : CloseRows(flips)
    BY <1>9 DEF ClosePass
  <2>2. UNCHANGED <<kept, pendingRollbackStash>>
    BY <1>9 DEF ClosePass
  <2>3. CASE UNCHANGED <<log, uncommitted>>
    <3>. QED BY <2>2, <2>3, SameTreeKeeps DEF repository
  <2>4. CASE flips # {} /\ Committed(Min(flips))
    <3>1. flips \in SUBSET Phase /\ flips \in SUBSET Nat /\ flips # {}
      BY <2>4, PhasesAre DEF Flippable
    <3>2. Min(flips) \in flips
      BY <3>1, MinIn
    <3>3. Min(flips) \in 0 .. NumPhases
      <4>1. Min(flips) \in 1 .. NumPhases
        BY <3>1, <3>2, PhasesAre
      <4>. QED BY <4>1
    <3>. QED BY <1>1, <2>2, <2>4, <3>3, CommitKeeps
  <2>. QED BY <2>1, <2>3, <2>4 DEF CloseRows
<1>10. CASE RemoveWorktree
  BY <1>10 DEF RemoveWorktree
<1>. QED BY <1>2, <1>3, <1>4, <1>5, <1>6, <1>7, <1>8, <1>9, <1>10 DEF PhaseNext, Stage

(* No step loses what an attempt wrote: the tail's stash, the roll-back,    *)
(* the close and a restart only move it, as long as the worktree exists and *)
(* no stash is in conflict over a tree left uncommitted                     *)
(* (checkpoint-rollback.ts:213).                                            *)
THEOREM Saved == PhaseSpec => NothingLost
<1>1. PhaseInv /\ [PhaseNext]_phaseVars =>
        [\/ gone'
         \/ step = "reapply" /\ uncommitted # {}
         \/ Everything \subseteq Everything']_phaseVars
  BY StepLosesNothing
<1>. QED BY <1>1, PhaseInvariant, PTL DEF PhaseSpec, NothingLost
-----------------------------------------------------------------------------
(* The convergence loop winds down: what every step lowers.  It counts the  *)
(* mishaps to come, the calls left, whether a replan can still be asked     *)
(* for, and, within a pass, how far the walk is from its close.             *)

StepRank(s, a, calls) ==
  CASE s = "ended" -> 0
    [] s = "loop" -> IF calls = 0 THEN 1 ELSE 4 * NumPhases + 7
    [] s = "close" -> 2
    [] s = "reapply" -> 3 + 4 * (NumPhases + 1 - a)
    [] s = "attempts" -> 4 + 4 * (NumPhases + 1 - a)
    [] s = "enter" -> 5 + 4 * (NumPhases + 1 - a)
    [] OTHER -> 6 + 4 * (NumPhases + 1 - a)

CallsAhead == (MaxMishaps - mishaps) * (SpawnBudget + 1) + callsLeft
PassesLeft ==
  (CallsAhead * 2 + (IF replanPending THEN 0 ELSE 1)) * (4 * NumPhases + 8) + StepRank(step, at, callsLeft)

(* Every step but those taken at the head of a loop whose worktree is gone  *)
(* lowers a natural number.                                                 *)
LoopWindsDown ==
  /\ [](PassesLeft \in Nat)
  /\ [][(step = "loop" /\ gone) \/ PassesLeft' < PassesLeft]_phaseVars

(* What a step makes of the numbers: a mishap happens, a call is made, a    *)
(* replan is asked for, or the walk goes on.                                *)
GoesOn ==
  \/ mishaps' = mishaps + 1 
  \/ mishaps' = mishaps /\ callsLeft' < callsLeft
  \/ mishaps' = mishaps /\ callsLeft' = callsLeft /\ replanPending = FALSE /\ replanPending' = TRUE
  \/ /\ mishaps' = mishaps /\ callsLeft' = callsLeft /\ replanPending' = replanPending
     /\ StepRank(step', at', callsLeft) < StepRank(step, at, callsLeft)

Numbered(s, a, calls, m, r) ==
  /\ s \in {"loop", "walk", "enter", "attempts", "reapply", "close", "ended"}
  /\ a \in 1 .. NumPhases + 1 /\ calls \in 0 .. SpawnBudget /\ m \in 0 .. MaxMishaps /\ r \in BOOLEAN

LEMMA NumberedNow == 
  /\ PhaseTypeOK => Numbered(step, at, callsLeft, mishaps, replanPending)
  /\ PhaseTypeOK' => Numbered(step', at', callsLeft', mishaps', replanPending')
BY TypeInParts DEF PassTyped, FlagsTyped, Numbered

LEMMA StepRanked ==
  ASSUME NEW s, NEW a, NEW c, NEW m, NEW r, Numbered(s, a, c, m, r)
  PROVE  StepRank(s, a, c) \in 0 .. 4 * NumPhases + 7
<1>1. NumPhases \in Nat /\ a \in Nat /\ NumPhases + 1 - a \in 0 .. NumPhases
  BY Bounds DEF Numbered
<1>. QED BY <1>1 DEF StepRank

LEMMA PassesCount ==
  ASSUME PhaseTypeOK
  PROVE  PassesLeft \in Nat
<1>1. StepRank(step, at, callsLeft) \in Nat
  BY NumberedNow, StepRanked, Bounds
<1>2. callsLeft \in Nat /\ MaxMishaps - mishaps \in Nat /\ SpawnBudget \in Nat /\ NumPhases \in Nat
  BY NumberedNow, Bounds DEF Numbered
<1>3. CallsAhead \in Nat
  <2>. DEFINE n == MaxMishaps - mishaps
  <2>1. n \in Nat
    BY <1>2
  <2>. HIDE DEF n
  <2>2. n * (SpawnBudget + 1) + callsLeft \in Nat
    BY <1>2, <2>1
  <2>. QED BY <2>2 DEF CallsAhead, n
<1>. QED BY <1>1, <1>2, <1>3 DEF PassesLeft

LEMMA GoingOnCounts ==
  ASSUME PhaseTypeOK, PhaseTypeOK', GoesOn
  PROVE  PassesLeft' < PassesLeft
<1>. DEFINE a == MaxMishaps - mishaps
            c == MaxMishaps - mishaps'
            u == CallsAhead
            v == c * (SpawnBudget + 1) + callsLeft'
            p == IF replanPending THEN 0 ELSE 1
            q == IF replanPending' THEN 0 ELSE 1
            x == StepRank(step, at, callsLeft)
            y == StepRank(step', at', callsLeft')
            k == 4 * NumPhases + 7
<1>1. /\ NumPhases \in Nat /\ SpawnBudget \in Nat /\ MaxMishaps \in Nat
      /\ Numbered(step, at, callsLeft, mishaps, replanPending)
      /\ Numbered(step', at', callsLeft', mishaps', replanPending')
  BY Bounds, NumberedNow
<1>2. /\ a \in Nat /\ c \in Nat /\ callsLeft \in 0 .. SpawnBudget /\ callsLeft' \in 0 .. SpawnBudget
      /\ p \in {0, 1} /\ q \in {0, 1} /\ mishaps \in Nat /\ mishaps' \in Nat
  <2>1. /\ callsLeft \in 0 .. SpawnBudget /\ callsLeft' \in 0 .. SpawnBudget
        /\ mishaps \in 0 .. MaxMishaps /\ mishaps' \in 0 .. MaxMishaps
    BY ONLY <1>1, Zenon DEF Numbered
  <2>2. MaxMishaps \in Nat
    BY <1>1
  <2>3. a \in Nat /\ c \in Nat /\ mishaps \in Nat /\ mishaps' \in Nat
    <3>1. \A m \in Nat : \A n \in 0 .. m : m - n \in Nat /\ n \in Nat
      OBVIOUS
    <3>. QED BY ONLY <2>1, <2>2, <3>1, Zenon
  <2>4. p \in {0, 1} /\ q \in {0, 1}
    OBVIOUS
  <2>. QED BY <2>1, <2>3, <2>4
<1>3. x \in 0 .. k /\ y \in 0 .. k /\ k \in Nat
  <2>1. StepRank(step, at, callsLeft) \in 0 .. 4 * NumPhases + 7 /\ StepRank(step', at', callsLeft') \in 0 .. 4 * NumPhases + 7
    BY ONLY <1>1, StepRanked, Zenon
  <2>. QED BY <1>1, <2>1
<1>4. \/ c < a \/ (c = a /\ callsLeft' < callsLeft)
      \/ c = a /\ callsLeft' = callsLeft /\ (q < p \/ (q = p /\ y < x))
  <2>. HIDE DEF x, y
  <2>1. CASE mishaps' = mishaps + 1
    BY <1>1, <1>2, <2>1
  <2>2. CASE mishaps' = mishaps /\ callsLeft' < callsLeft
    BY <2>2
  <2>3. CASE mishaps' = mishaps /\ callsLeft' = callsLeft /\ replanPending = FALSE /\ replanPending' = TRUE
    BY <2>3
  <2>4. CASE /\ mishaps' = mishaps /\ callsLeft' = callsLeft /\ replanPending' = replanPending
             /\ StepRank(step', at', callsLeft) < StepRank(step, at, callsLeft)
    BY <2>4 DEF x, y
  <2>. QED BY <2>1, <2>2, <2>3, <2>4 DEF GoesOn
<1>5. /\ u \in Nat /\ v \in Nat
      /\ v < u \/ (v = u /\ (q < p \/ (q = p /\ y < x)))
  <2>. HIDE DEF a, c, p, q, x, y
  <2>1. u = a * (SpawnBudget + 1) + callsLeft
    BY DEF CallsAhead, a
  <2>. HIDE DEF u
  <2>2. u \in Nat /\ v \in Nat
    <3>1. \A i, j, l \in Nat : i * (j + 1) + l \in Nat
      OBVIOUS
    <3>2. callsLeft \in Nat /\ callsLeft' \in Nat
      BY <1>1, <1>2
    <3>. QED BY ONLY <1>1, <1>2, <2>1, <3>1, <3>2, Zenon DEF v
  <2>3. CASE c < a \/ (c = a /\ callsLeft' < callsLeft)
    <3>1. v < a * (SpawnBudget + 1) + callsLeft
      BY ONLY <1>1, <1>2, <2>3, Weighed, Zenon
    <3>. QED BY <2>1, <2>2, <3>1
  <2>4. CASE c = a /\ callsLeft' = callsLeft /\ (q < p \/ (q = p /\ y < x))
    BY <2>1, <2>2, <2>4
  <2>. QED BY <1>4, <2>2, <2>3, <2>4
<1>. HIDE DEF a, c, u, v, p, q, x, y
<1>6. u * 2 + p \in Nat /\ v * 2 + q \in Nat /\ (v * 2 + q < u * 2 + p \/ (v * 2 + q = u * 2 + p /\ y < x))
  BY <1>2, <1>5
<1>. HIDE DEF k
<1>7. (v * 2 + q) * (k + 1) + y < (u * 2 + p) * (k + 1) + x
  BY ONLY <1>3, <1>6, Weighed, Zenon
<1>8. k + 1 = 4 * NumPhases + 8
  BY <1>1 DEF k
<1>9. PassesLeft = (u * 2 + p) * (k + 1) + x
  BY <1>8 DEF PassesLeft, u, p, x
<1>10. PassesLeft' = (v * 2 + q) * (k + 1) + y
  BY <1>8 DEF PassesLeft, CallsAhead, v, c, q, y
<1>. QED BY <1>7, <1>9, <1>10

LEMMA GoingOnStep ==
  ASSUME PhaseInv, PhaseNext, ~(step = "loop" /\ gone)
  PROVE  GoesOn
<1>0. /\ NumPhases \in Nat /\ at \in Nat /\ callsLeft \in Nat /\ mishaps \in Nat /\ replanPending \in BOOLEAN
      /\ Numbered(step, at, callsLeft, mishaps, replanPending)
  BY Bounds, NumberedNow DEF Numbered, PhaseInv
<1>00. step \in {"enter", "attempts", "reapply"} => at \in 1 .. NumPhases
  BY TypeInParts, PhasesAre DEF PhaseInv, PassTyped
<1>. USE DEF StepRank
<1>. DEFINE Further == /\ mishaps' = mishaps /\ callsLeft' = callsLeft /\ replanPending' = replanPending
                       /\ StepRank(step', at', callsLeft) < StepRank(step, at, callsLeft)
<1>1. CASE InstructionsChange \/ RemoveWorktree \/ Restart
  BY <1>1 DEF InstructionsChange, RemoveWorktree, Restart, Mishap, GoesOn
<1>2. CASE LeaveLoop
  <2>1. Further
    BY <1>0, <1>2 DEF LeaveLoop, outside
  <2>. QED BY <2>1 DEF GoesOn
<1>3. ~FindWorktreeGone
  BY DEF FindWorktreeGone
<1>4. CASE PlanInfeasible
  <2>1. mishaps' = mishaps /\ callsLeft' = callsLeft /\ replanPending = FALSE /\ replanPending' = TRUE
    BY <1>0, <1>4 DEF PlanInfeasible, EarlyResult, shouldIterate
  <2>. QED BY <2>1 DEF GoesOn
<1>5. CASE EnterPass
  <2>1. step = "loop" /\ callsLeft > 0 /\ step' = "walk" /\ at' = 1 /\ UNCHANGED outside
    BY <1>5 DEF EnterPass, shouldIterate, Budgeted
  <2>2. Further
    BY <1>0, <2>1 DEF outside
  <2>. QED BY <2>2 DEF GoesOn
<1>6. CASE DeferToReplan \/ FuseAtBoundary \/ PhasesDone
  <2>1. step = "walk" /\ step' = "close" /\ UNCHANGED outside
    BY <1>6 DEF DeferToReplan, FuseAtBoundary, PhasesDone, Walking
  <2>2. Further
    BY <1>0, <2>1 DEF outside, Numbered
  <2>. QED BY <2>2 DEF GoesOn
<1>7. CASE SkipGreen \/ SkipHopeless
  <2>1. step = "walk" /\ step' = "walk" /\ at' = at + 1 /\ UNCHANGED outside
    BY <1>7 DEF SkipGreen, SkipHopeless, Walking
  <2>2. Further
    BY <1>0, <2>1 DEF outside
  <2>. QED BY <2>2 DEF GoesOn
<1>8. CASE EnterPhase \/ RollBack
  <2>1. step = "walk" /\ step' = "enter" /\ at' = at /\ UNCHANGED outside
    BY <1>8 DEF EnterPhase, RollBack, Reached, Walking
  <2>2. Further
    BY <1>0, <2>1 DEF outside
  <2>. QED BY <2>2 DEF GoesOn
<1>9. CASE RollBackSkipped
  <2>1. /\ step = "walk" /\ step' = "enter" /\ at' = at /\ callsLeft' = callsLeft /\ replanPending' = replanPending
        /\ mishaps' = mishaps \/ mishaps' = mishaps + 1
    BY <1>9 DEF RollBackSkipped, GitFails, Mishap, Reached, Walking
  <2>. QED BY <1>0, <2>1 DEF GoesOn
<1>10. CASE EnterSatisfied
  <2>1. step = "enter" /\ step' = "walk" /\ at' = at + 1 /\ UNCHANGED outside
    BY <1>10 DEF EnterSatisfied
  <2>2. Further
    BY <1>0, <2>1 DEF outside
  <2>. QED BY <2>2 DEF GoesOn
<1>11. CASE Attempts
  <2>1. mishaps' = mishaps /\ callsLeft > 0 /\ callsLeft' = callsLeft - 1
    BY <1>11 DEF Attempts, Budgeted
  <2>. QED BY <1>0, <2>1 DEF GoesOn
<1>12. ASSUME NEW why \in Stops, TailPartial(why) PROVE GoesOn
  <2>1. /\ step \in {"enter", "attempts"} /\ callsLeft' = callsLeft
        /\ mishaps' = mishaps \/ mishaps' = mishaps + 1
        /\ replanPending' = (replanPending \/ why = "replan")
    BY <1>12 DEF TailPartial, Preserve, GitFails, Mishap
  <2>2. (step' = "close" /\ at' = at) \/ (step' = "walk" /\ at' = at + 1)
    BY <1>12 DEF TailPartial
  <2>3. StepRank(step', at', callsLeft) < StepRank(step, at, callsLeft)
    BY ONLY <1>0, <1>00, <2>1, <2>2 DEF StepRank
  <2>. QED BY <1>0, <2>1, <2>3 DEF GoesOn
<1>13. CASE TailGreen
  <2>1. /\ step = "attempts" /\ replanPending' = replanPending
        /\ (step' = "walk" /\ at' = at + 1) \/ (step' = "reapply" /\ at' = at)
    BY <1>13 DEF TailGreen, GreenPossible, StampGreen, Reapply
  <2>2. /\ mishaps' = mishaps \/ mishaps' = mishaps + 1
        /\ callsLeft' = callsLeft \/ callsLeft' < callsLeft
    <3>1. Spend(1) <= callsLeft
      BY <1>0 DEF Spend
    <3>. QED BY <1>0, <1>13, <3>1 DEF TailGreen, Committed, GitFails, Mishap, Spend, Budgeted
  <2>3. StepRank(step', at', callsLeft) < StepRank(step, at, callsLeft)
    BY ONLY <1>0, <1>00, <2>1 DEF StepRank
  <2>. QED BY <2>1, <2>2, <2>3 DEF GoesOn
<1>14. CASE ReapplyStash
  <2>1. step = "reapply" /\ step' = "walk" /\ at' = at + 1 /\ UNCHANGED outside
    BY <1>14 DEF ReapplyStash
  <2>2. Further
    BY <1>0, <1>00, <2>1 DEF outside
  <2>. QED BY <2>2 DEF GoesOn
<1>15. CASE ClosePass
  <2>1. step = "close" /\ step' = "loop" /\ at' = 1 /\ callsLeft' = Spend(1) /\ replanPending' = replanPending
    BY <1>15 DEF ClosePass, LeavePass
  <2>2. mishaps' = mishaps \/ mishaps' = mishaps + 1
    <3>1. PICK flips \in SUBSET Flippable : CloseRows(flips)
      BY <1>15 DEF ClosePass
    <3>. QED BY <3>1 DEF CloseRows, Committed, GitFails, Mishap
  <2>3. callsLeft = 0 \/ callsLeft' < callsLeft
    BY <1>0, <2>1 DEF Spend
  <2>4. callsLeft = 0 => callsLeft' = 0 /\ StepRank(step', at', callsLeft) < StepRank(step, at, callsLeft)
    BY <1>0, <2>1 DEF Spend
  <2>. QED BY <1>0, <2>1, <2>2, <2>3, <2>4 DEF GoesOn
<1>. QED BY <1>1, <1>2, <1>3, <1>4, <1>5, <1>6, <1>7, <1>8, <1>9, <1>10, <1>11, <1>12, <1>13, <1>14, <1>15
         DEF PhaseNext, Stage

(* For any number of phases, calls and mishaps the convergence loop goes    *)
(* round only so often, unless its worktree is gone.                        *)
THEOREM LoopWinding == PhaseSpec => LoopWindsDown
<1>1. PhaseInv => PassesLeft \in Nat
  BY PassesCount DEF PhaseInv
<1>2. PhaseInv /\ PhaseInv' /\ [PhaseNext]_phaseVars => [(step = "loop" /\ gone) \/ PassesLeft' < PassesLeft]_phaseVars
  <2>. SUFFICES ASSUME PhaseInv, PhaseInv', PhaseNext, ~(step = "loop" /\ gone) PROVE PassesLeft' < PassesLeft
    OBVIOUS
  <2>. QED BY GoingOnStep, GoingOnCounts DEF PhaseInv
<1>. QED BY <1>1, <1>2, PhaseInvariant, PTL DEF PhaseSpec, LoopWindsDown
=============================================================================
