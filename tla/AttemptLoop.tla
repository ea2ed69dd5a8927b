---------------------------- MODULE AttemptLoop ----------------------------
(***************************************************************************)
(* The attempts of one implementation phase (src/src/stages/implementation/*)
(* stage.ts from 363 to 1309 and the modules it calls): the RED loop that  *)
(* authors failing tests, the reviewer that reads them while the           *)
(* implementer works, the gates, and the ladders that decide what a failed *)
(* attempt leads to.                                                       *)
(*                                                                         *)
(* The phase has one test file, seen as a version number: 0 when the file  *)
(* is not there, else a version of its text.  Wall-clock limits, gate      *)
(* results, what an agent does and what a human answers are               *)
(* nondeterministic; every counter and every early exit is the code's.     *)
(***************************************************************************)
EXTENDS Naturals, FiniteSets

CONSTANTS
  maxPhaseAttempts, MAX_RED_RETRIES, MAX_RED_ENV_RESTARTS, MAX_RED_JUDGE_ROUTES,
  MAX_PARALLEL_REVIEW_REJECTS, MAX_CHALLENGE_REAUTHORS, faultRecurrenceLimit,
  Contracts,        \* SUBSET BOOLEAN: whether the phase's contract asks for tests
  MaxAgents,        \* agent calls the run has left when the phase begins
  MaxJudgeCalls     \* judge calls the run has left

ASSUME AttemptAssumption ==
  /\ {maxPhaseAttempts, MAX_RED_RETRIES, MAX_RED_JUDGE_ROUTES, faultRecurrenceLimit}
       \subseteq Nat \ {0}
  /\ {MAX_RED_ENV_RESTARTS, MAX_PARALLEL_REVIEW_REJECTS, MAX_CHALLENGE_REAUTHORS,
      MaxAgents, MaxJudgeCalls} \subseteq Nat
  /\ Contracts \subseteq BOOLEAN

Version == 0 .. 4
None == "none"
NoRed == [status |-> None, suite |-> 0]

Rejected == {"polluted", "weakened", "coverage", "weak", "broken"}
RedStatus == Rejected \cup {"red", "satisfied", "unknown"}
FaultClass == {"product", "environment", "unclassified"}

VARIABLES
  pc, attempt, stop, outcome,
  \* the RED branch of an attempt, fresh each time it is entered
  ev, failClosed, retries, tried, routes, envRestarts,
  testWasDirty,   \* the test file was already dirty when the branch began
  \* the tests
  disk, acceptedRed, snapshot, inFlight,
  \* the phase
  requiresTests, defects, plateau, fault, shape, overruled,
  violations, rejects, strikes, reauthors, failedBefore, streak, assist, discovered,
  startDirt,      \* what was uncommitted in the tree when the phase began
  \* the run
  regateUsed, flakeUsed, handoffs, replan, judge, budget

loop == <<pc, attempt, stop, outcome>>
red == <<ev, failClosed, retries, tried, routes, envRestarts, testWasDirty>>
tests == <<disk, acceptedRed, snapshot, inFlight>>
failure == <<defects, plateau, fault, shape, overruled>>
counts == <<violations, rejects, strikes, reauthors, failedBefore, streak, assist, discovered>>
run == <<regateUsed, flakeUsed, handoffs, replan>>
purse == <<judge, budget>>
vars == <<loop, red, tests, requiresTests, failure, counts, startDirt, run, purse>>

NotCharged(n) == budget - 0 * n
Left(n) == IF budget > n THEN budget - n ELSE 0
Fresh == CHOOSE v \in Version \ {0, disk, acceptedRed.suite, snapshot} :
           \A w \in Version \ {0, disk, acceptedRed.suite, snapshot} : v <= w

(* The phase ends without green.  Only "no-progress" outlives a budget that *)
(* ran out.                                                                *)
Partial(why) ==
  /\ pc' = "done" /\ outcome' = "partial"
  /\ stop' = IF why # "no-progress" /\ budget' = 0 THEN "budget" ELSE why
  /\ UNCHANGED attempt

Green == pc' = "done" /\ outcome' = "green" /\ UNCHANGED <<attempt, stop>>
FatalAbort == pc' = "done" /\ outcome' = "abort" /\ UNCHANGED <<attempt, stop>>
Goto(label) == pc' = label /\ UNCHANGED <<attempt, stop, outcome>>
NextAttempt == pc' = "boundary" /\ attempt' = attempt + 1 /\ UNCHANGED <<stop, outcome>>
SameAttempt == pc' = "boundary" /\ UNCHANGED <<attempt, stop, outcome>>

(* The counters of a RED branch are declared in it: they end with it.      *)
FreshBranch ==
  /\ ev' = None /\ failClosed' = FALSE /\ retries' = 0 /\ tried' = FALSE
  /\ routes' = 0 /\ envRestarts' = 0 /\ testWasDirty' = FALSE

(* runJudge at one of its wiring points: the route taken, None when the    *)
(* verdict was discarded, escalated or never came.  A call that is retried *)
(* or corrected costs two.                                                 *)
JudgeSays(allowed, route) ==
  \E calls \in 0 .. 2 :
    /\ calls <= judge
    /\ route \in allowed \cup {"escalate-now"} => calls \in 1 .. budget
    /\ judge' = judge - calls /\ budget' = Left(calls)

Judged(allowed) == allowed \cup {"escalate-now", None}

(* a human, asked through options.escalate, may answer with guidance       *)
Guided == budget' > 0

(* triggerReplanForFindings routes, or declines (budget, pool, marker)      *)
ReplanRouted == ~replan /\ replan' = TRUE

----------------------------------------------------------------------------
Init ==
  /\ pc = "boundary" /\ attempt = 1 /\ stop = "failed" /\ outcome = "open"
  /\ ev = None /\ failClosed = FALSE /\ retries = 0 /\ tried = FALSE
  /\ routes = 0 /\ envRestarts = 0 /\ testWasDirty = FALSE
  /\ disk = 0 /\ acceptedRed = NoRed /\ snapshot = 0 /\ inFlight = FALSE
  /\ requiresTests \in Contracts
  /\ defects = FALSE /\ plateau = FALSE /\ fault = "product" /\ shape = None
  /\ overruled = FALSE
  /\ violations = 0 /\ rejects = 0 /\ strikes \in {0, 1} /\ reauthors = 0
  /\ failedBefore = FALSE /\ streak = [class |-> None, count |-> 0]
  /\ assist \in {"idle", "armed"} /\ discovered = FALSE
  /\ startDirt \in {None, "tree"}
  /\ regateUsed = FALSE /\ flakeUsed = FALSE /\ handoffs \in {0, 1}
  /\ replan = FALSE
  /\ judge = MaxJudgeCalls /\ budget = MaxAgents

----------------------------------------------------------------------------
(* The boundary before an attempt.                                         *)

AtBoundary == pc = "boundary" /\ budget > 0

OutOfBudget ==
  /\ pc = "boundary" /\ budget = 0
  /\ UNCHANGED <<purse, red, tests, requiresTests, failure, counts, startDirt, run>>
  /\ Partial(stop)

AttemptCap ==
  /\ AtBoundary /\ attempt > maxPhaseAttempts
  /\ UNCHANGED <<purse, red, tests, requiresTests, failure, counts, startDirt, run>>
  /\ Partial("phase-attempt-cap")

Fenced ==
  /\ AtBoundary /\ attempt <= maxPhaseAttempts
  /\ UNCHANGED <<purse, red, tests, requiresTests, failure, counts, startDirt, run>>
  /\ \/ attempt > 1 /\ Partial("phase-wall")
     \/ Partial("wall-fuse")
     \/ Partial("environment-blocked")  \* the worktree was removed

StartAttempt ==
  /\ AtBoundary /\ attempt <= maxPhaseAttempts
  /\ inFlight' = FALSE
  /\ defects' = FALSE /\ plateau' = FALSE /\ fault' = "product" /\ shape' = None
  /\ overruled' = FALSE
  /\ IF acceptedRed # NoRed
     THEN Goto("implement") /\ UNCHANGED red
     ELSE /\ Goto("tdd")
          /\ testWasDirty' = (disk # 0)
          /\ UNCHANGED <<ev, failClosed, retries, tried, routes, envRestarts>>
  /\ UNCHANGED <<disk, acceptedRed, snapshot, requiresTests, counts, startDirt, run, purse>>

----------------------------------------------------------------------------
(* RED: the TDD agent and the oracle.                                      *)

(* What one try shows: whether the agent died, whether it named test       *)
(* files, what the oracle saw, the first flaw a later check finds, and     *)
(* whether the deliverables are met already.                               *)
Try == {o \in [died : BOOLEAN, named : BOOLEAN, oracle : {"red", "green", "broken", "unknown"},
               flaw : {None, "polluted", "weakened", "uncovered", "hollow"},
               met : BOOLEAN] :
          /\ o.died => ~o.named
          /\ ~o.named => o.oracle = "unknown"}

Classified(o) ==
  CASE o.flaw = "polluted" -> "polluted"
    [] o.flaw # "polluted" /\ o.oracle \in {"red", "broken", "unknown"} -> o.oracle
    [] o.flaw # "polluted" /\ o.oracle = "green" -> IF o.met THEN "satisfied" ELSE "weak"

(* a dead agent, or a contract that asks for tests, turns "cannot tell"    *)
(* into a failure                                                          *)
FailsOpen(o) == Classified(o) = "unknown" /\ o.died
FailsClosed(o) == Classified(o) = "unknown" /\ (requiresTests \/ o.died)

(* Classification, then the no-edit completion, scenario coverage, the     *)
(* assertion ratchet and the hollow-test guard, in the code's order        *)
Evidence(o) ==
  LET landed == IF o.died /\ o.met THEN "satisfied" ELSE Classified(o)
      covered == IF landed = "red" /\ o.flaw = "uncovered" THEN "coverage" ELSE landed
      kept == IF /\ o.flaw = "weakened"
                 /\ covered \in {"red", "satisfied"} \/ (covered = "unknown" /\ ~FailsClosed(o))
              THEN "weakened" ELSE covered
  IN IF kept = "red" /\ o.flaw = "hollow" THEN "weak" ELSE kept

RetryHint(o) ==
  \/ o.died
  \/ Evidence(o) \in Rejected
  \/ Evidence(o) = "unknown" /\ FailsClosed(o)

ReviewableEarly(o) == o.oracle = "red" /\ violations < 2
Reviewable(o) == ~RetryHint(o) /\ Evidence(o) = "red" /\ violations < 2

TryRed ==
  /\ pc = "tdd" /\ budget > 0
  /\ \E o \in Try :
       LET discover == FailsClosed(o) /\ ~discovered IN
       /\ ev' = Evidence(o) /\ failClosed' = FailsClosed(o)
       /\ disk' \in {disk, Fresh} /\ (o.named => disk' # 0)
       /\ discovered' = (discovered \/ discover)
       /\ inFlight' = Reviewable(o)
       /\ budget' = Left(1 + (IF discover THEN 1 ELSE 0) + (IF Reviewable(o) THEN 1 ELSE 0))
       /\ Goto(IF RetryHint(o) /\ Evidence(o) # "satisfied" THEN "ladder" ELSE "accept")
  /\ UNCHANGED <<retries, tried, routes, envRestarts, testWasDirty, acceptedRed, snapshot,
                 requiresTests, failure, violations, rejects, strikes, reauthors,
                 failedBefore, streak, assist, startDirt, run, judge>>

RedBudgetGone ==
  /\ pc = "tdd" /\ budget = 0
  /\ Goto("accept")
  /\ UNCHANGED <<red, tests, requiresTests, failure, counts, startDirt, run, purse>>

(* the TDD agent or the implementer fails in a way no retry can help       *)
AgentFatal ==
  /\ pc \in {"tdd", "implement"} /\ budget > 0
  /\ FatalAbort /\ budget' = Left(1)
  /\ UNCHANGED <<red, tests, requiresTests, failure, counts, startDirt, run, judge>>

(* git restores what the branch changed; a file dirty before it stays      *)
Unaccepted == IF testWasDirty THEN disk ELSE 0

----------------------------------------------------------------------------
(* The RED retry ladder and its judge.                                     *)

(* the tries are only compared with their cap *)
OneMoreTry == IF retries < MAX_RED_RETRIES THEN retries + 1 ELSE retries

Recurs == tried \/ retries + 1 >= MAX_RED_RETRIES
MustRecur == retries + 1 >= MAX_RED_RETRIES

RetryRed ==
  /\ pc = "ladder" /\ ~MustRecur
  /\ disk' = IF ev \in {"weak", "polluted"} THEN Unaccepted ELSE disk
  /\ retries' = OneMoreTry /\ tried' = TRUE
  /\ Goto("tdd")
  /\ UNCHANGED <<ev, failClosed, routes, envRestarts, testWasDirty, acceptedRed, snapshot,
                 inFlight, requiresTests, failure, counts, startDirt, run, purse>>

WeakeningHandoff ==
  /\ pc = "ladder" /\ Recurs /\ ev = "weakened"
  /\ ReplanRouted
  /\ tried' = TRUE
  /\ pc' = "accept" /\ stop' = "red-weakening" /\ UNCHANGED <<attempt, outcome>>
  /\ UNCHANGED <<ev, failClosed, retries, routes, envRestarts, testWasDirty, tests,
                 requiresTests, failure, counts, startDirt, regateUsed, flakeUsed, handoffs,
                 purse>>

RedRoutes ==
  IF routes >= MAX_RED_JUDGE_ROUTES THEN {"fix-environment", "allow-scaffold"}
  ELSE {"re-author-tests", "fix-environment", "replan-upstream", "allow-scaffold"}

EnvRestartAllowed == envRestarts < MAX_RED_ENV_RESTARTS

(* what a verdict (or, without a useful one, a human) makes of the branch  *)
RedRestart(why) ==
  /\ retries' = OneMoreTry /\ tried' = FALSE
  /\ pc' = "tdd" /\ stop' = why /\ UNCHANGED <<attempt, outcome>>
RedEnds(why) ==
  /\ UNCHANGED retries /\ tried' = TRUE
  /\ pc' = "accept" /\ stop' = why /\ UNCHANGED <<attempt, outcome>>

JudgeRed ==
  /\ pc = "ladder" /\ Recurs
  /\ \E route \in Judged(RedRoutes) :
       /\ JudgeSays(RedRoutes, route)
       /\ routes' = IF route = None THEN routes ELSE routes + 1
       /\ envRestarts' = IF route = "fix-environment" /\ EnvRestartAllowed
                          THEN envRestarts + 1 ELSE envRestarts
       /\ IF route = "replan-upstream" /\ ~replan THEN replan' \in BOOLEAN ELSE UNCHANGED replan
       /\ \/ route \in {"allow-scaffold", "re-author-tests"} /\ RedRestart(stop)
          \/ route = "fix-environment" /\ EnvRestartAllowed /\ RedRestart(stop)
          \/ route = "fix-environment" /\ ~EnvRestartAllowed /\ RedEnds("environment-blocked")
          \/ /\ route \in {"replan-upstream", "escalate-now", None}
             /\ replan' = replan /\ Guided
             /\ RedRestart("no-progress")
          \/ /\ route \in {"replan-upstream", "escalate-now", None}
             /\ RedEnds("no-progress")
  /\ UNCHANGED <<ev, failClosed, testWasDirty, tests, requiresTests, failure, counts,
                 startDirt, regateUsed, flakeUsed, handoffs>>

----------------------------------------------------------------------------
(* RED acceptance.                                                         *)

NoEvidence ==
  /\ pc = "accept" /\ (ev = None \/ stop = "red-weakening")
  /\ UNCHANGED <<purse, red, tests, requiresTests, failure, counts, startDirt, run>>
  /\ Partial(stop)

AlreadySatisfied ==
  /\ pc = "accept" /\ ev = "satisfied"
  /\ UNCHANGED <<purse, red, tests, requiresTests, failure, counts, startDirt, run>>
  /\ Green \/ Partial(stop) \/ Partial("already-satisfied-blocked")

NotConfirmed == ev \in Rejected \/ (ev = "unknown" /\ failClosed)

RejectRed ==
  /\ pc = "accept" /\ stop # "red-weakening" /\ NotConfirmed
  /\ disk' = Unaccepted
  /\ UNCHANGED <<purse, red, acceptedRed, snapshot, inFlight, requiresTests, failure, counts,
                 startDirt, run>>
  /\ Partial(IF stop \in {"no-progress", "environment-blocked"} THEN stop ELSE "failed")

(* A suite nobody saw failing is accepted when the contract asks for none; *)
(* only a confirmed one replaces the snapshot.                             *)
AcceptRed ==
  /\ pc = "accept" /\ ev \in {"red", "unknown"} /\ ~NotConfirmed
  /\ stop # "red-weakening"
  /\ acceptedRed' = [status |-> ev, suite |-> disk]
  /\ snapshot' = IF ev = "red" THEN disk ELSE snapshot
  /\ Goto("implement") /\ FreshBranch
  /\ UNCHANGED <<disk, inFlight, requiresTests, failure, counts, startDirt, run, purse>>

----------------------------------------------------------------------------
(* The implementer, the review join and the protection interval.           *)

(* An assist armed by the RED tries of an earlier pass or by the governor   *)
(* is asked for before the implementer, once in a phase.  Whatever becomes  *)
(* of that call, the phase goes on as it would have.                        *)
AssistCalls == IF assist = "armed" /\ budget > 0 THEN 1 ELSE 0
DispatchAssist ==
  assist' = IF assist # "armed" THEN assist ELSE IF budget > 0 THEN "used" ELSE "idle"

Implement ==
  /\ pc = "implement"
  /\ disk' \in IF budget = 0 THEN {disk} ELSE {disk, Fresh}
  /\ defects' \in IF budget = 0 THEN {FALSE} ELSE BOOLEAN
  /\ DispatchAssist
  /\ budget' = Left(1 + AssistCalls)
  /\ Goto(IF inFlight THEN "join" ELSE "protect")
  /\ UNCHANGED <<red, acceptedRed, snapshot, inFlight, requiresTests, plateau, fault, shape,
                 overruled, violations, rejects, strikes, reauthors, failedBefore, streak,
                 discovered, startDirt, run, judge>>

(* STRONG, WEAK, or no review at all: the work is kept                     *)
ReviewPasses ==
  /\ pc = "join" /\ inFlight' = FALSE
  /\ violations' \in {violations, violations + 1}
  /\ Goto("protect")
  /\ UNCHANGED <<red, disk, acceptedRed, snapshot, requiresTests, failure, rejects, strikes,
                 reauthors, failedBefore, streak, assist, discovered, startDirt, run, purse>>

(* discardGreenWork restores every dirty path but the tests                *)
Discarded == IF startDirt = "tree" THEN "lost" ELSE startDirt

TooManyRejects == rejects + 1 > MAX_PARALLEL_REVIEW_REJECTS

ReviewRejects ==
  /\ pc = "join" /\ inFlight' = FALSE
  /\ rejects' = rejects + 1
  /\ acceptedRed' = NoRed /\ snapshot' = 0
  /\ startDirt' = Discarded
  /\ UNCHANGED <<purse, red, disk, requiresTests, failure, violations, strikes, reauthors,
                 failedBefore, streak, assist, discovered, run>>
  /\ IF TooManyRejects THEN Partial("no-progress") ELSE NextAttempt

NoBreach ==
  /\ pc = "protect" /\ Goto("gates")
  /\ UNCHANGED <<red, tests, requiresTests, failure, counts, startDirt, run, purse>>

Excused(strike) == strike = 1

(* the first breach of a phase is undone and told about, and its attempt   *)
(* is given back; the next goes to the judge                               *)
Breach ==
  /\ pc = "protect"
  /\ UNCHANGED <<red, disk, snapshot, inFlight, requiresTests, failure, violations, rejects,
                 reauthors, streak, assist, discovered, startDirt, regateUsed, flakeUsed,
                 handoffs>>
  /\ \/ /\ Excused(strikes + 1)
        /\ strikes' = strikes + 1
        /\ SameAttempt
        /\ UNCHANGED <<acceptedRed, failedBefore, replan, purse>>
     \/ /\ ~Excused(strikes + 1)
        /\ \E route \in Judged({"replan-upstream", "challenge-test"}) :
             /\ JudgeSays({"replan-upstream", "challenge-test"}, route)
             /\ \/ /\ route = "challenge-test"
                   /\ strikes' = 0 /\ acceptedRed' = NoRed /\ failedBefore' = FALSE
                   /\ NextAttempt /\ UNCHANGED replan
                \/ /\ route # "challenge-test"
                   /\ strikes' = strikes + 1
                   /\ replan' \in IF route = "replan-upstream" THEN {replan, TRUE} ELSE {replan}
                   /\ UNCHANGED <<acceptedRed, failedBefore>>
                   /\ Partial("no-progress")

----------------------------------------------------------------------------
(* The gate suite and the GREEN boundary.                                  *)

(* "outside": only failures outside the declared scope, not excused        *)
Suite == [build : {"green", "own", "outside"}, baseline : {"regression", "preexisting", "unknown"},
          deliver : {"met", "unmet", "untested"}, scoped : BOOLEAN, oracle : BOOLEAN,
          covered : BOOLEAN]

Unnoticed == FALSE
Modified == acceptedRed # NoRed /\ snapshot # 0 /\ disk # snapshot

(* the accepted tests are as they were and, when they were seen failing,   *)
(* now pass                                                                *)
tddClean(s) == ~Modified /\ (acceptedRed.status = "red" => s.oracle)

ownScope(s) == s.deliver = "met" /\ s.scoped /\ tddClean(s)
Passes(s) == s.build = "green" /\ ownScope(s) /\ s.covered

GreenBoundary ==
  /\ pc = "gates"
  /\ \E s \in Suite : Passes(s)
  /\ Green
  /\ UNCHANGED <<red, tests, requiresTests, failure, counts, startDirt, run, purse>>

HandoffSpent == handoffs >= 1

(* The edited test belongs to an earlier partial phase: one declared       *)
(* handoff per run of the pipeline, and then the run aborts.               *)
DoorInTheFence ==
  /\ pc = "gates" /\ Modified /\ ~replan
  /\ disk' = snapshot
  /\ UNCHANGED <<purse, red, acceptedRed, snapshot, inFlight, requiresTests, failure, counts,
                 startDirt, regateUsed, flakeUsed>>
  /\ \/ /\ ~HandoffSpent /\ replan' = TRUE /\ handoffs' = handoffs + 1
        /\ Partial("declared-handoff")
     \/ FatalAbort /\ UNCHANGED <<replan, handoffs>>

classifyGateFault(s) ==
  IF s.build = "own" THEN "product"
  ELSE IF s.build = "outside" /\ s.baseline = "regression" /\ ownScope(s)
       THEN IF startDirt = "tree" THEN "environment" ELSE "product"
       ELSE "unclassified"

inheritedRedShape(s) == s.build = "outside" /\ ownScope(s)

(* how the inherited-red boundary attributes the failures                  *)
Attribution(s) ==
  IF ~inheritedRedShape(s) \/ s.baseline = "unknown" THEN None
  ELSE IF s.baseline = "preexisting" \/ startDirt = "tree" THEN "inherited" ELSE "own-leak"

GatesFail ==
  /\ pc = "gates"
  /\ \E s \in Suite :
       /\ ~Passes(s)
       /\ disk' = IF Modified THEN snapshot ELSE disk
       /\ fault' = classifyGateFault(s)
       /\ shape' = Attribution(s)
       /\ acceptedRed' = IF s.deliver = "untested" THEN NoRed ELSE acceptedRed
       /\ overruled' = FALSE
       /\ Goto(IF classifyGateFault(s) = "environment" THEN "blocked" ELSE "governor")
  /\ UNCHANGED <<red, snapshot, inFlight, requiresTests, defects, plateau, counts, startDirt,
                 run, purse>>

----------------------------------------------------------------------------
(* The environmental blocker.                                              *)

(* foreign dirt goes into a stash, once in a phase, and the gates run again *)
Regate ==
  /\ pc = "blocked" /\ ~regateUsed
  /\ startDirt' = "stashed" /\ regateUsed' = TRUE
  /\ UNCHANGED <<purse, red, tests, requiresTests, defects, plateau, counts, flakeUsed,
                 handoffs, replan>>
  /\ \/ Green /\ UNCHANGED <<fault, shape, overruled>>
     \/ /\ \E class \in {"product", "unclassified"} : fault' = class
        /\ overruled' = TRUE /\ shape' = shape
        /\ Goto("governor")

JudgeEnvironment ==
  /\ pc = "blocked"
  /\ \E route \in Judged({"fix-environment", "implementer-retry"}) :
       /\ JudgeSays({"fix-environment", "implementer-retry"}, route)
       /\ IF route = "implementer-retry"
          THEN fault' = "product" /\ overruled' = TRUE /\ Goto("governor")
          ELSE UNCHANGED <<fault, overruled>> /\ Partial("failed")
  /\ UNCHANGED <<red, tests, requiresTests, defects, plateau, shape, counts, startDirt, run>>

----------------------------------------------------------------------------
(* The governor: what a failed attempt leads to.                           *)

Challenged == acceptedRed # NoRed /\ defects /\ reauthors < MAX_CHALLENGE_REAUTHORS

Challenge ==
  /\ pc = "governor" /\ Challenged
  /\ reauthors' = reauthors + 1 /\ failedBefore' = FALSE /\ acceptedRed' = NoRed
  /\ NextAttempt
  /\ UNCHANGED <<red, disk, snapshot, inFlight, requiresTests, failure, violations, rejects,
                 strikes, streak, assist, discovered, startDirt, run, purse>>

NextStreak == [class |-> fault,
               count |-> IF streak.class = fault THEN streak.count + 1 ELSE 1]

(* a repeated failure or an empty change needs an earlier failure to       *)
(* compare with; a citation of another phase's tests does not              *)
Stuck(n) == n >= faultRecurrenceLimit

Govern ==
  /\ pc = "governor" /\ ~Challenged
  /\ streak' = NextStreak
  /\ assist' = IF NextStreak.count >= 2 /\ assist = "idle" THEN "armed" ELSE assist
  /\ plateau' \in IF Stuck(NextStreak.count) THEN {TRUE} ELSE BOOLEAN
  /\ failedBefore' = TRUE
  /\ UNCHANGED <<purse, red, tests, requiresTests, defects, fault, shape, overruled,
                 violations, rejects, strikes, reauthors, discovered, startDirt, run>>
  /\ IF shape # None /\ ~replan /\ ~overruled
     THEN Goto("inherited")
     ELSE IF plateau' THEN Goto("valve") ELSE NextAttempt

----------------------------------------------------------------------------
(* Failures that are not the phase's own.                                  *)

AfterLadder == IF plateau THEN Goto("valve") ELSE NextAttempt

OwnLeak ==
  /\ pc = "inherited" /\ shape = "own-leak"
  /\ IF attempt < maxPhaseAttempts /\ budget > 0 THEN NextAttempt ELSE AfterLadder
  /\ UNCHANGED <<red, tests, requiresTests, failure, counts, startDirt, run, purse>>

FlakeGreen ==
  /\ pc = "inherited" /\ shape = "inherited" /\ ~flakeUsed
  /\ flakeUsed' = TRUE
  /\ Green
  /\ UNCHANGED <<red, tests, requiresTests, failure, counts, startDirt, regateUsed, handoffs,
                 replan, purse>>

Inherited ==
  /\ pc = "inherited" /\ shape = "inherited"
  /\ flakeUsed' = TRUE
  /\ UNCHANGED <<purse, red, tests, requiresTests, failure, counts, startDirt, regateUsed>>
  /\ \/ /\ ~HandoffSpent /\ replan' = TRUE /\ handoffs' = handoffs + 1
        /\ Partial("inherited-red")
     \/ FatalAbort /\ UNCHANGED <<replan, handoffs>>

----------------------------------------------------------------------------
(* The no-progress valve.                                                  *)

ValveRoutes == {"challenge-test", "re-author-tests", "continue"}

Reauthor == acceptedRed' = NoRed /\ failedBefore' = FALSE /\ NextAttempt

Valve ==
  /\ pc = "valve"
  /\ UNCHANGED <<red, disk, snapshot, inFlight, requiresTests, failure, violations, rejects,
                 strikes, streak, assist, discovered, startDirt, regateUsed, flakeUsed,
                 handoffs>>
  /\ \E route \in Judged(ValveRoutes \cup {"replan-upstream"}) :
       /\ JudgeSays(ValveRoutes \cup {"replan-upstream"}, route)
       /\ \/ /\ route = "challenge-test" /\ acceptedRed # NoRed
             /\ reauthors < MAX_CHALLENGE_REAUTHORS
             /\ reauthors' = reauthors + 1 /\ Reauthor /\ UNCHANGED replan
          \/ route = "re-author-tests" /\ Reauthor /\ UNCHANGED <<reauthors, replan>>
          \/ /\ route = "continue"
             /\ failedBefore' = FALSE /\ NextAttempt
             /\ UNCHANGED <<acceptedRed, reauthors, replan>>
          \/ /\ route \notin {"re-author-tests", "continue"} /\ Guided
             /\ Reauthor /\ UNCHANGED <<reauthors, replan>>
          \/ /\ route \notin {"re-author-tests", "continue"}
             /\ replan' \in IF route = "replan-upstream" THEN {replan, TRUE} ELSE {replan}
             /\ UNCHANGED <<acceptedRed, reauthors, failedBefore>>
             /\ Partial("no-progress")

Done == pc = "done" /\ UNCHANGED vars

(* The code's own structure: the RED loop and what its evidence leads to,   *)
(* the implementer's round, the gates, the ladder for inherited failures.   *)

RedLoop ==
  TryRed \/ RedBudgetGone \/ AgentFatal \/ RetryRed \/ WeakeningHandoff \/ JudgeRed
RedAcceptance == NoEvidence \/ AlreadySatisfied \/ RejectRed \/ AcceptRed
ImplementerRound == Implement \/ ReviewPasses \/ ReviewRejects
GateRound == GreenBoundary \/ DoorInTheFence \/ GatesFail
InheritedRedLadder == OwnLeak \/ FlakeGreen \/ Inherited

Next ==
  \/ OutOfBudget \/ AttemptCap \/ Fenced \/ StartAttempt
  \/ RedLoop \/ RedAcceptance
  \/ ImplementerRound \/ NoBreach \/ Breach
  \/ GateRound \/ Regate \/ JudgeEnvironment
  \/ Challenge \/ Govern \/ InheritedRedLadder \/ Valve
  \/ Done

Spec == Init /\ [][Next]_vars
FairSpec == Spec /\ WF_vars(Next)

----------------------------------------------------------------------------
(* Properties.                                                             *)

TypeOK ==
  /\ pc \in {"boundary", "tdd", "ladder", "accept", "implement", "join", "protect", "gates",
             "blocked", "governor", "inherited", "valve", "done"}
  /\ attempt \in 1 .. maxPhaseAttempts + 1
  /\ outcome \in {"open", "green", "partial", "abort"}
  /\ stop \in {"failed", "budget", "no-progress", "environment-blocked", "phase-attempt-cap",
               "phase-wall", "wall-fuse", "inherited-red", "declared-handoff",
               "red-weakening", "already-satisfied-blocked"}
  /\ ev \in RedStatus \cup {None}
  /\ acceptedRed \in [status : {"red", "unknown", None}, suite : Version]
  /\ {disk, snapshot} \subseteq Version
  /\ fault \in FaultClass
  /\ startDirt \in {None, "tree", "stashed", "lost"}
  /\ judge \in 0 .. MaxJudgeCalls /\ budget \in 0 .. MaxAgents

(* A phase goes green with the tests that were seen failing: what is on    *)
(* disk when it ends is the suite the RED oracle confirmed, whatever the   *)
(* implementer did to it and however often RED was authored anew.          *)
GreenKeepsTests ==
  outcome = "green" /\ acceptedRed.status = "red" =>
    disk = acceptedRed.suite /\ snapshot = acceptedRed.suite

(* A contract that asks for tests is never implemented against a suite     *)
(* nobody saw failing: RED fails closed on every path into the             *)
(* implementer, reused suites included.                                    *)
ConfirmedBeforeImplement ==
  pc \in {"implement", "join", "protect", "gates"} /\ requiresTests => acceptedRed.status = "red"

(* The reviewer that reads the tests while the implementer works has       *)
(* always been heard before a gate, another attempt or the end of the      *)
(* phase, unless the run aborts.                                           *)
ReviewIsJoined ==
  inFlight => pc \in {"accept", "implement", "join"} \/ outcome = "abort"

(* However the agents, the judge and the human answer, the phase ends: the *)
(* budget and the caps bound every way back.                               *)
Ends == <>(pc = "done")
=============================================================================
