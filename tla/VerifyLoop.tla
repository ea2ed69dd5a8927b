----------------------------- MODULE VerifyLoop -----------------------------
(***************************************************************************)
(* Verification convergence (src/src/stages/verify): review, build,        *)
(* integration tests and fixes, repeated until all the evidence is good,   *)
(* nothing can be done, or the same failures come back.                    *)
(*                                                                         *)
(* The source tree is a version number, raised by every edit of a fixer.   *)
(* Each piece of evidence carries the version it was produced from, which  *)
(* the code does not record: it is what the properties are about.  Agent   *)
(* calls go through the resume memo: after a crash the rows of the earlier *)
(* process answer calls with the same id and occurrence.                   *)
(***************************************************************************)
EXTENDS Naturals, Sequences, FiniteSets

CONSTANTS
  Reviewers,      \* the branches of reviewParallel
  Verdicts,       \* what a reviewer may conclude, a part of Verdict below
  Roles,          \* integration roles: api, ui
  MaxAgents,      \* options.maxAgents of one process
  MaxLives,       \* bound: processes, one more than the crashes
  MaxJumps,       \* inline route-back budget
  InfraLimit,     \* 3 in the code: infra-only rounds before the stop
  ChangedFixFloor \* VERIFICATION_STAGNATION_CHANGED_FIX_ATTEMPT_FLOOR

ASSUME VerifyAssumption ==
  /\ Reviewers # {} /\ IsFiniteSet(Reviewers) /\ IsFiniteSet(Roles)
  \* every agent call has an id of its own
  /\ Reviewers \cap Roles = {} /\ (Reviewers \cup Roles) \cap {"review", "integration"} = {}
  /\ {MaxAgents, MaxJumps} \subseteq Nat
  /\ {MaxLives, InfraLimit, ChangedFixFloor} \subseteq Nat \ {0}

None == "none"
Kinds == {"review", "integration"}

(* What a live reviewer may answer, as the merge and the triage see it.    *)
(* "approves" may come with a finding for a fixer, "notes", or with a      *)
(* deferred one, "comments".  "rejects" and "rewords" are the same defect  *)
(* with the same and with another fingerprint; "upstream" is another       *)
(* owner's, "human" everything else that is deferred.  "bare" rejects and  *)
(* leaves nothing: it has no finding, or only findings said to be resolved.*)
(* "dies" is an agent error, "throws" a failure of the task itself, such   *)
(* as a boundary violation.                                                *)
Approving == {"approves", "notes", "comments"}
Verdict == Approving \cup {"rejects", "rewords", "upstream", "human", "bare"}
Answer == Verdict \cup {"dies", "throws", "refused", "waiting"}

ASSUME VerdictAssumption == Verdicts \subseteq Verdict

VARIABLES
  pc, attempt,   \* attempt restarts at 1 when the node is entered again
  attempts,      \* length of __verificationAttempts, which it does not
  \* evidence
  answer,        \* this attempt's reviewers
  review,        \* state.review
  build,         \* state.buildGate
  integration,   \* state.integration
  \* stagnation
  lastItems, lastRecurring, infraOnly, lastFix,
  arms,          \* verificationReplayArms, fixed at its first use
  replan, jumps,
  \* the tree and the process
  tree, budget, life,
  rows,          \* the resume cache
  occ,           \* the memoizer's occurrence counters
  \* history
  unheard,       \* a reviewer's task failed in the last round
  replayed       \* whether the last two rounds used a recorded review

evidence == <<answer, review, build, integration>>
stagnation == <<lastItems, lastRecurring, infraOnly, lastFix>>
memo == <<rows, occ>>
route == <<replan, jumps>>
history == <<unheard, replayed>>
vars == <<pc, attempt, attempts, evidence, stagnation, arms, route, tree, budget, life, memo,
          history>>

Terminal == {"converged", "blocked", "stagnant", "exhausted", "inconclusive", "violated"}

Review == [approved : BOOLEAN, findings : SUBSET (Reviewers \X {"rejects", "rewords", "infra"}),
           deferred : SUBSET {"upstream", "human"}, silent : SUBSET Reviewers, tree : Nat]
Waiting == [said |-> "waiting", tree |-> 0]
Callers == Reviewers \cup Kinds \cup Roles
NoReview == [approved |-> FALSE, findings |-> {}, deferred |-> {}, silent |-> {}, tree |-> 0]
NoBuild == [pass |-> FALSE, ran |-> FALSE, tree |-> 0]
NotTested == [status |-> None, failing |-> {}, tree |-> 0]
NoFix == [kind |-> None, changed |-> FALSE]

----------------------------------------------------------------------------
(* Pure parts.                                                             *)

DeadIsSilent(r) == IF answer[r].said \in {"rejects", "rewords"} THEN {<<r, answer[r].said>>} ELSE {}

(* triageReviewFindings and mergeReviewVerdicts: findings of another owner *)
(* and of a human are deferred, but their verdict still counts, and so     *)
(* does a verdict that leaves no finding at all.                           *)
Blames(r) == CASE answer[r].said \in {"rejects", "rewords"} -> {<<r, answer[r].said>>}
               [] answer[r].said = "notes" -> {<<r, "rejects">>}
               [] answer[r].said = "dies" -> {<<r, "infra">>}
               [] OTHER -> {}
Defers(r) == CASE answer[r].said = "upstream" -> {"upstream"}
               [] answer[r].said \in {"human", "comments"} -> {"human"}
               [] OTHER -> {}
Merged ==
  [approved |-> \A r \in Reviewers : answer[r].said \in Approving,
   findings |-> UNION {Blames(r) : r \in Reviewers},
   deferred |-> UNION {Defers(r) : r \in Reviewers},
   silent |-> {r \in Reviewers : answer[r].said = "bare"},
   tree |-> CHOOSE t \in {answer[r].tree : r \in Reviewers} :
              \A r \in Reviewers : t <= answer[r].tree]

reviewApproved == review.approved
buildGreen == build.pass
buildErrors == build.ran /\ ~build.pass

(* currentVerificationFailureItems                                         *)
Items ==
  review.findings
    \cup (IF buildErrors THEN {<<"build", "error">>} ELSE {})
    \cup {<<"test", role>> : role \in integration.failing}
    \cup (IF integration.status \notin {None, "passed", "not-applicable"} /\ integration.failing = {}
          THEN {<<"status", integration.status>>} ELSE {})

Infra == Reviewers \X {"infra"}

(* integrationOutcome over the roles that were expected                    *)
Outcome(roles, static) ==
  CASE DOMAIN roles = {} -> "not-applicable"
    [] DOMAIN roles # {} /\ \A r \in DOMAIN roles : roles[r] = "passed" -> "passed"
    [] \E r \in DOMAIN roles : roles[r] = "failed" -> "failed"
    [] OTHER -> IF \E r \in DOMAIN roles : roles[r] = "unavailable"
                THEN IF static THEN "skipped-static" ELSE "unavailable"
                ELSE "unknown"

Least(numbers) == CHOOSE n \in numbers : \A m \in numbers : n <= m
Greatest(numbers) == CHOOSE n \in numbers : \A m \in numbers : m <= n

Row(c, said) == [n |-> occ[c] + 1, said |-> said, tree |-> IF c \in Kinds THEN 0 ELSE tree]

(* The memoizer: the row that answers a caller's next call                 *)
Hit(c) == {row \in rows[c] : row.n = occ[c] + 1}

(* countStageRounds: the highest occurrence on record                      *)
Recorded(r) == Greatest({0} \cup {row.n : row \in rows[r]})

(* Attempts up to this one are taken for replays of an earlier process     *)
ReplayArms == IF life = 1 THEN 0 ELSE Greatest({Recorded(r) : r \in Reviewers})
Arms == IF arms.set THEN arms.n ELSE ReplayArms
Replaying == attempts <= Arms

----------------------------------------------------------------------------
(* recordVerificationStagnation                                            *)

Common == Items \cap lastItems
Content == Common \ Infra
InfraRound == Common # {} /\ Content = {}
Floor == IF lastFix.changed THEN ChangedFixFloor ELSE 2
Shrinks ==
  lastFix.changed /\ lastRecurring # {} /\ Cardinality(Content) < Cardinality(lastRecurring)

Stagnant ==
  /\ ~Replaying
  /\ IF InfraRound THEN infraOnly + 1 >= InfraLimit
     ELSE lastFix # NoFix /\ Content # {} /\ attempt >= Floor /\ ~Shrinks

Remember ==
  IF Replaying THEN UNCHANGED <<lastItems, lastRecurring, infraOnly>>
  ELSE /\ lastItems' = Items
       /\ lastRecurring' = IF InfraRound THEN {} ELSE Content
       /\ infraOnly' = IF InfraRound THEN infraOnly + 1
                       ELSE IF Content # {} THEN 0 ELSE infraOnly

----------------------------------------------------------------------------
Enter ==
  /\ pc' = "attempt" /\ attempt' = 0 /\ lastItems' = {} /\ lastRecurring' = {}
  /\ lastFix' = NoFix

Init ==
  /\ pc = "attempt" /\ attempt = 0 /\ attempts = 0
  /\ answer = [r \in Reviewers |-> Waiting]
  /\ review = NoReview /\ build = NoBuild /\ integration = NotTested
  /\ lastItems = {} /\ lastRecurring = {} /\ infraOnly = 0 /\ lastFix = NoFix
  /\ arms = [set |-> FALSE, n |-> 0] /\ replan = FALSE /\ jumps = 0
  /\ tree = 0 /\ budget = MaxAgents /\ life = 1
  /\ rows = [c \in Callers |-> {}] /\ occ = [c \in Callers |-> 0]
  /\ unheard = FALSE /\ replayed = <<FALSE, FALSE>>

StartAttempt ==
  /\ pc = "attempt" /\ budget > 0
  /\ pc' = "reviewing" /\ attempt' = attempt + 1 /\ attempts' = attempts + 1
  /\ integration' = NotTested /\ replayed' = <<replayed[2], FALSE>>
  /\ UNCHANGED <<answer, review, build, stagnation, arms, route, tree, budget, life, memo, unheard>>

OutOfBudget ==
  /\ pc = "attempt" /\ budget = 0
  /\ pc' = "exhausted"
  /\ integration' = [NotTested EXCEPT !.status = "unknown"]
  /\ UNCHANGED <<attempt, attempts, answer, review, build, stagnation, arms, route, tree, budget,
                 life, memo, history>>

(* One branch of reviewParallel: a task refuses to start without budget;   *)
(* a recorded answer costs nothing and is of the tree it was given on      *)
Reviewer(r) ==
  /\ pc = "reviewing" /\ answer[r] = Waiting
  /\ IF budget = 0
     THEN /\ answer' = [answer EXCEPT ![r] = [said |-> "refused", tree |-> tree]]
          /\ UNCHANGED <<budget, memo, replayed>>
     ELSE /\ occ' = [occ EXCEPT ![r] = @ + 1]
          /\ \/ /\ Hit(r) # {}
                /\ \E row \in Hit(r) :
                     answer' = [answer EXCEPT ![r] = [said |-> row.said, tree |-> row.tree]]
                /\ replayed' = <<replayed[1], TRUE>>
                /\ UNCHANGED <<budget, rows>>
             \/ /\ Hit(r) = {}
                /\ \E said \in Verdicts \cup {"dies", "throws"} :
                     /\ answer' = [answer EXCEPT ![r] = [said |-> said, tree |-> tree]]
                     /\ rows' = IF said \in Verdicts
                                THEN [rows EXCEPT ![r] = @ \cup {Row(r, said)}] ELSE rows
                /\ budget' = budget - 1 /\ UNCHANGED replayed
  /\ UNCHANGED <<pc, attempt, attempts, review, build, integration, stagnation, arms, route, tree,
                 life, unheard>>

(* A branch that failed leaves state.review as the last round left it      *)
Failed == \E r \in Reviewers : answer[r].said \in {"throws", "refused"}

Join ==
  /\ pc = "reviewing" /\ \A r \in Reviewers : answer[r] # Waiting
  /\ review' = IF Failed THEN review ELSE Merged
  /\ unheard' = Failed
  /\ arms' = [set |-> TRUE, n |-> Arms]
  /\ pc' = IF Replaying /\ ~review'.approved THEN "attempt" ELSE "build"
  /\ answer' = [r \in Reviewers |-> Waiting]
  /\ UNCHANGED <<attempt, attempts, build, integration, stagnation, route, tree, budget,
                 life, memo, replayed>>

(* buildGateStep: a task too, its slot keeps the last result               *)
BuildGate ==
  /\ pc = "build"
  /\ \/ budget = 0 /\ UNCHANGED build
     \/ budget > 0 /\ \E pass \in BOOLEAN : build' = [pass |-> pass, ran |-> TRUE, tree |-> tree]
  /\ pc' = IF reviewApproved /\ build'.pass THEN "tests" ELSE "boundary"
  /\ UNCHANGED <<attempt, attempts, answer, review, integration, stagnation, arms, route, tree,
                 budget, life, memo, history>>

----------------------------------------------------------------------------
(* Review or build said no.                                                *)

NothingToFix ==
  ~reviewApproved /\ review.findings = {} /\ ~buildErrors

(* No fixer can act: an upstream owner is re-entered, or a human decides   *)
DeadEnd ==
  /\ pc = "boundary" /\ NothingToFix
  /\ IF Replaying THEN pc' = "attempt" /\ UNCHANGED jumps
     ELSE IF review.deferred \cap {"upstream"} # {} /\ jumps < MaxJumps
     THEN pc' = "routed" /\ jumps' = jumps + 1
     ELSE pc' = "blocked" /\ UNCHANGED jumps
  /\ UNCHANGED <<attempt, attempts, evidence, stagnation, arms, replan, tree, budget, life, memo,
                 history>>

(* The walker runs the owner and the stages behind it, then this node      *)
Reenter ==
  /\ pc = "routed" /\ Enter /\ tree' = tree + 1
  /\ \E left \in {0, budget} : budget' = left
  /\ UNCHANGED <<attempts, evidence, infraOnly, arms, route, life, memo, history>>

ToFix(kind) == IF budget = 0 THEN "exhausted" ELSE kind

NotStuck(kind) ==
  ~Stagnant /\ Remember /\ pc' = ToFix(kind) /\ UNCHANGED replan

(* The judge may route the recurring blockers to a plan revision first     *)
Stuck ==
  /\ Stagnant /\ Remember /\ pc' = "stagnant"
  /\ \/ UNCHANGED replan
     \/ ~InfraRound /\ budget > 0 /\ replan' = TRUE

Evaluate ==
  /\ \/ pc = "boundary" /\ ~NothingToFix /\ (Stuck \/ NotStuck("review"))
     \/ pc = "integrated" /\ integration.status = "failed" /\ (Stuck \/ NotStuck("integration"))
  /\ UNCHANGED <<attempt, attempts, evidence, lastFix, arms, jumps, tree, budget, life, memo,
                 history>>

(* Mutants.                                                                *)
AfterFixTests(kind) == IF kind = "integration" THEN "tests" ELSE "attempt"

(* runVerificationFix: "changed" compares git status and diff, which are   *)
(* the same before and after when the agent commits its own edit           *)
AfterFix(kind) == "attempt"
Fix(kind) ==
  /\ pc = kind
  /\ pc' = AfterFix(kind)
  /\ \/ /\ Hit(kind) # {}
        /\ lastFix' = [kind |-> kind, changed |-> FALSE]
        /\ occ' = [occ EXCEPT ![kind] = @ + 1]
        /\ UNCHANGED <<tree, budget, rows>>
     \/ /\ Hit(kind) = {}
        /\ budget' = budget - 1 /\ occ' = [occ EXCEPT ![kind] = @ + 1]
        /\ \E edits, commits, throws \in BOOLEAN :
             /\ tree' = IF edits THEN tree + 1 ELSE tree
             /\ lastFix' = [kind |-> kind, changed |-> edits /\ ~commits]
             /\ rows' = IF throws THEN rows ELSE [rows EXCEPT ![kind] = @ \cup {Row(kind, "done")}]
  /\ UNCHANGED <<attempt, attempts, evidence, lastItems, lastRecurring, infraOnly, arms, route,
                 life, history>>

----------------------------------------------------------------------------
(* Integration.                                                            *)

(* testBlock: services are brought up, the testers of ready roles run, the *)
(* services are torn down.  Without budget the bring-up task fails.        *)
TestBlockFails ==
  /\ pc = "tests"
  /\ pc' = "integrated"
  /\ integration' = [status |-> "failed", failing |-> {}, tree |-> tree]
  /\ UNCHANGED <<attempt, attempts, answer, review, build, stagnation, arms, route, tree, budget,
                 life, memo, history>>

(* what a role's tester reports; "unavailable" when its service never came *)
(* up, "unknown" when its task failed                                      *)
Test ==
  /\ pc = "tests" /\ budget > 0
  /\ \E roles \in SUBSET Roles, static \in BOOLEAN :
     \E said \in [roles -> {"passed", "failed", "unavailable", "unknown"}], ready \in SUBSET roles :
       LET live == {r \in ready : Hit(r) = {}}
           old == {row \in UNION {Hit(r) : r \in ready} : TRUE}
       IN /\ \A r \in roles \ ready : said[r] = "unavailable"
          /\ \A r \in ready \ live : \A row \in Hit(r) : said[r] = row.said
          /\ Cardinality(live) <= budget
          /\ budget' = budget - Cardinality(live)
          /\ occ' = [c \in Callers |-> IF c \in ready THEN occ[c] + 1 ELSE occ[c]]
          /\ rows' = [c \in Callers |-> IF c \in live /\ said[c] \in {"passed", "failed"}
                                        THEN rows[c] \cup {Row(c, said[c])} ELSE rows[c]]
          /\ integration' = [status |-> Outcome(said, static),
                             failing |-> {r \in roles : said[r] \in {"failed", "unavailable"}},
                             tree |-> Least({tree} \cup {row.tree : row \in old})]
          /\ \/ pc' = "integrated"
             \/ live # {} /\ pc' = "violated"    \* a tester wrote product code
  /\ UNCHANGED <<attempt, attempts, answer, review, build, stagnation, arms, route, tree, life,
                 history>>

Settle ==
  /\ pc = "integrated"
  /\ \/ integration.status \in {"passed", "not-applicable", "skipped-static"} /\ pc' = "converged"
     \/ integration.status \in {"unavailable", "unknown"} /\ pc' = "inconclusive"
  /\ UNCHANGED <<attempt, attempts, evidence, stagnation, arms, route, tree, budget, life, memo,
                 history>>

----------------------------------------------------------------------------
(* A crash loses the state of the run; its resume replays what the cache   *)
(* holds.  A fixer that was killed may have edited the tree.  Resuming     *)
(* after a route-back is RoutingWalker's subject.                          *)
Crash ==
  /\ pc \notin Terminal /\ life < MaxLives /\ jumps = 0
  /\ Enter /\ attempts' = 0
  /\ answer' = [r \in Reviewers |-> Waiting]
  /\ review' = NoReview /\ build' = NoBuild /\ integration' = NotTested
  /\ infraOnly' = 0 /\ arms' = [set |-> FALSE, n |-> 0]
  /\ life' = life + 1 /\ budget' = MaxAgents
  /\ occ' = [c \in Callers |-> 0]
  /\ tree' \in {tree} \cup (IF pc \in Kinds THEN {tree + 1} ELSE {})
  /\ unheard' = FALSE /\ replayed' = <<FALSE, FALSE>>
  /\ UNCHANGED <<route, rows>>

Done == pc \in Terminal /\ UNCHANGED vars

Step ==
  \/ StartAttempt \/ OutOfBudget \/ (\E r \in Reviewers : Reviewer(r)) \/ Join \/ BuildGate
  \/ DeadEnd \/ Reenter \/ Evaluate \/ (\E kind \in Kinds : Fix(kind))
  \/ TestBlockFails \/ Test \/ Settle

Next == Step \/ Crash \/ Done

Spec == Init /\ [][Next]_vars

----------------------------------------------------------------------------
(* Properties.                                                             *)

TypeOK ==
  /\ pc \in Terminal \cup Kinds \cup {"attempt", "reviewing", "build", "boundary", "routed", "tests",
                                      "integrated"}
  /\ attempt \in 0 .. attempts
  /\ answer \in [Reviewers -> [said : Answer, tree : 0 .. tree]]
  /\ review \in Review /\ review.tree <= tree
  /\ build.tree <= tree /\ integration.tree <= tree
  /\ \A c \in Callers : \A row \in rows[c] : row.tree <= tree
  /\ budget \in 0 .. MaxAgents /\ jumps \in 0 .. MaxJumps /\ life \in 1 .. MaxLives

(* the evidence is of the tree as it is                                    *)
Fresh == review.tree = tree /\ build.tree = tree /\ integration.tree = tree

(* In a process of its own, when every reviewer of the last round was      *)
(* heard, convergence means what it says: review, build and integration    *)
(* all passed on the tree as it is.                                        *)
ConvergedIsVerified ==
  pc = "converged" /\ life = 1 /\ ~unheard => reviewApproved /\ buildGreen /\ Fresh

(* When the node hands over to a human, and every reviewer was heard, there *)
(* is somebody who refused and nothing a fixer could do: nobody died and no *)
(* finding is open for one, every refusal left a deferred finding or came   *)
(* with none, and an upstream owner's is left only when no route-back is.   *)
BlockedIsDecision ==
  pc = "blocked" /\ ~unheard =>
    /\ ~review.approved /\ review.findings = {}
    /\ review.deferred # {} \/ review.silent # {}
    /\ "upstream" \in review.deferred => jumps = MaxJumps
=============================================================================
