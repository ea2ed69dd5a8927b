------------------------------- MODULE Gates -------------------------------
(* The deterministic gates of the implementation stage (build-runner): the   *)
(* build gate with its classification of failures and the check against the  *)
(* merge base, the deliverable check with its cached test list, the RED      *)
(* check, and the callers that turn them into a green phase.                 *)
(*                                                                           *)
(* A subject is what a failing command names: a test file, a package, a      *)
(* crate. Its state in the tree and at the merge base is "ok", "bad" or      *)
(* "none" (absent). The world, fixed initially, says which project this is:  *)
(* the primary language, its subjects, the phase's contract and what later   *)
(* phases declare.                                                           *)
EXTENDS Naturals, FiniteSets, Functions

CONSTANTS Worlds,    \* records [lang, subs, contract, gate, packages, later]
          Family,    \* the language of each subject
          Nested,    \* subjects that live in a nested module
          MaxEdits,  \* bound on the changes of an agent in each world
          MaxFaults  \* bound on runs that git or a runner spoils

Status == {"ok", "bad", "none"}
FileClauses == {"file", "pattern", "forbidden", "scenario"}
Verdicts == {"unknown", "preexisting", "regression"}
NoVerdict == [pass |-> FALSE, inScope |-> FALSE, named |-> {}, groups |-> {}, failed |-> {}, flaky |-> {}]

ASSUME GatesAssumption ==
  /\ MaxEdits \in [Worlds -> Nat] /\ MaxFaults \in Nat
  /\ \A s \in DOMAIN Family : Family[s] \in {"node", "go", "rust", "python"}
  /\ \A w \in Worlds : /\ w.lang \in {"node", "go", "rust", "python", "mixed"}
                       /\ w.subs \subseteq DOMAIN Family
                       /\ w.contract \subseteq FileClauses \cup {"test"}
                       /\ w.gate \in BOOLEAN /\ w.packages \subseteq w.subs
                       /\ w.later \subseteq w.subs

VARIABLES world, hasDefault,  \* the project; is its default branch known
          base, tree,         \* state of each subject at the merge base, in the worktree
          touched, untracked, \* subjects with a file that differs from the merge base; those git does not track
          dirty,              \* nested modules with such a file
          cache,              \* baselineCache: <<language, subjects>> -> verdict
          met, suite, text,   \* clauses that hold; is the required test in the suite, in the test files' text
          lister,             \* testListCache: "empty", "unavailable", "with" or "without" the test
          phase,              \* "open", "green", or red only for others: "blocked", "stashed" for a re-run
          reverted,           \* leaked files were put back since the deliverable check
          flakeSpent, regateSpent,  \* the run's re-run for a flake, the phase's after a quarantine
          last,               \* the build gate of this tree
          edits, faults

env == <<world, hasDefault, base>>
worktree == <<tree, touched, untracked, dirty, met, suite, text>>
verdictVars == <<cache, last>>
grants == <<flakeSpent, regateSpent>>
gatesVars == <<world, hasDefault, base, tree, touched, untracked, dirty, cache, met, suite, text, lister,
               phase, reverted, flakeSpent, regateSpent, last, edits, faults>>

lang == world.lang
subs == world.subs

GatesTypeOK ==
  /\ world \in Worlds /\ hasDefault \in BOOLEAN
  /\ base \in [subs -> Status] /\ tree \in [subs -> Status]
  /\ touched \subseteq subs /\ untracked \subseteq touched
  /\ dirty \subseteq {Family[s] : s \in subs \cap Nested}
  /\ \A k \in DOMAIN cache : cache[k] \in Verdicts
  /\ met \subseteq FileClauses /\ suite \in BOOLEAN /\ text \in BOOLEAN
  /\ lister \in {"empty", "unavailable", "with", "without"}
  /\ phase \in {"open", "blocked", "stashed", "green"}
  /\ reverted \in BOOLEAN /\ flakeSpent \in BOOLEAN /\ regateSpent \in BOOLEAN
  /\ edits \in 0..MaxEdits[world] /\ faults \in 0..MaxFaults

GatesInit ==
  /\ world \in Worlds /\ hasDefault \in BOOLEAN
  /\ base \in [subs -> Status] /\ tree = base /\ touched = {} /\ untracked = {} /\ dirty = {}
  /\ cache = <<>> /\ lister = "empty"
  /\ met \in SUBSET (world.contract \cap FileClauses) /\ suite \in BOOLEAN /\ text \in {suite}
  /\ phase = "open" /\ last = NoVerdict /\ edits = 0 /\ faults = 0
  /\ reverted = FALSE /\ flakeSpent = FALSE /\ regateSpent = FALSE

Faulty(f) == faults' = faults + (IF f THEN 1 ELSE 0) /\ faults' <= MaxFaults

(***************************************************************************)
(* Classification of the error blocks of one gate run. A block is the set  *)
(* of subjects its last lines name.                                        *)
(***************************************************************************)

\* What may go wrong in one gate: git diff or git ls-files fails, or both, when
\* the failures are classified, or either when the plans are made; there is no
\* merge base, which fails the diff against it or only the check; the command at
\* the merge base does not run; the bootstrap fails; a subject comes out
\* otherwise than it is.
Mishaps == {{}, {"diff"}, {"untracked"}, {"diff", "untracked"}, {"diff", "merge base"}, {"merge base"},
            {"plan"}, {"baseline"}, {"bootstrap"}, {"flake"}}

\* Two commands list the touched files, and each may fail alone.
touchedFilePaths(mishaps) ==
  (IF "diff" \in mishaps THEN {} ELSE touched \ untracked) \cup (IF "untracked" \in mishaps THEN {} ELSE untracked)

\* Which of the files a block names the classifier finds in that list: a go
\* package path is no file, and the path of a test in a nested python module
\* lacks the module's prefix.
InTouched(s, seen) == s \in seen /\ (Family[s] = "node" \/ (Family[s] = "python" /\ s \notin Nested))

\* What parseFailingNpmTestFiles or the pytest parser finds in a block.
Markers(block) == {s \in block : Family[s] # "rust"}

AnyTouched(block, scope) == \E s \in block : s \in scope

classifyOutOfScopeErrors(blocks, scope) ==
  IF scope = {} THEN {} ELSE {b \in blocks : b # {} /\ ~AnyTouched(b, scope)}

classifyOutOfScopeNpmErrors(blocks, seen, listed) ==
  IF ~listed THEN {}
  ELSE {b \in blocks : Markers(b) # {} /\ ~AnyTouched(Markers(b), {s \in subs : InTouched(s, seen)})}

(***************************************************************************)
(* The check of released failures against the merge base.                  *)
(***************************************************************************)

\* Mutant: a partial match counts as a failure of before the branch.
PartialIsOld(subjects, failing) == IF failing = {} THEN "unknown" ELSE "preexisting"

classifyFileSubjects(subjects, failing) ==
  IF failing = {} THEN "unknown" ELSE IF subjects \subseteq failing THEN "preexisting" ELSE "regression"

BadAtBase(S) == {s \in S : base[s] = "bad"}
AbsentAtBase(S) == {s \in S : base[s] = "none"}

\* The outcome of the command at the merge base. A runner that cannot be
\* pointed at the files runs the whole suite.
BaselineRun(fam, S, wholeSuite) ==
  CASE fam = "mixed" -> "unknown"
    [] fam = "rust" -> IF AbsentAtBase(S) # {} THEN "unknown" ELSE IF BadAtBase(S) = {} THEN "regression" ELSE "preexisting"
    [] fam = "python" /\ AbsentAtBase(S) # {} -> "unknown"
    [] fam = "go" /\ AbsentAtBase(S) # {} -> "regression"
    [] fam = "node" /\ wholeSuite ->
         LET failing == BadAtBase({s \in subs : Family[s] = "node"}) IN
         IF failing = {} THEN "regression"
         ELSE IF failing \cap S = {} THEN "unknown" ELSE classifyFileSubjects(S, failing)
    [] fam = "node" /\ ~wholeSuite /\ S = AbsentAtBase(S) -> "unknown"
    [] OTHER -> IF BadAtBase(S) = {} THEN "regression" ELSE classifyFileSubjects(S, BadAtBase(S))

\* The language a block is verified as: a node block takes the run's own.
GroupOf(block) == LET f == Family[CHOOSE s \in block : TRUE] IN IF f = "node" THEN lang ELSE f

\* What a group's blocks are verified by: one go module, the one with the
\* longest path; all crates of the command line.
GroupSubjects(fam, named, scope) ==
  CASE fam = "go" -> LET g == {s \in named : Family[s] = "go"} IN IF g \cap Nested # {} THEN g \cap Nested ELSE g
    [] fam = "rust" -> named \cup scope
    [] fam = "python" -> {s \in named : Family[s] = "python"}
    [] OTHER -> {s \in named : Family[s] = "node"}

CacheKey(fam, S) == <<fam, S>>

verifyUntouchedFailures(fam, S, wholeSuite, mishaps) ==
  LET k == CacheKey(fam, S) IN
  IF S = {} \/ "merge base" \in mishaps \/ (k \notin DOMAIN cache /\ "baseline" \in mishaps) THEN "unknown"
  ELSE IF k \in DOMAIN cache THEN cache[k] ELSE BaselineRun(fam, S, wholeSuite)

(***************************************************************************)
(* runBuildGate: bootstrap, the plans, classification, baseline.           *)
(***************************************************************************)

\* testPackages: what the plan's gate names, or the crates of the listed files.
Scope(seen) == IF lang # "rust" THEN {} ELSE IF world.gate THEN world.packages ELSE seen

RootPlan == {s \in subs : Family[s] = lang /\ s \notin Nested}
NestedPlan(f) == {s \in subs \cap Nested : Family[s] = f}
Plans(modules) == ({RootPlan} \cup (IF lang = "rust" THEN {} ELSE {NestedPlan(f) : f \in modules})) \ {{}}
Bad(S, ran) == {s \in S : ran[s] = "bad"}
FailingPlans(modules, ran) == {P \in Plans(modules) : Bad(P, ran) # {}}

\* The last lines of a plan's output name some of its failures, or none.
Tails(modules, ran) ==
  {t \in [FailingPlans(modules, ran) -> SUBSET subs] :
     \A P \in FailingPlans(modules, ran) : t[P] \subseteq Bad(P, ran)}

Released(blocks, seen, listed) ==
  IF lang = "rust" THEN classifyOutOfScopeErrors(blocks, Scope(seen))
  ELSE classifyOutOfScopeNpmErrors(blocks, seen, listed)

Groups(out, seen, wholeSuite, mishaps) ==
  LET named(f) == UNION {b \in out : GroupOf(b) = f}
      verified == {f \in {GroupOf(b) : b \in out} : GroupSubjects(f, named(f), Scope(seen)) # {}} IN
  {LET S == GroupSubjects(f, named(f), Scope(seen)) IN
     [fam |-> f, subs |-> S, status |-> verifyUntouchedFailures(f, S, wholeSuite, mishaps)] : f \in verified}

\* inScopePass of a gate with these error blocks.
resolveInScopePass(blocks, out, groups) ==
  /\ blocks \subseteq out
  /\ hasDefault => \A g \in groups : g.status # "regression"

\* A failed bootstrap of a required directory leaves one block without
\* markers and runs no plan.
Blocks(t, bootFails) == IF bootFails THEN {{}} ELSE {t[P] : P \in DOMAIN t}

\* A verdict is remembered unless it ended before the lookup.
Remembered(groups, mishaps) ==
  IF "merge base" \in mishaps THEN cache
  ELSE [k \in DOMAIN cache \cup {CacheKey(g.fam, g.subs) : g \in groups} |->
          IF k \in DOMAIN cache THEN cache[k]
          ELSE (CHOOSE g \in groups : CacheKey(g.fam, g.subs) = k).status]

\* The outcomes the commands see: those of the tree, one turned by a flake.
Outcomes(mishaps) ==
  IF "flake" \notin mishaps THEN {tree}
  ELSE {[tree EXCEPT ![s] = IF tree[s] = "ok" THEN "bad" ELSE "ok"] : s \in {x \in subs : tree[x] # "none"}}

\* The nested modules the plans are made for: some are missed when git fails.
Modules(mishaps) == IF "plan" \in mishaps THEN SUBSET dirty \ {dirty} ELSE {dirty}

\* The list holds other files of the branch too, unless git gave none.
Listings(seen, mishaps) == {l \in BOOLEAN : /\ seen # {} => l
                                            /\ {"diff", "untracked"} \subseteq mishaps => ~l}

RunGate ==
  \E mishaps \in Mishaps :
  /\ Faulty(mishaps # {})
  /\ \E ran \in Outcomes(mishaps), modules \in Modules(mishaps), listed \in Listings(touchedFilePaths(mishaps), mishaps) :
     \E t \in Tails(modules, ran), wholeSuite \in BOOLEAN :
       LET seen   == touchedFilePaths(mishaps)
           blocks == Blocks(t, "bootstrap" \in mishaps)
           out    == Released(blocks, seen, listed)
           groups == IF hasDefault /\ blocks # {} /\ blocks \subseteq out THEN Groups(out, seen, wholeSuite, mishaps) ELSE {} IN
       /\ wholeSuite => groups # {} /\ \E g \in groups : g.fam = "node"
       /\ last' = [pass |-> blocks = {}, inScope |-> resolveInScopePass(blocks, out, groups),
                   named |-> UNION blocks, groups |-> groups,
                   failed |-> mishaps \cap {"diff", "untracked", "plan"}, flaky |-> {s \in subs : ran[s] # tree[s]}]
       /\ cache' = Remembered(groups, mishaps)

(***************************************************************************)
(* The deliverable check and its test list.                                *)
(***************************************************************************)

\* Mutant: the list of the attempt before is kept.
KeepTestList(l) == l

resetDeliverableCheckCache(l) == "empty"

loadTestList(l, works) ==
  IF l # "empty" THEN l ELSE IF ~works THEN "unavailable" ELSE IF suite THEN "with" ELSE "without"

Unmet == (world.contract \cap FileClauses) \ met
InTestText == text

Missing(skipTests, l) ==
  Unmet
    \cup (IF "test" \in world.contract /\ ~skipTests /\ l = "without" THEN {"test"} ELSE {})

\* runDeliverableCheck after a reset; a skipped or absent test clause loads no list.
CheckDeliverables(skipTests) ==
  LET l == resetDeliverableCheckCache(lister) IN
  IF skipTests \/ "test" \notin world.contract THEN lister' = l
  ELSE \E works \in BOOLEAN : lister' = loadTestList(l, works)

deliverablesAlreadyMet ==
  /\ world.contract # {}
  /\ Unmet = {}
  /\ "test" \in world.contract => InTestText

(***************************************************************************)
(* runRedCheck over the targets a RED call declared, one plan per language.*)
(***************************************************************************)

\* exitOk, tests and failures of a run over the targets.
classifyFromStructuredCounts(tests, failures) ==
  IF tests # {} THEN IF failures # {} THEN "red" ELSE "green" ELSE "broken"

combineRedStatuses(S) ==
  IF "broken" \in S THEN "broken"
  ELSE IF "red" \in S THEN "red"
  ELSE IF S = {"green"} THEN "green"
  ELSE "unknown"

PlanStatus(targets, parsed) ==
  LET present == {s \in targets : tree[s] # "none"} IN
  IF \E s \in targets : Family[s] = "python" /\ tree[s] = "none" THEN "broken"
  ELSE IF ~parsed THEN "unknown" ELSE classifyFromStructuredCounts(present, Bad(targets, tree))

\* One plan per convention that claims targets, or the one command of a
\* validated runner.
conventionPlansFor(targets) == {{s \in targets : Family[s] = f} : f \in {Family[s] : s \in targets}}
RedPlans(targets) == {conventionPlansFor(targets), {targets}}

\* The statuses a RED check of these targets may have.
runRedCheck(targets) ==
  UNION {{combineRedStatuses({PlanStatus(P, parsed[P]) : P \in plans}) : parsed \in [plans -> BOOLEAN]}
           : plans \in RedPlans(targets)}

(***************************************************************************)
(* The callers.                                                            *)
(***************************************************************************)

\* Between two gates: no quarantine waits for its re-run.
Settled == phase \in {"open", "blocked"}

BuildGreen == last'.pass \/ last'.inScope

\* Every failure was out of scope and some are new at the merge base.
NewElsewhere == \E g \in last'.groups : g.status = "regression"

\* The gate, the deliverable check, and what they and the caller's own checks
\* make of the phase; "ladder" when a phase that is red only for failures
\* elsewhere has other ways out.
Verified(extra, ladder) ==
  /\ RunGate
  /\ CheckDeliverables(~BuildGreen)
  /\ LET own == extra /\ Missing(~BuildGreen, lister') = {} IN
     phase' = IF own /\ BuildGreen THEN "green" ELSE IF own /\ ladder /\ NewElsewhere THEN "blocked" ELSE "open"
  /\ UNCHANGED <<env, flakeSpent, edits>>

Undisturbed == UNCHANGED worktree /\ reverted' = FALSE

\* git puts files back to what HEAD has, or removes them: a subject is again what
\* it was, or fails without them, a file of it leaves the diff, a tag or test that
\* a file held comes or goes.
PutBack(S) ==
  /\ \E s \in S : \E v \in {tree[s], base[s], "bad"}, T \in SUBSET ({s} \cap touched) :
       /\ v # tree[s] /\ (v = "none" \/ tree[s] = "none") => s \in touched
       /\ s \in untracked => (T = {s} <=> v = "none")
       /\ tree' = [tree EXCEPT ![s] = v] /\ touched' = touched \ T /\ untracked' = untracked \ T
  /\ met' \in {met, met \ {"scenario"}, met \cup (world.contract \cap {"scenario"})}
  /\ suite' \in (IF "test" \in world.contract THEN BOOLEAN ELSE {suite})
  /\ text' \in (IF "test" \in world.contract THEN BOOLEAN ELSE {text})
  /\ (suite' => text') /\ UNCHANGED dirty

\* restorePaths on the files of the attempt that later phases declare, after the
\* gate and the deliverable check were measured; the phase's own are exempt.
LeakRevert == edits > 0 /\ PutBack(world.later) /\ reverted' = TRUE

\* The suite after an implementer: besides the two checks, the files it claims
\* must have changed and must hold code. (The accepted RED tests and the coverage
\* are two more conditions on what the agent did, and like these hold or not.)
computeChangeGate(claimed) == claimed # "unchanged"
computeSymbolGate(claimed) == claimed # "hollow"

GateSuite ==
  /\ Settled
  /\ \E own \in {computeChangeGate(claimed) /\ computeSymbolGate(claimed) : claimed \in {"real", "unchanged", "hollow"}} :
       Verified(own, TRUE)
  /\ Undisturbed \/ LeakRevert
  /\ UNCHANGED regateSpent

\* The phase's own evidence was green and what was there before it is blamed: the
\* gate is run again, once in a run, and the deliverable check is not.
FlakeRerun ==
  /\ phase = "blocked" /\ ~flakeSpent /\ flakeSpent' = TRUE
  /\ RunGate
  /\ phase' = IF BuildGreen THEN "green" ELSE "open"
  /\ UNCHANGED <<env, worktree, lister, reverted, regateSpent, edits>>

\* Dirt of before the run is blamed: it is stashed, once in a phase, and the
\* remembered verdicts are dropped.
Quarantine ==
  /\ phase = "blocked" /\ ~regateSpent /\ regateSpent' = TRUE
  /\ PutBack(subs)
  /\ cache' = <<>> /\ phase' = "stashed" /\ last' = NoVerdict
  /\ UNCHANGED <<env, lister, reverted, flakeSpent, edits, faults>>

\* The gate on what is left, and, when it is green, the whole deliverable check.
GateAgain == phase = "stashed" /\ Verified(TRUE, FALSE) /\ Undisturbed /\ UNCHANGED regateSpent

\* A phase whose deliverables a resumed run finds in the tree.
ResumeNoOp ==
  Settled /\ deliverablesAlreadyMet /\ Verified(TRUE, FALSE) /\ Undisturbed /\ regateSpent' = FALSE

\* RED came up green and the deliverables are in the tree.
SatisfiedAtRed ==
  /\ Settled /\ deliverablesAlreadyMet
  /\ \E targets \in SUBSET subs \ {{}} : "green" \in runRedCheck(targets)
  /\ Verified(TRUE, FALSE) /\ Undisturbed /\ UNCHANGED regateSpent

\* The re-check, when the stage closes, of a partial phase with something to have.
CloseReverify ==
  /\ Settled /\ world.contract \ {"forbidden"} # {} /\ deliverablesAlreadyMet
  /\ Verified(TRUE, FALSE) /\ Undisturbed /\ UNCHANGED regateSpent

\* Whether git may not track the files of T: they are new.
MayBeNew(T) == \A x \in T : \/ x \in untracked
                            \/ base[x] = "none" /\ tree[x] = "none"
                            \/ lang = "rust" /\ x \notin touched

\* An agent changes the outcome of subject s by editing a file of T, or, with
\* T empty, a production file of s's module.
Edit(s, v, T) ==
  /\ phase # "stashed" /\ edits < MaxEdits[world] /\ edits' = edits + 1
  /\ v # tree[s] /\ tree' = [tree EXCEPT ![s] = v]
  /\ (v = "none" \/ tree[s] = "none") => T = {s}
  /\ lang = "rust" => T # {}
  /\ LET gone == {x \in T : v = "none" /\ base[x] = "none"} IN
     \E new \in BOOLEAN : /\ new => MayBeNew(T)
                          /\ touched' = (touched \cup T) \ gone
                          /\ untracked' = ((untracked \ T) \cup (IF new THEN T ELSE {})) \ gone
  /\ dirty' = dirty \cup {Family[x] : x \in (T \cup {s}) \cap Nested}
  /\ phase' = "open" /\ last' = NoVerdict
  /\ UNCHANGED <<env, cache, met, suite, text, lister, reverted, grants, faults>>

\* A clause comes true or false; the required test is written (its name in the
\* text), found by the suite, or deleted.
EditDeliverable ==
  /\ phase # "stashed" /\ edits < MaxEdits[world] /\ edits' = edits + 1
  /\ \/ \E c \in world.contract \cap FileClauses :
          met' = (met \ {c}) \cup ({c} \ met) /\ UNCHANGED <<suite, text>>
     \/ /\ "test" \in world.contract /\ UNCHANGED met
        /\ suite' \in BOOLEAN /\ text' \in BOOLEAN /\ <<suite, text>>' # <<suite, text>>
        /\ suite' => text'
  /\ phase' = "open" /\ last' = NoVerdict
  /\ UNCHANGED <<env, tree, touched, untracked, dirty, cache, lister, reverted, grants, faults>>

GatesNext ==
  \/ \E s \in subs, v \in Status : \E T \in {{}} \cup {{x} : x \in subs} : Edit(s, v, T)
  \/ EditDeliverable
  \/ GateSuite \/ FlakeRerun \/ Quarantine \/ GateAgain
  \/ ResumeNoOp \/ SatisfiedAtRed \/ CloseReverify

GatesSpec == GatesInit /\ [][GatesNext]_gatesVars

-----------------------------------------------------------------------------
\* The ways a failure may be released without a verdict: there is no branch to
\* compare with, the group could not be checked, or its block is not read as
\* its own language; a second go module; crates share one verdict.
Unjudged(s) ==
  \/ ~hasDefault
  \/ Family[s] = "rust"
  \/ Family[s] = "node" /\ lang \in {"go", "python"}
  \/ Family[s] = "go" /\ s \notin Nested /\ last.named \cap Nested # {}
  \/ \E g \in last.groups : s \in g.subs /\ g.status = "unknown"

\* The command that would have listed the touched file of s failed.
NotListed(s) == (IF s \in untracked THEN "untracked" ELSE "diff") \in last.failed

\* A gate that fails but passes in scope names no node test the branch touched
\* and no crate it touched that the plan's gate did not settle, unless the very
\* command that lists that file failed; and every failure it names already fails
\* at the merge base unless it could not be judged: a verdict remembered from an
\* earlier gate, a flake, a partial match and several languages in one run
\* included (red-check.ts, scope.ts, baseline.ts).
ReleaseIsEarned ==
  last.inScope /\ ~last.pass =>
    \A s \in last.named :
      /\ s \in touched /\ (Family[s] = "node" \/ (lang = "rust" /\ ~world.gate)) => NotListed(s)
      /\ base[s] = "bad" \/ Unjudged(s)

\* Whichever caller turns a phase green, in the tree it then stands on every
\* clause of its contract holds, its required test is in the suite unless no
\* list could be had, and of every plan with a failure some failure was named
\* to the gate, and so released, unless it was a flake's or git hid the module.
\* Two callers promise less. What the suite measured it does not measure again
\* after it put leaked files back: a tag, a test or an outcome may have gone with
\* them. The re-run for a flake follows a check that left the test out
\* (gate-suite.ts, deliverable.ts, phase-entry.ts, red-acceptance.ts,
\* inherited-red-ladder.ts, env-blocker-regate.ts, stage-close-reverify.ts).
GreenIsMet ==
  [][phase # "green" /\ phase' = "green" =>
       LET rerun == flakeSpent' # flakeSpent IN
       /\ world.contract \cap FileClauses \subseteq met' \cup (IF reverted' THEN {"scenario"} ELSE {})
       /\ "test" \in world.contract => suite' \/ lister' = "unavailable" \/ reverted' \/ rerun
       /\ rerun \/ ~reverted' =>
            \A P \in Plans(dirty') :
              /\ P = RootPlan \/ "plan" \notin last'.failed
              /\ \E s \in P \ last'.flaky : tree'[s] = "bad"
              => P \cap last'.named # {}]_gatesVars
=============================================================================
