# TLA+ models of pi-super-dev

pi-super-dev runs a development pipeline (requirements, BDD, design,
specification, TDD implementation, verification, close-out) by calling
specialist agents and re-deriving every claim they make. What can go wrong in
it between two tests is not an agent's answer but the control around it: runs
that are killed and resumed, files rewritten one after the other, calls that
share one working tree, evidence that outlives the tree it was taken from,
budgets that must hold over any number of restarts. This directory models that
control in TLA+, checks the models with TLC on small instances, and proves
with TLAPS what matters most for every value of the constants.

Paths below are relative to the repository's `src/`.

## 1. The system and its parts

One **track** (a spec directory, a branch, a worktree) is worked on by one run
at a time. A **run** belongs to a pi process; the **extension** admits it,
feeds it what the user types, and restarts it after a replan. The run walks a
fixed **skeleton** of stages, a tree of nodes. Stages call agents through one
engine, which memoizes their results in the track's **resume cache**, so that
a killed run can be resumed and replays them. A late stage that finds a defect
of an earlier artifact sends the run back, either inline (the **walker**,
within the process) or by ending it with the status `replan` and restarting it
(the **replan circuit**, across processes). A stage that writes an artifact
alternates a writer and a reviewer until the review approves (the
**convergence loop**; for the specification with a ledger of findings). The
implementation works **phase** by phase, each in **attempts** with their own
RED and GREEN halves and deterministic **gates**; verification repeats review,
build and integration tests until all evidence is good. At the close-out the
run leaves metrics behind for the **flywheel**.

| component | state | operations | hard because | must hold |
|---|---|---|---|---|
| run lock (`setup/run-lock.ts`) | lock file with a pid | create, write, read, steal, release | other processes run between any two system calls; holders die | an owner's file is judged stale by nobody; acquire ends |
| track set-up and state root (`setup*.ts`, `state/`, `pipeline.ts`) | spec directories, store, lock files, git's tracked copy | choose or resume a track, migrate, truncate, park, load, end | a kill between copy and unlink; git fails once and two places exist | no row is lost; one run per track |
| walker (`routing/*.ts`) | journal, epoch, revisions, requests, rows | walk, fast-forward, route back, decline, resume | each write is durable alone and may fail; the budget is per logical run | an edge is taken at most its budget per account; nothing stale below a re-entered stage |
| run tree and run log (`nodes.ts`, `stages/index.ts`, `runlog.ts`, `workflow.ts`) | rows of stages, event ledger, status | sequence, branch, loop, task, merge and its verification, close-out | throws, aborts and skips on every level; appends that fail or tear | the ledger tells what happened; success means merged work |
| convergence loop and cache (`stages/artifact-convergence/`, `resume.ts`) | JSONL rows, occurrence counters, locals | rounds, bounces, strikes, errors, escalation, extension, boot | a key is the position of a call; the budget counts replayed rounds | replay is exact; bounded rounds |
| spec convergence and ledger (`stages/spec-convergence.ts`, `convergence-ledger.ts`) | findings with identity, claims, gates | write, trace, review, approve, carry, jump, restart | identity over rewordings; findings of other stages; supersession | an approval closes; nothing blocking is forgotten |
| phases (`stages/implementation/index.ts`, `stage.ts`, `checkpoint-rollback.ts`) | carried phase list, commits, stashes, stamps | passes, wind-up, roll-back, reapply, close, resume | the list, the branch and the stashes move separately | no stale stamp; nothing lost; the loop ends |
| attempts (`stage.ts`, `red-*.ts`, `gate-suite.ts`, ...) | test file, snapshots, counters | RED, oracle, review, GREEN, gates, ladders | a review runs beside the implementer; a dozen ways back | green keeps the confirmed tests; it ends |
| gates (`build-runner/gates/*.ts`) | verdict caches, list cache | build gate, base check, deliverable, RED check | failures are released by comparison with another tree | a release is earned; a green phase meets its contract |
| verification (`stages/verify/*.ts`) | review, build, integration evidence | attempt, review, fix, stagnate, route, resume | evidence and tree change in turns | converged means verified |
| replan circuit (`replan/*.ts`) | requests, revisions, rows, rounds | trigger, restart, consume, decline | cut between writes; torn file | bounded rounds; addressed only after a review |
| agent calls and boundary (`workflow/*.ts`, `red-review-join.ts`) | budget, usage, tree, snapshots | fuses, launch, retry, charge, compare, restore, join | concurrent calls share tree and budget | a read-only edit is reported; the implementer's survive |
| agent backends (`agents/*.ts`) | requests on a bus, sessions, degraded modes | delegate, answer, correct, time out, abort | an abort or an answer comes at the wrong time | no agent works for nobody; a call ends |
| judge (`stages/judge.ts`) | budgets, audit | ask, retry, correct, adjudicate | counts read before an await | budgets; a route has evidence |
| services (`stages/lifecycle.ts`) | processes, ports | start, poll, test, stop, watchdog | processes that do not end; ports that answer for another | a service goes; ready is its own |
| extension (`extension/*.ts`, `render/user-notes.ts`, `reflection.ts`) | run guard, queue of notes, background work | execute, end, type, drain, reload, shut down | a reload evaluates the module anew while a run goes on | one run; notes reach agents; an honest shutdown |
| flywheel (`evolution/*.ts`) | metrics, rows, lifecycle state, drafts | score, validate, cluster, draft, refresh | runs of other tracks write the same files without a lock | a rejected draft returns only with new evidence |

Components with status `not_modelled` in `PROJECT.json` are text, I/O or child
processes (prompts, rendering, templates, reports, guards over command lines,
discovery of test commands): the models take what they yield as outcomes.

**How they interact.** Set-up takes the run lock and loads the cache; the
walker decides which stage runs and catches the route-backs its stages throw;
walker and replan trigger bump revisions, write requests and drop rows in the
same files. Every agent call goes through the memoizing agent and, when it
misses, through the fuses, the boundary and a backend. Phases call attempts,
attempts call gates and the judge, verification calls services. The end of the
run releases the lock and, on success, clears the cache.

## 2. Modules

| module | models | is composed with |
|---|---|---|
| `RunLock` | run lock and end of run | |
| `RouteBudget` | abstract: an edge is taken at most `Budget` times per account of a logical run | |
| `RoutingWalker` | walker, journal, epoch, revision gate | `Account == INSTANCE RouteBudget`: checked and proved as a refinement |
| `RunTree` | node tree, rows, run log, status | beside the walker in `MC_RoutingWalker` |
| `ArtifactLoop` | one convergence loop over the memoizing agent | |
| `SpecConvergence` | spec convergence over the ledger and the reviewer's duty | |
| `ReplanCircuit` | replan trigger, restart loop, consumption | |
| `PhaseLoop` | passes over the phases, commits, stashes, roll-back | |
| `AttemptLoop` | one phase's attempts | |
| `Gates` | build gate, base check, deliverable, RED check | |
| `VerifyLoop` | the verification node | |
| `AgentCalls` | pool of reviewers, fuses, retries, boundary, RED review join | |
| `TrackSetup`, `AgentBackend`, `Judge`, `Services`, `ExtensionSession` | the parts around the pipeline | side by side in `MC_Session` |
| `Flywheel` | concurrent close-outs over the evaluation directory | |
| `MC_*` | instances for TLC | extend what they instantiate |
| `ArtifactLoop_proofs`, `VerifyLoop_proofs`, `AgentCalls_proofs` | theorems and lemmas about one module | extend it |
| `Steering_proofs` | about `RoutingWalker`, `Judge`, `ExtensionSession`: what steers a run | extends the three |
| `Run_proofs` | the same about `RunLock`, `RunTree`, `Flywheel` | extends the three |
| `Findings_proofs` | about `ReplanCircuit`, `SpecConvergence` | extends both |
| `Implementation_proofs` | about `AttemptLoop`, `Gates`, `PhaseLoop` | extends the three |
| `Session_proofs` | about `AgentBackend`, `TrackSetup`, `Services`: what a run works with | extends the three |

`PROJECT.json` maps every definition to the lines it stands for. Where a
component meets another one, the other's promise is an outcome: an attempt is
an action of `PhaseLoop` whose ways through are `AttemptLoop`; a gate's answer
in `AttemptLoop` is what `Gates` computes; a call that ends is what
`AgentCalls` and `AgentBackend` make of it; a kill at any step is the watchdog,
the user or the machine. `MC_RoutingWalker` and `MC_Session` put parts side by
side that share no state: a behaviour picks one part and takes its steps, the
others rest in an initial state in which their fairness owes nothing.

Where a proof module is about several components, their specifications live in
one name space: each of them but one prefixes `Init`, `Next`, `Spec`, `vars`
and `TypeOK` with its own name (`GatesSpec`, `servicesVars`, ...).

Every component but `Flywheel` has a type invariant, which documents the domains
of its variables and is a theorem of it. The proof about `Flywheel` has the
typing it needs in its inductive invariant (`RowInv`, `CopyInv`, `DraftInv`).

### RunLock

A process opens the file exclusively, writes its pid into it, reads the holder
(with backoff on an empty file), removes a stale file, holds, clears, or has
ended. Each is one action: every other process may run in between. `lock` says
who created the file at the path and whether its pid landed; a write after an
unlink changes nothing. `robbed` remembers whose file was removed under it.
Processes die at any step.

* `OwnerIsRespected`: nobody gets the lock of an owner whose file is in place,
  and nobody who reads it judges it stale, unless its pid takes longer to land
  than the backoff waits (`calm` histories exclude that). What still takes the
  file of a live owner is a judgement made before it was the owner's, or a
  release (section 6).
* `AcquireTerminates`: acquire returns, whatever the others do.

### TrackSetup

A file exists in the store, in the spec directory, or in both, and holds the
rows of some runs. A process resolves the place anew at each use until git has
answered once (`Resolves`, `stateFileFor`). A run searches for a track to
resume or reuse, makes a worktree, takes the lock in whichever place it sees
(`acquireRunLock`, `liveForeignLockHolder`), truncates a stale cache, migrates
(`CopyAcross`, `Unlink`: two steps), parks the tracked file while it untracks
it, and loads. It ends by releasing the lock, then clearing.

* `RowsSurvive`: rows are lost only where git, a removed worktree, a kill in
  the middle of the untracking or the late clearing came between.
* `OneRunPerTrack`: two runs share a track only if git failed for one of them.

### RoutingWalker, RouteBudget and RunTree

`ctl` is `"walk"` or the next step of the re-entry protocol (`caught`,
`invalidate`, `inject`, `bump`, `charge`, `enter`, or `decline`), one action
per durable write, in the order of `walker.ts`. A process may die after any
step and be resumed; a fresh run starts a new account.

The epoch file, which says where in the journal the run began, is written best
effort: its write may fail alone, leave it empty, or be cut by a kill. A resume
that finds none counts from the last entry on (`EpochLost`) and so opens
another account for the run's edges. A carried exit (`ExitUnapproved`,
`Deliver`) writes, for each downstream owner of debt, a request and a revision;
either write may fail unnoticed and the process may die between them.

* `BudgetPerRun`: the walker with its files implements `RouteBudget`: kills
  and resumes never give a run a second budget for an edge, but once for every
  time it was resumed without its epoch file.
* `SuffixInvalidated`: nothing stale is left below a re-entered stage.
* `OwedStageRuns`: an owner that was routed to, or that one of the two writes
  of a delivery reached, runs before it can be fast-forwarded. An owner that
  neither reached is not covered (section 6).

`RunTree` runs the tree from set-up to the verified merge. A task records a
row and events; an append may fail or tear the line; a throw, an abort, a wall
fuse, a spent budget or a kill may come at any task, and sequences, branches,
loops and the close-out react as `nodes.ts` and `workflow.ts` do. The ledger is
kept as what a reader of the whole file can tell: whether
`checkRunLogInvariants` objects, and how each stage ended.

* `LedgerIsWellFormed`, `LedgerTellsTheRows`: the ledger satisfies its
  invariants and its fold agrees with the rows, but for the cases that
  `happened` names (section 6).
* `SuccessIsEarned`: a successful run has merged all its work and no secret,
  whatever the merging agent claims.

### ArtifactLoop

A process loads the rows (`Boot`), enters the loop with the round budget it
computes from them, and makes calls; a call whose (role, occurrence) is in the
map is answered from it, otherwise it is live and appended to the file, where
a kill may tear it. A result carries an identity and that of what it was
computed from, so that a replayed row can be compared with the call it answers.

What the gates make of a control is not in its row. The finding gate looks at
the findings of the ledger as it was when the walk was entered, the anchor gate
at the files that exist now: a replayed control may be bounced that was not
when it was made, or pass to the validators (`Answers`, `Examined`). `drifted`
remembers that this happened. A failing append is swallowed and may leave a
part of its line (`Record`).

* `CleanReplay`: on a track with no error, failed append, human, jump or drift
  a resumed run replays exactly, however often it was killed, inside an append
  too. The exceptions are section 6's.

### SpecConvergence

A finding has an owner (this stage, one before it, or the plan), a severity
and a status; the ledger merges what is said again, records claims of the
writer, closes what the reviewer verified, downgrades what nobody repeats, and
strikes off at entry what cites an anchor that is gone. Rounds run the writer,
the trace and family gates, the reviewer with its duty, the bounce, the
extension for strict progress; they end by approval, carry, route-back or a
fatal streak. A crash leaves the file and the pending requests.

* `TracedUnlessBounced`: what is reviewed passed the trace gate, except the
  rewrite a bounce asks for.
* `ApprovalCloses`: an approval leaves no blocker of this stage or one before
  it. (`NothingForgotten`, that a blocker survives the death of a process, is
  proved and in no run.)

### ReplanCircuit

The trigger is three actions, one per durable write: requests (with the
round), revisions, rows. A write may fail or tear the file, a kill may fall
between any two steps. A session restarts the run while the marker says so and
its own counter allows.

* `ReplanBudget`: rounds, and the restarts they cause, stay within the track's
  budget over any number of sessions, once per loss of the file.
* `RestartRevises`: the restart after a trigger finds no row to replay of an
  owner that has to revise or of a stage below it, although the drop of the
  rows may fail.
* `AddressedUnlessCut`: a request is addressed only after its owner's review
  approved live, unless its trigger was cut before the rows were dropped.
* `SessionEnds`: the restart loop ends by itself.

### PhaseLoop

A pass runs the phases that are not green; an attempt commits, stays dirty,
stashes a partial, or winds up. The carried list, the commits of the branch
(`log`), the stashes and the working tree are separate: a roll-back detaches
commits and resets stamps, a reapply may conflict, a stage close re-verifies
and may flip a phase green, a resumed process skips what is green under the
same instructions. New instructions, git faults and the removal of the
worktree are mishaps.

* `NoStaleStamp`: a run that reports all green counts no stamp made under
  other instructions than it ended with.
* `NothingLost`: what an attempt wrote is in the branch, dirty, stashed or in
  a detached commit.
* `EndsUnlessGone`: the loop ends while the worktree exists.

### AttemptLoop

The test file is a version number. `RedLoop` authors and accepts a suite seen
failing; the review starts and runs while `ImplementerRound` edits; the join,
the strikes, the gates, the blocker, inherited-red, judge, challenge and
research ladders follow, each with its counter.

* `ConfirmedBeforeImplement`, `GreenKeepsTests`: nothing is implemented
  against tests nobody saw failing, and green stands on exactly those tests.
* `ReviewIsJoined`: the concurrent review is heard before anything is decided.
* `Ends`: the budget and the caps bound every way back.

### Gates

A world says which project this is: the primary language, the subjects a
failure may name, the phase's contract, and which subjects have files that later
phases declare. A subject is `ok`, `bad` or absent in the tree and at the merge
base; an agent's edits change the tree. A failing gate is classified (in scope
or not), compared with the base through a cache of verdicts, and released or
not; the deliverable clauses are checked against a cached list of tests.

One gate meets one of the `Mishaps`: `git diff` or `git ls-files` fails or both
(each contributes nothing, `touchedFilePaths`), there is no merge base, the
command at the base does not run, the bootstrap fails, a test flakes.

The callers that turn a phase green are actions: the suite after an implementer
(`GateSuite`), the re-run for a flake (`FlakeRerun`), the gate after dirt was
quarantined (`Quarantine`, `GateAgain`), a resumed phase with nothing to do
(`ResumeNoOp`), a RED check that is green (`SatisfiedAtRed`; the check is a
function of its targets, no state), and the close of the stage
(`CloseReverify`). The suite may put leaked files of later phases back after it
measured (`LeakRevert`).

* `ReleaseIsEarned`: a released failure names nothing the branch touched (for
  node, and for crates of a gate that lists the touched files), unless the very
  command that would have listed the file failed, and everything it names fails
  at the base too.
* `GreenIsMet`: whichever of the callers turns a phase green, the contract
  holds in the tree it then stands on and no failing plan went unnamed. Two of
  them promise less, and the property says how much: after a leak revert a tag,
  a test or an outcome may have gone with the files, and a re-run for a flake
  stands on a check that left the required test out (section 6).

### VerifyLoop

The tree is a version number raised by every fix; each piece of evidence
carries the version it was produced from, which the code does not record.
Reviewers run in parallel and may die; fixes, build and integration follow;
repeated failures stagnate into an upstream route-back, a human decision or a
stop. A verdict and its findings are separate things: a reviewer may approve
with a finding, reject with deferred ones, or reject and leave none, since the
schema asks for none and the triage drops those said to be resolved
(`Verdict`, `Blames`, `Defers`). After a crash the memo answers by position.

* `ConvergedIsVerified`: in a process of its own that heard every reviewer,
  convergence means review, build and integration passed on the tree as it is.
* `BlockedIsDecision`: when every reviewer was heard, the node hands over to a
  human only if somebody refused and a fixer has nothing to do: nobody died, no
  finding is open for one, every refusal left a deferred finding or none, and
  an upstream owner's is left only when no route-back is. So there may be
  nothing deferred to decide about (section 6).

### AgentCalls

The working tree is a set of authors per path. In the `"verify"` lane the
read-only reviewers run in a pool; in the `"red"` lane the RED review overlaps
the implementer. A call passes the fuses, runs attempts, edits any path
whatever its access mode, and ends; it is charged, then compared with its
snapshot and restored or quarantined. git may fail at each use.

* `EditIsReported`: overlapping reviewers restore each other's edits, so the
  call that is failed need not be the one that wrote; some call is failed for
  every path.
* `MergedReviewIsClean`: what the join of the reviewers promises.
* `ImplementerSurvives`: the join of the RED review takes an edit of the
  implementer away only when the work is rejected, or when the implementer
  declared other files and not this one, HEAD has it, it is no test of the
  phase, and the review was blamed for it. The implementer may declare any list.

### AgentBackend, Judge, Services, ExtensionSession

`AgentBackend`: a call is delegated (request, answer matched by its number,
structured mode that degrades, one correction, one retry after a pause) or
runs in a session (creation, prompt, correction). A child is an agent at work.
`NoOrphan`: a child at work is awaited, and after an abort only a session that
could not hear it goes on. `CallEnds`: a call ends although nobody answers.

`Judge`: per failure signature a request may be asked, retried after a
time-out, corrected; several loops ask at once. `JudgeBudget`: the budgets of
signature and run hold, and every answered call is in the audit.

`Services`: candidates of a role are started one after the other and polled on
a port until something answers. `ServicesGo`: a started process ends.
`ReadyIsOwn`: a role is ready because its own process answered, or one of the
exceptions of section 6 held the port.

`ExtensionSession`: each evaluation of the module has its own state; the guard
belongs to the process. `GuardHolds`: one run at a time, and the run admitted
last stays guarded. `NoteReachesAgents`: an accepted input is in the prompt of
every later agent of the track. `ShutdownIsHonest`: a shutdown names exactly
what is under way in its evaluation.

### Flywheel

Runs of several tracks close out at the same time: each reads the ledgers,
scores, validates, clusters, drafts and rewrites the shared state, one action
per durable step. `RedraftIsEarned`: two drafts of a cluster are apart by new
runs, unless two processes had the state in hand at once or a write was lost.

## 3. Runs

| run | instance | shows |
|---|---|---|
| `lock_pair` | 2 processes | what an owner of the lock can rely on, and termination |
| `walk_all` | walker: 3 stages, owners 1 and 2, edge budget 1, 2 inline jumps, 2 starts, kills, failing writes (the epoch file's alone too), carried debts delivered in part. Tree: 2 processes, 3 turns (runs plus mishaps: one run with two mishaps, two runs with one, three with none) | walker properties and refinement; ledger and status |
| `loop_all` | 2 rounds, ceiling 4, extension 4, fuse 2, 3 processes, 1 route-back, 1 agent error or failed append, 1 detour, 6 live calls | exact replay |
| `spec_all` | findings owned upstream, here and by the plan, and the gate's; 2 rounds, extension 1, 5 calls, 1 jump, 1 crash, 1 struck-off anchor | trace, approval, persistence |
| `replan_all` | 3 stages, 2 owners, 2 findings, 2 rounds, 1 failed or torn write; fair | the circuit |
| `phase_all` | 3 phases, 1 partial re-entry, 6 calls, 1 mishap; in place and in a worktree; fair | stamps, work, termination |
| `attempt_all` | 2 attempts, 2 RED tries, 1 environment restart, judge route, review reject and re-author, recurrence limit 2, 5 calls, 2 judge calls; fair | an attempt's promises, termination |
| `gates_all` | 8 worlds of one and several languages, 1 edit (2 where two subjects of one language meet), 1 faulty gate | releases and green phases |
| `verify_all` | code and adversarial reviewer that approve, reject, reject without a finding or send upstream; one role, 4 calls, 2 processes, 1 jump | what convergence and a stop mean |
| `calls_all` | 3 reviewers in a pool of 2, 3 budget units, cap 2, 1 retry, 3 paths (tracked, new, test file), a dirty tree, git failures | the boundary and the joins |
| `flywheel_all` | 3 runs of 2 tracks, 2 versions, 1 event, thresholds 1, 1, 2, 2, 2 | drafts |
| `session_all` | set-up: 2 processes, 1 track, 2 runs, 2 failures of git. Backend: 2 calls at a time, 3 in all, degrading at 2. Judge: 2 signatures, budgets 2 and 3. Services: 2 candidates, 2 processes. Extension: 2 runs, 2 evaluations, 2 notes, queue of 1, 1 replan round, 1 failed read or write | the parts around the pipeline |

**Why the bounds are enough.** Two processes are the least that interleave on
the lock and on a track. Three stages with two owners give overlapping
back-edges and a stage between; one jump per edge and one resume exhaust a
budget across a kill. Two rounds, a ceiling of four and an extension larger
than what remains reach every branch of the round arithmetic; three processes
resume a run that was itself resumed. One torn or failed write at any place,
with kills unbounded, covers every single cut of the trigger. Three phases are
the least with one before and one behind a failing one. Two attempts let a
second one see what the first left; one unit of every other ladder shows each
way back once, and the next refusal. Two edits make a subject bad and repair
it, or two subjects bad; one is enough where the world has a single failure to
release. Six live calls are both rounds with a bounce and a detour. Three
reviewers in a pool of two leave one queued while two overlap. Three close-outs
are the least in which two drafts may have a run between them. Two notes
against a queue of one reach its limit. Where a mishap is bounded to one, the
property is about the single fault; two at once are in the tree and the set-up,
where an exception depends on another. The
proofs remove the bounds for the properties they cover.

`CHECK_DEADLOCK FALSE` is set where the modelled part may stop (lock, walker,
loop, calls, phases, gates, flywheel, the parts of the session). The circuit
can always start another session, and an attempt, a verification and a
specification stutter only at their ends, so those four runs check deadlock.

**Fairness.** Only weak fairness is assumed, and never of kills, users or
agents that need not answer. `RunLock`: each acquire step, release and clear,
synchronous code of a process that keeps running (a dead one satisfies the
property). `ReplanCircuit`: the system's own steps in a run that the wall fuse
bounds. `PhaseLoop` and `AttemptLoop`: the loop's next step; an agent or a
command that never answers is ended by its timer, so some outcome comes.
`AgentBackend`: timers fire, a session is created or its creation fails, and a
stopped session ends its prompt; children need not answer. `Services`: waits
and tests have time limits and timers fire; a process need neither serve nor
end by itself.

**Mutants.** Each checked property has a changed form of one mapped definition
(an inclusive budget, a dropped guard, a skipped invalidation, a missing
reset), defined before the original with a comment, under which TLC finds that
property violated.

## 4. Proofs

Each component's inductive invariant is proved with one step per action, and
the theorems are derived from it. Every safety property that a run checks is a
theorem; TLC checks it on the instance of section 3, the theorem says it for
every value of the constants (any number of processes, stages, phases,
findings, reviewers, any caps and budgets, any bound on kills and faults).

| component | theorems | rests on |
|---|---|---|
| `RunLock` | `TypeCorrect`, `HolderVisible` (an unrobbed holder's pid is in the file), `Respected` | an unrobbed process past its creation is the creator of the file, and has written its pid once it holds |
| `RunTree` | `RunTreeTypeCorrect`, `LedgerForm`, `LedgerTells`, `Success` | the ledger is bracketed by the run in progress and paired with the stage being executed (`LedgerInv`); what the values say at each stage (`Walked`) |
| `Flywheel` | `Redrafts` | the registry covers every draft but those of the process that is drafting (`Coherent`) |
| `RoutingWalker` | `TypeCorrect`; `Invalidated`, `OwedRuns`; `Journaled` (no jump without an entry) and `BudgetKept` (the refinement of `RouteBudget`) | no row of the suffix is left between invalidation and entry (`Cleared`), an owner that owes a run has moved on from its recorded revision or has a pending request (`MovedOn`); what was taken is in the journal since the run began, and what the epoch does not see was paid for by closed accounts (`Filed`, `Granted`) |
| `ArtifactLoop` | `TypeCorrect`, `Bounded` (replayed and fresh rounds under the ceiling but for two), `Replayed` | the cap is at most the ceiling or one past the replayed rounds, plus one when extended; the file is one chain of calls (`Chain`, `Counted`, `Placed`) |
| `SpecConvergence` | `SpecTypeCorrect`, `Traced`, `Closed`, `Remembered` | how ledger, file and pending requests agree at each point of a round (`SpecInv`) |
| `ReplanCircuit` | `TypeCorrect`, `BudgetKept`, `Addressed`, `Revises` (a restart finds nothing stale) | rounds on file are what was charged since the file was lost last; a pending request that was not cut has no recorded approval to replay |
| `PhaseLoop` | `PhaseTypeCorrect`, `Stamps`, `Saved`, `LoopWinding` | one row per phase; the stamps of a pass are of the instructions it was entered with (`PassInv`, `LoopInv`) |
| `AttemptLoop` | `AttemptTypeCorrect`, `Confirmed`, `KeepsTests`, `Joined`, `Winding` | the accepted suite is the snapshot, and on disk whenever gates have passed judgement (`TestsInv`); a review in flight began with a confirmed suite (`ReviewInv`) |
| `Gates` | `GatesTypeCorrect`, `Earned`, `Met` | a remembered "preexisting" says that every subject it was asked about fails at the base (`VerdictsHold`); a phase that is red only for others met its clauses when it was measured (`BlockedIsOwn`) |
| `VerifyLoop` | `VerifyTypeCorrect`, `Verified`, `Decision` | each piece of evidence on the way to the end is of the tree as it is (`Evidenced`) |
| `AgentCalls` | `TypeCorrect`, `Overshoot` (the charge exceeds the cap by less than one call's attempts per slot), `EditsReported`, `MergedClean`, `KeptAttributed`, `ImplementerSafe` | see below |
| `TrackSetup` | `SetupTypeCorrect`, `Survival`, `OneRun` | where the rows of a track are while it moves (`RowsInv`); who is past the lock holds it, and no two are past the check of the other place (`LocksInv`) |
| `Judge` | `JudgeTypeCorrect`, `JudgeBudgetKept`, `Grounding` | while a request waits for its first answer nobody else has counted for its signature, so the count it read is still true (`FirstIsCounted`) |
| `AgentBackend` | `BackendTypeCorrect`, `Awaited` (`NoOrphan`), `Fits` (a control fits its schema as far as the code looks) | a step of one call ends or stops its child, or awaits a new one (`AwaitedBy`); numbers in use and sessions being created together are no more than the calls made, and nobody shares a number (`NumbersInv`) |
| `Services` | `ServicesTypeCorrect`, `Ready` | on the port in hand there runs nothing but the candidate awaited and what was told to end (`Ports`) |
| `ExtensionSession` | `ExtensionTypeCorrect`, `Guarded`, `Reached`, `Honest` | without the escape hatch the guard names the only run there is (`GuardInv`); every note is in one queue, in one file, or past everyone it is due to (`NotesInv`) |

The arguments that are not visible from the code:

* **Agent calls.** `EditIsReported` speaks of calls that ended; while a call
  runs, its edit must still be in the tree unless someone was blamed for the
  path (`Watched`). That is kept because whoever restores a path has just been
  failed for it, and because a call's own edit never is in its own snapshot
  (`Authorship`). The join's promise to the implementer holds for every list it
  may declare: no step but the join takes an edit of it out of the tree while
  it is active, and the join only what `UnderClaimed` says. The bound on the
  cost needs the calls in flight (`CostInv`).
* **Exact replay.** As long as nothing happened that the property excludes,
  the rows of the file are one chain: each but the first names its
  predecessor, there is one for every identity given out, the predecessor's
  outcome decides which role comes next, and within a role occurrence numbers
  and identities grow together. A resumed process stands at a place of that
  chain (`Placed`), so the next lookup either finds the next link or is past
  the end and goes live. A kill inside an append leaves the chain one link
  shorter, which is a chain again. An append that fails, and a gate that
  answers a replayed control otherwise, break the chain; the theorem says
  nothing of a track where one did.
* **Run tree.** `LedgerIsWellFormed` is a property of a whole file, proved by
  what one more line does to it. Unless a cause in `happened` says otherwise,
  the ledger is inside a run just when one has set up and is in progress
  (`Bracketed`), the open stage is the one being executed (`Paired`), and
  numbers are stale only in a process another one has followed (`Numbered`).
  The several lines that one step appends are a fold; that a fold keeps what
  each line keeps is shown by contradiction from the shortest prefix that
  breaks it. `SuccessIsEarned` needs what each stage may assume of the values
  its predecessors left, with the stages a user skipped as excuses.
* **Passes over the phases.** A row is stamped with the instructions of its
  time. During a pass every green row is of the instructions the pass was
  entered with; a pass that has counted no phase yet has walked past no stamp,
  so that a changed instruction drops them all; and a pass ends before its
  last phase only for a reason after which no further pass reports green.
  The carried list never has more rows than the plan has phases because there
  is one row per phase (the pigeonhole principle on the list's indices).
* **Winding down.** That a phase ends for every value of its caps is not seen
  from the code, since a re-prompt or a re-authored suite steps the attempt
  counter back. `Winding` gives a natural number that every step lowers: first
  the attempts left, of which one protection strike gives back a single one,
  then the agents left, then the place in the attempt. `LoopWinding` does the
  same for the passes: mishaps to come (`MaxMishaps`, a bound of the model on
  git faults, restarts and the like), calls left, whether a replan was asked
  for, the place in the pass. It leaves out the steps at the head of a loop
  whose worktree is gone, where the code goes round without spending anything
  (section 6). These are the safety halves of `Ends` and `EndsUnlessGone`;
  that a step is taken while one is possible stays with TLC.
* **The route budget.** The journal holds every jump of the run, but a process
  counts from its epoch on. `Filed` relates the three: jumps taken are at most
  the entries since the run began; those the epoch does not see are at most
  what the closed accounts allowed; and the same for the epoch on disk, or
  there is none. Losing the epoch closes an account, and the next resume counts
  from there.
* **Gates.** The invariant has to be about the cache, not about the gate that
  asks: a verdict computed in an earlier gate is used later, and is right only
  because the merge base does not move during a run. Rust is left out of it:
  its crates share one verdict (section 6).
* **Spec convergence.** The ledger in memory and its file differ only on entry
  and after something was struck off; a downgraded row never blocks, a row of
  a request or a verification is never downgraded; a request's row blocks only
  while the request is pending; a row a later stage sent back is re-attributed
  in the first round or struck off there; error streaks stay below the fatal
  number until the walk is fatal.
* **Rows of a track.** While no cause is recorded, the newer of two places
  holds every row written, the store holds them when the other place is empty
  unless a process has them parked, what is parked holds them, and what is
  about to be unlinked was copied (`Holds`). A larger instance than the run's
  first bounds showed that two failures of git leave rows in two places
  without any of the recorded causes; `"split"` was added to them, and
  the run now allows two failures.
* **Services.** The port of a role is chosen after all processes that were
  ever started, and a process on it was started for this role later; it is the
  candidate being polled or one before it that was given up, hence told.
* **Drafts.** While windows over the state file are disjoint, the copy a
  process drafts from is the file, and the registry in it holds all runs of
  every draft on disk, except that of the drafting process's own, whose keys
  it will not draft twice. A redraft is admitted by runs outside the registered
  ones, which are runs outside any earlier draft's.

**Assumptions.** The assumptions on the constants are the named `ASSUME`s of
the modules; TLC evaluates them in every run. Most say that a bound is a
natural number. Those that say more: the number of retries, rounds or attempts
the code takes as positive is positive; the sets of reviewers, roles and
findings are finite; every agent call of the verification has an identifier of
its own (`VerifyAssumption`); the replan request and the gate are findings
owned by the specification and the gate's is severe (`SpecAssumption`); a
project names its languages and its packages are among its subjects
(`GatesAssumption`); the rows ledger that earlier runs left has rows of the
form the code writes (`FlywheelAssumption`).

**Induction.** The installed provers cannot instantiate an induction theorem.
Where a fact needs one (folds over appended lines, the phases a changed
instruction invalidates, the greatest or least number of a finite set), it is
proved by contradiction from the least counterexample, using that `<` is well
founded on the naturals.

**Model-checked only.** `AcquireTerminates`, `SessionEnds`, `EndsUnlessGone`,
`Ends`, `CallEnds` and `ServicesGo`: they are liveness under fairness, which is
beyond the prover. Of `Ends` and `EndsUnlessGone` the part that is safety is
proved (`Winding`, `LoopWinding`).

## 5. What the models leave out

* *RunLock*: the text of the file, the wait between reads, a pid given to
  another process.
* *TrackSetup*: state files other than the resume cache, the sweep of orphaned
  stores, env files and bootstrap, what makes a task similar to a slug.
* *RoutingWalker*: the content of findings, the log. A stage that is not an
  owner runs in one step. The maps from escalation choices and judge routes
  onto actions are tables.
* *RunTree*: events that open and close no stage, skipping of stages other
  than docs, the fallback of classification, the texts of the merge's limits.
* *ArtifactLoop*: prompts, document text, the ledger (which findings a walk is
  injected with: a gate may answer a replayed control in any way),
  validators (an outcome of the writer), recovery of a control from the text of
  a cached error.
* *SpecConvergence*: normalisation of text, fingerprints and class sweeps (a
  finding is an identity); replayed rounds are `ArtifactLoop`'s.
* *ReplanCircuit*: messages to the owner, the audit log, the sub-cap for
  inherited red, the rules that classify a finding (any owner in `Pairs`).
* *TrackSetup*: two copies of one age. Migration leaves identical ones where
  they are and refuses to choose between different ones
  (`state-root.ts:370-379`); the model's copies differ in age.
* *PhaseLoop*: protection strikes and start-dirt snapshots; the inside of an
  attempt. *AttemptLoop*: prompts, the runner cache, what a gate
  computes; whether a RED call failed or came back without a control
  (`red-tdd-dispatch.ts:125`, `red-oracle-cycle.ts:184`) is one flag, since both
  fail closed.
* *Gates*: tool detection, command lines, parsers, coverage; the accepted RED
  tests as a further condition of the suite. A leak revert and a quarantine
  change the outcome of one subject.
* *VerifyLoop*: the legacy `reviewLoopNode`, `reviewStageNode` and
  `integrationLoopNode`, which no pipeline uses any more.
* *AgentCalls*: a call edits a path once; an attempt costs 1; paths in the spec
  directory; copies in the quarantine; usage rows and markers.
* *AgentBackend*: prompts, models, tool lists, parsing. *Judge*: wording.
  *Services*: how candidates are discovered. *ExtensionSession*: rendering,
  the options of the inline escalation.
* *Flywheel*: the discrimination advisory, the contamination firewall, loaders
  of cases and rubrics, texts of reports.

Not modelled at all, because they are text, I/O or pure functions whose result
the models take as an outcome: protection digests and economy advice, run
metrics and offline reports, team and messages, the watchdog (a kill at any
step), progress tracking and completion audit, discovery and coverage, review
contracts, rendering, prompts and templates, safety guards, set-up details,
inline escalation and configuration, engine support.

## 6. Where code and documentation disagree

The models follow the code. Where it does something else than a comment, a doc
or its evident purpose says, the property above is stated for what the code
guarantees, and the difference is listed here.

**Lock and set-up**

* Two runs hold the lock after a steal (`run-lock.ts:113` against `:17`):
  the file removed need not be the one that was judged. With three processes a
  release may also remove another's file.
* The cache is cleared after the lock is released (`pipeline.ts:78-84`): a run
  that takes the track in between loses its rows, and its track is marked
  complete.
* A checkout or roll-back that restores a tracked ledger gives it a new mtime,
  and newest wins (`state-root.ts:348`). git failing once and then answering
  leaves rows in two places, of which the in-spec ones are dropped
  (`state-root.ts:364`); failing twice, two runs share a track.
* A fresh track may get the number of an unmerged one, because only the main
  checkout is read (`setup.ts:237`, `:243` against `:118-121`). `.complete` is
  never removed, so a re-entered track that is killed is not found again.
* A kill between parking and restoring leaves `.sd-untrack-tmp`, which nothing
  recovers (`runtime-state-git.ts:131-153`). The reuse search looks only at
  worktrees, and the migration before the load runs without a lock.

**Routing, replay and replan**

* A fresh run killed before its first jump is resumed under an older run's
  epoch (`journal.ts:231` against `:143`).
* The epoch file is written best effort (`journal.ts:208`). Without it a resume
  counts from the last entry, and every edge of the run has its budget again,
  though "ALL of its jumps count against the resumed budget (never re-arm ...)"
  (`journal.ts:204-206`).
* A carried exit ignores the result of both its writes
  (`feedback.ts:182-183`). When both fail, the gate finds neither a request
  nor a new revision and fast-forwards the owner of the debt, against
  "the re-injects at the owner's round 1 contract" (`feedback.ts:145-156`).
* A forced exit keeps the record of an earlier approval, and the stage is
  fast-forwarded (`revision-gate.ts:92` against `node.ts:686`).
* A declined route-back has already invalidated, injected and bumped
  (`walker.ts:18-20` says it leaves no trace), and a jump may be charged
  without the owner being prompted (`walker.ts:267`, `replan.ts:160`). The
  inline cap is a local and starts again on a resume (`walker.ts:212`).
* After a cached error is re-run, the cached approval of the previous artifact
  is replayed for the new one (`resume.ts:251` against `:15-16`). The same
  happens without any error: a kill in round 2 leaves the findings of round 1 in
  the ledger, the resume injects them at the walk's entry (`node.ts:215-286`),
  the replayed first control is bounced for not answering them
  (`node.ts:337-361`), and the first review is replayed for what the bounce
  wrote. A failing append is swallowed (`resume.ts:72`): the call goes on
  without a row. A re-dispatch
  inflates the recorded rounds and live errors escape the fuse (`node.ts:312`
  against `resume.ts:337-338`).
* An extension granted at the ceiling runs one round past it
  (`rounds.ts:9-13`), and a resumed loop gets one. A control that a bounced
  re-dispatch returns is reviewed without validation (`node.ts:527-541`).
* A request may be addressed by a replayed approval when its trigger was cut
  (`replan.ts:506`). The winding-down pass records a row behind the drop
  (`stage.ts:1402` against `replan.ts:18-20`). A restart for a decline charges
  no round (`extension.ts:443`). A torn requests file is read as empty and
  resets the rounds. The in-memory cache keeps rows that a route-back drops
  from the file; a human decision is not memoized.

**Specification and ledger**

* What a bounce rewrites is not traced again (`spec-convergence.ts:580`
  against `:648`).
* Supersession reaches the file only (`convergence-ledger.ts:355-391`): the
  next persist puts the in-memory row, still open and blocking, back over it,
  or after a restart drops the row, though "rows retained on disk, visible,
  marked, never deleted". A finding that a later stage sent back and that is
  struck off at entry is told to nobody, keeps blocking, and no approval
  closes it.
* An advisory mention reopens a verified blocker
  (`convergence-ledger.ts:529-530`); the upstream signature stays equal
  (`spec-convergence.ts:865-872`); addressed findings of the stage's own
  starve the extension; rows that do not block vanish from the file after a
  restart.

**Implementation**

* The wind-up's `continue` leaves `allGreen` set (`stage.ts:152` against
  `:146` and `index.ts:190`). A phase that the stage close flips green loses
  its work to the next roll-back and keeps its stamp
  (`checkpoint-rollback.ts:124`, `:171` against `:44-53`).
* Without its worktree the loop is entered for ever (`run-prepare.ts:54`). A
  conflicting reapply resets to HEAD (`checkpoint-rollback.ts:213` against
  `:164`). "binding is null at every call" (`stage.ts:167-171`) is false in a
  resumed run. Only the wall fuse sets `convergenceBlocked`, though
  `index.ts:113` and `:187` speak of a no-progress block.
* A suite re-authored without being seen leaves the RED snapshot stale
  (`red-acceptance.ts:186` against `stage.ts:277-280`). Counters called per
  phase are declared per attempt (`stage.ts:484`, `:488`). Retry with guidance
  leaks the stop reason (`red-judge.ts:231`). The leak revert runs after the
  gates were measured (`gate-suite.ts:192`). A rejected review's discard
  restores dirt from before the phase (`stage.ts:296`). A research assist
  swallows every throw, a fatal one included (`research-assist.ts:438`).
* An implementer that declares some of its files loses the others where the
  review is blamed for them (`phase-status.ts:199-208`, `:304-333`): its edit is
  put back to HEAD although its work is kept.
* The join restores to HEAD a path that was dirty before the review started
  (`phase-status.ts:329` against `:187-188`). A salvaged verdict does not show
  that the reviewer "demonstrably wrote nothing" (`phase-status.ts:216-220`).
  A call that throws never reaches the cost fuse.

**Gates**

* The package a failing go block names is never in the diff, so every failing
  go block is out of scope, in a touched package too (`scope.ts:409`, `:459`,
  `:478-483` against `:509-514`). Paths of a nested python module lack its
  prefix; a node block under another primary language is released unverified;
  of two go modules only one is verified; crates share one verdict.
* `git diff` and `git ls-files` fail apart (`scope.ts:84-114`). When only the
  diff fails, the list holds untracked files only, is not empty, and a test
  that the branch modified is out of scope (`scope.ts:541-561`), though an
  unknown touched set is to be read as in scope.
* The re-run for a flake turns a phase green on the deliverable check of the
  failed gate, which left the required tests out
  (`inherited-red-ladder.ts:175-189` against `gate-suite.ts:132`). Leaked files
  are put back after the gate and the deliverables were measured, and nothing
  is measured again (`gate-suite.ts:182-193`).
* "unknown" from a passing failure of git is cached for the process
  (`baseline.ts:442`). The tail of twelve lines may name only some failures. A
  changed manifest does not reinstall while `node_modules` exists
  (`build-gate.ts:340`).

**Verification**

* The node converges on a tree edited after its review (`nodes.ts:87`). A
  reviewer that dies in the first attempt, with a green build, ends as
  "blocked on human decision" with nothing to decide, and so does one that
  rejects and leaves no finding, or only findings said to be resolved
  (`helpers.ts:283`, `:304-307`, `:384-386`): `nodes.ts:103` speaks of "all
  findings demoted to the ledger", and there are none. Replayed fixes shift the
  memo's positions (against `evidence.ts:364-374`). Rounds without recurrence
  do not reset the infrastructure counter (`evidence.ts:435`). Commits of an
  agent leave the tree's signature unchanged.

**Run tree and run log**

* A fatal abort inside a task leaves its stage open before `run.completed`
  (INV-L6, `nodes.ts:300-303`); a writer that fails to render ends its stage
  twice (`nodes.ts:272-279`, `:868-899`); a killed run followed by another
  violates INV-L5 and INV-L6; the number of the last line, cached per process
  (`runlog.ts:158`), goes stale when another process runs on the track
  (INV-L1, against "no concurrent writers by construction").
* A user's cancel that surfaces as a fatal abort beside the wall marker is
  reported as partial. `topic.snapshot` folds the whole file, earlier runs
  included. Skipping the implementation makes its loop run for ever. A failed
  `git status` reads as a clean tree to the merge's verification, and skipping
  the pre-merge build or the clean-up lets a run succeed without a merge.

**Around the pipeline**

* Backends: a corrective prompt has neither timer nor listener; a session
  ignores a signal that was aborted early; the sticky degrade is undone by a
  concurrent success; the tool budget is looked at after the prompt; a session
  leaks when its prompt throws; a correction's control is accepted unchecked.
* Services: a slow predecessor may answer its successor's poll; the unref'd
  watchdog is lost on exit; a second role without a port leaks the first
  service; a fixed port is not honoured (`StartSpec.port`, lines 36-42), since
  `opts.port` is always given.
* Extension: an overlapping run overwrites the earlier run's guard; input
  accepted after the last agent call is dropped although it is "queued for
  next checkpoint" and delivery is "guaranteed" (`user-notes.ts`); a notes
  file that cannot be read counts as empty and is overwritten
  (`user-notes.ts:145-150`, `:187`); background work of an evaluation already
  shut down is named by nobody.
* Flywheel: the memoized scorer is replayed under a new run id, so one
  evaluation counts as two "distinct runs" (`flywheel.ts:90-92`); a malformed
  state is "rebuilt" without its proposal history (`:155-167`); one torn line
  makes the metrics ledger empty for ever (`eval-stage.ts:640-649`);
  concurrent close-outs overwrite the state whole.

## 7. What is left to do

1. Composition of `ReplanCircuit` and `RoutingWalker` over their common files,
   and of `PhaseLoop` with `AttemptLoop` through an abstract attempt, with the
   refinements proved step by step.
2. The protection intervals' strikes as state of `PhaseLoop`.
3. Text-level functions with a bounded reference: identity of findings in the
   ledger, package paths of the gates.
