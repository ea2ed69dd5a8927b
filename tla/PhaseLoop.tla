----------------------------- MODULE PhaseLoop -----------------------------
(***************************************************************************)
(* The implementation stage over its phases and over the convergence loop  *)
(* that re-enters it (src/src/stages/index.ts, stages/implementation/      *)
(* stage.ts, run-prepare.ts, phase-entry.ts, phase-rollback.ts,            *)
(* phase-tail.ts, phase-status.ts, stage-close-reverify.ts, and            *)
(* stages/checkpoint-rollback.ts): the carried phase list, the git tree    *)
(* every pass works in, and the stashes that keep what is taken out of it. *)
(*                                                                         *)
(* The attempts of one phase are one step here: AttemptLoop opens it.  The *)
(* tree is seen through the deliverables of each phase: p is in the tree   *)
(* when phase p's deliverables are satisfied by what is committed or       *)
(* dirty.                                                                  *)
(***************************************************************************)
EXTENDS Naturals, Sequences, FiniteSets, FiniteSetsExt

CONSTANTS
  NumPhases,
  MAX_PARTIAL_REENTRIES,
  Reasons,          \* the texts a phase's failures can end on
  InPlaceModes,     \* SUBSET BOOLEAN: runs without a worktree of their own
  SpawnBudget,        \* the spawn budget of one process
  MaxMishaps        \* bound: restarts, new instructions, git faults, removals

ASSUME PhaseAssumption ==
  /\ {NumPhases, MAX_PARTIAL_REENTRIES, SpawnBudget, MaxMishaps} \subseteq Nat
  /\ InPlaceModes \subseteq BOOLEAN

Phase == 1 .. NumPhases
NoReason == "none"

(* The signature a partial ends on: the reasons, and the judge's diagnosis *)
(* when the RED judge gave one.                                            *)
Sig == [reason : Reasons \cup {NoReason}, diag : BOOLEAN]
NoSig == [reason |-> NoReason, diag |-> FALSE]

(* A row of phaseStatus.  "under" is history: the instructions in force    *)
(* when the pass that wrote the row began.                                 *)
Row == [id : Phase, status : {"green", "partial"}, reEntries : Nat,
        sig : Sig, under : Nat]

NoStash == [phase |-> 0, work |-> {}]

VARIABLES
  \* the worktree
  log,            \* commits of the branch: the phase of the subject, the work
  uncommitted,    \* the work that is dirty
  kept,           \* work in the other stashes and in detached commits
  gone,           \* the worktree was removed from outside
  inPlace,        \* worktreeCreated === false
  \* state.implementation, carried from pass to pass
  phaseStatus,
  lastFailures,
  pendingRollbackStash,  \* of which phase, with what
  baseline,       \* stageEntryBaselineCommit: how many commits it has below
  control,        \* what the last pass returned
  \* the process
  step,
  at,             \* the phase the pass is at
  allGreen, convergenceBlocked, phasesCompleted,
  envBlocked,     \* envBlockedPhases
  entered,        \* the instructions when the pass began
  instructions,   \* runtimeInstructionFingerprint
  replanPending,
  resumed,        \* options.resume
  callsLeft,      \* agent calls left
  mishaps

repository == <<log, uncommitted, kept>>
place == <<gone, inPlace>>
carry == <<phaseStatus, lastFailures, pendingRollbackStash, baseline, control>>
pass == <<step, at, allGreen, convergenceBlocked, phasesCompleted, envBlocked, entered>>
outside == <<instructions, replanPending, resumed, callsLeft, mishaps>>
phaseVars == <<repository, place, carry, pass, outside>>

Budgeted == callsLeft > 0

Spend(n) == IF callsLeft > n THEN callsLeft - n ELSE 0

----------------------------------------------------------------------------
(* The phase list.                                                         *)

RowsOf(p) == {i \in DOMAIN phaseStatus : phaseStatus[i].id = p}
Has(p, st) == \E i \in RowsOf(p) : phaseStatus[i].status = st
IsGreen(p) == Has(p, "green")
IsPartial(p) == Has(p, "partial")

(* phaseStatusUpsert: replaces the row of the id, or appends one           *)
Upserted(rows, r) ==
  IF \E i \in DOMAIN rows : rows[i].id = r.id
  THEN [i \in DOMAIN rows |-> IF rows[i].id = r.id THEN r ELSE rows[i]]
  ELSE Append(rows, r)

GreenRow(p) == [id |-> p, status |-> "green", reEntries |-> 0, sig |-> NoSig,
                under |-> entered]

(* The already-satisfied wall writes its row before the tail does, which   *)
(* leaves the tail no signature to compare with.                           *)
PartialRow(p, sig, hitWall) ==
  LET same == /\ ~hitWall
              /\ \E i \in RowsOf(p) : /\ phaseStatus[i].status = "partial"
                                      /\ phaseStatus[i].sig = sig
      prior == IF same THEN phaseStatus[CHOOSE i \in RowsOf(p) : TRUE].reEntries + 1 ELSE 0
  IN [id |-> p, status |-> "partial", reEntries |-> prior, sig |-> sig,
      under |-> entered]

(* the pass skips a partial phase that keeps ending on the same signature  *)
Hopeless(p) ==
  \E i \in RowsOf(p) :
    /\ phaseStatus[i].status = "partial"
    /\ phaseStatus[i].reEntries >= MAX_PARTIAL_REENTRIES
    /\ phaseStatus[i].sig = [reason |-> lastFailures[p], diag |-> FALSE]

laterPhasesRan(p) == \E i \in DOMAIN phaseStatus : i > p

----------------------------------------------------------------------------
(* The tree.                                                               *)

WorkOf(commits) == UNION {commits[i].work : i \in DOMAIN commits}
Satisfied == WorkOf(log) \cup uncommitted
Everything == Satisfied \cup kept \cup pendingRollbackStash.work

(* latestGreenCommitBefore ?? baseline: how much of the log a roll-back to *)
(* before phase p keeps                                                    *)
CommitsBefore(p) == {i \in DOMAIN log : i > baseline /\ log[i].phase \in 1 .. p - 1}
RollbackTarget(p) ==
  IF CommitsBefore(p) = {} THEN baseline ELSE Max(CommitsBefore(p))

(* deterministicPhaseCommit.  phase 0 is a subject the engine cannot read  *)
(* back: the orchestrator's commit.                                        *)
Committed(p) ==
  /\ log' = IF uncommitted = {} THEN log ELSE Append(log, [phase |-> p, work |-> uncommitted])
  /\ uncommitted' = {}
  /\ UNCHANGED mishaps

Mishap == mishaps < MaxMishaps /\ mishaps' = mishaps + 1
GitFails == Mishap

----------------------------------------------------------------------------
PhaseInit ==
  /\ log = <<>> /\ uncommitted = {} /\ kept = {}
  /\ gone = FALSE /\ inPlace \in InPlaceModes
  /\ phaseStatus = <<>> /\ lastFailures = [p \in Phase |-> NoReason]
  /\ pendingRollbackStash = NoStash /\ baseline = 0
  /\ control = [allGreen |-> FALSE, blocked |-> FALSE, stale |-> FALSE, seen |-> 0]
  /\ step = "loop" /\ at = 1
  /\ allGreen = FALSE /\ convergenceBlocked = FALSE /\ phasesCompleted = 0
  /\ envBlocked = {} /\ entered = 0 /\ instructions = 0
  /\ replanPending = FALSE /\ resumed = FALSE /\ callsLeft = SpawnBudget
  /\ mishaps = 0

IterateUnbudgeted == ~control.allGreen /\ ~control.blocked /\ ~replanPending

(* §D: shouldIterateImplementation *)
shouldIterate == ~control.allGreen /\ ~control.blocked /\ ~replanPending /\ Budgeted

LeaveLoop ==
  /\ step = "loop" /\ ~shouldIterate
  /\ step' = "ended"
  /\ UNCHANGED <<repository, place, carry, at, allGreen, convergenceBlocked,
                 phasesCompleted, envBlocked, entered, outside>>

(* prepareImplementationRun returns early: the stage's result replaces     *)
(* everything the passes before it carried                                 *)
EarlyResult ==
  /\ control' = [control EXCEPT !.allGreen = FALSE, !.blocked = FALSE, !.stale = FALSE]
  /\ phaseStatus' = <<>>
  /\ lastFailures' = [p \in Phase |-> NoReason]
  /\ pendingRollbackStash' = NoStash
  /\ kept' = kept \cup pendingRollbackStash.work
  /\ baseline' = Len(log)
  /\ UNCHANGED <<log, uncommitted, place, pass, instructions, resumed, callsLeft, mishaps>>

FindWorktreeGone ==
  /\ step = "loop" /\ shouldIterate /\ gone
  /\ EarlyResult /\ UNCHANGED replanPending

(* the once-per-run feasibility check and entry gate route back to a planner *)
PlanInfeasible ==
  /\ step = "loop" /\ shouldIterate /\ ~gone
  /\ phaseStatus = <<>> /\ entered = 0 /\ at = 1
  /\ EarlyResult /\ replanPending' = TRUE

(* changed runtime instructions drop the stamps and the failures, never    *)
(* the baseline or the stash                                               *)
EnterPass ==
  /\ step = "loop" /\ shouldIterate /\ ~gone
  /\ LET invalid == control.stale \/ control.seen # instructions
     IN /\ phaseStatus' = IF invalid THEN <<>> ELSE phaseStatus
        /\ lastFailures' = IF invalid THEN [p \in Phase |-> NoReason] ELSE lastFailures
  /\ step' = "walk" /\ at' = 1
  /\ allGreen' = TRUE /\ convergenceBlocked' = FALSE /\ phasesCompleted' = 0
  /\ envBlocked' = {} /\ entered' = instructions
  /\ UNCHANGED <<repository, place, pendingRollbackStash, baseline, control, outside>>

----------------------------------------------------------------------------
(* The walk over the phases.                                               *)

Walking == step = "walk" /\ at <= NumPhases

DeferToReplan ==
  /\ Walking /\ replanPending
  /\ step' = "close"
  /\ UNCHANGED <<repository, place, carry, at, allGreen, convergenceBlocked,
                 phasesCompleted, envBlocked, entered, outside>>

(* runFuseWindDown blocks at the boundary: time is not modelled *)
FuseAtBoundary ==
  /\ Walking /\ ~replanPending
  /\ convergenceBlocked' = TRUE /\ allGreen' = FALSE /\ step' = "close"
  /\ UNCHANGED <<repository, place, carry, at, phasesCompleted, envBlocked, entered, outside>>

SkipGreen ==
  /\ Walking /\ ~replanPending /\ IsGreen(at)
  /\ phasesCompleted' = phasesCompleted + 1
  /\ at' = at + 1
  /\ UNCHANGED <<repository, place, carry, step, allGreen, convergenceBlocked, envBlocked,
                 entered, outside>>

(* the continue of the wind-up bound: allGreen is left as it is *)
SkipHopeless ==
  /\ Walking /\ ~replanPending /\ Hopeless(at)
  /\ at' = at + 1
  /\ UNCHANGED <<repository, place, carry, step, allGreen, convergenceBlocked, phasesCompleted,
                 envBlocked, entered, outside>>

Reached == Walking /\ ~replanPending /\ ~IsGreen(at) /\ ~Hopeless(at)

EnterPhase ==
  /\ Reached /\ ~laterPhasesRan(at)
  /\ step' = "enter"
  /\ UNCHANGED <<repository, place, carry, at, allGreen, convergenceBlocked,
                 phasesCompleted, envBlocked, entered, outside>>

(* a re-entered phase after which others ran: downstream dirt goes to a    *)
(* stash, the branch back to the last commit of an earlier phase, and the  *)
(* rows of the later phases go                                             *)
Invalidated(p) ==
  LET upTo[i \in 0 .. Len(phaseStatus)] ==
        IF i = 0 THEN <<>>
        ELSE IF phaseStatus[i].id <= p THEN Append(upTo[i - 1], phaseStatus[i]) ELSE upTo[i - 1]
  IN upTo[Len(phaseStatus)]

RollBack ==
  /\ Reached /\ laterPhasesRan(at) /\ ~inPlace /\ ~gone
  /\ LET keep == RollbackTarget(at)
         detached == WorkOf(SubSeq(log, keep + 1, Len(log)))
     IN /\ log' = SubSeq(log, 1, keep)
        /\ IF uncommitted = {}
           THEN kept' = kept \cup detached /\ UNCHANGED pendingRollbackStash
           ELSE /\ kept' = kept \cup detached \cup pendingRollbackStash.work
                /\ pendingRollbackStash' = [phase |-> at, work |-> uncommitted]
  /\ uncommitted' = {}
  /\ phaseStatus' = Invalidated(at)
  /\ step' = "enter"
  /\ UNCHANGED <<place, lastFailures, baseline, control, at, allGreen, convergenceBlocked,
                 phasesCompleted, envBlocked, entered, outside>>

(* in place, or a push or a reset that fails and is undone *)
RollBackSkipped ==
  /\ Reached /\ laterPhasesRan(at)
  /\ \/ (inPlace \/ gone) /\ UNCHANGED mishaps
     \/ GitFails
  /\ step' = "enter"
  /\ UNCHANGED <<repository, place, carry, at, allGreen, convergenceBlocked, phasesCompleted,
                 envBlocked, entered, instructions, replanPending, resumed, callsLeft>>

(* a resumed run stamps a phase whose deliverables are met and pass the    *)
(* gates: no attempt, no commit                                            *)
EnterSatisfied ==
  /\ step = "enter" /\ resumed /\ ~gone /\ at \in Satisfied
  /\ phaseStatus' = Upserted(phaseStatus, GreenRow(at))
  /\ lastFailures' = [lastFailures EXCEPT ![at] = NoReason]
  /\ phasesCompleted' = phasesCompleted + 1
  /\ at' = at + 1 /\ step' = "walk"
  /\ UNCHANGED <<repository, place, pendingRollbackStash, baseline, control, allGreen,
                 convergenceBlocked, envBlocked, entered, outside>>

(* The attempts of a phase write deliverables of their own phase and of    *)
(* earlier ones; what they write of later phases the gate suite takes      *)
(* back.  One call stands for all of theirs.                               *)
Attempts ==
  /\ step = "enter" /\ Budgeted /\ ~gone
  /\ \E w \in SUBSET (1 .. at) : uncommitted' = uncommitted \cup (w \ WorkOf(log))
  /\ callsLeft' = callsLeft - 1
  /\ step' = "attempts"
  /\ UNCHANGED <<log, kept, place, carry, at, allGreen, convergenceBlocked,
                 phasesCompleted, envBlocked, entered, instructions, replanPending,
                 resumed, mishaps>>

----------------------------------------------------------------------------
(* The tail of a phase.                                                    *)

PendingHere == pendingRollbackStash # NoStash /\ pendingRollbackStash.phase = at
NeverReleased == {}

StashReleased == IF PendingHere THEN pendingRollbackStash.work ELSE {}

(* preservePartialPhase: git stash push of what is dirty.  A stash pending *)
(* for this phase is only kept from here on.                               *)
Preserve ==
  \/ /\ ~inPlace /\ ~gone /\ UNCHANGED mishaps
     /\ kept' = kept \cup uncommitted \cup StashReleased
     /\ uncommitted' = {}
  \/ /\ IF inPlace \/ gone THEN UNCHANGED mishaps ELSE GitFails
     /\ kept' = kept \cup StashReleased
     /\ UNCHANGED uncommitted

(* why a phase stops: the fuse blocks the convergence loop, the removed    *)
(* worktree ends the pass, a routed replan defers the rest                 *)
Stops == {"failed", "environment-blocked", "wall-fuse", "worktree-gone", "replan", "wall"}

StopPossible(stop) ==
  CASE stop = "worktree-gone" -> gone /\ Budgeted
    [] stop = "wall-fuse" -> Budgeted
    [] stop = "failed" -> step = "attempts" \/ ~Budgeted
    [] OTHER -> step = "attempts"

TailPartial(stop) ==
  /\ step \in {"enter", "attempts"} /\ StopPossible(stop)
  /\ Preserve /\ UNCHANGED log
  /\ \E reason \in Reasons, diag \in IF stop = "failed" THEN BOOLEAN ELSE {FALSE} :
       /\ phaseStatus' = Upserted(phaseStatus,
                           PartialRow(at, [reason |-> reason, diag |-> diag], stop = "wall"))
       /\ lastFailures' = [lastFailures EXCEPT ![at] = reason]
  /\ pendingRollbackStash' = IF PendingHere THEN NoStash ELSE pendingRollbackStash
  /\ envBlocked' = IF stop \in {"environment-blocked", "worktree-gone"}
                   THEN envBlocked \cup {at} ELSE envBlocked
  /\ convergenceBlocked' = (convergenceBlocked \/ stop = "wall-fuse")
  /\ replanPending' = (replanPending \/ stop = "replan")
  /\ allGreen' = FALSE
  /\ IF stop = "worktree-gone" THEN step' = "close" /\ at' = at
     ELSE step' = "walk" /\ at' = at + 1
  /\ UNCHANGED <<place, baseline, control, phasesCompleted, entered,
                 instructions, resumed, callsLeft>>

(* all gates passed: the deliverables are in the tree *)
GreenPossible == step = "attempts" /\ ~gone /\ at \in Satisfied

StampGreen ==
  /\ phaseStatus' = Upserted(phaseStatus, GreenRow(at))
  /\ phasesCompleted' = phasesCompleted + 1
  /\ UNCHANGED <<place, lastFailures, baseline, control, allGreen, convergenceBlocked,
                 envBlocked, entered, instructions, replanPending, resumed>>

(* the stash of a roll-back comes back once its phase is green: applied and *)
(* dropped, or in conflict, the tree reset to HEAD and the stash retained   *)
Reapply ==
  IF ~PendingHere
  THEN step' = "walk" /\ at' = at + 1 /\ UNCHANGED pendingRollbackStash
  ELSE step' = "reapply" /\ UNCHANGED <<at, pendingRollbackStash>>

TailGreen ==
  /\ GreenPossible /\ StampGreen
  /\ UNCHANGED kept
  /\ \/ ~Budgeted /\ UNCHANGED <<log, uncommitted, callsLeft, mishaps>>
     \/ Budgeted /\ ~inPlace /\ Committed(at) /\ UNCHANGED callsLeft
     \/ /\ Budgeted /\ IF inPlace THEN UNCHANGED mishaps ELSE uncommitted # {} /\ GitFails
        /\ callsLeft' = Spend(1)                       \* the orchestrator commits
        /\ \/ log' = Append(log, [phase |-> 0, work |-> uncommitted]) /\ uncommitted' = {}
           \/ UNCHANGED <<log, uncommitted>>
  /\ Reapply

ReapplyStash ==
  /\ step = "reapply"
  /\ \/ /\ ~gone /\ UNCHANGED kept
        /\ uncommitted' = uncommitted \cup (pendingRollbackStash.work \ WorkOf(log))
     \/ /\ kept' = kept \cup pendingRollbackStash.work
        /\ IF gone THEN UNCHANGED uncommitted ELSE uncommitted' = {}
  /\ pendingRollbackStash' = NoStash
  /\ step' = "walk" /\ at' = at + 1
  /\ UNCHANGED <<log, place, phaseStatus, lastFailures, baseline, control,
                 allGreen, convergenceBlocked, phasesCompleted, envBlocked, entered, outside>>

----------------------------------------------------------------------------
(* The end of a pass.                                                      *)

PhasesDone ==
  /\ step = "walk" /\ at > NumPhases
  /\ step' = "close"
  /\ UNCHANGED <<repository, place, carry, at, allGreen, convergenceBlocked, phasesCompleted,
                 envBlocked, entered, outside>>

(* runStageCloseReverify: partial phases whose deliverables are satisfied  *)
(* after all turn green, each with a commit of its own when the tree is    *)
(* dirty, so the first takes it all                                        *)
Flippable == {p \in Phase : ~gone /\ IsPartial(p) /\ p \notin envBlocked /\ p \in Satisfied}

FlipRows(flips) ==
  [i \in DOMAIN phaseStatus |->
     IF phaseStatus[i].id \in flips THEN GreenRow(phaseStatus[i].id) ELSE phaseStatus[i]]

CloseRows(flips) ==
  /\ phaseStatus' = FlipRows(flips)
  /\ lastFailures' = [p \in Phase |-> IF p \in flips THEN NoReason ELSE lastFailures[p]]
  /\ IF flips # {} /\ Budgeted /\ ~inPlace
     THEN Committed(Min(flips)) \/ (uncommitted # {} /\ GitFails /\ UNCHANGED <<log, uncommitted>>)
     ELSE UNCHANGED <<log, uncommitted, mishaps>>

ForcedGreen == /\ Len(phaseStatus') = NumPhases
               /\ \A i \in DOMAIN phaseStatus' : phaseStatus'[i].status = "green"

UnnoticedChange(done) == FALSE

(* instructions that changed under finished phases void the pass *)
ChangedUnder(done) == instructions # entered /\ done > 0

(* the locals of the pass are gone *)
LeavePass ==
  /\ step' = "loop" /\ at' = 1
  /\ allGreen' = FALSE /\ convergenceBlocked' = FALSE /\ phasesCompleted' = 0
  /\ envBlocked' = {} /\ entered' = 0

ClosePass ==
  /\ step = "close"
  /\ \E flips \in SUBSET Flippable :
       /\ CloseRows(flips)
       /\ LET done == phasesCompleted + Cardinality(flips)
              green == allGreen \/ (flips # {} /\ ForcedGreen)
              changed == ChangedUnder(done)
          IN control' = [allGreen |-> green /\ ~changed, blocked |-> convergenceBlocked,
                         stale |-> changed, seen |-> instructions]
  /\ callsLeft' = Spend(1)                             \* the summary
  /\ LeavePass
  /\ UNCHANGED <<kept, place, pendingRollbackStash, baseline, instructions,
                 replanPending, resumed>>

----------------------------------------------------------------------------
(* The surroundings.                                                       *)

Running == step # "ended"

InstructionsChange ==
  /\ Running /\ Mishap
  /\ instructions' = instructions + 1
  /\ UNCHANGED <<repository, place, carry, pass, replanPending, resumed, callsLeft>>

RemoveWorktree ==
  /\ Running /\ ~gone /\ ~inPlace /\ Mishap
  /\ gone' = TRUE /\ uncommitted' = {}
  /\ UNCHANGED <<log, kept, inPlace, carry, pass,
                 instructions, replanPending, resumed, callsLeft>>

(* a kill and a resume: the tree and the stashes stay, the carried state   *)
(* was in memory                                                           *)
Restart ==
  /\ ~gone /\ Mishap
  /\ kept' = kept \cup pendingRollbackStash.work
  /\ phaseStatus' = <<>> /\ lastFailures' = [p \in Phase |-> NoReason]
  /\ pendingRollbackStash' = NoStash /\ baseline' = Len(log)
  /\ control' = [allGreen |-> FALSE, blocked |-> FALSE, stale |-> FALSE, seen |-> instructions]
  /\ LeavePass
  /\ replanPending' = FALSE /\ resumed' = TRUE /\ callsLeft' = SpawnBudget
  /\ UNCHANGED <<log, uncommitted, place, instructions>>

Stage ==
  \/ LeaveLoop \/ FindWorktreeGone \/ PlanInfeasible \/ EnterPass
  \/ DeferToReplan \/ FuseAtBoundary \/ SkipGreen \/ SkipHopeless
  \/ EnterPhase \/ RollBack \/ RollBackSkipped \/ EnterSatisfied \/ Attempts
  \/ \E stop \in Stops : TailPartial(stop)
  \/ TailGreen \/ ReapplyStash \/ PhasesDone \/ ClosePass

PhaseNext == Stage \/ InstructionsChange \/ RemoveWorktree \/ Restart

PhaseSpec == PhaseInit /\ [][PhaseNext]_phaseVars /\ WF_phaseVars(Stage)

----------------------------------------------------------------------------
Commit == [phase : 0 .. NumPhases, work : SUBSET Phase]

PhaseTypeOK ==
  /\ log \in Seq(Commit) /\ uncommitted \subseteq Phase /\ kept \subseteq Phase
  /\ gone \in BOOLEAN /\ inPlace \in BOOLEAN
  /\ phaseStatus \in Seq(Row) /\ Len(phaseStatus) <= NumPhases
  /\ lastFailures \in [Phase -> Reasons \cup {NoReason}]
  /\ pendingRollbackStash \in [phase : Phase, work : SUBSET Phase] \cup {NoStash}
  /\ baseline \in 0 .. Len(log)
  /\ control \in [allGreen : BOOLEAN, blocked : BOOLEAN, stale : BOOLEAN, seen : Nat]
  /\ step \in {"loop", "walk", "enter", "attempts", "reapply", "close", "ended"}
  /\ at \in 1 .. NumPhases + 1
  /\ step \in {"enter", "attempts", "reapply"} => at \in Phase
  /\ allGreen \in BOOLEAN /\ convergenceBlocked \in BOOLEAN
  /\ phasesCompleted \in Nat /\ envBlocked \subseteq Phase
  /\ entered \in Nat /\ instructions \in Nat
  /\ replanPending \in BOOLEAN /\ resumed \in BOOLEAN
  /\ callsLeft \in 0 .. SpawnBudget /\ mishaps \in 0 .. MaxMishaps

(* What an attempt wrote is committed, dirty, in a stash or in a detached  *)
(* commit, whatever the tail, the roll-back and the close do to the tree;  *)
(* a stash in conflict over a tree that was left uncommitted is the        *)
(* exception (checkpoint-rollback.ts:213 resets what nothing saved).       *)
NothingLost ==
  [][\/ gone'
     \/ step = "reapply" /\ uncommitted # {}
     \/ Everything \subseteq Everything']_phaseVars

(* A run that reports all green counts no stamp of a pass that began under *)
(* other runtime instructions than the ones it ended with (stage.ts:1407). *)
NoStaleStamp ==
  control.allGreen /\ step \in {"loop", "ended"} =>
    \A i \in DOMAIN phaseStatus :
      phaseStatus[i].status = "green" => phaseStatus[i].under = control.seen

(* The convergence loop ends, as long as the worktree exists               *)
EndsUnlessGone == []<>(step = "ended" \/ gone)
=============================================================================
