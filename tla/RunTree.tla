------------------------------- MODULE RunTree -------------------------------
(* A run as the engine executes it: the tree of nodes (nodes.ts,             *)
(* stages/index.ts) from set-up to the verified merge, the rows it records,  *)
(* the event ledger it appends to, and the status it ends with.              *)
(*                                                                           *)
(* "requirements" stands for the artifact convergence nodes and              *)
(* "verification" for the tasks of the verification node; their inner loops  *)
(* are modules of their own, and so is the route-back between them. Of the   *)
(* ledger the model keeps what a reader of the whole file can tell: whether  *)
(* checkRunLogInvariants would object, and the last outcome of every stage.  *)
EXTENDS Naturals, FiniteSets, Sequences

CONSTANTS Sessions,        \* processes of pi that run on the track, one at a time
          MaxTurns         \* bound on the runs, and what goes wrong in them, together:
                           \* kills, aborts, throws, agents, git and appends that fail

ASSUME RunTreeAssumption == MaxTurns \in Nat

VARIABLES run,             \* the run in progress, or the last one
          turns,           \* used of MaxTurns
          ledger,          \* events.jsonl
          known,           \* per process: the number of the last line, as it remembers it
          tree,            \* the branch and its worktree
          happened         \* history: what excuses a flaw in the ledger or the status

treeVars == <<run, turns, ledger, known, tree, happened>>

Writers == {"requirements", "docs", "merge"}
Stages == Writers \cup {"setup", "classify", "implementation", "verification", "verificationSkippedReplan",
                        "preMergeBuild", "cleanup", "merge-verify"}
Outcomes == {"ok", "skipped", "failed", "cancelled"}
Tri == {"none", "yes", "no"}

NoValues == [setup |-> FALSE, impl |-> "none", blocked |-> FALSE, review |-> "none", build |-> "none",
             integration |-> "none", preMerge |-> "none", cleanup |-> "none", merged |-> "none"]
NoRun == [by |-> "nobody", pc |-> "none", mid |-> FALSE, skip |-> "none", rows |-> [x \in Stages |-> "none"],
          muted |-> {}, val |-> NoValues, aborted |-> FALSE, end |-> "none", spent |-> FALSE,
          wall |-> FALSE, replan |-> FALSE, status |-> "none"]
NewLedger == [clean |-> TRUE, block |-> "none", open |-> {}, ended |-> [x \in Stages |-> "none"],
              gap |-> FALSE, cut |-> FALSE, zombie |-> FALSE]

RunTreeTypeOK ==
  /\ run.pc \in Stages \cup {"none", "close", "ended", "dead"} /\ run.end \in {"none", "cancelled", "error"}
  /\ run.rows \in [Stages -> Outcomes \cup {"none"}] /\ run.muted \subseteq Stages
  /\ run.val.impl \in {"none", "partial", "green"} /\ run.val.cleanup \in {"none", "clear", "blocked"}
  /\ {run.val.review, run.val.build, run.val.integration, run.val.preMerge, run.val.merged} \subseteq Tri
  /\ run.status \in {"none", "success", "partial", "failed", "replan"}
  /\ ledger.block \in {"none", "open", "closed"} /\ ledger.open \subseteq Stages
  /\ ledger.ended \in [Stages -> Outcomes \cup {"none"}]
  /\ known \in [Sessions -> {"none", "current", "stale"}]
  /\ turns \in 0..MaxTurns
  /\ happened \subseteq {"session", "kill", "lost", "fatal", "agent error", "git"}

\* A new track, or one on which every process but one has run before another did.
RunTreeInit ==
  /\ run = NoRun /\ turns = 0 /\ happened = {}
  /\ tree = [landed |-> FALSE, dirty |-> FALSE, secret |-> FALSE, closed |-> FALSE]
  /\ \/ ledger = NewLedger /\ known = [s \in Sessions |-> "none"]
     \/ /\ ledger = [NewLedger EXCEPT !.block = "closed"]
        /\ \E last \in Sessions : known = [s \in Sessions |-> IF s = last THEN "current" ELSE "stale"]

------------------------------------------------------------------------------
(* The ledger. *)

Event(type, x) == [type |-> type, stage |-> x, fate |-> "written"]
RunStarted == Event("run.started", "setup")
RunCompleted == Event("run.completed", "setup")
Started(x) == Event("started", x)

\* The invariants a reader checks, with one more event: the numbers follow each
\* other, a run's events are bracketed, and a stage is opened once and closed once.
checkRunLogInvariants(l, e, inOrder) ==
  LET opens == e.type = "started" 
      closes == e.type \in Outcomes
      ends == e.type = "run.completed"
  IN [l EXCEPT !.gap = @ \/ ~inOrder,
               !.cut = @ \/ (e.type = "run.started" /\ l.block = "open") \/ (e.type # "run.started" /\ l.block # "open"),
               !.block = IF ends THEN "closed" ELSE "open",
               !.zombie = @ \/ (opens /\ e.stage \in l.open) \/ (closes /\ e.stage \notin l.open) \/ (ends /\ l.open # {}),
               !.open = IF opens THEN @ \cup {e.stage} ELSE IF closes THEN @ \ {e.stage} ELSE @]

\* The last outcome of every stage; what earlier runs left is dropped when a run
\* starts, since the rows it is compared with are its own.
reconstructStageOutcomes(l, e) ==
  IF e.type \in Outcomes THEN [l.ended EXCEPT ![e.stage] = e.type] ELSE l.ended

\* A torn last line is ended first: what it glued onto would be lost with it.
Heals(l) == TRUE

\* One append. A process numbers its lines from memory once it has probed the
\* file; a failed append, torn or not, makes it probe again.
appendRunEvent(at, e) ==
  LET l == at.file
      inOrder == at.number # "stale"
      seen == [checkRunLogInvariants(l, e, inOrder) EXCEPT !.ended = reconstructStageOutcomes(l, e), !.clean = TRUE]
  IN CASE e.fate = "refused" -> [at EXCEPT !.number = "none"]
       [] e.fate = "torn"    -> [file |-> [l EXCEPT !.clean = FALSE], number |-> "none"]
       [] OTHER -> IF Heals(l) THEN [file |-> seen, number |-> IF inOrder THEN "current" ELSE "stale"]
                   ELSE [file |-> [l EXCEPT !.clean = TRUE], number |-> "stale"]

appendRunEvents(at, es) ==
  LET after[i \in 0 .. Len(es)] == IF i = 0 THEN at ELSE appendRunEvent(after[i - 1], es[i])
  IN after[Len(es)]

Fated(es) == {es} \cup {[es EXCEPT ![i].fate = f] : i \in DOMAIN es, f \in {"refused", "torn"}}

\* What goes wrong in a step that also appends, or does not.
GoesWrong(n) == turns + n <= MaxTurns /\ turns' = turns + n

\* Events wait in memory until set-up has made the spec directory; `wrong` is how
\* much else goes wrong in this step, `why` what that adds to the history.
ledgerEvent(there, es, wrong, why) ==
  IF ~there THEN UNCHANGED <<ledger, known>> /\ GoesWrong(wrong) /\ happened' = happened \cup why
  ELSE \E fated \in Fated(es) :
         LET at == appendRunEvents([file |-> ledger, number |-> known[run.by]], fated)
             failed == fated # es
         IN /\ ledger' = at.file
            /\ known' = [s \in Sessions |-> IF s = run.by THEN at.number ELSE IF known[s] = "current" THEN "stale" ELSE known[s]]
            /\ GoesWrong(wrong + IF failed THEN 1 ELSE 0)
            /\ happened' = happened \cup why \cup (IF failed THEN {"lost"} ELSE {})

------------------------------------------------------------------------------
(* The pipeline's conditions (stages/index.ts). *)

hasImplementation(v) == v.impl = "green"
hasVerifiedImplementation(v) ==
  hasImplementation(v) /\ v.review = "yes" /\ v.integration = "yes" /\ v.build = "yes"
canMerge(v) ==
  /\ v.cleanup = "clear" /\ v.impl = "green" /\ v.review = "yes" /\ v.integration = "yes" /\ v.preMerge = "yes"
shouldIterateImplementation(r) == r.val.impl # "green" /\ ~r.val.blocked /\ ~r.replan /\ ~r.spent
shouldRunVerification(r) == hasImplementation(r.val) /\ ~r.replan

AfterImplementation(r) ==
  IF shouldRunVerification(r) THEN "verification" ELSE "verificationSkippedReplan"
AfterDocuments(r) ==
  IF shouldIterateImplementation(r) THEN "implementation" ELSE AfterImplementation(r)

\* PIPELINE_CHILDREN: where the run r may go on from stage x that ended with
\* `outcome`. The outer sequence tolerates failures, the close-out's does not;
\* a convergence node may go round again.
Following(r, x, outcome) ==
  LET orStop(y) == {IF outcome = "failed" THEN "close" ELSE y}
  IN CASE x = "setup" -> {"classify"}
       [] x = "classify" -> {"requirements"}
       [] x = "requirements" -> {"requirements", AfterDocuments(r)}
       [] x = "implementation" -> {IF outcome # "failed" THEN AfterDocuments(r) ELSE AfterImplementation(r)}
       [] x \in {"verification", "verificationSkippedReplan"} ->
            {IF hasVerifiedImplementation(r.val) THEN "docs" ELSE "close"}
       [] x = "docs" -> orStop("preMergeBuild")
       [] x = "preMergeBuild" -> orStop("cleanup")
       [] x = "cleanup" -> orStop(IF canMerge(r.val) THEN "merge" ELSE "close")
       [] x = "merge" -> orStop("merge-verify")
       [] x = "merge-verify" -> {"close"}

Leave(r, x, outcome) == \E pc \in Following(r, x, outcome) : run' = [r EXCEPT !.pc = pc, !.mid = FALSE]
Stop(r, how) == run' = [r EXCEPT !.pc = "close", !.mid = FALSE, !.end = how]
Row(r, x, outcome) == [r EXCEPT !.rows[x] = outcome]

------------------------------------------------------------------------------
(* Starting, aborting and ending a run. *)

\* What the user may have asked to skip; one stage of a run at most is.
Skippable == {"docs", "preMergeBuild", "cleanup", "merge-verify"}

StartPass(s) ==
  /\ run.pc \in {"none", "ended", "dead"} /\ turns < MaxTurns /\ ~tree.closed
  /\ run' = [NoRun EXCEPT !.by = s, !.pc = "setup"]
  /\ turns' = turns + 1
  /\ happened' = happened \cup (IF known[s] = "stale" THEN {"session"} ELSE {})
  /\ ledger' = [ledger EXCEPT !.ended = NewLedger.ended]
  /\ UNCHANGED <<known, tree>>

Running == run.pc \in Stages

AbortPass ==
  /\ Running /\ ~run.aborted /\ run' = [run EXCEPT !.aborted = TRUE]
  /\ GoesWrong(1) /\ UNCHANGED <<ledger, known, tree, happened>>

\* The process is killed, in the middle of an append or not.
KillPass ==
  /\ run.pc \in Stages \cup {"close"}
  /\ run' = [NoRun EXCEPT !.by = run.by, !.pc = "dead"] /\ known' = [known EXCEPT ![run.by] = "none"]
  /\ \/ UNCHANGED ledger
     \/ run.val.setup /\ ledger' = [ledger EXCEPT !.clean = FALSE]
  /\ GoesWrong(1) /\ happened' = happened \cup {"kill"}
  /\ UNCHANGED tree

\* The status of the run r: what its last rows and its values affirm.
deriveRunStatus(r) ==
  LET v == r.val
      aborted == r.end # "none"
      wallFuseEnds == r.wall /\ r.end # "cancelled"
      hardGateFailed == "no" \in {v.build, v.preMerge, v.integration}
      mergeNotConfirmed == v.preMerge = "yes" /\ v.cleanup = "clear" /\ v.merged # "yes"
      failedStages == {x \in Stages : r.rows[x] = "failed"}
      allGreen == /\ v.impl = "green" /\ v.review = "yes" /\ v.build = "yes"
                  /\ ~hardGateFailed /\ ~mergeNotConfirmed /\ v.cleanup # "blocked" /\ failedStages = {}
  IN IF r.replan /\ ~aborted THEN "replan"
     ELSE IF (aborted /\ ~wallFuseEnds) \/ v.impl = "none" THEN "failed"
     ELSE IF allGreen THEN "success"
     ELSE "partial"

ClosePass ==
  /\ run.pc = "close"
  /\ run' = [run EXCEPT !.pc = "ended", !.status = deriveRunStatus(run)]
  /\ ledgerEvent(run.val.setup, <<RunCompleted>>, 0, {})
  /\ UNCHANGED tree

------------------------------------------------------------------------------
(* A task (nodes.ts). *)

AtTask == Running /\ ~run.mid
InTask == Running /\ run.mid

\* Every sequence looks at the signal before its next child.
SequenceAborts ==
  /\ AtTask /\ run.aborted /\ Stop(run, "cancelled")
  /\ UNCHANGED <<turns, ledger, known, tree, happened>>

\* Mutant: only the terminal event of a stage that was never begun.
OnlyTerminal(x, outcome) == <<Event(outcome, x)>>

\* A stage that is not begun still has both its events.
Unbegun(x, outcome) == <<Started(x), Event(outcome, x)>>

\* --skipStages, which comes before the budget.
TaskSkipped ==
  /\ AtTask /\ ~run.aborted /\ run.pc \in Skippable /\ run.skip = "none"
  /\ Leave([Row(run, run.pc, "skipped") EXCEPT !.skip = run.pc], run.pc, "skipped")
  /\ ledgerEvent(run.val.setup, Unbegun(run.pc, "skipped"), 0, {})
  /\ UNCHANGED tree

TaskUnaffordable ==
  /\ AtTask /\ ~run.aborted /\ run.spent
  /\ Leave([Row(run, run.pc, "failed") EXCEPT !.muted = @ \ {run.pc}], run.pc, "failed")
  /\ ledgerEvent(run.val.setup, Unbegun(run.pc, "failed"), 0, {})
  /\ UNCHANGED tree

TaskBegins ==
  /\ AtTask /\ ~run.aborted /\ ~run.spent
  /\ run' = [run EXCEPT !.mid = TRUE]
  /\ IF run.pc = "setup" /\ ~run.val.setup THEN UNCHANGED <<turns, ledger, known, happened>>
     ELSE ledgerEvent(TRUE, <<Started(run.pc)>>, 0, {})
  /\ UNCHANGED tree

\* A convergence node that gives up after a round: the round's task is closed.
NodeAborts ==
  /\ AtTask /\ ~run.aborted /\ run.pc = "requirements" /\ run.rows["requirements"] # "none"
  /\ Stop(run, "error") /\ GoesWrong(1)
  /\ UNCHANGED <<ledger, known, tree, happened>>

\* Mutant: git confirms a merge of the branch's head, whatever is not committed.
HeadOnly(t, status) == t.landed

\* Git confirms a merge when the branch is in the default branch and no tracked
\* work is left out of it; `status` is what git could tell of the latter.
GitConfirms(t, status) == t.landed /\ status = "clean"

\* git status: when it fails, its output is empty.
StatusOf(t, fails) == IF t.dirty /\ ~fails THEN "dirty" ELSE "clean"

\* What a stage may come to: the values afterwards, the branch and its worktree,
\* and whether git failed it.
Result(v, t, fails) == [val |-> v, tree |-> t, git |-> fails]

preMergeBuildStage(v, t) == {Result([v EXCEPT !.preMerge = p], t, FALSE) : p \in {"yes", "no"}}

\* What the scan for secret files finds: all the merge would carry, or, when git
\* cannot list that, what lies in the root directory, tracked or not.
gitCarriedFiles(secret, fails) == IF fails THEN BOOLEAN ELSE {secret}

\* Build directories go, with what is tracked in them.
CleanupResults(v, t, secret, fails) ==
  {Result([v EXCEPT !.cleanup = IF found THEN "blocked" ELSE "clear"], [t EXCEPT !.secret = secret, !.dirty = d], fails) :
     found \in gitCarriedFiles(secret, fails), d \in {t.dirty, TRUE}}
cleanup(v, t) == UNION {CleanupResults(v, t, secret, fails) : secret \in BOOLEAN, fails \in BOOLEAN}

\* The merging agent: what it claims, and what it did.
MergeResult(v, t, claim, l, d) == Result([v EXCEPT !.merged = claim], [t EXCEPT !.landed = l, !.dirty = d], FALSE)
MergeResults(v, t) ==
  {MergeResult(v, t, claim, l, d) : claim \in {"yes", "no"}, l \in BOOLEAN, d \in BOOLEAN}

\* A confirmed merge closes the track.
mergeVerifyTask(v, t) ==
  IF v.merged # "yes" THEN {Result(v, t, FALSE)}
  ELSE {LET confirmed == GitConfirms(t, StatusOf(t, fails))
        IN Result([v EXCEPT !.merged = IF confirmed THEN "yes" ELSE "no"], [t EXCEPT !.closed = confirmed], fails) :
          fails \in BOOLEAN}

\* The verification node in the end: approved and built, then integrated or not,
\* or not approved.
VerificationResults(v, t) ==
  {Result([v EXCEPT !.review = "yes", !.build = "yes", !.integration = i], t, FALSE) : i \in {"yes", "no"}}
  \cup {Result([v EXCEPT !.review = "no", !.build = b], t, FALSE) : b \in {"yes", "no"}}

Results(v, x) ==
  CASE x = "setup" -> {Result([v EXCEPT !.setup = TRUE], tree, FALSE)}
    [] x = "implementation" -> {Result([v EXCEPT !.impl = i], tree, FALSE) : i \in {"green", "partial"}}
    [] x = "verification" -> VerificationResults(v, tree)
    [] x = "preMergeBuild" -> preMergeBuildStage(v, tree)
    [] x = "cleanup" -> cleanup(v, tree)
    [] x = "merge" -> MergeResults(v, tree)
    [] x = "merge-verify" -> mergeVerifyTask(v, tree)
    [] OTHER -> {Result(v, tree, FALSE)}

\* The marker of the wall fuse, which only the implementation stage acts on.
markRunWallFuseTripped(r) == [r EXCEPT !.wall = TRUE, !.val.blocked = TRUE]

\* What else a stage may leave: the budget spent, the wall fuse tripped, a replan
\* routed.
Leftovers(r, x) ==
  {r} \cup (IF x \in Writers \cup {"implementation", "verification"} THEN {[r EXCEPT !.spent = TRUE]} ELSE {})
      \cup (IF x = "implementation" THEN {markRunWallFuseTripped(r)} ELSE {})
      \cup (IF x \in {"implementation", "verification"} THEN {[r EXCEPT !.replan = TRUE]} ELSE {})

\* The events that open the ledger go with the end of set-up.
Flushed(x, e) == IF x = "setup" THEN <<RunStarted, Started(x), e>> ELSE <<e>>

\* Mutant: a failed row of any earlier execution of the stage keeps the row failed.
EverFailed(r, x, pushed) == IF pushed \/ r.rows[x] = "failed" THEN "failed" ELSE "ok"

\* The row of an execution of x that returns: `pushed` says that this execution has
\* left a failed row itself, which its completion must not hide.
RowAtReturn(r, x, pushed) == IF pushed THEN "failed" ELSE "ok"

TaskReturns ==
  /\ InTask /\ ~run.aborted
  /\ \E result \in Results(run.val, run.pc) :
       \E r \in Leftovers([run EXCEPT !.val = result.val, !.muted = @ \ {run.pc}], run.pc) :
         /\ Leave(Row(r, run.pc, RowAtReturn(run, run.pc, FALSE)), run.pc, "ok")
         /\ tree' = result.tree
         /\ ledgerEvent(result.val.setup, Flushed(run.pc, Event("ok", run.pc)),
                        IF result.git THEN 1 ELSE 0, IF result.git THEN {"git"} ELSE {})

\* A writer whose agent failed, or whose document was rejected to the end.
WriterFails ==
  /\ InTask /\ run.pc \in Writers
  /\ LET x == run.pc
         last == IF run.aborted THEN "cancelled" ELSE "ok"
         r == [run EXCEPT !.muted = IF run.aborted THEN @ \ {x} ELSE @ \cup {x}, !.val.merged = IF x = "merge" THEN "none" ELSE @]
     IN /\ IF run.aborted THEN Stop(Row(r, x, "cancelled"), "cancelled")
           ELSE \E pc \in Following(r, x, "ok") \ (IF x = "requirements" THEN {AfterDocuments(r)} ELSE {}) :
                  run' = [Row(r, x, RowAtReturn(run, x, TRUE)) EXCEPT !.pc = pc, !.mid = FALSE]
        /\ tree' \in IF x = "merge" THEN [landed : BOOLEAN, dirty : BOOLEAN, secret : {tree.secret}, closed : {FALSE}] ELSE {tree}
        /\ ledgerEvent(TRUE, <<Event("failed", x), Event(last, x)>>, 1, {"agent error"})

\* A stage that throws has failed; set-up's failure is the run's.
TaskThrows ==
  /\ InTask /\ ~run.aborted
  /\ LET r == [Row(run, run.pc, "failed") EXCEPT !.muted = @ \ {run.pc}]
     IN IF run.pc = "setup" THEN Stop(r, "error") ELSE Leave(r, run.pc, "failed")
  /\ ledgerEvent(run.val.setup, <<Event("failed", run.pc)>>, 1, {})
  /\ UNCHANGED tree

\* A fatal abort inside a stage goes past the task, which records nothing.
TaskAborts ==
  /\ InTask /\ run.pc = "implementation" /\ Stop(run, "error")
  /\ GoesWrong(1) /\ happened' = happened \cup {"fatal"}
  /\ UNCHANGED <<ledger, known, tree>>

\* A stage that comes back, or throws, after the abort: its value is discarded.
TaskCancelled ==
  /\ InTask /\ run.aborted
  /\ Stop([Row(run, run.pc, "cancelled") EXCEPT !.muted = @ \ {run.pc}], "cancelled")
  /\ tree' \in IF run.pc = "merge" THEN [landed : BOOLEAN, dirty : BOOLEAN, secret : {tree.secret}, closed : {FALSE}] ELSE {tree}
  /\ ledgerEvent(run.val.setup, <<Event("cancelled", run.pc)>>, 0, {})

RunTreeNext ==
  \/ \E s \in Sessions : StartPass(s)
  \/ AbortPass \/ KillPass \/ ClosePass
  \/ SequenceAborts \/ TaskSkipped \/ TaskUnaffordable \/ TaskBegins \/ NodeAborts
  \/ TaskReturns \/ WriterFails \/ TaskThrows \/ TaskAborts \/ TaskCancelled

RunTreeSpec == RunTreeInit /\ [][RunTreeNext]_treeVars

------------------------------------------------------------------------------
(* Properties. *)

\* checkRunLogInvariants finds nothing in the ledger, whatever is skipped,
\* cancelled, unaffordable or thrown, and however appends fail or tear, but for
\* this: a process that numbers lines from memory after another one has run, a
\* run that was killed, an event whose append failed, a fatal abort inside a
\* stage, and a writer's two terminal events.
LedgerIsWellFormed ==
  /\ ledger.gap => "session" \in happened
  /\ ledger.cut => happened \cap {"kill", "lost"} # {}
  /\ ledger.zombie => happened \cap {"kill", "lost", "fatal", "agent error"} # {}

\* The ledger alone tells how every stage of the run ended: the fold of its
\* events is the last row of each stage, unless an append failed, or the last
\* execution of the stage kept its failed row behind a completed event.
LedgerTellsTheRows ==
  "lost" \notin happened =>
    \A x \in Stages \ run.muted : run.rows[x] # "none" /\ run.val.setup => ledger.ended[x] = run.rows[x]

\* A run that ends in success has merged all of its work and no secret file,
\* whatever the merging agent claims, and no stage of it ended badly; only a
\* user who skips the stages that see to it, or git failing them, is left out.
SuccessIsEarned ==
  run.status = "success" =>
    /\ \A x \in Stages : run.rows[x] \in {"ok", "skipped", "none"}
    /\ \/ tree.landed /\ ~tree.dirty /\ ~tree.secret
       \/ run.skip \in {"preMergeBuild", "cleanup", "merge-verify"} \/ "git" \in happened
=============================================================================
