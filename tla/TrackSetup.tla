----------------------------- MODULE TrackSetup -----------------------------
(* Stage 1 of a run: which track (spec directory, branch, worktree) it works *)
(* on, the lock, the move of the track's state from the spec directory into  *)
(* the store outside it, the truncation of a stale resume cache, and taking  *)
(* the state files out of git (setup.ts, setup/*.ts, state/state-root.ts,    *)
(* runtime-state-git.ts, and the load of the cache in pipeline.ts).          *)
(*                                                                           *)
(* Of the state files the resume cache is modelled. A file is there or not   *)
(* and holds the rows of some runs. Its place is resolved anew at each use   *)
(* until git has answered once in the process: when git fails, the file is   *)
(* the one in the spec directory. Runs are numbered; several may be at work. *)
EXTENDS Naturals, FiniteSets

CONSTANTS Procs, Tracks, None,
          MaxRuns,     \* bound on runs started
          MaxFaults    \* bound on failures of git

ASSUME SetupAssumption == None \notin Procs \cup Tracks /\ MaxRuns \in Nat /\ MaxFaults \in Nat

VARIABLES wt, tip,         \* tracks with a worktree; the branch: "none", "bare", or "spec" (it has the spec directory)
          merged,          \* tracks whose spec directory is in the main checkout
          ext, inSpec,     \* the cache in the store, and in the spec directory
          newer,           \* which of the two has the later mtime
          head, past,      \* the cache as the branch's tip, and an earlier commit, track it
          complete,        \* tracks with a .complete marker
          lockExt, lockIn, \* the run lock in the store, in the spec directory
          dirt,            \* tracks with uncommitted edits of others
          proc,            \* the processes
          nruns, gitFaults,
          written, excused \* history: rows a track's cache should hold; what spoiled it

store == <<ext, inSpec, newer>>
locks == <<lockExt, lockIn>>
repo == <<wt, tip, merged, head, past, complete, dirt>>
history == <<written, excused>>
setupVars == <<wt, tip, merged, ext, inSpec, newer, head, past, complete, lockExt, lockIn, dirt,
               proc, nruns, gitFaults, written, excused>>

Absent == [there |-> FALSE, rows |-> {}]
FileOf(R) == [there |-> TRUE, rows |-> R]
Off == [pc |-> "off", run |-> 0, id |-> None, how |-> "fresh", memo |-> FALSE,
        act |-> "none", aside |-> Absent, blind |-> FALSE, left |-> FALSE]

SetupTypeOK ==
  /\ wt \subseteq Tracks /\ merged \subseteq Tracks /\ complete \subseteq Tracks
  /\ dirt \subseteq Tracks
  /\ tip \in [Tracks -> {"none", "bare", "spec"}]
  /\ \A t \in Tracks : /\ {ext[t].rows, inSpec[t].rows, head[t].rows, past[t].rows, written[t]} \subseteq SUBSET (0..MaxRuns)
                       /\ newer[t] \in {"ext", "in"} /\ lockExt[t] \in Procs \cup {None} /\ lockIn[t] \in Procs \cup {None}
                       /\ excused[t] \subseteq {"split", "checkout", "parked", "removed", "cleared"}
  /\ nruns \in 0..MaxRuns /\ gitFaults \in 0..MaxFaults

\* A repository whose first track may stem from a version that kept its state
\* in the spec directory, committed or not.
SetupInit ==
  \E legacy \in SUBSET Tracks, committed \in SUBSET Tracks :
  /\ committed \subseteq legacy /\ Cardinality(legacy) <= 1
  /\ wt = legacy /\ merged = {} /\ complete = {} /\ dirt = {}
  /\ tip = [t \in Tracks |-> IF t \in legacy THEN "spec" ELSE "none"]
  /\ ext = [t \in Tracks |-> Absent]
  /\ inSpec = [t \in Tracks |-> IF t \in legacy THEN FileOf({0}) ELSE Absent]
  /\ newer = [t \in Tracks |-> "in"]
  /\ head = [t \in Tracks |-> IF t \in committed THEN FileOf({}) ELSE Absent] /\ past = head
  /\ lockExt = [t \in Tracks |-> None] /\ lockIn = [t \in Tracks |-> None]
  /\ proc = [p \in Procs |-> Off] /\ nruns = 0 /\ gitFaults = 0
  /\ written = [t \in Tracks |-> IF t \in legacy THEN {0} ELSE {}]
  /\ excused = [t \in Tracks |-> {}]

Alive(q) == q # None /\ proc[q].pc # "off"
At(p, pc) == proc[p].pc = pc
Goto(p, pc) == proc' = [proc EXCEPT ![p].pc = pc]
Excuse(t, why) == excused' = [excused EXCEPT ![t] = @ \cup {why}]

\* repoFactsFor: the store, when git answers (and from then on), or nothing.
\* ok is the answer of git at this use.
Resolves(p, ok) ==
  /\ proc[p].memo => ok
  /\ gitFaults' = gitFaults + (IF ok THEN 0 ELSE 1) /\ gitFaults' <= MaxFaults

\* The file a use of the cache opens.
stateFileFor(t, ok) == IF ok THEN ext[t] ELSE inSpec[t]

(***************************************************************************)
(* Choosing the track.                                                     *)
(***************************************************************************)

Visible(t) == IF ext[t].there THEN ext[t].rows ELSE inSpec[t].rows

isResumable(t) == t \notin complete /\ Visible(t) # {}

\* A track whose worktree is gone can be resumed when its branch has its
\* content.
externalResumeCandidates ==
  {t \in Tracks \ (wt \cup merged \cup complete) : ext[t].rows # {} /\ tip[t] = "spec"}

findResumableSpec == {t \in wt \cup merged : isResumable(t)} \cup externalResumeCandidates
findReusableSpec == {t \in wt : isResumable(t)}
referencedSpecIdentifier == merged

\* nextSpecNumber counts the main checkout, so only a merged name is never
\* given again.
freshIdentifier == Tracks \ merged

\* A resumed run goes through the move and the load of the cache before its
\* setup; a fresh one picks its track.
StartResume(p) ==
  /\ At(p, "off") /\ nruns < MaxRuns
  /\ \E t \in findResumableSpec :
       proc' = [proc EXCEPT ![p] = [Off EXCEPT !.pc = IF t \in wt \cup merged THEN "preload" ELSE "worktree",
                                               !.run = nruns + 1, !.id = t, !.how = "resume"]]
  /\ nruns' = nruns + 1
  /\ UNCHANGED <<repo, store, locks, gitFaults, history>>

runSetup(p) ==
  /\ At(p, "off") /\ nruns < MaxRuns
  /\ \E how \in {"reuse", "fresh"} :
       \E t \in IF how = "reuse" THEN referencedSpecIdentifier \cup findReusableSpec ELSE freshIdentifier :
         proc' = [proc EXCEPT ![p] = [Off EXCEPT !.pc = "worktree", !.run = nruns + 1, !.id = t, !.how = how]]
  /\ nruns' = nruns + 1
  /\ UNCHANGED <<repo, store, locks, gitFaults, history>>

\* A checkout of the branch writes what its tip tracks, with a new mtime.
CheckedOut(t, file) ==
  IF file.there
  THEN /\ inSpec' = [inSpec EXCEPT ![t] = file] /\ newer' = [newer EXCEPT ![t] = "in"]
       /\ Excuse(t, "checkout")
  ELSE UNCHANGED <<inSpec, newer, excused>>

createOrReuseWorktree(p) ==
  LET t == proc[p].id IN
  /\ At(p, "worktree") /\ Goto(p, "lock")
  /\ wt' = wt \cup {t}
  /\ tip' = [tip EXCEPT ![t] = IF @ # "none" THEN @ ELSE IF t \in merged THEN "spec" ELSE "bare"]
  /\ IF t \in wt THEN UNCHANGED <<inSpec, newer, excused>> ELSE CheckedOut(t, head[t])
  /\ UNCHANGED <<merged, head, past, complete, dirt, ext, locks, nruns, gitFaults, written>>

\* The process ends; what it held is free, or stale and stolen, which is the
\* same to the next.
Unlock(p) ==
  /\ lockExt' = [t \in Tracks |-> IF lockExt[t] = p THEN None ELSE lockExt[t]]
  /\ lockIn' = [t \in Tracks |-> IF lockIn[t] = p THEN None ELSE lockIn[t]]
End(p) == proc' = [proc EXCEPT ![p] = Off] /\ Unlock(p)

\* acquireRunLock, taken as one step (RunLock has its system calls).
acquireRunLock(p) ==
  LET t == proc[p].id IN
  /\ At(p, "lock")
  /\ \E ok \in BOOLEAN :
       /\ Resolves(p, ok)
       /\ IF Alive(IF ok THEN lockExt[t] ELSE lockIn[t]) THEN End(p)
          ELSE /\ proc' = [proc EXCEPT ![p].pc = "check", ![p].memo = ok]
               /\ IF ok THEN lockExt' = [lockExt EXCEPT ![t] = p] /\ UNCHANGED lockIn
                        ELSE lockIn' = [lockIn EXCEPT ![t] = p] /\ UNCHANGED lockExt
  /\ UNCHANGED <<repo, store, nruns, history>>

(***************************************************************************)
(* migrateInSpecState: before the load of a resumed run, without a lock,   *)
(* and in the setup, holding one.                                          *)
(***************************************************************************)

Preload(p) == proc[p].how = "resume" /\ proc[p].pc \in {"preload", "preact", "preunlink"}
Onward(p) == IF Preload(p) THEN "worktree" ELSE "truncate"

\* Mutant: only the lock in the store is looked at.
StoreLockOnly(p, t) == Alive(lockExt[t]) /\ lockExt[t] # p

liveForeignLockHolder(p, t) == \E q \in {lockExt[t], lockIn[t]} : Alive(q) /\ q # p

migrationOf(t) ==
  IF ~inSpec[t].there THEN "none"
  ELSE IF ~ext[t].there THEN "move"
  ELSE IF newer[t] = "in" THEN "replace"
  ELSE "discard"

\* The locks are read, and the files compared. A refusal ends a setup, not a
\* load.
checkMigration(p) ==
  LET t == proc[p].id
      refused == liveForeignLockHolder(p, t)
      act == migrationOf(t)
      Then(pc) == proc' = [proc EXCEPT ![p].pc = pc, ![p].memo = TRUE, ![p].act = act] IN
  /\ proc[p].pc \in {"preload", "check"}
  /\ UNCHANGED <<repo, store, nruns, history>>
  /\ \/ Resolves(p, FALSE) /\ proc' = [proc EXCEPT ![p].pc = Onward(p), ![p].blind = At(p, "check")] /\ UNCHANGED locks
     \/ Resolves(p, TRUE) /\ refused /\ At(p, "check") /\ End(p)
     \/ Resolves(p, TRUE) /\ refused /\ At(p, "preload") /\ Then("worktree") /\ UNCHANGED locks
     \/ Resolves(p, TRUE) /\ ~refused /\ act = "none" /\ Then(Onward(p)) /\ UNCHANGED locks
     \/ Resolves(p, TRUE) /\ ~refused /\ act # "none" /\ Then(IF Preload(p) THEN "preact" ELSE "act") /\ UNCHANGED locks

Unlink(p) == Goto(p, IF Preload(p) THEN "preunlink" ELSE "unlink")

\* Mutant: the copy never takes the place of the target.
KeepTmp(t) == UNCHANGED ext

CopyAcross(t) == ext' = [ext EXCEPT ![t] = inSpec[t]]

\* The rename of moveDurably, or its copy where the store is on another
\* device; the replacement of an older file in the store. A source that is
\* gone is an exception.
moveDurably(p) ==
  LET t == proc[p].id IN
  /\ proc[p].pc \in {"preact", "act"}
  /\ UNCHANGED <<repo, nruns, gitFaults, history>>
  /\ \/ /\ proc[p].act = "move" /\ inSpec[t].there
        /\ ext' = [ext EXCEPT ![t] = inSpec[t]] /\ inSpec' = [inSpec EXCEPT ![t] = Absent]
        /\ Goto(p, Onward(p)) /\ UNCHANGED <<newer, locks>>
     \/ /\ proc[p].act \in {"move", "replace"} /\ inSpec[t].there
        /\ CopyAcross(t) /\ newer' = [newer EXCEPT ![t] = "ext"]
        /\ Unlink(p) /\ UNCHANGED <<inSpec, locks>>
     \/ proc[p].act = "discard" /\ Unlink(p) /\ UNCHANGED <<store, locks>>
     \/ proc[p].act # "discard" /\ ~inSpec[t].there /\ At(p, "act") /\ End(p) /\ UNCHANGED store
     \/ proc[p].act # "discard" /\ ~inSpec[t].there /\ At(p, "preact") /\ Goto(p, "worktree") /\ UNCHANGED <<store, locks>>

unlinkInSpec(p) ==
  LET t == proc[p].id IN
  /\ proc[p].pc \in {"preunlink", "unlink"}
  /\ inSpec' = [inSpec EXCEPT ![t] = Absent]
  /\ Goto(p, Onward(p))
  /\ UNCHANGED <<repo, ext, newer, locks, nruns, gitFaults, history>>

(***************************************************************************)
(* The rest of the setup.                                                  *)
(***************************************************************************)

Write(t, ok, rows) ==
  IF ok THEN ext' = [ext EXCEPT ![t] = FileOf(rows)] /\ newer' = [newer EXCEPT ![t] = "ext"] /\ UNCHANGED inSpec
        ELSE inSpec' = [inSpec EXCEPT ![t] = FileOf(rows)] /\ newer' = [newer EXCEPT ![t] = "in"] /\ UNCHANGED ext

\* A fresh run on a track that exists empties the cache of the run before.
truncateStaleCache(p) ==
  LET t == proc[p].id IN
  /\ At(p, "truncate") /\ Goto(p, "hygiene")
  /\ \E ok \in BOOLEAN :
       /\ proc[p].how = "reuse" \/ ok
       /\ Resolves(p, ok)
       /\ IF proc[p].how = "reuse" /\ stateFileFor(t, ok).there
          THEN Write(t, ok, {}) /\ written' = [written EXCEPT ![t] = {}]
          ELSE UNCHANGED <<store, written>>
  /\ UNCHANGED <<repo, locks, nruns, excused>>

\* Edits of others on a track that is entered again go to a stash; a stash
\* that fails leaves them.
quarantineDirt(p) ==
  LET t == proc[p].id IN
  /\ At(p, "hygiene")
  /\ IF proc[p].how = "fresh" \/ t \notin dirt THEN UNCHANGED <<dirt, gitFaults>> /\ Goto(p, "untrack")
     ELSE \/ dirt' = dirt \ {t} /\ UNCHANGED gitFaults /\ Goto(p, "untrack")
          \/ /\ gitFaults < MaxFaults /\ gitFaults' = gitFaults + 1 /\ UNCHANGED dirt
             /\ proc' = [proc EXCEPT ![p].pc = "untrack", ![p].left = TRUE]
  /\ UNCHANGED <<wt, tip, merged, head, past, complete, store, locks, nruns, history>>

\* ensureRuntimeStateUntracked: a tracked file leaves the index and is moved
\* aside for the commit that records its removal.
removeFromIndex(p) ==
  LET t == proc[p].id IN
  /\ At(p, "untrack")
  /\ IF head[t].there
     THEN /\ proc' = [proc EXCEPT ![p].pc = "parked", ![p].aside = inSpec[t]]
          /\ inSpec' = [inSpec EXCEPT ![t] = Absent]
     ELSE Goto(p, "run") /\ UNCHANGED inSpec
  /\ UNCHANGED <<repo, ext, newer, locks, nruns, gitFaults, history>>

\* The commit lands or fails; the file is moved back.
commitUntracking(p) ==
  LET t == proc[p].id IN
  /\ At(p, "parked") /\ Goto(p, "run")
  /\ inSpec' = [inSpec EXCEPT ![t] = IF proc[p].aside.there THEN proc[p].aside ELSE @]
  /\ IF proc[p].aside.there /\ ext[t].there THEN Excuse(t, "split") ELSE UNCHANGED excused
  /\ \/ head' = [head EXCEPT ![t] = Absent] /\ past' = [past EXCEPT ![t] = head[t]] /\ UNCHANGED gitFaults
     \/ gitFaults < MaxFaults /\ gitFaults' = gitFaults + 1 /\ UNCHANGED <<head, past>>
  /\ UNCHANGED <<wt, tip, merged, complete, dirt, ext, newer, locks, nruns, written>>

(***************************************************************************)
(* The run and its end, and what others do to the repository.              *)
(***************************************************************************)

appendResumeResult(p) ==
  LET t == proc[p].id IN
  /\ At(p, "run")
  /\ \E ok \in BOOLEAN :
       /\ Resolves(p, ok)
       /\ proc' = [proc EXCEPT ![p].memo = ok]
       /\ Write(t, ok, stateFileFor(t, ok).rows \cup {proc[p].run})
       /\ IF ok /\ ~inSpec[t].there THEN UNCHANGED excused ELSE Excuse(t, "split")
  /\ written' = [written EXCEPT ![t] = @ \cup {proc[p].run}]
  /\ UNCHANGED <<repo, locks, nruns>>

\* A phase commit records a staged removal as well.
deterministicPhaseCommit(p) ==
  LET t == proc[p].id IN
  /\ At(p, "run") /\ (tip[t] # "spec" \/ head[t].there)
  /\ tip' = [tip EXCEPT ![t] = "spec"]
  /\ past' = [past EXCEPT ![t] = head[t]] /\ head' = [head EXCEPT ![t] = Absent]
  /\ UNCHANGED <<wt, merged, complete, dirt, store, locks, proc, nruns, gitFaults, history>>

\* A roll-back to a commit that still tracks the file writes it again.
rollbackToCheckpoint(p) ==
  LET t == proc[p].id IN
  /\ At(p, "run") /\ past[t].there
  /\ CheckedOut(t, past[t]) /\ head' = [head EXCEPT ![t] = past[t]]
  /\ UNCHANGED <<wt, tip, merged, past, complete, dirt, ext, locks, proc, nruns, gitFaults, written>>

\* The lock goes first. A run that succeeded, merged or not, closes its track
\* after that; the others leave their rows.
releaseHeldRunLock(p) ==
  /\ At(p, "run") /\ End(p)
  /\ UNCHANGED <<repo, store, nruns, gitFaults, history>>

Succeeds(p) ==
  LET t == proc[p].id IN
  /\ At(p, "run") /\ Goto(p, "closing") /\ Unlock(p)
  /\ tip' = [tip EXCEPT ![t] = "spec"] /\ merged' \in {merged, merged \cup {t}}
  /\ UNCHANGED <<wt, head, past, complete, dirt, store, nruns, gitFaults, history>>

\* The rows of a run that has taken the track meanwhile go too.
clearResumeCache(p) ==
  LET t == proc[p].id
      later == {r \in written[t] : r > proc[p].run} IN
  /\ At(p, "closing") /\ End(p)
  /\ IF ext[t].there THEN Write(t, TRUE, {}) ELSE UNCHANGED store
  /\ complete' = complete \cup {t} /\ written' = [written EXCEPT ![t] = later]
  /\ IF later = {} THEN UNCHANGED excused ELSE Excuse(t, "cleared")
  /\ UNCHANGED <<wt, tip, merged, head, past, dirt, nruns, gitFaults>>

\* A kill; a dead run's edits may be left in the worktree.
SetupKill(p) ==
  LET t == proc[p].id IN
  /\ ~At(p, "off") /\ End(p)
  /\ dirt' \in {dirt, IF At(p, "run") THEN dirt \cup {t} ELSE dirt}
  /\ IF At(p, "parked") /\ proc[p].aside.there THEN Excuse(t, "parked") ELSE UNCHANGED excused
  /\ UNCHANGED <<wt, tip, merged, head, past, complete, store, nruns, gitFaults, written>>

removeWorktree(t) ==
  /\ t \in wt /\ \A p \in Procs : proc[p].id # t
  /\ wt' = wt \ {t} /\ dirt' = dirt \ {t}
  /\ inSpec' = [inSpec EXCEPT ![t] = Absent]
  /\ IF inSpec[t].there THEN Excuse(t, "removed") ELSE UNCHANGED excused
  /\ UNCHANGED <<tip, merged, head, past, complete, ext, newer, locks, proc, nruns, gitFaults, written>>

SetupNext ==
  \/ \E p \in Procs :
       \/ StartResume(p) \/ runSetup(p) \/ createOrReuseWorktree(p) \/ acquireRunLock(p)
       \/ checkMigration(p) \/ moveDurably(p) \/ unlinkInSpec(p)
       \/ truncateStaleCache(p) \/ quarantineDirt(p) \/ removeFromIndex(p) \/ commitUntracking(p)
       \/ appendResumeResult(p) \/ deterministicPhaseCommit(p) \/ rollbackToCheckpoint(p)
       \/ releaseHeldRunLock(p) \/ Succeeds(p) \/ clearResumeCache(p) \/ SetupKill(p)
  \/ \E t \in Tracks : removeWorktree(t)

SetupSpec == SetupInit /\ [][SetupNext]_setupVars

-----------------------------------------------------------------------------
\* The rows a resume of t would find after its move.
Kept(t) == IF migrationOf(t) \in {"move", "replace"} THEN inSpec[t].rows ELSE ext[t].rows

\* No row of a track is lost by the move of its state, killed at any step and
\* started again by any run, nor by a load that moves the file without a lock;
\* unless git or a removal came between: rows in both places after git failed,
\* a checkout that made the tracked copy the newer one, a kill while the file
\* was moved aside, a worktree removed with rows in it; and unless a successful
\* run cleared the cache after another had taken its lock (state-root.ts,
\* runtime-state-git.ts, pipeline.ts:78-84).
RowsSurvive ==
  \A t \in Tracks : \/ written[t] \subseteq Kept(t) \/ excused[t] # {}
                     \/ \E p \in Procs : At(p, "parked") /\ proc[p].id = t

\* Two runs are past the setup of one track only if git failed for one of them
\* when it compared the two places a lock may be in (state-root.ts:319-328).
OneRunPerTrack ==
  \A p, q \in Procs : p # q /\ proc[p].id = proc[q].id /\ At(p, "run") /\ At(q, "run") =>
    proc[p].blind \/ proc[q].blind
=============================================================================
