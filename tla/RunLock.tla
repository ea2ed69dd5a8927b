------------------------------ MODULE RunLock ------------------------------
(***************************************************************************)
(* The per-spec-directory run lock that serialises runs of one track       *)
(* (src/src/setup/run-lock.ts), together with the end of a run that        *)
(* releases it and then clears the track's resume cache (pipeline.ts).     *)
(*                                                                         *)
(* The lock is a file.  Creation is exclusive (O_EXCL) but creates an      *)
(* EMPTY file; the holder's pid is written by a second call.  A process    *)
(* that finds the file there reads the holder, then removes the file if it *)
(* judges it stale, then tries again: three separate system calls, between *)
(* which every other process may run.                                      *)
(***************************************************************************)
EXTENDS Naturals, FiniteSets

CONSTANTS
  Proc,         \* the processes that run the pipeline on this track
  NoProc        \* "no such file"

ASSUME RunLockAssumption == NoProc \notin Proc

VARIABLES
  lock,      \* the lock file: who created it, whether the pid is in it
  pc,        \* where each process is
  attempt,   \* acquireRunLock's loop counter
  reads,     \* readLockHolderWithBackoff: reads that found nothing so far
  calm,      \* chosen at the start: no process dies or runs twice, and a
             \* creator's pid lands within one backoff (75 ms)
  robbed     \* history: processes whose lock another process removed

vars == <<lock, pc, attempt, reads, calm, robbed>>

MaxAttempts == 3
LOCK_EMPTY_RETRIES == 2

Absent == [by |-> NoProc, written |-> FALSE]
Fresh(p) == [by |-> p, written |-> FALSE]

TypeOK ==
  /\ lock \in [by : Proc \cup {NoProc}, written : BOOLEAN]
  /\ pc \in [Proc -> {"idle", "open", "write", "read", "remove", "held",
                      "clear", "blocked", "failed", "done", "dead"}]
  /\ attempt \in [Proc -> 0 .. MaxAttempts]
  /\ reads \in [Proc -> 0 .. LOCK_EMPTY_RETRIES]
  /\ calm \in BOOLEAN
  /\ robbed \in SUBSET Proc

Init ==
  /\ lock = Absent
  /\ pc = [p \in Proc |-> "idle"]
  /\ attempt = [p \in Proc |-> 0]
  /\ reads = [p \in Proc |-> 0]
  /\ calm \in BOOLEAN
  /\ robbed = {}

(* A process that owns, or believes it owns, the lock. *)
Owns(p) == pc[p] \in {"write", "held"}

(* process.kill(pid, 0): EPERM counts as alive, only ESRCH as dead. *)
IsPidAlive(p) == pc[p] # "dead"

(* The processes that lose a live lock when q removes the file. *)
RobbedBy(q) == {p \in Proc \ {q} : lock.by = p /\ Owns(p)}

Goto(p, label) == pc' = [pc EXCEPT ![p] = label]

----------------------------------------------------------------------------
(* setup reaches acquireRunLock.                                           *)
Start(p) ==
  /\ pc[p] = "idle"
  /\ Goto(p, "open")
  /\ attempt' = [attempt EXCEPT ![p] = 0]
  /\ robbed' = robbed \ {p}
  /\ UNCHANGED <<lock, reads, calm>>

Restart(p) ==
  /\ ~calm
  /\ pc[p] \in {"blocked", "failed", "done"}
  /\ Goto(p, "idle")
  /\ UNCHANGED <<lock, attempt, reads, calm, robbed>>

(* openSync(lockPath, "wx"). *)
CanCreate(p) == lock.by = NoProc

Create(p) ==
  /\ pc[p] = "open"
  /\ CanCreate(p)
  /\ lock' = Fresh(p)
  /\ Goto(p, "write")
  /\ UNCHANGED <<attempt, reads, calm, robbed>>

Collide(p) ==
  /\ pc[p] = "open"
  /\ ~CanCreate(p)
  /\ Goto(p, "read")
  /\ reads' = [reads EXCEPT ![p] = 0]
  /\ UNCHANGED <<lock, attempt, calm, robbed>>

(* writeSync(fd, pid): lands in the file only while the path still names   *)
(* the inode this process created; otherwise it goes to an unlinked inode. *)
WritePid(p) ==
  /\ pc[p] = "write"
  /\ lock' = IF lock.by = p THEN [lock EXCEPT !.written = TRUE] ELSE lock
  /\ Goto(p, "held")
  /\ UNCHANGED <<attempt, reads, calm, robbed>>

(* readLockHolder, up to 1 + LOCK_EMPTY_RETRIES times while the file is    *)
(* missing or empty.                                                       *)
Readable == lock.by # NoProc /\ lock.written

(* Mutant: an empty file is stale at once.                                 *)
NoBackoff == 0
ReadRetries == LOCK_EMPTY_RETRIES

ReadHolder(p) ==
  /\ pc[p] = "read"
  /\ Readable
  /\ IF lock.by # p /\ IsPidAlive(lock.by)
       THEN Goto(p, "blocked")
       ELSE Goto(p, "remove")
  /\ UNCHANGED <<lock, attempt, reads, calm, robbed>>

ReadNothing(p) ==
  /\ pc[p] = "read"
  /\ ~Readable
  /\ calm /\ reads[p] > 0 => \A q \in Proc : pc[q] # "write"
  /\ IF reads[p] < ReadRetries
       THEN /\ reads' = [reads EXCEPT ![p] = @ + 1]
            /\ UNCHANGED pc
       ELSE /\ Goto(p, "remove")
            /\ UNCHANGED reads
  /\ UNCHANGED <<lock, attempt, calm, robbed>>

(* rmSync(lockPath, {force: true}): whatever is at the path by now. *)
SameAttempt(p) == attempt[p]
NextAttempt(p) == attempt[p] + 1

Steal(p) ==
  /\ pc[p] = "remove"
  /\ robbed' = robbed \cup RobbedBy(p)
  /\ lock' = Absent
  /\ attempt' = [attempt EXCEPT ![p] = NextAttempt(p)]
  /\ Goto(p, IF NextAttempt(p) < MaxAttempts THEN "open" ELSE "failed")
  /\ UNCHANGED <<reads, calm>>

(* releaseHeldRunLock in pipeline.ts's finally: removes the path, and      *)
(* swallows a failure to do so.  A successful run then goes on to          *)
(* clearResumeCache, WITHOUT the lock.                                     *)
Release(p) ==
  /\ pc[p] = "held"
  /\ \/ lock' = Absent /\ robbed' = robbed \cup RobbedBy(p)
     \/ UNCHANGED <<lock, robbed>>
  /\ \E end \in {"clear", "done"} : Goto(p, end)
  /\ UNCHANGED <<attempt, reads, calm>>

ClearCache(p) ==
  /\ pc[p] = "clear"
  /\ Goto(p, "done")
  /\ UNCHANGED <<lock, attempt, reads, calm, robbed>>

Crash(p) ==
  /\ ~calm
  /\ pc[p] \notin {"idle", "done", "dead"}
  /\ Goto(p, "dead")
  /\ UNCHANGED <<lock, attempt, reads, calm, robbed>>

----------------------------------------------------------------------------
Acquire(p) ==
  Create(p) \/ Collide(p) \/ WritePid(p) \/ ReadHolder(p) \/ ReadNothing(p)
    \/ Steal(p)

Next ==
  \E p \in Proc :
    Start(p) \/ Restart(p) \/ Acquire(p) \/ Release(p) \/ ClearCache(p)
      \/ Crash(p)

(* acquireRunLock is synchronous code in a process that keeps running, and *)
(* every run ends (the wall fuse bounds it), so both are weakly fair.      *)
Spec ==
  /\ Init
  /\ [][Next]_vars
  /\ \A p \in Proc : WF_vars(Acquire(p)) /\ WF_vars(Release(p) \/ ClearCache(p))

----------------------------------------------------------------------------
Holders == {p \in Proc : pc[p] = "held"}

(* While a process owns the lock, and nobody unlinked its file under it,   *)
(* no other process gets the lock, and none that reads the file from now   *)
(* on judges it stale: the pid is there and alive, or it has yet to land,  *)
(* and then only a creator that needs longer for that than the backoff is  *)
(* taken for dead (run-lock.ts:36-48, :54-68, :106-113).  What removes the *)
(* file of a live holder is a judgement made before (the window between    *)
(* readLockHolder and rmSync), or a release that does not look whose file  *)
(* it removes.                                                             *)
OwnerIsRespected ==
  [][\A p, q \in Proc :
       p # q /\ Owns(q) /\ q \notin robbed =>
         /\ ~(pc[p] = "open" /\ pc'[p] = "write")
         /\ pc[p] = "read" /\ pc'[p] = "remove" => pc[q] = "write" /\ ~calm]_vars

(* A holder that was not robbed still has its own pid in the file, so that *)
(* whoever comes next sees a live holder and blocks.                       *)
HolderIsVisible ==
  \A p \in Holders : p \notin robbed => lock = [by |-> p, written |-> TRUE]

(* acquireRunLock is bounded: whatever the other processes do, it returns, *)
(* throws "locked" or throws "kept reappearing", or its process died.      *)
AcquireTerminates ==
  \A p \in Proc :
    pc[p] = "open" ~> pc[p] \in {"held", "clear", "blocked", "failed", "done", "dead"}
=============================================================================
