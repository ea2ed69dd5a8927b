----------------------------- MODULE Run_proofs -----------------------------
(***************************************************************************)
(* Proofs about a run: the lock that keeps a track to one run (RunLock),   *)
(* for any set of processes; the run's tree of stages with its ledger      *)
(* (RunTree), for any set of processes and any bound on what goes wrong;   *)
(* and what runs leave behind for the evaluation of later ones (Flywheel), *)
(* for any number of runs and any thresholds.  TLC checks the same         *)
(* properties on two or three processes.                                   *)
(***************************************************************************)
EXTENDS RunLock, RunTree, Flywheel, FiniteSetTheorems, WellFoundedInduction, TLAPS

-----------------------------------------------------------------------------
(* The lock.                                                                *)

(* A process inside the loop of acquireRunLock has attempts left; without  *)
(* this TypeOK is not inductive (Steal would overrun the counter).         *)
AttemptLeft ==
  \A p \in Proc : pc[p] \in {"open", "read", "remove"} => attempt[p] < MaxAttempts

(* An owner that was not robbed created the file the path still names, and *)
(* a holder's pid is in it.                                                *)
OwnerHasFile ==
  \A p \in Proc :
    /\ Owns(p) /\ p \notin robbed => lock.by = p
    /\ pc[p] = "held" /\ p \notin robbed => lock.written

IInv == TypeOK /\ AttemptLeft /\ OwnerHasFile

LEMMA InitIInv == Init => IInv
<1> USE RunLockAssumption DEF MaxAttempts, LOCK_EMPTY_RETRIES
<1> QED
  BY DEF Init, IInv, TypeOK, AttemptLeft, OwnerHasFile, Absent, Owns

(* The type part of the induction: the loop counter stays within its bound *)
(* because only a process with an attempt left can steal.                  *)
LEMMA NextType == TypeOK /\ AttemptLeft /\ [Next]_vars => TypeOK' /\ AttemptLeft'
<1> SUFFICES ASSUME TypeOK, AttemptLeft, [Next]_vars
             PROVE  TypeOK' /\ AttemptLeft'
  OBVIOUS
<1> USE RunLockAssumption
    DEF TypeOK, AttemptLeft, Goto, MaxAttempts, LOCK_EMPTY_RETRIES
<1>1. ASSUME NEW p \in Proc, Start(p) PROVE TypeOK' /\ AttemptLeft'
  BY <1>1 DEF Start
<1>2. ASSUME NEW p \in Proc, Restart(p) PROVE TypeOK' /\ AttemptLeft'
  BY <1>2 DEF Restart
<1>3. ASSUME NEW p \in Proc, Create(p) PROVE TypeOK' /\ AttemptLeft'
  BY <1>3 DEF Create, Fresh
<1>4. ASSUME NEW p \in Proc, Collide(p) PROVE TypeOK' /\ AttemptLeft'
  BY <1>4 DEF Collide
<1>5. ASSUME NEW p \in Proc, WritePid(p) PROVE TypeOK' /\ AttemptLeft'
  BY <1>5 DEF WritePid
<1>6. ASSUME NEW p \in Proc, ReadHolder(p) PROVE TypeOK' /\ AttemptLeft'
  BY <1>6 DEF ReadHolder
<1>7. ASSUME NEW p \in Proc, ReadNothing(p) PROVE TypeOK' /\ AttemptLeft'
  BY <1>7 DEF ReadNothing, ReadRetries
<1>8. ASSUME NEW p \in Proc, Steal(p) PROVE TypeOK' /\ AttemptLeft'
  BY <1>8 DEF Steal, Absent, RobbedBy, NextAttempt
<1>9. ASSUME NEW p \in Proc, Release(p) PROVE TypeOK' /\ AttemptLeft'
  <2>1. PICK end \in {"clear", "done"} : Goto(p, end)
    BY <1>9 DEF Release
  <2>2. /\ lock' \in {lock, Absent}
        /\ robbed' \in SUBSET Proc
        /\ UNCHANGED <<attempt, reads, calm>>
    BY <1>9 DEF Release, RobbedBy
  <2>3. lock' \in [by : Proc \cup {NoProc}, written : BOOLEAN]
    <3>1. Absent \in [by : Proc \cup {NoProc}, written : BOOLEAN]
      BY DEF Absent
    <3>2. CASE lock' = Absent
      BY <3>1, <3>2
    <3>3. CASE lock' = lock
      BY <3>3
    <3> QED
      BY <2>2, <3>2, <3>3
  <2>4. AttemptLeft'
    BY <2>1, <2>2
  <2>5. pc' \in [Proc -> {"idle", "open", "write", "read", "remove", "held",
                         "clear", "blocked", "failed", "done", "dead"}]
    BY <2>1
  <2> QED
    BY <2>2, <2>3, <2>4, <2>5
<1>10. ASSUME NEW p \in Proc, ClearCache(p) PROVE TypeOK' /\ AttemptLeft'
  BY <1>10 DEF ClearCache
<1>11. ASSUME NEW p \in Proc, Crash(p) PROVE TypeOK' /\ AttemptLeft'
  BY <1>11 DEF Crash
<1>12. CASE UNCHANGED vars
  BY <1>12 DEF vars
<1> QED
  BY <1>1, <1>2, <1>3, <1>4, <1>5, <1>6, <1>7, <1>8, <1>9, <1>10, <1>11,
     <1>12 DEF Next, Acquire

(* The ownership part: the only steps that take a file away from a live    *)
(* owner are Steal and Release of another process, and both record it.     *)
LEMMA NextOwner == TypeOK /\ OwnerHasFile /\ [Next]_vars => OwnerHasFile'
<1> SUFFICES ASSUME TypeOK, OwnerHasFile, [Next]_vars PROVE OwnerHasFile'
  OBVIOUS
<1> USE RunLockAssumption DEF TypeOK, OwnerHasFile, Goto, Owns
<1>1. ASSUME NEW p \in Proc, Start(p) PROVE OwnerHasFile'
  BY <1>1 DEF Start
<1>2. ASSUME NEW p \in Proc, Restart(p) PROVE OwnerHasFile'
  BY <1>2 DEF Restart
<1>3. ASSUME NEW p \in Proc, Create(p) PROVE OwnerHasFile'
  BY <1>3 DEF Create, Fresh, CanCreate
<1>4. ASSUME NEW p \in Proc, Collide(p) PROVE OwnerHasFile'
  BY <1>4 DEF Collide
<1>5. ASSUME NEW p \in Proc, WritePid(p) PROVE OwnerHasFile'
  BY <1>5 DEF WritePid
<1>6. ASSUME NEW p \in Proc, ReadHolder(p) PROVE OwnerHasFile'
  BY <1>6 DEF ReadHolder
<1>7. ASSUME NEW p \in Proc, ReadNothing(p) PROVE OwnerHasFile'
  BY <1>7 DEF ReadNothing
<1>8. ASSUME NEW p \in Proc, Steal(p) PROVE OwnerHasFile'
  BY <1>8 DEF Steal, Absent, RobbedBy
<1>9. ASSUME NEW p \in Proc, Release(p) PROVE OwnerHasFile'
  BY <1>9 DEF Release, Absent, RobbedBy
<1>10. ASSUME NEW p \in Proc, ClearCache(p) PROVE OwnerHasFile'
  BY <1>10 DEF ClearCache
<1>11. ASSUME NEW p \in Proc, Crash(p) PROVE OwnerHasFile'
  BY <1>11 DEF Crash
<1>12. CASE UNCHANGED vars
  BY <1>12 DEF vars
<1> QED
  BY <1>1, <1>2, <1>3, <1>4, <1>5, <1>6, <1>7, <1>8, <1>9, <1>10, <1>11,
     <1>12 DEF Next, Acquire

LEMMA Inductive == Spec => []IInv
<1>1. IInv /\ [Next]_vars => IInv'
  BY NextType, NextOwner DEF IInv
<1> QED
  BY InitIInv, <1>1, PTL DEF Spec

(* Every reachable state is well typed; in particular acquireRunLock never *)
(* makes a fourth attempt.                                                 *)
THEOREM TypeCorrect == Spec => []TypeOK
<1>1. IInv => TypeOK
  BY DEF IInv
<1> QED
  BY Inductive, <1>1, PTL

(* A holder whose file nobody removed is visible in the lock file, for any *)
(* number of processes: the next one reads a live pid and blocks.          *)
THEOREM HolderVisible == Spec => []HolderIsVisible
<1>1. IInv => HolderIsVisible
  BY DEF IInv, TypeOK, OwnerHasFile, HolderIsVisible, Holders, Owns
<1> QED
  BY Inductive, <1>1, PTL

(* Nobody gets the lock of a live owner that was not robbed, or judges its *)
(* file stale, for any number of processes: a holder's pid is in the file  *)
(* (OwnerHasFile), and in a calm history the backoff outlasts the write.   *)
THEOREM Respected == Spec => OwnerIsRespected
<1> USE RunLockAssumption DEF Goto
<1>1. ASSUME IInv, [Next]_vars, NEW p \in Proc, NEW q \in Proc,
             p # q, Owns(q), q \notin robbed
      PROVE  /\ ~(pc[p] = "open" /\ pc'[p] = "write")
             /\ pc[p] = "read" /\ pc'[p] = "remove" => pc[q] = "write" /\ ~calm
  <2>1. /\ pc \in [Proc -> {"idle", "open", "write", "read", "remove", "held",
                          "clear", "blocked", "failed", "done", "dead"}]
        /\ reads \in [Proc -> 0 .. LOCK_EMPTY_RETRIES]
        /\ lock.by = q /\ (pc[q] = "held" => lock.written)
    BY <1>1 DEF IInv, TypeOK, OwnerHasFile
  <2>2. ASSUME pc[p] = "open", pc'[p] = "write" PROVE Create(p)
    BY <2>1, <2>2, <1>1 DEF Next, Acquire, vars, Start, Restart, Create, Collide, WritePid,
       ReadHolder, ReadNothing, Steal, Release, ClearCache, Crash
  <2>3. ~(pc[p] = "open" /\ pc'[p] = "write")
    BY <2>1, <2>2 DEF Create, CanCreate
  <2>4. ASSUME pc[p] = "read", pc'[p] = "remove"
        PROVE  ReadHolder(p) \/ ReadNothing(p)
    BY <2>1, <2>4, <1>1 DEF Next, Acquire, vars, Start, Restart, Create, Collide, WritePid,
       ReadHolder, ReadNothing, Steal, Release, ClearCache, Crash
  <2>5. ASSUME pc[p] = "read", pc'[p] = "remove", ReadHolder(p) PROVE FALSE
    BY <2>1, <2>5, <1>1 DEF ReadHolder, IsPidAlive, Owns
  <2>6. ASSUME pc[p] = "read", pc'[p] = "remove", ReadNothing(p)
        PROVE  pc[q] = "write" /\ ~calm
    <3>1. pc[q] = "write"
      BY <2>1, <2>6, <1>1 DEF ReadNothing, Readable, Owns
    <3>2. reads[p] > 0
      BY <2>1, <2>6 DEF ReadNothing, ReadRetries, LOCK_EMPTY_RETRIES
    <3> QED
      BY <2>6, <3>1, <3>2 DEF ReadNothing
  <2> QED
    BY <2>3, <2>4, <2>5, <2>6
<1>2. IInv /\ [Next]_vars =>
        [\A p, q \in Proc :
           p # q /\ Owns(q) /\ q \notin robbed =>
             /\ ~(pc[p] = "open" /\ pc'[p] = "write")
             /\ pc[p] = "read" /\ pc'[p] = "remove" => pc[q] = "write" /\ ~calm]_vars
  BY <1>1
<1> QED
  BY Inductive, <1>2, PTL DEF Spec, OwnerIsRespected

-----------------------------------------------------------------------------
(* Appending a sequence of events is appending them one by one.             *)

LEMMA LessIsWellFounded == IsWellFoundedOn({ss \in Nat \X Nat : ss[1] < ss[2]}, Nat)
BY ONLY NatLessThanWellFounded, Zenon DEF OpToRel

LEMMA LeastExists ==
  ASSUME NEW S \in SUBSET Nat, S # {}
  PROVE  \E n \in S : \A m \in S : n <= m
<1>. DEFINE Less == {ss \in Nat \X Nat : ss[1] < ss[2]}
<1>1. PICK x \in S : \A y \in S : ~ (<<y, x>> \in Less)
  BY LessIsWellFounded, WFMin
<1>2. \A a, b \in Nat : a < b => <<a, b>> \in Less
  OBVIOUS
<1>3. ASSUME NEW m \in S PROVE x <= m
  <2>1. ~ (<<m, x>> \in Less) /\ m \in Nat /\ x \in Nat
    BY <1>1
  <2>. HIDE DEF Less
  <2>. QED BY <1>2, <2>1
<1>. QED BY <1>3

Appends(f, n, at, es) == f = [i \in 0 .. n |-> IF i = 0 THEN at ELSE appendRunEvent(f[i - 1], es[i])]

LEMMA AppendsExists ==
  ASSUME NEW at, NEW es, NEW n \in Nat
  PROVE  \E f : Appends(f, n, at, es)
<1>. DEFINE Missing == {k \in Nat : \A f : ~ Appends(f, k, at, es)}
<1>1. ASSUME Missing # {} PROVE FALSE
  <2>1. PICK k \in Missing : \A m \in Missing : k <= m
    BY <1>1, LeastExists
  <2>2. k # 0
    <3>. DEFINE f == [i \in 0 .. 0 |-> at]
    <3>1. f = [i \in 0 .. 0 |-> IF i = 0 THEN at ELSE appendRunEvent(f[i - 1], es[i])]
      OBVIOUS
    <3>2. Appends(f, 0, at, es)
      BY <3>1 DEF Appends
    <3>. QED BY <3>2
  <2>3. PICK g : Appends(g, k - 1, at, es)
    BY <2>1, <2>2
  <2>. DEFINE last == appendRunEvent(g[k - 1], es[k])
  <2>. DEFINE f == [i \in 0 .. k |-> IF i = k THEN last ELSE g[i]]
  <2>4. \A i \in 0 .. k - 1 : f[i] = g[i] /\ g[i] = IF i = 0 THEN at ELSE appendRunEvent(g[i - 1], es[i])
    <3>1. \A i \in 0 .. k - 1 : g[i] = IF i = 0 THEN at ELSE appendRunEvent(g[i - 1], es[i])
      BY <2>2, <2>3 DEF Appends
    <3>2. \A i \in 0 .. k - 1 : i \in 0 .. k /\ i # k
      BY <2>2
    <3>. HIDE DEF last
    <3>. QED BY <3>1, <3>2
  <2>5. f[k] = last
    BY <2>2
  <2>6. ASSUME NEW i \in 0 .. k
        PROVE  f[i] = IF i = 0 THEN at ELSE appendRunEvent(f[i - 1], es[i])
    <3>. HIDE DEF f
    <3>1. CASE i = k
      <4>1. k - 1 \in 0 .. k - 1
        BY <2>2
      <4>2. f[k - 1] = g[k - 1]
        BY <2>4, <4>1
      <4>. QED BY <2>2, <2>5, <3>1, <4>2
    <3>2. CASE i = 0
      BY <2>2, <2>4, <3>2
    <3>3. CASE i # k /\ i # 0
      <4>1. i \in 0 .. k - 1 /\ i - 1 \in 0 .. k - 1
        BY <3>3
      <4>2. f[i] = g[i] /\ f[i - 1] = g[i - 1] /\ g[i] = appendRunEvent(g[i - 1], es[i])
        BY <2>4, <3>3, <4>1
      <4>. QED BY <3>3, <4>2
    <3>. QED BY <3>1, <3>2, <3>3
  <2>7. f = [i \in 0 .. k |-> f[i]]
    OBVIOUS
  <2>. HIDE DEF f
  <2>8. f = [i \in 0 .. k |-> IF i = 0 THEN at ELSE appendRunEvent(f[i - 1], es[i])]
    BY <2>6, <2>7, Zenon
  <2>9. Appends(f, k, at, es)
    BY <2>8 DEF Appends
  <2>. QED BY <2>1, <2>9
<1>. QED BY <1>1

(* f is the run of appends that leads from at to after, one event at a time. *)
InOrder(f, at, es, after) ==
  /\ f[0] = at /\ after = f[Len(es)]
  /\ \A i \in 1 .. Len(es) : f[i] = appendRunEvent(f[i - 1], es[i])

LEMMA AppendsInOrder ==
  ASSUME NEW at, NEW es, Len(es) \in Nat
  PROVE  \E f : InOrder(f, at, es, appendRunEvents(at, es))
<1>. DEFINE after == CHOOSE f : Appends(f, Len(es), at, es)
<1>1. appendRunEvents(at, es) = after[Len(es)]
  BY DEF appendRunEvents, Appends
<1>2. Appends(after, Len(es), at, es)
  BY AppendsExists
<1>. HIDE DEF after
<1>3. \A i \in 0 .. Len(es) : after[i] = IF i = 0 THEN at ELSE appendRunEvent(after[i - 1], es[i])
  BY <1>2 DEF Appends
<1>4. after[0] = at /\ \A i \in 1 .. Len(es) : after[i] = appendRunEvent(after[i - 1], es[i])
  BY <1>3
<1>5. InOrder(after, at, es, appendRunEvents(at, es))
  BY <1>1, <1>4 DEF InOrder
<1>. QED BY <1>5

LEMMA AppendsOne ==
  ASSUME NEW at, NEW a
  PROVE  appendRunEvents(at, <<a>>) = appendRunEvent(at, a)
<1>. DEFINE es == <<a>>
<1>1. Len(es) = 1 /\ es[1] = a /\ Len(es) \in Nat
  OBVIOUS
<1>. HIDE DEF es
<1>0. PICK f : InOrder(f, at, es, appendRunEvents(at, es))
  BY <1>1, AppendsInOrder, Zenon
<1>2. /\ f[0] = at /\ appendRunEvents(at, es) = f[Len(es)]
      /\ \A i \in 1 .. Len(es) : f[i] = appendRunEvent(f[i - 1], es[i])
  BY ONLY <1>0 DEF InOrder
<1>3. f[1] = appendRunEvent(f[0], a)
  BY <1>1, <1>2
<1>4. appendRunEvents(at, es) = appendRunEvent(at, a)
  BY <1>1, <1>2, <1>3
<1>. QED BY <1>4 DEF es

LEMMA AppendsTwo ==
  ASSUME NEW at, NEW a, NEW b
  PROVE  appendRunEvents(at, <<a, b>>) = appendRunEvent(appendRunEvent(at, a), b)
<1>. DEFINE es == <<a, b>>
<1>1. Len(es) = 2 /\ es[1] = a /\ es[2] = b /\ Len(es) \in Nat
  OBVIOUS
<1>. HIDE DEF es
<1>0. PICK f : InOrder(f, at, es, appendRunEvents(at, es))
  BY <1>1, AppendsInOrder, Zenon
<1>2. /\ f[0] = at /\ appendRunEvents(at, es) = f[Len(es)]
      /\ \A i \in 1 .. Len(es) : f[i] = appendRunEvent(f[i - 1], es[i])
  BY ONLY <1>0 DEF InOrder
<1>3. f[1] = appendRunEvent(f[0], a) /\ f[2] = appendRunEvent(f[1], b)
  BY <1>1, <1>2
<1>4. appendRunEvents(at, es) = appendRunEvent(appendRunEvent(at, a), b)
  BY <1>1, <1>2, <1>3
<1>. QED BY <1>4 DEF es

LEMMA AppendsThree ==
  ASSUME NEW at, NEW a, NEW b, NEW c
  PROVE  appendRunEvents(at, <<a, b, c>>) =
           appendRunEvent(appendRunEvent(appendRunEvent(at, a), b), c)
<1>. DEFINE es == <<a, b, c>>
<1>1. Len(es) = 3 /\ es[1] = a /\ es[2] = b /\ es[3] = c /\ Len(es) \in Nat
  OBVIOUS
<1>. HIDE DEF es
<1>0. PICK f : InOrder(f, at, es, appendRunEvents(at, es))
  BY <1>1, AppendsInOrder, Zenon
<1>2. /\ f[0] = at /\ appendRunEvents(at, es) = f[Len(es)]
      /\ \A i \in 1 .. Len(es) : f[i] = appendRunEvent(f[i - 1], es[i])
  BY ONLY <1>0 DEF InOrder
<1>3. f[1] = appendRunEvent(f[0], a) /\ f[2] = appendRunEvent(f[1], b) /\ f[3] = appendRunEvent(f[2], c)
  BY <1>1, <1>2
<1>4. appendRunEvents(at, es) = appendRunEvent(appendRunEvent(appendRunEvent(at, a), b), c)
  BY <1>1, <1>2, <1>3
<1>. QED BY <1>4 DEF es

-----------------------------------------------------------------------------
(* The shape of the state.                                                  *)

Values == [setup : BOOLEAN, impl : {"none", "partial", "green"}, blocked : BOOLEAN, review : Tri, build : Tri,
           integration : Tri, preMerge : Tri, cleanup : {"none", "clear", "blocked"}, merged : Tri]
RunRecords ==
  [by : Sessions \cup {"nobody"}, pc : Stages \cup {"none", "close", "ended", "dead"}, mid : BOOLEAN,
   skip : Skippable \cup {"none"}, rows : [Stages -> Outcomes \cup {"none"}], muted : SUBSET Stages,
   val : Values, aborted : BOOLEAN, end : {"none", "cancelled", "error"}, spent : BOOLEAN, wall : BOOLEAN,
   replan : BOOLEAN, status : {"none", "success", "partial", "failed", "replan"}]
Ledgers == [clean : BOOLEAN, block : {"none", "open", "closed"}, open : SUBSET Stages,
            ended : [Stages -> Outcomes \cup {"none"}], gap : BOOLEAN, cut : BOOLEAN, zombie : BOOLEAN]
Trees == [landed : BOOLEAN, dirty : BOOLEAN, secret : BOOLEAN, closed : BOOLEAN]
Numbers == {"none", "current", "stale"}
Excuses == {"session", "kill", "lost", "fatal", "agent error", "git"}

Live == run.pc \in Stages \cup {"close"}

Shape ==
  /\ run \in RunRecords /\ ledger \in Ledgers /\ tree \in Trees
  /\ known \in [Sessions -> Numbers] /\ turns \in 0 .. MaxTurns /\ happened \in SUBSET Excuses
  /\ Live => run.by \in Sessions

(* A process whose numbers are stale is one that another has followed, and  *)
(* only its lines leave a gap.                                              *)
Numbered == ledger.gap \/ (Live /\ known[run.by] = "stale") => "session" \in happened

(* Set-up is the first stage, and every later one has its values.           *)
SetUp ==
  /\ run.pc \in Stages => run.val.setup = (run.pc # "setup")
  /\ run.pc = "setup" => run.spent = FALSE
  /\ run.val.setup = FALSE => \A x \in Stages \ {"setup"} : run.rows[x] = "none"

(* Unless a run was killed or an append failed, the ledger is inside a run  *)
(* just when one is in progress that has set up.                            *)
Bracketed ==
  happened \cap {"kill", "lost"} = {} =>
    ledger.cut = FALSE /\ (ledger.block = "open") = (Live /\ run.val.setup)

(* And the stage that is open in it is the one being executed.              *)
Paired ==
  happened \cap {"kill", "lost", "fatal", "agent error"} = {} =>
    /\ ledger.zombie = FALSE
    /\ ledger.open = IF run.pc \in Stages /\ run.mid /\ run.val.setup THEN {run.pc} ELSE {}

LedgerInv == Numbered /\ SetUp /\ Bracketed /\ Paired /\ LedgerTellsTheRows

(* What the values say at each stage, and why a run may be closing.         *)
Excused == run.skip \in {"preMergeBuild", "cleanup", "merge-verify"} \/ "git" \in happened

Walked ==
  /\ \A x \in Stages : run.rows[x] = "cancelled" => run.end = "cancelled"
  /\ run.wall => run.pc \notin {"setup", "classify", "requirements", "implementation"} /\ run.end # "error"
  /\ run.val.review = "yes" => run.val.build = "yes" /\ run.val.integration # "none"
  /\ run.pc \in {"docs", "preMergeBuild", "cleanup", "merge", "merge-verify"} => hasVerifiedImplementation(run.val)
  /\ run.pc \in {"cleanup", "merge", "merge-verify"} => run.skip = "preMergeBuild" \/ run.val.preMerge # "none"
  /\ run.pc \in {"merge", "merge-verify"} => canMerge(run.val)
  /\ run.val.cleanup = "clear" => tree.secret = FALSE \/ "git" \in happened
  /\ run.pc \in Stages => run.end = "none"
  /\ run.pc # "ended" => run.status = "none"

(* A run that is about to close as a success has earned it.                 *)
EarnedSuccess ==
  /\ \A x \in Stages : run.rows[x] \in {"ok", "skipped", "none"}
  /\ (tree.landed /\ ~tree.dirty /\ ~tree.secret) \/ Excused
Closing == run.pc = "close" /\ deriveRunStatus(run) = "success" => EarnedSuccess

TreeInv == Walked /\ Closing /\ SuccessIsEarned

-----------------------------------------------------------------------------
(* Appending keeps the shape of the ledger, and leaves a gap only when the  *)
(* process numbers its lines from a stale memory.                           *)

Events == [type : Outcomes \cup {"run.started", "run.completed", "started"}, stage : Stages,
           fate : {"written", "refused", "torn"}]
Appenders == [file : Ledgers, number : Numbers]
Kept(from, to) ==
  /\ to \in Appenders
  /\ to.number = "stale" => from.number = "stale"
  /\ to.file.gap => from.file.gap \/ from.number = "stale"

LEMMA CheckKeeps ==
  ASSUME NEW l \in Ledgers, NEW e \in Events, NEW inOrder \in BOOLEAN
  PROVE  /\ checkRunLogInvariants(l, e, inOrder) \in Ledgers
         /\ checkRunLogInvariants(l, e, inOrder).gap = (l.gap \/ ~inOrder)
         /\ reconstructStageOutcomes(l, e) \in [Stages -> Outcomes \cup {"none"}]
<1>. DEFINE opens == e.type = "started"
<1>. DEFINE closes == e.type \in Outcomes
<1>. DEFINE ends == e.type = "run.completed"
<1>. DEFINE gap == l.gap \/ ~inOrder
<1>. DEFINE cut == l.cut \/ (e.type = "run.started" /\ l.block = "open") \/ (e.type # "run.started" /\ l.block # "open")
<1>. DEFINE block == IF ends THEN "closed" ELSE "open"
<1>. DEFINE zombie == l.zombie \/ (opens /\ e.stage \in l.open) \/ (closes /\ e.stage \notin l.open) \/ (ends /\ l.open # {})
<1>. DEFINE open == IF opens THEN l.open \cup {e.stage} ELSE IF closes THEN l.open \ {e.stage} ELSE l.open
<1>. DEFINE seen == [l EXCEPT !.gap = gap, !.cut = cut, !.block = block, !.zombie = zombie, !.open = open]
<1>1. checkRunLogInvariants(l, e, inOrder) = seen
  BY DEF checkRunLogInvariants
<1>2. gap \in BOOLEAN /\ cut \in BOOLEAN /\ zombie \in BOOLEAN /\ block \in {"none", "open", "closed"} /\ open \subseteq Stages
  BY DEF Ledgers, Events
<1>3. reconstructStageOutcomes(l, e) \in [Stages -> Outcomes \cup {"none"}]
  BY DEF Ledgers, Events, reconstructStageOutcomes
<1>. HIDE DEF gap, cut, zombie, block, open
<1>4. seen \in Ledgers /\ seen.gap = gap
  BY <1>2 DEF Ledgers
<1>. QED BY <1>1, <1>3, <1>4 DEF gap

LEMMA AppendKeeps ==
  ASSUME NEW at \in Appenders, NEW e \in Events
  PROVE  Kept(at, appendRunEvent(at, e))
<1>. DEFINE inOrder == at.number # "stale"
<1>. DEFINE checked == checkRunLogInvariants(at.file, e, inOrder)
<1>. DEFINE ended == reconstructStageOutcomes(at.file, e)
<1>. DEFINE seen == [checked EXCEPT !.ended = ended, !.clean = TRUE]
<1>1. at.file \in Ledgers /\ at.number \in Numbers /\ inOrder \in BOOLEAN
  BY DEF Appenders
<1>2. checked \in Ledgers /\ checked.gap = (at.file.gap \/ ~inOrder) /\ ended \in [Stages -> Outcomes \cup {"none"}]
  BY <1>1, CheckKeeps
<1>3. appendRunEvent(at, e) =
        CASE e.fate = "refused" -> [at EXCEPT !.number = "none"]
          [] e.fate = "torn" -> [file |-> [at.file EXCEPT !.clean = FALSE], number |-> "none"]
          [] OTHER -> [file |-> seen, number |-> IF inOrder THEN "current" ELSE "stale"]
  BY DEF appendRunEvent, Heals
<1>4. seen \in Ledgers /\ seen.gap = (at.file.gap \/ ~inOrder)
  <2>. HIDE DEF checked, ended, inOrder
  <2>. QED BY <1>2 DEF Ledgers
<1>. HIDE DEF seen, checked, ended
<1>5. CASE e.fate = "refused"
  BY <1>1, <1>3, <1>5 DEF Kept, Appenders, Numbers
<1>6. CASE e.fate = "torn"
  <2>1. [at.file EXCEPT !.clean = FALSE] \in Ledgers /\ [at.file EXCEPT !.clean = FALSE].gap = at.file.gap
    BY <1>1 DEF Ledgers
  <2>2. appendRunEvent(at, e) = [file |-> [at.file EXCEPT !.clean = FALSE], number |-> "none"]
    BY <1>3, <1>6
  <2>. DEFINE file == [at.file EXCEPT !.clean = FALSE]
  <2>3. file \in Ledgers /\ file.gap = at.file.gap
    BY <2>1
  <2>. HIDE DEF file
  <2>4. appendRunEvent(at, e) = [file |-> file, number |-> "none"]
    BY <2>2 DEF file
  <2>. QED BY <2>3, <2>4 DEF Kept, Appenders, Numbers
<1>7. CASE e.fate \notin {"refused", "torn"}
  <2>1. appendRunEvent(at, e) = [file |-> seen, number |-> IF inOrder THEN "current" ELSE "stale"]
    BY <1>3, <1>7
  <2>. DEFINE number == IF inOrder THEN "current" ELSE "stale"
  <2>2. /\ number \in Numbers
        /\ number = "stale" => at.number = "stale"
        /\ seen.gap => at.file.gap \/ at.number = "stale"
    BY <1>1, <1>4 DEF Numbers
  <2>3. appendRunEvent(at, e) = [file |-> seen, number |-> number]
    BY <2>1
  <2>. HIDE DEF number
  <2>. QED BY <1>4, <2>2, <2>3 DEF Kept, Appenders
<1>. QED BY <1>5, <1>6, <1>7

LEMMA AppendsKeep ==
  ASSUME NEW at \in Appenders, NEW es \in Seq(Events)
  PROVE  Kept(at, appendRunEvents(at, es))
<1>1. Len(es) \in Nat
  OBVIOUS
<1>0. PICK f : InOrder(f, at, es, appendRunEvents(at, es))
  BY <1>1, AppendsInOrder, Zenon
<1>2. /\ f[0] = at /\ appendRunEvents(at, es) = f[Len(es)]
      /\ \A i \in 1 .. Len(es) : f[i] = appendRunEvent(f[i - 1], es[i])
  BY ONLY <1>0 DEF InOrder
<1>. DEFINE Wrong == {i \in 0 .. Len(es) : ~ Kept(at, f[i])}
<1>3. ASSUME Wrong # {} PROVE FALSE
  <2>. Wrong \in SUBSET Nat
    BY <1>1
  <2>1. PICK k \in Wrong : \A m \in Wrong : k <= m
    <3>. HIDE DEF Wrong
    <3>. QED BY <1>3, LeastExists
  <2>2. k # 0
    <3>1. Kept(at, at)
      BY DEF Kept
    <3>. QED BY <1>2, <2>1, <3>1
  <2>3. k \in 1 .. Len(es) /\ k - 1 \in 0 .. Len(es) /\ ~ (k <= k - 1)
    BY <1>1, <2>1, <2>2
  <2>4. Kept(at, f[k - 1])
    BY <2>1, <2>3
  <2>5. es[k] \in Events
    BY <2>3
  <2>6. Kept(f[k - 1], f[k])
    <3>1. f[k] = appendRunEvent(f[k - 1], es[k])
      BY <1>2, <2>3
    <3>. QED BY <2>4, <2>5, <3>1, AppendKeeps DEF Kept
  <2>7. Kept(at, f[k])
    BY <2>4, <2>6 DEF Kept
  <2>. QED BY <2>1, <2>7
<1>4. Kept(at, f[Len(es)])
  BY <1>1, <1>3
<1>. QED BY <1>2, <1>4

LEMMA FatedEvents ==
  ASSUME NEW es \in Seq(Events), NEW fated \in Fated(es)
  PROVE  fated \in Seq(Events)
<1>1. CASE fated = es
  BY <1>1
<1>2. ASSUME NEW i \in DOMAIN es, NEW f \in {"refused", "torn"}, fated = [es EXCEPT ![i].fate = f]
      PROVE  fated \in Seq(Events)
  <2>1. i \in 1 .. Len(es) /\ es[i] \in Events
    OBVIOUS
  <2>2. [es[i] EXCEPT !.fate = f] \in Events
    BY <2>1 DEF Events
  <2>3. fated = [es EXCEPT ![i] = [es[i] EXCEPT !.fate = f]]
    BY <1>2
  <2>. QED BY <2>1, <2>2, <2>3
<1>. QED BY <1>1, <1>2 DEF Fated

(* What a step that appends `es` does to the ledger.                        *)
LEMMA LedgerStep ==
  ASSUME Shape, run.by \in Sessions, NEW there \in BOOLEAN, NEW es \in Seq(Events), NEW wrong \in Nat,
         NEW why \in SUBSET Excuses, ledgerEvent(there, es, wrong, why)
  PROVE  /\ ledger' \in Ledgers /\ known' \in [Sessions -> Numbers]
         /\ turns' \in 0 .. MaxTurns /\ happened' \in SUBSET Excuses
         /\ happened \cup why \subseteq happened'
         /\ known'[run.by] = "stale" => known[run.by] = "stale"
         /\ ledger'.gap => ledger.gap \/ known[run.by] = "stale"
         /\ "lost" \notin happened' =>
              /\ happened' = happened \cup why
              /\ ledger' = IF there THEN appendRunEvents([file |-> ledger, number |-> known[run.by]], es).file ELSE ledger
<1>1. CASE there = FALSE
  BY <1>1, RunTreeAssumption DEF Shape, ledgerEvent, GoesWrong
<1>2. CASE there = TRUE
  <2>. DEFINE from == [file |-> ledger, number |-> known[run.by]]
  <2>1. PICK fated \in Fated(es) :
          LET at == appendRunEvents(from, fated)
              failed == fated # es
          IN /\ ledger' = at.file
             /\ known' = [s \in Sessions |-> IF s = run.by THEN at.number ELSE IF known[s] = "current" THEN "stale" ELSE known[s]]
             /\ GoesWrong(wrong + IF failed THEN 1 ELSE 0)
             /\ happened' = happened \cup why \cup (IF failed THEN {"lost"} ELSE {})
    BY <1>2 DEF ledgerEvent
  <2>. DEFINE at == appendRunEvents(from, fated)
  <2>2. from \in Appenders /\ from.number = known[run.by] /\ from.file = ledger
    BY DEF Shape, Appenders
  <2>3. Kept(from, at)
    <3>. HIDE DEF from
    <3>. QED BY <2>2, FatedEvents, AppendsKeep
  <2>4. at.file \in Ledgers /\ at.number \in Numbers
    BY <2>3 DEF Kept, Appenders
  <2>5. at.number = "stale" => known[run.by] = "stale"
    BY <2>2, <2>3 DEF Kept
  <2>6. at.file.gap => ledger.gap \/ known[run.by] = "stale"
    BY <2>2, <2>3 DEF Kept
  <2>7. ledger' = at.file /\ happened' = happened \cup why \cup (IF fated # es THEN {"lost"} ELSE {})
    BY <2>1
  <2>8. known' = [s \in Sessions |-> IF s = run.by THEN at.number ELSE IF known[s] = "current" THEN "stale" ELSE known[s]]
    BY <2>1
  <2>9. turns' \in 0 .. MaxTurns
    <3>1. GoesWrong(wrong + IF fated # es THEN 1 ELSE 0)
      BY <2>1
    <3>. QED BY <3>1, RunTreeAssumption DEF Shape, GoesWrong
  <2>10. ASSUME "lost" \notin happened' PROVE fated = es
    BY <2>7, <2>10
  <2>11. "lost" \notin happened' => ledger' = appendRunEvents(from, es).file /\ happened' = happened \cup why
    BY <2>7, <2>10
  <2>. HIDE DEF at, from
  <2>12. known' \in [Sessions -> Numbers] /\ known'[run.by] = at.number
    BY <2>4, <2>8 DEF Shape, Numbers
  <2>13. happened' \in SUBSET Excuses /\ happened \cup why \subseteq happened'
    BY <2>7 DEF Shape, Excuses
  <2>. QED BY <1>2, <2>4, <2>5, <2>6, <2>7, <2>9, <2>11, <2>12, <2>13 DEF from
<1>. QED BY <1>1, <1>2

-----------------------------------------------------------------------------
(* What the events of a step leave in the ledger when they are all written. *)

Wrote(l, e, m) ==
  /\ m \in Ledgers
  /\ m.ended = reconstructStageOutcomes(l, e)
  /\ m.block = IF e.type = "run.completed" THEN "closed" ELSE "open"
  /\ l.cut = FALSE /\ (e.type = "run.started") = (l.block # "open") => m.cut = FALSE
  /\ l.zombie = FALSE /\ l.open = (IF e.type \in Outcomes THEN {e.stage} ELSE {}) =>
       m.zombie = FALSE /\ m.open = IF e.type = "started" THEN {e.stage} ELSE {}

LEMMA WritesOne ==
  ASSUME NEW at \in Appenders, NEW e \in Events, e.fate = "written"
  PROVE  Wrote(at.file, e, appendRunEvent(at, e).file) /\ appendRunEvent(at, e) \in Appenders
<1>. DEFINE inOrder == at.number # "stale"
<1>. DEFINE l == at.file
<1>. DEFINE opens == e.type = "started"
<1>. DEFINE closes == e.type \in Outcomes
<1>. DEFINE ends == e.type = "run.completed"
<1>. DEFINE gap == l.gap \/ ~inOrder
<1>. DEFINE cut == l.cut \/ (e.type = "run.started" /\ l.block = "open") \/ (e.type # "run.started" /\ l.block # "open")
<1>. DEFINE block == IF ends THEN "closed" ELSE "open"
<1>. DEFINE zombie == l.zombie \/ (opens /\ e.stage \in l.open) \/ (closes /\ e.stage \notin l.open) \/ (ends /\ l.open # {})
<1>. DEFINE open == IF opens THEN l.open \cup {e.stage} ELSE IF closes THEN l.open \ {e.stage} ELSE l.open
<1>. DEFINE checked == [l EXCEPT !.gap = gap, !.cut = cut, !.block = block, !.zombie = zombie, !.open = open]
<1>. DEFINE ended == reconstructStageOutcomes(l, e)
<1>. DEFINE m == [checked EXCEPT !.ended = ended, !.clean = TRUE]
<1>. DEFINE number == IF inOrder THEN "current" ELSE "stale"
<1>1. l \in Ledgers /\ at.number \in Numbers
  BY DEF Appenders
<1>2. appendRunEvent(at, e) = [file |-> m, number |-> number]
  BY DEF appendRunEvent, Heals, checkRunLogInvariants
<1>3. appendRunEvent(at, e) \in Appenders
  BY AppendKeeps DEF Kept
<1>4. cut = FALSE <=> l.cut = FALSE /\ (e.type = "run.started") = (l.block # "open")
  BY <1>1 DEF Ledgers
<1>5. /\ l.zombie = FALSE /\ l.open = (IF e.type \in Outcomes THEN {e.stage} ELSE {}) =>
           zombie = FALSE /\ open = IF e.type = "started" THEN {e.stage} ELSE {}
  BY <1>1 DEF Ledgers, Outcomes
<1>. HIDE DEF gap, cut, block, zombie, open, ended
<1>6. m.ended = ended /\ m.block = block /\ m.cut = cut /\ m.zombie = zombie /\ m.open = open
  BY <1>1 DEF Ledgers
<1>. HIDE DEF m, checked, number
<1>7. appendRunEvent(at, e).file = m
  BY <1>2
<1>8. m \in Ledgers
  BY <1>3, <1>7 DEF Appenders
<1>9. Wrote(l, e, m)
  BY <1>4, <1>5, <1>6, <1>8 DEF Wrote, ended, block
<1>. QED BY <1>3, <1>7, <1>9

LEMMA EventFields ==
  ASSUME NEW type \in Outcomes \cup {"run.started", "run.completed", "started"}, NEW x \in Stages
  PROVE  /\ Event(type, x) \in Events /\ Event(type, x).fate = "written"
         /\ Event(type, x).type = type /\ Event(type, x).stage = x
BY DEF Event, Events

(* The ledger after what a step appends, from a ledger l.                   *)
After(at, es) == appendRunEvents(at, es).file

Begun(x) == <<Started(x)>>
Closed(x, o) == <<Event(o, x)>>
ClosedTwice(x, o, p) == <<Event(o, x), Event(p, x)>>
Opening(x, o) == <<RunStarted, Started(x), Event(o, x)>>
Completed == <<RunCompleted>>

(* What the events of a stage leave of a ledger l: a start, a start-less end, *)
(* an end, the flush at set-up's end and the end of the run.                 *)
Begins(l, m, x) ==
  /\ m.ended = l.ended /\ m.block = "open"
  /\ l.cut = FALSE /\ l.block = "open" => m.cut = FALSE
  /\ l.zombie = FALSE /\ l.open = {} => m.zombie = FALSE /\ m.open = {x}
Unbegins(l, m, x, o) ==
  /\ m.ended = [l.ended EXCEPT ![x] = o] /\ m.block = "open"
  /\ l.cut = FALSE /\ l.block = "open" => m.cut = FALSE
  /\ l.zombie = FALSE /\ l.open = {} => m.zombie = FALSE /\ m.open = {}
Finishes(l, m, x, o) ==
  /\ m.ended = [l.ended EXCEPT ![x] = o] /\ m.block = "open"
  /\ l.cut = FALSE /\ l.block = "open" => m.cut = FALSE
  /\ l.zombie = FALSE /\ l.open = {x} => m.zombie = FALSE /\ m.open = {}
Flushes(l, m, x, o) ==
  /\ m.ended = [l.ended EXCEPT ![x] = o] /\ m.block = "open"
  /\ l.cut = FALSE /\ l.block # "open" => m.cut = FALSE
  /\ l.zombie = FALSE /\ l.open = {} => m.zombie = FALSE /\ m.open = {}
Completes(l, m) ==
  /\ m.ended = l.ended /\ m.block = "closed"
  /\ l.cut = FALSE /\ l.block = "open" => m.cut = FALSE
  /\ l.zombie = FALSE /\ l.open = {} => m.zombie = FALSE /\ m.open = {}

LEMMA AfterBegin ==
  ASSUME NEW at \in Appenders, NEW x \in Stages
  PROVE  Begins(at.file, After(at, Begun(x)), x)
<1>. DEFINE m == appendRunEvent(at, Started(x)).file
<1>1. After(at, Begun(x)) = m
  BY AppendsOne DEF After, Begun
<1>2. Started(x) \in Events /\ Started(x).fate = "written" /\ Started(x).type = "started" /\ Started(x).stage = x
  BY EventFields DEF Started
<1>3. Wrote(at.file, Started(x), m)
  BY <1>2, WritesOne
<1>. HIDE DEF m
<1>4. Begins(at.file, m, x)
  BY <1>2, <1>3 DEF Begins, Wrote, reconstructStageOutcomes, Outcomes
<1>. QED BY ONLY <1>1, <1>4, Zenon

LEMMA AfterEnd ==
  ASSUME NEW at \in Appenders, NEW x \in Stages, NEW o \in Outcomes
  PROVE  Finishes(at.file, After(at, Closed(x, o)), x, o)
<1>. DEFINE m == appendRunEvent(at, Event(o, x)).file
<1>1. After(at, Closed(x, o)) = m
  BY AppendsOne DEF After, Closed
<1>2. Event(o, x) \in Events /\ Event(o, x).fate = "written" /\ Event(o, x).type = o /\ Event(o, x).stage = x
  BY EventFields
<1>3. Wrote(at.file, Event(o, x), m)
  BY <1>2, WritesOne
<1>. HIDE DEF m
<1>4. Finishes(at.file, m, x, o)
  BY <1>2, <1>3 DEF Finishes, Wrote, reconstructStageOutcomes, Outcomes
<1>. QED BY ONLY <1>1, <1>4, Zenon

LEMMA AfterComplete ==
  ASSUME NEW at \in Appenders
  PROVE  Completes(at.file, After(at, Completed))
<1>. DEFINE m == appendRunEvent(at, RunCompleted).file
<1>1. After(at, Completed) = m
  BY AppendsOne DEF After, Completed
<1>2. RunCompleted \in Events /\ RunCompleted.fate = "written" /\ RunCompleted.type = "run.completed"
  BY EventFields DEF RunCompleted, Stages
<1>3. Wrote(at.file, RunCompleted, m)
  BY <1>2, WritesOne
<1>. HIDE DEF m
<1>4. Completes(at.file, m)
  BY <1>2, <1>3 DEF Completes, Wrote, reconstructStageOutcomes, Outcomes
<1>. QED BY ONLY <1>1, <1>4, Zenon

LEMMA AfterUnbegun ==
  ASSUME NEW at \in Appenders, NEW x \in Stages, NEW o \in Outcomes
  PROVE  Unbegins(at.file, After(at, Unbegun(x, o)), x, o)
<1>. DEFINE mid == appendRunEvent(at, Started(x))
<1>1. After(at, Unbegun(x, o)) = After(mid, Closed(x, o))
  BY AppendsOne, AppendsTwo DEF After, Unbegun, Closed
<1>2. mid.file = After(at, Begun(x))
  BY AppendsOne DEF After, Begun
<1>3. mid \in Appenders
  <2>1. Started(x) \in Events /\ Started(x).fate = "written"
    BY EventFields DEF Started
  <2>. QED BY <2>1, WritesOne
<1>. HIDE DEF mid
<1>4. Begins(at.file, mid.file, x)
  BY <1>2, AfterBegin, Zenon
<1>. DEFINE m == After(mid, Closed(x, o))
<1>5. Finishes(mid.file, m, x, o)
  BY <1>3, AfterEnd, Zenon
<1>. HIDE DEF m
<1>6. After(at, Unbegun(x, o)) = m
  BY <1>1 DEF m
<1>7. Unbegins(at.file, m, x, o)
  BY ONLY <1>4, <1>5 DEF Begins, Finishes, Unbegins
<1>. QED BY ONLY <1>6, <1>7, Zenon

Logs(l, m, x, o) ==
  /\ m.ended = [l.ended EXCEPT ![x] = o] /\ m.block = "open"
  /\ l.cut = FALSE /\ l.block = "open" => m.cut = FALSE

LEMMA AfterBoth ==
  ASSUME NEW at \in Appenders, NEW x \in Stages, NEW o \in Outcomes, NEW p \in Outcomes
  PROVE  Logs(at.file, After(at, ClosedTwice(x, o, p)), x, p)
<1>. DEFINE mid == appendRunEvent(at, Event(o, x))
<1>1. After(at, ClosedTwice(x, o, p)) = After(mid, Closed(x, p))
  BY AppendsOne, AppendsTwo DEF After, ClosedTwice, Closed
<1>2. mid.file = After(at, Closed(x, o))
  BY AppendsOne DEF After, Closed
<1>3. mid \in Appenders
  <2>1. Event(o, x) \in Events /\ Event(o, x).fate = "written"
    BY EventFields
  <2>. QED BY <2>1, WritesOne
<1>. HIDE DEF mid
<1>4. at.file.ended \in [Stages -> Outcomes \cup {"none"}]
  BY DEF Appenders, Ledgers
<1>5. Finishes(at.file, mid.file, x, o)
  <2>1. Finishes(at.file, After(at, Closed(x, o)), x, o)
    BY AfterEnd, Zenon
  <2>. QED BY ONLY <1>2, <2>1, Zenon
<1>. DEFINE m == After(mid, Closed(x, p))
<1>6. Finishes(mid.file, m, x, p)
  BY <1>3, AfterEnd, Zenon
<1>. HIDE DEF m
<1>7. After(at, ClosedTwice(x, o, p)) = m
  BY <1>1 DEF m
<1>8. [[at.file.ended EXCEPT ![x] = o] EXCEPT ![x] = p] = [at.file.ended EXCEPT ![x] = p]
  BY ONLY <1>4
<1>9. mid.file.ended = [at.file.ended EXCEPT ![x] = o] /\ m.ended = [mid.file.ended EXCEPT ![x] = p]
  BY ONLY <1>5, <1>6 DEF Finishes
<1>10. m.ended = [at.file.ended EXCEPT ![x] = p]
  BY ONLY <1>8, <1>9
<1>11. Logs(at.file, m, x, p)
  BY ONLY <1>5, <1>6, <1>10 DEF Finishes, Logs
<1>. QED BY ONLY <1>7, <1>11, Zenon

LEMMA AfterFlush ==
  ASSUME NEW at \in Appenders, NEW x \in Stages, NEW o \in Outcomes
  PROVE  Flushes(at.file, After(at, Opening(x, o)), x, o)
<1>. DEFINE first == appendRunEvent(at, RunStarted)
<1>1. After(at, Opening(x, o)) = After(first, Unbegun(x, o))
  BY AppendsTwo, AppendsThree DEF After, Unbegun, Opening
<1>2. RunStarted \in Events /\ RunStarted.fate = "written" /\ RunStarted.type = "run.started"
  BY EventFields DEF RunStarted, Stages
<1>3. Wrote(at.file, RunStarted, first.file) /\ first \in Appenders
  BY <1>2, WritesOne
<1>. HIDE DEF first
<1>4. /\ first.file.ended = at.file.ended /\ first.file.block = "open"
      /\ at.file.cut = FALSE /\ at.file.block # "open" => first.file.cut = FALSE
      /\ at.file.zombie = FALSE /\ at.file.open = {} => first.file.zombie = FALSE /\ first.file.open = {}
  BY <1>2, <1>3 DEF Wrote, reconstructStageOutcomes, Outcomes
<1>. DEFINE m == After(first, Unbegun(x, o))
<1>5. Unbegins(first.file, m, x, o)
  BY <1>3, AfterUnbegun, Zenon
<1>. HIDE DEF m
<1>6. After(at, Opening(x, o)) = m
  BY <1>1 DEF m
<1>7. Flushes(at.file, m, x, o)
  BY ONLY <1>4, <1>5 DEF Unbegins, Flushes
<1>. QED BY ONLY <1>6, <1>7, Zenon

-----------------------------------------------------------------------------
(* Where a run goes on, and what leaving a stage changes.                   *)

Ahead == (Stages \ {"setup"}) \cup {"close"}

Follows(r, x, outcome, to) ==
  /\ to \in Ahead
  /\ to \in {"classify", "requirements", "implementation"} =>
       /\ x \in {"setup", "classify", "requirements", "implementation"}
       /\ x = "implementation" => r.val.blocked = FALSE
  /\ to = "docs" => hasVerifiedImplementation(r.val)
  /\ to = "preMergeBuild" => x = "docs"
  /\ to = "cleanup" => x = "preMergeBuild" /\ outcome # "failed"
  /\ to = "merge" => x = "cleanup" /\ canMerge(r.val)
  /\ to = "merge-verify" => x = "merge"
  /\ to = "close" => \/ outcome = "failed"
                     \/ x \in {"verification", "verificationSkippedReplan"} /\ ~hasVerifiedImplementation(r.val)
                     \/ x = "cleanup" /\ ~canMerge(r.val)
                     \/ x = "merge-verify"

LEMMA FollowingFacts ==
  ASSUME NEW r \in RunRecords, NEW x \in Stages, NEW outcome \in Outcomes, NEW to \in Following(r, x, outcome)
  PROVE  Follows(r, x, outcome, to)
<1>1. AfterImplementation(r) \in {"verification", "verificationSkippedReplan"}
  BY DEF AfterImplementation
<1>2. \/ AfterDocuments(r) \in {"verification", "verificationSkippedReplan"}
      \/ AfterDocuments(r) = "implementation" /\ r.val.blocked = FALSE
  BY <1>1 DEF AfterDocuments, shouldIterateImplementation, RunRecords, Values
<1>3. CASE x \in {"setup", "classify"}
  BY <1>3 DEF Follows, Following, Ahead, Stages, Writers
<1>4. CASE x \in {"requirements", "implementation"}
  BY <1>1, <1>2, <1>4 DEF Follows, Following, Ahead, Stages, Writers
<1>5. CASE x \in {"verification", "verificationSkippedReplan"}
  BY <1>5 DEF Follows, Following, Ahead, Stages, Writers
<1>6. CASE x \in {"docs", "preMergeBuild"}
  BY <1>6 DEF Follows, Following, Ahead, Stages, Writers
<1>7. CASE x \in {"cleanup", "merge", "merge-verify"}
  BY <1>7 DEF Follows, Following, Ahead, Stages, Writers
<1>. QED BY <1>3, <1>4, <1>5, <1>6, <1>7 DEF Stages, Writers

LEMMA RowFields ==
  ASSUME NEW r \in RunRecords, NEW x \in Stages, NEW outcome \in Outcomes
  PROVE  /\ Row(r, x, outcome) \in RunRecords
         /\ Row(r, x, outcome).rows = [r.rows EXCEPT ![x] = outcome]
         /\ \A f \in {"by", "pc", "mid", "skip", "muted", "val", "aborted", "end", "spent", "wall", "replan", "status"} :
              Row(r, x, outcome)[f] = r[f]
BY DEF Row, RunRecords

(* The fields of the run p that leaves a stage as the run q says it ends.   *)
Leaves(p, q) ==
  /\ p \in RunRecords /\ p.mid = FALSE /\ p.by = q.by /\ p.skip = q.skip /\ p.rows = q.rows /\ p.muted = q.muted
  /\ p.val = q.val /\ p.aborted = q.aborted /\ p.spent = q.spent /\ p.wall = q.wall /\ p.replan = q.replan
  /\ p.status = q.status

LEMMA LeaveFields ==
  ASSUME NEW r \in RunRecords, NEW x \in Stages, NEW outcome \in Outcomes, NEW to \in Following(r, x, outcome),
         run' = [r EXCEPT !.pc = to, !.mid = FALSE]
  PROVE  Leaves(run', r) /\ run'.pc = to /\ run'.end = r.end
<1>1. to \in Stages \cup {"close"}
  BY FollowingFacts DEF Follows, Ahead
<1>. QED BY <1>1 DEF Leaves, RunRecords

LEMMA StopFields ==
  ASSUME NEW r \in RunRecords, NEW how \in {"cancelled", "error"}, Stop(r, how)
  PROVE  Leaves(run', r) /\ run'.pc = "close" /\ run'.end = how
BY DEF Leaves, RunRecords, Stop

-----------------------------------------------------------------------------
(* What each way of ending a stage does to the run.                         *)

(* The run q that a stage ends with: the row of the stage that was in       *)
(* progress, and nothing else but what the other parameters say.            *)
Ended(q, outcome, skip, muted, val) ==
  /\ q \in RunRecords /\ q.by = run.by /\ q.rows = [run.rows EXCEPT ![run.pc] = outcome] /\ q.skip = skip /\ q.muted = muted
  /\ q.val = val /\ q.aborted = run.aborted /\ q.status = run.status /\ q.end = run.end

LEMMA SkippedFields ==
  ASSUME Shape, TaskSkipped
  PROVE  \E q : /\ Ended(q, "skipped", run.pc, run.muted, run.val) /\ q.wall = run.wall /\ q.spent = run.spent
                /\ Leaves(run', q) /\ run'.pc \in Following(q, run.pc, "skipped") /\ run'.end = run.end
<1>. DEFINE q == [Row(run, run.pc, "skipped") EXCEPT !.skip = run.pc]
<1>1. run \in RunRecords /\ run.pc \in Stages /\ run.pc \in Skippable
  BY DEF Shape, TaskSkipped, AtTask, Running
<1>2. Row(run, run.pc, "skipped") \in RunRecords
  BY <1>1, RowFields DEF Outcomes
<1>3. Ended(q, "skipped", run.pc, run.muted, run.val) /\ q.wall = run.wall /\ q.spent = run.spent
  BY <1>1, <1>2 DEF Ended, Row, RunRecords, Outcomes
<1>4. PICK to \in Following(q, run.pc, "skipped") : run' = [q EXCEPT !.pc = to, !.mid = FALSE]
  BY DEF TaskSkipped, Leave
<1>. HIDE DEF q
<1>5. Leaves(run', q) /\ run'.pc = to /\ run'.end = q.end
  BY <1>1, <1>3, <1>4, LeaveFields DEF Ended, Outcomes
<1>. QED BY <1>3, <1>4, <1>5 DEF Ended

LEMMA UnaffordableFields ==
  ASSUME Shape, TaskUnaffordable
  PROVE  \E q : /\ Ended(q, "failed", run.skip, run.muted \ {run.pc}, run.val) /\ q.wall = run.wall /\ q.spent = run.spent
                /\ Leaves(run', q) /\ run'.pc \in Following(q, run.pc, "failed") /\ run'.end = run.end
<1>. DEFINE q == [Row(run, run.pc, "failed") EXCEPT !.muted = @ \ {run.pc}]
<1>1. run \in RunRecords /\ run.pc \in Stages
  BY DEF Shape, TaskUnaffordable, AtTask, Running
<1>2. Row(run, run.pc, "failed") \in RunRecords
  BY <1>1, RowFields DEF Outcomes
<1>3. Ended(q, "failed", run.skip, run.muted \ {run.pc}, run.val) /\ q.wall = run.wall /\ q.spent = run.spent
  BY <1>1, <1>2 DEF Ended, Row, RunRecords, Outcomes
<1>4. PICK to \in Following(q, run.pc, "failed") : run' = [q EXCEPT !.pc = to, !.mid = FALSE]
  BY DEF TaskUnaffordable, Leave
<1>. HIDE DEF q
<1>5. Leaves(run', q) /\ run'.pc = to /\ run'.end = q.end
  BY <1>1, <1>3, <1>4, LeaveFields DEF Ended, Outcomes
<1>. QED BY <1>3, <1>4, <1>5 DEF Ended

LEMMA ThrowsFields ==
  ASSUME Shape, TaskThrows
  PROVE  \E q : /\ Ended(q, "failed", run.skip, run.muted \ {run.pc}, run.val) /\ q.wall = run.wall /\ q.spent = run.spent
                /\ Leaves(run', q)
                /\ IF run.pc = "setup" THEN run'.pc = "close" /\ run'.end = "error"
                   ELSE run'.pc \in Following(q, run.pc, "failed") /\ run'.end = run.end
<1>. DEFINE q == [Row(run, run.pc, "failed") EXCEPT !.muted = @ \ {run.pc}]
<1>1. run \in RunRecords /\ run.pc \in Stages
  BY DEF Shape, TaskThrows, InTask, Running
<1>2. Row(run, run.pc, "failed") \in RunRecords
  BY <1>1, RowFields DEF Outcomes
<1>3. Ended(q, "failed", run.skip, run.muted \ {run.pc}, run.val) /\ q.wall = run.wall /\ q.spent = run.spent
  BY <1>1, <1>2 DEF Ended, Row, RunRecords, Outcomes
<1>4. IF run.pc = "setup" THEN Stop(q, "error") ELSE Leave(q, run.pc, "failed")
  BY DEF TaskThrows
<1>. HIDE DEF q
<1>5. CASE run.pc = "setup"
  <2>1. Leaves(run', q) /\ run'.pc = "close" /\ run'.end = "error"
    BY <1>3, <1>4, <1>5, StopFields DEF Ended
  <2>. QED BY <1>3, <1>5, <2>1
<1>6. CASE run.pc # "setup"
  <2>1. PICK to \in Following(q, run.pc, "failed") : run' = [q EXCEPT !.pc = to, !.mid = FALSE]
    BY <1>4, <1>6 DEF Leave
  <2>2. Leaves(run', q) /\ run'.pc = to /\ run'.end = q.end
    BY <1>1, <1>3, <2>1, LeaveFields DEF Ended, Outcomes
  <2>. QED BY <1>3, <1>6, <2>1, <2>2 DEF Ended
<1>. QED BY <1>5, <1>6

LEMMA CancelledFields ==
  ASSUME Shape, TaskCancelled
  PROVE  \E q : /\ Ended(q, "cancelled", run.skip, run.muted \ {run.pc}, run.val) /\ q.wall = run.wall
                /\ Leaves(run', q) /\ run'.pc = "close" /\ run'.end = "cancelled"
<1>. DEFINE q == [Row(run, run.pc, "cancelled") EXCEPT !.muted = @ \ {run.pc}]
<1>1. run \in RunRecords /\ run.pc \in Stages
  BY DEF Shape, TaskCancelled, InTask, Running
<1>2. Row(run, run.pc, "cancelled") \in RunRecords
  BY <1>1, RowFields DEF Outcomes
<1>3. Ended(q, "cancelled", run.skip, run.muted \ {run.pc}, run.val) /\ q.wall = run.wall
  BY <1>1, <1>2 DEF Ended, Row, RunRecords, Outcomes
<1>4. Stop(q, "cancelled")
  BY DEF TaskCancelled
<1>. HIDE DEF q
<1>5. Leaves(run', q) /\ run'.pc = "close" /\ run'.end = "cancelled"
  BY <1>3, <1>4, StopFields DEF Ended
<1>. QED BY <1>3, <1>5

LEMMA WriterFields ==
  ASSUME Shape, WriterFails
  PROVE  \E q, last :
           /\ last \in Outcomes /\ run.pc \in Writers
           /\ last = IF run.aborted THEN "cancelled" ELSE "ok"
           /\ Ended(q, IF run.aborted THEN "cancelled" ELSE "failed", run.skip,
                    IF run.aborted THEN run.muted \ {run.pc} ELSE run.muted \cup {run.pc},
                    IF run.pc = "merge" THEN [run.val EXCEPT !.merged = "none"] ELSE run.val)
           /\ q.wall = run.wall /\ Leaves(run', q)
           /\ IF run.aborted THEN run'.pc = "close" /\ run'.end = "cancelled"
              ELSE run'.pc \in Following(q, run.pc, "ok") /\ run'.end = run.end
           /\ ledgerEvent(TRUE, <<Event("failed", run.pc), Event(last, run.pc)>>, 1, {"agent error"})
<1>. DEFINE x == run.pc
<1>. DEFINE last == IF run.aborted THEN "cancelled" ELSE "ok"
<1>. DEFINE row == IF run.aborted THEN "cancelled" ELSE "failed"
<1>. DEFINE muted == IF run.aborted THEN run.muted \ {x} ELSE run.muted \cup {x}
<1>. DEFINE val == IF x = "merge" THEN [run.val EXCEPT !.merged = "none"] ELSE run.val
<1>. DEFINE r == [run EXCEPT !.muted = muted, !.val.merged = IF x = "merge" THEN "none" ELSE @]
<1>. DEFINE q == Row(r, x, row)
<1>1. run \in RunRecords /\ x \in Stages /\ x \in Writers /\ row \in Outcomes /\ last \in Outcomes
  BY DEF Shape, WriterFails, InTask, Running, Outcomes
<1>2. muted \in SUBSET Stages /\ val \in Values
  BY <1>1 DEF RunRecords, Values, Tri
<1>3. r \in RunRecords /\ r.muted = muted /\ r.val = val /\ r.by = run.by /\ r.rows = run.rows /\ r.skip = run.skip
      /\ r.aborted = run.aborted /\ r.status = run.status /\ r.end = run.end /\ r.wall = run.wall
  <2>. HIDE DEF muted
  <2>1. r = [run EXCEPT !.muted = muted, !.val = val]
    BY <1>1 DEF RunRecords, Values
  <2>. HIDE DEF r, val
  <2>. QED BY <1>1, <1>2, <2>1 DEF RunRecords
<1>4. IF run.aborted THEN Stop(Row(r, x, "cancelled"), "cancelled")
      ELSE \E to \in Following(r, x, "ok") : run' = [Row(r, x, "failed") EXCEPT !.pc = to, !.mid = FALSE]
  BY DEF WriterFails, RowAtReturn
<1>5. ledgerEvent(TRUE, <<Event("failed", x), Event(last, x)>>, 1, {"agent error"})
  BY DEF WriterFails
<1>. HIDE DEF r, muted, val
<1>6. Ended(q, row, run.skip, muted, val) /\ q.wall = run.wall
  <2>1. q \in RunRecords /\ q.rows = [r.rows EXCEPT ![x] = row]
    BY <1>1, <1>3, RowFields
  <2>2. /\ q.by = r.by /\ q.skip = r.skip /\ q.muted = r.muted /\ q.val = r.val /\ q.aborted = r.aborted
        /\ q.status = r.status /\ q.end = r.end /\ q.wall = r.wall
    BY <1>1, <1>3 DEF Row, RunRecords
  <2>. HIDE DEF q, row
  <2>. QED BY <1>3, <2>1, <2>2 DEF Ended
<1>7. CASE run.aborted
  <2>1. Stop(q, "cancelled") /\ q \in RunRecords
    BY <1>4, <1>6, <1>7 DEF Ended
  <2>2. Leaves(run', q) /\ run'.pc = "close" /\ run'.end = "cancelled"
    BY <2>1, StopFields
  <2>. HIDE DEF q
  <2>. QED BY <1>1, <1>5, <1>6, <1>7, <2>2 DEF muted, val
<1>8. CASE ~run.aborted
  <2>1. PICK to \in Following(r, x, "ok") : run' = [q EXCEPT !.pc = to, !.mid = FALSE]
    BY <1>4, <1>8
  <2>2. Following(r, x, "ok") = Following(q, x, "ok")
    BY <1>1, <1>3 DEF Row, RunRecords, Following, AfterDocuments, AfterImplementation, shouldIterateImplementation,
                    shouldRunVerification
  <2>3. q \in RunRecords /\ q.end = run.end
    BY <1>6 DEF Ended
  <2>. HIDE DEF q
  <2>4. Leaves(run', q) /\ run'.pc = to /\ run'.end = q.end
    BY <1>1, <2>1, <2>2, <2>3, LeaveFields DEF Outcomes
  <2>. QED BY <1>1, <1>5, <1>6, <1>8, <2>1, <2>2, <2>3, <2>4 DEF muted, val
<1>. QED BY <1>7, <1>8

(* What a stage x that returns makes of the values and of the branch.      *)
Makes(x, w, t, git) ==
  /\ w \in Values /\ t \in Trees /\ git \in BOOLEAN
  /\ w.setup = (run.val.setup \/ x = "setup") /\ w.blocked = run.val.blocked
  /\ x # "verification" => w.review = run.val.review /\ w.build = run.val.build /\ w.integration = run.val.integration
  /\ x = "verification" => \/ w.review = "yes" /\ w.build = "yes" /\ w.integration \in {"yes", "no"}
                           \/ w.review = "no"
  /\ x # "implementation" => w.impl = run.val.impl
  /\ IF x = "preMergeBuild" THEN w.preMerge \in {"yes", "no"} ELSE w.preMerge = run.val.preMerge
  /\ x # "cleanup" => w.cleanup = run.val.cleanup /\ t.secret = tree.secret
  /\ x = "cleanup" => /\ w.cleanup \in {"clear", "blocked"}
                      /\ w.cleanup = "clear" => t.secret = FALSE \/ git
  /\ x = "merge-verify" /\ w.merged = "yes" => t.landed /\ (t.dirty = FALSE \/ git)

LEMMA ResultFacts ==
  ASSUME Shape, NEW x \in Stages, NEW result \in Results(run.val, x)
  PROVE  Makes(x, result.val, result.tree, result.git)
<1>. DEFINE v == run.val
<1>1. v \in Values /\ tree \in Trees
  BY DEF Shape, RunRecords
<1>2. ASSUME NEW w, NEW t, NEW git, result = Result(w, t, git), Makes(x, w, t, git)
      PROVE  Makes(x, result.val, result.tree, result.git)
  <2>1. result.val = w /\ result.tree = t /\ result.git = git
    BY <1>2 DEF Result
  <2>. QED BY <1>2, <2>1
<1>3. CASE x = "setup"
  <2>1. result = Result([v EXCEPT !.setup = TRUE], tree, FALSE)
    BY <1>3 DEF Results
  <2>2. Makes(x, [v EXCEPT !.setup = TRUE], tree, FALSE)
    BY <1>1, <1>3 DEF Makes, Values
  <2>. QED BY <1>2, <2>1, <2>2
<1>4. CASE x = "implementation"
  <2>1. PICK i \in {"green", "partial"} : result = Result([v EXCEPT !.impl = i], tree, FALSE)
    BY <1>4 DEF Results
  <2>2. Makes(x, [v EXCEPT !.impl = i], tree, FALSE)
    BY <1>1, <1>4 DEF Makes, Values
  <2>. QED BY <1>2, <2>1, <2>2
<1>5. CASE x = "verification"
  <2>1. result \in VerificationResults(v, tree)
    BY <1>5 DEF Results
  <2>2. CASE \E i \in {"yes", "no"} : result = Result([v EXCEPT !.review = "yes", !.build = "yes", !.integration = i], tree, FALSE)
    <3>1. PICK i \in {"yes", "no"} : result = Result([v EXCEPT !.review = "yes", !.build = "yes", !.integration = i], tree, FALSE)
      BY <2>2
    <3>2. Makes(x, [v EXCEPT !.review = "yes", !.build = "yes", !.integration = i], tree, FALSE)
      BY <1>1, <1>5 DEF Makes, Values, Tri
    <3>. QED BY <1>2, <3>1, <3>2
  <2>3. CASE \E b \in {"yes", "no"} : result = Result([v EXCEPT !.review = "no", !.build = b], tree, FALSE)
    <3>1. PICK b \in {"yes", "no"} : result = Result([v EXCEPT !.review = "no", !.build = b], tree, FALSE)
      BY <2>3
    <3>2. Makes(x, [v EXCEPT !.review = "no", !.build = b], tree, FALSE)
      BY <1>1, <1>5 DEF Makes, Values, Tri
    <3>. QED BY <1>2, <3>1, <3>2
  <2>. QED BY <2>1, <2>2, <2>3 DEF VerificationResults
<1>6. CASE x = "preMergeBuild"
  <2>1. PICK p \in {"yes", "no"} : result = Result([v EXCEPT !.preMerge = p], tree, FALSE)
    BY <1>6 DEF Results, preMergeBuildStage
  <2>2. Makes(x, [v EXCEPT !.preMerge = p], tree, FALSE)
    BY <1>1, <1>6 DEF Makes, Values, Tri
  <2>. QED BY <1>2, <2>1, <2>2
<1>7. CASE x = "cleanup"
  <2>1. result \in cleanup(v, tree)
    BY <1>7 DEF Results
  <2>2. PICK secret \in BOOLEAN, fails \in BOOLEAN : result \in CleanupResults(v, tree, secret, fails)
    BY <2>1 DEF cleanup
  <2>3. PICK found \in gitCarriedFiles(secret, fails), d \in {tree.dirty, TRUE} :
          result = Result([v EXCEPT !.cleanup = IF found THEN "blocked" ELSE "clear"],
                          [tree EXCEPT !.secret = secret, !.dirty = d], fails)
    BY <2>2 DEF CleanupResults
  <2>. DEFINE c == IF found THEN "blocked" ELSE "clear"
  <2>4. c \in {"clear", "blocked"} /\ (c = "clear" => secret = FALSE \/ fails) /\ d \in BOOLEAN
    BY <1>1 DEF gitCarriedFiles, Trees
  <2>5. result = Result([v EXCEPT !.cleanup = c], [tree EXCEPT !.secret = secret, !.dirty = d], fails)
    BY <2>3
  <2>. HIDE DEF c
  <2>6. Makes(x, [v EXCEPT !.cleanup = c], [tree EXCEPT !.secret = secret, !.dirty = d], fails)
    BY <1>1, <1>7, <2>4 DEF Makes, Values, Trees
  <2>. QED BY <1>2, <2>5, <2>6
<1>8. CASE x = "merge"
  <2>1. result \in MergeResults(v, tree)
    BY <1>8 DEF Results
  <2>2. PICK claim \in {"yes", "no"}, l \in BOOLEAN, d \in BOOLEAN :
          result = MergeResult(v, tree, claim, l, d)
    BY <2>1 DEF MergeResults
  <2>. DEFINE w == [v EXCEPT !.merged = claim]
  <2>. DEFINE t == [tree EXCEPT !.landed = l, !.dirty = d]
  <2>3. result = Result(w, t, FALSE) /\ Makes(x, w, t, FALSE)
    BY <1>1, <1>8, <2>2 DEF Makes, Values, Trees, Tri, MergeResult
  <2>. HIDE DEF w, t
  <2>. QED BY <1>2, <2>3
<1>9. CASE x = "merge-verify"
  <2>1. result \in mergeVerifyTask(v, tree)
    BY <1>9 DEF Results
  <2>2. CASE v.merged # "yes"
    <3>1. result = Result(v, tree, FALSE)
      BY <2>1, <2>2 DEF mergeVerifyTask
    <3>2. Makes(x, v, tree, FALSE)
      BY <1>1, <1>9, <2>2 DEF Makes, Values
    <3>. QED BY <1>2, <3>1, <3>2
  <2>3. CASE v.merged = "yes"
    <3>1. PICK fails \in BOOLEAN :
            result = Result([v EXCEPT !.merged = IF GitConfirms(tree, StatusOf(tree, fails)) THEN "yes" ELSE "no"],
                            [tree EXCEPT !.closed = GitConfirms(tree, StatusOf(tree, fails))], fails)
      BY <2>1, <2>3 DEF mergeVerifyTask
    <3>. DEFINE confirmed == GitConfirms(tree, StatusOf(tree, fails))
    <3>. DEFINE m == IF confirmed THEN "yes" ELSE "no"
    <3>2. m \in Tri /\ confirmed \in BOOLEAN /\ (m = "yes" => tree.landed /\ (tree.dirty = FALSE \/ fails))
      BY <1>1 DEF Tri, GitConfirms, StatusOf, Trees
    <3>3. result = Result([v EXCEPT !.merged = m], [tree EXCEPT !.closed = confirmed], fails)
      BY <3>1
    <3>. HIDE DEF m, confirmed
    <3>4. Makes(x, [v EXCEPT !.merged = m], [tree EXCEPT !.closed = confirmed], fails)
      BY <1>1, <1>9, <3>2 DEF Makes, Values, Trees
    <3>. QED BY <1>2, <3>3, <3>4
  <2>. QED BY <2>2, <2>3
<1>10. CASE x \in {"classify", "requirements", "docs", "verificationSkippedReplan"}
  <2>1. result = Result(v, tree, FALSE)
    BY <1>10 DEF Results
  <2>2. Makes(x, v, tree, FALSE)
    BY <1>1, <1>10 DEF Makes, Values
  <2>. QED BY <1>2, <2>1, <2>2
<1>. QED BY <1>3, <1>4, <1>5, <1>6, <1>7, <1>8, <1>9, <1>10 DEF Stages, Writers

LEMMA ReturnsFields ==
  ASSUME Shape, TaskReturns
  PROVE  \E result \in Results(run.val, run.pc), q \in RunRecords :
           /\ Ended(q, "ok", run.skip, run.muted \ {run.pc}, q.val)
           /\ \/ q.val = result.val /\ q.wall = run.wall
              \/ q.val = [result.val EXCEPT !.blocked = TRUE] /\ q.wall = TRUE /\ run.pc = "implementation"
           /\ run.pc = "setup" => q.spent = run.spent
           /\ Leaves(run', q) /\ run'.pc \in Following(q, run.pc, "ok") /\ run'.end = run.end
           /\ tree' = result.tree
           /\ ledgerEvent(result.val.setup, Flushed(run.pc, Event("ok", run.pc)),
                          IF result.git THEN 1 ELSE 0, IF result.git THEN {"git"} ELSE {})
<1>. DEFINE x == run.pc
<1>1. run \in RunRecords /\ x \in Stages
  BY DEF Shape, TaskReturns, InTask, Running
<1>2. PICK result \in Results(run.val, x) :
        \E r \in Leftovers([run EXCEPT !.val = result.val, !.muted = @ \ {x}], x) :
           /\ Leave(Row(r, x, RowAtReturn(run, x, FALSE)), x, "ok")
           /\ tree' = result.tree
           /\ ledgerEvent(result.val.setup, Flushed(x, Event("ok", x)),
                          IF result.git THEN 1 ELSE 0, IF result.git THEN {"git"} ELSE {})
  BY DEF TaskReturns
<1>. DEFINE base == [run EXCEPT !.val = result.val, !.muted = @ \ {x}]
<1>3. PICK r \in Leftovers(base, x) :
           /\ Leave(Row(r, x, "ok"), x, "ok")
           /\ tree' = result.tree
           /\ ledgerEvent(result.val.setup, Flushed(x, Event("ok", x)),
                          IF result.git THEN 1 ELSE 0, IF result.git THEN {"git"} ELSE {})
  BY <1>2 DEF RowAtReturn
<1>4. result.val \in Values
  BY <1>1, ResultFacts DEF Makes
<1>5. /\ base \in RunRecords /\ base.val = result.val /\ base.muted = run.muted \ {x} /\ base.by = run.by /\ base.rows = run.rows
      /\ base.skip = run.skip /\ base.aborted = run.aborted /\ base.status = run.status /\ base.end = run.end
      /\ base.wall = run.wall /\ base.spent = run.spent
  BY <1>1, <1>4 DEF RunRecords
<1>. HIDE DEF base
<1>6. /\ r \in RunRecords /\ r.muted = run.muted \ {x} /\ r.by = run.by /\ r.rows = run.rows
      /\ r.skip = run.skip /\ r.aborted = run.aborted /\ r.status = run.status /\ r.end = run.end
      /\ \/ r.val = result.val /\ r.wall = run.wall
         \/ r.val = [result.val EXCEPT !.blocked = TRUE] /\ r.wall = TRUE /\ x = "implementation"
      /\ x = "setup" => r.spent = run.spent
  <2>1. CASE r = base
    BY <1>5, <2>1
  <2>2. CASE r = [base EXCEPT !.spent = TRUE] /\ x # "setup"
    BY <1>5, <2>2 DEF RunRecords
  <2>3. CASE r = [base EXCEPT !.wall = TRUE, !.val.blocked = TRUE] /\ x = "implementation"
    <3>. DEFINE v == [result.val EXCEPT !.blocked = TRUE]
    <3>1. v \in Values
      BY <1>4 DEF Values
    <3>2. r = [base EXCEPT !.wall = TRUE, !.val = v]
      BY <1>5, <2>3 DEF RunRecords
    <3>. HIDE DEF v
    <3>3. r \in RunRecords /\ r.val = v /\ r.wall = TRUE
      BY <1>5, <3>1, <3>2 DEF RunRecords
    <3>4. /\ r.muted = base.muted /\ r.by = base.by /\ r.rows = base.rows
          /\ r.skip = base.skip /\ r.aborted = base.aborted /\ r.status = base.status /\ r.end = base.end
      BY <1>5, <3>2 DEF RunRecords
    <3>. QED BY <1>5, <2>3, <3>3, <3>4 DEF v
  <2>4. CASE r = [base EXCEPT !.replan = TRUE]
    BY <1>5, <2>4 DEF RunRecords
  <2>. QED BY <1>3, <2>1, <2>2, <2>3, <2>4 DEF Leftovers, markRunWallFuseTripped, Writers
<1>. DEFINE q == Row(r, x, "ok")
<1>7. /\ Ended(q, "ok", run.skip, run.muted \ {x}, q.val) /\ q.val = r.val /\ q.wall = r.wall /\ q.spent = r.spent
  <2>1. q \in RunRecords /\ q.rows = [r.rows EXCEPT ![x] = "ok"]
    <3>1. r \in RunRecords /\ x \in Stages /\ "ok" \in Outcomes
      BY <1>1, <1>6 DEF Outcomes
    <3>. QED BY <3>1, RowFields
  <2>2. /\ q.by = r.by /\ q.skip = r.skip /\ q.muted = r.muted /\ q.val = r.val /\ q.aborted = r.aborted
        /\ q.status = r.status /\ q.end = r.end /\ q.wall = r.wall /\ q.spent = r.spent
    BY <1>1, <1>6 DEF Row, RunRecords
  <2>. HIDE DEF q
  <2>. QED BY <1>6, <2>1, <2>2 DEF Ended
<1>8. PICK to \in Following(q, x, "ok") : run' = [q EXCEPT !.pc = to, !.mid = FALSE]
  BY <1>3 DEF Leave
<1>9. q \in RunRecords /\ q.end = run.end
  BY <1>7 DEF Ended
<1>. HIDE DEF q
<1>10. Leaves(run', q) /\ run'.pc = to /\ run'.end = q.end
  BY <1>1, <1>8, <1>9, LeaveFields DEF Outcomes
<1>. QED BY <1>3, <1>6, <1>7, <1>8, <1>9, <1>10

-----------------------------------------------------------------------------
(* Ending a stage keeps the ledger and the rows together.                   *)

At == [file |-> ledger, number |-> known[run.by]]

(* What the events of a step that ends the stage in progress must do.       *)
EndsIt(m, row, muted, why) ==
  /\ m.block = "open"
  /\ \A y \in Stages \ {run.pc} : m.ended[y] = ledger.ended[y]
  /\ run.pc \notin muted => m.ended[run.pc] = row
  /\ ledger.cut = FALSE /\ (ledger.block = "open") = run.val.setup => m.cut = FALSE
  /\ \/ "agent error" \in why
     \/ ledger.zombie = FALSE /\ ledger.open = (IF run.mid /\ run.val.setup THEN {run.pc} ELSE {}) =>
          m.zombie = FALSE /\ m.open = {}

(* The stage the run is at ends as row: the record q it leaves, the events  *)
(* es it appends, what goes wrong and why.                                  *)
StageEnds(q, row, skip, muted, val, es, wrong, why) ==
  /\ run.pc \in Stages /\ row \in Outcomes
  /\ Ended(q, row, skip, muted, val) /\ Leaves(run', q)
  /\ run'.pc \in Ahead /\ (run'.pc \in Stages => val.setup = TRUE)
  /\ val.setup = (run.val.setup \/ (run.pc = "setup" /\ val.setup)) /\ run.muted \ {run.pc} \subseteq muted
  /\ tree' \in Trees
  /\ es \in Seq(Events) /\ wrong \in Nat /\ why \in SUBSET Excuses /\ ledgerEvent(val.setup, es, wrong, why)
  /\ val.setup => EndsIt(After(At, es), row, muted, why)

LEMMA StageEnd ==
  ASSUME Shape, LedgerInv, NEW q, NEW row, NEW skip, NEW muted, NEW val, NEW es, NEW wrong, NEW why,
         StageEnds(q, row, skip, muted, val, es, wrong, why)
  PROVE  Shape' /\ LedgerInv'
<1>. /\ run.pc \in Stages /\ row \in Outcomes
     /\ Ended(q, row, skip, muted, val) /\ Leaves(run', q)
     /\ run'.pc \in Ahead /\ (run'.pc \in Stages => val.setup = TRUE)
     /\ val.setup = (run.val.setup \/ (run.pc = "setup" /\ val.setup)) /\ run.muted \ {run.pc} \subseteq muted
     /\ tree' \in Trees
     /\ es \in Seq(Events) /\ wrong \in Nat /\ why \in SUBSET Excuses /\ ledgerEvent(val.setup, es, wrong, why)
     /\ val.setup => EndsIt(After(At, es), row, muted, why)
  BY Zenon DEF StageEnds
<1>1. run \in RunRecords /\ run.by \in Sessions /\ val \in Values /\ val.setup \in BOOLEAN /\ run.val.setup \in BOOLEAN
      /\ ledger \in Ledgers
  <2>1. q \in RunRecords /\ q.val = val
    BY DEF Ended
  <2>. QED BY <2>1 DEF Shape, Live, RunRecords, Values
<1>2. /\ ledger' \in Ledgers /\ known' \in [Sessions -> Numbers]
      /\ turns' \in 0 .. MaxTurns /\ happened' \in SUBSET Excuses
      /\ happened \cup why \subseteq happened'
      /\ known'[run.by] = "stale" => known[run.by] = "stale"
      /\ ledger'.gap => ledger.gap \/ known[run.by] = "stale"
      /\ "lost" \notin happened' =>
           /\ happened' = happened \cup why
           /\ ledger' = IF val.setup THEN After(At, es) ELSE ledger
  BY <1>1, LedgerStep DEF After, At
<1>3. /\ run' \in RunRecords /\ run'.by = run.by /\ run'.val = val /\ run'.mid = FALSE /\ run'.muted = muted
      /\ run'.rows = [run.rows EXCEPT ![run.pc] = row]
  BY DEF Ended, Leaves
<1>4. Shape'
  BY <1>1, <1>2, <1>3 DEF Shape, Live
<1>5. Numbered'
  <2>1. Live /\ Live' /\ run'.by = run.by
    BY <1>3 DEF Live, Ahead
  <2>. QED BY <1>2, <2>1 DEF LedgerInv, Numbered
<1>6. SetUp'
  <2>1. run'.pc \in Stages => val.setup = (run'.pc # "setup") /\ run'.pc # "setup"
    BY <1>1 DEF Ahead, Stages, Writers
  <2>2. run'.pc # "setup"
    BY DEF Ahead
  <2>3. val.setup = FALSE => \A x \in Stages \ {"setup"} : run'.rows[x] = "none"
    <3>1. ASSUME val.setup = FALSE PROVE \A x \in Stages \ {"setup"} : run'.rows[x] = "none"
      <4>1. run.val.setup = FALSE /\ run.pc = "setup"
        BY <1>1, <3>1 DEF LedgerInv, SetUp
      <4>. QED BY <1>1, <1>3, <4>1 DEF LedgerInv, SetUp, RunRecords
    <3>. QED BY <3>1
  <2>. QED BY <1>3, <2>1, <2>2, <2>3 DEF SetUp
<1>7. Bracketed'
  <2>1. ASSUME happened' \cap {"kill", "lost"} = {} PROVE ledger'.cut = FALSE /\ (ledger'.block = "open") = val.setup
    <3>1. ledger.cut = FALSE /\ (ledger.block = "open") = run.val.setup
      BY <1>1, <1>2, <2>1 DEF LedgerInv, Bracketed, Live
    <3>2. ledger' = IF val.setup THEN After(At, es) ELSE ledger
      BY <1>2, <2>1
    <3>3. CASE val.setup = TRUE
      <4>1. EndsIt(ledger', row, muted, why)
        BY <3>2, <3>3
      <4>. QED BY ONLY <3>1, <3>3, <4>1 DEF EndsIt
    <3>4. CASE val.setup = FALSE
      <4>1. run.val.setup = FALSE
        BY <1>1, <3>4
      <4>. QED BY <3>1, <3>2, <3>4, <4>1
    <3>. QED BY <1>1, <3>3, <3>4
  <2>2. Live'
    BY DEF Live, Ahead
  <2>. QED BY <1>3, <2>1, <2>2 DEF Bracketed
<1>8. Paired'
  <2>1. ASSUME happened' \cap {"kill", "lost", "fatal", "agent error"} = {}
        PROVE  ledger'.zombie = FALSE /\ ledger'.open = {}
    <3>1. ledger.zombie = FALSE /\ ledger.open = (IF run.mid /\ run.val.setup THEN {run.pc} ELSE {})
      BY <1>1, <1>2, <2>1 DEF LedgerInv, Paired
    <3>2. ledger' = IF val.setup THEN After(At, es) ELSE ledger
      BY <1>2, <2>1
    <3>3. "agent error" \notin why
      BY <1>2, <2>1
    <3>4. CASE val.setup = TRUE
      <4>1. EndsIt(ledger', row, muted, why)
        BY <3>2, <3>4
      <4>. QED BY ONLY <3>1, <3>3, <4>1 DEF EndsIt
    <3>5. CASE val.setup = FALSE
      <4>1. run.val.setup = FALSE
        BY <1>1, <3>5
      <4>. QED BY <3>1, <3>2, <3>5, <4>1
    <3>. QED BY <1>1, <3>4, <3>5
  <2>. QED BY <1>3, <2>1 DEF Paired
<1>9. LedgerTellsTheRows'
  <2>1. ASSUME "lost" \notin happened', NEW x \in Stages \ muted, run'.rows[x] # "none", val.setup = TRUE
        PROVE  ledger'.ended[x] = run'.rows[x]
    <3>1. ledger' = After(At, es) /\ "lost" \notin happened
      BY <1>2, <2>1
    <3>2. EndsIt(ledger', row, muted, why)
      BY <2>1, <3>1
    <3>3. CASE x = run.pc
      <4>1. run'.rows[x] = row
        BY <1>1, <1>3, <3>3 DEF RunRecords
      <4>2. run.pc \notin muted
        BY <2>1, <3>3
      <4>3. ledger'.ended[run.pc] = row
        BY ONLY <3>2, <4>2 DEF EndsIt
      <4>. QED BY ONLY <3>3, <4>1, <4>3
    <3>4. CASE x # run.pc
      <4>1. run'.rows[x] = run.rows[x] /\ ledger'.ended[x] = ledger.ended[x] /\ x \notin run.muted
        <5>1. x \in Stages \ {run.pc} /\ run.rows \in [Stages -> Outcomes \cup {"none"}]
          BY <1>1, <2>1, <3>4 DEF RunRecords
        <5>2. run'.rows[x] = run.rows[x]
          BY ONLY <1>3, <5>1
        <5>3. ledger'.ended[x] = ledger.ended[x]
          BY ONLY <3>2, <5>1 DEF EndsIt
        <5>. QED BY <2>1, <3>4, <5>2, <5>3
      <4>2. run.val.setup = TRUE
        <5>1. CASE run.pc = "setup"
          BY <1>1, <1>3, <2>1, <3>4, <4>1, <5>1 DEF LedgerInv, SetUp
        <5>2. CASE run.pc # "setup"
          BY <1>1, <2>1, <5>2
        <5>. QED BY <5>1, <5>2
      <4>. QED BY <2>1, <3>1, <4>1, <4>2 DEF LedgerInv, LedgerTellsTheRows
    <3>. QED BY <3>3, <3>4
  <2>2. val.setup \in BOOLEAN
    BY <1>1
  <2>. QED BY <1>3, <2>1, <2>2 DEF LedgerTellsTheRows
<1>. QED BY <1>4, <1>5, <1>6, <1>7, <1>8, <1>9 DEF LedgerInv

-----------------------------------------------------------------------------
(* Every step keeps the ledger's invariant.                                 *)

LEMMA AtFacts ==
  ASSUME Shape, Live
  PROVE  At \in Appenders /\ At.file = ledger /\ run.by \in Sessions
BY DEF Shape, At, Appenders, Numbers

LEMMA SeqEvents ==
  ASSUME NEW x \in Stages, NEW o \in Outcomes, NEW p \in Outcomes
  PROVE  /\ Begun(x) \in Seq(Events) /\ Closed(x, o) \in Seq(Events) /\ Completed \in Seq(Events)
         /\ Unbegun(x, o) \in Seq(Events) /\ ClosedTwice(x, o, p) \in Seq(Events)
         /\ Flushed(x, Event(o, x)) \in Seq(Events)
         /\ x = "setup" => Flushed(x, Event(o, x)) = Opening(x, o)
         /\ x # "setup" => Flushed(x, Event(o, x)) = Closed(x, o)
<1>1. Started(x) \in Events /\ Event(o, x) \in Events /\ Event(p, x) \in Events /\ RunStarted \in Events /\ RunCompleted \in Events
  BY EventFields DEF Started, RunStarted, RunCompleted, Stages
<1>2. x = "setup" => Flushed(x, Event(o, x)) = Opening(x, o)
  BY DEF Flushed, Opening
<1>3. x # "setup" => Flushed(x, Event(o, x)) = Closed(x, o)
  BY DEF Flushed, Closed
<1>4. Begun(x) \in Seq(Events) /\ Closed(x, o) \in Seq(Events) /\ Completed \in Seq(Events)
  BY <1>1 DEF Begun, Closed, Completed
<1>5. Unbegun(x, o) \in Seq(Events) /\ ClosedTwice(x, o, p) \in Seq(Events)
  BY <1>1 DEF Unbegun, ClosedTwice
<1>6. Flushed(x, Event(o, x)) \in Seq(Events)
  <2>1. Opening(x, o) \in Seq(Events)
    BY <1>1 DEF Opening
  <2>. QED BY <1>2, <1>3, <1>4, <2>1
<1>. QED BY <1>2, <1>3, <1>4, <1>5, <1>6

(* What the events of the stage's end leave is an end of it.                *)
LEMMA UnbeginsIt ==
  ASSUME NEW m, NEW row, NEW muted, NEW why, ledger \in Ledgers, run.pc \in Stages, run.mid = FALSE, run.val.setup = TRUE,
         Unbegins(ledger, m, run.pc, row)
  PROVE  EndsIt(m, row, muted, why)
<1>1. ledger.ended \in [Stages -> Outcomes \cup {"none"}] /\ m.ended = [ledger.ended EXCEPT ![run.pc] = row]
  BY DEF Ledgers, Unbegins
<1>2. m.ended[run.pc] = row /\ \A y \in Stages \ {run.pc} : m.ended[y] = ledger.ended[y]
  BY <1>1
<1>. QED BY <1>2 DEF EndsIt, Unbegins

LEMMA FinishesIt ==
  ASSUME NEW m, NEW row, NEW muted, NEW why, ledger \in Ledgers, run.pc \in Stages, run.mid = TRUE, run.val.setup = TRUE,
         Finishes(ledger, m, run.pc, row)
  PROVE  EndsIt(m, row, muted, why)
<1>1. ledger.ended \in [Stages -> Outcomes \cup {"none"}] /\ m.ended = [ledger.ended EXCEPT ![run.pc] = row]
  BY DEF Ledgers, Finishes
<1>2. m.ended[run.pc] = row /\ \A y \in Stages \ {run.pc} : m.ended[y] = ledger.ended[y]
  BY <1>1
<1>. QED BY <1>2 DEF EndsIt, Finishes

LEMMA FlushesIt ==
  ASSUME NEW m, NEW row, NEW muted, NEW why, ledger \in Ledgers, run.pc \in Stages, run.val.setup = FALSE,
         Flushes(ledger, m, run.pc, row)
  PROVE  EndsIt(m, row, muted, why)
<1>1. ledger.ended \in [Stages -> Outcomes \cup {"none"}] /\ m.ended = [ledger.ended EXCEPT ![run.pc] = row]
  BY DEF Ledgers, Flushes
<1>2. m.ended[run.pc] = row /\ \A y \in Stages \ {run.pc} : m.ended[y] = ledger.ended[y]
  BY <1>1
<1>. QED BY <1>2 DEF EndsIt, Flushes

LEMMA SkippedLedger ==
  ASSUME Shape, LedgerInv, TaskSkipped
  PROVE  Shape' /\ LedgerInv'
<1>1. PICK q : /\ Ended(q, "skipped", run.pc, run.muted, run.val)
               /\ Leaves(run', q) /\ run'.pc \in Following(q, run.pc, "skipped")
  BY SkippedFields
<1>. DEFINE es == Unbegun(run.pc, "skipped")
<1>2. run.pc \in Stages /\ run.pc # "setup" /\ run.mid = FALSE /\ ledgerEvent(run.val.setup, es, 0, {}) /\ tree' = tree
  BY DEF Shape, RunRecords, TaskSkipped, AtTask, Running, Skippable
<1>3. run.val.setup = TRUE /\ tree' \in Trees /\ run \in RunRecords
  BY <1>2 DEF LedgerInv, SetUp, Shape
<1>4. run'.pc \in Ahead /\ "skipped" \in Outcomes
  BY <1>1, <1>2, FollowingFacts DEF Follows, Ended, Outcomes
<1>5. es \in Seq(Events) /\ At \in Appenders /\ At.file = ledger
  BY <1>2, <1>4, AtFacts, SeqEvents DEF Live
<1>6. EndsIt(After(At, es), "skipped", run.muted, {})
  <2>1. Unbegins(At.file, After(At, es), run.pc, "skipped")
    BY ONLY <1>2, <1>4, <1>5, AfterUnbegun, Zenon
  <2>2. Unbegins(ledger, After(At, es), run.pc, "skipped") /\ ledger \in Ledgers
    BY <1>5, <2>1 DEF Shape
  <2>. HIDE DEF es
  <2>. QED BY ONLY <1>2, <1>3, <2>2, UnbeginsIt, Zenon
<1>. HIDE DEF es
<1>10. StageEnds(q, "skipped", run.pc, run.muted, run.val, es, 0, {})
  BY <1>1, <1>2, <1>3, <1>4, <1>5, <1>6 DEF StageEnds, Excuses
<1>. QED BY <1>10, StageEnd, Zenon

LEMMA UnaffordableLedger ==
  ASSUME Shape, LedgerInv, TaskUnaffordable
  PROVE  Shape' /\ LedgerInv'
<1>1. PICK q : /\ Ended(q, "failed", run.skip, run.muted \ {run.pc}, run.val)
               /\ Leaves(run', q) /\ run'.pc \in Following(q, run.pc, "failed")
  BY UnaffordableFields
<1>. DEFINE es == Unbegun(run.pc, "failed")
<1>2. run.pc \in Stages /\ run.mid = FALSE /\ run.spent /\ ledgerEvent(run.val.setup, es, 0, {}) /\ tree' = tree
  BY DEF Shape, RunRecords, TaskUnaffordable, AtTask, Running
<1>3. run.pc # "setup" /\ run.val.setup = TRUE /\ tree' \in Trees /\ run \in RunRecords
  BY <1>2 DEF LedgerInv, SetUp, Shape
<1>4. run'.pc \in Ahead /\ "failed" \in Outcomes
  BY <1>1, <1>2, FollowingFacts DEF Follows, Ended, Outcomes
<1>5. es \in Seq(Events) /\ At \in Appenders /\ At.file = ledger
  BY <1>2, <1>4, AtFacts, SeqEvents DEF Live
<1>6. EndsIt(After(At, es), "failed", run.muted \ {run.pc}, {})
  <2>1. Unbegins(At.file, After(At, es), run.pc, "failed")
    BY ONLY <1>2, <1>4, <1>5, AfterUnbegun, Zenon
  <2>2. Unbegins(ledger, After(At, es), run.pc, "failed") /\ ledger \in Ledgers
    BY <1>5, <2>1 DEF Shape
  <2>. HIDE DEF es
  <2>. QED BY ONLY <1>2, <1>3, <2>2, UnbeginsIt, Zenon
<1>. HIDE DEF es
<1>10. StageEnds(q, "failed", run.skip, run.muted \ {run.pc}, run.val, es, 0, {})
  BY <1>1, <1>2, <1>3, <1>4, <1>5, <1>6 DEF StageEnds, Excuses
<1>. QED BY <1>10, StageEnd, Zenon

LEMMA ThrowsLedger ==
  ASSUME Shape, LedgerInv, TaskThrows
  PROVE  Shape' /\ LedgerInv'
<1>1. PICK q : /\ Ended(q, "failed", run.skip, run.muted \ {run.pc}, run.val)
               /\ Leaves(run', q)
               /\ IF run.pc = "setup" THEN run'.pc = "close" ELSE run'.pc \in Following(q, run.pc, "failed")
  BY ThrowsFields
<1>. DEFINE es == Closed(run.pc, "failed")
<1>2. run.pc \in Stages /\ run.mid = TRUE /\ ledgerEvent(run.val.setup, es, 1, {}) /\ tree' = tree
  BY DEF Shape, RunRecords, TaskThrows, InTask, Running, Closed
<1>3. run.val.setup = (run.pc # "setup") /\ tree' \in Trees /\ run \in RunRecords
  BY <1>2 DEF LedgerInv, SetUp, Shape
<1>4. run'.pc \in Ahead /\ "failed" \in Outcomes /\ (run'.pc \in Stages => run.val.setup = TRUE)
  <2>1. CASE run.pc = "setup"
    BY <1>1, <2>1 DEF Ahead, Outcomes, Stages, Writers
  <2>2. CASE run.pc # "setup"
    BY <1>1, <1>2, <1>3, <2>2, FollowingFacts DEF Follows, Ended, Outcomes
  <2>. QED BY <2>1, <2>2
<1>5. es \in Seq(Events) /\ At \in Appenders /\ At.file = ledger
  BY <1>2, <1>4, AtFacts, SeqEvents DEF Live
<1>6. run.val.setup => EndsIt(After(At, es), "failed", run.muted \ {run.pc}, {})
  <2>1. Finishes(At.file, After(At, es), run.pc, "failed")
    BY ONLY <1>2, <1>4, <1>5, AfterEnd, Zenon
  <2>2. Finishes(ledger, After(At, es), run.pc, "failed") /\ ledger \in Ledgers
    BY <1>5, <2>1 DEF Shape
  <2>. HIDE DEF es
  <2>3. ASSUME run.val.setup PROVE run.val.setup = TRUE
    BY ONLY <1>3, <2>3
  <2>. QED BY ONLY <1>2, <2>2, <2>3, FinishesIt, Zenon
<1>. HIDE DEF es
<1>10. StageEnds(q, "failed", run.skip, run.muted \ {run.pc}, run.val, es, 1, {})
  BY <1>1, <1>2, <1>3, <1>4, <1>5, <1>6 DEF StageEnds, Excuses
<1>. QED BY <1>10, StageEnd, Zenon

LEMMA MergedTree ==
  ASSUME Shape, NEW b, tree' \in IF b THEN [landed : BOOLEAN, dirty : BOOLEAN, secret : {tree.secret}, closed : {FALSE}] ELSE {tree}
  PROVE  tree' \in Trees /\ tree'.secret = tree.secret
BY DEF Shape, Trees

LEMMA CancelledLedger ==
  ASSUME Shape, LedgerInv, TaskCancelled
  PROVE  Shape' /\ LedgerInv'
<1>1. PICK q : /\ Ended(q, "cancelled", run.skip, run.muted \ {run.pc}, run.val)
               /\ Leaves(run', q) /\ run'.pc = "close"
  BY CancelledFields
<1>. DEFINE es == Closed(run.pc, "cancelled")
<1>2. run.pc \in Stages /\ run.mid = TRUE /\ ledgerEvent(run.val.setup, es, 0, {})
  BY DEF Shape, RunRecords, TaskCancelled, InTask, Running, Closed
<1>3. run.val.setup = (run.pc # "setup") /\ run \in RunRecords
  BY <1>2 DEF LedgerInv, SetUp, Shape
<1>4. run'.pc \in Ahead /\ "cancelled" \in Outcomes /\ run'.pc \notin Stages
  BY <1>1 DEF Ahead, Outcomes, Stages, Writers
<1>5. es \in Seq(Events) /\ At \in Appenders /\ At.file = ledger
  BY <1>2, <1>4, AtFacts, SeqEvents DEF Live
<1>6. run.val.setup => EndsIt(After(At, es), "cancelled", run.muted \ {run.pc}, {})
  <2>1. Finishes(At.file, After(At, es), run.pc, "cancelled")
    BY ONLY <1>2, <1>4, <1>5, AfterEnd, Zenon
  <2>2. Finishes(ledger, After(At, es), run.pc, "cancelled") /\ ledger \in Ledgers
    BY <1>5, <2>1 DEF Shape
  <2>. HIDE DEF es
  <2>3. ASSUME run.val.setup PROVE run.val.setup = TRUE
    BY ONLY <1>3, <2>3
  <2>. QED BY ONLY <1>2, <2>2, <2>3, FinishesIt, Zenon
<1>7. tree' \in Trees
  BY MergedTree DEF TaskCancelled
<1>. HIDE DEF es
<1>10. StageEnds(q, "cancelled", run.skip, run.muted \ {run.pc}, run.val, es, 0, {})
  BY <1>1, <1>2, <1>3, <1>4, <1>5, <1>6, <1>7 DEF StageEnds, Excuses
<1>. QED BY <1>10, StageEnd, Zenon

LEMMA WriterLedger ==
  ASSUME Shape, LedgerInv, WriterFails
  PROVE  Shape' /\ LedgerInv'
<1>. DEFINE row == IF run.aborted THEN "cancelled" ELSE "failed"
<1>. DEFINE muted == IF run.aborted THEN run.muted \ {run.pc} ELSE run.muted \cup {run.pc}
<1>. DEFINE val == IF run.pc = "merge" THEN [run.val EXCEPT !.merged = "none"] ELSE run.val
<1>1. PICK q, last :
           /\ last \in Outcomes /\ run.pc \in Writers
           /\ last = IF run.aborted THEN "cancelled" ELSE "ok"
           /\ Ended(q, row, run.skip, muted, val) /\ Leaves(run', q)
           /\ IF run.aborted THEN run'.pc = "close" ELSE run'.pc \in Following(q, run.pc, "ok")
           /\ ledgerEvent(TRUE, <<Event("failed", run.pc), Event(last, run.pc)>>, 1, {"agent error"})
  BY WriterFields
<1>. DEFINE es == ClosedTwice(run.pc, "failed", last)
<1>2. run.pc \in Stages /\ run.pc # "setup" /\ run \in RunRecords /\ row \in Outcomes /\ "failed" \in Outcomes
  BY <1>1 DEF Shape, Stages, Writers, Outcomes
<1>3. run.val.setup = TRUE
  BY <1>2 DEF LedgerInv, SetUp
<1>4. val.setup = TRUE
  BY <1>2, <1>3 DEF RunRecords, Values
<1>5. run'.pc \in Ahead
  <2>1. CASE run.aborted
    BY <1>1, <2>1 DEF Ahead
  <2>2. CASE ~run.aborted
    BY <1>1, <1>2, <2>2, FollowingFacts DEF Follows, Ended, Outcomes
  <2>. QED BY <2>1, <2>2
<1>6. es \in Seq(Events) /\ At \in Appenders /\ At.file = ledger
  BY <1>1, <1>2, AtFacts, SeqEvents DEF Live
<1>7. EndsIt(After(At, es), row, muted, {"agent error"})
  <2>0. last \in Outcomes /\ "failed" \in Outcomes /\ run.pc \in Stages /\ At \in Appenders
    BY <1>1, <1>2, <1>6
  <2>1. Logs(At.file, After(At, es), run.pc, last)
    BY <2>0, AfterBoth
  <2>2. run.pc \notin muted => last = row
    BY <1>1
  <2>. HIDE DEF row, muted
  <2>. QED BY <1>2, <1>3, <1>6, <2>1, <2>2 DEF EndsIt, Logs, Shape, Ledgers
<1>8. tree' \in Trees
  BY MergedTree DEF WriterFails
<1>9. run.muted \ {run.pc} \subseteq muted /\ ledgerEvent(val.setup, es, 1, {"agent error"})
  BY <1>1, <1>4 DEF ClosedTwice
<1>. HIDE DEF es, row, muted, val
<1>10. StageEnds(q, row, run.skip, muted, val, es, 1, {"agent error"})
  BY <1>1, <1>2, <1>3, <1>4, <1>5, <1>6, <1>7, <1>8, <1>9 DEF StageEnds, Excuses
<1>. QED BY <1>10, StageEnd, Zenon

LEMMA ReturnsLedger ==
  ASSUME Shape, LedgerInv, TaskReturns
  PROVE  Shape' /\ LedgerInv'
<1>1. PICK result \in Results(run.val, run.pc), q \in RunRecords :
           /\ Ended(q, "ok", run.skip, run.muted \ {run.pc}, q.val)
           /\ \/ q.val = result.val
              \/ q.val = [result.val EXCEPT !.blocked = TRUE]
           /\ Leaves(run', q) /\ run'.pc \in Following(q, run.pc, "ok")
           /\ tree' = result.tree
           /\ ledgerEvent(result.val.setup, Flushed(run.pc, Event("ok", run.pc)),
                          IF result.git THEN 1 ELSE 0, IF result.git THEN {"git"} ELSE {})
  BY ReturnsFields
<1>. DEFINE es == Flushed(run.pc, Event("ok", run.pc))
<1>. DEFINE wrong == IF result.git THEN 1 ELSE 0
<1>. DEFINE why == IF result.git THEN {"git"} ELSE {}
<1>2. run.pc \in Stages /\ run.mid = TRUE /\ run \in RunRecords
  BY DEF Shape, RunRecords, TaskReturns, InTask, Running
<1>3. result.val \in Values /\ tree' \in Trees /\ result.val.setup = (run.val.setup \/ run.pc = "setup")
  BY <1>1, <1>2, ResultFacts DEF Makes
<1>4. run.val.setup = (run.pc # "setup")
  BY <1>2 DEF LedgerInv, SetUp
<1>5. q.val.setup = TRUE /\ result.val.setup = TRUE
  <2>1. result.val.setup = TRUE
    BY <1>3, <1>4
  <2>2. CASE q.val = result.val
    BY <2>1, <2>2
  <2>3. CASE q.val = [result.val EXCEPT !.blocked = TRUE]
    BY <1>3, <2>1, <2>3 DEF Values
  <2>. QED BY <1>1, <2>1, <2>2, <2>3
<1>6. run'.pc \in Ahead /\ "ok" \in Outcomes
  BY <1>1, <1>2, FollowingFacts DEF Follows, Outcomes
<1>7. es \in Seq(Events) /\ At \in Appenders /\ At.file = ledger
  BY <1>2, <1>6, AtFacts, SeqEvents DEF Live
<1>8. EndsIt(After(At, es), "ok", run.muted \ {run.pc}, why)
  <2>1. CASE run.pc = "setup"
    <3>1. es = Opening(run.pc, "ok")
      BY <1>2, <1>6, <2>1, SeqEvents
    <3>. HIDE DEF es
    <3>2. Flushes(At.file, After(At, es), run.pc, "ok")
      BY ONLY <1>2, <1>6, <1>7, <3>1, AfterFlush, Zenon
    <3>3. Flushes(ledger, After(At, es), run.pc, "ok") /\ ledger \in Ledgers
      BY <1>7, <3>2 DEF Shape
    <3>. HIDE DEF why
    <3>4. run.val.setup = FALSE
      BY <1>4, <2>1
    <3>. QED BY ONLY <1>2, <3>3, <3>4, FlushesIt, Zenon
  <2>2. CASE run.pc # "setup"
    <3>1. es = Closed(run.pc, "ok")
      BY <1>2, <1>6, <2>2, SeqEvents
    <3>. HIDE DEF es
    <3>2. Finishes(At.file, After(At, es), run.pc, "ok")
      BY ONLY <1>2, <1>6, <1>7, <3>1, AfterEnd, Zenon
    <3>3. run.val.setup = TRUE
      BY <1>4, <2>2
    <3>4. Finishes(ledger, After(At, es), run.pc, "ok") /\ ledger \in Ledgers
      BY <1>7, <3>2 DEF Shape
    <3>. HIDE DEF why
    <3>. QED BY ONLY <1>2, <3>3, <3>4, FinishesIt, Zenon
  <2>. QED BY <2>1, <2>2
<1>9. wrong \in Nat /\ why \in SUBSET Excuses /\ ledgerEvent(q.val.setup, es, wrong, why)
  BY <1>1, <1>5 DEF Excuses
<1>10. q.val.setup = (run.val.setup \/ (run.pc = "setup" /\ q.val.setup))
  BY <1>4, <1>5
<1>11. run'.pc \in Stages => q.val.setup = TRUE
  BY <1>5
<1>12. q.val.setup => EndsIt(After(At, es), "ok", run.muted \ {run.pc}, why)
  BY <1>8
<1>13. Ended(q, "ok", run.skip, run.muted \ {run.pc}, q.val) /\ Leaves(run', q)
  BY <1>1
<1>14. run.muted \ {run.pc} \subseteq run.muted \ {run.pc}
  OBVIOUS
<1>. DEFINE val == q.val
<1>. HIDE DEF es, wrong, why, val
<1>15. /\ Ended(q, "ok", run.skip, run.muted \ {run.pc}, val) /\ ledgerEvent(val.setup, es, wrong, why)
       /\ val.setup = (run.val.setup \/ (run.pc = "setup" /\ val.setup)) /\ (run'.pc \in Stages => val.setup = TRUE)
       /\ val.setup => EndsIt(After(At, es), "ok", run.muted \ {run.pc}, why)
  BY <1>9, <1>10, <1>11, <1>12, <1>13 DEF val
<1>16. StageEnds(q, "ok", run.skip, run.muted \ {run.pc}, val, es, wrong, why)
  BY <1>2, <1>3, <1>6, <1>7, <1>9, <1>13, <1>14, <1>15 DEF StageEnds, Excuses
<1>. QED BY <1>16, StageEnd, Zenon

LEMMA StartLedger ==
  ASSUME Shape, LedgerInv, NEW s \in Sessions, StartPass(s)
  PROVE  Shape' /\ LedgerInv'
<1>1. /\ run.pc \notin Stages /\ run.pc # "close" /\ turns < MaxTurns
      /\ run' = [NoRun EXCEPT !.by = s, !.pc = "setup"] /\ turns' = turns + 1
      /\ happened' = happened \cup (IF known[s] = "stale" THEN {"session"} ELSE {})
      /\ ledger' = [ledger EXCEPT !.ended = NewLedger.ended]
      /\ known' = known /\ tree' = tree
  BY DEF StartPass, Stages, Writers
<1>2. /\ run' \in RunRecords /\ run'.by = s /\ run'.pc = "setup" /\ run'.val.setup = FALSE /\ run'.mid = FALSE
      /\ run'.spent = FALSE /\ \A x \in Stages : run'.rows[x] = "none"
  <2>1. NoRun.val \in Values /\ NoRun.val.setup = FALSE /\ NoRun.rows \in [Stages -> Outcomes \cup {"none"}]
        /\ \A x \in Stages : NoRun.rows[x] = "none"
    BY DEF NoRun, NoValues, Values, Tri
  <2>2. NoRun \in RunRecords /\ NoRun.spent = FALSE /\ NoRun.mid = FALSE
    BY <2>1 DEF NoRun, RunRecords
  <2>3. "setup" \in Stages
    BY DEF Stages
  <2>. QED BY <1>1, <2>1, <2>2, <2>3 DEF RunRecords
<1>3. /\ ledger' \in Ledgers /\ ledger'.gap = ledger.gap /\ ledger'.cut = ledger.cut /\ ledger'.zombie = ledger.zombie
      /\ ledger'.block = ledger.block /\ ledger'.open = ledger.open
  <2>1. NewLedger.ended \in [Stages -> Outcomes \cup {"none"}]
    BY DEF NewLedger
  <2>. QED BY <1>1, <2>1 DEF Shape, Ledgers
<1>4. happened' \in SUBSET Excuses /\ happened \subseteq happened' /\ turns' \in 0 .. MaxTurns
  <2>1. turns' \in 0 .. MaxTurns
    BY <1>1, RunTreeAssumption DEF Shape
  <2>2. happened' = happened \/ happened' = happened \cup {"session"}
    BY <1>1
  <2>. QED BY <2>1, <2>2 DEF Shape, Excuses
<1>5. Shape'
  BY <1>1, <1>2, <1>3, <1>4 DEF Shape
<1>6. Numbered'
  <2>1. ledger'.gap => "session" \in happened'
    BY <1>3, <1>4 DEF LedgerInv, Numbered
  <2>2. known'[run'.by] = "stale" => "session" \in happened'
    BY <1>1, <1>2
  <2>. QED BY <2>1, <2>2 DEF Numbered
<1>7. SetUp'
  BY <1>2 DEF SetUp
<1>8. Bracketed'
  <2>1. happened' \cap {"kill", "lost"} = {} => ledger.cut = FALSE /\ (ledger.block = "open") = FALSE
    BY <1>1, <1>4 DEF LedgerInv, Bracketed, Live
  <2>. QED BY <1>2, <1>3, <2>1 DEF Bracketed
<1>9. Paired'
  <2>1. happened' \cap {"kill", "lost", "fatal", "agent error"} = {} => ledger.zombie = FALSE /\ ledger.open = {}
    BY <1>1, <1>4 DEF LedgerInv, Paired
  <2>. QED BY <1>2, <1>3, <2>1 DEF Paired
<1>10. LedgerTellsTheRows'
  BY <1>2 DEF LedgerTellsTheRows
<1>. QED BY <1>5, <1>6, <1>7, <1>8, <1>9, <1>10 DEF LedgerInv

(* A step that changes the run but neither its place in the ledger nor its  *)
(* rows, and appends nothing.                                               *)
LEMMA SameLedger ==
  ASSUME Shape, LedgerInv, run' \in RunRecords, run'.by = run.by, run'.val = run.val, run'.rows = run.rows, run'.muted = run.muted,
         Live, run'.pc = run.pc \/ run'.pc = "close",
         run'.pc = "setup" => run'.spent = FALSE,
         \/ run'.pc = run.pc /\ run'.mid = run.mid
         \/ run.mid = FALSE /\ run'.mid = FALSE
         \/ run.mid = TRUE /\ run.val.setup = FALSE
         \/ run.mid = FALSE /\ run.val.setup = FALSE
         \/ "fatal" \in happened',
         ledger' = ledger, known' = known, tree' = tree, turns' \in 0 .. MaxTurns,
         happened' \in SUBSET Excuses, happened \subseteq happened'
  PROVE  Shape' /\ LedgerInv'
<1>1. Shape'
  BY DEF Shape, Live
<1>2. Live' /\ run.val.setup \in BOOLEAN /\ run.mid \in BOOLEAN /\ run'.mid \in BOOLEAN
  BY DEF Live, Shape, RunRecords, Values
<1>3. "close" \notin Stages
  BY DEF Stages, Writers
<1>4. Numbered'
  BY <1>2 DEF LedgerInv, Numbered
<1>5. SetUp'
  BY <1>3 DEF LedgerInv, SetUp
<1>6. Bracketed'
  <2>1. happened' \cap {"kill", "lost"} = {} => happened \cap {"kill", "lost"} = {}
    OBVIOUS
  <2>. QED BY <1>2, <2>1 DEF LedgerInv, Bracketed
<1>7. Paired'
  <2>1. ASSUME happened' \cap {"kill", "lost", "fatal", "agent error"} = {}
        PROVE  /\ ledger'.zombie = FALSE
               /\ ledger'.open = IF run'.pc \in Stages /\ run'.mid /\ run'.val.setup THEN {run'.pc} ELSE {}
    <3>1. ledger.zombie = FALSE /\ ledger.open = IF run.pc \in Stages /\ run.mid /\ run.val.setup THEN {run.pc} ELSE {}
      BY <2>1 DEF LedgerInv, Paired
    <3>2. \/ run'.pc = run.pc /\ run'.mid = run.mid
          \/ run.mid = FALSE /\ run'.mid = FALSE
          \/ run.val.setup = FALSE
      BY <2>1
    <3>. QED BY <3>1, <3>2
  <2>. QED BY <2>1 DEF Paired
<1>8. LedgerTellsTheRows'
  BY DEF LedgerInv, LedgerTellsTheRows
<1>. QED BY <1>1, <1>4, <1>5, <1>6, <1>7, <1>8 DEF LedgerInv

LEMMA AbortLedger ==
  ASSUME Shape, LedgerInv, AbortPass
  PROVE  Shape' /\ LedgerInv'
<1>1. /\ run' \in RunRecords /\ run'.by = run.by /\ run'.val = run.val /\ run'.rows = run.rows /\ run'.muted = run.muted
      /\ run'.pc = run.pc /\ run'.mid = run.mid /\ run'.spent = run.spent
  BY DEF Shape, RunRecords, AbortPass
<1>2. Live /\ ledger' = ledger /\ known' = known /\ tree' = tree /\ happened' = happened /\ turns' \in 0 .. MaxTurns
  BY RunTreeAssumption DEF Shape, AbortPass, Running, Live, GoesWrong
<1>3. run'.pc = "setup" => run'.spent = FALSE
  BY <1>1 DEF LedgerInv, SetUp
<1>4. happened' \in SUBSET Excuses
  BY <1>2 DEF Shape
<1>. QED BY <1>1, <1>2, <1>3, <1>4, SameLedger

LEMMA SequenceAbortsLedger ==
  ASSUME Shape, LedgerInv, SequenceAborts
  PROVE  Shape' /\ LedgerInv'
<1>1. run.pc \in Stages /\ run.mid = FALSE /\ Stop(run, "cancelled") /\ run \in RunRecords
  BY DEF Shape, RunRecords, SequenceAborts, AtTask, Running
<1>2. Leaves(run', run) /\ run'.pc = "close"
  BY <1>1, StopFields
<1>3. Live /\ ledger' = ledger /\ known' = known /\ tree' = tree /\ happened' = happened /\ turns' = turns
  BY <1>1 DEF SequenceAborts, Live
<1>4. happened' \in SUBSET Excuses /\ turns' \in 0 .. MaxTurns
  BY <1>3 DEF Shape
<1>. QED BY <1>1, <1>2, <1>3, <1>4, SameLedger DEF Leaves

LEMMA NodeAbortsLedger ==
  ASSUME Shape, LedgerInv, NodeAborts
  PROVE  Shape' /\ LedgerInv'
<1>1. run.pc \in Stages /\ run.mid = FALSE /\ Stop(run, "error") /\ run \in RunRecords
  BY DEF Shape, RunRecords, NodeAborts, AtTask, Running
<1>2. Leaves(run', run) /\ run'.pc = "close"
  BY <1>1, StopFields
<1>3. Live /\ ledger' = ledger /\ known' = known /\ tree' = tree /\ happened' = happened /\ turns' \in 0 .. MaxTurns
  BY <1>1, RunTreeAssumption DEF Shape, NodeAborts, Live, GoesWrong
<1>4. happened' \in SUBSET Excuses
  BY <1>3 DEF Shape
<1>. QED BY <1>1, <1>2, <1>3, <1>4, SameLedger DEF Leaves

LEMMA TaskAbortsLedger ==
  ASSUME Shape, LedgerInv, TaskAborts
  PROVE  Shape' /\ LedgerInv'
<1>1. run.pc \in Stages /\ Stop(run, "error") /\ run \in RunRecords
  BY DEF Shape, RunRecords, TaskAborts, InTask, Running
<1>2. Leaves(run', run) /\ run'.pc = "close"
  BY <1>1, StopFields
<1>3. Live /\ ledger' = ledger /\ known' = known /\ tree' = tree /\ happened' = happened \cup {"fatal"} /\ turns' \in 0 .. MaxTurns
  BY <1>1, RunTreeAssumption DEF Shape, TaskAborts, Live, GoesWrong
<1>4. happened' \in SUBSET Excuses /\ happened \subseteq happened' /\ "fatal" \in happened'
  BY <1>3 DEF Shape, Excuses
<1>. QED BY <1>1, <1>2, <1>3, <1>4, SameLedger DEF Leaves

LEMMA KillLedger ==
  ASSUME Shape, LedgerInv, KillPass
  PROVE  Shape' /\ LedgerInv'
<1>1. /\ run' = [NoRun EXCEPT !.by = run.by, !.pc = "dead"] /\ known' = [known EXCEPT ![run.by] = "none"]
      /\ ledger' = ledger \/ ledger' = [ledger EXCEPT !.clean = FALSE]
      /\ happened' = happened \cup {"kill"} /\ tree' = tree /\ turns' \in 0 .. MaxTurns
  BY RunTreeAssumption DEF Shape, KillPass, GoesWrong
<1>2. run' \in RunRecords /\ run'.pc = "dead" /\ run'.val.setup = FALSE /\ \A x \in Stages : run'.rows[x] = "none"
  <2>1. NoRun.val \in Values /\ NoRun.val.setup = FALSE /\ NoRun.rows \in [Stages -> Outcomes \cup {"none"}]
        /\ \A x \in Stages : NoRun.rows[x] = "none"
    BY DEF NoRun, NoValues, Values, Tri
  <2>2. NoRun \in RunRecords
    BY <2>1 DEF NoRun, RunRecords
  <2>3. run.by \in Sessions \cup {"nobody"}
    BY DEF Shape, RunRecords
  <2>. QED BY <1>1, <2>1, <2>2, <2>3 DEF RunRecords
<1>3. ledger' \in Ledgers /\ ledger'.gap = ledger.gap
  BY <1>1 DEF Shape, Ledgers
<1>4. "dead" \notin Stages \cup {"close"}
  BY DEF Stages, Writers
<1>5. known' \in [Sessions -> Numbers] /\ happened' \in SUBSET Excuses /\ happened \subseteq happened' /\ "kill" \in happened'
  BY <1>1 DEF Shape, Numbers, Excuses
<1>6. Shape'
  BY <1>1, <1>2, <1>3, <1>4, <1>5 DEF Shape, Live
<1>7. Numbered' /\ SetUp' /\ Bracketed' /\ Paired' /\ LedgerTellsTheRows'
  BY <1>2, <1>3, <1>4, <1>5 DEF LedgerInv, Numbered, SetUp, Bracketed, Paired, LedgerTellsTheRows, Live
<1>. QED BY <1>6, <1>7 DEF LedgerInv

LEMMA StatusType ==
  ASSUME NEW r
  PROVE  deriveRunStatus(r) \in {"success", "partial", "failed", "replan"}
BY DEF deriveRunStatus

LEMMA CloseLedger ==
  ASSUME Shape, LedgerInv, ClosePass
  PROVE  Shape' /\ LedgerInv'
<1>1. run.pc = "close" /\ run' = [run EXCEPT !.pc = "ended", !.status = deriveRunStatus(run)] /\ tree' = tree
      /\ ledgerEvent(run.val.setup, Completed, 0, {})
  BY DEF ClosePass, Completed
<1>2. Live /\ run \in RunRecords /\ run.by \in Sessions /\ run.val.setup \in BOOLEAN /\ "setup" \in Stages /\ "ok" \in Outcomes
  BY <1>1 DEF Live, Shape, RunRecords, Values, Stages, Outcomes
<1>3. /\ run' \in RunRecords /\ run'.pc = "ended" /\ run'.by = run.by /\ run'.val = run.val /\ run'.rows = run.rows
      /\ run'.muted = run.muted
  BY <1>1, <1>2, StatusType DEF RunRecords
<1>4. At \in Appenders /\ At.file = ledger /\ Completed \in Seq(Events)
  BY <1>2, AtFacts, SeqEvents
<1>5. /\ ledger' \in Ledgers /\ known' \in [Sessions -> Numbers]
      /\ turns' \in 0 .. MaxTurns /\ happened' \in SUBSET Excuses
      /\ happened \cup {} \subseteq happened'
      /\ ledger'.gap => ledger.gap \/ known[run.by] = "stale"
      /\ "lost" \notin happened' =>
           /\ happened' = happened \cup {}
           /\ ledger' = IF run.val.setup THEN After(At, Completed) ELSE ledger
  BY <1>1, <1>2, <1>4, LedgerStep DEF After, At, Excuses
<1>. DEFINE m == After(At, Completed)
<1>0. Completes(At.file, m)
  BY ONLY <1>4, AfterComplete, Zenon
<1>6. /\ m.ended = At.file.ended /\ m.block = "closed"
      /\ At.file.cut = FALSE /\ At.file.block = "open" => m.cut = FALSE
      /\ At.file.zombie = FALSE /\ At.file.open = {} => m.zombie = FALSE /\ m.open = {}
  BY ONLY <1>0 DEF Completes
<1>. HIDE DEF m
<1>7. "lost" \notin happened' => happened' = happened /\ ledger' = IF run.val.setup THEN m ELSE ledger
  BY <1>5 DEF m
<1>8. "ended" \notin Stages \cup {"close"} /\ "close" \notin Stages
  BY DEF Stages, Writers
<1>9. Shape'
  BY <1>1, <1>3, <1>5, <1>8 DEF Shape, Live
<1>10. Numbered'
  BY <1>2, <1>3, <1>5, <1>8 DEF LedgerInv, Numbered, Live
<1>11. SetUp'
  BY <1>3, <1>8 DEF LedgerInv, SetUp, Stages
<1>12. Bracketed'
  BY <1>2, <1>3, <1>4, <1>5, <1>6, <1>7, <1>8 DEF LedgerInv, Bracketed, Live
<1>13. Paired'
  BY <1>1, <1>2, <1>3, <1>4, <1>5, <1>6, <1>7, <1>8 DEF LedgerInv, Paired
<1>14. LedgerTellsTheRows'
  BY <1>2, <1>3, <1>4, <1>5, <1>6, <1>7 DEF LedgerInv, LedgerTellsTheRows
<1>. QED BY <1>9, <1>10, <1>11, <1>12, <1>13, <1>14 DEF LedgerInv

LEMMA BeginsLedger ==
  ASSUME Shape, LedgerInv, TaskBegins
  PROVE  Shape' /\ LedgerInv'
<1>1. run.pc \in Stages /\ run.mid = FALSE /\ run' = [run EXCEPT !.mid = TRUE] /\ tree' = tree /\ run \in RunRecords
  BY DEF TaskBegins, AtTask, Running, Shape, RunRecords
<1>2. /\ run' \in RunRecords /\ run'.by = run.by /\ run'.val = run.val /\ run'.rows = run.rows /\ run'.muted = run.muted
      /\ run'.pc = run.pc /\ run'.mid = TRUE /\ run'.spent = run.spent
  BY <1>1 DEF RunRecords
<1>3. Live /\ run.by \in Sessions /\ run.val.setup = (run.pc # "setup")
  BY <1>1 DEF Live, Shape, LedgerInv, SetUp
<1>4. CASE run.pc = "setup"
  <2>1. turns' = turns /\ ledger' = ledger /\ known' = known /\ happened' = happened
    BY <1>3, <1>4 DEF TaskBegins
  <2>2. happened' \in SUBSET Excuses /\ turns' \in 0 .. MaxTurns
    BY <2>1 DEF Shape
  <2>3. run'.pc = "setup" => run'.spent = FALSE
    BY <1>2 DEF LedgerInv, SetUp
  <2>. QED BY <1>1, <1>2, <1>3, <1>4, <2>1, <2>2, <2>3, SameLedger
<1>5. CASE run.pc # "setup"
  <2>1. ledgerEvent(TRUE, Begun(run.pc), 0, {})
    BY <1>5 DEF TaskBegins, Begun
  <2>2. At \in Appenders /\ At.file = ledger /\ Begun(run.pc) \in Seq(Events)
    BY <1>1, <1>3, AtFacts, SeqEvents DEF Outcomes
  <2>3. /\ ledger' \in Ledgers /\ known' \in [Sessions -> Numbers]
        /\ turns' \in 0 .. MaxTurns /\ happened' \in SUBSET Excuses
        /\ happened \cup {} \subseteq happened'
        /\ known'[run.by] = "stale" => known[run.by] = "stale"
        /\ ledger'.gap => ledger.gap \/ known[run.by] = "stale"
        /\ "lost" \notin happened' =>
             /\ happened' = happened \cup {}
             /\ ledger' = IF TRUE THEN After(At, Begun(run.pc)) ELSE ledger
    BY <1>3, <2>1, <2>2, LedgerStep DEF After, At, Excuses
  <2>. DEFINE m == After(At, Begun(run.pc))
  <2>0. Begins(At.file, m, run.pc)
    BY ONLY <1>1, <2>2, AfterBegin, Zenon
  <2>4. /\ m.ended = At.file.ended /\ m.block = "open"
        /\ At.file.cut = FALSE /\ At.file.block = "open" => m.cut = FALSE
        /\ At.file.zombie = FALSE /\ At.file.open = {} => m.zombie = FALSE /\ m.open = {run.pc}
    BY ONLY <2>0 DEF Begins
  <2>. HIDE DEF m
  <2>5. "lost" \notin happened' => happened' = happened /\ ledger' = m
    BY <2>3 DEF m
  <2>6. Shape' /\ Live'
    BY <1>1, <1>2, <1>3, <2>3 DEF Shape, Live
  <2>7. Numbered'
    BY <1>2, <1>3, <2>3 DEF LedgerInv, Numbered
  <2>8. SetUp'
    BY <1>2, <1>5 DEF LedgerInv, SetUp
  <2>9. Bracketed'
    BY <1>2, <1>3, <1>5, <2>2, <2>3, <2>4, <2>5, <2>6 DEF LedgerInv, Bracketed
  <2>10. Paired'
    BY <1>1, <1>2, <1>3, <1>5, <2>2, <2>3, <2>4, <2>5 DEF LedgerInv, Paired
  <2>11. LedgerTellsTheRows'
    BY <1>2, <2>2, <2>3, <2>4, <2>5 DEF LedgerInv, LedgerTellsTheRows
  <2>. QED BY <2>6, <2>7, <2>8, <2>9, <2>10, <2>11 DEF LedgerInv
<1>. QED BY <1>4, <1>5

LEMMA LedgerInit ==
  RunTreeInit => Shape /\ LedgerInv
<1>. SUFFICES ASSUME RunTreeInit PROVE Shape /\ LedgerInv
  OBVIOUS
<1>1. NoRun.val \in Values /\ NoRun.val.setup = FALSE /\ NoRun.rows \in [Stages -> Outcomes \cup {"none"}]
      /\ \A x \in Stages : NoRun.rows[x] = "none"
  BY DEF NoRun, NoValues, Values, Tri
<1>2. NoRun \in RunRecords /\ NoRun.pc = "none"
  BY <1>1 DEF NoRun, RunRecords
<1>3. NewLedger \in Ledgers /\ NewLedger.gap = FALSE /\ NewLedger.cut = FALSE /\ NewLedger.zombie = FALSE
      /\ NewLedger.open = {} /\ NewLedger.block = "none"
  BY DEF NewLedger, Ledgers
<1>4. /\ ledger \in Ledgers /\ ledger.gap = FALSE /\ ledger.cut = FALSE /\ ledger.zombie = FALSE
      /\ ledger.open = {} /\ ledger.block # "open"
  <2>1. CASE ledger = NewLedger
    BY <1>3, <2>1
  <2>2. CASE ledger = [NewLedger EXCEPT !.block = "closed"]
    BY <1>3, <2>2 DEF Ledgers
  <2>. QED BY <2>1, <2>2 DEF RunTreeInit
<1>5. known \in [Sessions -> Numbers]
  BY DEF RunTreeInit, Numbers
<1>6. run = NoRun /\ turns = 0 /\ happened = {} /\ tree \in Trees
  BY DEF RunTreeInit, Trees
<1>7. "none" \notin Stages \cup {"close"}
  BY DEF Stages, Writers
<1>8. Shape
  BY <1>2, <1>4, <1>5, <1>6, <1>7, RunTreeAssumption DEF Shape, Live
<1>9. LedgerInv
  BY <1>1, <1>2, <1>4, <1>6, <1>7 DEF LedgerInv, Numbered, SetUp, Bracketed, Paired, LedgerTellsTheRows, Live
<1>. QED BY <1>8, <1>9

LEMMA LedgerNext ==
  Shape /\ LedgerInv /\ [RunTreeNext]_treeVars => Shape' /\ LedgerInv'
<1>. SUFFICES ASSUME Shape, LedgerInv, [RunTreeNext]_treeVars PROVE Shape' /\ LedgerInv'
  OBVIOUS
<1>1. CASE UNCHANGED treeVars
  BY <1>1 DEF treeVars, Shape, LedgerInv, Numbered, SetUp, Bracketed, Paired, LedgerTellsTheRows, Live
<1>2. CASE \E s \in Sessions : StartPass(s)
  BY <1>2, StartLedger
<1>3. CASE AbortPass \/ KillPass \/ ClosePass
  BY <1>3, AbortLedger, KillLedger, CloseLedger
<1>4. CASE SequenceAborts \/ TaskSkipped \/ TaskUnaffordable \/ TaskBegins \/ NodeAborts
  BY <1>4, SequenceAbortsLedger, SkippedLedger, UnaffordableLedger, BeginsLedger, NodeAbortsLedger
<1>5. CASE TaskReturns \/ WriterFails \/ TaskThrows \/ TaskAborts \/ TaskCancelled
  BY <1>5, ReturnsLedger, WriterLedger, ThrowsLedger, TaskAbortsLedger, CancelledLedger
<1>. QED BY <1>1, <1>2, <1>3, <1>4, <1>5 DEF RunTreeNext

(* A flaw in the ledger has one of the causes the module names: its lines   *)
(* are numbered without a gap, its runs bracketed and its stages paired     *)
(* whatever is skipped, cancelled, thrown or torn.                          *)
THEOREM LedgerForm == RunTreeSpec => []LedgerIsWellFormed
<1>1. Shape /\ LedgerInv => LedgerIsWellFormed
  BY DEF LedgerInv, Numbered, Bracketed, Paired, LedgerIsWellFormed, Shape, Ledgers
<1>. QED BY <1>1, LedgerInit, LedgerNext, PTL DEF RunTreeSpec

(* The fold of the ledger is the last row of every stage.                   *)
THEOREM LedgerTells == RunTreeSpec => []LedgerTellsTheRows
<1>1. LedgerInv => LedgerTellsTheRows
  BY DEF LedgerInv
<1>. QED BY <1>1, LedgerInit, LedgerNext, PTL DEF RunTreeSpec

-----------------------------------------------------------------------------
(* A run that ends in success has merged what it says.                      *)

SaysSuccess(r) ==
  /\ r.end # "cancelled" /\ (r.end # "none" => r.wall = TRUE)
  /\ r.val.impl = "green" /\ r.val.review = "yes" /\ r.val.build = "yes"
  /\ r.val.preMerge # "no" /\ r.val.integration # "no" /\ r.val.cleanup # "blocked"
  /\ r.val.preMerge = "yes" /\ r.val.cleanup = "clear" => r.val.merged = "yes"
  /\ \A x \in Stages : r.rows[x] # "failed"

LEMMA SuccessFacts ==
  ASSUME NEW r \in RunRecords, deriveRunStatus(r) = "success"
  PROVE  SaysSuccess(r)
BY DEF deriveRunStatus, RunRecords, Values, SaysSuccess

(* What a stage x may do to the values and to the tree when it ends with    *)
(* `outcome`, having skipped what `skip` says.                              *)
Wrought(x, outcome, skip, v) ==
  /\ v \in Values
  /\ v.review = "yes" => v.build = "yes" /\ v.integration # "none"
  /\ x # "verification" => v.review = run.val.review /\ v.build = run.val.build /\ v.integration = run.val.integration
  /\ x # "implementation" => v.impl = run.val.impl
  /\ x # "preMergeBuild" => v.preMerge = run.val.preMerge
  /\ x # "cleanup" => v.cleanup = run.val.cleanup /\ tree'.secret = tree.secret
  /\ x = "preMergeBuild" /\ outcome # "failed" => v.preMerge # "none" \/ skip = "preMergeBuild"
  /\ x = "cleanup" /\ outcome # "failed" => v.cleanup # "none" \/ skip = "cleanup"
  /\ x = "cleanup" /\ v.cleanup = "clear" => tree'.secret = FALSE \/ "git" \in happened'
  /\ x = "merge-verify" /\ v.merged = "yes" /\ outcome # "failed" =>
       skip = "merge-verify" \/ (tree'.landed = TRUE /\ (tree'.dirty = FALSE \/ "git" \in happened'))
  /\ run.skip = "preMergeBuild" => skip = "preMergeBuild"

(* What a stage that leaves everything to the next one does.                *)
LEMMA WroughtNothing ==
  ASSUME Shape, Walked, NEW x \in Stages, NEW outcome, NEW skip, tree' = tree, happened \subseteq happened',
         outcome = "failed" \/ skip = x, run.skip = "preMergeBuild" => skip = "preMergeBuild"
  PROVE  Wrought(x, outcome, skip, run.val)
<1>1. run.val \in Values
  BY DEF Shape, RunRecords
<1>2. run.val.review = "yes" => run.val.build = "yes" /\ run.val.integration # "none"
  BY DEF Walked
<1>3. run.val.cleanup = "clear" => tree'.secret = FALSE \/ "git" \in happened'
  BY DEF Walked
<1>. QED BY <1>1, <1>2, <1>3 DEF Wrought

LEMMA WalkEnd ==
  ASSUME Shape, Shape', TreeInv, run.pc \in Stages, happened \subseteq happened',
         NEW q, NEW row \in Outcomes, NEW outcome \in Outcomes, NEW skip, NEW muted, NEW val,
         Ended(q, row, skip, muted, val), Leaves(run', q),
         q.wall = run.wall \/ (run.pc = "implementation" /\ val.blocked = TRUE),
         Wrought(run.pc, outcome, skip, val),
         \/ run'.pc \in Following(q, run.pc, outcome) /\ run'.end = run.end /\ row # "cancelled" /\ (outcome = "failed" => row = "failed")
         \/ run'.pc = "close" /\ run'.end = "cancelled"
         \/ run'.pc = "close" /\ run'.end = "error" /\ row # "cancelled" /\ run.pc = "setup" /\ q.wall = run.wall
  PROVE  TreeInv'
<1>. DEFINE x == run.pc
<1>1. /\ run \in RunRecords /\ run' \in RunRecords /\ q \in RunRecords /\ q.val = val /\ run'.val = val /\ run'.skip = skip /\ run'.wall = q.wall
      /\ run'.rows = [run.rows EXCEPT ![x] = row] /\ run'.status = run.status /\ tree \in Trees /\ tree' \in Trees
      /\ val \in Values
  BY DEF Shape, Ended, Leaves, Wrought
<1>2. run.end = "none" /\ run.status = "none"
  <2>1. "ended" \notin Stages
    BY DEF Stages, Writers
  <2>. QED BY <2>1 DEF TreeInv, Walked
<1>3. \A y \in Stages : run.rows[y] # "cancelled"
  BY <1>2 DEF TreeInv, Walked
<1>0. run'.pc \in Following(q, x, outcome) => Follows(q, x, outcome, run'.pc)
  BY <1>1, FollowingFacts
<1>4. run'.pc \in Ahead /\ run'.pc # "ended"
  <2>1. "ended" \notin Ahead /\ "close" \in Ahead
    BY DEF Ahead, Stages, Writers
  <2>. QED BY <1>0, <2>1 DEF Follows
<1>5. \A y \in Stages : run'.rows[y] = "cancelled" => run'.end = "cancelled"
  <2>1. ASSUME NEW y \in Stages, run'.rows[y] = "cancelled" PROVE row = "cancelled"
    BY <1>1, <1>3, <2>1 DEF RunRecords
  <2>. QED BY <2>1
<1>6. run'.wall => run'.pc \notin {"setup", "classify", "requirements", "implementation"} /\ run'.end # "error"
  <2>1. ASSUME run'.wall PROVE x \notin {"setup", "classify", "requirements"} /\ (x = "implementation" => val.blocked = TRUE)
    <3>1. CASE q.wall = run.wall
      BY <1>1, <2>1, <3>1 DEF TreeInv, Walked
    <3>2. CASE x = "implementation" /\ val.blocked = TRUE
      BY <3>2
    <3>. QED BY <3>1, <3>2
  <2>2. run'.wall => run'.end # "error"
    BY <1>2, <2>1
  <2>3. run'.pc # "setup"
    BY <1>4 DEF Ahead, Stages, Writers
  <2>4. ASSUME run'.wall, run'.pc \in {"classify", "requirements", "implementation"} PROVE FALSE
    <3>1. run'.pc \in Following(q, x, outcome)
      BY <2>4
    <3>. QED BY <1>0, <1>1, <2>1, <2>4, <3>1 DEF Follows
  <2>. QED BY <2>2, <2>3, <2>4
<1>7. val.review = "yes" => val.build = "yes" /\ val.integration # "none"
  BY DEF Wrought
<1>8. run'.pc \in {"docs", "preMergeBuild", "cleanup", "merge", "merge-verify"} => hasVerifiedImplementation(val)
  <2>1. ASSUME run'.pc \in {"docs", "preMergeBuild", "cleanup", "merge", "merge-verify"}
        PROVE  hasVerifiedImplementation(val)
    <3>1. run'.pc \in Following(q, x, outcome)
      BY <2>1
    <3>2. CASE run'.pc = "docs"
      BY <1>0, <1>1, <3>1, <3>2 DEF Follows
    <3>3. CASE run'.pc # "docs"
      <4>1. x \in {"docs", "preMergeBuild", "cleanup", "merge"}
        BY <1>0, <1>1, <2>1, <3>1, <3>3 DEF Follows
      <4>2. hasVerifiedImplementation(run.val)
        BY <4>1 DEF TreeInv, Walked
      <4>. QED BY <4>1, <4>2 DEF Wrought, hasVerifiedImplementation, hasImplementation
    <3>. QED BY <3>2, <3>3
  <2>. QED BY <2>1
<1>9. run'.pc \in {"merge", "merge-verify"} => canMerge(val)
  <2>1. ASSUME run'.pc = "merge" PROVE canMerge(val)
    <3>1. run'.pc \in Following(q, x, outcome)
      BY <2>1
    <3>. QED BY <1>0, <1>1, <2>1, <3>1 DEF Follows
  <2>2. ASSUME run'.pc = "merge-verify" PROVE canMerge(val)
    <3>1. run'.pc \in Following(q, x, outcome)
      BY <2>2
    <3>2. x = "merge"
      BY <1>0, <1>1, <2>2, <3>1 DEF Follows
    <3>3. canMerge(run.val)
      BY <3>2 DEF TreeInv, Walked
    <3>. QED BY <3>2, <3>3 DEF Wrought, canMerge
  <2>. QED BY <2>1, <2>2
<1>10. run'.pc \in {"cleanup", "merge", "merge-verify"} => skip = "preMergeBuild" \/ val.preMerge # "none"
  <2>1. ASSUME run'.pc = "cleanup" PROVE skip = "preMergeBuild" \/ val.preMerge # "none"
    <3>1. run'.pc \in Following(q, x, outcome)
      BY <2>1
    <3>2. x = "preMergeBuild" /\ outcome # "failed"
      BY <1>0, <1>1, <2>1, <3>1 DEF Follows
    <3>. QED BY <3>2 DEF Wrought
  <2>. QED BY <1>9, <2>1 DEF canMerge
<1>11. val.cleanup = "clear" => tree'.secret = FALSE \/ "git" \in happened'
  BY DEF TreeInv, Walked, Wrought
<1>12. run'.pc \in Stages => run'.end = "none"
  <2>1. "close" \notin Stages
    BY DEF Stages, Writers
  <2>. QED BY <1>2, <2>1
<1>13. Walked'
  BY <1>1, <1>2, <1>5, <1>6, <1>7, <1>8, <1>9, <1>10, <1>11, <1>12 DEF Walked
<1>14. Closing'
  <2>1. SUFFICES ASSUME run'.pc = "close", deriveRunStatus(run') = "success" PROVE EarnedSuccess'
    BY DEF Closing
  <2>2. /\ run'.end # "cancelled" /\ (run'.end # "none" => run'.wall = TRUE)
        /\ val.impl = "green" /\ val.review = "yes" /\ val.build = "yes"
        /\ val.preMerge # "no" /\ val.integration # "no" /\ val.cleanup # "blocked"
        /\ val.preMerge = "yes" /\ val.cleanup = "clear" => val.merged = "yes"
        /\ \A y \in Stages : run'.rows[y] # "failed"
    <3>1. run' \in RunRecords /\ deriveRunStatus(run') = "success" /\ run'.val = val
      BY <1>1, <2>1
    <3>2. SaysSuccess(run')
      BY ONLY <3>1, SuccessFacts, Zenon
    <3>. QED BY ONLY <3>1, <3>2 DEF SaysSuccess
  <2>3. \A y \in Stages : run'.rows[y] \in {"ok", "skipped", "none"}
    BY <1>1, <1>5, <2>2 DEF RunRecords, Outcomes
  <2>4. run'.end = "none"
    BY <1>1, <1>6, <2>2 DEF RunRecords
  <2>5. run'.pc \in Following(q, x, outcome) /\ (outcome = "failed" => row = "failed")
    BY <2>4
  <2>6. row # "failed" /\ outcome # "failed"
    BY <1>1, <2>2, <2>5 DEF RunRecords
  <2>7. hasVerifiedImplementation(val) \/ val.integration # "yes"
    BY <2>2 DEF hasVerifiedImplementation, hasImplementation
  <2>8. val.integration = "yes"
    BY <1>1, <1>7, <2>2 DEF Values, Tri
  <2>9. (x = "cleanup" /\ ~canMerge(val)) \/ x = "merge-verify"
    BY <1>0, <1>1, <2>1, <2>5, <2>6, <2>7, <2>8 DEF Follows
  <2>10. (tree'.landed /\ ~tree'.dirty /\ ~tree'.secret) \/ Excused'
    <3>1. CASE x = "cleanup" /\ ~canMerge(val)
      <4>1. val.preMerge = "none" \/ val.cleanup = "none"
        BY <1>1, <2>2, <2>8, <3>1 DEF canMerge, Values, Tri
      <4>2. val.preMerge = "none" => skip = "preMergeBuild"
        <5>1. run.skip = "preMergeBuild" \/ run.val.preMerge # "none"
          BY <3>1 DEF TreeInv, Walked
        <5>. QED BY <3>1, <5>1 DEF Wrought
      <4>3. val.cleanup = "none" => skip = "cleanup"
        BY <2>6, <3>1 DEF Wrought
      <4>. QED BY <1>1, <4>1, <4>2, <4>3 DEF Excused
    <3>2. CASE x = "merge-verify"
      <4>1. canMerge(run.val)
        BY <3>2 DEF TreeInv, Walked
      <4>2. val.preMerge = "yes" /\ val.cleanup = "clear"
        BY <3>2, <4>1 DEF Wrought, canMerge
      <4>3. val.merged = "yes"
        BY <2>2, <4>2
      <4>4. skip = "merge-verify" \/ (tree'.landed = TRUE /\ (tree'.dirty = FALSE \/ "git" \in happened'))
        BY <2>6, <3>2, <4>3 DEF Wrought
      <4>. QED BY <1>1, <1>11, <4>2, <4>4 DEF Excused
    <3>. QED BY <2>9, <3>1, <3>2
  <2>. QED BY <2>3, <2>10 DEF EarnedSuccess
<1>15. SuccessIsEarned'
  BY <1>1, <1>2 DEF SuccessIsEarned
<1>. QED BY <1>13, <1>14, <1>15 DEF TreeInv

LEMMA SkippedWalk ==
  ASSUME Shape, Shape', TreeInv, TaskSkipped
  PROVE  TreeInv'
<1>1. PICK q : /\ Ended(q, "skipped", run.pc, run.muted, run.val) /\ q.wall = run.wall
               /\ Leaves(run', q) /\ run'.pc \in Following(q, run.pc, "skipped") /\ run'.end = run.end
  BY SkippedFields
<1>2. run.pc \in Stages /\ run.skip = "none" /\ tree' = tree /\ "skipped" \in Outcomes
  BY DEF TaskSkipped, AtTask, Running, Outcomes
<1>3. happened \subseteq happened'
  BY DEF TaskSkipped, ledgerEvent
<1>4. Wrought(run.pc, "skipped", run.pc, run.val)
  BY <1>2, <1>3, WroughtNothing DEF TreeInv
<1>. QED BY <1>1, <1>2, <1>3, <1>4, WalkEnd

LEMMA UnaffordableWalk ==
  ASSUME Shape, Shape', TreeInv, TaskUnaffordable
  PROVE  TreeInv'
<1>1. PICK q : /\ Ended(q, "failed", run.skip, run.muted \ {run.pc}, run.val) /\ q.wall = run.wall
               /\ Leaves(run', q) /\ run'.pc \in Following(q, run.pc, "failed") /\ run'.end = run.end
  BY UnaffordableFields
<1>2. run.pc \in Stages /\ tree' = tree /\ "failed" \in Outcomes
  BY DEF TaskUnaffordable, AtTask, Running, Outcomes
<1>3. happened \subseteq happened'
  BY DEF TaskUnaffordable, ledgerEvent
<1>4. Wrought(run.pc, "failed", run.skip, run.val)
  BY <1>2, <1>3, WroughtNothing DEF TreeInv
<1>. QED BY <1>1, <1>2, <1>3, <1>4, WalkEnd

LEMMA ThrowsWalk ==
  ASSUME Shape, Shape', TreeInv, TaskThrows
  PROVE  TreeInv'
<1>1. PICK q : /\ Ended(q, "failed", run.skip, run.muted \ {run.pc}, run.val) /\ q.wall = run.wall
               /\ Leaves(run', q)
               /\ IF run.pc = "setup" THEN run'.pc = "close" /\ run'.end = "error"
                  ELSE run'.pc \in Following(q, run.pc, "failed") /\ run'.end = run.end
  BY ThrowsFields
<1>2. run.pc \in Stages /\ tree' = tree /\ "failed" \in Outcomes
  BY DEF TaskThrows, InTask, Running, Outcomes
<1>3. happened \subseteq happened'
  BY DEF TaskThrows, ledgerEvent
<1>4. Wrought(run.pc, "failed", run.skip, run.val)
  BY <1>2, <1>3, WroughtNothing DEF TreeInv
<1>. QED BY <1>1, <1>2, <1>3, <1>4, WalkEnd

(* A stage that is cut off, or a writer that fails, has not merged.         *)
LEMMA WroughtWithout ==
  ASSUME Shape, Walked, NEW x \in Stages, NEW outcome, NEW v \in Values,
         v = run.val \/ v = [run.val EXCEPT !.merged = "none"],
         tree'.secret = tree.secret, happened \subseteq happened',
         outcome = "failed" \/ x \in Writers
  PROVE  Wrought(x, outcome, run.skip, v)
<1>1. /\ v.review = run.val.review /\ v.build = run.val.build /\ v.integration = run.val.integration
      /\ v.impl = run.val.impl /\ v.preMerge = run.val.preMerge /\ v.cleanup = run.val.cleanup
  BY DEF Shape, RunRecords, Values
<1>2. run.val.review = "yes" => run.val.build = "yes" /\ run.val.integration # "none"
  BY DEF Walked
<1>3. run.val.cleanup = "clear" => tree'.secret = FALSE \/ "git" \in happened'
  BY DEF Walked
<1>. QED BY <1>1, <1>2, <1>3 DEF Wrought, Writers

LEMMA CancelledWalk ==
  ASSUME Shape, Shape', TreeInv, TaskCancelled
  PROVE  TreeInv'
<1>1. PICK q : /\ Ended(q, "cancelled", run.skip, run.muted \ {run.pc}, run.val) /\ q.wall = run.wall
               /\ Leaves(run', q) /\ run'.pc = "close" /\ run'.end = "cancelled"
  BY CancelledFields
<1>2. run.pc \in Stages /\ "failed" \in Outcomes /\ "cancelled" \in Outcomes /\ run.val \in Values
  BY DEF TaskCancelled, InTask, Running, Outcomes, Shape, RunRecords
<1>3. happened \subseteq happened'
  BY DEF TaskCancelled, ledgerEvent
<1>4. tree'.secret = tree.secret
  BY MergedTree DEF TaskCancelled
<1>5. Wrought(run.pc, "failed", run.skip, run.val)
  BY <1>2, <1>3, <1>4, WroughtWithout DEF TreeInv
<1>. QED BY <1>1, <1>2, <1>3, <1>5, WalkEnd

LEMMA WriterWalk ==
  ASSUME Shape, Shape', TreeInv, WriterFails
  PROVE  TreeInv'
<1>. DEFINE row == IF run.aborted THEN "cancelled" ELSE "failed"
<1>. DEFINE muted == IF run.aborted THEN run.muted \ {run.pc} ELSE run.muted \cup {run.pc}
<1>. DEFINE val == IF run.pc = "merge" THEN [run.val EXCEPT !.merged = "none"] ELSE run.val
<1>1. PICK q, last :
           /\ run.pc \in Writers /\ Ended(q, row, run.skip, muted, val) /\ q.wall = run.wall /\ Leaves(run', q)
           /\ IF run.aborted THEN run'.pc = "close" /\ run'.end = "cancelled"
              ELSE run'.pc \in Following(q, run.pc, "ok") /\ run'.end = run.end
  BY WriterFields
<1>2. run.pc \in Stages /\ row \in Outcomes /\ "ok" \in Outcomes
  BY <1>1 DEF Stages, Outcomes
<1>3. happened \subseteq happened'
  BY DEF WriterFails, ledgerEvent
<1>4. tree'.secret = tree.secret
  BY MergedTree DEF WriterFails
<1>5. val \in Values /\ (val = run.val \/ val = [run.val EXCEPT !.merged = "none"])
  <2>1. val \in Values
    BY <1>1 DEF Ended, RunRecords
  <2>. QED BY <2>1
<1>6. ~run.aborted => row = "failed"
  OBVIOUS
<1>. HIDE DEF row, muted, val
<1>7. Wrought(run.pc, "ok", run.skip, val)
  BY <1>1, <1>2, <1>3, <1>4, <1>5, WroughtWithout DEF TreeInv
<1>. QED BY <1>1, <1>2, <1>3, <1>6, <1>7, WalkEnd

LEMMA ReturnsWalk ==
  ASSUME Shape, Shape', TreeInv, TaskReturns
  PROVE  TreeInv'
<1>1. PICK result \in Results(run.val, run.pc), q \in RunRecords :
           /\ Ended(q, "ok", run.skip, run.muted \ {run.pc}, q.val)
           /\ \/ q.val = result.val /\ q.wall = run.wall
              \/ q.val = [result.val EXCEPT !.blocked = TRUE] /\ q.wall = TRUE /\ run.pc = "implementation"
           /\ Leaves(run', q) /\ run'.pc \in Following(q, run.pc, "ok") /\ run'.end = run.end
           /\ tree' = result.tree
           /\ ledgerEvent(result.val.setup, Flushed(run.pc, Event("ok", run.pc)),
                          IF result.git THEN 1 ELSE 0, IF result.git THEN {"git"} ELSE {})
  BY ReturnsFields
<1>2. run.pc \in Stages /\ "ok" \in Outcomes
  BY DEF TaskReturns, InTask, Running, Outcomes
<1>3. happened \subseteq happened' /\ (result.git => "git" \in happened')
  BY <1>1 DEF ledgerEvent
<1>. DEFINE w == result.val
<1>4. Makes(run.pc, w, tree', result.git)
  BY <1>1, <1>2, ResultFacts
<1>5. Wrought(run.pc, "ok", run.skip, w)
  <2>1. run.val.review = "yes" => run.val.build = "yes" /\ run.val.integration # "none"
    BY DEF TreeInv, Walked
  <2>. HIDE DEF w
  <2>. QED BY <1>3, <1>4, <2>1 DEF Makes, Wrought, Trees
<1>6. /\ q.val \in Values /\ q.val.review = w.review /\ q.val.build = w.build /\ q.val.integration = w.integration
      /\ q.val.impl = w.impl /\ q.val.preMerge = w.preMerge /\ q.val.cleanup = w.cleanup /\ q.val.merged = w.merged
      /\ q.wall = run.wall \/ (run.pc = "implementation" /\ q.val.blocked = TRUE)
  <2>1. CASE q.val = w /\ q.wall = run.wall
    BY <1>4, <2>1 DEF Makes
  <2>2. CASE q.val = [w EXCEPT !.blocked = TRUE] /\ run.pc = "implementation"
    <3>. HIDE DEF w
    <3>. QED BY <1>4, <2>2 DEF Makes, Values
  <2>. QED BY <1>1, <2>1, <2>2
<1>7. Wrought(run.pc, "ok", run.skip, q.val)
  <2>. HIDE DEF w
  <2>. QED BY <1>5, <1>6 DEF Wrought
<1>. DEFINE val == q.val
<1>. HIDE DEF w, val
<1>8. /\ Ended(q, "ok", run.skip, run.muted \ {run.pc}, val) /\ Leaves(run', q) /\ Wrought(run.pc, "ok", run.skip, val)
      /\ q.wall = run.wall \/ (run.pc = "implementation" /\ val.blocked = TRUE)
  BY <1>1, <1>6, <1>7 DEF val
<1>9. run'.pc \in Following(q, run.pc, "ok") /\ run'.end = run.end
  BY <1>1
<1>10. happened \subseteq happened'
  BY <1>3
<1>. QED BY <1>2, <1>8, <1>9, <1>10, WalkEnd

(* The other steps.                                                         *)
LEMMA StopWalk ==
  ASSUME Shape, Shape', TreeInv, run.pc \in Stages, tree' = tree, happened \subseteq happened',
         NEW how \in {"cancelled", "error"}, Stop(run, how), how = "error" => run.pc \in {"requirements", "implementation"}
  PROVE  TreeInv'
<1>1. Leaves(run', run) /\ run'.pc = "close" /\ run'.end = how /\ run \in RunRecords /\ run' \in RunRecords
  BY StopFields DEF Shape
<1>2. "close" \notin Stages /\ "ended" \notin Stages
  BY DEF Stages, Writers
<1>3. run.end = "none" /\ run.status = "none" /\ (how = "error" => run.wall = FALSE)
  BY <1>1, <1>2 DEF TreeInv, Walked, RunRecords
<1>4. Walked'
  BY <1>1, <1>2, <1>3 DEF TreeInv, Walked, Leaves
<1>5. Closing'
  <2>1. ASSUME deriveRunStatus(run') = "success" PROVE FALSE
    <3>1. run' \in RunRecords /\ deriveRunStatus(run') = "success"
      BY <1>1, <2>1
    <3>2. SaysSuccess(run')
      BY ONLY <3>1, SuccessFacts, Zenon
    <3>. QED BY <1>1, <1>3, <3>2 DEF Leaves, SaysSuccess
  <2>. QED BY <2>1 DEF Closing
<1>6. SuccessIsEarned'
  BY <1>1, <1>3 DEF Leaves, SuccessIsEarned
<1>. QED BY <1>4, <1>5, <1>6 DEF TreeInv

LEMMA QuietWalk ==
  ASSUME Shape, Shape', TreeInv, run.pc \in Stages, tree' = tree, happened \subseteq happened',
         run'.pc = run.pc, run'.end = run.end, run'.val = run.val, run'.rows = run.rows, run'.skip = run.skip,
         run'.wall = run.wall, run'.status = run.status
  PROVE  TreeInv'
<1>1. "close" \notin Stages /\ "ended" \notin Stages
  BY DEF Stages, Writers
<1>2. Walked'
  BY <1>1 DEF TreeInv, Walked
<1>3. Closing' /\ SuccessIsEarned'
  BY <1>1 DEF TreeInv, Walked, Closing, SuccessIsEarned
<1>. QED BY <1>2, <1>3 DEF TreeInv

LEMMA NoRunWalk ==
  ASSUME Shape, Shape', NEW by, NEW to \in {"setup", "dead"}, run' = [NoRun EXCEPT !.by = by, !.pc = to]
  PROVE  TreeInv'
<1>1. /\ run'.pc = to /\ run'.end = "none" /\ run'.status = "none" /\ run'.wall = FALSE
      /\ run'.val = NoValues /\ \A x \in Stages : run'.rows[x] = "none"
  BY DEF NoRun
<1>2. NoValues.review = "none" /\ NoValues.cleanup = "none"
  BY DEF NoValues
<1>3. Walked'
  BY <1>1, <1>2 DEF Walked
<1>4. Closing' /\ SuccessIsEarned'
  BY <1>1 DEF Closing, SuccessIsEarned
<1>. QED BY <1>3, <1>4 DEF TreeInv

LEMMA CloseWalk ==
  ASSUME Shape, Shape', TreeInv, ClosePass
  PROVE  TreeInv'
<1>1. run.pc = "close" /\ run' = [run EXCEPT !.pc = "ended", !.status = deriveRunStatus(run)] /\ tree' = tree
      /\ happened \subseteq happened'
  BY DEF ClosePass, ledgerEvent
<1>2. /\ run'.pc = "ended" /\ run'.end = run.end /\ run'.val = run.val /\ run'.rows = run.rows /\ run'.skip = run.skip
      /\ run'.wall = run.wall /\ run'.status = deriveRunStatus(run)
  BY <1>1 DEF Shape, RunRecords
<1>3. "ended" \notin Stages
  BY DEF Stages, Writers
<1>4. Walked'
  BY <1>1, <1>2, <1>3 DEF TreeInv, Walked
<1>5. SuccessIsEarned'
  BY <1>1, <1>2 DEF TreeInv, Closing, EarnedSuccess, Excused, SuccessIsEarned
<1>6. Closing'
  BY <1>2 DEF Closing
<1>. QED BY <1>4, <1>5, <1>6 DEF TreeInv

LEMMA TreeInit == RunTreeInit => TreeInv
<1>. SUFFICES ASSUME RunTreeInit PROVE TreeInv
  OBVIOUS
<1>1. /\ run.pc = "none" /\ run.status = "none" /\ run.wall = FALSE
      /\ run.val = NoValues /\ \A x \in Stages : run.rows[x] = "none"
  BY DEF RunTreeInit, NoRun
<1>2. NoValues.review = "none" /\ NoValues.cleanup = "none" /\ "none" \notin Stages
  BY DEF NoValues, Stages, Writers
<1>. QED BY <1>1, <1>2 DEF TreeInv, Walked, Closing, SuccessIsEarned

LEMMA TreeNext ==
  Shape /\ Shape' /\ TreeInv /\ [RunTreeNext]_treeVars => TreeInv'
<1>. SUFFICES ASSUME Shape, Shape', TreeInv, [RunTreeNext]_treeVars PROVE TreeInv'
  OBVIOUS
<1>1. CASE UNCHANGED treeVars
  <2>1. run' = run /\ tree' = tree /\ happened' = happened
    BY <1>1 DEF treeVars
  <2>. QED BY <2>1 DEF TreeInv, Walked, Closing, EarnedSuccess, Excused, SuccessIsEarned
<1>2. CASE \E s \in Sessions : StartPass(s)
  BY <1>2, NoRunWalk DEF StartPass
<1>3. CASE KillPass
  BY <1>3, NoRunWalk DEF KillPass
<1>4. CASE ClosePass
  BY <1>4, CloseWalk
<1>5. CASE AbortPass
  <2>1. /\ run'.pc = run.pc /\ run'.end = run.end /\ run'.val = run.val /\ run'.rows = run.rows /\ run'.skip = run.skip
        /\ run'.wall = run.wall /\ run'.status = run.status
    BY <1>5 DEF AbortPass, Shape, RunRecords
  <2>. QED BY <1>5, <2>1, QuietWalk DEF AbortPass, Running
<1>6. CASE TaskBegins
  <2>1. run' = [run EXCEPT !.mid = TRUE] /\ run.pc \in Stages /\ tree' = tree /\ happened \subseteq happened'
    BY <1>6 DEF TaskBegins, AtTask, Running, ledgerEvent
  <2>2. /\ run'.pc = run.pc /\ run'.end = run.end /\ run'.val = run.val /\ run'.rows = run.rows /\ run'.skip = run.skip
        /\ run'.wall = run.wall /\ run'.status = run.status
    BY <2>1 DEF Shape, RunRecords
  <2>. QED BY <2>1, <2>2, QuietWalk
<1>7. CASE SequenceAborts
  BY <1>7, StopWalk DEF SequenceAborts, AtTask, Running
<1>8. CASE NodeAborts
  BY <1>8, StopWalk DEF NodeAborts, AtTask, Running
<1>9. CASE TaskAborts
  BY <1>9, StopWalk DEF TaskAborts, InTask, Running
<1>10. CASE TaskSkipped \/ TaskUnaffordable \/ TaskReturns \/ WriterFails \/ TaskThrows \/ TaskCancelled
  BY <1>10, SkippedWalk, UnaffordableWalk, ReturnsWalk, WriterWalk, ThrowsWalk, CancelledWalk
<1>. QED BY <1>1, <1>2, <1>3, <1>4, <1>5, <1>6, <1>7, <1>8, <1>9, <1>10 DEF RunTreeNext

(* A run that says success has merged its work and no secret, for every     *)
(* number of sessions and of things going wrong.                            *)
THEOREM Success == RunTreeSpec => []SuccessIsEarned
<1>1. TreeInv => SuccessIsEarned
  BY DEF TreeInv
<1>2. Shape /\ LedgerInv /\ TreeInv /\ [RunTreeNext]_treeVars => (Shape /\ LedgerInv /\ TreeInv)'
  BY LedgerNext, TreeNext
<1>. QED BY <1>1, <1>2, LedgerInit, TreeInit, PTL DEF RunTreeSpec

(* The types of the run's state.                                            *)
THEOREM RunTreeTypeCorrect == RunTreeSpec => []RunTreeTypeOK
<1>1. Shape => RunTreeTypeOK
  <2>. SUFFICES ASSUME Shape PROVE RunTreeTypeOK
    OBVIOUS
  <2>1. run \in RunRecords /\ ledger \in Ledgers /\ known \in [Sessions -> Numbers] /\ turns \in 0 .. MaxTurns /\ happened \in SUBSET Excuses
    BY DEF Shape
  <2>2. /\ run.pc \in Stages \cup {"none", "close", "ended", "dead"} /\ run.end \in {"none", "cancelled", "error"}
        /\ run.rows \in [Stages -> Outcomes \cup {"none"}] /\ run.muted \subseteq Stages /\ run.val \in Values
        /\ run.status \in {"none", "success", "partial", "failed", "replan"}
    BY ONLY <2>1 DEF RunRecords
  <2>3. /\ run.val.impl \in {"none", "partial", "green"} /\ run.val.cleanup \in {"none", "clear", "blocked"}
        /\ {run.val.review, run.val.build, run.val.integration, run.val.preMerge, run.val.merged} \subseteq Tri
    BY ONLY <2>2 DEF Values
  <2>4. /\ ledger.block \in {"none", "open", "closed"} /\ ledger.open \subseteq Stages
        /\ ledger.ended \in [Stages -> Outcomes \cup {"none"}]
    BY ONLY <2>1 DEF Ledgers
  <2>5. known \in [Sessions -> {"none", "current", "stale"}]
        /\ happened \subseteq {"session", "kill", "lost", "fatal", "agent error", "git"}
    BY ONLY <2>1 DEF Numbers, Excuses
  <2>. QED BY ONLY <2>1, <2>2, <2>3, <2>4, <2>5, Zenon DEF RunTreeTypeOK
<1>. QED BY <1>1, LedgerInit, LedgerNext, PTL DEF RunTreeSpec

-----------------------------------------------------------------------------
(***************************************************************************)
(* What runs leave for the evaluation of later ones.  While no two windows *)
(* over the state file overlapped and none was lost, the registry in it    *)
(* holds the runs of every draft ever written, but for those of the        *)
(* process that is drafting, and that process drafts a cluster once.       *)
(***************************************************************************)
Phases == {"idle", "append", "load", "read", "wave", "draft", "metrics", "done", "dead"}

RowInv ==
  /\ rows \in Seq(EvalRow) /\ scored \in [Runs -> EvalRow]
  /\ loadedRows \in [Runs -> Seq(EvalRow)] /\ clock \in Nat

(* The fields of the state file, whatever they hold.                       *)
StateShape(s) ==
  s = [seen |-> s.seen, sat |-> s.sat, applied |-> s.applied, reg |-> s.reg, torn |-> s.torn]

CopyInv ==
  /\ DOMAIN loaded = Runs /\ loaded = [r \in Runs |-> loaded[r]]
  /\ \A r \in Runs : StateShape(loaded[r]) /\ ~loaded[r].torn
  /\ StateShape(maint) /\ ~maint.torn /\ StateShape(state)

DraftInv ==
  /\ phase \in [Runs -> Phases] /\ todo \in [Runs -> SUBSET Keys] /\ made \in [Runs -> SUBSET Keys]
  /\ \A r \in Runs : phase[r] \notin {"draft", "metrics"} => made[r] = {}

(* One window at a time, over a copy of what is in the file.               *)
Windows ==
  /\ ~state.torn
  /\ \A r, s \in InWindow : r = s
  /\ \A r \in InWindow : MaintIdle /\ loaded[r].reg = state.reg
  /\ ~MaintIdle => maint.reg = state.reg

(* What is still to be drafted was not yet, and has the new runs it needs. *)
Chosen ==
  \A r \in Runs : phase[r] = "draft" =>
    \A k \in todo[r] : k \notin made[r] /\ Earned(Evidence(loadedRows[r], k), loaded[r].reg, k)

Covered ==
  \A a \in log :
    \/ a.key \in DOMAIN state.reg /\ a.runs \subseteq state.reg[a.key]
    \/ \E r \in Runs : phase[r] = "draft" /\ a.key \in made[r] /\ a.runs = Evidence(loadedRows[r], a.key)

Coherent == (orderly => Windows /\ Chosen /\ Covered) /\ RedraftIsEarned

FlywheelInv == RowInv /\ CopyInv /\ DraftInv /\ Coherent

LEMMA FiniteEvidence ==
  ASSUME NEW rs \in Seq(EvalRow), NEW k
  PROVE  IsFiniteSet(Evidence(rs, k))
<1>1. DOMAIN rs = 1 .. Len(rs) /\ Len(rs) \in Nat
  OBVIOUS
<1>2. ASSUME NEW some \in SUBSET DOMAIN rs
      PROVE  IsFiniteSet({rs[i].run : i \in some})
  <2>1. IsFiniteSet(some)
    <3>1. IsFiniteSet(DOMAIN rs)
      <4>1. PICK n : n \in Nat /\ DOMAIN rs = 1 .. n
        BY <1>1
      <4>. QED BY <4>1, FS_Interval
    <3>. QED BY <3>1, FS_Subset
  <2>. DEFINE runsOf == {rs[i].run : i \in some}
              f == [i \in some |-> rs[i].run]
  <2>2. f \in Surjection(some, runsOf)
    BY DEF Surjection
  <2>. QED BY <2>1, <2>2, FS_Surjection
<1>3. {j \in DOMAIN rs : rs[j].band = "3 sigma"} \subseteq DOMAIN rs
      /\ {j \in DOMAIN rs : rs[j].final = "fail"} \subseteq DOMAIN rs
  OBVIOUS
<1>4. /\ IsFiniteSet({rs[i].run : i \in {j \in DOMAIN rs : rs[j].band = "3 sigma"}})
      /\ IsFiniteSet({rs[i].run : i \in {j \in DOMAIN rs : rs[j].final = "fail"}})
  BY <1>2, <1>3
<1>. QED BY <1>4, FS_EmptySet DEF Evidence

(* Runs a registered cluster did not rest on are runs an earlier draft of  *)
(* it did not rest on.                                                     *)
LEMMA NewRuns ==
  ASSUME NEW ev, IsFiniteSet(ev), NEW rested, Cardinality(ev \ rested) >= PROPOSAL_NEW_RUNS,
         NEW old, old \subseteq rested
  PROVE  Cardinality(ev \ old) >= PROPOSAL_NEW_RUNS
<1>1. ev \ rested \subseteq ev \ old /\ IsFiniteSet(ev \ old)
  BY FS_Subset
<1>2. /\ Cardinality(ev \ rested) <= Cardinality(ev \ old)
      /\ Cardinality(ev \ rested) \in Nat /\ Cardinality(ev \ old) \in Nat
  BY <1>1, FS_Subset, FS_CardinalityType
<1>. QED BY <1>2, FlywheelAssumption

LEMMA StateRead ==
  ASSUME CopyInv, NEW v
  PROVE  /\ StateShape(readFlywheelState(v)) /\ ~readFlywheelState(v).torn
         /\ ~state.torn => readFlywheelState(v) = state
<1>1. CASE state.torn
  BY <1>1 DEF readFlywheelState, defaultFlywheelState, StateShape
<1>2. CASE ~state.torn
  BY <1>2 DEF readFlywheelState, CopyInv
<1>. QED BY <1>1, <1>2

-----------------------------------------------------------------------------
(* The records.                                                            *)

LEMMA RunNumbers == \A r \in Runs : r \in Nat
<1>1. NumRuns \in Nat
  BY FlywheelAssumption
<1>. QED BY <1>1 DEF Runs

LEMMA Ticks == \A n \in Nat : n + 1 \in Nat
  OBVIOUS

LEMMA NextRows == RowInv /\ [FlywheelNext]_flywheelVars => RowInv'
<1>. SUFFICES ASSUME RowInv, [FlywheelNext]_flywheelVars PROVE RowInv'
  OBVIOUS
<1>. USE DEF RowInv
<1>1. CASE UNCHANGED flywheelVars
  BY <1>1 DEF flywheelVars, files, procs
<1>2. ASSUME NEW r \in Runs, Observe(r) PROVE RowInv'
  <2>1. /\ clock' = clock + 1 /\ UNCHANGED <<rows, loadedRows>>
        /\ \E v \in {"usual", "odd"}, verdict \in Answers :
             scored' = [scored EXCEPT ![r] = [Trajectory(r, v) EXCEPT !.final = verdict]]
    BY <1>2 DEF Observe
  <2>2. PICK v \in {"usual", "odd"}, verdict \in Answers :
          scored' = [scored EXCEPT ![r] = [Trajectory(r, v) EXCEPT !.final = verdict]]
    BY <2>1
  <2>3. PICK band \in {"no-band", "in-band", "3 sigma"} : band = classifyBand(v, readGlobalMetricsLedger)
    BY DEF classifyBand
  <2>4. r \in Nat /\ clock + 1 \in Nat /\ verdict \in {"absent", "pass", "fail", "degraded"}
    <3>2. Answers \subseteq {"fail", "absent", "degraded"}
      BY FlywheelAssumption
    <3>3. r \in Nat
      BY RunNumbers
    <3>4. clock + 1 \in Nat
      BY Ticks
    <3>5. verdict \in {"absent", "pass", "fail", "degraded"}
      BY <3>2
    <3>. QED BY <3>3, <3>4, <3>5
  <2>5. PICK row : row = [Trajectory(r, v) EXCEPT !.final = verdict]
    OBVIOUS
  <2>6. row = [run |-> r, ts |-> clock + 1, value |-> v, band |-> band, final |-> verdict]
    BY <2>3, <2>5 DEF Trajectory
  <2>7. row \in EvalRow
    BY <2>4, <2>6 DEF EvalRow
  <2>. QED BY <2>1, <2>2, <2>4, <2>5, <2>7
<1>3. ASSUME NEW r \in Runs, AppendRows(r) PROVE RowInv'
  <2>1. scored[r] \in EvalRow
    OBVIOUS
  <2>2. rows' = rows \/ rows' = Append(rows, scored[r])
    BY <1>3 DEF AppendRows
  <2>3. UNCHANGED <<scored, loadedRows, clock>>
    BY <1>3 DEF AppendRows
  <2>. QED BY <2>1, <2>2, <2>3
<1>4. ASSUME NEW r \in Runs, LoadRows(r) PROVE RowInv'
  BY <1>4 DEF LoadRows, files
<1>5. ASSUME NEW r \in Runs, LoadState(r) \/ Wave(r) \/ Draft(r) \/ Save(r) PROVE RowInv'
  BY <1>5 DEF LoadState, Wave, Draft, Save, files
<1>6. NoScore \in EvalRow /\ <<>> \in Seq(EvalRow)
  <2>1. NoScore \in EvalRow
    BY DEF NoScore, EvalRow
  <2>. QED BY <2>1
<1>7. ASSUME NEW r \in Runs, Close(r) PROVE RowInv'
  BY <1>6, <1>7 DEF Close, Forget
<1>8. ASSUME NEW r \in Runs, Kill(r) PROVE RowInv'
  <2>1. PICK row : row = [scored[r] EXCEPT !.final = "absent"]
    OBVIOUS
  <2>2. row \in EvalRow
    BY <2>1 DEF EvalRow
  <2>3. rows' = rows \/ rows' = Append(rows, row)
    BY <1>8, <2>1 DEF Kill
  <2>4. UNCHANGED clock /\ Forget(r)
    BY <1>8 DEF Kill
  <2>5. rows' \in Seq(EvalRow)
    <3>1. CASE rows' = rows
      BY <3>1
    <3>2. CASE rows' = Append(rows, row)
      <4>1. Append(rows, row) \in Seq(EvalRow)
        BY <2>2
      <4>. QED BY <3>2, <4>1
    <3>. QED BY <2>3, <3>1, <3>2
  <2>. QED BY <1>6, <2>4, <2>5 DEF Forget
<1>9. CASE NoteRead \/ NoteWrite \/ Move \/ Review
  BY <1>9 DEF NoteRead, NoteWrite, Move, Review, files, procs
<1>. QED BY <1>1, <1>2, <1>3, <1>4, <1>5, <1>7, <1>8, <1>9 DEF FlywheelNext

LEMMA NextCopies == CopyInv /\ [FlywheelNext]_flywheelVars => CopyInv'
<1>. SUFFICES ASSUME CopyInv, [FlywheelNext]_flywheelVars PROVE CopyInv'
  OBVIOUS
<1>1. \A v : StateShape(defaultFlywheelState(v)) /\ ~defaultFlywheelState(v).torn /\ StateShape(Torn)
  BY DEF StateShape, defaultFlywheelState, Torn
<1>2. ASSUME UNCHANGED <<loaded, maint, state>> PROVE CopyInv'
  BY <1>2 DEF CopyInv
<1>3. ASSUME NEW r \in Runs, Forget(r), UNCHANGED maint, state' = state \/ state' = Torn PROVE CopyInv'
  <2>1. loaded' = [loaded EXCEPT ![r] = defaultFlywheelState(Version[1])]
    BY <1>3 DEF Forget
  <2>2. StateShape(state')
    BY <1>1, <1>3 DEF CopyInv
  <2>3. \A s \in Runs : StateShape(loaded'[s]) /\ ~loaded'[s].torn
    BY <1>1, <2>1 DEF CopyInv
  <2>4. DOMAIN loaded' = Runs /\ loaded' = [s \in Runs |-> loaded'[s]]
    BY <2>1 DEF CopyInv
  <2>. QED BY <1>3, <2>2, <2>3, <2>4 DEF CopyInv
<1>4. ASSUME NEW r \in Runs, Observe(r) \/ AppendRows(r) \/ LoadRows(r) \/ Draft(r) PROVE CopyInv'
  BY <1>2, <1>4 DEF Observe, AppendRows, LoadRows, Draft, files
<1>5. ASSUME NEW r \in Runs, Close(r) \/ Kill(r) PROVE CopyInv'
  BY <1>3, <1>5 DEF Close, Kill
<1>6. ASSUME NEW r \in Runs, LoadState(r) \/ Wave(r) PROVE CopyInv'
  <2>1. PICK copy : /\ loaded' = [loaded EXCEPT ![r] = copy]
                    /\ StateShape(copy) /\ ~copy.torn
    <3>1. CASE LoadState(r)
      BY <3>1, StateRead DEF LoadState
    <3>2. CASE Wave(r)
      <4>1. PICK s, sat : /\ s = loaded[r] \/ s = [loaded[r] EXCEPT !.seen = Version[r]]
                          /\ loaded' = [loaded EXCEPT ![r] = [s EXCEPT !.sat = sat]]
        BY <3>2 DEF Wave, Unflagged
      <4>2. StateShape(loaded[r]) /\ ~loaded[r].torn
        BY DEF CopyInv
      <4>3. StateShape(s) /\ ~s.torn
        BY <4>1, <4>2 DEF StateShape
      <4>4. StateShape([s EXCEPT !.sat = sat]) /\ ~[s EXCEPT !.sat = sat].torn
        BY <4>3 DEF StateShape
      <4>. QED BY <4>1, <4>4
    <3>. QED BY <1>6, <3>1, <3>2
  <2>2. UNCHANGED <<maint, state>>
    BY <1>6 DEF LoadState, Wave, files
  <2>. QED BY <2>1, <2>2 DEF CopyInv
<1>7. ASSUME NEW r \in Runs, Save(r) PROVE CopyInv'
  <2>1. UNCHANGED <<loaded, maint>> /\ (state' = state \/ state' = [loaded[r] EXCEPT !.reg = Registered(r)])
    BY <1>7 DEF Save
  <2>2. StateShape([loaded[r] EXCEPT !.reg = Registered(r)])
    BY DEF CopyInv, StateShape
  <2>. QED BY <2>1, <2>2 DEF CopyInv
<1>8. CASE NoteRead
  <2>1. PICK v : maint' = [readFlywheelState(v) EXCEPT !.applied = @ + 1]
    BY <1>8 DEF NoteRead
  <2>2. PICK s : s = readFlywheelState(v)
    OBVIOUS
  <2>3. StateShape(s) /\ ~s.torn
    BY <2>2, StateRead
  <2>4. StateShape(maint') /\ ~maint'.torn
    BY <2>1, <2>2, <2>3 DEF StateShape
  <2>. QED BY <1>8, <2>4 DEF NoteRead, files, CopyInv
<1>9. CASE NoteWrite
  BY <1>1, <1>9 DEF NoteWrite, CopyInv
<1>10. CASE Move \/ Review \/ UNCHANGED flywheelVars
  BY <1>2, <1>10 DEF Move, Review, procs, files, flywheelVars
<1>. QED BY <1>4, <1>5, <1>6, <1>7, <1>8, <1>9, <1>10 DEF FlywheelNext

LEMMA NextDrafts == DraftInv /\ [FlywheelNext]_flywheelVars => DraftInv'
<1>. SUFFICES ASSUME DraftInv, [FlywheelNext]_flywheelVars PROVE DraftInv'
  OBVIOUS
<1>. USE DEF DraftInv, Phases
<1>1. ASSUME UNCHANGED <<phase, todo, made>> PROVE DraftInv'
  BY <1>1
<1>2. ASSUME NEW r \in Runs, NEW to \in Phases, MoveTo(r, to), UNCHANGED <<todo, made>>,
             phase[r] \notin {"draft", "metrics"} PROVE DraftInv'
  BY <1>2 DEF MoveTo
<1>3. ASSUME NEW r \in Runs, Observe(r) \/ AppendRows(r) \/ LoadRows(r) \/ LoadState(r) PROVE DraftInv'
  BY <1>2, <1>3 DEF Observe, AppendRows, LoadRows, LoadState
<1>4. ASSUME NEW r \in Runs, Wave(r) PROVE DraftInv'
  <2>1. MoveTo(r, "draft") /\ UNCHANGED made /\ Gate(r)
    BY <1>4 DEF Wave
  <2>2. PICK keys \in SUBSET Keys : todo' = [todo EXCEPT ![r] = keys]
    BY <2>1 DEF Gate
  <2>. QED BY <2>1, <2>2 DEF MoveTo
<1>5. ASSUME NEW r \in Runs, Draft(r) PROVE DraftInv'
  <2>1. PICK k \in todo[r] : /\ todo' = [todo EXCEPT ![r] = @ \ {k}]
                             /\ made' = [made EXCEPT ![r] = @ \cup {k}] \/ made' = made
    BY <1>5 DEF Draft
  <2>2. UNCHANGED phase /\ phase[r] = "draft"
    BY <1>5 DEF Draft
  <2>. QED BY <2>1, <2>2
<1>6. ASSUME NEW r \in Runs, Save(r) PROVE DraftInv'
  BY <1>6 DEF Save, MoveTo
<1>7. ASSUME NEW r \in Runs, Close(r) \/ Kill(r) PROVE DraftInv'
  <2>1. Forget(r) /\ (MoveTo(r, "done") \/ MoveTo(r, "dead"))
    BY <1>7 DEF Close, Kill
  <2>. QED BY <2>1 DEF Forget, MoveTo
<1>8. CASE NoteRead \/ NoteWrite \/ Move \/ Review \/ UNCHANGED flywheelVars
  BY <1>1, <1>8 DEF NoteRead, NoteWrite, Move, Review, procs, flywheelVars
<1>. QED BY <1>3, <1>4, <1>5, <1>6, <1>7, <1>8 DEF FlywheelNext

-----------------------------------------------------------------------------
(* The registry and the drafts.                                            *)

(* A step outside the windows, which leaves the file and its copies alone. *)
LEMMA AsideKeeps ==
  ASSUME Coherent, UNCHANGED <<state, maint, log>>, orderly' => orderly,
         \A r \in Runs :
           \/ phase[r] \notin {"wave", "draft"} /\ phase'[r] \notin {"wave", "draft"}
           \/ /\ phase'[r] = phase[r] /\ loaded'[r] = loaded[r] /\ loadedRows'[r] = loadedRows[r]
              /\ todo'[r] = todo[r] /\ made'[r] = made[r]
  PROVE  Coherent'
<1>1. RedraftIsEarned'
  BY DEF Coherent, RedraftIsEarned
<1>. SUFFICES ASSUME orderly' PROVE Windows' /\ Chosen' /\ Covered'
  BY <1>1 DEF Coherent
<1>2. Windows /\ Chosen /\ Covered
  BY DEF Coherent
<1>4. InWindow' = InWindow /\ \A r \in InWindow : loaded'[r] = loaded[r]
  BY DEF InWindow
<1>5. Windows'
  BY <1>2, <1>4 DEF Windows, MaintIdle
<1>6. Chosen'
  <2>1. ASSUME NEW r \in Runs, phase'[r] = "draft", NEW k \in todo'[r]
        PROVE  k \notin made'[r] /\ Earned(Evidence(loadedRows'[r], k), loaded'[r].reg, k)
    <3>1. /\ phase[r] = "draft" /\ loaded'[r] = loaded[r] /\ todo'[r] = todo[r] /\ made'[r] = made[r]
          /\ loadedRows'[r] = loadedRows[r]
      BY <2>1
    <3>2. k \notin made[r] /\ Earned(Evidence(loadedRows[r], k), loaded[r].reg, k)
      BY <1>2, <2>1, <3>1 DEF Chosen
    <3>. QED BY <3>1, <3>2
  <2>. QED BY <2>1 DEF Chosen
<1>7. Covered'
  <2>1. ASSUME NEW r \in Runs, phase[r] = "draft"
        PROVE  phase'[r] = "draft" /\ made'[r] = made[r] /\ loadedRows'[r] = loadedRows[r]
    BY <2>1
  <2>. QED BY <1>2, <2>1 DEF Covered
<1>. QED BY <1>5, <1>6, <1>7

LEMMA OrderlyStays == [FlywheelNext]_flywheelVars => (orderly' => orderly)
<1>. SUFFICES ASSUME [FlywheelNext]_flywheelVars PROVE orderly' => orderly
  OBVIOUS
<1>1. ASSUME NEW r \in Runs,
             Observe(r) \/ AppendRows(r) \/ LoadRows(r) \/ LoadState(r) \/ Wave(r) PROVE orderly' => orderly
  BY <1>1 DEF Observe, AppendRows, LoadRows, LoadState, Wave, history
<1>2. ASSUME NEW r \in Runs, Draft(r) \/ Save(r) \/ Close(r) \/ Kill(r) PROVE orderly' => orderly
  BY <1>2 DEF Draft, Save, Close, Kill, history
<1>3. CASE NoteRead \/ NoteWrite \/ Move \/ Review \/ UNCHANGED flywheelVars
  BY <1>3 DEF NoteRead, NoteWrite, Move, Review, history, flywheelVars
<1>. QED BY <1>1, <1>2, <1>3 DEF FlywheelNext

(* Moving a process outside the windows.                                   *)
LEMMA AsideMoves ==
  ASSUME FlywheelInv, NEW r \in Runs, NEW to, MoveTo(r, to), to \notin {"wave", "draft"},
         phase[r] \notin {"wave", "draft"}, UNCHANGED <<state, maint, log>>, orderly' => orderly,
         \A s \in Runs : s # r =>
           /\ loaded'[s] = loaded[s] /\ loadedRows'[s] = loadedRows[s]
           /\ todo'[s] = todo[s] /\ made'[s] = made[s]
  PROVE  Coherent'
<1>1. \A s \in Runs : phase'[s] = IF s = r THEN to ELSE phase[s]
  BY DEF MoveTo, FlywheelInv, DraftInv
<1>. QED BY <1>1, AsideKeeps DEF FlywheelInv

(* The locals of the others are their own.                                 *)
LEMMA ForgetsOwn ==
  ASSUME FlywheelInv, NEW r \in Runs, Forget(r)
  PROVE  \A s \in Runs : s # r =>
           /\ loaded'[s] = loaded[s] /\ loadedRows'[s] = loadedRows[s]
           /\ todo'[s] = todo[s] /\ made'[s] = made[s]
BY DEF Forget, FlywheelInv, RowInv, CopyInv, DraftInv

LEMMA ReadKeeps == ASSUME FlywheelInv, NEW r \in Runs, LoadState(r) PROVE Coherent'
<1>1. /\ phase[r] = "read" /\ MoveTo(r, "wave") /\ orderly' = (orderly /\ InWindow = {} /\ MaintIdle)
      /\ loaded' = [loaded EXCEPT ![r] = readFlywheelState(Version[r])]
      /\ UNCHANGED <<state, maint, log, loadedRows, todo, made>>
  BY DEF LoadState, files
<1>2. RedraftIsEarned'
  BY <1>1 DEF FlywheelInv, Coherent, RedraftIsEarned
<1>. SUFFICES ASSUME orderly' PROVE Windows' /\ Chosen' /\ Covered'
  BY <1>2 DEF Coherent
<1>3. Windows /\ Chosen /\ Covered /\ InWindow = {} /\ MaintIdle
  BY <1>1 DEF FlywheelInv, Coherent
<1>4. \A s \in Runs : phase'[s] = IF s = r THEN "wave" ELSE phase[s]
  BY <1>1 DEF MoveTo, FlywheelInv, DraftInv
<1>5. InWindow' = {r} /\ \A s \in Runs : phase[s] # "draft" /\ phase'[s] # "draft"
  BY <1>3, <1>4 DEF InWindow
<1>6. loaded'[r] = state
  BY <1>1, <1>3, StateRead DEF Windows, FlywheelInv, CopyInv
<1>7. Windows'
  BY <1>1, <1>3, <1>5, <1>6 DEF Windows, MaintIdle
<1>8. Chosen' /\ Covered'
  BY <1>1, <1>3, <1>5 DEF Chosen, Covered
<1>. QED BY <1>7, <1>8

LEMMA WaveKeeps == ASSUME FlywheelInv, NEW r \in Runs, Wave(r) PROVE Coherent'
<1>1. /\ phase[r] = "wave" /\ MoveTo(r, "draft") /\ Gate(r)
      /\ UNCHANGED <<state, maint, log, loadedRows, made, orderly>>
  BY DEF Wave
<1>2. PICK copy : loaded' = [loaded EXCEPT ![r] = copy] /\ copy.reg = loaded[r].reg
  <2>1. PICK s, sat : /\ s = loaded[r] \/ s = [loaded[r] EXCEPT !.seen = Version[r]]
                      /\ loaded' = [loaded EXCEPT ![r] = [s EXCEPT !.sat = sat]]
    BY DEF Wave, Unflagged
  <2>2. StateShape(loaded[r])
    BY DEF FlywheelInv, CopyInv
  <2>3. StateShape(s) /\ s.reg = loaded[r].reg
    BY <2>1, <2>2 DEF StateShape
  <2>4. [s EXCEPT !.sat = sat].reg = s.reg
    BY <2>3 DEF StateShape
  <2>. QED BY <2>1, <2>3, <2>4
<1>3. RedraftIsEarned'
  BY <1>1 DEF FlywheelInv, Coherent, RedraftIsEarned
<1>. SUFFICES ASSUME orderly' PROVE Windows' /\ Chosen' /\ Covered'
  BY <1>3 DEF Coherent
<1>4. Windows /\ Chosen /\ Covered
  BY <1>1 DEF FlywheelInv, Coherent
<1>5. \A s \in Runs : phase'[s] = IF s = r THEN "draft" ELSE phase[s]
  BY <1>1 DEF MoveTo, FlywheelInv, DraftInv
<1>6. InWindow' = InWindow /\ \A s \in InWindow : s = r
  BY <1>1, <1>4, <1>5 DEF InWindow, Windows
<1>7. loaded'[r].reg = loaded[r].reg
  BY <1>2 DEF FlywheelInv, CopyInv
<1>8. Windows'
  BY <1>1, <1>4, <1>6, <1>7 DEF Windows, MaintIdle
<1>9. Chosen'
  <2>1. \A s \in Runs : phase'[s] = "draft" => s = r
    BY <1>6 DEF InWindow
  <2>2. made'[r] = {}
    BY <1>1 DEF FlywheelInv, DraftInv
  <2>3. PICK keys : /\ todo' = [todo EXCEPT ![r] = keys]
                    /\ \A k \in keys : Qualifies(loadedRows[r], loaded[r].reg, k)
    <3>. DEFINE fit == {k \in Keys : Qualifies(loadedRows[r], loaded[r].reg, k)}
                keys == IF GatePassed(own[r], loadedRows[r]) THEN fit ELSE {}
    <3>1. todo' = [todo EXCEPT ![r] = keys]
      BY <1>1, Zenon DEF Gate
    <3>2. \A k \in keys : Qualifies(loadedRows[r], loaded[r].reg, k)
      OBVIOUS
    <3>. HIDE DEF keys
    <3>. QED BY <3>1, <3>2
  <2>4. todo'[r] = keys
    BY <2>3 DEF FlywheelInv, DraftInv
  <2>5. \A k \in todo'[r] : Earned(Evidence(loadedRows'[r], k), loaded'[r].reg, k)
    BY <1>1, <1>7, <2>3, <2>4 DEF Qualifies
  <2>. QED BY <2>1, <2>2, <2>5 DEF Chosen
<1>10. Covered'
  <2>1. \A s \in Runs : phase[s] # "draft"
    BY <1>1, <1>6 DEF InWindow
  <2>. QED BY <1>1, <1>4, <2>1 DEF Covered
<1>. QED BY <1>8, <1>9, <1>10

(* A draft rests on runs that no earlier draft of its cluster rests on.    *)
LEMMA DraftKeeps == ASSUME FlywheelInv, NEW r \in Runs, Draft(r) PROVE Coherent'
<1>1. phase[r] = "draft" /\ UNCHANGED <<phase, loaded, loadedRows, state, maint, orderly>>
  BY DEF Draft
<1>2. PICK k, ev :
        /\ k \in todo[r]
        /\ ev = Evidence(loadedRows[r], k) /\ todo' = [todo EXCEPT ![r] = @ \ {k}]
        /\ \/ /\ made' = [made EXCEPT ![r] = @ \cup {k}]
              /\ log' = log \cup {[key |-> k, runs |-> ev, by |-> r, live |-> own[r]]}
           \/ UNCHANGED <<made, log>>
  BY DEF Draft
<1>3. PICK d : d = [key |-> k, runs |-> ev, by |-> r, live |-> own[r]]
  OBVIOUS
<1>4. d.key = k /\ d.runs = ev
  BY <1>3
<1>. SUFFICES ASSUME orderly' PROVE Windows' /\ Chosen' /\ Covered' /\ RedraftIsEarned'
  BY DEF Coherent, RedraftIsEarned
<1>5. Windows /\ Chosen /\ Covered /\ RedraftIsEarned
  BY <1>1 DEF FlywheelInv, Coherent
<1>6. InWindow' = InWindow /\ r \in InWindow
  BY <1>1 DEF InWindow
<1>7. Windows'
  BY <1>1, <1>5, <1>6 DEF Windows, MaintIdle
<1>8. \A s \in Runs : phase[s] = "draft" => s = r
  BY <1>5, <1>6 DEF Windows, InWindow
<1>9. k \notin made[r] /\ Earned(ev, loaded[r].reg, k)
  BY <1>1, <1>2, <1>5 DEF Chosen
<1>10. todo'[r] = todo[r] \ {k} /\ (made'[r] = made[r] \/ made'[r] = made[r] \cup {k}) /\ made[r] \subseteq made'[r]
  BY <1>2 DEF FlywheelInv, DraftInv
<1>11. Chosen'
  <2>1. \A j \in todo'[r] : j \notin made'[r] /\ Earned(Evidence(loadedRows'[r], j), loaded'[r].reg, j)
    BY <1>1, <1>5, <1>10 DEF Chosen
  <2>. QED BY <1>1, <1>8, <2>1 DEF Chosen
<1>12. \A a \in log :
         \/ a.key \in DOMAIN state.reg /\ a.runs \subseteq state.reg[a.key]
         \/ a.key \in made[r] /\ a.runs = Evidence(loadedRows[r], a.key)
  BY <1>5, <1>8 DEF Covered
<1>13. Covered'
  <2>1. \A a \in log' :
          \/ a.key \in DOMAIN state.reg /\ a.runs \subseteq state.reg[a.key]
          \/ a.key \in made'[r] /\ a.runs = Evidence(loadedRows[r], a.key)
    <3>1. CASE UNCHANGED <<made, log>>
      BY <1>12, <3>1
    <3>2. CASE log' = log \cup {d} /\ made' = [made EXCEPT ![r] = @ \cup {k}]
      <4>1. k \in made'[r]
        BY <3>2 DEF FlywheelInv, DraftInv
      <4>. QED BY <1>2, <1>4, <1>10, <1>12, <3>2, <4>1
    <3>. QED BY <1>2, <1>3, <3>1, <3>2
  <2>. QED BY <1>1, <2>1 DEF Covered
<1>14. RedraftIsEarned'
  <2>1. ASSUME NEW a \in log, a.key = k
        PROVE  Cardinality(ev \ a.runs) >= PROPOSAL_NEW_RUNS
    <3>1. k \in DOMAIN loaded[r].reg /\ a.runs \subseteq loaded[r].reg[k]
      BY <1>5, <1>6, <1>9, <1>12, <2>1 DEF Windows
    <3>2. Cardinality(ev \ loaded[r].reg[k]) >= PROPOSAL_NEW_RUNS
      BY <1>9, <3>1 DEF Earned
    <3>3. IsFiniteSet(ev)
      BY <1>2, FiniteEvidence DEF FlywheelInv, RowInv
    <3>. QED BY <3>1, <3>2, <3>3, NewRuns
  <2>2. log' = log \/ log' = log \cup {d}
    BY <1>2, <1>3
  <2>3. ASSUME NEW a \in log', NEW b \in log', a # b, a.key = b.key
        PROVE  \/ Cardinality(a.runs \ b.runs) >= PROPOSAL_NEW_RUNS
               \/ Cardinality(b.runs \ a.runs) >= PROPOSAL_NEW_RUNS
    <3>1. CASE a \in log /\ b \in log
      BY <1>1, <1>5, <2>3, <3>1 DEF RedraftIsEarned
    <3>2. CASE a = d /\ b \in log
      BY <1>4, <2>1, <2>3, <3>2
    <3>3. CASE a \in log /\ b = d
      BY <1>4, <2>1, <2>3, <3>3
    <3>. QED BY <2>2, <2>3, <3>1, <3>2, <3>3
  <2>. QED BY <2>3 DEF RedraftIsEarned
<1>. QED BY <1>7, <1>11, <1>13, <1>14

(* The written registry takes in what the process drafted.                 *)
LEMMA SaveKeeps == ASSUME FlywheelInv, NEW r \in Runs, Save(r) PROVE Coherent'
<1>1. /\ phase[r] = "draft" /\ MoveTo(r, "metrics") /\ UNCHANGED <<loaded, loadedRows, todo, made, maint, log>>
      /\ \/ state' = [loaded[r] EXCEPT !.reg = Registered(r)] /\ UNCHANGED orderly
         \/ ~orderly'
  BY DEF Save
<1>2. RedraftIsEarned'
  BY <1>1 DEF FlywheelInv, Coherent, RedraftIsEarned
<1>. SUFFICES ASSUME orderly' PROVE Windows' /\ Chosen' /\ Covered'
  BY <1>2 DEF Coherent
<1>3. Windows /\ Chosen /\ Covered /\ state' = [loaded[r] EXCEPT !.reg = Registered(r)]
  BY <1>1 DEF FlywheelInv, Coherent
<1>4. \A s \in Runs : phase'[s] = IF s = r THEN "metrics" ELSE phase[s]
  BY <1>1 DEF MoveTo, FlywheelInv, DraftInv
<1>5. r \in InWindow /\ InWindow' = {} /\ \A s \in Runs : phase[s] = "draft" => s = r
  BY <1>1, <1>3, <1>4 DEF Windows, InWindow
<1>6. \A s \in Runs : phase'[s] # "draft"
  BY <1>5 DEF InWindow
<1>7. ~state'.torn /\ state'.reg = Registered(r)
  <2>1. StateShape(loaded[r]) /\ ~loaded[r].torn
    BY DEF FlywheelInv, CopyInv
  <2>. QED BY <1>3, <2>1 DEF StateShape
<1>8. Windows'
  BY <1>1, <1>3, <1>5, <1>7 DEF Windows, MaintIdle
<1>9. Covered'
  <2>1. loaded[r].reg = state.reg
    BY <1>3, <1>5 DEF Windows
  <2>2. ASSUME NEW a \in log
        PROVE  a.key \in DOMAIN Registered(r) /\ a.runs \subseteq Registered(r)[a.key]
    <3>1. CASE a.key \in DOMAIN state.reg /\ a.runs \subseteq state.reg[a.key]
      BY <2>1, <3>1 DEF Registered
    <3>2. CASE a.key \in made[r] /\ a.runs = Evidence(loadedRows[r], a.key)
      BY <2>1, <3>2 DEF Registered
    <3>. QED BY <1>3, <1>5, <3>1, <3>2 DEF Covered
  <2>. QED BY <1>1, <1>7, <2>2 DEF Covered
<1>. QED BY <1>6, <1>8, <1>9 DEF Chosen

LEMMA KillKeeps == ASSUME FlywheelInv, NEW r \in Runs, Kill(r) PROVE Coherent'
<1>1. /\ MoveTo(r, "dead") /\ Forget(r) /\ UNCHANGED <<maint, log>>
      /\ orderly' = (orderly /\ made[r] = {} /\ r \notin InWindow)
      /\ state' = state \/ phase[r] = "draft"
  BY DEF Kill
<1>2. CASE orderly'
  <2>1. phase[r] \notin {"wave", "draft"} /\ UNCHANGED state
    BY <1>1, <1>2 DEF InWindow
  <2>. QED BY <1>1, <2>1, ForgetsOwn, AsideMoves
<1>3. CASE ~orderly'
  BY <1>3 DEF Coherent, RedraftIsEarned
<1>. QED BY <1>2, <1>3

(* The maintainer's read takes no window and its write changes no registry.*)
LEMMA NoteKeeps == ASSUME FlywheelInv, NoteRead \/ NoteWrite PROVE Coherent'
<1>1. UNCHANGED <<phase, loaded, loadedRows, todo, made, log>> /\ (orderly' => orderly)
  <2>1. CASE NoteRead
    BY <2>1 DEF NoteRead
  <2>2. CASE NoteWrite
    BY <2>2 DEF NoteWrite, history
  <2>. QED BY <2>1, <2>2
<1>2. RedraftIsEarned'
  BY <1>1 DEF FlywheelInv, Coherent, RedraftIsEarned
<1>. SUFFICES ASSUME orderly' PROVE Windows' /\ Chosen' /\ Covered'
  BY <1>2 DEF Coherent
<1>3. Windows /\ Chosen /\ Covered
  BY <1>1 DEF FlywheelInv, Coherent
<1>4. InWindow' = InWindow
  BY <1>1 DEF InWindow
<1>5. Windows' /\ state'.reg = state.reg
  <2>1. CASE NoteRead
    <3>1. PICK s : /\ StateShape(s) /\ s = state
                   /\ maint' = [s EXCEPT !.applied = @ + 1]
      <4>1. PICK v : maint' = [readFlywheelState(v) EXCEPT !.applied = @ + 1]
        BY <2>1 DEF NoteRead
      <4>. QED BY <1>3, <4>1, StateRead DEF FlywheelInv, Windows
    <3>2. maint'.reg = state.reg
      BY <3>1 DEF StateShape
    <3>3. UNCHANGED state /\ InWindow = {}
      BY <2>1 DEF NoteRead, files
    <3>. QED BY <1>3, <1>4, <3>2, <3>3 DEF Windows
  <2>2. CASE NoteWrite
    <3>1. ~MaintIdle /\ state' = maint /\ MaintIdle'
      BY <2>2 DEF NoteWrite, MaintIdle, defaultFlywheelState
    <3>2. InWindow = {} /\ maint.reg = state.reg /\ ~maint.torn
      BY <1>3, <3>1 DEF Windows, FlywheelInv, CopyInv
    <3>. QED BY <1>4, <3>1, <3>2 DEF Windows
  <2>. QED BY <2>1, <2>2
<1>6. Chosen'
  BY <1>1, <1>3 DEF Chosen
<1>7. Covered'
  BY <1>1, <1>3, <1>5 DEF Covered
<1>. QED BY <1>5, <1>6, <1>7

-----------------------------------------------------------------------------

LEMMA FlywheelInitial == FlywheelInit => FlywheelInv
<1>. SUFFICES ASSUME FlywheelInit PROVE FlywheelInv
  OBVIOUS
<1>1. RowInv
  <2>1. NoScore \in EvalRow /\ PriorRows \in Seq(EvalRow)
    BY FlywheelAssumption DEF NoScore, EvalRow
  <2>2. Len(PriorRows) \in Nat
    BY <2>1
  <2>. QED BY <2>1, <2>2 DEF FlywheelInit, RowInv
<1>2. CopyInv
  <2>1. \A v : StateShape(defaultFlywheelState(v)) /\ ~defaultFlywheelState(v).torn
    BY DEF StateShape, defaultFlywheelState
  <2>. QED BY <2>1 DEF FlywheelInit, CopyInv
<1>3. DraftInv
  BY DEF FlywheelInit, DraftInv, Phases
<1>4. Windows
  <2>1. InWindow = {}
    BY DEF FlywheelInit, InWindow
  <2>2. ~state.torn /\ MaintIdle
    BY DEF FlywheelInit, defaultFlywheelState, MaintIdle
  <2>. QED BY <2>1, <2>2 DEF Windows
<1>5. Chosen /\ Covered /\ RedraftIsEarned
  BY DEF FlywheelInit, Chosen, Covered, RedraftIsEarned
<1>. QED BY <1>1, <1>2, <1>3, <1>4, <1>5 DEF FlywheelInv, Coherent

LEMMA NextCoherent == FlywheelInv /\ [FlywheelNext]_flywheelVars => Coherent'
<1>. SUFFICES ASSUME FlywheelInv, [FlywheelNext]_flywheelVars PROVE Coherent'
  OBVIOUS
<1>1. orderly' => orderly
  BY OrderlyStays
<1>2. ASSUME NEW r \in Runs, Observe(r) \/ AppendRows(r) PROVE Coherent'
  <2>1. /\ MoveTo(r, "append") \/ MoveTo(r, "load")
        /\ phase[r] \in {"idle", "append"}
        /\ UNCHANGED <<state, maint, log, loaded, loadedRows, todo, made>>
    BY <1>2 DEF Observe, AppendRows, history
  <2>. QED BY <1>1, <2>1, AsideMoves
<1>3. ASSUME NEW r \in Runs, LoadRows(r) PROVE Coherent'
  <2>1. /\ MoveTo(r, "read") /\ phase[r] = "load"
        /\ UNCHANGED <<state, maint, log, loaded, todo, made>>
        /\ loadedRows' = [loadedRows EXCEPT ![r] = rows]
    BY <1>3 DEF LoadRows, files, history
  <2>2. \A s \in Runs : s # r => loadedRows'[s] = loadedRows[s]
    BY <2>1 DEF FlywheelInv, RowInv
  <2>. QED BY <1>1, <2>1, <2>2, AsideMoves
<1>4. ASSUME NEW r \in Runs, Close(r) PROVE Coherent'
  <2>1. /\ MoveTo(r, "done") /\ phase[r] = "metrics" /\ Forget(r)
        /\ UNCHANGED <<state, maint, log>>
    BY <1>4 DEF Close, history
  <2>. QED BY <1>1, <2>1, ForgetsOwn, AsideMoves
<1>5. CASE Move \/ Review \/ UNCHANGED flywheelVars
  <2>1. UNCHANGED <<state, maint, log, phase, loaded, loadedRows, todo, made>>
    BY <1>5 DEF Move, Review, procs, files, history, flywheelVars
  <2>. QED BY <1>1, <2>1, AsideKeeps DEF FlywheelInv
<1>. QED BY <1>2, <1>3, <1>4, <1>5, ReadKeeps, WaveKeeps, DraftKeeps, SaveKeeps, KillKeeps, NoteKeeps
         DEF FlywheelNext

(* A cluster comes back with new evidence (draftProposals): as long as the *)
(* windows over the state file were disjoint and none was lost, two drafts *)
(* of one cluster differ by PROPOSAL_NEW_RUNS runs.                        *)
THEOREM Redrafts == FlywheelSpec => []RedraftIsEarned
<1>1. FlywheelInit => FlywheelInv
  BY FlywheelInitial
<1>2. FlywheelInv /\ [FlywheelNext]_flywheelVars => FlywheelInv'
  BY NextRows, NextCopies, NextDrafts, NextCoherent DEF FlywheelInv
<1>3. FlywheelInv => RedraftIsEarned
  BY DEF FlywheelInv, Coherent
<1>. QED BY <1>1, <1>2, <1>3, PTL DEF FlywheelSpec
=============================================================================
