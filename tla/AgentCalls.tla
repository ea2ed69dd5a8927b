----------------------------- MODULE AgentCalls -----------------------------
(***************************************************************************)
(* Concurrent agent calls: the fuses a call passes before it is launched,  *)
(* its transient retries, what it is charged, and the source-read-only     *)
(* boundary around it (workflow.ts realAgent, pre-call-fuses.ts,           *)
(* agent-retry.ts, usage-accounting.ts, source-boundary.ts).               *)
(*                                                                         *)
(* Two places of the pipeline run calls side by side.  Verification runs   *)
(* its reviewers, all read-only, through parallel() (nodes.ts runConcurrent*)
(* and task()); a reviewer's violation is restored.  An implementation     *)
(* attempt runs the RED review beside the implementer; the review's        *)
(* violation is quarantined, and the join decides what to restore          *)
(* (red-review-join.ts, phase-status.ts).                                  *)
(*                                                                         *)
(* The working tree is one set of authors per path: whose uncommitted      *)
(* edits its content holds, none for a path at HEAD.  A call edits a path  *)
(* at most once, so that two contents are equal when their authors are.    *)
(***************************************************************************)
EXTENDS Naturals, FiniteSets, Functions

CONSTANTS
  NumReviewers,     \* branches of the verification parallel
  MaxConcurrency,   \* options.maxConcurrency
  MaxAgents,        \* options.maxAgents
  CostCap,          \* SUPER_DEV_MAX_RUN_COST; an attempt costs 1
  Retries,          \* transientRetryMs().length
  Paths,            \* source paths the calls may touch
  TestFiles,        \* the phase's RED test files
  Tracked,          \* paths that exist at HEAD
  ReviewerPaths,    \* bound: paths the verification step touches
  GitFaults         \* whether git may fail under the boundary

ASSUME CallsAssumption ==
  /\ NumReviewers \in Nat \ {0} /\ MaxConcurrency \in Nat \ {0}
  /\ MaxAgents \in Nat /\ CostCap \in Nat \ {0} /\ Retries \in Nat
  /\ TestFiles \subseteq Paths /\ Tracked \subseteq Paths
  /\ ReviewerPaths \subseteq Paths
  /\ GitFaults \in BOOLEAN

Reviewers == 1 .. NumReviewers
RedReview == NumReviewers + 1
Implementer == NumReviewers + 2
Calls == 1 .. NumReviewers + 2
Earlier == 0                      \* who left the tree dirty before
Authors == {Earlier} \cup Calls
ReadOnly == Reviewers \cup {RedReview}   \* accessMode "source-read-only"
\* Mutant of ConcurrentWriter: the flag is not passed.
NotPassed(c) == FALSE
ConcurrentWriter(c) == c = RedReview

VARIABLES
  lane,      \* the step of the pipeline that runs: "verify" or "red"
  pc,        \* per call: "queued", "started", "running", "backoff", "done"
  outcome,   \* per call, once done: how it ended
  tries,     \* attempts of the call so far
  spent,     \* budget units reserved (makeBudget)
  charged,   \* usage.totals.cost
  wallOver,  \* the wall fuse's window has passed
  aborted,   \* the run's signal
  stopped,   \* a branch was cancelled: subAbort
  result,    \* what the parallel or the join came to; "open" until then
  content,   \* the tree
  before,    \* per read-only call: the tree it was launched on
  blind,     \* calls for which git failed under the boundary or the join
  wrote,     \* history: paths each call edited
  blamed,    \* per call: the violations it threw
  claims     \* the files the implementer declared

callVars == <<pc, outcome, tries>>
spendVars == <<spent, charged>>
boundaryVars == <<before, blind, blamed>>
vars == <<lane, callVars, spendVars, wallOver, aborted, stopped, result,
          content, boundaryVars, wrote, claims>>

InLane(c) == IF lane = "verify" THEN c \in Reviewers
                                ELSE c \in {RedReview, Implementer}
Started == {c \in Calls : pc[c] = "started"}
InFlight == {c \in Calls : pc[c] \in {"running", "backoff"}}
Slots == IF lane = "verify" THEN MaxConcurrency ELSE 2
Clean == [p \in Paths |-> {}]      \* every path at HEAD
Dirty(tree) == {p \in Paths : tree[p] # {}}

Init ==
  /\ lane \in {"verify", "red"}
  /\ pc = [c \in Calls |-> "queued"]
  /\ outcome = [c \in Calls |-> "none"]
  /\ tries = [c \in Calls |-> 0]
  /\ spent \in 0 .. MaxAgents    \* what earlier stages reserved
  /\ charged = 0
  /\ wallOver = FALSE /\ aborted = FALSE /\ stopped = FALSE
  /\ result = "open"
  /\ content \in [Paths -> {{}, {Earlier}}]
  /\ lane = "verify" => Dirty(content) \subseteq ReviewerPaths
  /\ before = [c \in Calls |-> Clean]
  /\ blind = {}
  /\ wrote = [c \in Calls |-> {}]
  /\ blamed = [c \in Calls |-> {}]
  /\ claims = {}

-----------------------------------------------------------------------------
(* The pool of the verification reviewers.                                 *)

\* A worker takes the next branch while no sibling was cancelled.
MayDequeue(r) ==
  /\ lane = "verify" /\ ~stopped
  /\ pc[r] = "queued" /\ \A q \in Reviewers : q < r => pc[q] # "queued"
  /\ Cardinality(Started \cup InFlight) < MaxConcurrency

BudgetLeft == spent < MaxAgents

\* task() of a run that was aborted meanwhile: cancelled, siblings stop.
Cancel(r) ==
  /\ MayDequeue(r) /\ aborted
  /\ pc' = [pc EXCEPT ![r] = "done"]
  /\ outcome' = [outcome EXCEPT ![r] = "cancelled"]
  /\ stopped' = TRUE
  /\ UNCHANGED <<lane, tries, spendVars, wallOver, aborted, result, content,
                 boundaryVars, wrote, claims>>

\* task() that finds the budget gone before the stage starts.
Skip(r) ==
  /\ MayDequeue(r) /\ ~aborted /\ ~BudgetLeft
  /\ pc' = [pc EXCEPT ![r] = "done"]
  /\ outcome' = [outcome EXCEPT ![r] = "failed"]
  /\ UNCHANGED <<lane, tries, spendVars, wallOver, aborted, stopped, result,
                 content, boundaryVars, wrote, claims>>

\* Otherwise the stage body runs, up to its call.
Start(r) ==
  /\ MayDequeue(r) /\ ~aborted /\ BudgetLeft
  /\ pc' = [pc EXCEPT ![r] = "started"]
  /\ UNCHANGED <<lane, outcome, tries, spendVars, wallOver, aborted, stopped,
                 result, content, boundaryVars, wrote, claims>>

\* The RED review is launched first, without awaiting it.
AtCall(c) ==
  \/ pc[c] = "started"
  \/ /\ lane = "red" /\ pc[c] = "queued"
     /\ \/ c = RedReview
        \/ c = Implementer /\ pc[RedReview] # "queued"

\* task() turns the end of a reviewer's call into a cancelled branch when the
\* run was aborted meanwhile.  The snapshot and the attempts are locals of the
\* call.
End(c, how) ==
  /\ tries' = [tries EXCEPT ![c] = 0]
  /\ before' = [before EXCEPT ![c] = Clean]
  /\ pc' = [pc EXCEPT ![c] = "done"]
  /\ outcome' = [outcome EXCEPT ![c] =
       IF lane = "verify" /\ aborted THEN "cancelled" ELSE how]
  /\ stopped' = (stopped \/ (lane = "verify" /\ aborted))

-----------------------------------------------------------------------------
(* preCallFuseError: the budget unit is reserved before the other fuses.   *)

CostTripped == charged >= CostCap

Refuse(c) ==
  /\ AtCall(c)
  /\ ~BudgetLeft \/ wallOver \/ CostTripped
  /\ spent' = IF BudgetLeft THEN spent + 1 ELSE spent
  /\ End(c, "error")
  /\ UNCHANGED <<lane, charged, wallOver, aborted, result,
                 content, blind, blamed, wrote, claims>>

\* captureSourceBoundary before a read-only call; git may fail.
Launch(c) ==
  /\ AtCall(c)
  /\ BudgetLeft /\ ~wallOver /\ ~CostTripped
  /\ spent' = spent + 1
  /\ pc' = [pc EXCEPT ![c] = "running"]
  /\ tries' = [tries EXCEPT ![c] = 1]
  /\ before' = [before EXCEPT ![c] = content]
  /\ \/ blind' = blind
     \/ GitFaults /\ c \in ReadOnly /\ blind' = blind \cup {c}
  /\ UNCHANGED <<lane, outcome, charged, wallOver, aborted, stopped, result,
                 content, blamed, wrote, claims>>

\* The agent of a running call edits a path, whatever its access mode.
Edit(c, p) ==
  /\ pc[c] = "running" /\ p \notin wrote[c]
  /\ c \in Reviewers => p \in ReviewerPaths
  /\ content' = [content EXCEPT ![p] = @ \cup {c}]
  /\ wrote' = [wrote EXCEPT ![c] = @ \cup {p}]
  /\ UNCHANGED <<lane, callVars, spendVars, wallOver, aborted, stopped,
                 result, boundaryVars, claims>>

\* runWithTransientRetry: a transient error is retried after a delay.
Backoff(c) ==
  /\ pc[c] = "running" /\ tries[c] <= Retries
  /\ pc' = [pc EXCEPT ![c] = "backoff"]
  /\ UNCHANGED <<lane, outcome, tries, spendVars, wallOver, aborted, stopped,
                 result, content, boundaryVars, wrote, claims>>

Redispatch(c) ==
  /\ pc[c] = "backoff" /\ ~aborted
  /\ pc' = [pc EXCEPT ![c] = "running"]
  /\ tries' = [tries EXCEPT ![c] = @ + 1]
  /\ UNCHANGED <<lane, outcome, spent, charged, wallOver, aborted, stopped,
                 result, content, boundaryVars, wrote, claims>>

-----------------------------------------------------------------------------
(* The end of a call: its attempts are charged, then the boundary is       *)
(* enforced, also when the call threw.                                     *)

\* Mutant of Violations: only paths that became dirty are compared.
NewlyDirty(c) == {p \in Paths : before[c][p] = {} /\ content[p] # {}}
Violations(c) == {p \in Paths : content[p] # before[c][p]}

\* restoreNewSourceViolations: a path that was dirty before is left to hand.
Restorable(c) == {p \in Violations(c) : before[c][p] = {}}
Reverted(tree, files) == [p \in Paths |-> IF p \in files THEN {} ELSE tree[p]]

\* git restore may fail for a tracked path.
MayFail(files) == IF GitFaults THEN SUBSET (files \cap Tracked) ELSE {{}}

Unguarded(c, how) ==
  /\ \/ c \notin ReadOnly \/ c \in blind
     \/ GitFaults
  /\ blind' = IF c \in ReadOnly THEN blind \cup {c} ELSE blind
  /\ End(c, how)
  /\ UNCHANGED <<content, blamed>>

Guarded(c, how) ==
  /\ c \in ReadOnly \ blind
  /\ blamed' = [blamed EXCEPT ![c] = Violations(c)]
  /\ End(c, IF Violations(c) = {} THEN how
            ELSE IF how = "answer" THEN "breach" ELSE "mute")
  /\ IF ConcurrentWriter(c)
     THEN UNCHANGED <<content, blind>>
     ELSE \E stuck \in MayFail(Restorable(c)) :
            /\ content' = Reverted(content, Restorable(c) \ stuck)
            /\ blind' = IF stuck = {} THEN blind ELSE blind \cup {c}

Settle(c, how) == Unguarded(c, how) \/ Guarded(c, how)

\* The usage of all attempts, summed by the retry loop.
Cost(c) == tries[c]

\* A result with a usable control.  What the implementer declares is what its
\* agent says it did: all of its files, some, others, or none.
Answer(c) ==
  /\ pc[c] = "running"
  /\ charged' = charged + Cost(c)
  /\ Settle(c, "answer")
  /\ IF c = Implementer
     THEN claims' \in SUBSET Paths
     ELSE claims' = claims
  /\ UNCHANGED <<lane, spent, wallOver, aborted, result,
                 wrote>>

\* A result with an error: final, transient once too often, or given up
\* because the run was aborted during the delay.
Fail(c) ==
  /\ pc[c] = "running" \/ (pc[c] = "backoff" /\ aborted)
  /\ charged' = charged + Cost(c)
  /\ Settle(c, "error")
  /\ UNCHANGED <<lane, spent, wallOver, aborted, result,
                 wrote, claims>>

\* The backend throws: no usage reaches the accumulator.
Throw(c) ==
  /\ pc[c] = "running"
  /\ Settle(c, "thrown")
  /\ UNCHANGED <<lane, spent, charged, wallOver, aborted, result,
                 wrote, claims>>

-----------------------------------------------------------------------------
(* The join of the parallel, and the join of the RED review.               *)

Ended(cs) == \A c \in cs : pc[c] = "done"
Some(how) == \E c \in Reviewers : outcome[c] \in how

\* Mutant of BranchFailed: a thrown violation is tolerated.
Tolerant == Some({"failed"})
BranchFailed == Some({"failed", "breach", "mute", "thrown"})

Merge ==
  /\ lane = "verify" /\ result = "open"
  /\ Started \cup InFlight = {}
  /\ stopped \/ Ended(Reviewers)
  /\ result' = IF Some({"cancelled"}) THEN "cancelled"
               ELSE IF BranchFailed THEN "failed" ELSE "merged"
  /\ UNCHANGED <<lane, callVars, spendVars, wallOver, aborted, stopped,
                 content, boundaryVars, wrote, claims>>

AtJoin == /\ lane = "red" /\ result = "open"
          /\ Ended({RedReview, Implementer})
          /\ outcome[Implementer] # "thrown"

\* Every violating path is one the implementer declared.
Salvaged == /\ outcome[RedReview] = "breach" /\ claims # {}
            /\ blamed[RedReview] \subseteq claims
HasVerdict == outcome[RedReview] = "answer" \/ Salvaged

\* The implementer's call threw: the stage ends and nothing joins the review.
Leave ==
  /\ lane = "red" /\ result = "open" /\ outcome[Implementer] = "thrown"
  /\ result' = "left"
  /\ UNCHANGED <<lane, callVars, spendVars, wallOver, aborted, stopped,
                 content, boundaryVars, wrote, claims>>

\* A strong or a weak verdict: the work goes on to the gates.
Accept ==
  /\ AtJoin /\ HasVerdict
  /\ result' = "accepted"
  /\ UNCHANGED <<lane, callVars, spendVars, wallOver, aborted, stopped,
                 content, boundaryVars, wrote, claims>>

\* Any other verdict: discardGreenWork, except the test files.
Reject ==
  /\ AtJoin /\ HasVerdict
  /\ result' = "rejected"
  /\ \E stuck \in MayFail(Dirty(content) \ TestFiles) :
       /\ content' = Reverted(content, Paths \ (TestFiles \cup stuck))
       /\ blind' = IF stuck = {} THEN blind ELSE blind \cup {RedReview}
  /\ UNCHANGED <<lane, callVars, spendVars, wallOver, aborted, stopped,
                 before, blamed, wrote, claims>>

\* The review failed without a verdict: the work is kept, and violating paths
\* nobody declared are restored, which git can do for tracked ones only.
Unclaimed == IF claims = {} THEN {}
             ELSE (blamed[RedReview] \cap Tracked) \ (claims \cup TestFiles)

KeepWork ==
  /\ AtJoin /\ outcome[RedReview] # "answer"
  /\ result' = "kept"
  /\ \E stuck \in MayFail(Unclaimed) :
       /\ content' = Reverted(content, Unclaimed \ stuck)
       /\ blind' = IF stuck = {} THEN blind ELSE blind \cup {RedReview}
  /\ UNCHANGED <<lane, callVars, spendVars, wallOver, aborted, stopped,
                 before, blamed, wrote, claims>>

-----------------------------------------------------------------------------
Abort ==
  /\ ~aborted /\ aborted' = TRUE
  /\ UNCHANGED <<lane, callVars, spendVars, wallOver, stopped, result, content,
                 boundaryVars, wrote, claims>>

WallPasses ==
  /\ ~wallOver /\ wallOver' = TRUE
  /\ UNCHANGED <<lane, callVars, spendVars, aborted, stopped, result, content,
                 boundaryVars, wrote, claims>>

Pool == \E r \in Reviewers : Cancel(r) \/ Skip(r) \/ Start(r)

Engine == \E c \in Calls :
  \/ Refuse(c) \/ Launch(c) \/ Redispatch(c)
  \/ Answer(c) \/ Fail(c) \/ Throw(c)

Agents == \E c \in Calls : Backoff(c) \/ \E p \in Paths : Edit(c, p)

Joins == Merge \/ Leave \/ Accept \/ Reject \/ KeepWork

Next == Pool \/ Engine \/ Agents \/ Joins \/ Abort \/ WallPasses

Spec == Init /\ [][Next]_vars

-----------------------------------------------------------------------------
(* Properties.                                                             *)

\* Types and bounds: a call makes Retries + 1 attempts at most, and the budget
\* units never exceed maxAgents.
TypeOK ==
  /\ lane \in {"verify", "red"}
  /\ pc \in [Calls -> {"queued", "started", "running", "backoff", "done"}]
  /\ outcome \in [Calls -> {"none", "answer", "error", "thrown", "breach",
                            "mute", "failed", "cancelled"}]
  /\ tries \in [Calls -> 0 .. Retries + 1]
  /\ spent \in 0 .. MaxAgents
  /\ charged \in Nat
  /\ wallOver \in BOOLEAN /\ aborted \in BOOLEAN /\ stopped \in BOOLEAN
  /\ result \in {"open", "cancelled", "failed", "merged", "left", "accepted",
                 "rejected", "kept"}
  /\ content \in [Paths -> SUBSET Authors]
  /\ before \in [Calls -> [Paths -> SUBSET Authors]]
  /\ blind \subseteq ReadOnly
  /\ wrote \in [Calls -> SUBSET Paths]
  /\ blamed \in [Calls -> SUBSET Paths]
  /\ claims \subseteq Paths

\* The cost fuse is overshot by the calls in flight at most: each call that was
\* launched below the cap costs its attempts, and once the cap is reached no
\* other is launched (pre-call-fuses.ts:56, usage-accounting.ts:71).
CostOvershoot == charged < CostCap + Slots * (Retries + 1)

\* A read-only call whose boundary could be captured never edits unnoticed,
\* whichever overlapping call restored the edit first: when it has ended,
\* some call was failed for every path it edited (workflow.ts:319-345).
EditIsReported ==
  \A r \in ReadOnly \ blind, p \in Paths :
    pc[r] = "done" /\ p \in wrote[r] => \E c \in ReadOnly : p \in blamed[c]

\* Reviews are merged only when no branch was cancelled, failed or left out,
\* and of a tree no guarded reviewer has edited (nodes.ts:424-433).
MergedReviewIsClean ==
  result = "merged" =>
    \A r \in Reviewers :
      /\ pc[r] = "done" /\ outcome[r] \in {"answer", "error"}
      /\ r \notin blind => wrote[r] = {}

\* When the work is kept although the review failed, a path of HEAD that
\* nobody declared holds no edit of the guarded review (phase-status.ts:275).
KeptWorkIsAttributed ==
  result = "kept" /\ claims # {} /\ RedReview \notin blind =>
    \A p \in Tracked \ (claims \cup TestFiles) : RedReview \notin content[p]

\* An edit of the implementer disappears only when its work is rejected, or
\* when the work is kept and it declared other files but not this one, which
\* HEAD knows, which is no test of the phase, and for which the review was
\* blamed.  So whatever it declared survives, and everything does if it
\* declared nothing (phase-status.ts:199-208, workflow.ts:312-318).
UnderClaimed(p) ==
  /\ claims # {} /\ p \in Tracked \ (claims \cup TestFiles)
  /\ p \in blamed[RedReview]

ImplementerSurvives ==
  [][\A p \in Paths :
       Implementer \in content[p] /\ Implementer \notin content'[p]
         => result' = "rejected" \/ (result' = "kept" /\ UnderClaimed(p))]_vars

=============================================================================
