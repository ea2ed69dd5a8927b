--------------------------- MODULE RoutingWalker ---------------------------
(***************************************************************************)
(* The addressable walker: inline route-back of a run to an earlier stage  *)
(* (src/src/routing/walker.ts), the routing journal and its per-run epoch  *)
(* (journal.ts, router.ts), the revision gate that fast-forwards untouched *)
(* stages (revision-gate.ts), and the replan requests and resume-cache     *)
(* rows the re-entry protocol touches (replan/replan.ts).                  *)
(*                                                                         *)
(* The protocol is synchronous code, but each of its writes is durable on  *)
(* its own: the process may die, and each write may fail, between any two  *)
(* of them.  A run that died is resumed by a later process.                *)
(***************************************************************************)
EXTENDS Naturals, FiniteSets

CONSTANTS
  LastStage,       \* stages are 1 .. LastStage in skeleton order
  Owners,          \* routable owner stages (convergence nodes with an id)
  EdgeBudget,      \* DEFAULT_EDGE_BUDGET
  MaxInlineJumps,  \* maxInlineJumps()
  MaxStarts,       \* bound: processes started on this track
  Crashes,         \* BOOLEAN: may a process die mid-run?
  Faults,          \* BOOLEAN: may a state-file write fail (or a read find junk)?
  Carries          \* BOOLEAN: may a stage exit with debt owned downstream?

Stage == 1 .. LastStage

ASSUME WalkerAssumption ==
  /\ LastStage \in Nat /\ Owners \subseteq Stage
  /\ EdgeBudget \in Nat /\ MaxInlineJumps \in Nat /\ MaxStarts \in Nat
  /\ {Crashes, Faults, Carries} \subseteq BOOLEAN

Edge == {e \in Stage \X Owners : e[2] < e[1]}
None == 0

VARIABLES
  \* durable: the files of the track
  journal,    \* routing-journal.jsonl, as the set of its readable entries
  torn,       \* its last line is a partial one without a newline
  epochFile,  \* routing-epoch.json (None: absent)
  revisions,  \* artifact-revisions.json
  request,    \* replan-requests.json: the row of each owner's finding
  cacheRows,  \* stages with rows in the resume-cache file
  \* volatile: the process
  ctl,        \* "down", "walk", or the next step of the re-entry protocol
  at,         \* the stage the walk is at
  sig,        \* the edge of the caught RouteBackSignal
  jumps,      \* inline jumps of this process
  epoch,      \* runEpochIso
  converged,  \* state.__convergedRevisions (revision + 1; None: not recorded)
  \* time, and history for the properties
  clock, starts,
  began,      \* when the logical run began
  taken,      \* jumps re-entered in this logical run, per edge
  accounts,   \* budgets of this run: one, and one per epoch it lost
  owed,       \* owners routed to (or handed debt) that have not run since
  approved    \* stages whose last exit in this process was an approval

files == <<journal, torn, epochFile, revisions, request, cacheRows>>
history == <<began, taken, accounts, owed, approved>>
vars == <<files, ctl, at, sig, jumps, epoch, converged, clock, starts, history>>

Protocol == {"caught", "invalidate", "inject", "bump", "charge", "enter", "decline"}

TypeOK ==
  /\ journal \subseteq [edge : Edge, time : Nat] /\ IsFiniteSet(journal)
  /\ torn \in BOOLEAN
  /\ epochFile \in Nat
  /\ revisions \in [Owners -> Nat]
  /\ request \in [Owners -> {"none", "pending", "addressed", "stale"}]
  /\ cacheRows \in SUBSET Stage
  /\ ctl \in {"down", "walk"} \cup Protocol
  /\ at \in 1 .. LastStage + 1
  /\ sig \in Edge \cup {<<>>}
  /\ jumps \in Nat /\ epoch \in Nat /\ clock \in Nat /\ starts \in Nat
  /\ converged \in [Owners -> Nat]
  /\ began \in Nat /\ taken \in [Edge -> Nat] /\ accounts \in Nat \ {0}
  /\ owed \in SUBSET Owners /\ approved \in SUBSET Stage

Init ==
  /\ journal = {} /\ torn = FALSE /\ epochFile = None
  /\ revisions = [o \in Owners |-> 0]
  /\ request = [o \in Owners |-> "none"]
  /\ cacheRows = {}
  /\ ctl = "down" /\ at = 1 /\ sig = <<>> /\ jumps = 0
  /\ epoch = 0 /\ converged = [o \in Owners |-> None]
  /\ clock = 1 /\ starts = 0
  /\ began = 1 /\ taken = [e \in Edge |-> 0] /\ accounts = 1
  /\ owed = {} /\ approved = {}

----------------------------------------------------------------------------
(* The journal and its budget.                                             *)

WithinEpoch(since) == {n \in journal : n.time >= since}
Consumed(e) == Cardinality({n \in WithinEpoch(epoch) : n.edge = e})
RemainingBudget(e) == IF Consumed(e) < EdgeBudget THEN EdgeBudget - Consumed(e) ELSE 0

(* The entry of the highest seq; entries are appended in time order, so    *)
(* seq is left out and the clock orders them.                              *)
IsLast(n) == \A m \in journal : m.time <= n.time

(* Why the walker re-throws instead of jumping (walker.ts:207-216); every  *)
(* thrower knows its spec dir, and every routable owner is addressable.    *)
NotTaken(e) == jumps >= MaxInlineJumps \/ RemainingBudget(e) = 0

Suffix(o) == {s \in Stage : s >= o}

----------------------------------------------------------------------------
(* Starting a process on the track.  A fresh run opens a new epoch and     *)
(* truncates the stale cache; setup of a resumed run seeds the epoch from  *)
(* the epoch file, when the journal has entries.  Requests addressed       *)
(* before this process started no longer suppress a re-injection.  The     *)
(* epoch file is best effort: without it a resume counts from the last     *)
(* entry on, which gives the edges of the run their budget again.          *)
SeedEpochFresh(t) == {t}
SeedEpochResumed(t) ==
  IF journal = {} THEN {t}
  ELSE IF epochFile # None THEN {epochFile}
  ELSE {n.time : n \in {m \in journal : IsLast(m)}}

Boot(t) ==
  /\ starts < MaxStarts
  /\ starts' = starts + 1
  /\ clock' = t
  /\ ctl' = "walk" /\ at' = 1 /\ sig' = <<>> /\ jumps' = 0
  /\ converged' = [o \in Owners |-> None]
  /\ approved' = {}
  /\ request' = [o \in Owners |-> IF request[o] = "addressed" THEN "stale" ELSE request[o]]
  /\ UNCHANGED <<journal, torn, epochFile, revisions, owed>>

StartFresh ==
  /\ ctl = "down"
  /\ Boot(clock + 1)
  /\ epoch' \in SeedEpochFresh(clock + 1)
  /\ cacheRows' = {}
  /\ began' = clock + 1 /\ taken' = [e \in Edge |-> 0] /\ accounts' = 1

EpochLost == epochFile = None /\ \E n \in journal : n.time >= began

Resume ==
  /\ ctl = "down" /\ starts > 0
  /\ Boot(clock + 1)
  /\ epoch' \in SeedEpochResumed(clock + 1)
  /\ accounts' = IF EpochLost THEN accounts + 1 ELSE accounts
  /\ UNCHANGED <<cacheRows, began, taken>>

----------------------------------------------------------------------------
(* The stages of the walk.                                                 *)

ProcUnchanged ==
  UNCHANGED <<sig, jumps, epoch, clock, starts, began, taken, accounts>>

(* revisionGateFastForward: a jump was journaled, this process recorded a  *)
(* revision for the stage, the counter still equals it, nothing is pending *)
RevisionUnchanged(s) == converged[s] = revisions[s] + 1

RevisionGate(s) ==
  /\ s \in Owners
  /\ journal # {}
  /\ converged[s] # None
  /\ RevisionUnchanged(s)
  /\ request[s] # "pending"

FastForward ==
  /\ ctl = "walk" /\ at \in Stage
  /\ RevisionGate(at)
  /\ at' = at + 1
  /\ ProcUnchanged
  /\ UNCHANGED <<files, ctl, converged, owed, approved>>

(* A genuine approval consumes the stage's requests; an override does not. *)
(* Both record the revision the artifact converged at.                     *)
Consume(s) == [request EXCEPT ![s] = IF @ = "pending" THEN "addressed" ELSE @]

Approve ==
  /\ ctl = "walk" /\ at \in Owners
  /\ request' \in {Consume(at), request}
  /\ converged' = [converged EXCEPT ![at] = revisions[at] + 1]
  /\ cacheRows' = cacheRows \cup {at}
  /\ owed' = owed \ {at} /\ approved' = approved \cup {at}
  /\ at' = at + 1
  /\ ProcUnchanged
  /\ UNCHANGED <<journal, torn, epochFile, revisions, ctl>>

(* Injection: a pending row, or one addressed since this process started,  *)
(* suppresses; otherwise a pending row is appended.                        *)
Inject(o) == [request EXCEPT ![o] = IF @ \in {"none", "stale"} THEN "pending" ELSE @]

(* A CONVERGED-CARRIED exit delivers the debt to the downstream owners:    *)
(* for each a request is written and its revision bumped, two writes whose *)
(* failures are ignored and between which the process may die.  An owner   *)
(* that neither reached is not owed a run.  An accepted limitation         *)
(* delivers nothing.  Neither exit records the stage as converged.         *)
Deliver(debtors, written, bumped) ==
  /\ request' = [o \in Owners |-> IF o \in written THEN Inject(o)[o] ELSE request[o]]
  /\ revisions' = [o \in Owners |-> IF o \in bumped THEN revisions[o] + 1 ELSE revisions[o]]
  /\ owed' = (owed \ {at}) \cup bumped \cup {o \in debtors : request'[o] = "pending"}

Downstream == {o \in Owners : Carries /\ o > at}

ExitUnapproved ==
  /\ ctl = "walk" /\ at \in Owners
  /\ \E debtors \in SUBSET Downstream : \E written, bumped \in SUBSET debtors :
       /\ Deliver(debtors, written, bumped)
       /\ \/ ctl' = "walk" /\ (Faults \/ {written, bumped} = {debtors})
          \/ ctl' = "down" /\ Crashes /\ debtors # {}
  /\ approved' = approved \ {at}
  /\ cacheRows' = cacheRows \cup {at}
  /\ at' = at + 1
  /\ ProcUnchanged
  /\ UNCHANGED <<journal, torn, epochFile, converged>>

OtherStage ==
  /\ ctl = "walk" /\ at \in Stage \ Owners
  /\ cacheRows' = cacheRows \cup {at}
  /\ at' = at + 1
  /\ ProcUnchanged
  /\ UNCHANGED <<journal, torn, epochFile, revisions, request, ctl, converged, owed, approved>>

(* planInlineRouteBack: one strictly upstream routable owner, and budget   *)
(* left on the edge in the persisted journal; the stage throws.            *)
ThrowRouteBack(o) ==
  /\ ctl = "walk" /\ at \in Stage
  /\ o < at
  /\ RemainingBudget(<<at, o>>) > 0
  /\ sig' = <<at, o>>
  /\ ctl' = "caught"
  /\ cacheRows' = cacheRows \cup {at}
  /\ UNCHANGED <<journal, torn, epochFile, revisions, request, at, jumps, epoch, converged,
                 clock, starts, history>>

(* The run ends: past the last stage, by a FatalAbort, or by a kill.  A    *)
(* kill inside the charge may fall while the epoch file is rewritten and   *)
(* leave it unreadable, or after that and leave a partial last line in the *)
(* journal.                                                                *)
Finish ==
  /\ ctl = "walk"
  /\ ctl' = "down"
  /\ UNCHANGED <<files, at, sig, jumps, epoch, converged, clock, starts, history>>

Crash ==
  /\ Crashes
  /\ ctl \in Protocol
  /\ ctl' = "down"
  /\ \/ UNCHANGED <<epochFile, torn>>
     \/ ctl = "charge" /\ epochFile' = epoch /\ torn' \in {torn, TRUE}
     \/ ctl = "charge" /\ epochFile' = None /\ UNCHANGED torn
  /\ UNCHANGED <<journal, revisions, request, cacheRows, at, sig, jumps,
                 epoch, converged, clock, starts, history>>

----------------------------------------------------------------------------
(* The re-entry protocol of the walker, one durable write per step.        *)

StepUnchanged ==
  UNCHANGED <<at, sig, jumps, epoch, converged, starts, history>>

(* notTaken, then (a) the revisions file must parse.                       *)
Caught ==
  /\ ctl = "caught"
  /\ \/ ~NotTaken(sig) /\ ctl' = "invalidate"
     \/ (NotTaken(sig) \/ Faults) /\ ctl' = "decline"
  /\ StepUnchanged /\ UNCHANGED <<files, clock>>

(* (b) invalidateResumeCache never throws: a failed rewrite drops 0 rows,  *)
(* which the B6 guard takes for a failure when matching rows survive.      *)
NoB6Guard(o, dropped) == FALSE
B6Guard(o, dropped) == dropped = {} /\ cacheRows' \cap Suffix(o) # {}

InvalidateCache ==
  /\ ctl = "invalidate"
  /\ \E dropped \in {cacheRows \cap Suffix(sig[2])} \cup (IF Faults THEN {{}} ELSE {}) :
       /\ cacheRows' = cacheRows \ dropped
       /\ ctl' = IF B6Guard(sig[2], dropped) THEN "decline" ELSE "inject"
  /\ StepUnchanged /\ UNCHANGED <<journal, torn, epochFile, revisions, request, clock>>

(* (c) appendRouteBackRequests.                                            *)
InjectRequests ==
  /\ ctl = "inject"
  /\ \/ request' = Inject(sig[2]) /\ ctl' = "bump"
     \/ Faults /\ Inject(sig[2]) # request /\ ctl' = "decline" /\ UNCHANGED request
  /\ StepUnchanged /\ UNCHANGED <<journal, torn, epochFile, revisions, cacheRows, clock>>

(* (d) bumpOwnerRevision: -1 when the file is unreadable or not written.   *)
NotBumped(o) == revisions
Bumped(o) == [revisions EXCEPT ![o] = @ + 1]

BumpRevision ==
  /\ ctl = "bump"
  /\ \/ revisions' = Bumped(sig[2]) /\ ctl' = "charge"
     \/ Faults /\ ctl' = "decline" /\ UNCHANGED revisions
  /\ StepUnchanged /\ UNCHANGED <<journal, torn, epochFile, request, cacheRows, clock>>

(* (e) chargeRoutingJump: the epoch file, whose failing write is ignored   *)
(* and may leave it empty, then one appended line, started on a line of    *)
(* its own when the previous one is torn.                                  *)
Appended(entry) == {entry}

ChargeJump ==
  /\ ctl = "charge"
  /\ epochFile' \in {epoch} \cup (IF Faults THEN {epochFile, None} ELSE {})
  /\ \/ /\ journal' = journal \cup Appended([edge |-> sig, time |-> clock])
        /\ torn' = FALSE
        /\ clock' = clock + 1
        /\ ctl' = "enter"
     \/ /\ Faults
        /\ ctl' = "decline"
        /\ UNCHANGED <<journal, torn, clock>>
  /\ StepUnchanged /\ UNCHANGED <<revisions, request, cacheRows>>

(* The sub-walk re-enters at the owner.                                    *)
Reenter ==
  /\ ctl = "enter"
  /\ at' = sig[2]
  /\ jumps' = jumps + 1
  /\ taken' = [taken EXCEPT ![sig] = @ + 1]
  /\ owed' = owed \cup {sig[2]}
  /\ ctl' = "walk" /\ sig' = <<>>
  /\ UNCHANGED <<files, epoch, converged, clock, starts, began, accounts, approved>>

(* decline(): never returns.  With a pending row the run ends as "replan"  *)
(* and is restarted, otherwise the signal ends it; both end the process.   *)
Decline ==
  /\ ctl = "decline"
  /\ ctl' = "down"
  /\ StepUnchanged /\ UNCHANGED <<files, clock>>

----------------------------------------------------------------------------
Next ==
  \/ StartFresh \/ Resume
  \/ FastForward \/ Approve \/ ExitUnapproved \/ OtherStage
  \/ \E o \in Owners : ThrowRouteBack(o)
  \/ Finish \/ Crash
  \/ Caught \/ InvalidateCache \/ InjectRequests \/ BumpRevision \/ ChargeJump
  \/ Reenter \/ Decline

Spec == Init /\ [][Next]_vars

----------------------------------------------------------------------------
(* MP1/MP2, as a refinement: per logical run, resumes included, an edge is *)
(* taken at most EdgeBudget times (journal.ts:4-12, router.ts:166), and as *)
(* often again for every time a resume found no readable epoch file.       *)
Account == INSTANCE RouteBudget WITH Budget <- EdgeBudget
BudgetPerRun == Account!RBSpec

(* MP1: a sub-walk is never entered on an edge the journal does not hold,  *)
(* whatever is lost: every jump of the run has an entry on file that was   *)
(* made since the run began.                                               *)
ReentryIsJournaled ==
  \A e \in Edge : taken[e] <= Cardinality({n \in journal : n.edge = e /\ n.time >= began})

(* A stage the walk was routed back to, or that carried debt reached by a  *)
(* request or a bump, is not fast-forwarded before it has run again: one   *)
(* of the two is enough to defeat the gate (feedback.ts:145, walker.ts:119).*)
OwedStageRuns == [][FastForward => at \notin owed]_vars

(* When a sub-walk is entered, no resume row of the owner or of anything   *)
(* downstream is left to replay (walker.ts:22-24), even with failed writes *)
SuffixInvalidated == ctl = "enter" => cacheRows \cap Suffix(sig[2]) = {}
=============================================================================
