--------------------------- MODULE SpecConvergence ---------------------------
(***************************************************************************)
(* Spec convergence (src/src/stages/spec-convergence.ts) over the          *)
(* convergence ledger (src/src/convergence-ledger.ts) and the reviewer's   *)
(* duty (src/src/review-findings.ts): a writer, deterministic gates over   *)
(* what it rendered, a reviewer, and the findings that live on between     *)
(* rounds, runs and stages.                                                *)
(*                                                                         *)
(* A member of Identities is one row of the ledger: what an equal id, an   *)
(* equal fingerprint or a named prior finding resolve to.  Rounds a        *)
(* resumed run replays are ArtifactLoop's subject; here a crash ends the   *)
(* process and the next one starts with the ledger file and the pending    *)
(* requests.                                                               *)
(***************************************************************************)
EXTENDS Naturals, FiniteSets

CONSTANTS
  Identities, Owner, High,  \* defects, the stage that owns each, its severity
  Replan,                 \* the finding a pending replan request asks for
  Gate,                   \* the finding of a failed writer, reviewer or gate
  MaxRounds,              \* MAX_CONVERGENCE_ROUNDS
  Extension,              \* rounds the strict-progress extension adds
  DutyRound,              \* REVIEWER_DUTY_ROUND
  FatalErrors,            \* AGENT_ERROR_FATAL_CONSECUTIVE
  MaxAgents, MaxJumps, MaxCrashes,
  Words, MaxSpoken,       \* bounds: what a review says, of how many findings
  MaxOrphans              \* bound: findings struck off at one entry

Stages == {"upstream", "spec", "downstream"}

ASSUME SpecAssumption ==
  /\ IsFiniteSet(Identities) /\ {Replan, Gate} \subseteq Identities /\ Replan # Gate
  /\ Owner \in [Identities -> Stages] /\ High \in [Identities -> BOOLEAN]
  /\ Owner[Replan] = "spec" /\ Owner[Gate] = "spec" /\ High[Gate]
  /\ {MaxRounds, MaxAgents, MaxJumps, MaxCrashes, MaxSpoken, MaxOrphans} \subseteq Nat
  /\ Words \subseteq {"silent", "blocks", "advisory", "asks", "asks-advisory", "closed"}
  /\ {DutyRound, FatalErrors, Extension} \subseteq Nat \ {0}

VARIABLES
  pc,
  ledger, disk,          \* state.__convergenceLedger and its file
  replanRequest,               \* the replan request: "none", "pending", "addressed"
  round, reviewRound, cap,
  prevOpen, lastOpen,    \* own blockers after the last two readings
  signature,             \* upstream blockers after the last review
  writerErrors, reviewErrors,
  strike,                \* the metadata strike of this run was used
  bounced,               \* specWriterBounceSpent
  injected,              \* round1InjectedIds is not empty
  budget, jumps, crashes,
  \* history
  traced,                \* the rendered spec passed the trace gate
  patched,               \* it is the rewrite a bounce asked for
  orphans                \* what the last entry struck off

counters == <<round, reviewRound, cap, writerErrors, reviewErrors>>
progress == <<prevOpen, lastOpen, signature>>
once == <<strike, bounced, injected>>
bounds == <<budget, jumps, crashes>>
ghosts == <<traced, patched, orphans>>
specVars == <<pc, ledger, disk, replanRequest, counters, progress, once, bounds, ghosts>>

Ended == {"approved", "carried", "routed", "fatal"}
Working == {"writing", "tracing", "bouncing", "family", "retrace", "reviewing"}

(* A ledger row.                                                           *)
Status == {"absent", "open", "addressed", "verified", "deferred", "needs-human", "superseded"}
Detected == {"spec", "replan", "verify"}
Row == [status : Status, blocking : BOOLEAN, downgraded : BOOLEAN, detected : Detected]
Absent == [status |-> "absent", blocking |-> FALSE, downgraded |-> FALSE, detected |-> "spec"]
Empty == [f \in Identities |-> Absent]


(* What a review says of a finding: nothing, that it blocks, that it is    *)
(* advisory, that a human must decide (and whether that blocks), or that   *)
(* it is closed.  A malformed review fails its gate whatever its verdict.  *)
Reviews ==
  {says \in [Identities -> Words] :
     says[Gate] = "silent" /\ Cardinality({f \in Identities : says[f] # "silent"}) <= MaxSpoken}

NoReading == Cardinality(Identities) + 1

----------------------------------------------------------------------------
(* The ledger.                                                             *)

Active(row) == row.status \in {"open", "addressed", "needs-human"}
Blocks(row) == Active(row) /\ row.blocking
Blocking(l) == {f \in Identities : Blocks(l[f])}
Actionable(f) == Owner[f] \in {"upstream", "spec"}

(* normalizeFinding                                                        *)
NewRow(status, blocking, duty, detected) ==
  [status |-> status,
   blocking |-> IF duty \/ status \in {"verified", "deferred"} THEN FALSE
                ELSE status = "needs-human" \/ blocking,
   downgraded |-> duty, detected |-> detected]

(* recordConvergenceFindings: a merge never weakens a blocker, except for  *)
(* the duty layer's own classification                                     *)
Merge(old, new) ==
  IF old.status = "absent" THEN new
  ELSE [status |-> IF new.status = "addressed" THEN "open" ELSE new.status,
        blocking |-> ~new.downgraded /\ (old.blocking \/ new.blocking),
        downgraded |-> new.downgraded \/ (old.downgraded /\ ~new.blocking),
        detected |-> new.detected]

Recorded(l, rows) == [f \in Identities |-> IF f \in DOMAIN rows THEN Merge(l[f], rows[f]) ELSE l[f]]

GateRow == [f \in {Gate} |-> NewRow("open", TRUE, FALSE, "spec")]

(* priorFindingsForInjection: what a new walk is told of the last one      *)
Injectable(row) ==
  /\ ~row.downgraded
  /\ IF row.status \in {"open", "needs-human"} THEN row.blocking ELSE row.status = "addressed"
Prior == {f \in Identities : Injectable(disk[f])}

(* Of these, the ones that cite an anchor the upstream documents do not    *)
(* have (they were rewritten, or the reviewer named one that never was)    *)
(* are struck off, on disk and nowhere else                                *)
Orphans == {some \in SUBSET Prior : Cardinality(some) <= MaxOrphans}
StruckOff(some) ==
  [f \in Identities |->
     IF f \in some
     THEN [disk[f] EXCEPT !.status = "superseded", !.blocking = FALSE, !.downgraded = TRUE]
     ELSE disk[f]]

PriorRowsAsFound(told) == [f \in told |-> NewRow(disk[f].status, TRUE, FALSE, disk[f].detected)]

PriorRows(told) == [f \in told |-> NewRow(disk[f].status, TRUE, FALSE, "spec")]
RequestRow ==
  IF replanRequest = "pending" THEN [f \in {Replan} |-> NewRow("open", TRUE, FALSE, "replan")] ELSE << >>

(* markConvergenceFindingsAddressedFromResponses: a writer's claim         *)
Claimed(l, answered) ==
  [f \in Identities |-> IF f \in answered THEN [l[f] EXCEPT !.status = "addressed"] ELSE l[f]]

(* markConvergenceFindingsVerified on approval                             *)
Closes(f, row, genuine) ==
  /\ Active(row) /\ ~row.downgraded /\ Actionable(f)
  /\ row.detected = "spec" \/ (row.detected = "replan" /\ genuine)
Verified(l, genuine) ==
  [f \in Identities |-> IF Closes(f, l[f], genuine) THEN [l[f] EXCEPT !.status = "verified"] ELSE l[f]]

Keep(l) == ledger' = l /\ disk' = l

----------------------------------------------------------------------------
(* The review.                                                             *)

(* reviewFindingBlocks and reviewFindingBlocksVerdict                      *)
FindingBlocks(review, f) == review.says[f] \in {"blocks", "asks", "asks-advisory"}
PinsVerdict(review, f) == f \notin review.duty /\ review.says[f] \in {"blocks", "asks"}

(* enforceReviewerConvergenceDuty: from DutyRound on a blocker that is new *)
(* and not of high severity becomes advisory                               *)
Known(l) == {f \in Identities : l[f].blocking /\ ~l[f].downgraded}
Downgraded(review, n) ==
  IF n < DutyRound THEN {}
  ELSE {f \in Identities \ Known(ledger) : FindingBlocks(review, f) /\ ~High[f]}

ReviewRow(review, f) ==
  CASE review.says[f] = "closed" -> NewRow("verified", FALSE, FALSE, "spec")
    [] review.says[f] \in {"asks", "asks-advisory"} ->
         NewRow("needs-human", TRUE, f \in review.duty, "spec")
    [] OTHER -> NewRow("open", review.says[f] = "blocks", f \in review.duty, "spec")
ReviewRows(review) ==
  [f \in {g \in Identities : review.says[g] # "silent"} |-> ReviewRow(review, f)]

Pins(review) == {f \in Identities : PinsVerdict(review, f)}
Carried(review) == {f \in Pins(review) : ~Actionable(f)}
Genuine(review) == review.verdict = "approved"
Approves(review) ==
  /\ Genuine(review) \/ (review.verdict = "changes" /\ review.duty # {})
  /\ Pins(review) = Carried(review)

OwnOpen(l) == Cardinality({f \in Blocking(l) : Owner[f] = "spec"})
UpstreamOpen(l) == {f \in Blocking(l) : Owner[f] = "upstream"}

----------------------------------------------------------------------------
SpecInit ==
  /\ pc = "start" /\ ledger = Empty /\ disk = Empty
  /\ replanRequest \in {"none", "pending"}
  /\ round = 0 /\ reviewRound = 0 /\ cap = MaxRounds
  /\ prevOpen = NoReading /\ lastOpen = NoReading /\ signature = {}
  /\ writerErrors = 0 /\ reviewErrors = 0
  /\ strike = FALSE /\ bounced = FALSE /\ injected = FALSE
  /\ budget = MaxAgents /\ jumps = 0 /\ crashes = 0
  /\ traced = FALSE /\ patched = FALSE /\ orphans = {}

(* run() is entered: its locals start over, the ledger and the strike of   *)
(* the run do not                                                          *)
Enter ==
  /\ round' = 0 /\ reviewRound' = 0 /\ cap' = MaxRounds
  /\ writerErrors' = 0 /\ reviewErrors' = 0
  /\ prevOpen' = NoReading /\ lastOpen' = NoReading /\ signature' = {}
  /\ bounced' = FALSE /\ injected' = FALSE

Start == pc = "start" /\ pc' = "round" /\ Enter
         /\ UNCHANGED <<ledger, disk, replanRequest, strike, bounds, ghosts>>

Progressed == prevOpen # NoReading /\ lastOpen < prevOpen /\ lastOpen > 0
MayExtend == cap = MaxRounds /\ Progressed

(* Past the cap: upstream blockers are routed back, or a judge may word    *)
(* the fatal end                                                           *)
AtCap ==
  IF UpstreamOpen(ledger) # {} /\ jumps < MaxJumps
  THEN pc' = "routed" /\ jumps' = jumps + 1
  ELSE pc' = "fatal" /\ UNCHANGED jumps

(* What is told is recorded anew, and with it the ledger in memory goes    *)
(* over the file: what was struck off comes back                           *)
Inject(told) ==
  /\ IF told = {} /\ replanRequest # "pending"
     THEN UNCHANGED ledger /\ disk' = StruckOff(Prior)
     ELSE Keep(Recorded(Recorded(ledger, PriorRows(told)), RequestRow))
  /\ injected' = (told \ {Gate} # {} \/ replanRequest = "pending")

BeginRound ==
  /\ pc = "round" /\ budget > 0
  /\ IF round + 1 > cap /\ ~MayExtend
     THEN AtCap /\ UNCHANGED <<ledger, disk, injected, cap, round, orphans>>
     ELSE /\ pc' = "writing" /\ round' = round + 1
          /\ cap' = IF round + 1 > cap THEN cap + Extension ELSE cap
          /\ IF round = 0
             THEN \E some \in Orphans : Inject(Prior \ some) /\ orphans' = some
             ELSE UNCHANGED <<ledger, disk, injected, orphans>>
          /\ UNCHANGED jumps
  /\ UNCHANGED <<replanRequest, reviewRound, writerErrors, reviewErrors, progress, strike, bounced, budget,
                 crashes, traced, patched>>

OutOfBudget ==
  /\ pc = "round" /\ budget = 0 /\ pc' = "fatal"
  /\ UNCHANGED <<ledger, disk, replanRequest, counters, progress, once, bounds, ghosts>>

(* A call of the writer: what it renders has passed no gate yet.  From     *)
(* here on only an orphan that a later stage sent back is of interest.     *)
CallAgent == budget > 0 /\ budget' = budget - 1
Render(isPatch) ==
  /\ traced' = FALSE /\ patched' = isPatch
  /\ orphans' = {f \in orphans : ledger[f].detected = "verify"}
NoMemory == prevOpen' = NoReading /\ lastOpen' = NoReading /\ UNCHANGED signature

(* a round that ends without a review                                      *)
NextRound == pc' = "round" /\ NoMemory

Write ==
  /\ pc = "writing" /\ CallAgent /\ Render(FALSE)
  /\ \/ /\ writerErrors' = 0 /\ pc' = "tracing" /\ UNCHANGED <<prevOpen, lastOpen, signature>>
        /\ \E answered \in SUBSET Blocking(ledger) : Keep(Claimed(ledger, answered))
     \/ Keep(Recorded(ledger, GateRow)) /\ UNCHANGED writerErrors /\ NextRound  \* the task failed
     \/ Keep(Recorded(ledger, GateRow)) /\ UNCHANGED <<writerErrors, progress>> /\ pc' = "fatal"
     \/ /\ writerErrors' = writerErrors + 1
        /\ IF writerErrors' >= FatalErrors
           THEN pc' = "fatal" /\ UNCHANGED <<ledger, disk, progress>>
           ELSE Keep(Recorded(ledger, GateRow)) /\ NextRound
  /\ UNCHANGED <<replanRequest, round, reviewRound, cap, reviewErrors, once, jumps, crashes>>

(* The trace gate; the first metadata-only failure of a run costs a call   *)
(* but no round                                                            *)
TracePasses ==
  /\ pc = "tracing" /\ pc' = "bouncing" /\ traced' = TRUE
  /\ UNCHANGED <<ledger, disk, replanRequest, counters, progress, once, bounds, patched, orphans>>

TraceStrike ==
  /\ pc = "tracing" /\ ~strike /\ CallAgent /\ strike' = TRUE
  /\ patched' = FALSE /\ UNCHANGED orphans
  /\ \/ traced' = TRUE /\ pc' = "bouncing" /\ UNCHANGED <<ledger, disk, progress>>
     \/ traced' = FALSE /\ Keep(Recorded(ledger, GateRow)) /\ NextRound
  /\ UNCHANGED <<replanRequest, counters, bounced, injected, jumps, crashes>>

TraceFails ==
  /\ pc = "tracing" /\ NextRound /\ Keep(Recorded(ledger, GateRow))
  /\ UNCHANGED <<replanRequest, counters, once, bounds, ghosts>>

(* The coverage, anchor and validator gates share one bounce: the writer   *)
(* is asked again and what it renders goes on to the family gate           *)
AfterBounce == "family"
Bounce ==
  /\ pc = "bouncing" /\ ~bounced /\ bounced' = TRUE
  /\ CallAgent /\ Render(TRUE) /\ UNCHANGED <<ledger, disk>>
  /\ (pc' = AfterBounce /\ UNCHANGED progress) \/ NextRound
  /\ UNCHANGED <<replanRequest, counters, strike, injected, jumps, crashes>>

NoBounce ==
  /\ pc = "bouncing" /\ pc' = "family"
  /\ UNCHANGED <<ledger, disk, replanRequest, counters, progress, once, bounds, ghosts>>

(* specFamilyFallbackAfterTrace                                            *)
FamilyPasses ==
  /\ pc = "family" /\ pc' = "reviewing"
  /\ UNCHANGED <<ledger, disk, replanRequest, counters, progress, once, bounds, ghosts>>

StrikeToReview == "reviewing"

AfterStrike == "retrace"
FamilyStrike ==
  /\ pc = "family" /\ ~strike /\ strike' = TRUE /\ CallAgent /\ Render(FALSE)
  /\ \/ pc' = AfterStrike /\ UNCHANGED <<ledger, disk, progress>>
     \/ Keep(Recorded(ledger, GateRow)) /\ NextRound
  /\ UNCHANGED <<replanRequest, counters, bounced, injected, jumps, crashes>>

FamilyFails ==
  /\ pc = "family" /\ Keep(Recorded(ledger, GateRow)) /\ NextRound
  /\ UNCHANGED <<replanRequest, counters, once, bounds, ghosts>>

Retrace ==
  /\ pc = "retrace"
  /\ \/ traced' = TRUE /\ pc' = "reviewing" /\ UNCHANGED <<ledger, disk, progress>>
     \/ traced' = FALSE /\ Keep(Recorded(ledger, GateRow)) /\ NextRound
  /\ UNCHANGED <<replanRequest, counters, once, bounds, patched, orphans>>

(* Without budget a task fails instead of calling                          *)
Refused ==
  /\ pc \in {"writing", "reviewing"} /\ budget = 0
  /\ Keep(Recorded(ledger, GateRow)) /\ NextRound
  /\ UNCHANGED <<replanRequest, counters, once, bounds, ghosts>>

----------------------------------------------------------------------------
(* The verdict of a round.                                                 *)

ReviewFails ==
  /\ pc = "reviewing" /\ CallAgent
  /\ \/ Keep(Recorded(ledger, GateRow)) /\ UNCHANGED reviewErrors /\ NextRound
     \/ Keep(Recorded(ledger, GateRow)) /\ UNCHANGED <<reviewErrors, progress>> /\ pc' = "fatal"
     \/ /\ reviewErrors' = reviewErrors + 1
        /\ IF reviewErrors' >= FatalErrors
           THEN pc' = "fatal" /\ UNCHANGED <<ledger, disk, progress>>
           ELSE Keep(Recorded(ledger, GateRow)) /\ NextRound
  /\ UNCHANGED <<replanRequest, round, reviewRound, cap, writerErrors, once, jumps, crashes, ghosts>>

Approval(review) ==
  /\ Approves(review)
  /\ LET rows == IF review.duty # {} \/ Carried(review) # {} THEN ReviewRows(review) ELSE << >>
     IN Keep(Verified(Recorded(ledger, rows), Genuine(review)))
  /\ replanRequest' = IF Genuine(review) /\ replanRequest = "pending" THEN "addressed" ELSE replanRequest
  /\ pc' = "approved"
  /\ UNCHANGED <<progress, jumps>>

(* Every open blocker is owned downstream: the walk goes on to its owner   *)
MayCarry(review) ==
  /\ ~Approves(review) /\ review.verdict # "malformed" /\ Carried(review) # {}
  /\ Pins(review) = Carried(review) /\ \A f \in Blocking(ledger) : ~Actionable(f)

Carry(review) ==
  /\ MayCarry(review)
  /\ Keep(Recorded(ledger, ReviewRows(review)))
  /\ pc' = "carried"
  /\ UNCHANGED <<replanRequest, progress, jumps>>

(* The same upstream blockers twice in a row are routed to their owner     *)
Reject(review) ==
  /\ ~Approves(review) /\ ~MayCarry(review)
  /\ Keep(Recorded(ledger, ReviewRows(review)))
  /\ prevOpen' = lastOpen /\ lastOpen' = OwnOpen(ledger')
  /\ signature' = UpstreamOpen(ledger')
  /\ IF signature' # {} /\ signature' = signature /\ jumps < MaxJumps
     THEN pc' = "routed" /\ jumps' = jumps + 1
     ELSE pc' = "round" /\ UNCHANGED jumps
  /\ UNCHANGED replanRequest

Review ==
  /\ pc = "reviewing" /\ CallAgent
  /\ reviewErrors' = 0 /\ reviewRound' = reviewRound + 1
  /\ \E verdict \in {"approved", "changes", "malformed"}, says \in Reviews :
       LET heard == [verdict |-> verdict, duty |-> {}, says |-> says]
           review == [heard EXCEPT !.duty = Downgraded(heard, reviewRound')]
       IN Approval(review) \/ Carry(review) \/ Reject(review)
  /\ UNCHANGED <<round, cap, writerErrors, once, crashes, traced, patched, orphans>>

----------------------------------------------------------------------------
(* The owner of a routed finding has run, or a later stage sends a finding *)
(* back here: its row is recorded as detected there, then the node is      *)
(* entered again                                                           *)
Reenter ==
  /\ pc = "routed" /\ pc' = "start"
  /\ UNCHANGED <<ledger, disk, replanRequest, counters, progress, once, bounds, ghosts>>

SentBack ==
  /\ pc \in {"approved", "carried"} /\ jumps < MaxJumps /\ jumps' = jumps + 1
  /\ \E f \in Identities \ {Gate, Replan} :
       /\ Actionable(f)
       /\ Keep(Recorded(ledger, [g \in {f} |-> NewRow("open", TRUE, FALSE, "verify")]))
  /\ pc' = "start" /\ orphans' = {}
  /\ UNCHANGED <<replanRequest, counters, progress, once, budget, crashes, traced, patched>>

ProcessDies ==
  /\ pc \notin Ended /\ crashes < MaxCrashes /\ crashes' = crashes + 1
  /\ pc' = "start" /\ ledger' = Empty /\ strike' = FALSE /\ Enter
  /\ budget' = MaxAgents /\ jumps' = 0
  /\ UNCHANGED <<disk, replanRequest, ghosts>>

Done == pc \in Ended /\ UNCHANGED specVars

SpecNext ==
  \/ Start \/ BeginRound \/ OutOfBudget \/ Write \/ TracePasses \/ TraceStrike \/ TraceFails
  \/ Bounce \/ NoBounce \/ FamilyPasses \/ FamilyStrike \/ FamilyFails \/ Retrace \/ Refused
  \/ ReviewFails \/ Review \/ Reenter \/ SentBack \/ ProcessDies \/ Done

SpecSpec == SpecInit /\ [][SpecNext]_specVars

----------------------------------------------------------------------------
(* Properties.                                                             *)

SpecTypeOK ==
  /\ pc \in Ended \cup Working \cup {"start", "round"}
  /\ {ledger, disk} \subseteq [Identities -> Row]
  /\ replanRequest \in {"none", "pending", "addressed"}
  /\ round <= cap /\ reviewRound <= round /\ cap \in {MaxRounds, MaxRounds + Extension}
  /\ {writerErrors, reviewErrors} \subseteq 0 .. FatalErrors
  /\ {prevOpen, lastOpen} \subseteq 0 .. NoReading /\ signature \subseteq Identities
  /\ budget \in 0 .. MaxAgents /\ jumps \in 0 .. MaxJumps /\ crashes \in 0 .. MaxCrashes

(* spec-convergence.ts:648: a render that passed no trace gate does not    *)
(* reach review.  It holds for every rewrite but the one a bounce asks for *)
TracedUnlessBounced == pc \in {"reviewing", "approved", "carried"} => traced \/ patched

(* An approval leaves no blocker behind that this stage or one before it   *)
(* owns, wherever and in whatever run it was found.  A request to re-plan  *)
(* stays open when only the duty layer overrode the verdict, and so does   *)
(* what a later stage sent back and the entry struck off as citing an      *)
(* anchor that is not there: nobody was told of it.                        *)
ApprovalCloses ==
  pc = "approved" => \A f \in Blocking(ledger) :
    \/ ~Actionable(f)
    \/ ledger[f].detected = "replan" /\ replanRequest = "pending"
    \/ ledger[f].detected = "verify" /\ f \in orphans

(* A blocker that was open, or only claimed to be fixed, when a process    *)
(* died blocks again from the first round of the next one, unless it cites *)
(* an anchor that is gone.                                                 *)
NothingForgotten ==
  [][pc = "round" /\ round = 0 /\ pc' = "writing" =>
       \A f \in Identities : Blocks(disk[f]) => Blocks(ledger'[f]) \/ f \in orphans']_specVars
=============================================================================
