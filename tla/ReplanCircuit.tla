--------------------------- MODULE ReplanCircuit ---------------------------
(***************************************************************************)
(* The replan circuit: a late stage finds a defect that an upstream        *)
(* artifact owns, records it for that owner, drops the resume rows of the  *)
(* owner and of everything after it, and ends the run as "replan"; the     *)
(* extension restarts the run, and the owner's genuine approval marks the  *)
(* request addressed (src/src/replan/replan.ts, extension.ts:440-456,      *)
(* workflow/run-status.ts).                                                *)
(*                                                                         *)
(* The stages before the last one write and review artifacts; the last     *)
(* stage stands for implementation and verification, the only callers of   *)
(* the trigger.  replan-requests.json is rewritten in place: a kill or a   *)
(* failed write may leave it unreadable, which the code reads as empty.    *)
(* The requests an inline route-back persists are left to RoutingWalker.   *)
(***************************************************************************)
EXTENDS Naturals, FiniteSets

CONSTANTS
  LastStage,        \* stages 1 .. LastStage in skeleton order
  Owners,           \* REPLAN_OWNER_STAGES
  Findings,         \* defects, as far as their fingerprints differ
  Pairs,            \* the owners the classification may name for each
  MaxReplanRounds,  \* maxReplanRounds()
  MaxMishaps        \* bound: failed or torn writes of a state file

Stage == 1 .. LastStage
Human == 0
Suffix(s) == {t \in Stage : t >= s}   \* a stage and downstreamOf it

ASSUME CircuitAssumption ==
  /\ LastStage \in Nat \ {0}
  /\ Owners \subseteq 1 .. LastStage - 1
  /\ Pairs \subseteq Findings \X (Owners \cup {Human})
  /\ MaxReplanRounds \in Nat \ {0}
  /\ MaxMishaps \in Nat

NoRequests == [p \in Pairs |-> "none"]

VARIABLES
  \* durable: the files of the track
  request,    \* replan-requests.json: the latest row per fingerprint
  rounds,     \* and its restart counter
  revisions,  \* artifact-revisions.json
  rows,       \* resume-cache rows per stage: a recorded approval, or others
  \* volatile: the session (extension.ts) and its current run
  ctl,        \* "idle", "run", the next step of the trigger, or "ended"
  at,         \* the stage the run is at
  marker,     \* state.__replan: not set, or who set it
  restarts,   \* replanRestarts of this session
  \* history for the properties, and the bound
  charged,    \* rounds charged on this track
  triggered,  \* restarts that followed a trigger
  lost,       \* times replan-requests.json was lost
  reviewed,   \* requests whose owner's review approved live since
  owed,       \* requests whose trigger was cut before their rows were dropped
  mishaps

files == <<request, rounds, revisions, rows>>
session == <<ctl, at, marker, restarts>>
history == <<charged, triggered, lost, reviewed, owed>>
vars == <<files, session, history, mishaps>>

TypeOK ==
  /\ request \in [Pairs -> {"none", "pending", "addressed", "stale"}]
  /\ rounds \in Nat /\ revisions \in [Owners -> Nat]
  /\ rows \in [Stage -> {"none", "approved", "other"}]
  /\ ctl \in {"idle", "run", "bump", "invalidate", "ended"}
  /\ at \in Stage
  /\ marker \in {"no", "trigger", "declined"}
  /\ restarts \in 0 .. MaxReplanRounds
  /\ charged \in Nat /\ triggered \in Nat /\ lost \in Nat
  /\ reviewed \subseteq Pairs /\ owed \subseteq Pairs
  /\ mishaps \in 0 .. MaxMishaps

Init ==
  /\ request = NoRequests /\ rounds = 0
  /\ revisions = [o \in Owners |-> 0]
  /\ rows = [s \in Stage |-> "none"]
  /\ ctl = "idle" /\ at = 1 /\ marker = "no" /\ restarts = 0
  /\ charged = 0 /\ triggered = 0 /\ lost = 0
  /\ reviewed = {} /\ owed = {} /\ mishaps = 0

----------------------------------------------------------------------------
(* Files.                                                                  *)

PendingFor(o) == {p \in Pairs : p[2] = o /\ request[p] = "pending"}
PendingOwners == {o \in Owners : PendingFor(o) # {}}

(* A row addressed before this run no longer suppresses (T3.4b).           *)
Suppresses(p) == request[p] \in {"pending", "addressed"}

Torn ==
  /\ request' = NoRequests /\ rounds' = 0
  /\ lost' = lost + 1
  /\ reviewed' = {} /\ owed' = {}

(* writeJson: the new contents, or a failure that leaves the old contents  *)
(* or a truncated file behind.                                             *)
WriteFails(seen) ==
  /\ mishaps < MaxMishaps /\ mishaps' = mishaps + 1
  /\ \/ Torn
     \/ reviewed' = seen /\ UNCHANGED <<request, rounds, lost, owed>>

----------------------------------------------------------------------------
(* The session: runOnce, and again while the run ends as "replan".         *)

(* A recorded approval is replayed, unless requests injected at round 1    *)
(* bounce the writer into live calls, whose rows are recorded.             *)
GoesLive == rows[at] # "approved" \/ PendingFor(at) # {}
LiveRows == IF GoesLive THEN {[rows EXCEPT ![at] = "other"]} ELSE {}

SessionOver == ctl' = "idle" /\ at' = 1 /\ marker' = "no" /\ restarts' = 0

BeginRun ==
  /\ ctl' = "run" /\ at' = 1 /\ marker' = "no"
  /\ request' = [p \in Pairs |-> IF request[p] = "addressed" THEN "stale" ELSE request[p]]
  /\ UNCHANGED <<rounds, revisions, charged, lost, reviewed, owed, mishaps>>

(* A fresh entry into the track truncates the resume cache; a resume       *)
(* keeps it.                                                               *)
StartSession ==
  /\ ctl = "idle"
  /\ BeginRun
  /\ rows' \in {rows, [s \in Stage |-> "none"]}
  /\ UNCHANGED <<restarts, triggered>>

MayRestart == marker # "no" /\ restarts < MaxReplanRounds
Uncounted == restarts
Counted == restarts + 1

Restart ==
  /\ ctl = "ended" /\ MayRestart
  /\ BeginRun
  /\ restarts' = Counted
  /\ triggered' = IF marker = "trigger" THEN triggered + 1 ELSE triggered
  /\ UNCHANGED rows

(* The summary is presented: the loop's condition fails, or the signal     *)
(* was aborted, or auto-resume is switched off.                            *)
EndSession ==
  /\ ctl = "ended"
  /\ SessionOver
  /\ UNCHANGED <<files, history, mishaps>>

(* deriveRunStatus: an abort after the trigger masks the marker.  A pass   *)
(* that winds down still calls the summary agent, whose row is recorded.   *)
EndRun ==
  /\ ctl = "run"
  /\ ctl' = "ended"
  /\ marker' \in IF marker = "trigger" THEN {marker, "no"} ELSE {marker}
  /\ rows' \in {rows} \cup LiveRows
  /\ UNCHANGED <<request, rounds, revisions, at, restarts, history, mishaps>>

(* A kill, inside a write of the requests included.                        *)
WritesRequests == at = LastStage \/ PendingFor(at) # {}

Crash ==
  /\ ctl \in {"run", "bump", "invalidate"}
  /\ SessionOver
  /\ \/ UNCHANGED <<request, rounds, lost, reviewed, owed, mishaps>>
     \/ /\ ctl = "run" /\ marker = "no" /\ WritesRequests
        /\ mishaps < MaxMishaps /\ mishaps' = mishaps + 1
        /\ Torn
  /\ rows' \in {rows} \cup LiveRows
  /\ UNCHANGED <<revisions, charged, triggered>>

----------------------------------------------------------------------------
(* The stages.                                                             *)

RunUnchanged ==
  UNCHANGED <<revisions, ctl, marker, restarts, charged, triggered>>

(* consumeReplanRequests: called on a genuine approval, live or replayed;  *)
(* a failed write is not noticed.                                          *)
Consume(o, seen) ==
  \/ /\ request' = [p \in Pairs |-> IF p \in PendingFor(o) THEN "addressed" ELSE request[p]]
     /\ reviewed' = seen
     /\ UNCHANGED <<rounds, lost, owed, mishaps>>
  \/ PendingFor(o) # {} /\ WriteFails(seen)

AtOwner == ctl = "run" /\ marker = "no" /\ at \in Owners

Approve ==
  /\ AtOwner /\ GoesLive
  /\ Consume(at, reviewed \cup PendingFor(at))
  /\ rows' = [rows EXCEPT ![at] = "approved"]
  /\ at' = at + 1
  /\ RunUnchanged

ReplayApproval ==
  /\ AtOwner /\ rows[at] = "approved"
  /\ Consume(at, reviewed)
  /\ at' = at + 1
  /\ UNCHANGED rows
  /\ RunUnchanged

(* A duty override, a carried exit or an accepted limitation consumes      *)
(* nothing; a stage that owns nothing has nothing to consume.              *)
ExitOtherwise ==
  /\ ctl = "run" /\ marker = "no" /\ at # LastStage
  /\ at \in Owners => GoesLive
  /\ rows' = [rows EXCEPT ![at] = "other"]
  /\ at' = at + 1
  /\ UNCHANGED <<request, rounds, lost, reviewed, owed, mishaps>>
  /\ RunUnchanged

(* A declined route-back with rows pending for its owner ends the run as   *)
(* "replan" without a charge and without an invalidation of its own        *)
(* (routing/walker.ts:230-243).                                            *)
DeclinePending(o) ==
  /\ ctl = "run" /\ marker = "no"
  /\ o \in PendingOwners /\ o < at /\ GoesLive
  /\ marker' = "declined" /\ ctl' = "ended"
  /\ rows' = [rows EXCEPT ![at] = "other"]
  /\ UNCHANGED <<request, rounds, revisions, at, restarts, history, mishaps>>

----------------------------------------------------------------------------
(* triggerReplanForFindings, one durable write per step.                   *)

AtTrigger == ctl = "run" /\ marker = "no" /\ at = LastStage

(* The candidates with their owners: each finding is classified once.  A   *)
(* deferred finding becomes a row of the human owner.                      *)
Classified == {C \in SUBSET Pairs : \A p, q \in C : p[1] = q[1] => p = q}
Routed(C) == {p \in C : p[2] # Human}
Deferred(C) == C \ Routed(C)

NewRequests(C) == {p \in Routed(C) : ~Suppresses(p)}
NewRows(C) == NewRequests(C) \cup {p \in Deferred(C) : request[p] = "none"}
Persisted(new) == [p \in Pairs |-> IF p \in new THEN "pending" ELSE request[p]]

UnboundedRounds == TRUE
WithinBudget == rounds < MaxReplanRounds

(* Nothing routable, or no budget: no effect.  Nothing new: the human rows *)
(* are persisted and the trigger declines.                                 *)
PersistHuman(C) ==
  /\ AtTrigger /\ WithinBudget
  /\ Routed(C) # {} /\ NewRequests(C) = {} /\ NewRows(C) # {}
  /\ \/ request' = Persisted(NewRows(C)) /\ UNCHANGED <<rounds, lost, reviewed, owed, mishaps>>
     \/ WriteFails(reviewed)
  /\ UNCHANGED <<revisions, rows, session, charged, triggered>>

WriteRequests(C) ==
  /\ AtTrigger /\ WithinBudget
  /\ NewRequests(C) # {}
  /\ rows' = [rows EXCEPT ![LastStage] = "other"]
  /\ \/ /\ request' = Persisted(NewRows(C))
        /\ rounds' = rounds + 1 /\ charged' = charged + 1
        /\ reviewed' = reviewed \ NewRequests(C)
        /\ owed' = owed \cup NewRequests(C)
        /\ ctl' = "bump"
        /\ UNCHANGED <<lost, mishaps>>
     \/ WriteFails(reviewed) /\ UNCHANGED <<charged, ctl>>
  /\ UNCHANGED <<revisions, at, marker, restarts, triggered>>

(* Every owner with a pending request is bumped; a failed write is not     *)
(* noticed.                                                                *)
BumpRevisions ==
  /\ ctl = "bump"
  /\ \/ /\ revisions' = [o \in Owners |-> IF o \in PendingOwners THEN revisions[o] + 1 ELSE revisions[o]]
        /\ UNCHANGED mishaps
     \/ mishaps < MaxMishaps /\ mishaps' = mishaps + 1 /\ UNCHANGED revisions
  /\ ctl' = "invalidate"
  /\ UNCHANGED <<request, rounds, rows, at, marker, restarts, history>>

DownstreamOnly == UNION {Suffix(o) \ {o} : o \in PendingOwners}
InvalidationSet == UNION {Suffix(o) : o \in PendingOwners}

(* invalidateResumeCache drops all rows of the set, or fails and drops     *)
(* none; B6: rows that survive abort the replan, the round stays charged.  *)
NoB6Guard == FALSE
B6Guard == \E s \in InvalidationSet : rows'[s] # "none"

Invalidate ==
  /\ ctl = "invalidate"
  /\ \/ /\ rows' = [s \in Stage |-> IF s \in InvalidationSet THEN "none" ELSE rows[s]]
        /\ owed' = {p \in owed : request[p] # "pending"}
        /\ UNCHANGED mishaps
     \/ /\ mishaps < MaxMishaps /\ mishaps' = mishaps + 1
        /\ UNCHANGED <<rows, owed>>
  /\ marker' = IF B6Guard THEN "no" ELSE "trigger"
  /\ ctl' = "run"
  /\ UNCHANGED <<request, rounds, revisions, at, restarts, charged, triggered, lost, reviewed>>

----------------------------------------------------------------------------
System ==
  \/ Restart \/ EndSession \/ EndRun
  \/ Approve \/ ReplayApproval \/ ExitOtherwise
  \/ \E o \in Owners : DeclinePending(o)
  \/ \E C \in Classified : PersistHuman(C) \/ WriteRequests(C)
  \/ BumpRevisions \/ Invalidate

Next == StartSession \/ Crash \/ System

Spec == Init /\ [][Next]_vars
FairSpec == Spec /\ WF_vars(System)

----------------------------------------------------------------------------
(* R5 (replan.ts:21-23): the file bounds the rounds of a track, and with   *)
(* them the restarts that follow a trigger, over any number of sessions;   *)
(* only a lost requests file opens the budget again.                       *)
ReplanBudget ==
  /\ charged <= MaxReplanRounds * (lost + 1)
  /\ triggered + (IF marker = "trigger" THEN 1 ELSE 0) <= charged

(* The same for every request whose trigger was not cut short.             *)
AddressedUnlessCut ==
  \A p \in Pairs : request[p] \in {"addressed", "stale"} => p \in reviewed \cup owed

(* replan.ts:15-20 and B6: the restart that follows a trigger finds no row *)
(* of an owner that has to revise, nor of a stage after it, to replay; but *)
(* for the rows the winding-down last stage records after the drop.        *)
RestartRevises ==
  [][Restart /\ marker = "trigger" =>
       \A s \in InvalidationSet \ {LastStage} : rows[s] = "none"]_vars

(* extension.ts:440: the restart loop ends by itself.                      *)
SessionEnds == ctl # "idle" ~> ctl = "idle"
=============================================================================
