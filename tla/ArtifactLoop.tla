---------------------------- MODULE ArtifactLoop ----------------------------
(***************************************************************************)
(* One artifact-convergence loop (src/src/stages/artifact-convergence/     *)
(* node.ts, rounds.ts) over the memoizing agent and its append-only resume *)
(* cache (resume.ts): writer and reviewer rounds, the round budget a       *)
(* resumed run gets, the strict-progress extension, the dead-runtime fuse, *)
(* and the re-entry of the loop by a route-back.                           *)
(*                                                                         *)
(* A call's key is its role and occurrence number in this process; a       *)
(* resumed process counts from 1 again and replays the rows of the file    *)
(* it loaded.  The history variables say what a row was computed from.     *)
(***************************************************************************)
EXTENDS Naturals, FiniteSets

CONSTANTS
  MaxRounds,                      \* maxRounds
  PROGRESS_EXTENSION_ROUNDS,
  MAX_TOTAL_ROUND_MULTIPLE,
  AGENT_ERROR_FATAL_CONSECUTIVE,
  ESCALATION_RETRY_CAP,
  MaxAgents,                      \* live calls the process may make here
  MaxCalls,                       \* bound: live calls on the track
  MaxStarts,                      \* bound: processes
  MaxReroutes,                    \* bound: route-backs that re-enter the loop
  MaxMishaps,                     \* bound: agent errors and failed appends
  MaxDetours                      \* bound: live writer controls a gate turns back

ASSUME LoopAssumption ==
  /\ {MaxRounds, PROGRESS_EXTENSION_ROUNDS, MAX_TOTAL_ROUND_MULTIPLE,
      AGENT_ERROR_FATAL_CONSECUTIVE, ESCALATION_RETRY_CAP, MaxAgents,
      MaxCalls, MaxStarts, MaxReroutes, MaxMishaps, MaxDetours} \subseteq Nat
  /\ AGENT_ERROR_FATAL_CONSECUTIVE > 0

Role == {"writer", "review"}

(* A writer's control is valid, fails validation (malformed: on contract   *)
(* metadata alone), or is bounced by the gate before validation (unmapped) *)
(* or by the one after it (bounce); a reviewer rejects with 1 or 2 own     *)
(* blockers, finds only downstream-owned or some upstream-owned ones, or   *)
(* approves.  An error has body text (it is persisted); a dead call has    *)
(* none (it never is).                                                     *)
Mishap == {"error", "dead"}
Bounced == {"unmapped", "bounce"}
Detour == {"invalid", "malformed"} \cup Bounced
WriterOut == {"valid"} \cup Detour \cup Mishap
ReviewOut == {"approve", "reject1", "reject2", "carried", "upstream"} \cup Mishap
Outcomes(role) == IF role = "writer" THEN WriterOut ELSE ReviewOut

VARIABLES
  \* disk
  rows,       \* .resume-cache.jsonl, last row per key
  torn,       \* its last line is partial
  segment,    \* the last journaled jump targets this stage
  \* process
  cache,      \* the in-memory Map: loaded at start, written by live calls
  occ,        \* occurrence counter per role
  spent,      \* live calls
  escal,      \* __escalationRetries of this blocker
  struck,     \* writerMetadataRetryUsed of this stage
  ctl,        \* where the loop is, or how it ended
  loop,       \* the locals of run()
  \* history
  ids,        \* results produced so far on the track
  last,       \* the result (or decision) this process saw last
  starts, reroutes, mishaps, detours,
  guided,     \* a human decision has steered the loop
  drifted,    \* a gate answered a replayed control otherwise than the first time
  stale       \* a memo hit returned a row computed after something else

disk == <<rows, torn, segment>>
proc == <<cache, occ, spent, escal, struck>>
hist == <<ids, last, starts, reroutes, mishaps, detours, guided, drifted, stale>>
vars == <<disk, proc, ctl, loop, hist>>

Lesser(a, b) == IF a < b THEN a ELSE b
Greater(a, b) == IF a > b THEN a ELSE b
Ceiling == MaxRounds * MAX_TOTAL_ROUND_MULTIPLE
effectiveRoundCap(prior) == Lesser(prior + MaxRounds, Ceiling)

extendedRoundCap(cap) == Lesser(cap + PROGRESS_EXTENSION_ROUNDS, Ceiling)

(* No reading of the open-blocker count yet (POSITIVE_INFINITY).           *)
NoReading == 0

EnterLoop(prior, priorReview, cap) ==
  [round |-> 0, prior |-> prior, priorReview |-> priorReview, cap |-> cap,
   reviewRound |-> 0, prevOpen |-> NoReading, lastOpen |-> NoReading,
   signature |-> "none", extended |-> FALSE, bounced |-> "no",
   judged |-> FALSE, writerErrors |-> 0, reviewErrors |-> 0,
   artifact |-> 0, saw |-> 0, live |-> 0, liveReviews |-> 0, liveErrors |-> 0]

Calling == {"write", "strike", "bounce", "review"}
Ended == {"approved", "accepted", "carried", "routed", "capfatal", "fatal"}
Row == [role : Role, n : Nat, id : Nat, pred : Nat,
        out : WriterOut \cup ReviewOut]

Locals ==
  [round : Nat, prior : Nat, priorReview : Nat, cap : 0 .. Ceiling, reviewRound : Nat,
   prevOpen : 0 .. 2, lastOpen : 0 .. 2, signature : {"none"} \cup ReviewOut,
   extended : BOOLEAN, bounced : {"no"} \cup Bounced, judged : BOOLEAN,
   writerErrors : 0 .. AGENT_ERROR_FATAL_CONSECUTIVE,
   reviewErrors : 0 .. AGENT_ERROR_FATAL_CONSECUTIVE,
   artifact : Nat, saw : Nat, live : Nat, liveReviews : Nat, liveErrors : Nat]

TypeOK ==
  /\ rows \subseteq Row /\ cache \subseteq Row
  /\ \A r, q \in rows : r.role = q.role /\ r.n = q.n => r = q
  /\ torn \in BOOLEAN /\ segment \in BOOLEAN
  /\ occ \in [Role -> Nat] /\ spent \in 0 .. MaxAgents
  /\ escal \in 0 .. ESCALATION_RETRY_CAP
  /\ ctl \in {"down", "enter", "round"} \cup Calling \cup Ended
  /\ loop \in Locals
  /\ {ids, last, starts, reroutes, mishaps, detours} \subseteq Nat
  /\ {guided, drifted, stale, struck} \subseteq BOOLEAN

Init ==
  /\ rows = {} /\ torn = FALSE /\ segment = FALSE
  /\ cache = {} /\ occ = [r \in Role |-> 0] /\ spent = 0
  /\ escal = 0 /\ struck = FALSE
  /\ ctl = "down" /\ loop = EnterLoop(0, 0, 0)
  /\ ids = 0 /\ last = 0 /\ starts = 0 /\ reroutes = 0 /\ mishaps = 0
  /\ detours = 0 /\ guided = FALSE /\ drifted = FALSE /\ stale = FALSE

----------------------------------------------------------------------------
(* The resume cache.                                                       *)

Keyed(store, role, n) == {r \in store : r.role = role /\ r.n = n}
Stored(store, row) == (store \ Keyed(store, row.role, row.n)) \cup {row}

(* appendResumeResult: a partial last line is ended first; glued to it the *)
(* new row would be as unreadable as the fragment.                         *)
Glued(row) == IF torn THEN rows ELSE Stored(rows, row)
Appended(row) == Stored(rows, row)

(* countStageRounds: the highest occurrence recorded without an error.     *)
countStageRounds(role) ==
  LET good == {r.n : r \in {q \in rows : q.role = role /\ q.out # "error"}}
      top  == {n \in good : \A k \in good : k <= n} IN
  IF top = {} THEN 0 ELSE CHOOSE n \in top : TRUE

(* The occurrence number of the next call.  Starting from the number of    *)
(* recorded rounds would skip the replay that rebuilds the loop's state.   *)
Occurrence(role) == occ[role] + 1

(* A cached error is a miss; anything else is returned as it was.          *)
Hits(role) == {r \in Keyed(cache, role, Occurrence(role)) : r.out # "error"}

Replay(role, out) ==
  \E row \in Hits(role) :
    /\ out = row.out
    /\ last' = row.id
    /\ stale' = (stale \/ row.pred # last)
    /\ UNCHANGED <<rows, torn, cache, spent, ids, mishaps, detours>>

(* The row of a call goes to the Map and to the file; a failing append is  *)
(* swallowed, and may have left a part of the line.                        *)
Record(row) ==
  /\ cache' = Stored(cache, row)
  /\ \/ rows' = Appended(row) /\ torn' = FALSE
        /\ mishaps' = IF row.out \in Mishap THEN mishaps + 1 ELSE mishaps
     \/ /\ mishaps < MaxMishaps /\ mishaps' = mishaps + 1
        /\ UNCHANGED rows /\ torn' \in {torn, TRUE}

Live(role, out) ==
  /\ Hits(role) = {}
  /\ out \in Outcomes(role)
  /\ ids < MaxCalls
  /\ out \in Mishap => mishaps < MaxMishaps
  /\ out \in Detour => detours < MaxDetours
  /\ detours' = IF out \in Detour THEN detours + 1 ELSE detours
  /\ spent' = spent + 1
  /\ ids' = ids + 1 /\ last' = ids + 1
  /\ IF out = "dead" THEN mishaps' = mishaps + 1 /\ UNCHANGED <<rows, torn, cache>>
     ELSE Record([role |-> role, n |-> Occurrence(role), id |-> ids + 1,
                  pred |-> last, out |-> out])
  /\ UNCHANGED stale

(* createMemoizingAgent; a task is not started once the budget is spent.   *)
Call(role, out) ==
  /\ spent < MaxAgents
  /\ occ' = [occ EXCEPT ![role] = Occurrence(role)]
  /\ Replay(role, out) \/ Live(role, out)
  /\ UNCHANGED <<segment, starts, reroutes>>

(* The locals with the call accounted to the history fields.               *)
Seen(role) ==
  LET isLive == Hits(role) = {} IN
  [loop EXCEPT !.live = IF isLive THEN @ + 1 ELSE @,
               !.liveReviews = IF isLive /\ role = "review" THEN @ + 1 ELSE @]

----------------------------------------------------------------------------
(* The process and the walk around the loop.                               *)

Boot ==
  /\ ctl = "down" /\ starts < MaxStarts
  /\ starts' = starts + 1
  /\ cache' = rows /\ occ' = [r \in Role |-> 0] /\ spent' = 0
  /\ escal' = 0 /\ struck' = FALSE
  /\ last' = 0
  /\ ctl' = "enter"
  /\ UNCHANGED <<disk, loop, ids, reroutes, mishaps, detours, guided, drifted, stale>>

(* Loop entry: recorded rounds extend the budget, unless the last journaled*)
(* jump targets this stage.                                                *)
Enter ==
  /\ ctl = "enter"
  /\ LET prior == countStageRounds("writer") IN
     loop' = EnterLoop(prior, countStageRounds("review"),
                       effectiveRoundCap(IF segment THEN 0 ELSE prior))
  /\ ctl' = "round"
  /\ UNCHANGED <<disk, proc, hist>>

(* The process dies, or the run ends and is resumed; a kill inside an      *)
(* append leaves a partial line.                                           *)
Stop ==
  /\ ctl # "down"
  /\ ctl' = "down"
  /\ torn' \in {torn} \cup (IF ctl \in Calling THEN {TRUE} ELSE {})
  /\ UNCHANGED <<rows, segment, proc, loop, hist>>

(* A jump to this stage or to one upstream drops the stage's rows from the *)
(* FILE and walks into the loop again in the same process.                 *)
Reroute ==
  /\ ctl \in {"approved", "accepted", "carried", "routed"}
  /\ reroutes < MaxReroutes
  /\ reroutes' = reroutes + 1
  /\ rows' = {} /\ torn' = FALSE
  /\ segment' \in IF ctl = "routed" THEN {FALSE} ELSE BOOLEAN
  /\ ctl' = "enter"
  /\ UNCHANGED <<proc, loop, ids, last, starts, mishaps, detours, guided, drifted, stale>>

----------------------------------------------------------------------------
(* A round.                                                                *)

NoProgress(l) == [l EXCEPT !.prevOpen = NoReading, !.lastOpen = NoReading]

StrictProgress ==
  /\ ~loop.extended
  /\ loop.prevOpen # NoReading
  /\ loop.lastOpen < loop.prevOpen /\ loop.lastOpen > 0

(* The cap only fires on a fresh round.                                    *)
PastCap(r) == r > loop.cap /\ r > loop.prior + 1

(* ctx.budget.check() fails.                                               *)
BudgetExhausted ==
  /\ ctl = "round" /\ spent = MaxAgents
  /\ ctl' = "fatal"
  /\ UNCHANGED <<disk, proc, loop, hist>>

(* One round before the cap a judge may end the run with its diagnosis.    *)
JudgeEscalates ==
  /\ ctl = "round" /\ spent < MaxAgents
  /\ loop.round + 1 = loop.cap - 1 /\ ~loop.judged
  /\ ctl' = "fatal"
  /\ UNCHANGED <<disk, proc, loop, hist>>

NextRound ==
  /\ ctl = "round" /\ spent < MaxAgents
  /\ LET r == loop.round + 1
         l == [loop EXCEPT !.round = r, !.judged = @ \/ r = loop.cap - 1] IN
     \/ /\ ~PastCap(r)
        /\ loop' = l /\ ctl' = "write"
     \/ /\ PastCap(r) /\ StrictProgress
        /\ loop' = [l EXCEPT !.extended = TRUE, !.cap = extendedRoundCap(@)]
        /\ ctl' = "write"
     \/ /\ PastCap(r) /\ ~StrictProgress
        /\ loop' = l
        /\ ctl' \in {"capfatal", "routed"}
  /\ UNCHANGED <<disk, proc, hist>>

(* task: the budget is spent; the stage fails before it calls.             *)
Refused ==
  /\ ctl \in Calling /\ spent = MaxAgents
  /\ loop' = NoProgress(loop) /\ ctl' = "round"
  /\ UNCHANGED <<disk, proc, hist>>

(* An agent error ends the round, or the run when it is not retryable;     *)
(* errors of fresh rounds are counted.                                     *)
Fresh == loop.round > loop.prior
AfterError(errors) ==
  {"fatal"} \cup IF errors < AGENT_ERROR_FATAL_CONSECUTIVE THEN {"round"} ELSE {}

WriterErrored(l) ==
  LET errors == IF Fresh THEN l.writerErrors + 1 ELSE l.writerErrors IN
  /\ loop' = NoProgress([l EXCEPT !.writerErrors = errors, !.liveErrors = @ + 1])
  /\ ctl' \in AfterError(errors)

Rework(l) == loop' = NoProgress(l) /\ ctl' = "round"

(* The gates between the writer and the reviewer: one metadata retry per   *)
(* process and one bounce per walk re-dispatch the writer within a round.  *)
Gated(l, out) ==
  \/ /\ out = "invalid" \/ (out = "malformed" /\ struck)
     /\ Rework(l) /\ UNCHANGED struck
  \/ /\ out = "malformed" /\ ~struck
     /\ struck' = TRUE /\ loop' = l /\ ctl' = "strike"
  \/ /\ out \in Bounced /\ l.bounced = "no"
     /\ loop' = [l EXCEPT !.bounced = out] /\ ctl' = "bounce" /\ UNCHANGED struck
  \/ /\ out = "valid" \/ (out \in Bounced /\ l.bounced # "no")
     /\ loop' = l /\ ctl' = "review" /\ UNCHANGED struck

(* What the gates make of a control.  The finding and the anchor gate look *)
(* at the findings injected from the ledger as it was when the walk was    *)
(* entered, and at the files that a citation names: a replayed control may *)
(* be bounced that was not when it was made, or go on to the validators.   *)
Answers(out) ==
  IF Hits("writer") = {} THEN {out}
  ELSE {out, "unmapped"} \cup (IF out = "unmapped" THEN WriterOut \ Mishap ELSE {})

Examined(l, out) ==
  \E seen \in Answers(out) :
    /\ drifted' = (drifted \/ seen # out)
    /\ Gated(l, seen)

Written == [Seen("writer") EXCEPT !.artifact = last']

Write ==
  /\ ctl = "write"
  /\ \E out \in WriterOut :
       /\ Call("writer", out)
       /\ \/ out \in Mishap /\ WriterErrored(Written) /\ UNCHANGED <<struck, drifted>>
          \/ out \notin Mishap /\ Examined([Written EXCEPT !.writerErrors = 0, !.liveErrors = 0], out)
  /\ UNCHANGED <<escal, guided>>

Strike ==
  /\ ctl = "strike"
  /\ \E out \in WriterOut :
       /\ Call("writer", out)
       /\ \/ out \in Mishap /\ Rework(Written) /\ UNCHANGED <<struck, drifted>>
          \/ out \notin Mishap /\ Examined(Written, out)
  /\ UNCHANGED <<escal, guided>>

(* A bounce before validation is validated next; one after it goes to the  *)
(* reviewer as it is.                                                      *)
Bounce ==
  /\ ctl = "bounce"
  /\ \E out \in WriterOut :
       /\ Call("writer", out)
       /\ IF loop.bounced = "bounce"
          THEN loop' = Written /\ ctl' = "review" /\ UNCHANGED <<struck, drifted>>
          ELSE \/ out \in Mishap /\ Rework(Written) /\ UNCHANGED <<struck, drifted>>
               \/ out \notin Mishap /\ Examined(Written, out)
  /\ UNCHANGED <<escal, guided>>

ReviewErrored(l) ==
  LET errors == IF Fresh THEN l.reviewErrors + 1 ELSE l.reviewErrors IN
  /\ loop' = NoProgress([l EXCEPT !.reviewErrors = errors])
  /\ ctl' \in AfterError(errors)
  /\ UNCHANGED <<escal, guided>>

Open(out) == IF out = "reject1" THEN 1 ELSE 2

(* Only a reading past the recorded review rounds is fresh.                *)
FreshReading(l) == l.reviewRound > l.priorReview

(* A rejection: the open-blocker reading, then the stall check; a stall    *)
(* asks the human, if there is one, while the escalation budget lasts.     *)
Rejected(l, out) ==
  LET read == IF FreshReading(l)
              THEN [l EXCEPT !.prevOpen = l.lastOpen, !.lastOpen = Open(out), !.signature = out]
              ELSE [NoProgress(l) EXCEPT !.signature = out] IN
  \/ /\ loop' = read /\ ctl' = "round" /\ UNCHANGED <<escal, guided>>
  \/ /\ l.signature = out /\ escal < ESCALATION_RETRY_CAP
     /\ escal' = escal + 1
     /\ \/ loop' = read /\ ctl' = "round" /\ UNCHANGED guided
        \/ loop' = read /\ ctl' \in {"accepted", "fatal"} /\ guided' = TRUE
        \/ loop' = [read EXCEPT !.signature = "none"] /\ ctl' = "round" /\ guided' = TRUE

(* Upstream-owned blockers route back or end the run; when the automatic   *)
(* route is declined the human is asked first.                             *)
UpstreamOwned(l) ==
  /\ loop' = l
  /\ \/ ctl' \in {"routed", "fatal"} /\ UNCHANGED <<escal, guided>>
     \/ /\ escal < ESCALATION_RETRY_CAP
        /\ escal' = escal + 1 /\ guided' = TRUE
        /\ ctl' \in {"accepted", "routed", "fatal"}

Reviewed ==
  LET hits == Hits("review") IN
  [Seen("review") EXCEPT
    !.saw = IF hits = {} THEN last ELSE (CHOOSE r \in hits : TRUE).pred]

Review ==
  /\ ctl = "review"
  /\ \E out \in ReviewOut :
       LET l == [Reviewed EXCEPT !.reviewErrors = 0, !.reviewRound = @ + 1] IN
       /\ Call("review", out)
       /\ \/ out \in Mishap /\ ReviewErrored(Reviewed)
          \/ out \in {"reject1", "reject2"} /\ Rejected(l, out)
          \/ out = "upstream" /\ UpstreamOwned(l)
          \/ /\ out \in {"approve", "carried"}
             /\ loop' = l
             /\ ctl' = IF out = "approve" THEN "approved" ELSE "carried"
             /\ UNCHANGED <<escal, guided>>
  /\ UNCHANGED <<struck, drifted>>

Next ==
  \/ Boot \/ Enter \/ Stop \/ Reroute
  \/ BudgetExhausted \/ JudgeEscalates \/ NextRound
  \/ Refused \/ Write \/ Strike \/ Bounce \/ Review

Spec == Init /\ [][Next]_vars

----------------------------------------------------------------------------
(* The track on which replay is deterministic: no agent error was re-run   *)
(* and no row was lost, no human answered, no jump dropped rows, no gate   *)
(* changed its answer.                                                     *)
Undisturbed == mishaps = 0 /\ ~guided /\ reroutes = 0 /\ ~drifted

(* resume.ts:12-16: a resumed run replays the calls in the context they    *)
(* were made in, however often it is killed, inside an append included.    *)
CleanReplay == Undisturbed => ~stale

(* rounds.ts:12-15: replayed and fresh rounds together are bounded by the  *)
(* ceiling, but for the one fresh round past it and the one that a granted *)
(* extension runs at the ceiling.                                          *)
RoundsBounded == ctl \in Calling => loop.round <= Greater(Ceiling, loop.prior + 1) + 1
=============================================================================
