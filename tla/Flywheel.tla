------------------------------ MODULE Flywheel ------------------------------
(***************************************************************************)
(* What runs leave behind for the evaluation of later runs                 *)
(* (src/src/evolution, called at the close-out of src/src/workflow.ts).    *)
(*                                                                         *)
(* Runs of different tracks close out concurrently and share the user's    *)
(* evaluation directory without a lock: the rows ledger, the metrics       *)
(* ledger, the lifecycle state, the refresh marker and the proposal drafts.*)
(* One action per durable read or write; a process may die between two.    *)
(*                                                                         *)
(* A metric is "usual" or "odd".  One metric face is modelled; a golden    *)
(* case is scored from its band.  The final response is scored by one      *)
(* memoized agent call on one rubric dimension.                            *)
(***************************************************************************)
EXTENDS Naturals, Sequences, FiniteSets, SequencesExt

CONSTANTS
  NumRuns,      \* bound: runs are started in the order 1, 2, ...
  Track,        \* Track[r]: the run lock lets one run of a track live at a time
  Version,      \* Version[r]: the extension version of the process
  Cases,        \* golden cases scored by band
  OnFace,       \* the cases whose target is the face itself
  Expected,     \* expected.verdict of a case
  Label,        \* the maintainer's verdicts, "none" where there is none
  PriorMetrics, PriorRows, \* what earlier runs left
  MIN_PRIOR_RUNS, GATE_MIN_MATCHED_PAIRS, STREAK_N,
  PROPOSAL_MIN_RUNS, PROPOSAL_NEW_RUNS,
  Answers,      \* what the scorer's call may come to
  MaxEvents     \* bound: kills, failed and torn writes, acts of the maintainer

Runs == 1..NumRuns
Verdicts == {"pass", "fail"}

(* A record of the rows ledger.                                            *)
EvalRow ==
  [run : Nat, ts : Nat, value : {"usual", "odd"}, band : {"no-band", "in-band", "3 sigma"},
   final : {"absent", "pass", "fail", "degraded"}]

ASSUME FlywheelAssumption ==
  /\ {NumRuns, MIN_PRIOR_RUNS, GATE_MIN_MATCHED_PAIRS, STREAK_N} \subseteq Nat
  /\ {PROPOSAL_MIN_RUNS, PROPOSAL_NEW_RUNS} \subseteq Nat \ {0}
  /\ OnFace \subseteq Cases
  /\ Expected \in [Cases -> Verdicts] /\ Label \in [Cases -> Verdicts \cup {"none"}]
  /\ Answers \subseteq {"fail", "absent", "degraded"}
  /\ DOMAIN Track = Runs /\ Version \in [Runs -> Nat] /\ PriorRows \in Seq(EvalRow)

(* Cluster keys in the order they are drafted: the failing dimension, the  *)
(* anomalies of the face, the anomalies of each case with a target of its  *)
(* own.  The configuration stamp, a part of the key, is the same in every  *)
(* run.                                                                    *)
Keys == {"response", "face"} \cup (Cases \ OnFace)

VARIABLES
  \* files of the evaluation directory
  rows,         \* one record per run that appended
  metrics,      \* [vals, torn]
  state,        \* [seen, sat, applied, reg], or Torn
  marker,       \* refresh-pending: the version flagged for review, 0: none
  drafts,       \* proposals: [key, runs]
  cache,        \* the scorer's row in a track's resume cache
  \* processes
  phase, scored, own, loaded, loadedRows, todo, made,
  maint,        \* the maintainer's tool between its read and its write
  clock,
  \* history
  log,          \* every draft ever written: [key, runs, by, live]
  flagged,      \* versions the maintainer was asked to review
  lost,         \* the state file was torn
  orderly,      \* no two read-modify-write windows overlapped, none failed
  events

files == <<rows, metrics, state, marker, drafts, cache>>
procs == <<phase, scored, own, loaded, loadedRows, todo, made, maint, clock>>
history == <<log, flagged, lost, orderly, events>>
flywheelVars == <<files, procs, history>>

Torn == [seen |-> 0, sat |-> {}, applied |-> 0, reg |-> [k \in {} |-> {}], torn |-> TRUE]
NoScore == [run |-> 0, ts |-> 0, value |-> "usual", band |-> "no-band", final |-> "absent"]

(* defaultFlywheelState: nothing was seen before, so nothing is stale.     *)
defaultFlywheelState(v) ==
  [seen |-> v, sat |-> {}, applied |-> 0, reg |-> [k \in {} |-> {}], torn |-> FALSE]

(* readFlywheelState: a malformed file is read as the default state.       *)
readFlywheelState(v) == IF state.torn THEN defaultFlywheelState(v) ELSE state

-----------------------------------------------------------------------------
(* Bands.                                                                  *)

Count(vals, v) == Cardinality({i \in DOMAIN vals : vals[i] = v})

(* classifyBand on a two-valued metric: the median is the majority and the *)
(* deviation 0, so that any deviation counts as 3 sigma; in a tie both     *)
(* values are within one sigma.  Too short a history has no band.          *)
classifyBand(v, prior) ==
  IF Len(prior) < MIN_PRIOR_RUNS THEN "no-band"
  ELSE IF 2 * Count(prior, v) < Len(prior) THEN "3 sigma" ELSE "in-band"

(* readGlobalMetricsLedger: one malformed line fails the whole read.       *)
readGlobalMetricsLedger == IF metrics.torn THEN <<>> ELSE metrics.vals

(* bandVerdictDetailFor: the rubric maps an anomaly to fail.               *)
BandVerdict(band) ==
  CASE band = "no-band" -> "absent" [] band = "in-band" -> "pass" [] OTHER -> "fail"

(* foldFinalResponseRows on what the scorer said of the two assertions of  *)
(* the dimension: the first failure decides, an absent one is remembered.  *)
Fold(said) ==
  IF "fail" \in ToSet(said) THEN "fail" ELSE IF "absent" \in ToSet(said) THEN "absent" ELSE "pass"

-----------------------------------------------------------------------------
(* The validation gate.                                                    *)

(* computeGateAgreement: of the scored rows of a labelled case the latest  *)
(* counts, a later one in the ledger when the time is the same.            *)
Scored(rs, c) == SelectSeq(rs, LAMBDA r : BandVerdict(r.band) \in Verdicts)
Latest(rs) ==
  LET best == {i \in DOMAIN rs : \A j \in DOMAIN rs : rs[j].ts < rs[i].ts \/ (rs[j].ts = rs[i].ts /\ j <= i)}
  IN  rs[CHOOSE i \in best : TRUE]
Pairs(rs) == {c \in Cases : Label[c] # "none" /\ Scored(rs, c) # <<>>}
Agreed(rs) == {c \in Pairs(rs) : BandVerdict(Latest(Scored(rs, c)).band) = Label[c]}

(* gatePasses: the agreement rate must reach 0.8.                          *)
gatePasses(rs) ==
  IF Cardinality(Pairs(rs)) < GATE_MIN_MATCHED_PAIRS \/ Pairs(rs) = {} THEN "directional-only"
  ELSE IF 5 * Cardinality(Agreed(rs)) >= 4 * Cardinality(Pairs(rs)) THEN "calibrated"
  ELSE "miscalibrated"

(* runGate: no decision without labels.                                    *)
runGate(rs) == IF \A c \in Cases : Label[c] = "none" THEN "none" ELSE gatePasses(rs)

(* The premise of drafting: a live verdict on the scorer stands; no signal *)
(* from this run alone leaves the decision to the ledger.                  *)
GatePassed(live, rs) ==
  IF live \in {"calibrated", "miscalibrated"} THEN live = "calibrated"
  ELSE runGate(rs) = "calibrated"

-----------------------------------------------------------------------------
(* Saturation and clusters.                                                *)

Earlier(a, b) == a.ts < b.ts

(* caseObservations and computeCaseStates: the streak of agreement at the  *)
(* end of the observations in time order; an absent verdict ends it.       *)
Observed(rs) == SortSeq(rs, Earlier)
Streak(rs, c) ==
  LET obs == Observed(rs)
      agrees(i) == BandVerdict(obs[i].band) = Expected[c]
      runsOf(n) == \A i \in (Len(obs) - n + 1)..Len(obs) : agrees(i)
  IN  CHOOSE n \in 0..Len(obs) : runsOf(n) /\ (n < Len(obs) => ~agrees(Len(obs) - n))
Saturated(rs) == {c \in Cases : Streak(rs, c) >= STREAK_N}

(* draftClusters: the distinct runs behind each key.  The rows of a        *)
(* saturated case are left out; the rows of the metric itself, which carry *)
(* the same key as those of a case on the face, are not.                   *)
Evidence(rs, k) ==
  LET odd == {rs[i].run : i \in {j \in DOMAIN rs : rs[j].band = "3 sigma"}}
      failed == {rs[i].run : i \in {j \in DOMAIN rs : rs[j].final = "fail"}}
  IN  CASE k = "response" -> failed
        [] k = "face" -> odd
        [] OTHER -> IF k \in Saturated(rs) THEN {} ELSE odd

(* A bug for the checks: all runs count, not only the new ones.            *)
AnyRuns(ev, reg, k) == Cardinality(ev) >= PROPOSAL_NEW_RUNS

(* draftProposals: a registered cluster is drafted again only on so many   *)
(* runs it did not rest on before.                                         *)
Earned(ev, reg, k) == k \in DOMAIN reg => Cardinality(ev \ reg[k]) >= PROPOSAL_NEW_RUNS
Qualifies(rs, reg, k) ==
  /\ Cardinality(Evidence(rs, k)) >= PROPOSAL_MIN_RUNS
  /\ Earned(Evidence(rs, k), reg, k)

-----------------------------------------------------------------------------
FlywheelInit ==
  /\ rows = PriorRows /\ metrics = [vals |-> PriorMetrics, torn |-> FALSE]
  /\ state = defaultFlywheelState(Version[1]) /\ marker = 0 /\ drafts = {}
  /\ cache = [t \in ToSet([r \in Runs |-> Track[r]]) |-> "none"]
  /\ phase = [r \in Runs |-> "idle"] /\ scored = [r \in Runs |-> NoScore]
  /\ loaded = [r \in Runs |-> defaultFlywheelState(Version[1])]
  /\ loadedRows = [r \in Runs |-> <<>>] /\ todo = [r \in Runs |-> {}] /\ made = [r \in Runs |-> {}]
  /\ maint = defaultFlywheelState(0) /\ clock = Len(PriorRows)
  /\ log = {} /\ own = [r \in Runs |-> "none"] /\ flagged = {Version[1]}
  /\ lost = FALSE /\ orderly = TRUE /\ events = 0

MoveTo(r, to) == phase' = [phase EXCEPT ![r] = to]
Alive(r) == phase[r] \notin {"idle", "done", "dead"}

(* The processes that read the state and have yet to write it.             *)
InWindow == {r \in Runs : phase[r] \in {"wave", "draft"}}
MaintIdle == maint.seen = 0

(* The trajectory: this run's metric is classified against the ledger.     *)
Trajectory(r, v) ==
  [run |-> r, ts |-> clock + 1, value |-> v, band |-> classifyBand(v, readGlobalMetricsLedger), final |-> "absent"]

(* The final-response scorer: a skipped or failed call leaves a row that   *)
(* says nothing; a recorded answer is replayed, a live one recorded.       *)
FinalResponse(r, kept, verdict) ==
  \/ kept[Track[r]] # "none" /\ verdict = kept[Track[r]] /\ cache' = kept
  \/ /\ kept[Track[r]] = "none" /\ cache' = [kept EXCEPT ![Track[r]] = verdict]
     /\ verdict \in {Fold(<<"absent", "fail">>), Fold(<<"pass", "absent">>)}
  \/ kept[Track[r]] = "none" /\ verdict = "degraded" /\ cache' = kept

(* The eval stage opens the close-out of a run.  It reads nothing shared   *)
(* after the metrics ledger, and the cache belongs to its track.           *)
Observe(r) ==
  /\ phase[r] = "idle" /\ \A s \in 1..(r - 1) : phase[s] # "idle"
  /\ \A s \in Runs : Track[s] = Track[r] => ~Alive(s)
  /\ \E v \in {"usual", "odd"}, verdict \in Answers, resumed \in BOOLEAN :
       /\ FinalResponse(r, IF resumed THEN cache ELSE [cache EXCEPT ![Track[r]] = "none"], verdict)
       /\ scored' = [scored EXCEPT ![r] = [Trajectory(r, v) EXCEPT !.final = verdict]]
  /\ clock' = clock + 1 /\ MoveTo(r, "append")
  /\ UNCHANGED <<rows, metrics, state, marker, drafts, own, loaded, loadedRows, todo, made, maint, history>>

Happens == events < MaxEvents /\ events' = events + 1

(* The live gate sees the rows of this run only.                           *)
AppendRows(r) ==
  /\ phase[r] = "append" /\ own' = [own EXCEPT ![r] = runGate(<<scored[r]>>)]
  /\ MoveTo(r, "load")
  /\ \/ rows' = Append(rows, scored[r]) /\ UNCHANGED events
     \/ Happens /\ UNCHANGED rows
  /\ UNCHANGED <<metrics, state, marker, drafts, cache, scored, loaded, loadedRows, todo, made, maint, clock, log, flagged, lost, orderly>>

LoadRows(r) ==
  /\ phase[r] = "load" /\ loadedRows' = [loadedRows EXCEPT ![r] = rows] /\ MoveTo(r, "read")
  /\ UNCHANGED <<files, scored, own, loaded, todo, made, maint, clock, history>>

LoadState(r) ==
  /\ phase[r] = "read" /\ loaded' = [loaded EXCEPT ![r] = readFlywheelState(Version[r])]
  /\ MoveTo(r, "wave") /\ orderly' = (orderly /\ InWindow = {} /\ MaintIdle)
  /\ UNCHANGED <<files, scored, own, loadedRows, todo, made, maint, clock, log, flagged, lost, events>>

-----------------------------------------------------------------------------

(* What is left in memory when the marker could not be written.            *)
Unflagged(r) == loaded[r]

(* The clusters that may be drafted are fixed before the first is written. *)
Gate(r) ==
  todo' = [todo EXCEPT ![r] =
    IF GatePassed(own[r], loadedRows[r])
    THEN {k \in Keys : Qualifies(loadedRows[r], loaded[r].reg, k)} ELSE {}]

(* A new extension version flags the golden cases, over any marker that is *)
(* still pending, and is stamped only if the marker was written.  The      *)
(* states of the cases are recomputed and the gate asked without touching  *)
(* another file.                                                           *)
Wave(r) ==
  /\ phase[r] = "wave" /\ MoveTo(r, "draft") /\ Gate(r)
  /\ LET recomputed(s) == [s EXCEPT !.sat = Saturated(loadedRows[r])]
     IN  \/ /\ loaded[r].seen # Version[r]
            /\ marker' = Version[r] /\ flagged' = flagged \cup {Version[r]}
            /\ loaded' = [loaded EXCEPT ![r] = recomputed([@ EXCEPT !.seen = Version[r]])]
            /\ UNCHANGED events
         \/ /\ loaded[r].seen # Version[r] /\ Happens
            /\ loaded' = [loaded EXCEPT ![r] = recomputed(Unflagged(r))]
            /\ UNCHANGED <<marker, flagged>>
         \/ /\ loaded[r].seen = Version[r]
            /\ loaded' = [loaded EXCEPT ![r] = recomputed(@)]
            /\ UNCHANGED <<marker, flagged, events>>
  /\ UNCHANGED <<rows, metrics, state, drafts, cache, scored, own, loadedRows, made, maint, clock, log, lost, orderly>>

(* The name of a draft is made of its key and its runs; it is created      *)
(* exclusively.                                                            *)
Unwritten(d) == d \notin drafts

(* A cluster whose file exists is passed over and not registered.          *)
Draft(r) ==
  /\ phase[r] = "draft"
  /\ \E k \in todo[r] :
       LET d == [key |-> k, runs |-> Evidence(loadedRows[r], k)]
       IN  /\ todo' = [todo EXCEPT ![r] = @ \ {k}]
           /\ \/ /\ Unwritten(d) /\ drafts' = drafts \cup {d}
                 /\ made' = [made EXCEPT ![r] = @ \cup {k}]
                 /\ log' = log \cup {[key |-> k, runs |-> d.runs, by |-> r, live |-> own[r]]}
                 /\ UNCHANGED <<events, orderly>>
              \/ /\ ~Unwritten(d) /\ UNCHANGED <<drafts, made, log, events, orderly>>
              \/ /\ Unwritten(d) /\ Happens /\ UNCHANGED <<drafts, made, log, orderly>>
  /\ UNCHANGED <<rows, metrics, state, marker, cache, phase, scored, own, loaded, loadedRows, maint, clock, flagged, lost>>

(* The registry holds all the runs a cluster was ever drafted on.          *)
Registered(r) ==
  LET reg == loaded[r].reg
      resting(k) == IF k \in DOMAIN reg THEN reg[k] ELSE {}
  IN  [k \in DOMAIN reg \cup made[r] |->
         IF k \in made[r] THEN resting(k) \cup Evidence(loadedRows[r], k) ELSE reg[k]]

(* The whole state file is written over, from the copy read before; a      *)
(* failed write goes unnoticed.                                            *)
Save(r) ==
  /\ phase[r] = "draft" /\ todo[r] = {} /\ MoveTo(r, "metrics")
  /\ \/ state' = [loaded[r] EXCEPT !.reg = Registered(r)] /\ UNCHANGED <<events, orderly>>
     \/ Happens /\ orderly' = FALSE /\ UNCHANGED state
  /\ UNCHANGED <<rows, metrics, marker, drafts, cache, scored, own, loaded, loadedRows, todo, made, maint, clock, log, flagged, lost>>

(* The locals of a process end with it.                                    *)
Forget(r) ==
  /\ scored' = [scored EXCEPT ![r] = NoScore] /\ own' = [own EXCEPT ![r] = "none"]
  /\ loadedRows' = [loadedRows EXCEPT ![r] = <<>>]
  /\ loaded' = [loaded EXCEPT ![r] = defaultFlywheelState(Version[1])]
  /\ todo' = [todo EXCEPT ![r] = {}] /\ made' = [made EXCEPT ![r] = {}]

(* The metrics row closes the run.  A run that completed clears its        *)
(* track's cache.                                                          *)
Close(r) ==
  /\ phase[r] = "metrics" /\ MoveTo(r, "done")
  /\ metrics' = [metrics EXCEPT !.vals = Append(@, scored[r].value)]
  /\ \E completed \in BOOLEAN :
       cache' = IF completed THEN [cache EXCEPT ![Track[r]] = "none"] ELSE cache
  /\ Forget(r)
  /\ UNCHANGED <<rows, state, marker, drafts, maint, clock, history>>

(* A kill leaves a file that was being written torn: the rows of the       *)
(* metric without that of the response, half of the state, half a line of  *)
(* the metrics ledger.                                                     *)
Kill(r) ==
  /\ Alive(r) /\ Happens /\ MoveTo(r, "dead")
  /\ orderly' = (orderly /\ made[r] = {} /\ r \notin InWindow)
  /\ \/ UNCHANGED <<rows, state, metrics, lost>>
     \/ /\ phase[r] = "append" /\ rows' = Append(rows, [scored[r] EXCEPT !.final = "absent"])
        /\ UNCHANGED <<state, metrics, lost>>
     \/ /\ phase[r] = "draft" /\ todo[r] = {} /\ state' = Torn /\ lost' = TRUE
        /\ UNCHANGED <<rows, metrics>>
     \/ /\ phase[r] = "metrics" /\ metrics' = [metrics EXCEPT !.torn = TRUE]
        /\ UNCHANGED <<rows, state, lost>>
  /\ Forget(r)
  /\ UNCHANGED <<marker, drafts, cache, maint, clock, log, flagged>>

-----------------------------------------------------------------------------
(* The maintainer.                                                         *)

(* noteProposalApplied reads the state, adds its stamp and writes it back. *)
NoteRead ==
  /\ MaintIdle /\ Happens
  /\ \E v \in ToSet([r \in Runs |-> Version[r]]) :
       maint' = [readFlywheelState(v) EXCEPT !.applied = @ + 1]
  /\ orderly' = (orderly /\ InWindow = {})
  /\ UNCHANGED <<files, phase, scored, own, loaded, loadedRows, todo, made, clock, log, flagged, lost>>

NoteWrite ==
  /\ ~MaintIdle /\ state' = maint /\ maint' = defaultFlywheelState(0)
  /\ UNCHANGED <<rows, metrics, marker, drafts, cache, phase, scored, own, loaded, loadedRows, todo, made, clock, history>>

(* A draft is moved away, to the golden cases or to nowhere.               *)
Move ==
  /\ Happens /\ \E d \in drafts : drafts' = drafts \ {d}
  /\ UNCHANGED <<rows, metrics, state, marker, cache, procs, log, flagged, lost, orderly>>

(* The re-review is done and its marker removed.                           *)
Review ==
  /\ Happens /\ marker # 0 /\ marker' = 0
  /\ UNCHANGED <<rows, metrics, state, drafts, cache, procs, log, flagged, lost, orderly>>

FlywheelNext ==
  \/ \E r \in Runs :
       \/ Observe(r) \/ AppendRows(r) \/ LoadRows(r) \/ LoadState(r)
       \/ Wave(r) \/ Draft(r) \/ Save(r) \/ Close(r) \/ Kill(r)
  \/ NoteRead \/ NoteWrite \/ Move \/ Review

FlywheelSpec == FlywheelInit /\ [][FlywheelNext]_flywheelVars

-----------------------------------------------------------------------------
(* Properties.                                                             *)

(* Two drafts of a cluster differ by at least PROPOSAL_NEW_RUNS runs, as   *)
(* long as no two processes had the state between read and write at the    *)
(* same time and none lost its write (flywheel.ts:93-99): a rejected draft *)
(* comes back with new evidence, not with every run.                       *)
RedraftIsEarned ==
  orderly => \A a, b \in log :
    a # b /\ a.key = b.key =>
      \/ Cardinality(a.runs \ b.runs) >= PROPOSAL_NEW_RUNS
      \/ Cardinality(b.runs \ a.runs) >= PROPOSAL_NEW_RUNS
=============================================================================
