------------------------------- MODULE Judge -------------------------------
(* The judge (stages/judge.ts): a stalled loop asks an agent for a diagnosis *)
(* and a route. Its calls are bounded per failure signature and per run, an  *)
(* attempt that timed out and a corrective call included; its evidence is    *)
(* checked against the worktree before the route is followed.                *)
(*                                                                           *)
(* A verdict has a route, which is offered at this point or not, enough      *)
(* confidence or not, and evidence: none, some that is verified, or some     *)
(* that is not. Different loops may ask at the same time, each about its own *)
(* signature. What a loop does with an outcome is in its own module.         *)
EXTENDS Naturals, FiniteSets

CONSTANTS Sigs,
          MaxPerSignature, MaxPerRun   \* the two budgets

ASSUME JudgeAssumption == MaxPerSignature \in Nat /\ MaxPerRun \in Nat

VARIABLES ask,                         \* the request about each signature
          signatureCalls, runCalls,    \* the budgets
          asked, askedRun, audited     \* history: calls made, and calls in the audit file

judgeVars == <<ask, signatureCalls, runCalls, asked, askedRun, audited>>

Verdict == [route : {"continue", "driven", "other", "escalate-now"},
            offered : BOOLEAN, sure : BOOLEAN, evidence : {"none", "verified", "bad"}]
\* escalate-now is offered everywhere.
Verdicts == {v \in Verdict : v.route = "escalate-now" => v.offered}
NoVerdict == [route |-> "escalate-now", offered |-> TRUE, sure |-> TRUE, evidence |-> "none"]
Quiet == [pc |-> "idle", used |-> 0, status |-> "none", verdict |-> NoVerdict]

JudgeTypeOK ==
  /\ ask \in [Sigs -> [pc : {"idle", "first", "second", "corrective", "done"}, used : 0..MaxPerSignature,
                       status : {"none", "routed", "escalate", "discarded", "degraded"}, verdict : Verdict]]
  /\ signatureCalls \in [Sigs -> Nat] /\ runCalls \in Nat
  /\ asked \in [Sigs -> Nat] /\ askedRun \in Nat /\ audited \in [Sigs -> Nat]

JudgeInit ==
  /\ ask = [s \in Sigs |-> Quiet]
  /\ signatureCalls = [s \in Sigs |-> 0] /\ runCalls = 0
  /\ asked = [s \in Sigs |-> 0] /\ askedRun = 0 /\ audited = [s \in Sigs |-> 0]

Answer(s, status, v) == ask' = [ask EXCEPT ![s].pc = "done", ![s].status = status, ![s].verdict = v]
Audit(s) == audited' = [audited EXCEPT ![s] = @ + 1]

\* A call to the agent, entered into both budgets.
Spend(s, count, pc) ==
  /\ signatureCalls' = [signatureCalls EXCEPT ![s] = count] /\ runCalls' = runCalls + 1
  /\ asked' = [asked EXCEPT ![s] = @ + 1] /\ askedRun' = askedRun + 1
  /\ ask' = [ask EXCEPT ![s].pc = pc]
NoCall == UNCHANGED <<signatureCalls, runCalls, asked, askedRun>>

\* runJudge: without budget, or switched off, the caller goes on as if there
\* were no judge.
runJudge(s) ==
  /\ ask[s].pc \in {"idle", "done"}
  /\ \/ Answer(s, "degraded", NoVerdict) /\ NoCall
     \/ /\ signatureCalls[s] < MaxPerSignature /\ runCalls < MaxPerRun
        /\ signatureCalls' = [signatureCalls EXCEPT ![s] = @ + 1] /\ runCalls' = runCalls + 1
        /\ asked' = [asked EXCEPT ![s] = @ + 1] /\ askedRun' = askedRun + 1
        /\ ask' = [ask EXCEPT ![s] = [Quiet EXCEPT !.pc = "first", !.used = signatureCalls[s]]]
  /\ UNCHANGED audited

\* Mutant: a time-out is tried again whatever the signature has used.
RetryInRun(s) == runCalls < MaxPerRun

\* The count read before the call is the one that decides.
MayRetry(s) == ask[s].used + 1 < MaxPerSignature /\ runCalls < MaxPerRun

\* A first attempt that timed out has the second one of its signature.
TimesOut(s) ==
  /\ ask[s].pc = "first" /\ Audit(s)
  /\ IF MayRetry(s) THEN Spend(s, ask[s].used + 2, "second")
     ELSE Answer(s, "degraded", NoVerdict) /\ NoCall

\* The agent failed, at any call: as if there were no judge.
AgentFails(s) ==
  /\ ask[s].pc \in {"first", "second", "corrective"} /\ Audit(s)
  /\ Answer(s, "degraded", NoVerdict) /\ NoCall

\* verifyJudgeEvidence: only continue needs none.
EvidenceFails(v) == v.evidence = "bad" \/ (v.evidence = "none" /\ v.route # "continue")
Missing(v) == v.evidence = "none"

\* The gates after the evidence.
Adjudicate(s, v) ==
  IF v.offered /\ (v.sure \/ v.route = "escalate-now")
  THEN Answer(s, "routed", v)
  ELSE Answer(s, "escalate", [v EXCEPT !.route = "escalate-now"])

MayCorrect(s) == signatureCalls[s] < MaxPerSignature /\ runCalls < MaxPerRun

\* A control without diagnosis or known route is dropped.
Unparseable(s) ==
  /\ ask[s].pc \in {"first", "second"} /\ Audit(s)
  /\ Answer(s, "discarded", NoVerdict) /\ NoCall

\* A verdict: an escalation that brings no evidence stands; a diagnosis that
\* only sends bounded work back needs none; other evidence that fails is asked
\* for once more, if there is budget.
FirstVerdict(s, v) ==
  /\ ask[s].pc \in {"first", "second"} /\ Audit(s)
  /\ CASE ~EvidenceFails(v) \/ (Missing(v) /\ v.route = "driven") -> Adjudicate(s, v) /\ NoCall
       [] Missing(v) /\ v.route = "escalate-now" -> Answer(s, "escalate", v) /\ NoCall
       [] OTHER -> IF MayCorrect(s) THEN Spend(s, signatureCalls[s] + 1, "corrective")
                   ELSE Answer(s, "discarded", NoVerdict) /\ NoCall

\* The diagnosis is kept, its evidence is not.
Floor(v) == [v EXCEPT !.route = "escalate-now", !.evidence = "none"]

\* A second failure, or an answer that cannot be read, escalates.
CorrectiveVerdict(s, v) ==
  /\ ask[s].pc = "corrective" /\ Audit(s)
  /\ IF EvidenceFails(v) THEN Answer(s, "escalate", Floor(v)) ELSE Adjudicate(s, v)
  /\ NoCall

\* A pipeline starts with fresh budgets.
resetJudgeBudgets ==
  /\ \A s \in Sigs : ask[s].pc \in {"idle", "done"}
  /\ signatureCalls' = [s \in Sigs |-> 0] /\ runCalls' = 0
  /\ asked' = [s \in Sigs |-> 0] /\ askedRun' = 0 /\ audited' = [s \in Sigs |-> 0]
  /\ ask' = [s \in Sigs |-> Quiet]

JudgeNext ==
  \/ resetJudgeBudgets
  \/ \E s \in Sigs : \/ runJudge(s) \/ TimesOut(s) \/ AgentFails(s) \/ Unparseable(s)
                     \/ \E v \in Verdicts : FirstVerdict(s, v) \/ CorrectiveVerdict(s, v)

JudgeSpec == JudgeInit /\ [][JudgeNext]_judgeVars

-----------------------------------------------------------------------------
\* However its calls time out, fail or are corrected, a signature has no more
\* calls than its budget and a run no more than its own, and every call whose
\* answer is in has its line in the audit file (judge.ts, INV-3 and INV-5).
JudgeBudget ==
  /\ askedRun <= MaxPerRun
  /\ \A s \in Sigs : /\ asked[s] <= MaxPerSignature
                     /\ ask[s].pc \in {"idle", "done"} => audited[s] = asked[s]

\* A loop follows a route only if it offered it, the judge was sure, and its
\* evidence is verified, except that continuing and bounded rework need none;
\* evidence that failed leaves with no outcome, an escalation included
\* (judge.ts, INV-2).
RoutedIsGrounded ==
  \A s \in Sigs : LET v == ask[s].verdict IN
    /\ ask[s].status = "routed" =>
         /\ v.offered /\ (v.sure \/ v.route = "escalate-now")
         /\ v.evidence = "verified" \/ (v.evidence = "none" /\ v.route \in {"continue", "driven"})
    /\ v.evidence # "bad"
=============================================================================
