---------------------------- MODULE AgentBackend ----------------------------
(* One agent call in the backend that executes it: through pi-subagents, by  *)
(* requests and answers on the event bus (delegation-backend.ts), or in a    *)
(* session of this process (pi-agent-core-backend.ts). Around them, the      *)
(* choice of the backend and its sticky failure (workflow.ts), the structured*)
(* mode that is given up for the process (structured-output.ts), and the     *)
(* timeouts (runtime.ts).                                                    *)
(*                                                                           *)
(* A control, what the stage reads from an answer, is "whole", "short" (a    *)
(* required key is missing that the schema does not ask for), "wrong" (it    *)
(* violates the schema) or "none". A child is an agent at work; it has the   *)
(* number of its request, which is free again when it has ended and nobody   *)
(* waits for it. The child and the bridge, outside this code,     *)
(* answer or not. What runWorkflow does with a result is in AgentCalls.      *)
EXTENDS Naturals, FiniteSets

CONSTANTS Calls, MaxCalls,        \* bound on calls made
          DegradeAt               \* STRUCTURED_FAILURE_DEGRADE_THRESHOLD

ASSUME BackendAssumption == MaxCalls \in Nat /\ DegradeAt \in Nat \ {0}

VARIABLES call,                   \* the calls in progress
          child,                  \* each child: whose it is and what it does
          made,                   \* calls so far
          owner,                  \* pi-subagents in this process
          host,               \* the host SDK, resolved once
          degraded, unsupported, streak,  \* sticky state of the process
          aborted                 \* the signal of the run

backendVars == <<call, child, made, owner, host, degraded, unsupported, streak, aborted>>
sticky == <<degraded, unsupported, streak>>

Children == 1..(MaxCalls + 1)
Controls == {"whole", "short", "wrong", "none"}
Idle == [pc |-> "idle", child |-> 0, structured |-> FALSE, try |-> "first", deaf |-> FALSE, out |-> "none"]
Waiting == {"asking", "backoff", "creating", "prompting", "fixing"}

BackendTypeOK ==
  /\ made \in 0..MaxCalls /\ streak \in Nat /\ aborted \in BOOLEAN
  /\ degraded \in BOOLEAN /\ unsupported \in BOOLEAN
  /\ owner \in {"current", "old", "skewed", "silent", "absent"}
  /\ host \in {"unset", "ok", "broken"}
  /\ call \in [Calls -> [pc : {"idle", "done"} \cup Waiting, child : {0} \cup Children, structured : BOOLEAN,
                         try : {"first", "text", "again", "fix", "mend"}, deaf : BOOLEAN, out : {"error"} \cup Controls]]
  /\ child \in [Children -> {"none", "live", "stopping"}]

BackendInit ==
  /\ call = [c \in Calls |-> Idle]
  /\ child = [n \in Children |-> "none"] /\ made = 0
  /\ owner = "current" /\ host = "unset"
  /\ degraded = FALSE /\ unsupported = FALSE /\ streak = 0 /\ aborted = FALSE

\* The lowest number nobody waits for and no child has.
Free(kids) == {n \in Children : kids[n] = "none" /\ \A c \in Calls : call[c].child # n \/ call[c].pc \notin Waiting}
Fresh(kids) == CHOOSE n \in Free(kids) : \A k \in Free(kids) : n <= k

Settled(c, out) == [Idle EXCEPT !.pc = "done", !.out = out, !.try = IF out = "error" THEN @ ELSE call[c].try]
Finish(c, out) == call' = [call EXCEPT ![c] = Settled(c, out)]
Done(n) == [child EXCEPT ![n] = "none"]
EndChild(n) == child' = Done(n)
structuredModeDegraded == unsupported \/ streak >= DegradeAt

(***************************************************************************)
(* Delegation.                                                             *)
(***************************************************************************)

\* Mutant: a call of an aborted run is sent.
SendAlways == FALSE

AbortedBefore == aborted

\* attempt: an aborted run sends nothing; an owner that is gone never answers.
Attempt(c, try, structured, kids) ==
  IF AbortedBefore
  THEN Finish(c, "error") /\ child' = kids
  ELSE LET n == Fresh(kids) IN
       /\ child' = [kids EXCEPT ![n] = IF owner = "silent" THEN "none" ELSE "live"]
       /\ call' = [call EXCEPT ![c] = [Idle EXCEPT !.pc = "asking", !.child = n,
                                                   !.try = try, !.structured = structured]]

\* The backend is chosen per call; delegation has its preconditions.
Delegate(c) ==
  /\ call[c].pc = "idle" /\ made < MaxCalls /\ made' = made + 1
  /\ \E schema \in BOOLEAN :
       IF owner = "absent" \/ degraded
       THEN Finish(c, "error") /\ UNCHANGED child
       ELSE Attempt(c, "first", schema /\ ~structuredModeDegraded, child)
  /\ UNCHANGED <<owner, host, sticky, aborted>>

\* An answer counts for the request it names.
matches(c, n) == call[c].pc = "asking" /\ call[c].child = n

\* An answer nobody waits for any more falls away.
Stale(n) ==
  /\ child[n] # "none" /\ \A c \in Calls : call[c].child # n \/ call[c].pc \notin Waiting
  /\ EndChild(n)
  /\ UNCHANGED <<call, made, owner, host, sticky, aborted>>

Answering(c, n) == matches(c, n) /\ child[n] \in {"live", "stopping"}

\* Refused before it started, because the owner does not know structured
\* results: the same request once more as text, and text from now on.
Unsupported(c, n) ==
  /\ Answering(c, n) /\ owner = "old" /\ call[c].structured
  /\ IF call[c].try = "first"
     THEN unsupported' = TRUE /\ Attempt(c, "text", FALSE, Done(n))
     ELSE Finish(c, "error") /\ EndChild(n) /\ UNCHANGED unsupported
  /\ UNCHANGED <<made, owner, host, degraded, streak, aborted>>

\* A node that is still active: one more request after a pause.
DuplicateNode(c, n) ==
  /\ Answering(c, n) /\ EndChild(n)
  /\ IF call[c].try \in {"first", "text"} THEN call' = [call EXCEPT ![c].pc = "backoff"] ELSE Finish(c, "error")
  /\ UNCHANGED <<made, owner, host, sticky, aborted>>

\* The pause ends; an abort cuts it short, and nothing more is sent.
Wake(c) ==
  /\ call[c].pc = "backoff"
  /\ Attempt(c, "again", call[c].structured, child)
  /\ UNCHANGED <<made, owner, host, sticky, aborted>>

\* The child failed. A run-time that cannot load degrades the backend; a child
\* that never gave its structured result counts towards text mode.
ChildFailed(c, n) ==
  /\ Answering(c, n) /\ EndChild(n) /\ Finish(c, "error")
  /\ degraded' \in {degraded, degraded \/ owner = "skewed"}
  /\ streak' \in {streak, IF call[c].structured /\ call[c].try # "fix" /\ streak < DegradeAt THEN streak + 1 ELSE streak}
  /\ UNCHANGED <<made, owner, host, unsupported, aborted>>

\* Of a second answer only the schema is checked again.
FixAccepted(ctl) == ctl \in {"whole", "short"}

\* The child completed. A control that is not whole is asked for once more.
Completed(c, n, ctl) ==
  /\ Answering(c, n)
  /\ streak' = IF call[c].structured THEN 0 ELSE streak
  /\ CASE call[c].try # "fix" /\ ctl = "whole" -> Finish(c, ctl) /\ EndChild(n)
       [] call[c].try # "fix" /\ ctl # "whole" -> Attempt(c, "fix", call[c].structured, Done(n))
       [] OTHER -> Finish(c, IF FixAccepted(ctl) THEN ctl ELSE "error") /\ EndChild(n)
  /\ UNCHANGED <<made, owner, host, degraded, unsupported, aborted>>

\* The cancel reaches the child; it ends in its own time.
Stop(n) == child' = [child EXCEPT ![n] = IF @ = "live" THEN "stopping" ELSE @]

\* Mutant: only the first request of a call is timed.
ArmedOnce(c) == call[c].pc = "asking" /\ call[c].try = "first"

\* Every request is timed, by the call or by its role.
Armed(c) == call[c].pc = "asking"

TimedOut(c) ==
  /\ Armed(c)
  /\ Stop(call[c].child) /\ Finish(c, "error")
  /\ UNCHANGED <<made, owner, host, sticky, aborted>>

(***************************************************************************)
(* A session in this process.                                              *)
(***************************************************************************)

\* getServices: the first use decides, for good. Without a model, or with a
\* prompt too long for it, the call ends here.
StartSession(c) ==
  /\ call[c].pc = "idle" /\ made < MaxCalls /\ made' = made + 1
  /\ host' \in IF host = "unset" THEN {"ok", "broken"} ELSE {host}
  /\ \/ Finish(c, "error")
     \/ host' = "ok" /\ call' = [call EXCEPT ![c] = [Idle EXCEPT !.pc = "creating"]]
  /\ UNCHANGED <<child, owner, sticky, aborted>>

\* The loader and the session exist; only now is the signal listened to, and
\* one that was aborted before says nothing.
createAgentSession(c) ==
  /\ call[c].pc = "creating"
  /\ \/ /\ child' = [child EXCEPT ![Fresh(child)] = "live"]
        /\ call' = [call EXCEPT ![c].pc = "prompting", ![c].child = Fresh(child), ![c].deaf = aborted]
     \/ Finish(c, "error") /\ UNCHANGED child
  /\ UNCHANGED <<made, owner, host, sticky, aborted>>

\* The timer stops the session; its prompt then ends as aborted.
StopSession(c) ==
  /\ call[c].pc = "prompting" /\ child[call[c].child] = "live"
  /\ Stop(call[c].child)
  /\ UNCHANGED <<call, made, owner, host, sticky, aborted>>

\* The prompt ends: stopped, failed, over the tool budget (looked at only
\* now), or with a control; one that is not whole is asked for again in the
\* same session.
PromptEnds(c) ==
  LET n == call[c].child IN
  /\ call[c].pc = "prompting"
  /\ \/ child[n] \in {"live", "stopping"} /\ EndChild(n) /\ Finish(c, "error")
     \/ child[n] = "live" /\ EndChild(n) /\ Finish(c, "whole")
     \/ child[n] = "live" /\ call' = [call EXCEPT ![c].pc = "fixing", ![c].try = "mend"] /\ UNCHANGED child
  /\ UNCHANGED <<made, owner, host, sticky, aborted>>

\* The corrective prompt has neither timer nor listener, and its control is
\* taken unless there is none.
CorrectionEnds(c) ==
  /\ call[c].pc = "fixing" /\ EndChild(call[c].child)
  /\ \E out \in {"error", "whole", "short", "wrong"} : Finish(c, out)
  /\ UNCHANGED <<made, owner, host, sticky, aborted>>

(***************************************************************************)
(* Around the calls.                                                       *)
(***************************************************************************)

Hears(c) == \/ call[c].pc = "asking"
            \/ call[c].pc = "prompting" /\ ~call[c].deaf

\* The run is aborted: what is heard is stopped, and delegated calls end.
AbortRun ==
  /\ ~aborted /\ aborted' = TRUE
  /\ child' = [n \in Children |->
       IF child[n] = "live" /\ \E c \in Calls : call[c].child = n /\ Hears(c)
       THEN "stopping" ELSE child[n]]
  /\ call' = [c \in Calls |-> IF call[c].pc \in {"asking", "backoff"}
                              THEN Settled(c, "error") ELSE call[c]]
  /\ UNCHANGED <<made, owner, host, sticky>>

\* The package is replaced under the process, or its registration is lost.
OwnerChanges ==
  /\ owner = "current" /\ owner' \in {"old", "skewed", "silent", "absent"}
  /\ UNCHANGED <<call, child, made, host, sticky, aborted>>

\* The result is read, and the node or the transient retry calls again.
Again(c) ==
  /\ call[c].pc = "done"
  /\ call' = [call EXCEPT ![c] = Idle]
  /\ UNCHANGED <<child, made, owner, host, sticky, aborted>>

BackendNext ==
  \/ AbortRun \/ OwnerChanges
  \/ \E n \in Children : Stale(n)
  \/ \E c \in Calls :
       \/ Delegate(c) \/ Wake(c) \/ TimedOut(c) \/ Again(c)
       \/ StartSession(c) \/ createAgentSession(c) \/ StopSession(c) \/ PromptEnds(c) \/ CorrectionEnds(c)
       \/ \E n \in Children :
            \/ Unsupported(c, n) \/ DuplicateNode(c, n) \/ ChildFailed(c, n)
            \/ \E ctl \in Controls : Completed(c, n, ctl)

BackendSpec == BackendInit /\ [][BackendNext]_backendVars

\* Timers fire, a session is created or its creation fails, and a stopped
\* session ends its prompt. Children need not answer.
TimersFire(c) == TimedOut(c) \/ Wake(c) \/ createAgentSession(c) \/ StopSession(c)
                 \/ (PromptEnds(c) /\ child[call[c].child] = "stopping")

BackendFairness == \A c \in Calls : WF_backendVars(TimersFire(c))

-----------------------------------------------------------------------------
\* No agent works for nobody: a child at work is awaited by the call that asked
\* for it, and after an abort only a session that could not hear it goes on
\* (delegation-backend.ts, attempt; pi-agent-core-backend.ts).
NoOrphan ==
  \A n \in Children : child[n] = "live" =>
    \E c \in Calls : /\ call[c].child = n
                     /\ call[c].pc \in {"asking", "prompting", "fixing"}
                     /\ aborted => call[c].deaf \/ call[c].pc = "fixing"

\* A control that reaches a stage satisfies its schema, unless a session gave it
\* in its correction, and one with a missing key is a second answer.
AcceptedFits ==
  \A c \in Calls : call[c].pc = "done" /\ call[c].out \in Controls =>
    /\ call[c].out = "short" => call[c].try \in {"fix", "mend"}
    /\ call[c].out = "wrong" => call[c].try = "mend"

\* A call ends although nobody answers, except in the corrective prompt of a
\* session, which no timer bounds.
CallEnds ==
  \A c \in Calls : call[c].pc \in Waiting ~> call[c].pc \in {"idle", "done", "fixing"}
=============================================================================
