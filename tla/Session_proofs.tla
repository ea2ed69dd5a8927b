----------------------------- MODULE Session_proofs -----------------------------
(***************************************************************************)
(* Proofs about what a run works on and with, for any number of calls,     *)
(* processes and tracks: the awaited children of the agent backends, the   *)
(* track a run works on, and the test services.                            *)
(***************************************************************************)
EXTENDS TrackSetup, AgentBackend, Services, FiniteSetTheorems, WellFoundedInduction, TLAPS

(***************************************************************************)
(* AgentBackend                                                            *)
(***************************************************************************)

\* The fields of a call, and one child for every number.
CallFields == {"pc", "child", "structured", "try", "deaf", "out"}
CallShape ==
  /\ call = [c \in Calls |-> call[c]] /\ \A c \in Calls : DOMAIN call[c] = CallFields
  /\ child = [n \in Children |-> child[n]]

\* Only the corrective prompt of a session fixes, and it does so as "mend".
Mending == \A c \in Calls : call[c].pc = "fixing" => call[c].try = "mend"

BackendInv == CallShape /\ Mending /\ NoOrphan /\ AcceptedFits

\* Call c awaits child n; after an abort, only if it could not hear it.
AwaitedBy(n, c) == /\ call[c].child = n /\ call[c].pc \in {"asking", "prompting", "fixing"}
                   /\ aborted => call[c].deaf \/ call[c].pc = "fixing"

LEMMA InitBackend == BackendInit => BackendInv
BY DEF BackendInit, BackendInv, CallShape, Mending, NoOrphan, AcceptedFits, Idle, CallFields, Controls

(* A step of one call that ends or stops its child, and awaits at most a   *)
(* new one, leaves no orphan.                                              *)
LEMMA OneCall ==
  ASSUME BackendInv, NEW c \in Calls, aborted' = aborted,
         \A d \in Calls \ {c} : call'[d] = call[d],
         \A n \in Children : child'[n] = "live" =>
            \/ child[n] = "live" /\ ~AwaitedBy(n, c)
            \/ AwaitedBy(n, c)'
  PROVE  NoOrphan'
<1>1. ASSUME NEW n \in Children, child'[n] = "live" PROVE \E d \in Calls : AwaitedBy(n, d)'
  <2>1. CASE AwaitedBy(n, c)'
    BY <2>1
  <2>2. CASE child[n] = "live" /\ ~AwaitedBy(n, c)
    <3>1. PICK d \in Calls : AwaitedBy(n, d)
      BY <2>2 DEF BackendInv, NoOrphan, AwaitedBy
    <3>2. d # c /\ call'[d] = call[d]
      BY <2>2, <3>1
    <3>. QED BY <3>1, <3>2 DEF AwaitedBy
  <2>. QED BY <1>1, <2>1, <2>2
<1>. QED BY <1>1 DEF NoOrphan, AwaitedBy

LEMMA FinishShape ==
  ASSUME CallShape, NEW c \in Calls, NEW out \in {"error"} \cup Controls, Finish(c, out)
  PROVE  /\ \A d \in Calls \ {c} : call'[d] = call[d]
         /\ call' = [d \in Calls |-> call'[d]] /\ \A d \in Calls : DOMAIN call'[d] = CallFields
         /\ call'[c].pc = "done" /\ call'[c].out = out
         /\ out # "error" => call'[c].try = call[c].try
<1>. DEFINE r == Settled(c, out)
<1>1. /\ DOMAIN r = CallFields /\ r.pc = "done" /\ r.out = out
      /\ out # "error" => r.try = call[c].try
  BY DEF Settled, Idle, CallFields
<1>2. call' = [call EXCEPT ![c] = r]
  BY DEF Finish
<1>. HIDE DEF r
<1>3. /\ call'[c] = r /\ \A d \in Calls \ {c} : call'[d] = call[d]
      /\ call' = [d \in Calls |-> call'[d]]
  BY <1>2 DEF CallShape
<1>. QED BY <1>1, <1>3 DEF CallShape

(* An attempt ends the call, or leaves it awaiting a new child.             *)
LEMMA AttemptShape ==
  ASSUME CallShape, NEW c \in Calls, NEW try, NEW structured,
         NEW kids, kids = [n \in Children |-> kids[n]],
         Attempt(c, try, structured, kids), aborted' = aborted
  PROVE  /\ CallShape'
         /\ \A d \in Calls \ {c} : call'[d] = call[d]
         /\ call'[c].pc \in {"asking", "done"}
         /\ call'[c].pc = "done" => call'[c].out = "error"
         /\ \A n \in Children : child'[n] = "live" => kids[n] = "live" \/ AwaitedBy(n, c)'
<1>1. CASE AbortedBefore
  BY <1>1, FinishShape DEF Attempt, CallShape, Controls
<1>2. CASE ~AbortedBefore
  <2>. PICK n : n = Fresh(kids)
    OBVIOUS
  <2>. DEFINE r == [Idle EXCEPT !.pc = "asking", !.child = n, !.try = try, !.structured = structured]
  <2>1. /\ child' = [kids EXCEPT ![n] = IF owner = "silent" THEN "none" ELSE "live"]
        /\ call' = [call EXCEPT ![c] = r]
    BY <1>2 DEF Attempt
  <2>2. r.pc = "asking" /\ r.child = n /\ DOMAIN r = CallFields
    BY DEF Idle, CallFields
  <2>3. ~aborted'
    BY <1>2 DEF AbortedBefore
  <2>. HIDE DEF r
  <2>4. /\ call'[c] = r /\ \A d \in Calls \ {c} : call'[d] = call[d]
        /\ call' = [d \in Calls |-> call'[d]]
    BY <2>1 DEF CallShape
  <2>5. /\ child' = [m \in Children |-> child'[m]]
        /\ \A m \in Children : child'[m] = "live" => kids[m] = "live" \/ m = n
    BY <2>1
  <2>6. AwaitedBy(n, c)'
    BY <2>2, <2>3, <2>4 DEF AwaitedBy
  <2>7. CallShape'
    BY <2>2, <2>4, <2>5 DEF CallShape
  <2>. QED BY <2>2, <2>4, <2>5, <2>6, <2>7
<1>. QED BY <1>1, <1>2

(* What is left of a step when one call changed: that call mends or ends    *)
(* as it should, and nobody's child is forgotten.                           *)
LEMMA CallStep ==
  ASSUME BackendInv, NEW c \in Calls, aborted' = aborted, CallShape',
         \A d \in Calls \ {c} : call'[d] = call[d],
         call'[c].pc = "fixing" => call'[c].try = "mend",
         (call'[c].pc = "done" /\ call'[c].out \in Controls) =>
            /\ call'[c].out = "short" => call'[c].try \in {"fix", "mend"}
            /\ call'[c].out = "wrong" => call'[c].try = "mend",
         \A n \in Children : child'[n] = "live" =>
            \/ child[n] = "live" /\ ~AwaitedBy(n, c)
            \/ AwaitedBy(n, c)'
  PROVE  BackendInv'
<1>1. NoOrphan'
  BY OneCall DEF CallShape
<1>2. Mending' /\ AcceptedFits'
  BY DEF BackendInv, Mending, AcceptedFits
<1>. QED BY <1>1, <1>2 DEF BackendInv

LEMMA DoneShape ==
  ASSUME CallShape, NEW m, NEW kids, kids = Done(m)
  PROVE  /\ kids = [n \in Children |-> kids[n]]
         /\ \A n \in Children : kids[n] = "live" => child[n] = "live" /\ n # m
BY DEF Done, CallShape

(***************************************************************************)
(* Delegation.                                                             *)
(***************************************************************************)
LEMMA DelegateKeeps == ASSUME BackendInv, NEW c \in Calls, Delegate(c) PROVE BackendInv'
<1>. USE DEF BackendInv
<1>1. PICK schema \in BOOLEAN :
        IF owner = "absent" \/ degraded
        THEN Finish(c, "error") /\ UNCHANGED child
        ELSE Attempt(c, "first", schema /\ ~structuredModeDegraded, child)
  BY DEF Delegate
<1>2. aborted' = aborted /\ \A n \in Children : ~AwaitedBy(n, c)
  BY DEF Delegate, AwaitedBy
<1>3. CASE owner = "absent" \/ degraded
  BY <1>1, <1>2, <1>3, FinishShape, CallStep DEF CallShape, Controls
<1>4. CASE ~(owner = "absent" \/ degraded)
  <2>1. Attempt(c, "first", schema /\ ~structuredModeDegraded, child)
    BY <1>1, <1>4
  <2>. QED BY <1>2, <2>1, AttemptShape, CallStep DEF CallShape, Controls
<1>. QED BY <1>3, <1>4

LEMMA WakeKeeps == ASSUME BackendInv, NEW c \in Calls, Wake(c) PROVE BackendInv'
<1>1. /\ Attempt(c, "again", call[c].structured, child) /\ aborted' = aborted
      /\ \A n \in Children : ~AwaitedBy(n, c)
  BY DEF Wake, AwaitedBy
<1>. QED BY <1>1, AttemptShape, CallStep DEF CallShape, BackendInv, Controls

LEMMA UnsupportedKeeps ==
  ASSUME BackendInv, NEW c \in Calls, NEW m \in Children, Unsupported(c, m) PROVE BackendInv'
<1>1. aborted' = aborted /\ \A n \in Children \ {m} : ~AwaitedBy(n, c)
  BY DEF Unsupported, Answering, matches, AwaitedBy
<1>2. CASE call[c].try = "first"
  <2>1. Attempt(c, "text", FALSE, Done(m))
    BY <1>2 DEF Unsupported
  <2>. DEFINE kids == Done(m)
  <2>2. /\ kids = [n \in Children |-> kids[n]]
        /\ \A n \in Children : kids[n] = "live" => child[n] = "live" /\ n # m
    BY DoneShape DEF BackendInv
  <2>. HIDE DEF kids
  <2>3. Attempt(c, "text", FALSE, kids)
    BY <2>1 DEF kids
  <2>4. /\ CallShape' /\ \A d \in Calls \ {c} : call'[d] = call[d]
        /\ call'[c].pc \in {"asking", "done"} /\ (call'[c].pc = "done" => call'[c].out = "error")
        /\ \A n \in Children : child'[n] = "live" => kids[n] = "live" \/ AwaitedBy(n, c)'
    <3>1. CallShape /\ aborted' = aborted
      BY <1>1 DEF BackendInv
    <3>2. kids = [n \in Children |-> kids[n]]
      BY <2>2
    <3>. QED BY ONLY c \in Calls, <2>3, <3>1, <3>2, AttemptShape
  <2>5. \A n \in Children : child'[n] = "live" =>
           (child[n] = "live" /\ ~AwaitedBy(n, c)) \/ AwaitedBy(n, c)'
    BY <1>1, <2>2, <2>4
  <2>6. ~(call'[c].pc = "done" /\ call'[c].out \in Controls) /\ call'[c].pc # "fixing"
    BY <2>4 DEF Controls
  <2>. QED BY ONLY BackendInv, c \in Calls, <1>1, <2>4, <2>5, <2>6, CallStep
<1>3. CASE call[c].try # "first"
  <2>1. Finish(c, "error") /\ child' = Done(m)
    BY <1>3 DEF Unsupported, EndChild
  <2>. QED BY <1>1, <2>1, DoneShape, FinishShape, CallStep DEF BackendInv, CallShape, Controls
<1>. QED BY <1>2, <1>3

LEMMA DuplicateKeeps ==
  ASSUME BackendInv, NEW c \in Calls, NEW m \in Children, DuplicateNode(c, m) PROVE BackendInv'
<1>1. aborted' = aborted /\ child' = Done(m) /\ \A n \in Children \ {m} : ~AwaitedBy(n, c)
  BY DEF DuplicateNode, Answering, matches, AwaitedBy, EndChild
<1>2. CASE call' = [call EXCEPT ![c].pc = "backoff"]
  <2>1. CallShape' /\ call'[c].pc = "backoff" /\ \A d \in Calls \ {c} : call'[d] = call[d]
    <3>1. CallShape /\ child' = [n \in Children |-> child'[n]]
      BY <1>1, DoneShape DEF BackendInv
    <3>2. PICK r : r = [call[c] EXCEPT !.pc = "backoff"]
      OBVIOUS
    <3>3. DOMAIN r = CallFields /\ r.pc = "backoff"
      BY <3>1, <3>2 DEF CallShape, CallFields
    <3>4. call' = [call EXCEPT ![c] = r]
      BY <1>2, <3>2
    <3>5. /\ call'[c] = r /\ \A d \in Calls \ {c} : call'[d] = call[d]
          /\ call' = [d \in Calls |-> call'[d]]
      BY <3>1, <3>4 DEF CallShape
    <3>. QED BY <3>1, <3>3, <3>5 DEF CallShape
  <2>. QED BY <1>1, <2>1, DoneShape, CallStep DEF BackendInv
<1>3. CASE Finish(c, "error")
  BY <1>1, <1>3, DoneShape, FinishShape, CallStep DEF BackendInv, CallShape, Controls
<1>. QED BY <1>2, <1>3 DEF DuplicateNode

LEMMA FailedKeeps ==
  ASSUME BackendInv, NEW c \in Calls, NEW m \in Children, ChildFailed(c, m) PROVE BackendInv'
<1>1. /\ aborted' = aborted /\ child' = Done(m) /\ Finish(c, "error")
      /\ \A n \in Children \ {m} : ~AwaitedBy(n, c)
  BY DEF ChildFailed, Answering, matches, AwaitedBy, EndChild
<1>. QED BY <1>1, DoneShape, FinishShape, CallStep DEF BackendInv, CallShape, Controls

LEMMA CompletedKeeps ==
  ASSUME BackendInv, NEW c \in Calls, NEW m \in Children, NEW ctl \in Controls, Completed(c, m, ctl)
  PROVE  BackendInv'
<1>1. aborted' = aborted /\ \A n \in Children \ {m} : ~AwaitedBy(n, c)
  BY DEF Completed, Answering, matches, AwaitedBy
<1>2. CASE call[c].try # "fix" /\ ctl = "whole"
  <2>1. Finish(c, ctl) /\ child' = Done(m)
    BY <1>2 DEF Completed, EndChild
  <2>. QED BY <1>1, <1>2, <2>1, DoneShape, FinishShape, CallStep DEF BackendInv, CallShape, Controls
<1>3. CASE call[c].try # "fix" /\ ctl # "whole"
  <2>1. Attempt(c, "fix", call[c].structured, Done(m))
    BY <1>3 DEF Completed
  <2>. QED BY <1>1, <2>1, DoneShape, AttemptShape, CallStep DEF BackendInv, Controls
<1>4. CASE call[c].try = "fix"
  <2>1. Finish(c, IF FixAccepted(ctl) THEN ctl ELSE "error") /\ child' = Done(m)
    BY <1>4 DEF Completed, EndChild
  <2>. QED BY <1>1, <1>4, <2>1, DoneShape, FinishShape, CallStep DEF BackendInv, CallShape, Controls, FixAccepted
<1>. QED BY <1>2, <1>3, <1>4

(***************************************************************************)
(* A session in this process.                                              *)
(***************************************************************************)
LEMMA StartKeeps == ASSUME BackendInv, NEW c \in Calls, StartSession(c) PROVE BackendInv'
<1>1. aborted' = aborted /\ child' = child /\ \A n \in Children : ~AwaitedBy(n, c)
  BY DEF StartSession, AwaitedBy
<1>2. CASE Finish(c, "error")
  BY <1>1, <1>2, FinishShape, CallStep DEF BackendInv, CallShape, Controls
<1>3. CASE call' = [call EXCEPT ![c] = [Idle EXCEPT !.pc = "creating"]]
  <2>1. CallShape' /\ call'[c].pc = "creating" /\ \A d \in Calls \ {c} : call'[d] = call[d]
    BY <1>1, <1>3 DEF BackendInv, CallShape, Idle, CallFields
  <2>. QED BY <1>1, <2>1, CallStep
<1>. QED BY <1>2, <1>3 DEF StartSession

LEMMA CreateKeeps == ASSUME BackendInv, NEW c \in Calls, createAgentSession(c) PROVE BackendInv'
<1>1. aborted' = aborted /\ \A n \in Children : ~AwaitedBy(n, c)
  BY DEF createAgentSession, AwaitedBy
<1>2. CASE Finish(c, "error") /\ UNCHANGED child
  BY <1>1, <1>2, FinishShape, CallStep DEF BackendInv, CallShape, Controls
<1>3. CASE ~(Finish(c, "error") /\ UNCHANGED child)
  <2>. PICK m : m = Fresh(child)
    OBVIOUS
  <2>1. /\ child' = [child EXCEPT ![m] = "live"]
        /\ call' = [call EXCEPT ![c].pc = "prompting", ![c].child = m, ![c].deaf = aborted]
    BY <1>3 DEF createAgentSession
  <2>2. /\ call'[c].pc = "prompting" /\ call'[c].child = m /\ call'[c].deaf = aborted
        /\ \A d \in Calls \ {c} : call'[d] = call[d]
    BY <2>1 DEF BackendInv, CallShape, CallFields
  <2>3. CallShape'
    BY <2>1 DEF BackendInv, CallShape, CallFields
  <2>4. \A n \in Children : child'[n] = "live" => child[n] = "live" \/ n = m
    BY <2>1 DEF BackendInv, CallShape
  <2>5. AwaitedBy(m, c)'
    BY <1>1, <2>2 DEF AwaitedBy
  <2>. QED BY <1>1, <2>2, <2>3, <2>4, <2>5, CallStep
<1>. QED BY <1>2, <1>3

LEMMA StopShape ==
  ASSUME CallShape, NEW m, Stop(m)
  PROVE  /\ child' = [n \in Children |-> child'[n]]
         /\ \A n \in Children : child'[n] = "live" => child[n] = "live" /\ n # m
BY DEF Stop, CallShape

LEMMA TimedOutKeeps == ASSUME BackendInv, NEW c \in Calls, TimedOut(c) PROVE BackendInv'
<1>1. aborted' = aborted /\ Stop(call[c].child) /\ Finish(c, "error")
  BY DEF TimedOut
<1>2. \A n \in Children : AwaitedBy(n, c) => n = call[c].child
  BY DEF AwaitedBy
<1>. QED BY <1>1, <1>2, StopShape, FinishShape, CallStep DEF BackendInv, CallShape, Controls

LEMMA StopKeeps == ASSUME BackendInv, NEW c \in Calls, StopSession(c) PROVE BackendInv'
<1>1. /\ aborted' = aborted /\ call' = call /\ Stop(call[c].child)
      /\ call[c].pc = "prompting"
  BY DEF StopSession
<1>2. \A n \in Children : AwaitedBy(n, c) => n = call[c].child
  BY DEF AwaitedBy
<1>. QED BY <1>1, <1>2, StopShape, CallStep DEF BackendInv, CallShape

LEMMA PromptKeeps == ASSUME BackendInv, NEW c \in Calls, PromptEnds(c) PROVE BackendInv'
<1>1. aborted' = aborted /\ \A n \in Children : AwaitedBy(n, c) => n = call[c].child
  BY DEF PromptEnds, AwaitedBy
<1>2. ASSUME NEW out \in {"error", "whole"}, EndChild(call[c].child), Finish(c, out) PROVE BackendInv'
  BY <1>1, <1>2, DoneShape, FinishShape, CallStep DEF BackendInv, CallShape, Controls, EndChild
<1>3. CASE /\ child[call[c].child] = "live" /\ UNCHANGED child
           /\ call' = [call EXCEPT ![c].pc = "fixing", ![c].try = "mend"]
  <2>1. /\ CallShape' /\ call'[c].pc = "fixing" /\ call'[c].try = "mend" /\ call'[c].child = call[c].child
        /\ \A d \in Calls \ {c} : call'[d] = call[d]
    BY <1>3 DEF BackendInv, CallShape, CallFields
  <2>2. \A n \in Children : AwaitedBy(n, c) => AwaitedBy(n, c)'
    BY <2>1 DEF AwaitedBy
  <2>. QED BY <1>1, <1>3, <2>1, <2>2, CallStep
<1>. QED BY <1>2, <1>3 DEF PromptEnds

LEMMA CorrectionKeeps == ASSUME BackendInv, NEW c \in Calls, CorrectionEnds(c) PROVE BackendInv'
<1>1. /\ aborted' = aborted /\ call[c].try = "mend"
      /\ \A n \in Children : AwaitedBy(n, c) => n = call[c].child
  BY DEF CorrectionEnds, AwaitedBy, BackendInv, Mending
<1>2. PICK out \in {"error", "whole", "short", "wrong"} : Finish(c, out)
  BY DEF CorrectionEnds
<1>. QED BY <1>1, <1>2, DoneShape, FinishShape, CallStep DEF BackendInv, CallShape, Controls, CorrectionEnds, EndChild

(***************************************************************************)
(* Around the calls.                                                       *)
(***************************************************************************)
LEMMA AgainKeeps == ASSUME BackendInv, NEW c \in Calls, Again(c) PROVE BackendInv'
<1>1. aborted' = aborted /\ child' = child /\ \A n \in Children : ~AwaitedBy(n, c)
  BY DEF Again, AwaitedBy
<1>2. CallShape' /\ call'[c].pc = "idle" /\ \A d \in Calls \ {c} : call'[d] = call[d]
  BY <1>1 DEF Again, BackendInv, CallShape, Idle, CallFields
<1>. QED BY <1>1, <1>2, CallStep

LEMMA StaleKeeps == ASSUME BackendInv, NEW m \in Children, Stale(m) PROVE BackendInv'
<1>1. call' = call /\ aborted' = aborted /\ child' = Done(m)
  BY DEF Stale, EndChild
<1>2. CallShape' /\ Mending' /\ AcceptedFits'
  BY <1>1, DoneShape DEF BackendInv, CallShape, Mending, AcceptedFits
<1>3. NoOrphan'
  BY <1>1, DoneShape DEF BackendInv, NoOrphan
<1>. QED BY <1>2, <1>3 DEF BackendInv

(* What hears the abort is stopped; what does not is deaf or mending.       *)
LEMMA AbortKeeps == ASSUME BackendInv, AbortRun PROVE BackendInv'
<1>1. /\ \A n \in Children : child'[n] = "live" =>
            child[n] = "live" /\ ~\E c \in Calls : call[c].child = n /\ Hears(c)
      /\ child' = [n \in Children |-> child'[n]]
  BY DEF AbortRun
<1>2. \A c \in Calls : \/ call[c].pc \in {"asking", "backoff"} /\ call'[c] = Settled(c, "error")
                       \/ call[c].pc \notin {"asking", "backoff"} /\ call'[c] = call[c]
  BY DEF AbortRun
<1>3. \A c \in Calls : /\ Settled(c, "error").pc = "done" /\ Settled(c, "error").out = "error"
                       /\ DOMAIN Settled(c, "error") = CallFields
  BY DEF Settled, Idle, CallFields
<1>4. CallShape'
  <2>1. call' = [c \in Calls |-> call'[c]]
    BY DEF AbortRun
  <2>. QED BY <1>1, <1>2, <1>3, <2>1 DEF BackendInv, CallShape
<1>5. Mending' /\ AcceptedFits'
  BY <1>2, <1>3 DEF BackendInv, Mending, AcceptedFits, Controls
<1>6. NoOrphan'
  <2>. SUFFICES ASSUME NEW n \in Children, child'[n] = "live"
                PROVE  \E c \in Calls : /\ call'[c].child = n
                                        /\ call'[c].pc \in {"asking", "prompting", "fixing"}
                                        /\ call'[c].deaf \/ call'[c].pc = "fixing"
    BY DEF NoOrphan
  <2>1. PICK c \in Calls : call[c].child = n /\ call[c].pc \in {"asking", "prompting", "fixing"}
    BY <1>1 DEF BackendInv, NoOrphan
  <2>2. ~Hears(c)
    BY <1>1, <2>1
  <2>. QED BY <1>2, <2>1, <2>2 DEF Hears
<1>. QED BY <1>4, <1>5, <1>6 DEF BackendInv

LEMMA StepBackend == BackendInv /\ [BackendNext]_backendVars => BackendInv'
<1>. SUFFICES ASSUME BackendInv, [BackendNext]_backendVars PROVE BackendInv'
  OBVIOUS
<1>1. CASE AbortRun
  BY <1>1, AbortKeeps
<1>2. CASE OwnerChanges
  BY <1>2 DEF OwnerChanges, BackendInv, CallShape, Mending, NoOrphan, AcceptedFits
<1>3. ASSUME NEW n \in Children, Stale(n) PROVE BackendInv'
  BY <1>3, StaleKeeps
<1>4. ASSUME NEW c \in Calls, Delegate(c) \/ Wake(c) \/ TimedOut(c) \/ Again(c) PROVE BackendInv'
  BY <1>4, DelegateKeeps, WakeKeeps, TimedOutKeeps, AgainKeeps
<1>5. ASSUME NEW c \in Calls,
             StartSession(c) \/ createAgentSession(c) \/ StopSession(c) \/ PromptEnds(c) \/ CorrectionEnds(c)
      PROVE  BackendInv'
  BY <1>5, StartKeeps, CreateKeeps, StopKeeps, PromptKeeps, CorrectionKeeps
<1>6. ASSUME NEW c \in Calls, NEW n \in Children, Unsupported(c, n) \/ DuplicateNode(c, n) \/ ChildFailed(c, n)
      PROVE  BackendInv'
  BY <1>6, UnsupportedKeeps, DuplicateKeeps, FailedKeeps
<1>7. ASSUME NEW c \in Calls, NEW n \in Children, NEW ctl \in Controls, Completed(c, n, ctl) PROVE BackendInv'
  BY <1>7, CompletedKeeps
<1>8. CASE UNCHANGED backendVars
  BY <1>8 DEF backendVars, BackendInv, CallShape, Mending, NoOrphan, AcceptedFits
<1>. QED BY <1>1, <1>2, <1>3, <1>4, <1>5, <1>6, <1>7, <1>8 DEF BackendNext

(* No agent works for nobody: a child at work is awaited, and after an abort *)
(* only a session that could not hear it goes on (delegation-backend.ts,     *)
(* attempt; pi-agent-core-backend.ts), for any number of calls.              *)
THEOREM Awaited == BackendSpec => []NoOrphan
<1>1. BackendInv => NoOrphan
  BY DEF BackendInv
<1>. QED BY InitBackend, StepBackend, <1>1, PTL DEF BackendSpec

(* A control reaches a stage whole, short after a second answer, or wrong    *)
(* from the correction of a session, whose schema nobody checks again        *)
(* (delegation-backend.ts:735; pi-agent-core-backend.ts:374).                *)
THEOREM Fits == BackendSpec => []AcceptedFits
<1>1. BackendInv => AcceptedFits
  BY DEF BackendInv
<1>. QED BY InitBackend, StepBackend, <1>1, PTL DEF BackendSpec

(***************************************************************************)
(* The numbers of the requests: there is always a free one, so the choice  *)
(* of the lowest is a choice.                                              *)
(***************************************************************************)
CallType == [pc : {"idle", "done"} \cup Waiting, child : {0} \cup Children, structured : BOOLEAN,
             try : {"first", "text", "again", "fix", "mend"}, deaf : BOOLEAN, out : {"error"} \cup Controls]

Occupied == {n \in Children : child[n] # "none" \/ \E c \in Calls : call[c].child = n /\ call[c].pc \in Waiting}
Creating == {c \in Calls : call[c].pc = "creating"}

\* Who waits has a number of its own, and in the pause its child has ended.
OwnNumber ==
  /\ \A c \in Calls : call[c].pc \in Waiting \ {"creating"} => call[c].child \in Children
  /\ \A c \in Calls : call[c].pc = "backoff" => child[call[c].child] = "none"
  /\ \A c, d \in Calls : c # d /\ call[c].pc \in Waiting /\ call[d].pc \in Waiting /\ call[c].child \in Children
                           => call[d].child # call[c].child

\* A number is taken by a call that was made, and not twice.
Room == IsFiniteSet(Creating) /\ Cardinality(Occupied) + Cardinality(Creating) <= made

NumbersInv == BackendTypeOK /\ OwnNumber /\ Room

LEMMA LeastNumber ==
  ASSUME NEW S \in SUBSET Nat, S # {}
  PROVE  \E n \in S : \A m \in S : n <= m
<1>. DEFINE Less == {ss \in Nat \X Nat : ss[1] < ss[2]}
<1>0. IsWellFoundedOn(Less, Nat)
  BY ONLY NatLessThanWellFounded, Zenon DEF OpToRel
<1>1. PICK x \in S : \A y \in S : ~ (<<y, x>> \in Less)
  BY <1>0, WFMin
<1>2. \A a, b \in Nat : a < b => <<a, b>> \in Less
  OBVIOUS
<1>3. ASSUME NEW m \in S PROVE x <= m
  <2>1. ~ (<<m, x>> \in Less) /\ m \in Nat /\ x \in Nat
    BY <1>1
  <2>. HIDE DEF Less
  <2>. QED BY <1>2, <2>1
<1>. QED BY <1>3

(* Finite sets that gain one, or exchange one for another.                  *)
LEMMA GainsOne ==
  ASSUME NEW S, IsFiniteSet(S), NEW m, NEW T, T \subseteq S \cup {m}
  PROVE  IsFiniteSet(T) /\ Cardinality(T) \in Nat /\ Cardinality(T) <= Cardinality(S) + 1
<1>1. IsFiniteSet(S \cup {m}) /\ Cardinality(S) \in Nat /\ Cardinality(S \cup {m}) <= Cardinality(S) + 1
  BY FS_AddElement, FS_CardinalityType
<1>2. IsFiniteSet(T) /\ Cardinality(T) <= Cardinality(S \cup {m})
  BY <1>1, FS_Subset
<1>. QED BY <1>1, <1>2, FS_CardinalityType

LEMMA Exchanges ==
  ASSUME NEW S, IsFiniteSet(S), NEW o \in S, NEW m, NEW T, T \subseteq (S \ {o}) \cup {m}
  PROVE  IsFiniteSet(T) /\ Cardinality(T) \in Nat /\ Cardinality(T) <= Cardinality(S)
<1>1. IsFiniteSet(S \ {o}) /\ Cardinality(S \ {o}) = Cardinality(S) - 1 /\ Cardinality(S) \in Nat
  BY FS_RemoveElement, FS_CardinalityType
<1>2. IsFiniteSet(T) /\ Cardinality(T) \in Nat /\ Cardinality(T) <= Cardinality(S \ {o}) + 1
  BY <1>1, GainsOne
<1>. QED BY <1>1, <1>2

LEMMA ChildrenFinite == IsFiniteSet(Children) /\ Cardinality(Children) = MaxCalls + 1 /\ Children \subseteq Nat
<1>1. Children \subseteq Nat /\ 1 \in Int /\ MaxCalls + 1 \in Int /\ MaxCalls + 1 >= 1
  BY BackendAssumption DEF Children
<1>. QED BY <1>1, FS_Interval, BackendAssumption DEF Children

LEMMA OccupiedFinite == IsFiniteSet(Occupied) /\ Cardinality(Occupied) \in Nat /\ Occupied \subseteq Children
<1>1. Occupied \subseteq Children
  BY DEF Occupied
<1>. QED BY <1>1, ChildrenFinite, FS_Subset, FS_CardinalityType

(* While fewer calls were made than there are numbers, one is free.         *)
LEMMA OneIsFree ==
  ASSUME Cardinality(Occupied) <= MaxCalls, NEW kids, \A n \in Children \ Occupied : kids[n] = "none",
         \A n \in Occupied : kids[n] # "none" \/ \E c \in Calls : call[c].child = n /\ call[c].pc \in Waiting
  PROVE  Fresh(kids) \in Children \ Occupied
<1>1. Free(kids) = Children \ Occupied
  BY DEF Free, Occupied
<1>2. Children \ Occupied # {}
  <2>1. SUFFICES ASSUME Children \subseteq Occupied PROVE FALSE
    OBVIOUS
  <2>2. Occupied = Children
    BY <2>1 DEF Occupied
  <2>. QED BY <2>2, ChildrenFinite, BackendAssumption
<1>3. \E n \in Children \ Occupied : \A k \in Children \ Occupied : n <= k
  BY <1>2, ChildrenFinite, LeastNumber
<1>. QED BY <1>1, <1>3 DEF Fresh

(* One call moved: whose numbers are taken afterwards.                      *)
LEMMA TakenBy ==
  ASSUME NEW c \in Calls, \A d \in Calls \ {c} : call'[d] = call[d], NEW n \in Occupied'
  PROVE  \/ n \in Occupied
         \/ call'[c].child = n /\ call'[c].pc \in Waiting
         \/ child'[n] # "none" /\ child[n] = "none"
BY DEF Occupied

LEMMA NumbersMove ==
  ASSUME BackendTypeOK, OwnNumber, NEW c \in Calls, \A d \in Calls \ {c} : call'[d] = call[d],
         call'[c].pc \in Waiting =>
            \/ call'[c].pc = "creating" /\ call'[c].child = 0
            \/ call'[c].child \in Children \ Occupied
            \/ call[c].pc \in Waiting \ {"creating"} /\ call'[c].child = call[c].child,
         call'[c].pc = "backoff" => child'[call'[c].child] = "none",
         \A n \in Occupied : child'[n] # "none" => child[n] # "none"
  PROVE  OwnNumber'
<1>1. \A d \in Calls \ {c} : call[d].pc \in Waiting /\ call[d].child \in Children => call[d].child \in Occupied
  BY DEF Occupied
<1>2. 0 \notin Children
  BY BackendAssumption DEF Children
<1>3. \A d \in Calls : call'[d].pc \in Waiting \ {"creating"} => call'[d].child \in Children
  BY DEF OwnNumber
<1>4. \A d \in Calls : call'[d].pc = "backoff" => child'[call'[d].child] = "none"
  <2>. SUFFICES ASSUME NEW d \in Calls \ {c}, call[d].pc = "backoff" PROVE child'[call[d].child] = "none"
    OBVIOUS
  <2>1. call[d].child \in Occupied /\ child[call[d].child] = "none"
    BY <1>1 DEF OwnNumber, Waiting
  <2>. QED BY <2>1
<1>5. ASSUME NEW d \in Calls \ {c}, call'[c].pc \in Waiting, call[d].pc \in Waiting
      PROVE  call'[c].child \in Children \/ call[d].child \in Children => call[d].child # call'[c].child
  <2>1. CASE call'[c].pc = "creating" /\ call'[c].child = 0
    BY <2>1, <1>2
  <2>2. CASE call'[c].child \in Children \ Occupied
    BY <2>2, <1>1, <1>5
  <2>3. CASE call[c].pc \in Waiting \ {"creating"} /\ call'[c].child = call[c].child
    BY <2>3, <1>5 DEF OwnNumber
  <2>. QED BY <1>5, <2>1, <2>2, <2>3
<1>6. \A d, e \in Calls : d # e /\ call'[d].pc \in Waiting /\ call'[e].pc \in Waiting /\ call'[d].child \in Children
                            => call'[e].child # call'[d].child
  <2>. SUFFICES ASSUME NEW d \in Calls, NEW e \in Calls, d # e, call'[d].pc \in Waiting, call'[e].pc \in Waiting,
                       call'[d].child \in Children
                PROVE  call'[e].child # call'[d].child
    OBVIOUS
  <2>1. CASE d # c /\ e # c
    BY <2>1 DEF OwnNumber
  <2>2. CASE d = c
    BY <2>2, <1>5
  <2>3. CASE e = c
    BY <2>3, <1>5
  <2>. QED BY <2>1, <2>2, <2>3
<1>. QED BY <1>3, <1>4, <1>6 DEF OwnNumber

(***************************************************************************)
(* What a step does to the room.                                           *)
(***************************************************************************)
LEMMA Shrinks ==
  ASSUME Room, BackendTypeOK, Occupied' \subseteq Occupied, Creating' \subseteq Creating,
         made' \in Nat, made' >= made
  PROVE  Room'
<1>1. IsFiniteSet(Creating') /\ Cardinality(Creating') <= Cardinality(Creating) /\ Cardinality(Creating) \in Nat
      /\ Cardinality(Creating') \in Nat
  BY FS_Subset, FS_CardinalityType DEF Room
<1>2. Cardinality(Occupied') <= Cardinality(Occupied) /\ Cardinality(Occupied') \in Nat
  BY OccupiedFinite, FS_Subset, FS_CardinalityType
<1>. QED BY <1>1, <1>2, OccupiedFinite, BackendAssumption DEF Room, BackendTypeOK

(* A call that is made takes a number or goes to create its session.        *)
LEMMA MadeTakes ==
  ASSUME Room, BackendTypeOK, NEW m, Occupied' \subseteq Occupied \cup {m}, Creating' \subseteq Creating,
         made' = made + 1
  PROVE  Room'
<1>1. IsFiniteSet(Creating') /\ Cardinality(Creating') <= Cardinality(Creating) /\ Cardinality(Creating) \in Nat
      /\ Cardinality(Creating') \in Nat
  BY FS_Subset, FS_CardinalityType DEF Room
<1>2. Cardinality(Occupied') <= Cardinality(Occupied) + 1 /\ Cardinality(Occupied') \in Nat
  BY OccupiedFinite, GainsOne
<1>. QED BY <1>1, <1>2, OccupiedFinite, BackendAssumption DEF Room, BackendTypeOK

LEMMA MadeCreates ==
  ASSUME Room, BackendTypeOK, NEW c, Occupied' \subseteq Occupied, Creating' \subseteq Creating \cup {c},
         made' = made + 1
  PROVE  Room'
<1>1. IsFiniteSet(Creating') /\ Cardinality(Creating') <= Cardinality(Creating) + 1 /\ Cardinality(Creating) \in Nat
      /\ Cardinality(Creating') \in Nat
  BY GainsOne, FS_CardinalityType DEF Room
<1>2. Cardinality(Occupied') <= Cardinality(Occupied) /\ Cardinality(Occupied') \in Nat
  BY OccupiedFinite, FS_Subset, FS_CardinalityType
<1>. QED BY <1>1, <1>2, OccupiedFinite, BackendAssumption DEF Room, BackendTypeOK

(* A session that was created takes a number, and creates no more.          *)
LEMMA CreatedTakes ==
  ASSUME Room, BackendTypeOK, NEW m, NEW c \in Creating, Occupied' \subseteq Occupied \cup {m},
         Creating' \subseteq Creating \ {c}, made' = made
  PROVE  Room'
<1>1. /\ IsFiniteSet(Creating \ {c}) /\ Cardinality(Creating \ {c}) = Cardinality(Creating) - 1
      /\ Cardinality(Creating) \in Nat
  BY FS_RemoveElement, FS_CardinalityType DEF Room
<1>2. /\ IsFiniteSet(Creating') /\ Cardinality(Creating') <= Cardinality(Creating \ {c})
      /\ Cardinality(Creating') \in Nat
  BY <1>1, FS_Subset, FS_CardinalityType
<1>3. Cardinality(Occupied') <= Cardinality(Occupied) + 1 /\ Cardinality(Occupied') \in Nat
  BY OccupiedFinite, GainsOne
<1>. QED BY <1>1, <1>2, <1>3, OccupiedFinite, BackendAssumption DEF Room, BackendTypeOK

(* A call that asks again gives its number back for the one it takes.       *)
LEMMA AskedAgain ==
  ASSUME Room, BackendTypeOK, NEW o \in Occupied, NEW m, Occupied' \subseteq (Occupied \ {o}) \cup {m},
         Creating' \subseteq Creating, made' = made
  PROVE  Room'
<1>1. IsFiniteSet(Creating') /\ Cardinality(Creating') <= Cardinality(Creating) /\ Cardinality(Creating) \in Nat
      /\ Cardinality(Creating') \in Nat
  BY FS_Subset, FS_CardinalityType DEF Room
<1>2. Cardinality(Occupied') <= Cardinality(Occupied) /\ Cardinality(Occupied') \in Nat
  BY OccupiedFinite, Exchanges
<1>. QED BY <1>1, <1>2, OccupiedFinite, BackendAssumption DEF Room, BackendTypeOK

(***************************************************************************)
(* The steps.                                                              *)
(***************************************************************************)
ChildType == [Children -> {"none", "live", "stopping"}]
Others == /\ made' \in 0..MaxCalls /\ streak' \in Nat /\ aborted' \in BOOLEAN
          /\ degraded' \in BOOLEAN /\ unsupported' \in BOOLEAN
          /\ owner' \in {"current", "old", "skewed", "silent", "absent"} /\ host' \in {"unset", "ok", "broken"}

LEMMA Typed == ASSUME Others, call' \in [Calls -> CallType], child' \in ChildType PROVE BackendTypeOK'
BY DEF BackendTypeOK, Others, CallType, ChildType

LEMMA TypedNow == ASSUME BackendTypeOK PROVE call \in [Calls -> CallType] /\ child \in ChildType
BY DEF BackendTypeOK, CallType, ChildType

LEMMA FinishTyped ==
  ASSUME BackendTypeOK, NEW c \in Calls, NEW out \in {"error"} \cup Controls, Finish(c, out)
  PROVE  /\ call' \in [Calls -> CallType] /\ call'[c].pc = "done"
         /\ \A d \in Calls \ {c} : call'[d] = call[d]
<1>1. Settled(c, out) \in CallType /\ Settled(c, out).pc = "done"
  BY TypedNow DEF Settled, Idle, CallType
<1>. QED BY <1>1, TypedNow DEF Finish

LEMMA DoneTyped ==
  ASSUME BackendTypeOK, NEW n \in Children
  PROVE  /\ Done(n) \in ChildType /\ Done(n)[n] = "none"
         /\ \A k \in Children \ {n} : Done(n)[k] = child[k]
BY TypedNow DEF Done, ChildType

LEMMA StopTyped ==
  ASSUME BackendTypeOK, NEW n, Stop(n)
  PROVE  child' \in ChildType /\ \A k \in Children : child'[k] # "none" => child[k] # "none"
BY TypedNow DEF Stop, ChildType

(* A step of one call that takes no number.                                 *)
LEMMA NothingTaken ==
  ASSUME NumbersInv, NEW c \in Calls, \A d \in Calls \ {c} : call'[d] = call[d], BackendTypeOK', made' >= made,
         call'[c].pc \in Waiting => /\ call[c].pc \in Waiting \ {"creating"} /\ call'[c].pc # "creating"
                                    /\ call'[c].child = call[c].child,
         call'[c].pc = "backoff" => child'[call'[c].child] = "none",
         \A n \in Children : child'[n] # "none" => child[n] # "none"
  PROVE  NumbersInv'
<1>. USE DEF NumbersInv
<1>1. OwnNumber'
  <2>1. \A n \in Occupied : child'[n] # "none" => child[n] # "none"
    BY OccupiedFinite
  <2>. QED BY <2>1, NumbersMove
<1>2. Occupied' \subseteq Occupied
  <2>. SUFFICES ASSUME NEW n \in Occupied' PROVE n \in Occupied
    OBVIOUS
  <2>1. n \in Children
    BY DEF Occupied
  <2>2. CASE call'[c].child = n /\ call'[c].pc \in Waiting
    BY <2>1, <2>2 DEF Occupied
  <2>. QED BY <2>1, <2>2, TakenBy
<1>3. Creating' \subseteq Creating
  BY DEF Creating, Waiting
<1>4. made' \in Nat
  BY BackendAssumption DEF BackendTypeOK
<1>. QED BY <1>1, <1>2, <1>3, <1>4, Shrinks

(* A call that ends, with whatever it does to its child.                    *)
LEMMA Finishing ==
  ASSUME NumbersInv, NEW c \in Calls, NEW out \in {"error"} \cup Controls, Finish(c, out), Others,
         made' >= made, child' \in ChildType, \A n \in Children : child'[n] # "none" => child[n] # "none"
  PROVE  NumbersInv'
<1>1. /\ call' \in [Calls -> CallType] /\ call'[c].pc = "done"
      /\ \A d \in Calls \ {c} : call'[d] = call[d]
  BY FinishTyped DEF NumbersInv
<1>2. BackendTypeOK' /\ call'[c].pc \notin Waiting /\ call'[c].pc # "backoff"
  BY <1>1, Typed DEF Waiting
<1>. QED BY <1>1, <1>2, NothingTaken

(* What an attempt takes.                                                   *)
LEMMA AttemptTakes ==
  ASSUME BackendTypeOK, Cardinality(Occupied) <= MaxCalls, NEW c \in Calls,
         NEW try \in {"first", "text", "again", "fix", "mend"}, NEW structured \in BOOLEAN, NEW kids \in ChildType,
         \A n \in Children \ Occupied : kids[n] = "none",
         \A n \in Occupied : kids[n] # "none" \/ \E d \in Calls : call[d].child = n /\ call[d].pc \in Waiting,
         Attempt(c, try, structured, kids)
  PROVE  \E m \in Children \ Occupied :
           /\ call' \in [Calls -> CallType] /\ child' \in ChildType
           /\ \A d \in Calls \ {c} : call'[d] = call[d]
           /\ call'[c].pc \in {"asking", "done"} /\ (call'[c].pc = "asking" => call'[c].child = m)
           /\ \A n \in Children \ {m} : child'[n] = kids[n]
<1>. DEFINE m == Fresh(kids)
<1>1. m \in Children \ Occupied
  BY OneIsFree
<1>. HIDE DEF m
<1>2. CASE AbortedBefore
  BY <1>1, <1>2, FinishTyped DEF Attempt
<1>3. CASE ~AbortedBefore
  <2>1. /\ child' = [kids EXCEPT ![m] = IF owner = "silent" THEN "none" ELSE "live"]
        /\ call' = [call EXCEPT ![c] = [Idle EXCEPT !.pc = "asking", !.child = m,
                                                    !.try = try, !.structured = structured]]
    BY <1>3 DEF Attempt, m
  <2>2. [Idle EXCEPT !.pc = "asking", !.child = m, !.try = try, !.structured = structured] \in CallType
    BY <1>1 DEF Idle, CallType, Waiting, Controls
  <2>. QED BY <1>1, <2>1, <2>2, TypedNow DEF ChildType, Idle
<1>. QED BY <1>2, <1>3

(* A call that asks once more: its number is free from then on.             *)
LEMMA AskAgain ==
  ASSUME NumbersInv, NEW c \in Calls, call[c].pc \in {"asking", "backoff"}, NEW kids \in ChildType,
         NEW try \in {"first", "text", "again", "fix", "mend"}, NEW structured \in BOOLEAN,
         kids[call[c].child] = "none", \A n \in Children \ {call[c].child} : kids[n] = child[n],
         Attempt(c, try, structured, kids), Others, made' = made
  PROVE  NumbersInv'
<1>. USE DEF NumbersInv
<1>. DEFINE o == call[c].child
<1>1. o \in Occupied /\ o \in Children /\ call[c].pc \in Waiting
  BY DEF OwnNumber, Waiting, Occupied
<1>2. Cardinality(Occupied) <= MaxCalls
  BY OccupiedFinite, FS_CardinalityType, BackendAssumption DEF Room, BackendTypeOK
<1>3. \A n \in Children \ Occupied : kids[n] = "none"
  BY <1>1 DEF Occupied
<1>4. \A n \in Occupied : kids[n] # "none" \/ \E d \in Calls : call[d].child = n /\ call[d].pc \in Waiting
  BY <1>1 DEF Occupied
<1>5. PICK m \in Children \ Occupied :
        /\ call' \in [Calls -> CallType] /\ child' \in ChildType
        /\ \A d \in Calls \ {c} : call'[d] = call[d]
        /\ call'[c].pc \in {"asking", "done"} /\ (call'[c].pc = "asking" => call'[c].child = m)
        /\ \A n \in Children \ {m} : child'[n] = kids[n]
  BY <1>2, <1>3, <1>4, AttemptTakes
<1>6. BackendTypeOK'
  BY <1>5, Typed
<1>7. OwnNumber'
  <2>1. \A n \in Occupied : child'[n] # "none" => child[n] # "none"
    BY <1>1, <1>5, OccupiedFinite
  <2>2. call'[c].pc \in Waiting => call'[c].child \in Children \ Occupied
    BY <1>5 DEF Waiting
  <2>. QED BY <1>5, <2>1, <2>2, NumbersMove
<1>8. Occupied' \subseteq (Occupied \ {o}) \cup {m}
  <2>. SUFFICES ASSUME NEW n \in Occupied', n # m PROVE n \in Occupied /\ n # o
    OBVIOUS
  <2>1. n \in Children /\ child'[n] = kids[n]
    BY <1>5 DEF Occupied
  <2>2. n \in Occupied
    BY <1>1, <1>5, <2>1, TakenBy DEF Waiting
  <2>3. n # o
    <3>1. \A d \in Calls : call'[d].child = o => call'[d].pc \notin Waiting
      <4>1. \A d \in Calls \ {c} : call[d].child = o => call[d].pc \notin Waiting
        BY <1>1 DEF OwnNumber
      <4>2. call'[c].child = o => call'[c].pc \notin Waiting
        BY <1>1, <1>5 DEF Waiting
      <4>. QED BY <1>5, <4>1, <4>2
    <3>2. n = o => child'[n] = "none"
      BY <2>1
    <3>. QED BY <3>1, <3>2 DEF Occupied
  <2>. QED BY <2>2, <2>3
<1>9. Creating' \subseteq Creating
  BY <1>5 DEF Creating
<1>10. Room'
  BY <1>1, <1>8, <1>9, AskedAgain
<1>. QED BY <1>6, <1>7, <1>10

LEMMA OthersKept == ASSUME BackendTypeOK, UNCHANGED <<made, owner, host, sticky, aborted>> PROVE Others /\ made' >= made
BY BackendAssumption DEF BackendTypeOK, Others, sticky

LEMMA WaitedChild ==
  ASSUME NumbersInv, NEW c \in Calls, call[c].pc \in Waiting \ {"creating"}
  PROVE  call[c].child \in Children
BY DEF NumbersInv, OwnNumber

(* An answer: the call asks once more, pauses or ends.                      *)
LEMMA DelegateNumbers == ASSUME NumbersInv, NEW c \in Calls, Delegate(c) PROVE NumbersInv'
<1>. USE DEF NumbersInv
<1>1. Others /\ made' >= made /\ made' = made + 1 /\ made < MaxCalls
  BY BackendAssumption DEF Delegate, BackendTypeOK, Others, sticky
<1>2. PICK schema \in BOOLEAN :
        IF owner = "absent" \/ degraded
        THEN Finish(c, "error") /\ UNCHANGED child
        ELSE Attempt(c, "first", schema /\ ~structuredModeDegraded, child)
  BY DEF Delegate
<1>3. CASE owner = "absent" \/ degraded
  BY <1>1, <1>2, <1>3, TypedNow, Finishing
<1>4. CASE ~(owner = "absent" \/ degraded)
  <2>1. Attempt(c, "first", schema /\ ~structuredModeDegraded, child) /\ (schema /\ ~structuredModeDegraded) \in BOOLEAN
    BY <1>2, <1>4
  <2>2. Cardinality(Occupied) <= MaxCalls
    BY OccupiedFinite, FS_CardinalityType, BackendAssumption DEF Room, BackendTypeOK
  <2>3. PICK m \in Children \ Occupied :
          /\ call' \in [Calls -> CallType] /\ child' \in ChildType
          /\ \A d \in Calls \ {c} : call'[d] = call[d]
          /\ call'[c].pc \in {"asking", "done"} /\ (call'[c].pc = "asking" => call'[c].child = m)
          /\ \A n \in Children \ {m} : child'[n] = child[n]
    <3>. DEFINE mode == schema /\ ~structuredModeDegraded
    <3>1. mode \in BOOLEAN /\ Attempt(c, "first", mode, child)
      BY <2>1
    <3>. HIDE DEF mode
    <3>2. /\ child \in ChildType /\ \A n \in Children \ Occupied : child[n] = "none"
          /\ \A n \in Occupied : child[n] # "none" \/ \E d \in Calls : call[d].child = n /\ call[d].pc \in Waiting
      BY TypedNow DEF Occupied
    <3>. QED BY <2>2, <3>1, <3>2, AttemptTakes
  <2>4. OwnNumber'
    <3>1. \A n \in Occupied : child'[n] # "none" => child[n] # "none"
      BY <2>3, OccupiedFinite
    <3>2. call'[c].pc \in Waiting => call'[c].child \in Children \ Occupied
      BY <2>3 DEF Waiting
    <3>. QED BY <2>3, <3>1, <3>2, NumbersMove
  <2>5. Occupied' \subseteq Occupied \cup {m} /\ Creating' \subseteq Creating
    <3>1. Creating' \subseteq Creating
      BY <2>3 DEF Creating
    <3>2. ASSUME NEW n \in Occupied', n # m PROVE n \in Occupied
      BY <2>3, <3>2, TakenBy DEF Occupied, Waiting
    <3>. QED BY <3>1, <3>2
  <2>. QED BY <1>1, <2>3, <2>4, <2>5, Typed, MadeTakes
<1>. QED BY <1>3, <1>4

LEMMA WakeNumbers == ASSUME NumbersInv, NEW c \in Calls, Wake(c) PROVE NumbersInv'
<1>1. /\ call[c].pc = "backoff" /\ Attempt(c, "again", call[c].structured, child)
      /\ made' = made /\ Others /\ call[c].structured \in BOOLEAN /\ child \in ChildType
  BY OthersKept, TypedNow DEF Wake, NumbersInv, CallType
<1>2. child[call[c].child] = "none"
  BY <1>1 DEF NumbersInv, OwnNumber
<1>. QED BY <1>1, <1>2, AskAgain

LEMMA UnsupportedNumbers ==
  ASSUME NumbersInv, NEW c \in Calls, NEW n \in Children, Unsupported(c, n) PROVE NumbersInv'
<1>1. call[c].pc = "asking" /\ call[c].child = n
  BY DEF Unsupported, Answering, matches
<1>2. Others /\ made' = made /\ made' >= made
  <2>1. UNCHANGED <<made, owner, host, degraded, streak, aborted>>
    BY DEF Unsupported
  <2>2. unsupported' \in BOOLEAN
    BY DEF Unsupported, NumbersInv, BackendTypeOK
  <2>. QED BY <2>1, <2>2, BackendAssumption DEF NumbersInv, BackendTypeOK, Others
<1>3. CASE call[c].try = "first"
  <2>1. Attempt(c, "text", FALSE, Done(n))
    BY <1>3 DEF Unsupported
  <2>. QED BY <1>1, <1>2, <2>1, DoneTyped, AskAgain DEF NumbersInv
<1>4. CASE call[c].try # "first"
  <2>1. Finish(c, "error") /\ child' = Done(n)
    BY <1>4 DEF Unsupported, EndChild
  <2>2. child' \in ChildType /\ \A k \in Children : child'[k] # "none" => child[k] # "none"
    BY <2>1, DoneTyped DEF NumbersInv
  <2>. QED BY <1>2, <2>1, <2>2, Finishing
<1>. QED BY <1>3, <1>4

LEMMA DuplicateNumbers ==
  ASSUME NumbersInv, NEW c \in Calls, NEW n \in Children, DuplicateNode(c, n) PROVE NumbersInv'
<1>1. call[c].pc = "asking" /\ call[c].child = n /\ child' = Done(n)
  BY DEF DuplicateNode, Answering, matches, EndChild
<1>2. Others /\ made' >= made
  BY OthersKept DEF DuplicateNode, NumbersInv
<1>3. /\ child' \in ChildType /\ child'[n] = "none"
      /\ \A k \in Children : child'[k] # "none" => child[k] # "none"
  BY <1>1, DoneTyped DEF NumbersInv
<1>4. CASE call' = [call EXCEPT ![c].pc = "backoff"]
  <2>1. /\ call' \in [Calls -> CallType] /\ call'[c].pc = "backoff" /\ call'[c].child = n
        /\ \A d \in Calls \ {c} : call'[d] = call[d]
    BY <1>1, <1>4, TypedNow DEF NumbersInv, CallType, Waiting
  <2>2. BackendTypeOK' /\ call[c].pc \in Waiting \ {"creating"} /\ call'[c].pc # "creating"
    BY <1>1, <1>2, <1>3, <2>1, Typed DEF Waiting
  <2>. QED BY <1>1, <1>2, <1>3, <2>1, <2>2, NothingTaken
<1>5. CASE Finish(c, "error")
  BY <1>2, <1>3, <1>5, Finishing
<1>. QED BY <1>4, <1>5 DEF DuplicateNode

LEMMA FailedNumbers ==
  ASSUME NumbersInv, NEW c \in Calls, NEW n \in Children, ChildFailed(c, n) PROVE NumbersInv'
<1>1. child' = Done(n) /\ Finish(c, "error")
  BY DEF ChildFailed, EndChild
<1>2. Others /\ made' >= made
  <2>1. UNCHANGED <<made, owner, host, unsupported, aborted>>
    BY DEF ChildFailed
  <2>2. degraded' \in BOOLEAN
    BY DEF ChildFailed, NumbersInv, BackendTypeOK
  <2>3. streak' \in {streak, streak + 1}
    BY DEF ChildFailed
  <2>. QED BY <2>1, <2>2, <2>3, BackendAssumption DEF NumbersInv, BackendTypeOK, Others
<1>3. child' \in ChildType /\ \A k \in Children : child'[k] # "none" => child[k] # "none"
  BY <1>1, DoneTyped DEF NumbersInv
<1>. QED BY <1>1, <1>2, <1>3, Finishing

LEMMA CompletedNumbers ==
  ASSUME NumbersInv, NEW c \in Calls, NEW n \in Children, NEW ctl \in Controls, Completed(c, n, ctl)
  PROVE  NumbersInv'
<1>1. call[c].pc = "asking" /\ call[c].child = n
  BY DEF Completed, Answering, matches
<1>2. Others /\ made' = made /\ made' >= made
  BY BackendAssumption DEF Completed, NumbersInv, BackendTypeOK, Others
<1>3. CASE call[c].try # "fix" /\ ctl # "whole"
  <2>1. Attempt(c, "fix", call[c].structured, Done(n)) /\ call[c].structured \in BOOLEAN
    BY <1>3, TypedNow DEF Completed, NumbersInv, CallType
  <2>. QED BY <1>1, <1>2, <2>1, DoneTyped, AskAgain DEF NumbersInv
<1>4. CASE ~(call[c].try # "fix" /\ ctl # "whole")
  <2>1. \E out \in {"error"} \cup Controls : Finish(c, out) /\ child' = Done(n)
    <3>1. CASE call[c].try # "fix" /\ ctl = "whole"
      BY <3>1 DEF Completed, EndChild
    <3>2. CASE call[c].try = "fix"
      BY <3>2 DEF Completed, EndChild
    <3>. QED BY <1>4, <3>1, <3>2
  <2>2. child' \in ChildType /\ \A k \in Children : child'[k] # "none" => child[k] # "none"
    BY <2>1, DoneTyped DEF NumbersInv
  <2>. QED BY <1>2, <2>1, <2>2, Finishing
<1>. QED BY <1>3, <1>4

LEMMA TimedOutNumbers == ASSUME NumbersInv, NEW c \in Calls, TimedOut(c) PROVE NumbersInv'
<1>1. Stop(call[c].child) /\ Finish(c, "error") /\ Others /\ made' >= made
  BY OthersKept DEF TimedOut, NumbersInv
<1>2. child' \in ChildType /\ \A k \in Children : child'[k] # "none" => child[k] # "none"
  BY <1>1, StopTyped DEF NumbersInv
<1>. QED BY <1>1, <1>2, Finishing

(* A session is started, created, stopped, and ends.                        *)
LEMMA StartNumbers == ASSUME NumbersInv, NEW c \in Calls, StartSession(c) PROVE NumbersInv'
<1>. USE DEF NumbersInv
<1>1. made' = made + 1 /\ Others /\ made' >= made /\ child' = child
  BY BackendAssumption DEF StartSession, BackendTypeOK, Others, sticky
<1>2. CASE Finish(c, "error")
  BY <1>1, <1>2, TypedNow, Finishing
<1>3. CASE call' = [call EXCEPT ![c] = [Idle EXCEPT !.pc = "creating"]]
  <2>1. /\ call' \in [Calls -> CallType] /\ call'[c].pc = "creating" /\ call'[c].child = 0
        /\ \A d \in Calls \ {c} : call'[d] = call[d]
    <3>1. [Idle EXCEPT !.pc = "creating"] \in CallType
      BY DEF Idle, CallType, Waiting, Controls
    <3>. QED BY <1>3, <3>1, TypedNow DEF Idle
  <2>2. BackendTypeOK' /\ OwnNumber'
    BY <1>1, <2>1, TypedNow, Typed, NumbersMove
  <2>3. Occupied' \subseteq Occupied
    <3>1. 0 \notin Children
      BY BackendAssumption DEF Children
    <3>2. ASSUME NEW n \in Occupied' PROVE n \in Occupied
      <4>1. n \in Children
        BY DEF Occupied
      <4>. QED BY <1>1, <2>1, <3>1, <4>1, TakenBy
    <3>. QED BY <3>2
  <2>4. Creating' \subseteq Creating \cup {c}
    BY <2>1 DEF Creating
  <2>. QED BY <1>1, <2>2, <2>3, <2>4, MadeCreates
<1>. QED BY <1>2, <1>3 DEF StartSession

LEMMA CreateNumbers == ASSUME NumbersInv, NEW c \in Calls, createAgentSession(c) PROVE NumbersInv'
<1>. USE DEF NumbersInv
<1>1. call[c].pc = "creating" /\ made' = made /\ Others /\ made' >= made
  BY OthersKept DEF createAgentSession
<1>2. CASE Finish(c, "error") /\ UNCHANGED child
  BY <1>1, <1>2, TypedNow, Finishing
<1>3. CASE ~(Finish(c, "error") /\ UNCHANGED child)
  <2>. PICK m : m = Fresh(child)
    OBVIOUS
  <2>1. /\ child' = [child EXCEPT ![m] = "live"]
        /\ call' = [call EXCEPT ![c].pc = "prompting", ![c].child = m, ![c].deaf = aborted]
    BY <1>3 DEF createAgentSession
  <2>2. Cardinality(Occupied) <= MaxCalls
    BY OccupiedFinite, FS_CardinalityType, BackendAssumption DEF Room, BackendTypeOK
  <2>3. m \in Children \ Occupied
    BY <2>2, OneIsFree DEF Occupied
  <2>4. /\ call' \in [Calls -> CallType] /\ child' \in ChildType
        /\ call'[c].pc = "prompting" /\ call'[c].child = m
        /\ \A d \in Calls \ {c} : call'[d] = call[d]
        /\ \A n \in Children \ {m} : child'[n] = child[n]
    <3>1. aborted \in BOOLEAN /\ call[c] \in CallType
      BY TypedNow DEF BackendTypeOK
    <3>2. [call[c] EXCEPT !.pc = "prompting", !.child = m, !.deaf = aborted] \in CallType
      BY <2>3, <3>1 DEF CallType, Waiting
    <3>3. call' = [call EXCEPT ![c] = [call[c] EXCEPT !.pc = "prompting", !.child = m, !.deaf = aborted]]
      BY <2>1, TypedNow
    <3>4. /\ [call[c] EXCEPT !.pc = "prompting", !.child = m, !.deaf = aborted].pc = "prompting"
          /\ [call[c] EXCEPT !.pc = "prompting", !.child = m, !.deaf = aborted].child = m
      BY <3>1 DEF CallType
    <3>. QED BY <2>1, <2>3, <3>2, <3>3, <3>4, TypedNow DEF ChildType
  <2>5. BackendTypeOK'
    BY <1>1, <2>4, Typed
  <2>6. OwnNumber'
    <3>1. \A n \in Occupied : child'[n] # "none" => child[n] # "none"
      BY <2>3, <2>4, OccupiedFinite
    <3>. QED BY <2>3, <2>4, <3>1, NumbersMove
  <2>7. Occupied' \subseteq Occupied \cup {m}
    <3>1. ASSUME NEW n \in Occupied', n # m PROVE n \in Occupied
      BY <2>4, <3>1, TakenBy DEF Occupied
    <3>. QED BY <3>1
  <2>8. c \in Creating /\ Creating' \subseteq Creating \ {c}
    BY <1>1, <2>4 DEF Creating
  <2>. QED BY <1>1, <2>5, <2>6, <2>7, <2>8, CreatedTakes
<1>. QED BY <1>2, <1>3

LEMMA StopNumbers == ASSUME NumbersInv, NEW c \in Calls, StopSession(c) PROVE NumbersInv'
<1>1. call' = call /\ call[c].pc = "prompting" /\ Stop(call[c].child) /\ Others /\ made' >= made
  BY OthersKept DEF StopSession, NumbersInv
<1>2. child' \in ChildType /\ \A k \in Children : child'[k] # "none" => child[k] # "none"
  BY <1>1, StopTyped DEF NumbersInv
<1>3. BackendTypeOK' /\ call[c].pc \in Waiting \ {"creating"}
  BY <1>1, <1>2, TypedNow, Typed DEF NumbersInv, Waiting
<1>. QED BY <1>1, <1>2, <1>3, NothingTaken

LEMMA PromptNumbers == ASSUME NumbersInv, NEW c \in Calls, PromptEnds(c) PROVE NumbersInv'
<1>1. call[c].pc = "prompting" /\ call[c].pc \in Waiting \ {"creating"} /\ Others /\ made' >= made
  BY OthersKept DEF PromptEnds, NumbersInv, Waiting
<1>2. call[c].child \in Children
  BY <1>1, WaitedChild
<1>3. ASSUME NEW out \in {"error", "whole"}, EndChild(call[c].child), Finish(c, out) PROVE NumbersInv'
  <2>1. child' \in ChildType /\ \A k \in Children : child'[k] # "none" => child[k] # "none"
    BY <1>2, <1>3, DoneTyped DEF EndChild, NumbersInv
  <2>2. out \in {"error"} \cup Controls
    BY DEF Controls
  <2>. QED BY ONLY NumbersInv, c \in Calls, <1>1, <1>3, <2>1, <2>2, Finishing
<1>4. CASE call' = [call EXCEPT ![c].pc = "fixing", ![c].try = "mend"] /\ UNCHANGED child
  <2>1. /\ call' \in [Calls -> CallType] /\ call'[c].pc = "fixing" /\ call'[c].child = call[c].child
        /\ \A d \in Calls \ {c} : call'[d] = call[d]
    <3>1. PICK r : r = [call[c] EXCEPT !.pc = "fixing", !.try = "mend"]
      OBVIOUS
    <3>2. call \in [Calls -> CallType] /\ call[c] \in CallType
      BY TypedNow DEF NumbersInv
    <3>3. r \in CallType /\ r.pc = "fixing" /\ r.child = call[c].child
      BY <3>1, <3>2 DEF CallType, Waiting
    <3>4. call' = [call EXCEPT ![c] = r]
      BY <1>4, <3>1, <3>2
    <3>. QED BY <3>2, <3>3, <3>4
  <2>2. BackendTypeOK'
    BY <1>1, <1>4, <2>1, TypedNow, Typed DEF NumbersInv
  <2>. QED BY <1>1, <1>4, <2>1, <2>2, NothingTaken
<1>. QED BY <1>3, <1>4 DEF PromptEnds

LEMMA CorrectionNumbers == ASSUME NumbersInv, NEW c \in Calls, CorrectionEnds(c) PROVE NumbersInv'
<1>1. call[c].pc \in Waiting \ {"creating"} /\ EndChild(call[c].child) /\ Others /\ made' >= made
  BY OthersKept DEF CorrectionEnds, NumbersInv, Waiting
<1>2. PICK out \in {"error", "whole", "short", "wrong"} : Finish(c, out)
  BY DEF CorrectionEnds
<1>3. child' \in ChildType /\ \A k \in Children : child'[k] # "none" => child[k] # "none"
  BY <1>1, WaitedChild, DoneTyped DEF EndChild, NumbersInv
<1>4. out \in {"error"} \cup Controls
  BY DEF Controls
<1>. QED BY <1>1, <1>2, <1>3, <1>4, Finishing

(* Around the calls.                                                        *)
LEMMA AgainNumbers == ASSUME NumbersInv, NEW c \in Calls, Again(c) PROVE NumbersInv'
<1>1. child' = child /\ Others /\ made' >= made
  BY OthersKept DEF Again, NumbersInv
<1>2. /\ call' \in [Calls -> CallType] /\ call'[c].pc = "idle"
      /\ \A d \in Calls \ {c} : call'[d] = call[d]
  <2>1. Idle \in CallType /\ Idle.pc = "idle"
    BY DEF Idle, CallType, Controls
  <2>. QED BY <2>1, TypedNow DEF Again, NumbersInv
<1>3. BackendTypeOK' /\ call'[c].pc \notin Waiting /\ call'[c].pc # "backoff"
  BY <1>1, <1>2, TypedNow, Typed DEF NumbersInv, Waiting
<1>. QED BY <1>1, <1>2, <1>3, NothingTaken

LEMMA StaleNumbers == ASSUME NumbersInv, NEW m \in Children, Stale(m) PROVE NumbersInv'
<1>. USE DEF NumbersInv
<1>1. call' = call /\ child' = Done(m) /\ Others /\ made' >= made /\ made' = made
  BY OthersKept DEF Stale, EndChild
<1>2. child' \in ChildType /\ \A k \in Children : child'[k] # "none" => child[k] # "none"
  BY <1>1, DoneTyped
<1>3. BackendTypeOK'
  BY <1>1, <1>2, TypedNow, Typed
<1>4. OwnNumber'
  <2>1. \A c \in Calls : call[c].pc = "backoff" => call[c].child \in Children
    BY DEF OwnNumber, Waiting
  <2>2. \A c \in Calls : call'[c].pc = "backoff" => child'[call'[c].child] = "none"
    BY <1>1, <1>2, <2>1 DEF OwnNumber
  <2>. QED BY <1>1, <2>2 DEF OwnNumber
<1>5. Occupied' \subseteq Occupied /\ Creating' \subseteq Creating /\ made' \in Nat
  BY <1>1, <1>2, BackendAssumption DEF Occupied, Creating, BackendTypeOK
<1>. QED BY <1>1, <1>3, <1>4, <1>5, Shrinks

LEMMA AbortNumbers == ASSUME NumbersInv, AbortRun PROVE NumbersInv'
<1>. USE DEF NumbersInv
<1>1. Others /\ made' >= made /\ made' = made
  BY BackendAssumption DEF AbortRun, BackendTypeOK, Others, sticky
<1>2. child' \in ChildType /\ \A k \in Children : child'[k] # "none" => child[k] # "none"
  BY TypedNow DEF AbortRun, ChildType
<1>3. \A c \in Calls : \/ call'[c].pc = "done" /\ call'[c] \in CallType
                       \/ call'[c] = call[c] /\ call[c].pc # "backoff"
  BY TypedNow DEF AbortRun, Settled, Idle, CallType, Controls
<1>4. call' \in [Calls -> CallType]
  <2>1. call' = [c \in Calls |-> call'[c]]
    BY DEF AbortRun
  <2>. QED BY <1>3, <2>1, TypedNow
<1>5. BackendTypeOK'
  BY <1>1, <1>2, <1>4, Typed
<1>6. \A c \in Calls : call'[c].pc \in Waiting => call'[c] = call[c] /\ call[c].pc # "backoff"
  BY <1>3 DEF Waiting
<1>7. OwnNumber'
  <2>1. \A c \in Calls : call'[c].pc # "backoff"
    BY <1>3
  <2>. QED BY <1>6, <2>1 DEF OwnNumber
<1>8. Occupied' \subseteq Occupied /\ Creating' \subseteq Creating /\ made' \in Nat
  BY <1>2, <1>6, <1>1, BackendAssumption DEF Occupied, Creating, BackendTypeOK, Waiting
<1>. QED BY <1>1, <1>5, <1>7, <1>8, Shrinks

LEMMA StandStill ==
  ASSUME NumbersInv, UNCHANGED <<call, child, made>>, BackendTypeOK' PROVE NumbersInv'
BY DEF NumbersInv, OwnNumber, Room, Occupied, Creating

LEMMA InitNumbers == BackendInit => NumbersInv
<1>. SUFFICES ASSUME BackendInit PROVE NumbersInv
  OBVIOUS
<1>1. Idle \in CallType /\ Idle.pc = "idle"
  BY DEF Idle, CallType, Controls
<1>2. BackendTypeOK
  <2>1. call \in [Calls -> CallType]
    BY <1>1 DEF BackendInit
  <2>2. child \in ChildType /\ made \in 0..MaxCalls
    BY BackendAssumption DEF BackendInit, ChildType
  <2>. QED BY <2>1, <2>2 DEF BackendInit, BackendTypeOK, CallType, ChildType
<1>3. \A c \in Calls : call[c].pc \notin Waiting
  BY <1>1 DEF BackendInit, Waiting
<1>4. Occupied = {} /\ Creating = {}
  BY <1>3 DEF BackendInit, Occupied, Creating, Waiting
<1>5. OwnNumber
  BY <1>3 DEF OwnNumber, Waiting
<1>. QED BY <1>2, <1>4, <1>5, FS_EmptySet DEF NumbersInv, Room, BackendInit

LEMMA StepNumbers == NumbersInv /\ [BackendNext]_backendVars => NumbersInv'
<1>. SUFFICES ASSUME NumbersInv, [BackendNext]_backendVars PROVE NumbersInv'
  OBVIOUS
<1>1. CASE AbortRun
  BY <1>1, AbortNumbers
<1>2. CASE OwnerChanges
  <2>1. BackendTypeOK'
    BY <1>2 DEF OwnerChanges, NumbersInv, BackendTypeOK, sticky
  <2>. QED BY <1>2, <2>1, StandStill DEF OwnerChanges
<1>3. ASSUME NEW n \in Children, Stale(n) PROVE NumbersInv'
  BY <1>3, StaleNumbers
<1>4. ASSUME NEW c \in Calls, Delegate(c) \/ Wake(c) \/ TimedOut(c) \/ Again(c) PROVE NumbersInv'
  BY <1>4, DelegateNumbers, WakeNumbers, TimedOutNumbers, AgainNumbers
<1>5. ASSUME NEW c \in Calls,
             StartSession(c) \/ createAgentSession(c) \/ StopSession(c) \/ PromptEnds(c) \/ CorrectionEnds(c)
      PROVE  NumbersInv'
  BY <1>5, StartNumbers, CreateNumbers, StopNumbers, PromptNumbers, CorrectionNumbers
<1>6. ASSUME NEW c \in Calls, NEW n \in Children, Unsupported(c, n) \/ DuplicateNode(c, n) \/ ChildFailed(c, n)
      PROVE  NumbersInv'
  BY <1>6, UnsupportedNumbers, DuplicateNumbers, FailedNumbers
<1>7. ASSUME NEW c \in Calls, NEW n \in Children, NEW ctl \in Controls, Completed(c, n, ctl) PROVE NumbersInv'
  BY <1>7, CompletedNumbers
<1>8. CASE UNCHANGED backendVars
  <2>1. BackendTypeOK'
    BY <1>8 DEF backendVars, NumbersInv, BackendTypeOK
  <2>. QED BY <1>8, <2>1, StandStill DEF backendVars
<1>. QED BY <1>1, <1>2, <1>3, <1>4, <1>5, <1>6, <1>7, <1>8 DEF BackendNext

(* The requests of any number of calls stay well typed: there is always a   *)
(* number that no call waits for and no child has, since each is taken for  *)
(* a call that was made and given back before that call takes another       *)
(* (delegation-backend.ts, attempt).                                        *)
THEOREM BackendTypeCorrect == BackendSpec => []BackendTypeOK
<1>1. NumbersInv => BackendTypeOK
  BY DEF NumbersInv
<1>. QED BY InitNumbers, StepNumbers, <1>1, PTL DEF BackendSpec

-----------------------------------------------------------------------------
(* The state of a track: who holds its locks, and where its rows are.        *)

RunIds == 0..MaxRuns
SetupPcs == {"off", "preload", "preact", "preunlink", "worktree", "lock", "check", "act", "unlink",
             "truncate", "hygiene", "untrack", "parked", "run", "closing"}
Excuses == {"split", "checkout", "parked", "removed", "cleared"}
File == [there : BOOLEAN, rows : SUBSET RunIds]
Process == [pc : SetupPcs, run : RunIds, id : Tracks \cup {None}, how : {"fresh", "reuse", "resume"},
            memo : BOOLEAN, act : {"none", "move", "replace", "discard"}, aside : File,
            blind : BOOLEAN, left : BOOLEAN]

SetupShape ==
  /\ proc \in [Procs -> Process] /\ nruns \in RunIds /\ wt \subseteq Tracks /\ merged \subseteq Tracks
  /\ ext \in [Tracks -> File] /\ inSpec \in [Tracks -> File]
  /\ head \in [Tracks -> File] /\ past \in [Tracks -> File]
  /\ newer \in [Tracks -> {"ext", "in"}] /\ written \in [Tracks -> SUBSET RunIds]
  /\ excused \in [Tracks -> SUBSET Excuses]
  /\ lockExt \in [Tracks -> Procs \cup {None}] /\ lockIn \in [Tracks -> Procs \cup {None}]

\* A process at work has a track; only a resumed run is in the early move.
Underway ==
  \A p \in Procs : /\ proc[p].pc # "off" => proc[p].id \in Tracks
                   /\ proc[p].pc \in {"preload", "preact", "preunlink"} => proc[p].how = "resume"

SetupSane == SetupShape /\ Underway

\* p alone has moved, and is now r.
Becomes(p, r) == proc' = [proc EXCEPT ![p] = r]

LEMMA ProcessMoves ==
  ASSUME SetupShape, NEW p \in Procs, NEW r \in Process, Becomes(p, r)
  PROVE  /\ proc' \in [Procs -> Process] /\ proc'[p] = r
         /\ \A q \in Procs \ {p} : proc'[q] = proc[q]
BY DEF SetupShape, Becomes

LEMMA OffIsProcess == Off \in Process /\ Absent \in File /\ \A R \in SUBSET RunIds : FileOf(R) \in File
<1>1. 0 \in RunIds
  BY SetupAssumption DEF RunIds
<1>. QED BY <1>1 DEF Off, Absent, FileOf, Process, File, SetupPcs

\* A process that goes on keeps what it is but for its place.
LEMMA GoesOn ==
  ASSUME SetupShape, NEW p \in Procs, NEW c \in SetupPcs, Goto(p, c)
  PROVE  /\ proc' \in [Procs -> Process] /\ \A q \in Procs \ {p} : proc'[q] = proc[q]
         /\ proc'[p].pc = c /\ proc'[p].run = proc[p].run /\ proc'[p].id = proc[p].id
         /\ proc'[p].how = proc[p].how /\ proc'[p].act = proc[p].act
         /\ proc'[p].aside = proc[p].aside /\ proc'[p].blind = proc[p].blind
<1>1. proc[p] \in Process
  BY DEF SetupShape
<1>2. proc'[p] = [proc[p] EXCEPT !.pc = c] /\ \A q \in Procs \ {p} : proc'[q] = proc[q]
  BY DEF SetupShape, Goto
<1>3. /\ [proc[p] EXCEPT !.pc = c] \in Process
      /\ [proc[p] EXCEPT !.pc = c].pc = c /\ [proc[p] EXCEPT !.pc = c].run = proc[p].run
      /\ [proc[p] EXCEPT !.pc = c].id = proc[p].id /\ [proc[p] EXCEPT !.pc = c].how = proc[p].how
      /\ [proc[p] EXCEPT !.pc = c].act = proc[p].act /\ [proc[p] EXCEPT !.pc = c].aside = proc[p].aside
      /\ [proc[p] EXCEPT !.pc = c].blind = proc[p].blind
  BY <1>1 DEF Process
<1>4. proc' \in [Procs -> Process]
  BY <1>2, <1>3 DEF SetupShape, Goto
<1>. QED BY <1>2, <1>3, <1>4

LEMMA Ends ==
  ASSUME SetupShape, NEW p \in Procs, End(p)
  PROVE  /\ proc' \in [Procs -> Process] /\ proc'[p] = Off
         /\ \A q \in Procs \ {p} : proc'[q] = proc[q]
         /\ lockExt' \in [Tracks -> Procs \cup {None}] /\ lockIn' \in [Tracks -> Procs \cup {None}]
         /\ \A t \in Tracks : /\ lockExt[t] # p => lockExt'[t] = lockExt[t]
                              /\ lockIn[t] # p => lockIn'[t] = lockIn[t]
BY OffIsProcess DEF SetupShape, End, Unlock

LEMMA InitSane == ASSUME SetupInit PROVE SetupSane
<1>1. /\ Off \in Process /\ Absent \in File /\ FileOf({}) \in File /\ FileOf({0}) \in File
      /\ Off.pc = "off" /\ 0 \in RunIds
  <2>1. 0 \in RunIds
    BY SetupAssumption DEF RunIds
  <2>. QED BY <2>1, OffIsProcess DEF Off
<1>. QED BY <1>1 DEF SetupInit, SetupSane, SetupShape, Underway

LEMMA WriteKept ==
  ASSUME SetupShape, NEW t \in Tracks, NEW ok \in BOOLEAN, NEW rows \in SUBSET RunIds, Write(t, ok, rows)
  PROVE  /\ ext' \in [Tracks -> File] /\ inSpec' \in [Tracks -> File]
         /\ newer' \in [Tracks -> {"ext", "in"}]
BY OffIsProcess DEF SetupShape, Write

LEMMA ExcuseKept ==
  ASSUME SetupShape, NEW t \in Tracks, NEW why \in Excuses, Excuse(t, why)
  PROVE  /\ excused' \in [Tracks -> SUBSET Excuses] /\ excused'[t] # {}
         /\ \A u \in Tracks \ {t} : excused'[u] = excused[u]
BY DEF SetupShape, Excuse

\* The steps that start a run.
LEMMA Starts ==
  ASSUME SetupSane, NEW p \in Procs, StartResume(p) \/ runSetup(p)
  PROVE  \E r \in Process : /\ Becomes(p, r) /\ r.id \in Tracks /\ r.pc \in {"preload", "worktree"}
                            /\ r.pc = "preload" => r.how = "resume"
<1>1. nruns + 1 \in RunIds
  <2>1. nruns < MaxRuns
    BY DEF StartResume, runSetup
  <2>. QED BY <2>1, SetupAssumption DEF SetupSane, SetupShape, RunIds
<1>. DEFINE born(c, t, h) == [Off EXCEPT !.pc = c, !.run = nruns + 1, !.id = t, !.how = h]
<1>2. ASSUME NEW c \in {"preload", "worktree"}, NEW t \in Tracks, NEW h \in {"fresh", "reuse", "resume"}
      PROVE  /\ born(c, t, h) \in Process
             /\ born(c, t, h).id = t /\ born(c, t, h).pc = c /\ born(c, t, h).how = h
  BY <1>1 DEF Off, Absent, Process, File, SetupPcs
<1>3. CASE StartResume(p)
  <2>1. PICK t \in findResumableSpec :
          Becomes(p, born(IF t \in wt \cup merged THEN "preload" ELSE "worktree", t, "resume"))
    BY <1>3 DEF StartResume, Becomes
  <2>2. t \in Tracks
    BY DEF SetupSane, SetupShape, findResumableSpec, externalResumeCandidates
  <2>3. PICK c \in {"preload", "worktree"} : c = IF t \in wt \cup merged THEN "preload" ELSE "worktree"
    OBVIOUS
  <2>. HIDE DEF born
  <2>4. Becomes(p, born(c, t, "resume"))
    BY <2>1, <2>3
  <2>. QED BY <1>2, <2>2, <2>4
<1>4. CASE runSetup(p)
  <2>1. PICK how \in {"reuse", "fresh"} :
          \E t \in IF how = "reuse" THEN referencedSpecIdentifier \cup findReusableSpec ELSE freshIdentifier :
            Becomes(p, born("worktree", t, how))
    BY <1>4 DEF runSetup, Becomes
  <2>2. referencedSpecIdentifier \cup findReusableSpec \subseteq Tracks /\ freshIdentifier \subseteq Tracks
    BY DEF SetupSane, SetupShape, referencedSpecIdentifier, findReusableSpec, freshIdentifier
  <2>. HIDE DEF born
  <2>3. PICK t \in Tracks : Becomes(p, born("worktree", t, how))
    BY <2>1, <2>2
  <2>. QED BY <1>2, <2>3
<1>. QED BY <1>3, <1>4

LEMMA StartSane ==
  ASSUME SetupSane, NEW p \in Procs, StartResume(p) \/ runSetup(p)
  PROVE  SetupSane'
<1>1. PICK r \in Process : /\ Becomes(p, r) /\ r.id \in Tracks /\ r.pc \in {"preload", "worktree"}
                           /\ r.pc = "preload" => r.how = "resume"
  BY Starts
<1>2. nruns' \in RunIds /\ UNCHANGED <<repo, store, locks, history>>
  <2>1. nruns' = nruns + 1 /\ nruns < MaxRuns /\ UNCHANGED <<repo, store, locks, history>>
    BY DEF StartResume, runSetup
  <2>. QED BY <2>1, SetupAssumption DEF SetupSane, SetupShape, RunIds
<1>3. proc' \in [Procs -> Process] /\ proc'[p] = r /\ \A q \in Procs \ {p} : proc'[q] = proc[q]
  BY <1>1, ProcessMoves DEF SetupSane
<1>. QED BY <1>1, <1>2, <1>3 DEF SetupSane, SetupShape, Underway, repo, store, locks, history

\* A process goes on at c with another field set as well.
Goes(old, c, r) ==
  \/ \E m \in BOOLEAN, a \in {"none", "move", "replace", "discard"} :
       r = [old EXCEPT !.pc = c, !.memo = m, !.act = a]
  \/ \E b \in BOOLEAN : r = [old EXCEPT !.pc = c, !.blind = b]
  \/ \E m \in BOOLEAN : r = [old EXCEPT !.pc = c, !.memo = m]
  \/ \E b \in BOOLEAN : r = [old EXCEPT !.pc = c, !.left = b]
  \/ \E f \in File : r = [old EXCEPT !.pc = c, !.aside = f]

LEMMA GoesShape ==
  ASSUME NEW old \in Process, NEW c \in SetupPcs, NEW r, Goes(old, c, r)
  PROVE  r \in Process /\ r.pc = c /\ r.run = old.run /\ r.id = old.id /\ r.how = old.how
<1>1. ASSUME NEW m \in BOOLEAN, NEW a \in {"none", "move", "replace", "discard"},
             r = [old EXCEPT !.pc = c, !.memo = m, !.act = a]
      PROVE  r \in Process /\ r.pc = c /\ r.run = old.run /\ r.id = old.id /\ r.how = old.how
  BY <1>1 DEF Process
<1>2. ASSUME NEW b \in BOOLEAN, r = [old EXCEPT !.pc = c, !.blind = b]
      PROVE  r \in Process /\ r.pc = c /\ r.run = old.run /\ r.id = old.id /\ r.how = old.how
  BY <1>2 DEF Process
<1>3. ASSUME NEW m \in BOOLEAN, r = [old EXCEPT !.pc = c, !.memo = m]
      PROVE  r \in Process /\ r.pc = c /\ r.run = old.run /\ r.id = old.id /\ r.how = old.how
  BY <1>3 DEF Process
<1>4. ASSUME NEW b \in BOOLEAN, r = [old EXCEPT !.pc = c, !.left = b]
      PROVE  r \in Process /\ r.pc = c /\ r.run = old.run /\ r.id = old.id /\ r.how = old.how
  BY <1>4 DEF Process
<1>5. ASSUME NEW f \in File, r = [old EXCEPT !.pc = c, !.aside = f]
      PROVE  r \in Process /\ r.pc = c /\ r.run = old.run /\ r.id = old.id /\ r.how = old.how
  BY <1>5 DEF Process
<1>. QED BY <1>1, <1>2, <1>3, <1>4, <1>5, Zenon DEF Goes

LEMMA FieldsMove ==
  ASSUME SetupShape, NEW p \in Procs, NEW c \in SetupPcs, NEW r,
         proc' = [proc EXCEPT ![p] = r], Goes(proc[p], c, r)
  PROVE  /\ proc' \in [Procs -> Process] /\ \A q \in Procs \ {p} : proc'[q] = proc[q]
         /\ proc'[p].pc = c /\ proc'[p].run = proc[p].run /\ proc'[p].id = proc[p].id
         /\ proc'[p].how = proc[p].how
<1>1. proc[p] \in Process
  BY DEF SetupShape
<1>2. /\ r \in Process /\ r.pc = c /\ r.run = proc[p].run /\ r.id = proc[p].id
      /\ r.how = proc[p].how
  BY <1>1, GoesShape
<1>3. proc' \in [Procs -> Process] /\ proc'[p] = r /\ \A q \in Procs \ {p} : proc'[q] = proc[q]
  BY <1>2, ProcessMoves DEF Becomes
<1>. QED BY <1>2, <1>3

(* Each part of the shape, step by step.                                     *)

\* The processes keep their shape and their place.
LEMMA ProcsSane ==
  ASSUME SetupSane, NEW p \in Procs,
         proc' \in [Procs -> Process], \A q \in Procs \ {p} : proc'[q] = proc[q],
         \/ proc'[p] = Off
         \/ /\ proc[p].pc # "off" /\ proc'[p].id = proc[p].id /\ proc'[p].how = proc[p].how
            /\ proc'[p].pc \in {"preact", "preunlink"} => proc[p].pc \in {"preload", "preact"}
            /\ proc'[p].pc # "preload"
  PROVE  Underway'
BY DEF SetupSane, Underway, Off

LEMMA AcquireShape ==
  ASSUME SetupSane, NEW p \in Procs, acquireRunLock(p)
  PROVE  /\ proc' \in [Procs -> Process] /\ \A q \in Procs \ {p} : proc'[q] = proc[q]
         /\ \/ proc'[p] = Off
            \/ /\ proc'[p].pc = "check" /\ proc'[p].id = proc[p].id /\ proc'[p].how = proc[p].how
         /\ lockExt' \in [Tracks -> Procs \cup {None}] /\ lockIn' \in [Tracks -> Procs \cup {None}]
<1>1. CASE End(p)
  BY <1>1, Ends DEF SetupSane
<1>2. ASSUME NEW ok \in BOOLEAN, proc' = [proc EXCEPT ![p].pc = "check", ![p].memo = ok],
             IF ok THEN lockExt' = [lockExt EXCEPT ![proc[p].id] = p] /\ UNCHANGED lockIn
                   ELSE lockIn' = [lockIn EXCEPT ![proc[p].id] = p] /\ UNCHANGED lockExt
      PROVE  /\ proc' \in [Procs -> Process] /\ \A q \in Procs \ {p} : proc'[q] = proc[q]
             /\ proc'[p].pc = "check" /\ proc'[p].id = proc[p].id /\ proc'[p].how = proc[p].how
             /\ lockExt' \in [Tracks -> Procs \cup {None}] /\ lockIn' \in [Tracks -> Procs \cup {None}]
  <2>1. PICK r : r = [proc[p] EXCEPT !.pc = "check", !.memo = ok]
    OBVIOUS
  <2>2. proc' = [proc EXCEPT ![p] = r]
    BY <1>2, <2>1
  <2>3. /\ proc' \in [Procs -> Process] /\ \A q \in Procs \ {p} : proc'[q] = proc[q]
        /\ proc'[p].pc = "check" /\ proc'[p].id = proc[p].id /\ proc'[p].how = proc[p].how
    <3>1. Goes(proc[p], "check", r) /\ "check" \in SetupPcs
      BY <2>1 DEF Goes, SetupPcs
    <3>. QED BY <2>2, <3>1, FieldsMove DEF SetupSane
  <2>. QED BY <1>2, <2>3 DEF SetupSane, SetupShape
<1>. QED BY <1>1, <1>2 DEF acquireRunLock

LEMMA CheckShape ==
  ASSUME SetupSane, NEW p \in Procs, checkMigration(p)
  PROVE  /\ proc' \in [Procs -> Process] /\ \A q \in Procs \ {p} : proc'[q] = proc[q]
         /\ \/ End(p)
            \/ /\ UNCHANGED locks /\ proc'[p].id = proc[p].id /\ proc'[p].how = proc[p].how
               /\ proc[p].pc = "preload" => proc'[p].pc \in {"worktree", "preact"}
               /\ proc[p].pc = "check" => /\ proc'[p].pc \in {"truncate", "act"}
                                          /\ proc'[p].blind \/ ~liveForeignLockHolder(p, proc[p].id)
               /\ proc'[p].pc \in {"act", "preact"} => proc'[p].act = migrationOf(proc[p].id)
<1>1. proc[p] \in Process /\ proc[p].pc \in {"preload", "check"} /\ SetupShape
  BY DEF checkMigration, SetupSane, SetupShape
<1>2. PICK on : on = Onward(p)
  OBVIOUS
<1>3. /\ proc[p].pc = "preload" => on = "worktree"
      /\ proc[p].pc = "check" => on = "truncate"
  BY <1>1, <1>2 DEF Onward, Preload, SetupSane, Underway
<1>4. PICK refused \in BOOLEAN : refused <=> liveForeignLockHolder(p, proc[p].id)
  OBVIOUS
<1>5. PICK act : act = migrationOf(proc[p].id)
  OBVIOUS
<1>6. act \in {"none", "move", "replace", "discard"}
  <2>1. CASE ~inSpec[proc[p].id].there
    BY <1>5, <2>1 DEF migrationOf
  <2>2. CASE inSpec[proc[p].id].there /\ ~ext[proc[p].id].there
    BY <1>5, <2>2 DEF migrationOf
  <2>3. CASE inSpec[proc[p].id].there /\ ext[proc[p].id].there /\ newer[proc[p].id] = "in"
    BY <1>5, <2>3 DEF migrationOf
  <2>4. CASE inSpec[proc[p].id].there /\ ext[proc[p].id].there /\ newer[proc[p].id] # "in"
    BY <1>5, <2>4 DEF migrationOf
  <2>. QED BY <2>1, <2>2, <2>3, <2>4
<1>. DEFINE Then(c) == proc' = [proc EXCEPT ![p].pc = c, ![p].memo = TRUE, ![p].act = act]
<1>7. \/ /\ proc' = [proc EXCEPT ![p].pc = on, ![p].blind = At(p, "check")] /\ UNCHANGED locks
      \/ End(p)
      \/ refused /\ proc[p].pc = "preload" /\ Then("worktree") /\ UNCHANGED locks
      \/ ~refused /\ act = "none" /\ Then(on) /\ UNCHANGED locks
      \/ ~refused /\ Then(IF Preload(p) THEN "preact" ELSE "act") /\ UNCHANGED locks
  BY <1>2, <1>4, <1>5 DEF checkMigration, At
<1>8. CASE /\ proc' = [proc EXCEPT ![p].pc = on, ![p].blind = At(p, "check")] /\ UNCHANGED locks
  <2>1. PICK b \in BOOLEAN : b <=> proc[p].pc = "check"
    OBVIOUS
  <2>2. PICK r : r = [proc[p] EXCEPT !.pc = on, !.blind = b]
    OBVIOUS
  <2>3. b = At(p, "check")
    BY <2>1 DEF At
  <2>4. proc' = [proc EXCEPT ![p] = r]
    BY <1>8, <2>2, <2>3
  <2>5. on \in SetupPcs /\ on \in {"worktree", "truncate"}
    BY <1>1, <1>3 DEF SetupPcs
  <2>6. /\ proc' \in [Procs -> Process] /\ \A q \in Procs \ {p} : proc'[q] = proc[q]
        /\ proc'[p].pc = on /\ proc'[p].id = proc[p].id /\ proc'[p].how = proc[p].how
    <3>1. Goes(proc[p], on, r)
      BY <2>2 DEF Goes
    <3>. QED BY <1>1, <2>4, <2>5, <3>1, FieldsMove
  <2>7. proc'[p] = r /\ r.blind = b
    BY <1>1, <2>2, <2>4 DEF SetupShape, Process
  <2>. QED BY <1>1, <1>3, <1>8, <2>1, <2>5, <2>6, <2>7
<1>9. CASE End(p)
  BY <1>1, <1>9, Ends
<1>10. ASSUME NEW c \in {"worktree", "truncate", "preact", "act"}, Then(c), UNCHANGED locks,
              proc[p].pc = "preload" => c \in {"worktree", "preact"},
              proc[p].pc = "check" => c \in {"truncate", "act"} /\ ~refused
       PROVE  /\ proc' \in [Procs -> Process] /\ \A q \in Procs \ {p} : proc'[q] = proc[q]
              /\ UNCHANGED locks /\ proc'[p].id = proc[p].id /\ proc'[p].how = proc[p].how
              /\ proc[p].pc = "preload" => proc'[p].pc \in {"worktree", "preact"}
              /\ proc[p].pc = "check" => proc'[p].pc \in {"truncate", "act"} /\ ~refused
              /\ proc'[p].act = act
  <2>1. PICK r : r = [proc[p] EXCEPT !.pc = c, !.memo = TRUE, !.act = act]
    OBVIOUS
  <2>2. proc' = [proc EXCEPT ![p] = r]
    BY <1>10, <2>1
  <2>3. c \in SetupPcs
    BY DEF SetupPcs
  <2>4. /\ proc' \in [Procs -> Process] /\ \A q \in Procs \ {p} : proc'[q] = proc[q]
        /\ proc'[p].pc = c /\ proc'[p].id = proc[p].id /\ proc'[p].how = proc[p].how
    <3>1. Goes(proc[p], c, r)
      BY <1>6, <2>1 DEF Goes
    <3>. QED BY <1>1, <2>2, <2>3, <3>1, FieldsMove
  <2>5. proc'[p] = r /\ r.act = act
    BY <1>1, <2>1, <2>2 DEF SetupShape, Process
  <2>. QED BY <1>10, <2>4, <2>5
<1>. HIDE DEF Then
<1>11. CASE refused /\ proc[p].pc = "preload" /\ Then("worktree") /\ UNCHANGED locks
  BY <1>5, <1>10, <1>11
<1>12. CASE ~refused /\ act = "none" /\ Then(on) /\ UNCHANGED locks
  BY <1>1, <1>3, <1>4, <1>5, <1>10, <1>12
<1>13. CASE ~refused /\ Then(IF Preload(p) THEN "preact" ELSE "act") /\ UNCHANGED locks
  <2>1. PICK c \in {"preact", "act"} : c = IF Preload(p) THEN "preact" ELSE "act"
    OBVIOUS
  <2>2. /\ proc[p].pc = "preload" => c = "preact"
        /\ proc[p].pc = "check" => c = "act"
    BY <2>1 DEF Preload, SetupSane, Underway
  <2>3. Then(c)
    BY <1>13, <2>1
  <2>. QED BY <1>1, <1>4, <1>5, <1>10, <1>13, <2>2, <2>3
<1>. QED BY <1>7, <1>8, <1>9, <1>11, <1>12, <1>13

LEMMA MoveShape ==
  ASSUME SetupSane, NEW p \in Procs, moveDurably(p)
  PROVE  /\ proc' \in [Procs -> Process] /\ \A q \in Procs \ {p} : proc'[q] = proc[q]
         /\ ext' \in [Tracks -> File] /\ inSpec' \in [Tracks -> File]
         /\ newer' \in [Tracks -> {"ext", "in"}]
         /\ \/ End(p)
            \/ /\ UNCHANGED locks /\ proc'[p].id = proc[p].id /\ proc'[p].how = proc[p].how
               /\ proc[p].pc = "preact" => proc'[p].pc \in {"worktree", "preunlink"}
               /\ proc[p].pc = "act" => proc'[p].pc \in {"truncate", "unlink"} /\ proc'[p].blind = proc[p].blind
<1>1. /\ SetupShape /\ proc[p].pc \in {"preact", "act"} /\ proc[p].id \in Tracks
      /\ proc[p].pc = "preact" => proc[p].how = "resume"
  BY DEF moveDurably, SetupSane, Underway
<1>2. /\ proc[p].pc = "preact" => Onward(p) = "worktree" /\ Preload(p)
      /\ proc[p].pc = "act" => Onward(p) = "truncate" /\ ~Preload(p)
  BY <1>1 DEF Onward, Preload
<1>3. Absent \in File
  BY OffIsProcess
<1>4. /\ ext' \in [Tracks -> File] /\ inSpec' \in [Tracks -> File]
      /\ newer' \in [Tracks -> {"ext", "in"}]
  BY <1>1, <1>3 DEF moveDurably, SetupShape, CopyAcross, store
<1>5. \/ End(p)
      \/ \E c \in {"worktree", "preunlink", "truncate", "unlink"} :
           /\ Goto(p, c) /\ UNCHANGED locks
           /\ proc[p].pc = "preact" => c \in {"worktree", "preunlink"}
           /\ proc[p].pc = "act" => c \in {"truncate", "unlink"}
  BY <1>1, <1>2 DEF moveDurably, Unlink, At
<1>6. CASE End(p)
  BY <1>1, <1>4, <1>6, Ends
<1>7. ASSUME NEW c \in {"worktree", "preunlink", "truncate", "unlink"}, Goto(p, c), UNCHANGED locks,
             proc[p].pc = "preact" => c \in {"worktree", "preunlink"},
             proc[p].pc = "act" => c \in {"truncate", "unlink"}
      PROVE  /\ proc' \in [Procs -> Process] /\ \A q \in Procs \ {p} : proc'[q] = proc[q]
             /\ UNCHANGED locks /\ proc'[p].id = proc[p].id /\ proc'[p].how = proc[p].how
             /\ proc[p].pc = "preact" => proc'[p].pc \in {"worktree", "preunlink"}
             /\ proc[p].pc = "act" => proc'[p].pc \in {"truncate", "unlink"} /\ proc'[p].blind = proc[p].blind
  <2>1. c \in SetupPcs
    BY DEF SetupPcs
  <2>. QED BY <1>1, <1>7, <2>1, GoesOn
<1>. QED BY <1>4, <1>5, <1>6, <1>7

\* What is left of the shape, given the processes and the files.
LEMMA Sane ==
  ASSUME SetupSane, NEW p \in Procs,
         proc' \in [Procs -> Process], \A q \in Procs \ {p} : proc'[q] = proc[q],
         \/ proc'[p] = Off
         \/ /\ proc[p].pc # "off" /\ proc'[p].id = proc[p].id /\ proc'[p].how = proc[p].how
            /\ proc'[p].pc \in {"preact", "preunlink"} => proc[p].pc \in {"preload", "preact"}
            /\ proc'[p].pc # "preload",
         nruns' = nruns, wt' \subseteq Tracks, merged' \subseteq Tracks,
         ext' \in [Tracks -> File], inSpec' \in [Tracks -> File],
         head' \in [Tracks -> File], past' \in [Tracks -> File], newer' \in [Tracks -> {"ext", "in"}],
         written' \in [Tracks -> SUBSET RunIds], excused' \in [Tracks -> SUBSET Excuses],
         lockExt' \in [Tracks -> Procs \cup {None}], lockIn' \in [Tracks -> Procs \cup {None}]
  PROVE  SetupSane'
BY ProcsSane DEF SetupSane, SetupShape

LEMMA StepSane == SetupSane /\ [SetupNext]_setupVars => SetupSane'
<1>. SUFFICES ASSUME SetupSane, [SetupNext]_setupVars PROVE SetupSane'
  OBVIOUS
<1>0. /\ SetupShape /\ Absent \in File /\ Off.pc = "off"
      /\ nruns \in RunIds /\ wt \subseteq Tracks /\ merged \subseteq Tracks
      /\ ext \in [Tracks -> File] /\ inSpec \in [Tracks -> File]
      /\ head \in [Tracks -> File] /\ past \in [Tracks -> File]
      /\ newer \in [Tracks -> {"ext", "in"}] /\ written \in [Tracks -> SUBSET RunIds]
      /\ excused \in [Tracks -> SUBSET Excuses]
      /\ lockExt \in [Tracks -> Procs \cup {None}] /\ lockIn \in [Tracks -> Procs \cup {None}]
      /\ \A q \in Procs : proc[q] \in Process /\ (proc[q].pc # "off" => proc[q].id \in Tracks)
  BY OffIsProcess DEF SetupSane, SetupShape, Underway, Off
<1>. USE DEF repo, store, locks, history
<1>a. ASSUME NEW p \in Procs, NEW c \in {"worktree", "lock", "truncate", "hygiene", "untrack", "run", "closing"},
             Goto(p, c), proc[p].pc # "off"
      PROVE  /\ proc' \in [Procs -> Process] /\ \A q \in Procs \ {p} : proc'[q] = proc[q]
             /\ proc'[p].id = proc[p].id /\ proc'[p].how = proc[p].how
             /\ proc'[p].pc \notin {"preact", "preunlink", "preload"}
  <2>1. c \in SetupPcs
    BY DEF SetupPcs
  <2>. QED BY <1>0, <1>a, <2>1, GoesOn
<1>1. ASSUME NEW p \in Procs, StartResume(p) \/ runSetup(p) PROVE SetupSane'
  BY <1>1, StartSane
<1>2. ASSUME NEW t \in Tracks, NEW file \in File, CheckedOut(t, file)
      PROVE  /\ inSpec' \in [Tracks -> File] /\ newer' \in [Tracks -> {"ext", "in"}]
             /\ excused' \in [Tracks -> SUBSET Excuses]
  BY <1>0, <1>2, ExcuseKept DEF CheckedOut, Excuses
<1>3. ASSUME NEW p \in Procs, createOrReuseWorktree(p) PROVE SetupSane'
  <2>1. /\ proc[p].id \in Tracks /\ proc[p].pc = "worktree" /\ Goto(p, "lock") /\ head[proc[p].id] \in File
    BY <1>0, <1>3 DEF createOrReuseWorktree, At
  <2>2. /\ inSpec' \in [Tracks -> File] /\ newer' \in [Tracks -> {"ext", "in"}]
        /\ excused' \in [Tracks -> SUBSET Excuses]
    BY <1>0, <1>2, <1>3, <2>1 DEF createOrReuseWorktree
  <2>3. wt' \subseteq Tracks /\ UNCHANGED <<merged, head, past, ext, lockExt, lockIn, nruns, written>>
    BY <1>0, <1>3, <2>1 DEF createOrReuseWorktree
  <2>. QED BY <1>0, <1>a, <2>1, <2>2, <2>3, Sane
<1>4. ASSUME NEW p \in Procs, acquireRunLock(p) PROVE SetupSane'
  <2>1. proc[p].pc = "lock" /\ UNCHANGED <<wt, merged, head, past, ext, inSpec, newer, nruns, written, excused>>
    BY <1>4 DEF acquireRunLock, At
  <2>. QED BY <1>0, <1>4, <2>1, AcquireShape, Sane
<1>5. ASSUME NEW p \in Procs, checkMigration(p) PROVE SetupSane'
  <2>1. /\ proc[p].pc \in {"preload", "check"}
        /\ UNCHANGED <<wt, merged, head, past, ext, inSpec, newer, nruns, written, excused>>
    BY <1>5 DEF checkMigration
  <2>2. CASE End(p)
    BY <1>0, <2>1, <2>2, Ends, Sane
  <2>3. CASE ~End(p)
    <3>1. /\ proc' \in [Procs -> Process] /\ \A q \in Procs \ {p} : proc'[q] = proc[q]
          /\ UNCHANGED <<lockExt, lockIn>> /\ proc'[p].id = proc[p].id /\ proc'[p].how = proc[p].how
          /\ proc'[p].pc \in {"preact", "preunlink"} => proc[p].pc \in {"preload", "preact"}
          /\ proc'[p].pc # "preload"
      BY <1>5, <2>1, <2>3, CheckShape
    <3>. QED BY <1>0, <2>1, <3>1, Sane
  <2>. QED BY <2>2, <2>3
<1>6. ASSUME NEW p \in Procs, moveDurably(p) PROVE SetupSane'
  <2>1. /\ proc[p].pc \in {"preact", "act"}
        /\ UNCHANGED <<wt, merged, head, past, nruns, written, excused>>
    BY <1>6 DEF moveDurably
  <2>2. /\ ext' \in [Tracks -> File] /\ inSpec' \in [Tracks -> File] /\ newer' \in [Tracks -> {"ext", "in"}]
    BY <1>6, MoveShape
  <2>3. CASE End(p)
    BY <1>0, <2>1, <2>2, <2>3, Ends, Sane
  <2>4. CASE ~End(p)
    <3>1. /\ proc' \in [Procs -> Process] /\ \A q \in Procs \ {p} : proc'[q] = proc[q]
          /\ UNCHANGED <<lockExt, lockIn>> /\ proc'[p].id = proc[p].id /\ proc'[p].how = proc[p].how
          /\ proc'[p].pc \in {"preact", "preunlink"} => proc[p].pc \in {"preload", "preact"}
          /\ proc'[p].pc # "preload"
      BY <1>6, <2>1, <2>4, MoveShape
    <3>. QED BY <1>0, <2>1, <2>2, <3>1, Sane
  <2>. QED BY <2>3, <2>4
<1>7. ASSUME NEW p \in Procs, unlinkInSpec(p) PROVE SetupSane'
  <2>1. /\ proc[p].pc \in {"preunlink", "unlink"} /\ Goto(p, Onward(p)) /\ Onward(p) \in {"worktree", "truncate"}
        /\ inSpec' = [inSpec EXCEPT ![proc[p].id] = Absent]
        /\ UNCHANGED <<wt, merged, head, past, ext, newer, lockExt, lockIn, nruns, written, excused>>
    BY <1>7 DEF unlinkInSpec, Onward
  <2>2. inSpec' \in [Tracks -> File]
    BY <1>0, <2>1
  <2>. QED BY <1>0, <1>a, <2>1, <2>2, Sane
<1>8. ASSUME NEW p \in Procs, truncateStaleCache(p) PROVE SetupSane'
  <2>1. /\ proc[p].pc = "truncate" /\ Goto(p, "hygiene") /\ proc[p].id \in Tracks
        /\ UNCHANGED <<wt, merged, head, past, lockExt, lockIn, nruns, excused>>
    BY <1>0, <1>8 DEF truncateStaleCache, At
  <2>2. /\ ext' \in [Tracks -> File] /\ inSpec' \in [Tracks -> File] /\ newer' \in [Tracks -> {"ext", "in"}]
        /\ written' \in [Tracks -> SUBSET RunIds]
    BY <1>0, <1>8, <2>1, WriteKept DEF truncateStaleCache
  <2>. QED BY <1>0, <1>a, <2>1, <2>2, Sane
<1>9. ASSUME NEW p \in Procs, quarantineDirt(p) PROVE SetupSane'
  <2>1. /\ proc[p].pc = "hygiene"
        /\ UNCHANGED <<wt, merged, head, past, ext, inSpec, newer, lockExt, lockIn, nruns, written, excused>>
    BY <1>9 DEF quarantineDirt, At
  <2>2. CASE Goto(p, "untrack")
    BY <1>0, <1>a, <2>1, <2>2, Sane
  <2>3. CASE proc' = [proc EXCEPT ![p].pc = "untrack", ![p].left = TRUE]
    <3>1. PICK r : r = [proc[p] EXCEPT !.pc = "untrack", !.left = TRUE]
      OBVIOUS
    <3>2. proc' = [proc EXCEPT ![p] = r]
      BY <2>3, <3>1
    <3>3. /\ proc' \in [Procs -> Process] /\ \A q \in Procs \ {p} : proc'[q] = proc[q]
          /\ proc'[p].pc = "untrack" /\ proc'[p].id = proc[p].id /\ proc'[p].how = proc[p].how
      <4>1. Goes(proc[p], "untrack", r) /\ "untrack" \in SetupPcs
        BY <3>1 DEF Goes, SetupPcs
      <4>. QED BY <1>0, <3>2, <4>1, FieldsMove
    <3>. QED BY <1>0, <2>1, <3>3, Sane
  <2>. QED BY <1>9, <2>2, <2>3 DEF quarantineDirt
<1>10. ASSUME NEW p \in Procs, removeFromIndex(p) PROVE SetupSane'
  <2>1. /\ proc[p].pc = "untrack" /\ proc[p].id \in Tracks
        /\ UNCHANGED <<wt, merged, head, past, ext, newer, lockExt, lockIn, nruns, written, excused>>
    BY <1>0, <1>10 DEF removeFromIndex, At
  <2>2. CASE Goto(p, "run") /\ UNCHANGED inSpec
    BY <1>0, <1>a, <2>1, <2>2, Sane
  <2>3. CASE /\ proc' = [proc EXCEPT ![p].pc = "parked", ![p].aside = inSpec[proc[p].id]]
             /\ inSpec' = [inSpec EXCEPT ![proc[p].id] = Absent]
    <3>1. PICK r : r = [proc[p] EXCEPT !.pc = "parked", !.aside = inSpec[proc[p].id]]
      OBVIOUS
    <3>2. proc' = [proc EXCEPT ![p] = r] /\ inSpec[proc[p].id] \in File
      BY <1>0, <2>1, <2>3, <3>1
    <3>3. /\ proc' \in [Procs -> Process] /\ \A q \in Procs \ {p} : proc'[q] = proc[q]
          /\ proc'[p].pc = "parked" /\ proc'[p].id = proc[p].id /\ proc'[p].how = proc[p].how
      <4>1. Goes(proc[p], "parked", r) /\ "parked" \in SetupPcs
        BY <3>1, <3>2 DEF Goes, SetupPcs
      <4>. QED BY <1>0, <3>2, <4>1, FieldsMove
    <3>4. inSpec' \in [Tracks -> File]
      BY <1>0, <2>3
    <3>. QED BY <1>0, <2>1, <3>3, <3>4, Sane
  <2>. QED BY <1>10, <2>2, <2>3 DEF removeFromIndex
<1>11. ASSUME NEW p \in Procs, commitUntracking(p) PROVE SetupSane'
  <2>1. /\ proc[p].pc = "parked" /\ Goto(p, "run") /\ proc[p].id \in Tracks /\ proc[p].aside \in File
        /\ inSpec' = [inSpec EXCEPT ![proc[p].id] = IF proc[p].aside.there THEN proc[p].aside ELSE @]
        /\ UNCHANGED <<wt, merged, ext, newer, lockExt, lockIn, nruns, written>>
    BY <1>0, <1>11 DEF commitUntracking, At, Process
  <2>2. head' \in [Tracks -> File] /\ past' \in [Tracks -> File]
    BY <1>0, <1>11, <2>1 DEF commitUntracking
  <2>3. inSpec' \in [Tracks -> File]
    BY <1>0, <2>1
  <2>4. excused' \in [Tracks -> SUBSET Excuses]
    BY <1>0, <1>11, <2>1, ExcuseKept DEF commitUntracking, Excuses
  <2>. QED BY <1>0, <1>a, <2>1, <2>2, <2>3, <2>4, Sane
<1>12. ASSUME NEW p \in Procs, appendResumeResult(p) PROVE SetupSane'
  <2>1. PICK ok \in BOOLEAN :
          /\ proc' = [proc EXCEPT ![p].memo = ok]
          /\ Write(proc[p].id, ok, stateFileFor(proc[p].id, ok).rows \cup {proc[p].run})
          /\ IF ok /\ ~inSpec[proc[p].id].there THEN UNCHANGED excused ELSE Excuse(proc[p].id, "split")
    BY <1>12 DEF appendResumeResult
  <2>2. /\ proc[p].pc = "run" /\ proc[p].id \in Tracks /\ proc[p].run \in RunIds
        /\ written' = [written EXCEPT ![proc[p].id] = @ \cup {proc[p].run}]
        /\ UNCHANGED <<wt, merged, head, past, lockExt, lockIn, nruns>>
    BY <1>0, <1>12 DEF appendResumeResult, At, Process
  <2>3. stateFileFor(proc[p].id, ok).rows \cup {proc[p].run} \in SUBSET RunIds
    BY <1>0, <2>2 DEF stateFileFor, File
  <2>4. /\ ext' \in [Tracks -> File] /\ inSpec' \in [Tracks -> File] /\ newer' \in [Tracks -> {"ext", "in"}]
    BY <1>0, <2>1, <2>2, <2>3, WriteKept
  <2>5. excused' \in [Tracks -> SUBSET Excuses] /\ written' \in [Tracks -> SUBSET RunIds]
    BY <1>0, <2>1, <2>2, ExcuseKept DEF Excuses
  <2>6. /\ proc' \in [Procs -> Process] /\ \A q \in Procs \ {p} : proc'[q] = proc[q]
        /\ proc'[p].pc = "run" /\ proc'[p].id = proc[p].id /\ proc'[p].how = proc[p].how
    <3>1. proc[p] \in Process
      BY <1>0
    <3>. QED BY <2>1, <2>2, <3>1 DEF SetupSane, SetupShape, Process
  <2>. QED BY <1>0, <2>2, <2>4, <2>5, <2>6, Sane
<1>13. ASSUME NEW p \in Procs, deterministicPhaseCommit(p) PROVE SetupSane'
  BY <1>0, <1>13, OffIsProcess DEF deterministicPhaseCommit, At, SetupSane, SetupShape, Underway
<1>14. ASSUME NEW p \in Procs, rollbackToCheckpoint(p) PROVE SetupSane'
  <2>1. /\ proc[p].id \in Tracks /\ past[proc[p].id] \in File
    BY <1>0, <1>14 DEF rollbackToCheckpoint, At
  <2>. QED BY <1>0, <1>2, <1>14, <2>1 DEF rollbackToCheckpoint, SetupSane, SetupShape, Underway
<1>15. ASSUME NEW p \in Procs, releaseHeldRunLock(p) PROVE SetupSane'
  BY <1>0, <1>15, Ends, Sane DEF releaseHeldRunLock, At
<1>16. ASSUME NEW p \in Procs, Succeeds(p) PROVE SetupSane'
  <2>1. /\ proc[p].pc = "run" /\ proc[p].id \in Tracks /\ Goto(p, "closing") /\ Unlock(p)
        /\ merged' \in {merged, merged \cup {proc[p].id}}
        /\ UNCHANGED <<wt, head, past, ext, inSpec, newer, nruns, written, excused>>
    BY <1>0, <1>16 DEF Succeeds, At
  <2>2. lockExt' \in [Tracks -> Procs \cup {None}] /\ lockIn' \in [Tracks -> Procs \cup {None}]
    BY <1>0, <2>1 DEF Unlock
  <2>. QED BY <1>0, <1>a, <2>1, <2>2, Sane
<1>17. ASSUME NEW p \in Procs, clearResumeCache(p) PROVE SetupSane'
  <2>1. /\ proc[p].pc = "closing" /\ proc[p].id \in Tracks /\ End(p)
        /\ written' = [written EXCEPT ![proc[p].id] = {r \in written[proc[p].id] : r > proc[p].run}]
        /\ UNCHANGED <<wt, merged, head, past, nruns>>
    BY <1>0, <1>17 DEF clearResumeCache, At
  <2>2. /\ ext' \in [Tracks -> File] /\ inSpec' \in [Tracks -> File] /\ newer' \in [Tracks -> {"ext", "in"}]
    <3>1. Write(proc[p].id, TRUE, {}) \/ UNCHANGED store
      BY <1>17 DEF clearResumeCache
    <3>2. {} \in SUBSET RunIds /\ TRUE \in BOOLEAN
      OBVIOUS
    <3>3. CASE Write(proc[p].id, TRUE, {})
      BY <1>0, <2>1, <3>2, <3>3, WriteKept
    <3>. QED BY <1>0, <3>1, <3>3
  <2>3. excused' \in [Tracks -> SUBSET Excuses] /\ written' \in [Tracks -> SUBSET RunIds]
    BY <1>0, <1>17, <2>1, ExcuseKept DEF clearResumeCache, Excuses
  <2>. QED BY <1>0, <2>1, <2>2, <2>3, Ends, Sane
<1>18. ASSUME NEW p \in Procs, SetupKill(p) PROVE SetupSane'
  <2>1. /\ proc[p].pc # "off" /\ proc[p].id \in Tracks /\ End(p)
        /\ UNCHANGED <<wt, merged, head, past, ext, inSpec, newer, nruns, written>>
    BY <1>0, <1>18 DEF SetupKill, At
  <2>2. excused' \in [Tracks -> SUBSET Excuses]
    BY <1>0, <1>18, <2>1, ExcuseKept DEF SetupKill, Excuses
  <2>. QED BY <1>0, <2>1, <2>2, Ends, Sane
<1>19. ASSUME NEW t \in Tracks, removeWorktree(t) PROVE SetupSane'
  <2>1. excused' \in [Tracks -> SUBSET Excuses]
    BY <1>0, <1>19, ExcuseKept DEF removeWorktree, Excuses
  <2>. QED BY <1>0, <1>19, <2>1 DEF removeWorktree, SetupSane, SetupShape, Underway
<1>20. CASE UNCHANGED setupVars
  BY <1>20 DEF setupVars, SetupSane, SetupShape, Underway
<1>. QED BY <1>1, <1>3, <1>4, <1>5, <1>6, <1>7, <1>8, <1>9, <1>10, <1>11, <1>12, <1>13, <1>14, <1>15,
            <1>16, <1>17, <1>18, <1>19, <1>20 DEF SetupNext

(* Where the rows of a track are. While nothing has spoiled them, a file in  *)
(* the spec directory holds them all, and so does one in the store that is   *)
(* newer, or whose twin is about to be removed.                              *)
Parking(p, t) == proc[p].pc = "parked" /\ proc[p].id = t /\ proc[p].aside.there
Unlinking(p, t) == /\ proc[p].id = t
                   /\ \/ proc[p].pc \in {"preunlink", "unlink"}
                      \/ proc[p].pc \in {"preact", "act"} /\ proc[p].act = "discard"

InSpecHolds(t) == inSpec[t].there => written[t] \subseteq inSpec[t].rows
NewerHolds(t) == inSpec[t].there /\ ext[t].there /\ newer[t] = "ext" => written[t] \subseteq ext[t].rows
StoreHolds(t) == inSpec[t].there \/ written[t] \subseteq ext[t].rows \/ \E p \in Procs : Parking(p, t)
AsideHolds(t) == \A p \in Procs : Parking(p, t) /\ ~ext[t].there => written[t] \subseteq proc[p].aside.rows
UnlinkSafe(t) == \A p \in Procs : Unlinking(p, t) => written[t] \subseteq ext[t].rows

Holds(t) == InSpecHolds(t) /\ NewerHolds(t) /\ StoreHolds(t) /\ AsideHolds(t) /\ UnlinkSafe(t)
RowsInv == \A t \in Tracks : excused[t] = {} => Holds(t)

LEMMA InitRows == ASSUME SetupInit PROVE RowsInv
<1>1. \A p \in Procs : proc[p].pc = "off"
  BY DEF SetupInit, Off
<1>2. \A t \in Tracks : ~ext[t].there /\ (inSpec[t].there => written[t] = inSpec[t].rows)
                        /\ (~inSpec[t].there => written[t] = {})
  BY DEF SetupInit, Absent, FileOf
<1>. QED BY <1>1, <1>2 DEF RowsInv, Holds, InSpecHolds, NewerHolds, StoreHolds, AsideHolds, UnlinkSafe,
                          Parking, Unlinking

\* A step of p is about one track.
LEMMA OneTrack ==
  ASSUME SetupSane, RowsInv, NEW p \in Procs, NEW t \in Tracks,
         \A q \in Procs \ {p} : proc'[q] = proc[q],
         proc[p].id \in {t, None} \/ proc[p].pc = "off", proc'[p].id \in {t, None},
         \A u \in Tracks \ {t} : /\ ext'[u] = ext[u] /\ inSpec'[u] = inSpec[u] /\ newer'[u] = newer[u]
                                 /\ written'[u] = written[u] /\ excused'[u] = excused[u],
         excused'[t] = {} => Holds(t)'
  PROVE  RowsInv'
<1>1. ASSUME NEW u \in Tracks \ {t}, excused'[u] = {} PROVE Holds(u)'
  <2>1. Holds(u)
    BY <1>1 DEF RowsInv
  <2>2. \A q \in Procs \ {p} : /\ Parking(q, u)' <=> Parking(q, u)
                               /\ Unlinking(q, u)' <=> Unlinking(q, u)
                               /\ proc'[q].aside = proc[q].aside
    BY DEF Parking, Unlinking
  <2>3. ~Parking(p, u) /\ ~Unlinking(p, u) /\ ~Parking(p, u)' /\ ~Unlinking(p, u)'
    BY <1>1, SetupAssumption DEF Parking, Unlinking
  <2>. QED BY <1>1, <2>1, <2>2, <2>3
           DEF Holds, InSpecHolds, NewerHolds, StoreHolds, AsideHolds, UnlinkSafe
<1>. QED BY <1>1 DEF RowsInv

\* A step that leaves the files and the rows alone.
LEMMA NothingMoves ==
  ASSUME SetupSane, RowsInv, NEW p \in Procs, NEW t \in Tracks,
         \A q \in Procs \ {p} : proc'[q] = proc[q],
         proc[p].id \in {t, None} \/ proc[p].pc = "off", proc'[p].id \in {t, None},
         UNCHANGED <<ext, inSpec, newer, written>>,
         \A u \in Tracks \ {t} : excused'[u] = excused[u],
         excused'[t] = {} => excused[t] = {},
         Parking(p, t) => Parking(p, t)' \/ excused'[t] # {},
         Parking(p, t)' => Parking(p, t) /\ proc'[p].aside = proc[p].aside,
         Unlinking(p, t)' => Unlinking(p, t) \/ (excused[t] = {} => written[t] \subseteq ext[t].rows)
  PROVE  RowsInv'
<1>1. ASSUME excused'[t] = {} PROVE Holds(t)'
  <2>1. Holds(t)
    BY <1>1 DEF RowsInv
  <2>2. \A q \in Procs \ {p} : /\ Parking(q, t)' <=> Parking(q, t)
                               /\ Unlinking(q, t)' <=> Unlinking(q, t)
                               /\ proc'[q].aside = proc[q].aside
    BY DEF Parking, Unlinking
  <2>3. InSpecHolds(t)' /\ NewerHolds(t)'
    BY <2>1 DEF Holds, InSpecHolds, NewerHolds
  <2>4. StoreHolds(t)'
    BY <1>1, <2>1, <2>2 DEF Holds, StoreHolds
  <2>5. AsideHolds(t)' /\ UnlinkSafe(t)'
    BY <1>1, <2>1, <2>2 DEF Holds, AsideHolds, UnlinkSafe
  <2>. QED BY <2>3, <2>4, <2>5 DEF Holds
<1>. QED BY <1>1, OneTrack

\* A move, a copy or a discard: the file in the spec directory holds all.
LEMMA MoveRows ==
  ASSUME SetupSane, RowsInv, NEW p \in Procs, moveDurably(p) PROVE RowsInv'
<1>1. PICK t : t = proc[p].id
  OBVIOUS
<1>2. /\ t \in Tracks /\ proc[p].pc \in {"preact", "act"} /\ UNCHANGED <<written, excused>>
      /\ inSpec \in [Tracks -> File] /\ ext \in [Tracks -> File] /\ newer \in [Tracks -> {"ext", "in"}]
  BY <1>1 DEF moveDurably, SetupSane, SetupShape, Underway, history
<1>3. /\ \A q \in Procs \ {p} : proc'[q] = proc[q]
      /\ \/ proc'[p] = Off
         \/ proc'[p].id = t /\ proc'[p].pc \in {"worktree", "preunlink", "truncate", "unlink"}
  <2>1. CASE End(p)
    BY <2>1, Ends DEF SetupSane
  <2>2. CASE ~End(p)
    BY <1>1, <1>2, <2>2, MoveShape
  <2>. QED BY <2>1, <2>2
<1>4. /\ ~Parking(p, t) /\ ~Parking(p, t)' /\ proc'[p].id \in {t, None}
  BY <1>2, <1>3 DEF Parking, Off
<1>5. \A q \in Procs \ {p} : /\ Parking(q, t)' <=> Parking(q, t)
                             /\ Unlinking(q, t)' <=> Unlinking(q, t)
                             /\ proc'[q].aside = proc[q].aside
  BY <1>3 DEF Parking, Unlinking
<1>6. CASE /\ inSpec[t].there /\ ext' = [ext EXCEPT ![t] = inSpec[t]]
           /\ inSpec' = [inSpec EXCEPT ![t] = Absent] /\ UNCHANGED newer
  <2>1. ASSUME excused'[t] = {} PROVE Holds(t)'
    <3>1. written[t] \subseteq inSpec[t].rows
      BY <1>2, <1>6, <2>1 DEF RowsInv, Holds, InSpecHolds
    <3>2. written'[t] \subseteq ext'[t].rows /\ ~inSpec'[t].there /\ ext'[t].there
      BY <1>2, <1>6, <3>1 DEF Absent
    <3>. QED BY <3>2 DEF Holds, InSpecHolds, NewerHolds, StoreHolds, AsideHolds, UnlinkSafe
  <2>. QED BY <1>1, <1>2, <1>3, <1>4, <1>6, <2>1, OneTrack
<1>7. CASE /\ inSpec[t].there /\ ext' = [ext EXCEPT ![t] = inSpec[t]]
           /\ newer' = [newer EXCEPT ![t] = "ext"] /\ UNCHANGED inSpec
  <2>1. ASSUME excused'[t] = {} PROVE Holds(t)'
    <3>1. written[t] \subseteq inSpec[t].rows
      BY <1>2, <1>7, <2>1 DEF RowsInv, Holds, InSpecHolds
    <3>2. written'[t] \subseteq ext'[t].rows /\ written'[t] \subseteq inSpec'[t].rows /\ ext'[t].there
      BY <1>2, <1>7, <3>1
    <3>. QED BY <3>2 DEF Holds, InSpecHolds, NewerHolds, StoreHolds, AsideHolds, UnlinkSafe
  <2>. QED BY <1>1, <1>2, <1>3, <1>4, <1>7, <2>1, OneTrack
<1>8. CASE proc[p].act = "discard" /\ UNCHANGED store
  <2>1. Unlinking(p, t)
    BY <1>1, <1>2, <1>8 DEF Unlinking
  <2>. QED BY <1>1, <1>2, <1>3, <1>4, <1>8, <2>1, NothingMoves DEF store
<1>9. CASE UNCHANGED store /\ proc'[p].pc \in {"off", "worktree"}
  <2>1. ~Unlinking(p, t)'
    BY <1>9 DEF Unlinking
  <2>. QED BY <1>1, <1>2, <1>3, <1>4, <1>9, <2>1, NothingMoves DEF store
<1>10. At(p, "act") /\ End(p) => proc'[p].pc \in {"off", "worktree"}
  BY Ends DEF SetupSane, Off
<1>11. At(p, "preact") /\ Goto(p, "worktree") => proc'[p].pc \in {"off", "worktree"}
  BY GoesOn DEF SetupSane, SetupPcs
<1>. QED BY <1>1, <1>6, <1>7, <1>8, <1>9, <1>10, <1>11 DEF moveDurably, CopyAcross

LEMMA UnlinkRows ==
  ASSUME SetupSane, RowsInv, NEW p \in Procs, unlinkInSpec(p) PROVE RowsInv'
<1>1. PICK t : t = proc[p].id
  OBVIOUS
<1>2. /\ t \in Tracks /\ proc[p].pc \in {"preunlink", "unlink"} /\ UNCHANGED <<ext, newer, written, excused>>
      /\ Goto(p, Onward(p)) /\ Onward(p) \in {"worktree", "truncate"}
      /\ inSpec' = [inSpec EXCEPT ![t] = Absent] /\ inSpec \in [Tracks -> File]
  BY <1>1 DEF unlinkInSpec, SetupSane, SetupShape, Underway, history, Onward
<1>3. \A q \in Procs \ {p} : proc'[q] = proc[q]
  BY <1>2, GoesOn DEF SetupSane, SetupPcs
<1>4. proc'[p].id = t /\ proc'[p].pc \in {"worktree", "truncate"}
  BY <1>1, <1>2, GoesOn DEF SetupSane, SetupPcs
<1>5. ASSUME excused'[t] = {} PROVE Holds(t)'
  <2>1. Holds(t) /\ Unlinking(p, t)
    BY <1>1, <1>2, <1>5 DEF RowsInv, Unlinking
  <2>2. written'[t] \subseteq ext'[t].rows /\ ~inSpec'[t].there /\ ext'[t] = ext[t] /\ written'[t] = written[t]
    BY <1>2, <2>1 DEF Holds, UnlinkSafe, Absent
  <2>3. \A q \in Procs \ {p} : (Parking(q, t)' <=> Parking(q, t)) /\ proc'[q].aside = proc[q].aside
    BY <1>3 DEF Parking
  <2>4. ~Parking(p, t)'
    BY <1>4 DEF Parking
  <2>5. AsideHolds(t)'
    BY <2>1, <2>2, <2>3, <2>4 DEF Holds, AsideHolds
  <2>. QED BY <2>2, <2>5 DEF Holds, InSpecHolds, NewerHolds, StoreHolds, UnlinkSafe
<1>. QED BY <1>1, <1>2, <1>3, <1>4, <1>5, OneTrack

\* What a check decides: only a file whose twin in the store is newer goes.
LEMMA CheckRows ==
  ASSUME SetupSane, RowsInv, NEW p \in Procs, checkMigration(p) PROVE RowsInv'
<1>1. PICK t : t = proc[p].id
  OBVIOUS
<1>2. /\ t \in Tracks /\ proc[p].pc \in {"preload", "check"} /\ UNCHANGED <<ext, inSpec, newer, written, excused>>
      /\ newer[t] \in {"ext", "in"}
  BY <1>1 DEF checkMigration, SetupSane, SetupShape, Underway, history, store
<1>3. /\ \A q \in Procs \ {p} : proc'[q] = proc[q]
      /\ \/ proc'[p] = Off
         \/ /\ proc'[p].id = t /\ proc'[p].pc \in {"worktree", "preact", "truncate", "act"}
            /\ proc'[p].pc \in {"act", "preact"} => proc'[p].act = migrationOf(t)
  <2>1. CASE End(p)
    BY <2>1, Ends DEF SetupSane
  <2>2. CASE ~End(p)
    BY <1>1, <1>2, <2>2, CheckShape
  <2>. QED BY <2>1, <2>2
<1>4. ~Parking(p, t) /\ ~Parking(p, t)' /\ proc'[p].id \in {t, None}
  BY <1>2, <1>3 DEF Parking, Off
<1>5. ASSUME Unlinking(p, t)', excused[t] = {} PROVE written[t] \subseteq ext[t].rows
  <2>1. migrationOf(t) = "discard"
    BY <1>3, <1>5, SetupAssumption, <1>2 DEF Unlinking, Off
  <2>2. inSpec[t].there /\ ext[t].there /\ newer[t] = "ext"
    <3>1. CASE ~inSpec[t].there
      BY <2>1, <3>1 DEF migrationOf
    <3>2. CASE inSpec[t].there /\ ~ext[t].there
      BY <2>1, <3>2 DEF migrationOf
    <3>3. CASE inSpec[t].there /\ ext[t].there /\ newer[t] = "in"
      BY <2>1, <3>3 DEF migrationOf
    <3>. QED BY <1>2, <3>1, <3>2, <3>3
  <2>. QED BY <1>2, <1>5, <2>2 DEF RowsInv, Holds, NewerHolds
<1>. QED BY <1>1, <1>2, <1>3, <1>4, <1>5, NothingMoves

\* A checkout spoils what it writes over.
LEMMA CheckoutRows ==
  ASSUME SetupSane, RowsInv, NEW p \in Procs, createOrReuseWorktree(p) \/ rollbackToCheckpoint(p)
  PROVE  RowsInv'
<1>1. PICK t : t = proc[p].id
  OBVIOUS
<1>2. /\ t \in Tracks /\ proc[p].pc \in {"worktree", "run"} /\ UNCHANGED <<ext, written>>
      /\ inSpec \in [Tracks -> File] /\ newer \in [Tracks -> {"ext", "in"}]
      /\ excused \in [Tracks -> SUBSET Excuses]
  BY <1>1 DEF createOrReuseWorktree, rollbackToCheckpoint, At, SetupSane, SetupShape, Underway
<1>3. /\ \A q \in Procs \ {p} : proc'[q] = proc[q]
      /\ proc'[p].id = t /\ proc'[p].pc \in {"lock", "run"}
  <2>1. CASE createOrReuseWorktree(p)
    <3>1. Goto(p, "lock")
      BY <2>1 DEF createOrReuseWorktree
    <3>. QED BY <1>1, <3>1, GoesOn DEF SetupSane, SetupPcs
  <2>2. CASE rollbackToCheckpoint(p)
    BY <1>1, <2>2 DEF rollbackToCheckpoint, At
  <2>. QED BY <2>1, <2>2
<1>4. ~Parking(p, t) /\ ~Parking(p, t)' /\ ~Unlinking(p, t)'
  BY <1>2, <1>3 DEF Parking, Unlinking
<1>5. \/ UNCHANGED <<inSpec, newer, excused>>
      \/ \E f \in File : /\ inSpec' = [inSpec EXCEPT ![t] = f] /\ newer' = [newer EXCEPT ![t] = "in"]
                         /\ Excuse(t, "checkout")
  BY <1>1, <1>2 DEF createOrReuseWorktree, rollbackToCheckpoint, CheckedOut, SetupSane, SetupShape
<1>6. CASE UNCHANGED <<inSpec, newer, excused>>
  BY <1>1, <1>2, <1>3, <1>4, <1>6, NothingMoves
<1>7. ASSUME NEW f \in File, inSpec' = [inSpec EXCEPT ![t] = f], newer' = [newer EXCEPT ![t] = "in"],
             Excuse(t, "checkout")
      PROVE  RowsInv'
  <2>1. excused'[t] # {} /\ \A u \in Tracks \ {t} : excused'[u] = excused[u]
    BY <1>2, <1>7, ExcuseKept DEF SetupSane, Excuses
  <2>. QED BY <1>1, <1>2, <1>3, <1>7, <2>1, OneTrack
<1>. QED BY <1>5, <1>6, <1>7

\* With no rows owed nothing can be lost.
LEMMA NothingOwed == ASSUME NEW t \in Tracks, written'[t] = {} PROVE Holds(t)'
BY DEF Holds, InSpecHolds, NewerHolds, StoreHolds, AsideHolds, UnlinkSafe

LEMMA WriteHere ==
  ASSUME SetupShape, NEW t \in Tracks, NEW ok \in BOOLEAN, NEW rows, Write(t, ok, rows)
  PROVE  /\ \A u \in Tracks \ {t} : ext'[u] = ext[u] /\ inSpec'[u] = inSpec[u] /\ newer'[u] = newer[u]
         /\ ok => ext'[t].there /\ ext'[t].rows = rows /\ newer'[t] = "ext" /\ UNCHANGED inSpec
BY DEF SetupShape, Write, FileOf

LEMMA TruncateRows ==
  ASSUME SetupSane, RowsInv, NEW p \in Procs, truncateStaleCache(p) PROVE RowsInv'
<1>1. PICK t : t = proc[p].id
  OBVIOUS
<1>2. /\ t \in Tracks /\ proc[p].pc = "truncate" /\ UNCHANGED excused /\ Goto(p, "hygiene")
      /\ written \in [Tracks -> SUBSET RunIds] /\ SetupShape
  BY <1>1 DEF truncateStaleCache, At, SetupSane, SetupShape, Underway
<1>3. /\ \A q \in Procs \ {p} : proc'[q] = proc[q]
      /\ proc'[p].id = t /\ proc'[p].pc = "hygiene"
  BY <1>1, <1>2, GoesOn DEF SetupPcs
<1>4. ~Parking(p, t) /\ ~Parking(p, t)' /\ ~Unlinking(p, t)'
  BY <1>2, <1>3 DEF Parking, Unlinking
<1>5. CASE UNCHANGED <<store, written>>
  BY <1>1, <1>2, <1>3, <1>4, <1>5, NothingMoves DEF store
<1>6. ASSUME NEW ok \in BOOLEAN, Write(t, ok, {}), written' = [written EXCEPT ![t] = {}] PROVE RowsInv'
  <2>1. \A u \in Tracks \ {t} : ext'[u] = ext[u] /\ inSpec'[u] = inSpec[u] /\ newer'[u] = newer[u]
    BY <1>2, <1>6, WriteHere
  <2>2. written'[t] = {} /\ \A u \in Tracks \ {t} : written'[u] = written[u]
    BY <1>2, <1>6
  <2>. QED BY <1>1, <1>2, <1>3, <2>1, <2>2, NothingOwed, OneTrack
<1>. QED BY <1>1, <1>5, <1>6 DEF truncateStaleCache

\* The file is out of the way while it is parked, and comes back.
LEMMA ParkRows ==
  ASSUME SetupSane, RowsInv, NEW p \in Procs, removeFromIndex(p) PROVE RowsInv'
<1>1. PICK t : t = proc[p].id
  OBVIOUS
<1>2. /\ t \in Tracks /\ proc[p].pc = "untrack" /\ UNCHANGED <<ext, newer, written, excused>>
      /\ inSpec \in [Tracks -> File] /\ SetupShape /\ proc[p] \in Process
  BY <1>1 DEF removeFromIndex, At, SetupSane, SetupShape, Underway, history
<1>3. ~Parking(p, t) /\ ~Unlinking(p, t)
  BY <1>2 DEF Parking, Unlinking
<1>4. CASE Goto(p, "run") /\ UNCHANGED inSpec
  <2>1. /\ \A q \in Procs \ {p} : proc'[q] = proc[q]
        /\ proc'[p].id = t /\ proc'[p].pc = "run"
    BY <1>1, <1>2, <1>4, GoesOn DEF SetupPcs
  <2>2. ~Parking(p, t)' /\ ~Unlinking(p, t)'
    BY <2>1 DEF Parking, Unlinking
  <2>. QED BY <1>1, <1>2, <1>3, <1>4, <2>1, <2>2, NothingMoves
<1>5. CASE /\ proc' = [proc EXCEPT ![p].pc = "parked", ![p].aside = inSpec[t]]
           /\ inSpec' = [inSpec EXCEPT ![t] = Absent]
  <2>1. /\ \A q \in Procs \ {p} : proc'[q] = proc[q]
        /\ proc'[p].id = t /\ proc'[p].pc = "parked" /\ proc'[p].aside = inSpec[t]
    BY <1>1, <1>2, <1>5 DEF SetupShape, Process
  <2>2. ASSUME excused'[t] = {} PROVE Holds(t)'
    <3>1. Holds(t) /\ ~inSpec'[t].there
      BY <1>2, <1>5, <2>2 DEF RowsInv, Absent
    <3>2. \A q \in Procs \ {p} : /\ Parking(q, t)' <=> Parking(q, t)
                                 /\ Unlinking(q, t)' <=> Unlinking(q, t)
                                 /\ proc'[q].aside = proc[q].aside
      BY <2>1 DEF Parking, Unlinking
    <3>3. ~Unlinking(p, t)' /\ (Parking(p, t)' <=> inSpec[t].there)
      BY <2>1 DEF Unlinking, Parking
    <3>4. StoreHolds(t)'
      BY <1>2, <1>3, <3>1, <3>2, <3>3 DEF Holds, StoreHolds
    <3>5. AsideHolds(t)'
      BY <1>2, <2>1, <3>1, <3>2, <3>3 DEF Holds, AsideHolds, InSpecHolds
    <3>6. UnlinkSafe(t)'
      BY <1>2, <3>1, <3>2, <3>3 DEF Holds, UnlinkSafe
    <3>. QED BY <3>1, <3>4, <3>5, <3>6 DEF Holds, InSpecHolds, NewerHolds
  <2>. QED BY <1>1, <1>2, <1>5, <2>1, <2>2, OneTrack
<1>. QED BY <1>1, <1>4, <1>5 DEF removeFromIndex

LEMMA UnparkRows ==
  ASSUME SetupSane, RowsInv, NEW p \in Procs, commitUntracking(p) PROVE RowsInv'
<1>1. PICK t : t = proc[p].id
  OBVIOUS
<1>2. /\ t \in Tracks /\ proc[p].pc = "parked" /\ UNCHANGED <<ext, newer, written>> /\ Goto(p, "run")
      /\ inSpec' = [inSpec EXCEPT ![t] = IF proc[p].aside.there THEN proc[p].aside ELSE @]
      /\ IF proc[p].aside.there /\ ext[t].there THEN Excuse(t, "split") ELSE UNCHANGED excused
      /\ inSpec \in [Tracks -> File] /\ SetupShape
  BY <1>1 DEF commitUntracking, At, SetupSane, SetupShape, Underway, history
<1>3. /\ \A q \in Procs \ {p} : proc'[q] = proc[q]
      /\ proc'[p].id = t /\ proc'[p].pc = "run"
  BY <1>1, <1>2, GoesOn DEF SetupPcs
<1>4. ~Unlinking(p, t)' /\ ~Parking(p, t)'
  BY <1>3 DEF Unlinking, Parking
<1>5. \A u \in Tracks \ {t} : excused'[u] = excused[u]
  BY <1>2, ExcuseKept DEF Excuses
<1>6. ASSUME excused'[t] = {} PROVE Holds(t)'
  <2>1. ~(proc[p].aside.there /\ ext[t].there) /\ UNCHANGED excused
    BY <1>2, <1>6, ExcuseKept DEF Excuses
  <2>2. Holds(t)
    BY <1>2, <1>6, <2>1 DEF RowsInv
  <2>3. \A q \in Procs \ {p} : /\ Parking(q, t)' <=> Parking(q, t)
                               /\ Unlinking(q, t)' <=> Unlinking(q, t)
                               /\ proc'[q].aside = proc[q].aside
    BY <1>3 DEF Parking, Unlinking
  <2>4. AsideHolds(t)' /\ UnlinkSafe(t)'
    BY <1>2, <1>4, <2>2, <2>3 DEF Holds, AsideHolds, UnlinkSafe
  <2>5. CASE proc[p].aside.there
    <3>1. Parking(p, t) /\ ~ext[t].there /\ inSpec'[t] = proc[p].aside
      BY <1>1, <1>2, <2>1, <2>5 DEF Parking
    <3>2. written[t] \subseteq proc[p].aside.rows
      BY <2>2, <3>1 DEF Holds, AsideHolds
    <3>. QED BY <1>2, <2>4, <2>5, <3>1, <3>2 DEF Holds, InSpecHolds, NewerHolds, StoreHolds
  <2>6. CASE ~proc[p].aside.there
    <3>1. inSpec'[t] = inSpec[t] /\ ~Parking(p, t)
      BY <1>2, <2>6 DEF Parking
    <3>. QED BY <1>2, <2>2, <2>3, <2>4, <3>1 DEF Holds, InSpecHolds, NewerHolds, StoreHolds
  <2>. QED BY <2>5, <2>6
<1>. QED BY <1>1, <1>2, <1>3, <1>5, <1>6, OneTrack

LEMMA AppendRows ==
  ASSUME SetupSane, RowsInv, NEW p \in Procs, appendResumeResult(p) PROVE RowsInv'
<1>1. PICK t : t = proc[p].id
  OBVIOUS
<1>2. PICK ok \in BOOLEAN :
        /\ proc' = [proc EXCEPT ![p].memo = ok]
        /\ Write(t, ok, stateFileFor(t, ok).rows \cup {proc[p].run})
        /\ IF ok /\ ~inSpec[t].there THEN UNCHANGED excused ELSE Excuse(t, "split")
  BY <1>1 DEF appendResumeResult
<1>3. /\ t \in Tracks /\ proc[p].pc = "run" /\ written' = [written EXCEPT ![t] = @ \cup {proc[p].run}]
      /\ SetupShape /\ proc[p] \in Process
  BY <1>1 DEF appendResumeResult, At, SetupSane, SetupShape, Underway
<1>4. /\ \A q \in Procs \ {p} : proc'[q] = proc[q]
      /\ proc'[p].id = t /\ proc'[p].pc = "run"
  BY <1>1, <1>2, <1>3 DEF SetupShape, Process
<1>5. \A u \in Tracks \ {t} : /\ ext'[u] = ext[u] /\ inSpec'[u] = inSpec[u] /\ newer'[u] = newer[u]
                              /\ written'[u] = written[u] /\ excused'[u] = excused[u]
  <2>1. \A u \in Tracks \ {t} : ext'[u] = ext[u] /\ inSpec'[u] = inSpec[u] /\ newer'[u] = newer[u]
    BY <1>2, <1>3, WriteHere
  <2>2. \A u \in Tracks \ {t} : written'[u] = written[u] /\ excused'[u] = excused[u]
    BY <1>2, <1>3, ExcuseKept DEF SetupShape, Excuses
  <2>. QED BY <2>1, <2>2
<1>6. ASSUME excused'[t] = {} PROVE Holds(t)'
  <2>1. ok /\ ~inSpec[t].there /\ UNCHANGED excused
    BY <1>2, <1>3, <1>6, ExcuseKept DEF Excuses
  <2>2. Holds(t)
    BY <1>3, <1>6, <2>1 DEF RowsInv
  <2>3. /\ ext'[t].there /\ ext'[t].rows = ext[t].rows \cup {proc[p].run} /\ UNCHANGED inSpec
    BY <1>2, <1>3, <2>1, WriteHere DEF stateFileFor
  <2>4. written'[t] = written[t] \cup {proc[p].run}
    BY <1>3 DEF SetupShape
  <2>5. /\ ~Parking(p, t) /\ ~Unlinking(p, t)'
        /\ \A q \in Procs \ {p} : /\ Parking(q, t)' <=> Parking(q, t)
                                  /\ Unlinking(q, t)' <=> Unlinking(q, t)
    BY <1>3, <1>4 DEF Parking, Unlinking
  <2>6. StoreHolds(t)' /\ UnlinkSafe(t)'
    BY <2>1, <2>2, <2>3, <2>4, <2>5 DEF Holds, StoreHolds, UnlinkSafe
  <2>. QED BY <2>1, <2>3, <2>6 DEF Holds, InSpecHolds, NewerHolds, AsideHolds
<1>. QED BY <1>1, <1>3, <1>4, <1>5, <1>6, OneTrack

LEMMA ClearRows ==
  ASSUME SetupSane, RowsInv, NEW p \in Procs, clearResumeCache(p) PROVE RowsInv'
<1>1. PICK t : t = proc[p].id
  OBVIOUS
<1>2. PICK later : later = {r \in written[t] : r > proc[p].run}
  OBVIOUS
<1>3. /\ t \in Tracks /\ SetupShape /\ End(p) /\ written' = [written EXCEPT ![t] = later]
      /\ IF later = {} THEN UNCHANGED excused ELSE Excuse(t, "cleared")
      /\ UNCHANGED store \/ Write(t, TRUE, {})
  BY <1>1, <1>2 DEF clearResumeCache, At, SetupSane, Underway
<1>4. /\ \A q \in Procs \ {p} : proc'[q] = proc[q]
      /\ proc'[p].id = None
  BY <1>3, Ends DEF Off
<1>5. \A u \in Tracks \ {t} : /\ ext'[u] = ext[u] /\ inSpec'[u] = inSpec[u] /\ newer'[u] = newer[u]
                              /\ written'[u] = written[u] /\ excused'[u] = excused[u]
  <2>1. \A u \in Tracks \ {t} : ext'[u] = ext[u] /\ inSpec'[u] = inSpec[u] /\ newer'[u] = newer[u]
    <3>1. CASE UNCHANGED store
      BY <3>1 DEF store
    <3>2. CASE Write(t, TRUE, {})
      BY <1>3, <3>2, WriteHere
    <3>. QED BY <1>3, <3>1, <3>2
  <2>2. \A u \in Tracks \ {t} : written'[u] = written[u] /\ excused'[u] = excused[u]
    BY <1>3, ExcuseKept DEF SetupShape, Excuses
  <2>. QED BY <2>1, <2>2
<1>6. ASSUME excused'[t] = {} PROVE Holds(t)'
  <2>1. later = {}
    BY <1>3, <1>6, ExcuseKept DEF Excuses
  <2>2. written'[t] = {}
    BY <1>3, <2>1 DEF SetupShape
  <2>. QED BY <1>3, <2>2, NothingOwed
<1>. QED BY <1>1, <1>3, <1>4, <1>5, <1>6, OneTrack

LEMMA KillRows ==
  ASSUME SetupSane, RowsInv, NEW p \in Procs, SetupKill(p) PROVE RowsInv'
<1>1. PICK t : t = proc[p].id
  OBVIOUS
<1>2. /\ t \in Tracks /\ SetupShape /\ End(p) /\ UNCHANGED <<ext, inSpec, newer, written>>
      /\ IF proc[p].pc = "parked" /\ proc[p].aside.there THEN Excuse(t, "parked") ELSE UNCHANGED excused
  BY <1>1 DEF SetupKill, At, SetupSane, Underway, store
<1>3. /\ \A q \in Procs \ {p} : proc'[q] = proc[q]
      /\ proc'[p].id = None /\ ~Parking(p, t)' /\ ~Unlinking(p, t)'
  <2>1. proc'[p] = Off /\ \A q \in Procs \ {p} : proc'[q] = proc[q]
    BY <1>2, Ends
  <2>2. proc'[p].id = None /\ proc'[p].pc = "off"
    BY <2>1 DEF Off
  <2>. QED BY <2>1, <2>2 DEF Parking, Unlinking
<1>4. \A u \in Tracks \ {t} : excused'[u] = excused[u]
  BY <1>2, ExcuseKept DEF Excuses
<1>5. Parking(p, t) => excused'[t] # {}
  BY <1>2, ExcuseKept DEF Parking, Excuses
<1>6. excused'[t] = {} => excused[t] = {}
  BY <1>2, ExcuseKept DEF Excuses
<1>. QED BY <1>1, <1>2, <1>3, <1>4, <1>5, <1>6, NothingMoves

LEMMA RemoveRows == ASSUME SetupSane, RowsInv, NEW t \in Tracks, removeWorktree(t) PROVE RowsInv'
<1>1. /\ SetupShape /\ UNCHANGED <<ext, newer, written, proc>> /\ inSpec' = [inSpec EXCEPT ![t] = Absent]
      /\ IF inSpec[t].there THEN Excuse(t, "removed") ELSE UNCHANGED excused
  BY DEF removeWorktree, SetupSane
<1>2. ASSUME NEW u \in Tracks, excused'[u] = {} PROVE Holds(u)'
  <2>1. excused[u] = {} /\ (u = t => ~inSpec[t].there)
    BY <1>1, <1>2, ExcuseKept DEF Excuses
  <2>2. (inSpec'[u].there <=> inSpec[u].there) /\ (inSpec[u].there => inSpec'[u] = inSpec[u])
    BY <1>1, <2>1 DEF Absent, SetupShape
  <2>3. \A q \in Procs : (Parking(q, u)' <=> Parking(q, u)) /\ (Unlinking(q, u)' <=> Unlinking(q, u))
    BY <1>1 DEF Parking, Unlinking
  <2>4. Holds(u)
    BY <2>1 DEF RowsInv
  <2>. QED BY <1>1, <2>2, <2>3, <2>4
           DEF Holds, InSpecHolds, NewerHolds, StoreHolds, AsideHolds, UnlinkSafe
<1>. QED BY <1>2 DEF RowsInv

\* The steps that touch neither the files nor the rows.
LEMMA IdleRows ==
  ASSUME SetupSane, RowsInv, NEW p \in Procs,
         \/ StartResume(p) \/ runSetup(p) \/ acquireRunLock(p) \/ quarantineDirt(p)
         \/ deterministicPhaseCommit(p) \/ releaseHeldRunLock(p) \/ Succeeds(p)
  PROVE  RowsInv'
<1>1. /\ UNCHANGED <<ext, inSpec, newer, written, excused>> /\ SetupShape
      /\ proc[p].pc \in {"off", "lock", "hygiene", "run"}
  BY DEF StartResume, runSetup, acquireRunLock, quarantineDirt, deterministicPhaseCommit,
         releaseHeldRunLock, Succeeds, At, store, history, SetupSane
<1>2. PICK t \in Tracks :
        /\ \A q \in Procs \ {p} : proc'[q] = proc[q]
        /\ proc[p].id \in {t, None} \/ proc[p].pc = "off"
        /\ proc'[p].id \in {t, None}
        /\ proc'[p].pc \in {"off", "preload", "worktree", "check", "untrack", "run", "closing"}
  <2>1. CASE StartResume(p) \/ runSetup(p)
    <3>1. PICK r \in Process : /\ Becomes(p, r) /\ r.id \in Tracks /\ r.pc \in {"preload", "worktree"}
      BY <2>1, Starts
    <3>2. proc'[p] = r /\ \A q \in Procs \ {p} : proc'[q] = proc[q]
      <4>1. SetupShape /\ Becomes(p, r)
        BY <1>1, <3>1
      <4>. QED BY ONLY <4>1, p \in Procs, r \in Process, ProcessMoves
    <3>3. proc[p].pc = "off"
      BY <2>1 DEF StartResume, runSetup, At
    <3>. QED BY <3>1, <3>2, <3>3
  <2>2. CASE ~(StartResume(p) \/ runSetup(p))
    <3>1. proc[p].id \in Tracks /\ proc[p].pc \in {"lock", "hygiene", "run"} /\ proc[p] \in Process
      BY <2>2 DEF acquireRunLock, quarantineDirt, deterministicPhaseCommit, releaseHeldRunLock, Succeeds, At,
                  SetupSane, SetupShape, Underway
    <3>2. CASE End(p)
      BY <1>1, <3>1, <3>2, Ends DEF Off
    <3>3. CASE acquireRunLock(p)
      BY <1>1, <3>1, <3>3, AcquireShape DEF Off
    <3>4. CASE quarantineDirt(p)
      <4>1. CASE Goto(p, "untrack")
        BY <1>1, <3>1, <4>1, GoesOn DEF SetupPcs
      <4>2. CASE proc' = [proc EXCEPT ![p].pc = "untrack", ![p].left = TRUE]
        <5>1. PICK r : r = [proc[p] EXCEPT !.pc = "untrack", !.left = TRUE]
          OBVIOUS
        <5>2. proc' = [proc EXCEPT ![p] = r]
          BY <4>2, <5>1
        <5>3. Goes(proc[p], "untrack", r) /\ "untrack" \in SetupPcs
          BY <5>1 DEF Goes, SetupPcs
        <5>4. /\ \A q \in Procs \ {p} : proc'[q] = proc[q]
              /\ proc'[p].pc = "untrack" /\ proc'[p].id = proc[p].id
          BY <1>1, <5>2, <5>3, FieldsMove
        <5>. QED BY <3>1, <5>4
      <4>. QED BY <3>4, <4>1, <4>2 DEF quarantineDirt
    <3>5. CASE Goto(p, "closing")
      BY <1>1, <3>1, <3>5, GoesOn DEF SetupPcs
    <3>6. CASE deterministicPhaseCommit(p)
      BY <3>1, <3>6 DEF deterministicPhaseCommit, At
    <3>. QED BY <2>2, <3>2, <3>3, <3>4, <3>5, <3>6
             DEF releaseHeldRunLock, Succeeds
  <2>. QED BY <2>1, <2>2
<1>3. ~Parking(p, t) /\ ~Parking(p, t)' /\ ~Unlinking(p, t)'
  BY <1>1, <1>2 DEF Parking, Unlinking
<1>4. /\ UNCHANGED <<ext, inSpec, newer, written>>
      /\ \A u \in Tracks \ {t} : excused'[u] = excused[u]
      /\ excused'[t] = {} => excused[t] = {}
  BY <1>1
<1>5. /\ Parking(p, t) => Parking(p, t)' \/ excused'[t] # {}
      /\ Parking(p, t)' => Parking(p, t) /\ proc'[p].aside = proc[p].aside
      /\ Unlinking(p, t)' => Unlinking(p, t) \/ (excused[t] = {} => written[t] \subseteq ext[t].rows)
  BY ONLY <1>3
<1>6. /\ \A q \in Procs \ {p} : proc'[q] = proc[q]
      /\ proc[p].id \in {t, None} \/ proc[p].pc = "off"
      /\ proc'[p].id \in {t, None}
  BY ONLY <1>2
<1>. QED BY ONLY SetupSane, RowsInv, p \in Procs, t \in Tracks, <1>4, <1>5, <1>6, NothingMoves, Zenon

LEMMA StepRows == SetupSane /\ RowsInv /\ [SetupNext]_setupVars => RowsInv'
<1>. SUFFICES ASSUME SetupSane, RowsInv, [SetupNext]_setupVars PROVE RowsInv'
  OBVIOUS
<1>1. CASE UNCHANGED setupVars
  BY <1>1 DEF setupVars, RowsInv, Holds, InSpecHolds, NewerHolds, StoreHolds, AsideHolds, UnlinkSafe,
              Parking, Unlinking
<1>. QED BY <1>1, MoveRows, UnlinkRows, CheckRows, CheckoutRows, TruncateRows, ParkRows, UnparkRows,
            AppendRows, ClearRows, KillRows, RemoveRows, IdleRows DEF SetupNext

(* No row of a track is lost by the move of its state, for any number of     *)
(* processes, tracks, runs and failures of git, whoever is killed at which   *)
(* step; the locks are not needed for it.                                    *)
THEOREM Survival == SetupSpec => []RowsSurvive
<1>1. SetupInit => SetupSane /\ RowsInv
  BY InitSane, InitRows
<1>2. SetupSane /\ RowsInv /\ [SetupNext]_setupVars => (SetupSane /\ RowsInv)'
  BY StepSane, StepRows
<1>3. SetupSane /\ RowsInv => RowsSurvive
  <2>. SUFFICES ASSUME SetupSane, RowsInv, NEW t \in Tracks, excused[t] = {}
                PROVE  \/ written[t] \subseteq Kept(t)
                       \/ \E p \in Procs : At(p, "parked") /\ proc[p].id = t
    BY DEF RowsSurvive
  <2>1. Holds(t) /\ newer[t] \in {"ext", "in"}
    BY DEF RowsInv, SetupSane, SetupShape
  <2>2. CASE ~inSpec[t].there
    <3>1. migrationOf(t) = "none"
      BY <2>2 DEF migrationOf
    <3>. QED BY <2>1, <2>2, <3>1 DEF Kept, Holds, StoreHolds, Parking, At
  <2>3. CASE inSpec[t].there /\ (~ext[t].there \/ newer[t] = "in")
    <3>1. migrationOf(t) \in {"move", "replace"}
      <4>1. CASE ~ext[t].there
        BY <2>3, <4>1 DEF migrationOf
      <4>2. CASE ext[t].there
        BY <2>3, <4>2 DEF migrationOf
      <4>. QED BY <4>1, <4>2
    <3>. QED BY <2>1, <2>3, <3>1 DEF Kept, Holds, InSpecHolds
  <2>4. CASE inSpec[t].there /\ ext[t].there /\ newer[t] = "ext"
    <3>. QED BY <2>1, <2>4 DEF Kept, migrationOf, Holds, InSpecHolds, NewerHolds
  <2>. QED BY <2>1, <2>2, <2>3, <2>4
<1>. QED BY <1>1, <1>2, <1>3, PTL DEF SetupSpec

(* Who may be past the setup of a track: each holds one of its two locks,    *)
(* and of those that compared the two there is one.                          *)
Holding(p) == proc[p].pc \in {"check", "act", "unlink", "truncate", "hygiene", "untrack", "parked", "run"}
Cleared(p) == Holding(p) /\ proc[p].pc # "check" /\ ~proc[p].blind
Holder(p, t) == p \in {lockExt[t], lockIn[t]}

LocksInv ==
  /\ \A p \in Procs : Holding(p) => Holder(p, proc[p].id)
  /\ \A p, q \in Procs : p # q /\ Cleared(p) /\ Cleared(q) => proc[p].id # proc[q].id

LEMMA InitLocks == ASSUME SetupInit PROVE LocksInv
<1>1. \A p \in Procs : proc[p].pc = "off"
  BY DEF SetupInit, Off
<1>. QED BY <1>1 DEF LocksInv, Holding, Cleared

\* A step of p that takes no lock from others and does not clear p.
LEMMA SameLocks ==
  ASSUME SetupSane, LocksInv, NEW p \in Procs,
         \A q \in Procs \ {p} : proc'[q] = proc[q],
         \A q \in Procs \ {p}, t \in Tracks : Holding(q) /\ Holder(q, t) => Holder(q, t)',
         Holding(p)' => Holder(p, proc[p].id)' /\ proc'[p].id = proc[p].id,
         Cleared(p)' => \/ Cleared(p)
                        \/ \A q \in Procs \ {p} : Holding(q) => ~Holder(q, proc[p].id)
  PROVE  LocksInv'
<1>1. \A q \in Procs \ {p} : (Holding(q)' <=> Holding(q)) /\ (Cleared(q)' <=> Cleared(q))
  BY DEF Holding, Cleared
<1>2. \A q \in Procs : Holding(q) => proc[q].id \in Tracks
  BY DEF SetupSane, Underway, Holding
<1>3. ASSUME NEW q \in Procs, Holding(q)' PROVE Holder(q, proc[q].id)'
  <2>1. CASE q = p
    <3>1. Holder(p, proc[p].id)' /\ proc'[p].id = proc[p].id
      BY <1>3, <2>1
    <3>. QED BY <2>1, <3>1 DEF Holder
  <2>2. CASE q # p
    <3>1. Holding(q) /\ Holder(q, proc[q].id) /\ proc[q].id \in Tracks /\ proc'[q] = proc[q]
      BY <1>1, <1>2, <1>3, <2>2 DEF LocksInv
    <3>2. PICK t \in Tracks : t = proc[q].id
      BY <3>1
    <3>3. Holder(q, t)'
      BY <2>2, <3>1, <3>2
    <3>. QED BY <3>1, <3>2, <3>3 DEF Holder
  <2>. QED BY <2>1, <2>2
<1>4. ASSUME NEW q \in Procs \ {p}, Cleared(p)', Cleared(q)' PROVE proc'[p].id # proc'[q].id
  <2>1. Cleared(q) /\ Holding(q) /\ Holder(q, proc[q].id) /\ proc'[q] = proc[q]
    BY <1>1, <1>4 DEF LocksInv, Cleared
  <2>2. proc'[p].id = proc[p].id
    BY <1>4 DEF Cleared
  <2>3. CASE Cleared(p)
    BY <2>1, <2>2, <2>3 DEF LocksInv
  <2>4. CASE \A x \in Procs \ {p} : Holding(x) => ~Holder(x, proc[p].id)
    BY <2>1, <2>2, <2>4 DEF Holder
  <2>. QED BY <1>4, <2>3, <2>4
<1>5. ASSUME NEW x \in Procs, NEW y \in Procs, x # y, Cleared(x)', Cleared(y)' PROVE proc'[x].id # proc'[y].id
  <2>1. CASE x = p
    BY <1>4, <1>5, <2>1
  <2>2. CASE y = p
    BY <1>4, <1>5, <2>2
  <2>3. CASE x # p /\ y # p
    BY <1>1, <1>5, <2>3 DEF LocksInv
  <2>. QED BY <2>1, <2>2, <2>3
<1>6. \A x, y \in Procs : x # y /\ Cleared(x)' /\ Cleared(y)' => proc'[x].id # proc'[y].id
  BY <1>5
<1>7. \A q \in Procs : Holding(q)' => Holder(q, proc[q].id)'
  BY <1>3
<1>. QED BY <1>6, <1>7 DEF LocksInv

\* A process that ends holds nothing any more; the others keep what they hold.
LEMMA EndLocks == ASSUME SetupSane, LocksInv, NEW p \in Procs, End(p) PROVE LocksInv'
<1>1. /\ proc'[p] = Off /\ \A q \in Procs \ {p} : proc'[q] = proc[q]
      /\ \A t \in Tracks : /\ lockExt[t] # p => lockExt'[t] = lockExt[t]
                           /\ lockIn[t] # p => lockIn'[t] = lockIn[t]
  BY Ends DEF SetupSane
<1>2. ~Holding(p)' /\ ~Cleared(p)'
  BY <1>1 DEF Holding, Cleared, Off
<1>3. \A q \in Procs \ {p}, t \in Tracks : Holder(q, t) => Holder(q, t)'
  BY <1>1 DEF Holder
<1>. QED BY <1>1, <1>2, <1>3, SameLocks

\* A lock is taken where its holder is gone.
LEMMA AcquireLocks == ASSUME SetupSane, LocksInv, NEW p \in Procs, acquireRunLock(p) PROVE LocksInv'
<1>1. PICK t : t = proc[p].id
  OBVIOUS
<1>2. t \in Tracks /\ proc[p].pc = "lock" /\ SetupShape
  BY <1>1 DEF acquireRunLock, At, SetupSane, Underway
<1>3. CASE End(p)
  BY <1>3, EndLocks
<1>4. ASSUME NEW ok \in BOOLEAN, proc' = [proc EXCEPT ![p].pc = "check", ![p].memo = ok],
             ~Alive(IF ok THEN lockExt[t] ELSE lockIn[t]),
             IF ok THEN lockExt' = [lockExt EXCEPT ![t] = p] /\ UNCHANGED lockIn
                   ELSE lockIn' = [lockIn EXCEPT ![t] = p] /\ UNCHANGED lockExt
      PROVE  LocksInv'
  <2>1. /\ \A q \in Procs \ {p} : proc'[q] = proc[q]
        /\ proc'[p].id = t /\ proc'[p].pc = "check"
    BY <1>1, <1>2, <1>4 DEF SetupShape, Process
  <2>2. Holder(p, t)' /\ ~Cleared(p)'
    BY <1>2, <1>4, <2>1 DEF Holder, SetupShape, Cleared
  <2>3. ASSUME NEW q \in Procs \ {p}, NEW u \in Tracks, Holding(q), Holder(q, u) PROVE Holder(q, u)'
    <3>1. Alive(q)
      BY <2>3, SetupAssumption DEF Alive, Holding
    <3>2. CASE u = t
      BY <1>2, <1>4, <2>3, <3>1, <3>2 DEF Holder, SetupShape
    <3>3. CASE u # t
      BY <1>2, <1>4, <2>3, <3>3 DEF Holder, SetupShape
    <3>. QED BY <3>2, <3>3
  <2>4. Holding(p)' => Holder(p, proc[p].id)' /\ proc'[p].id = proc[p].id
    BY <1>1, <2>1, <2>2 DEF Holder
  <2>. QED BY <2>1, <2>2, <2>3, <2>4, SameLocks
<1>. QED BY <1>1, <1>3, <1>4 DEF acquireRunLock

\* A check that finds no other alive in either place.
LEMMA CheckLocks == ASSUME SetupSane, LocksInv, NEW p \in Procs, checkMigration(p) PROVE LocksInv'
<1>1. PICK t : t = proc[p].id
  OBVIOUS
<1>2. CASE End(p)
  BY <1>2, EndLocks
<1>3. CASE ~End(p)
  <2>1. /\ \A q \in Procs \ {p} : proc'[q] = proc[q]
        /\ UNCHANGED <<lockExt, lockIn>> /\ proc'[p].id = t /\ proc[p].pc \in {"preload", "check"}
        /\ proc[p].pc = "preload" => proc'[p].pc \in {"worktree", "preact"}
        /\ proc[p].pc = "check" => /\ proc'[p].pc \in {"truncate", "act"}
                                   /\ proc'[p].blind \/ ~liveForeignLockHolder(p, t)
    <3>1. proc[p].pc \in {"preload", "check"}
      BY ONLY checkMigration(p), Zenon DEF checkMigration
    <3>2. /\ \A q \in Procs \ {p} : proc'[q] = proc[q]
          /\ UNCHANGED locks /\ proc'[p].id = t
          /\ proc[p].pc = "preload" => proc'[p].pc \in {"worktree", "preact"}
          /\ proc[p].pc = "check" => /\ proc'[p].pc \in {"truncate", "act"}
                                     /\ proc'[p].blind \/ ~liveForeignLockHolder(p, t)
      BY <1>1, <1>3, CheckShape
    <3>. QED BY ONLY <3>1, <3>2 DEF locks
  <2>2. \A q, u : Holder(q, u)' <=> Holder(q, u)
    BY <2>1 DEF Holder
  <2>3. Holding(p)' => Holding(p) /\ Holder(p, t)
    BY <1>1, <2>1 DEF Holding, LocksInv
  <2>4. Cleared(p)' => \A q \in Procs \ {p} : Holding(q) => ~Holder(q, t)
    <3>. SUFFICES ASSUME Cleared(p)', NEW q \in Procs \ {p}, Holding(q), Holder(q, t) PROVE FALSE
      OBVIOUS
    <3>1. proc[p].pc = "check" /\ ~proc'[p].blind
      BY <2>1 DEF Cleared, Holding
    <3>2. ~liveForeignLockHolder(p, t)
      BY <2>1, <3>1
    <3>3. Alive(q)
      BY SetupAssumption DEF Alive, Holding
    <3>. QED BY <3>2, <3>3 DEF liveForeignLockHolder, Holder
  <2>5. Holding(p)' => Holder(p, proc[p].id)' /\ proc'[p].id = proc[p].id
    BY <1>1, <2>1, <2>2, <2>3 DEF Holder
  <2>6. \A q \in Procs \ {p}, u \in Tracks : Holding(q) /\ Holder(q, u) => Holder(q, u)'
    BY ONLY <2>2
  <2>7. Cleared(p)' => \A q \in Procs \ {p} : Holding(q) => ~Holder(q, proc[p].id)
    BY ONLY <1>1, <2>4
  <2>8. \A q \in Procs \ {p} : proc'[q] = proc[q]
    BY <2>1
  <2>. QED BY ONLY SetupSane, LocksInv, p \in Procs, <2>5, <2>6, <2>7, <2>8, SameLocks
<1>. QED BY <1>2, <1>3

\* A step of the setup or of the run, with the locks as they are.
LEMMA OnwardLocks ==
  ASSUME SetupSane, LocksInv, NEW p \in Procs, UNCHANGED <<lockExt, lockIn>>,
         \A q \in Procs \ {p} : proc'[q] = proc[q],
         proc'[p].id = proc[p].id, proc'[p].blind = proc[p].blind,
         Holding(p)' => Holding(p) /\ proc[p].pc # "check"
  PROVE  LocksInv'
<1>1. \A q, u : Holder(q, u)' <=> Holder(q, u)
  BY DEF Holder
<1>2. Holding(p)' => Holder(p, proc[p].id)
  BY DEF LocksInv
<1>3. Holding(p)' => Holder(p, proc[p].id)' /\ proc'[p].id = proc[p].id
  BY <1>1, <1>2 DEF Holder
<1>4. Cleared(p)' => Cleared(p)
  BY DEF Cleared
<1>. QED BY <1>1, <1>3, <1>4, SameLocks

LEMMA StepLocks == SetupSane /\ LocksInv /\ [SetupNext]_setupVars => LocksInv'
<1>. SUFFICES ASSUME SetupSane, LocksInv, [SetupNext]_setupVars PROVE LocksInv'
  OBVIOUS
<1>0. SetupShape /\ \A q \in Procs : proc[q] \in Process
  BY DEF SetupSane, SetupShape
<1>1. ASSUME NEW p \in Procs, NEW c \in SetupPcs, Goto(p, c), UNCHANGED <<lockExt, lockIn>>,
             c \in {"worktree", "lock", "preunlink"} \/ (Holding(p) /\ proc[p].pc # "check")
      PROVE  LocksInv'
  <2>1. /\ \A q \in Procs \ {p} : proc'[q] = proc[q]
        /\ proc'[p].id = proc[p].id /\ proc'[p].blind = proc[p].blind /\ proc'[p].pc = c
    BY <1>0, <1>1, GoesOn
  <2>2. Holding(p)' => Holding(p) /\ proc[p].pc # "check"
    BY <1>1, <2>1 DEF Holding
  <2>. QED BY <1>1, <2>1, <2>2, OnwardLocks
<1>2. ASSUME NEW p \in Procs, StartResume(p) \/ runSetup(p) PROVE LocksInv'
  <2>1. PICK r \in Process : Becomes(p, r) /\ r.pc \in {"preload", "worktree"}
    BY <1>2, Starts
  <2>2. proc'[p] = r /\ \A q \in Procs \ {p} : proc'[q] = proc[q]
    <3>1. SetupShape /\ Becomes(p, r)
      BY <1>0, <2>1
    <3>. QED BY ONLY <3>1, p \in Procs, r \in Process, ProcessMoves
  <2>3. ~Holding(p)' /\ ~Cleared(p)' /\ UNCHANGED <<lockExt, lockIn>>
    BY <1>2, <2>1, <2>2 DEF Holding, Cleared, StartResume, runSetup, locks
  <2>4. \A q, u : Holder(q, u)' <=> Holder(q, u)
    BY <2>3 DEF Holder
  <2>. QED BY <2>2, <2>3, <2>4, SameLocks
<1>3. ASSUME NEW p \in Procs, createOrReuseWorktree(p) PROVE LocksInv'
  BY <1>1, <1>3 DEF createOrReuseWorktree, locks, SetupPcs
<1>4. ASSUME NEW p \in Procs, moveDurably(p) PROVE LocksInv'
  <2>1. CASE End(p)
    BY <2>1, EndLocks
  <2>2. CASE ~End(p)
    <3>1. /\ \A q \in Procs \ {p} : proc'[q] = proc[q]
          /\ UNCHANGED <<lockExt, lockIn>> /\ proc'[p].id = proc[p].id /\ proc[p].pc \in {"preact", "act"}
          /\ proc[p].pc = "preact" => proc'[p].pc \in {"worktree", "preunlink"}
          /\ proc[p].pc = "act" => proc'[p].pc \in {"truncate", "unlink"} /\ proc'[p].blind = proc[p].blind
      BY <1>4, <2>2, MoveShape DEF moveDurably, locks
    <3>2. \A q, u : Holder(q, u)' <=> Holder(q, u)
      BY <3>1 DEF Holder
    <3>3. Holding(p)' => Holding(p)
      BY <3>1 DEF Holding
    <3>4. Cleared(p)' => Cleared(p)
      BY <3>1 DEF Holding, Cleared
    <3>5. Holding(p)' => Holder(p, proc[p].id)' /\ proc'[p].id = proc[p].id
      <4>1. Holding(p) => Holder(p, proc[p].id)
        BY DEF LocksInv
      <4>. QED BY <3>1, <3>2, <3>3, <4>1 DEF Holder
    <3>. QED BY <3>1, <3>2, <3>4, <3>5, SameLocks
  <2>. QED BY <2>1, <2>2
<1>5. ASSUME NEW p \in Procs, unlinkInSpec(p) PROVE LocksInv'
  <2>1. /\ proc[p].pc \in {"preunlink", "unlink"} /\ Goto(p, Onward(p)) /\ UNCHANGED <<lockExt, lockIn>>
        /\ proc[p].pc = "preunlink" => proc[p].how = "resume"
    BY <1>5 DEF unlinkInSpec, locks, SetupSane, Underway
  <2>2. CASE proc[p].pc = "preunlink"
    BY <1>1, <2>1, <2>2 DEF Onward, Preload, SetupPcs
  <2>3. CASE proc[p].pc = "unlink"
    BY <1>1, <2>1, <2>3 DEF Onward, Preload, SetupPcs, Holding
  <2>. QED BY <2>1, <2>2, <2>3
<1>6. ASSUME NEW p \in Procs, truncateStaleCache(p) PROVE LocksInv'
  BY <1>1, <1>6 DEF truncateStaleCache, At, locks, SetupPcs, Holding
<1>7. ASSUME NEW p \in Procs, NEW r, proc' = [proc EXCEPT ![p] = r], UNCHANGED <<lockExt, lockIn>>,
             r.id = proc[p].id, r.blind = proc[p].blind, Holding(p), proc[p].pc # "check"
      PROVE  LocksInv'
  BY <1>0, <1>7, OnwardLocks DEF SetupShape
<1>8. ASSUME NEW p \in Procs, quarantineDirt(p) PROVE LocksInv'
  <2>1. proc[p].pc = "hygiene" /\ Holding(p) /\ UNCHANGED <<lockExt, lockIn>>
    BY <1>8 DEF quarantineDirt, At, Holding, locks
  <2>2. CASE Goto(p, "untrack")
    BY <1>1, <2>1, <2>2 DEF SetupPcs
  <2>3. CASE proc' = [proc EXCEPT ![p].pc = "untrack", ![p].left = TRUE]
    <3>1. PICK r : r = [proc[p] EXCEPT !.pc = "untrack", !.left = TRUE]
      OBVIOUS
    <3>2. proc' = [proc EXCEPT ![p] = r]
      BY <2>3, <3>1
    <3>3. r.id = proc[p].id /\ r.blind = proc[p].blind
      BY <1>0, <3>1 DEF Process
    <3>. QED BY <1>7, <2>1, <3>2, <3>3
  <2>. QED BY <1>8, <2>2, <2>3 DEF quarantineDirt
<1>9. ASSUME NEW p \in Procs, removeFromIndex(p) PROVE LocksInv'
  <2>1. proc[p].pc = "untrack" /\ Holding(p) /\ UNCHANGED <<lockExt, lockIn>>
    BY <1>9 DEF removeFromIndex, At, Holding, locks
  <2>2. CASE Goto(p, "run")
    BY <1>1, <2>1, <2>2 DEF SetupPcs
  <2>3. CASE proc' = [proc EXCEPT ![p].pc = "parked", ![p].aside = inSpec[proc[p].id]]
    <3>1. PICK r : r = [proc[p] EXCEPT !.pc = "parked", !.aside = inSpec[proc[p].id]]
      OBVIOUS
    <3>2. proc' = [proc EXCEPT ![p] = r]
      BY <2>3, <3>1
    <3>3. r.id = proc[p].id /\ r.blind = proc[p].blind
      BY <1>0, <3>1 DEF Process
    <3>. QED BY <1>7, <2>1, <3>2, <3>3
  <2>. QED BY <1>9, <2>2, <2>3 DEF removeFromIndex
<1>10. ASSUME NEW p \in Procs, commitUntracking(p) PROVE LocksInv'
  BY <1>1, <1>10 DEF commitUntracking, At, locks, SetupPcs, Holding
<1>11. ASSUME NEW p \in Procs, appendResumeResult(p) PROVE LocksInv'
  <2>1. /\ proc[p].pc = "run" /\ Holding(p) /\ UNCHANGED <<lockExt, lockIn>>
        /\ \E ok \in BOOLEAN : proc' = [proc EXCEPT ![p].memo = ok]
    BY <1>11 DEF appendResumeResult, At, Holding, locks
  <2>2. /\ \A q \in Procs \ {p} : proc'[q] = proc[q]
        /\ proc'[p].id = proc[p].id /\ proc'[p].blind = proc[p].blind
    BY <1>0, <2>1 DEF SetupShape, Process
  <2>. QED BY <2>1, <2>2, OnwardLocks
<1>12. ASSUME NEW p \in Procs, deterministicPhaseCommit(p) \/ rollbackToCheckpoint(p) PROVE LocksInv'
  BY <1>12 DEF deterministicPhaseCommit, rollbackToCheckpoint, locks, LocksInv, Holding, Cleared, Holder
<1>13. ASSUME NEW p \in Procs, Succeeds(p) PROVE LocksInv'
  <2>1. Goto(p, "closing") /\ Unlock(p)
    BY <1>13 DEF Succeeds
  <2>2. /\ \A q \in Procs \ {p} : proc'[q] = proc[q]
        /\ proc'[p].pc = "closing"
    BY <1>0, <2>1, GoesOn DEF SetupPcs
  <2>3. ~Holding(p)' /\ ~Cleared(p)'
    BY <2>2 DEF Holding, Cleared
  <2>4. \A q \in Procs \ {p}, t \in Tracks : Holder(q, t) => Holder(q, t)'
    BY <1>0, <2>1 DEF Unlock, Holder, SetupShape
  <2>. QED BY <2>2, <2>3, <2>4, SameLocks
<1>14. ASSUME NEW p \in Procs, releaseHeldRunLock(p) \/ clearResumeCache(p) \/ SetupKill(p) PROVE LocksInv'
  BY <1>14, EndLocks DEF releaseHeldRunLock, clearResumeCache, SetupKill
<1>15. CASE UNCHANGED setupVars \/ \E t \in Tracks : removeWorktree(t)
  BY <1>15 DEF removeWorktree, setupVars, locks, LocksInv, Holding, Cleared, Holder
<1>. QED BY <1>2, <1>3, <1>4, <1>5, <1>6, <1>8, <1>9, <1>10, <1>11, <1>12, <1>13, <1>14, <1>15,
            AcquireLocks, CheckLocks DEF SetupNext

(* One run at a time on each track, for any number of processes and tracks:  *)
(* two are past the setup only if git failed for one of them when it         *)
(* compared the two places of the lock.                                      *)
THEOREM OneRun == SetupSpec => []OneRunPerTrack
<1>1. SetupSane /\ LocksInv /\ [SetupNext]_setupVars => (SetupSane /\ LocksInv)'
  BY StepSane, StepLocks
<1>2. LocksInv => OneRunPerTrack
  BY DEF LocksInv, OneRunPerTrack, Cleared, Holding, At
<1>. QED BY InitSane, InitLocks, <1>1, <1>2, PTL DEF SetupSpec

(* The branches, and how often git failed.                                  *)
RepoType ==
  /\ tip \in [Tracks -> {"none", "bare", "spec"}] /\ complete \subseteq Tracks /\ dirt \subseteq Tracks
  /\ gitFaults \in 0..MaxFaults

LEMMA Resolved ==
  ASSUME gitFaults \in 0..MaxFaults, NEW p, NEW ok, Resolves(p, ok)
  PROVE  gitFaults' \in 0..MaxFaults
<1>1. gitFaults' \in {gitFaults, gitFaults + 1} /\ gitFaults' <= MaxFaults
  <2>1. CASE ok
    BY <2>1, SetupAssumption DEF Resolves
  <2>2. CASE ~ok
    BY <2>2 DEF Resolves
  <2>. QED BY <2>1, <2>2
<1>. QED BY <1>1, SetupAssumption

LEMMA StepRepo == SetupSane /\ RepoType /\ [SetupNext]_setupVars => RepoType'
<1>. SUFFICES ASSUME SetupSane, RepoType, [SetupNext]_setupVars PROVE RepoType'
  OBVIOUS
<1>. USE DEF RepoType
<1>1. ASSUME NEW p \in Procs, StartResume(p) \/ runSetup(p) \/ unlinkInSpec(p) \/ moveDurably(p)
                                \/ removeFromIndex(p) \/ releaseHeldRunLock(p) \/ rollbackToCheckpoint(p)
      PROVE  RepoType'
  <2>1. UNCHANGED <<tip, complete, dirt, gitFaults>>
    BY <1>1 DEF StartResume, runSetup, unlinkInSpec, moveDurably, removeFromIndex, releaseHeldRunLock,
                rollbackToCheckpoint, repo
  <2>. QED BY ONLY RepoType, <2>1, Zenon
<1>2. ASSUME NEW p \in Procs, acquireRunLock(p) \/ checkMigration(p) \/ truncateStaleCache(p) \/ appendResumeResult(p)
      PROVE  RepoType'
  <2>1. UNCHANGED <<tip, complete, dirt>>
    BY <1>2 DEF acquireRunLock, checkMigration, truncateStaleCache, appendResumeResult, repo
  <2>2. PICK ok : Resolves(p, ok)
    <3>1. CASE acquireRunLock(p)
      BY <3>1 DEF acquireRunLock
    <3>2. CASE checkMigration(p)
      BY <3>2 DEF checkMigration
    <3>3. CASE truncateStaleCache(p)
      BY <3>3 DEF truncateStaleCache
    <3>4. CASE appendResumeResult(p)
      BY <3>4 DEF appendResumeResult
    <3>. QED BY <1>2, <3>1, <3>2, <3>3, <3>4
  <2>3. gitFaults' \in 0..MaxFaults
    BY <2>2, Resolved
  <2>. QED BY ONLY RepoType, <2>1, <2>3, Zenon
<1>3. ASSUME NEW p \in Procs, createOrReuseWorktree(p) \/ deterministicPhaseCommit(p) PROVE RepoType'
  <2>1. /\ UNCHANGED <<complete, dirt, gitFaults>>
        /\ \E b \in {"none", "bare", "spec"} : tip' = [tip EXCEPT ![proc[p].id] = b]
    <3>1. CASE deterministicPhaseCommit(p)
      BY <3>1 DEF deterministicPhaseCommit
    <3>2. CASE createOrReuseWorktree(p)
      <4>1. proc[p].id \in Tracks
        BY <3>2 DEF createOrReuseWorktree, At, SetupSane, Underway
      <4>2. PICK b \in {"none", "bare", "spec"} :
              b = IF tip[proc[p].id] # "none" THEN tip[proc[p].id]
                  ELSE IF proc[p].id \in merged THEN "spec" ELSE "bare"
        BY <4>1
      <4>3. tip' = [tip EXCEPT ![proc[p].id] = b]
        BY <3>2, <4>2 DEF createOrReuseWorktree
      <4>. QED BY <3>2, <4>3 DEF createOrReuseWorktree
    <3>. QED BY <1>3, <3>1, <3>2
  <2>. QED BY <2>1
<1>4. ASSUME NEW p \in Procs, Succeeds(p) PROVE RepoType'
  BY <1>4 DEF Succeeds
<1>5. ASSUME NEW p \in Procs, quarantineDirt(p) \/ commitUntracking(p) PROVE RepoType'
  <2>1. UNCHANGED <<tip, complete>> /\ dirt' \subseteq dirt
    BY <1>5 DEF quarantineDirt, commitUntracking
  <2>2. gitFaults' = gitFaults \/ (gitFaults < MaxFaults /\ gitFaults' = gitFaults + 1)
    <3>1. CASE quarantineDirt(p)
      BY <3>1 DEF quarantineDirt
    <3>2. CASE commitUntracking(p)
      BY <3>2 DEF commitUntracking
    <3>. QED BY <1>5, <3>1, <3>2
  <2>. QED BY <2>1, <2>2, SetupAssumption
<1>6. ASSUME NEW p \in Procs, clearResumeCache(p) \/ SetupKill(p) PROVE RepoType'
  <2>1. proc[p].id \in Tracks
    BY <1>6 DEF clearResumeCache, SetupKill, At, SetupSane, Underway
  <2>2. UNCHANGED <<tip, gitFaults>> /\ complete' \subseteq complete \cup {proc[p].id}
        /\ dirt' \subseteq dirt \cup {proc[p].id}
    BY <1>6 DEF clearResumeCache, SetupKill
  <2>. QED BY <2>1, <2>2
<1>7. ASSUME NEW t \in Tracks, removeWorktree(t) PROVE RepoType'
  BY <1>7 DEF removeWorktree
<1>8. CASE UNCHANGED setupVars
  BY <1>8 DEF setupVars
<1>. HIDE DEF RepoType
<1>. QED BY ONLY [SetupNext]_setupVars, <1>1, <1>2, <1>3, <1>4, <1>5, <1>6, <1>7, <1>8 DEF SetupNext

(* Type correctness of the set-up: rows and locks are of runs and processes *)
(* there are.                                                               *)
THEOREM SetupTypeCorrect == SetupSpec => []SetupTypeOK
<1>1. SetupInit => SetupSane /\ RepoType
  <2>. SUFFICES ASSUME SetupInit PROVE RepoType
    BY InitSane
  <2>1. PICK legacy \in SUBSET Tracks : tip = [t \in Tracks |-> IF t \in legacy THEN "spec" ELSE "none"]
    BY DEF SetupInit
  <2>2. complete = {} /\ dirt = {} /\ gitFaults = 0
    BY DEF SetupInit
  <2>. QED BY <2>1, <2>2, SetupAssumption DEF RepoType
<1>2. SetupSane /\ RepoType /\ [SetupNext]_setupVars => (SetupSane /\ RepoType)'
  BY StepSane, StepRepo
<1>3. SetupSane /\ RepoType => SetupTypeOK
  BY DEF SetupSane, SetupShape, RepoType, SetupTypeOK, File, RunIds, Excuses
<1>. QED BY <1>1, <1>2, <1>3, PTL DEF SetupSpec

(***************************************************************************)
(* The test services.  A port is picked after every process that was ever  *)
(* started, so that a process on the port of the role in hand is the       *)
(* candidate being waited for, or an earlier one that was told to end.     *)
(***************************************************************************)
BlockType ==
  /\ block.pc \in {"off", "pick", "ladder", "poll", "test", "down"}
  /\ block.todo \in {<<>>, <<"api">>, <<"ui">>, <<"api", "ui">>}
  /\ block.candidate \in 0..MaxCandidates
  /\ block.port \in 0..(MaxProcesses + 1) /\ block.current \in 0..MaxProcesses
BlockShape ==
  block = [pc |-> block.pc, todo |-> block.todo, candidate |-> block.candidate, port |-> block.port,
           current |-> block.current]

ProcessType ==
  process \in [Processes -> [at : {"none", "up", "serving", "gone"}, told : BOOLEAN, watched : BOOLEAN,
                             port : 0..(MaxProcesses + 1)]]
RecordType ==
  /\ started \in 0..MaxProcesses
  /\ local \in [Roles -> 0..MaxProcesses] /\ services \in [Roles -> 0..MaxProcesses]
SwitchType ==
  /\ tests \in [Roles -> {"none", "running", "ended"}]
  /\ taken \in BOOLEAN /\ cancelled \in BOOLEAN /\ exited \in BOOLEAN
LostType == lost \subseteq Processes

(* Where the bring-up stands, and what may run on which port.              *)
AtRole ==
  /\ block.pc \in {"ladder", "poll"} => block.todo # <<>>
  /\ block.pc = "poll" => block.current \in Processes /\ block.candidate < MaxCandidates
Ports ==
  /\ \A k \in Processes : Runs(k) => k <= started /\ process[k].port <= k
  /\ block.pc \in {"ladder", "poll"} => block.port <= started + 1
  /\ block.pc \in {"ladder", "poll"} =>
       \A k \in Processes : Runs(k) /\ process[k].port = block.port =>
         process[k].told \/ (block.pc = "poll" /\ k = block.current)

ServicesInv ==
  BlockShape /\ BlockType /\ ProcessType /\ RecordType /\ SwitchType /\ LostType /\ AtRole /\ Ports

LEMMA TailOfTodo ==
  ASSUME NEW todo \in {<<>>, <<"api">>, <<"ui">>, <<"api", "ui">>}
  PROVE  /\ Tail(todo) \in {<<>>, <<"api">>, <<"ui">>, <<"api", "ui">>} \/ todo = <<>>
         /\ todo # <<>> => Head(todo) \in Roles
<1>1. Tail(<<"api">>) = <<>> /\ Tail(<<"ui">>) = <<>> /\ Tail(<<"api", "ui">>) = <<"ui">>
  OBVIOUS
<1>2. Head(<<"api">>) = "api" /\ Head(<<"ui">>) = "ui" /\ Head(<<"api", "ui">>) = "api"
  OBVIOUS
<1>. QED BY <1>1, <1>2 DEF Roles

(* The records of a block are made by the same few operators.              *)
LEMMA BlockSteps ==
  ASSUME BlockShape, BlockType
  PROVE  /\ \A at \in {"off", "pick", "ladder", "poll", "test", "down"} :
              Step(at) => /\ BlockShape' /\ BlockType' /\ block'.pc = at /\ block'.todo = block.todo
                          /\ block'.port = block.port /\ block'.current = block.current
         /\ NextRole /\ block.todo # <<>> => BlockShape' /\ BlockType' /\ block'.pc = "pick"
         /\ NextCandidate /\ block.candidate < MaxCandidates =>
              /\ BlockShape' /\ BlockType' /\ block'.pc = "ladder" /\ block'.todo = block.todo
              /\ block'.port = block.port /\ block'.current = 0
<1>. USE ServicesAssumption DEF BlockType, BlockShape
<1>1. ASSUME NEW at \in {"off", "pick", "ladder", "poll", "test", "down"}, Step(at)
      PROVE  /\ BlockShape' /\ BlockType' /\ block'.pc = at /\ block'.todo = block.todo
             /\ block'.port = block.port /\ block'.current = block.current
  <2>1. block' = [pc |-> at, todo |-> block.todo, candidate |-> block.candidate, port |-> block.port,
                  current |-> block.current]
    BY <1>1 DEF Step
  <2>. QED BY <2>1
<1>2. ASSUME NextRole, block.todo # <<>>
      PROVE  BlockShape' /\ BlockType' /\ block'.pc = "pick"
  <2>1. block' = [pc |-> "pick", todo |-> Tail(block.todo), candidate |-> 0, port |-> 0, current |-> 0]
    BY <1>2 DEF NextRole, Resting
  <2>2. PICK rest \in {<<>>, <<"api">>, <<"ui">>, <<"api", "ui">>} : rest = Tail(block.todo)
    BY <1>2, TailOfTodo
  <2>3. block' = [pc |-> "pick", todo |-> rest, candidate |-> 0, port |-> 0, current |-> 0]
    BY <2>1, <2>2
  <2>. QED BY <2>3
<1>3. ASSUME NextCandidate, block.candidate < MaxCandidates
      PROVE  /\ BlockShape' /\ BlockType' /\ block'.pc = "ladder" /\ block'.todo = block.todo
             /\ block'.port = block.port /\ block'.current = 0
  <2>1. block' = [pc |-> "ladder", todo |-> block.todo, candidate |-> block.candidate + 1, port |-> block.port,
                  current |-> 0]
    BY <1>3 DEF NextCandidate
  <2>2. PICK n : n = block.candidate + 1
    OBVIOUS
  <2>3. n \in 0..MaxCandidates
    BY <1>3, <2>2
  <2>. QED BY <2>1, <2>2, <2>3
<1>. QED BY <1>1, <1>2, <1>3

(* Telling processes to end starts none, moves none to another port and    *)
(* takes the word back from none.                                          *)
LEMMA Stopping ==
  ASSUME ProcessType, NEW P, process' = stopService(P)
  PROVE  /\ ProcessType'
         /\ \A k \in Processes :
              /\ process'[k].at = process[k].at /\ process'[k].port = process[k].port
              /\ process[k].told => process'[k].told
              /\ Runs(k) /\ k \in P => process'[k].told
<1>1. ASSUME NEW k \in Processes
      PROVE  /\ process'[k] \in [at : {"none", "up", "serving", "gone"}, told : BOOLEAN, watched : BOOLEAN,
                                 port : 0..(MaxProcesses + 1)]
             /\ process'[k].at = process[k].at /\ process'[k].port = process[k].port
             /\ process[k].told => process'[k].told
             /\ Runs(k) /\ k \in P => process'[k].told
  <2>1. CASE k \in P /\ Runs(k)
    <3>1. PICK yes \in BOOLEAN : yes = TRUE
      OBVIOUS
    <3>2. process'[k] = [process[k] EXCEPT !.told = yes, !.watched = yes]
      BY <2>1, <3>1 DEF stopService
    <3>3. /\ process'[k] \in [at : {"none", "up", "serving", "gone"}, told : BOOLEAN, watched : BOOLEAN,
                              port : 0..(MaxProcesses + 1)]
          /\ process'[k].at = process[k].at /\ process'[k].port = process[k].port /\ process'[k].told = yes
      <4>1. process[k] \in [at : {"none", "up", "serving", "gone"}, told : BOOLEAN, watched : BOOLEAN,
                             port : 0..(MaxProcesses + 1)]
        BY DEF ProcessType
      <4>. QED BY ONLY yes \in BOOLEAN, <3>2, <4>1
    <3>. QED BY <3>1, <3>3
  <2>2. CASE ~(k \in P /\ Runs(k))
    BY <2>2 DEF stopService, ProcessType
  <2>. QED BY <2>1, <2>2
<1>2. process' = [k \in Processes |-> process'[k]]
  BY DEF stopService
<1>. QED BY <1>1, <1>2 DEF ProcessType

LEMMA ServicesInitial == ServicesInit => ServicesInv
<1>. SUFFICES ASSUME ServicesInit PROVE ServicesInv
  OBVIOUS
<1>. USE ServicesAssumption DEF ServicesInit
<1>1. BlockShape /\ BlockType /\ AtRole
  BY DEF Resting, BlockShape, BlockType, AtRole
<1>2. ProcessType /\ (\A k \in Processes : ~Runs(k))
  <2>1. PICK no \in BOOLEAN : no = FALSE
    OBVIOUS
  <2>2. process = [k \in Processes |-> [at |-> "none", told |-> no, watched |-> no, port |-> 0]]
    BY <2>1 DEF NotStarted
  <2>. QED BY <2>2 DEF ProcessType, Runs
<1>3. RecordType /\ LostType
  BY DEF RecordType, LostType, Nothing
<1>4. SwitchType
  BY DEF SwitchType
<1>5. Ports
  <2>1. block.pc = "off"
    BY DEF Resting
  <2>. QED BY <1>2, <2>1 DEF Ports
<1>. QED BY <1>1, <1>2, <1>3, <1>4, <1>5 DEF ServicesInv

(* A step that starts no process and leaves those there where they are.    *)
SameProcesses ==
  /\ started' = started
  /\ \A k \in Processes : (Runs(k))' => /\ Runs(k) /\ process'[k].port = process[k].port
                                        /\ process[k].told => process'[k].told

LEMMA PortsKept ==
  ASSUME Ports, SameProcesses, block'.pc \in {"ladder", "poll"} =>
           block.pc = block'.pc /\ block'.port = block.port /\ block'.current = block.current
  PROVE  Ports'
BY DEF Ports, SameProcesses

LEMMA NoneStarted ==
  ASSUME process' = process, started' = started
  PROVE  SameProcesses
BY DEF SameProcesses, Runs

LEMMA NextServices == ServicesInv /\ [ServicesNext]_servicesVars => ServicesInv'
<1>. SUFFICES ASSUME ServicesInv, [ServicesNext]_servicesVars PROVE ServicesInv'
  OBVIOUS
<1>1. /\ BlockShape /\ BlockType /\ ProcessType /\ RecordType /\ SwitchType /\ LostType /\ AtRole /\ Ports
  BY DEF ServicesInv
<1>2. CASE UNCHANGED servicesVars
  BY <1>1, <1>2 DEF servicesVars, ServicesInv, BlockShape, BlockType, ProcessType, RecordType, SwitchType,
                    LostType, AtRole, Ports, Runs
<1>3. CASE resetIntegrationAttemptState
  <2>1. PICK todo \in {<<>>, <<"api">>, <<"ui">>, <<"api", "ui">>} :
          block' = [Resting EXCEPT !.pc = "pick", !.todo = todo]
    BY <1>3 DEF resetIntegrationAttemptState
  <2>2. block' = [pc |-> "pick", todo |-> todo, candidate |-> 0, port |-> 0, current |-> 0]
    BY <2>1 DEF Resting
  <2>3. BlockShape' /\ BlockType' /\ block'.pc = "pick"
    BY <2>2, ServicesAssumption DEF BlockShape, BlockType
  <2>4. UNCHANGED <<process, started, taken, lost, cancelled, exited>>
    BY <1>3 DEF resetIntegrationAttemptState
  <2>5. RecordType' /\ SwitchType'
    BY <1>1, <1>3, <2>4, ServicesAssumption DEF resetIntegrationAttemptState, RecordType, SwitchType, Nothing
  <2>6. ProcessType' /\ LostType' /\ AtRole' /\ Ports'
    BY <1>1, <2>3, <2>4, NoneStarted, PortsKept DEF ProcessType, LostType, AtRole
  <2>. QED BY <2>3, <2>5, <2>6 DEF ServicesInv
<1>4. CASE pickFreePort
  <2>1. UNCHANGED <<process, started, local, services, tests, cancelled, exited>> /\ block.todo # <<>>
    BY <1>4 DEF pickFreePort
  <2>2. ProcessType' /\ RecordType'
    BY <1>1, <2>1 DEF ProcessType, RecordType
  <2>3. SwitchType'
    BY <1>1, <1>4, <2>1 DEF pickFreePort, SwitchType
  <2>4. LostType'
    BY <1>1, <1>4 DEF pickFreePort, LostType
  <2>5. CASE block' = [block EXCEPT !.pc = "ladder", !.port = started + 1]
    <3>1. PICK port : port = started + 1
      OBVIOUS
    <3>2. port \in 0..(MaxProcesses + 1) /\ \A k \in Processes : Runs(k) => process[k].port < port
      <4>1. started \in 0..MaxProcesses
        BY <1>1 DEF RecordType
      <4>2. ASSUME NEW k \in Processes, Runs(k)
            PROVE  process[k].port < port
        <5>1. k <= started /\ process[k].port <= k /\ process[k].port \in 0..(MaxProcesses + 1)
          BY <1>1, <4>2 DEF Ports, ProcessType
        <5>2. PICK p : p = process[k].port
          OBVIOUS
        <5>. QED BY <3>1, <4>1, <5>1, <5>2, ServicesAssumption DEF Processes
      <4>. QED BY <3>1, <4>1, <4>2, ServicesAssumption
    <3>3. block' = [pc |-> "ladder", todo |-> block.todo, candidate |-> block.candidate, port |-> port,
                    current |-> block.current]
      BY <1>1, <2>5, <3>1 DEF BlockShape
    <3>4. BlockShape' /\ BlockType' /\ AtRole' /\ block'.port = port
      BY <1>1, <2>1, <3>2, <3>3 DEF BlockShape, BlockType, AtRole
    <3>5. \A k \in Processes : (Runs(k))' => Runs(k) /\ process'[k].port = process[k].port
      BY <2>1 DEF Runs
    <3>6. ASSUME NEW k \in Processes, (Runs(k))', process'[k].port = port PROVE FALSE
      <4>1. PICK p : p = process[k].port
        OBVIOUS
      <4>2. p \in 0..(MaxProcesses + 1) /\ p < port /\ p = port
        BY <1>1, <3>2, <3>5, <3>6, <4>1 DEF ProcessType
      <4>. QED BY <3>2, <4>2, ServicesAssumption
    <3>7. Ports'
      <4>1. block'.port <= started' + 1
        BY <1>1, <2>1, <3>1, <3>4 DEF RecordType
      <4>. QED BY <1>1, <2>1, <3>4, <3>5, <3>6, <4>1 DEF Ports
    <3>. QED BY <2>2, <2>3, <2>4, <3>4, <3>7 DEF ServicesInv
  <2>6. CASE Step("down")
    <3>1. BlockShape' /\ BlockType' /\ block'.pc = "down"
      BY <1>1, <2>6, BlockSteps
    <3>. QED BY <1>1, <2>1, <2>2, <2>3, <2>4, <3>1, NoneStarted, PortsKept DEF ServicesInv, AtRole
  <2>. QED BY <1>4, <2>5, <2>6 DEF pickFreePort
<1>5. CASE startService
  <2>1. UNCHANGED <<local, services, tests, taken, lost, cancelled, exited>> /\ block.pc = "ladder"
    BY <1>5 DEF startService
  <2>2. SwitchType' /\ LostType' /\ block.todo # <<>>
    BY <1>1, <2>1 DEF SwitchType, LostType, AtRole
  <2>3. CASE NextRole /\ UNCHANGED <<process, started>>
    <3>1. BlockShape' /\ BlockType' /\ block'.pc = "pick"
      BY <1>1, <2>2, <2>3, BlockSteps
    <3>2. ProcessType' /\ RecordType'
      BY <1>1, <2>1, <2>3 DEF ProcessType, RecordType
    <3>. QED BY <1>1, <2>2, <2>3, <3>1, <3>2, NoneStarted, PortsKept DEF ServicesInv, AtRole
  <2>4. CASE NextCandidate /\ block.candidate < MaxCandidates /\ UNCHANGED <<process, started>>
    <3>1. /\ BlockShape' /\ BlockType' /\ block'.pc = "ladder" /\ block'.todo = block.todo
          /\ block'.port = block.port
      BY <1>1, <2>4, BlockSteps
    <3>2. ProcessType' /\ RecordType'
      BY <1>1, <2>1, <2>4 DEF ProcessType, RecordType
    <3>3. Ports'
      BY <1>1, <2>1, <2>4, <3>1 DEF Ports, Runs
    <3>. QED BY <2>2, <3>1, <3>2, <3>3 DEF ServicesInv, AtRole
  <2>5. CASE /\ block.candidate < MaxCandidates /\ started < MaxProcesses
             /\ started' = started + 1
             /\ process' = [process EXCEPT ![started + 1] = [NotStarted EXCEPT !.at = "up", !.port = block.port]]
             /\ block' = [block EXCEPT !.pc = "poll", !.current = started + 1]
    <3>1. PICK n : n = started + 1
      OBVIOUS
    <3>2. started \in 0..MaxProcesses /\ n \in Processes /\ n \in 1..MaxProcesses /\ started < n
      BY <1>1, <2>5, <3>1, ServicesAssumption DEF RecordType, Processes
    <3>3. PICK no \in BOOLEAN : no = FALSE
      OBVIOUS
    <3>4. process' = [process EXCEPT ![n] = [at |-> "up", told |-> no, watched |-> no, port |-> block.port]]
      <4>1. PICK row : row = [NotStarted EXCEPT !.at = "up", !.port = block.port]
        OBVIOUS
      <4>2. row = [at |-> "up", told |-> no, watched |-> no, port |-> block.port]
        BY <3>3, <4>1 DEF NotStarted
      <4>3. process' = [process EXCEPT ![n] = row]
        BY <2>5, <3>1, <4>1
      <4>. QED BY <4>2, <4>3
    <3>5. block.port \in 0..(MaxProcesses + 1)
      BY <1>1 DEF BlockType
    <3>6. ProcessType'
      BY <1>1, <3>2, <3>4, <3>5 DEF ProcessType
    <3>7. block' = [pc |-> "poll", todo |-> block.todo, candidate |-> block.candidate, port |-> block.port,
                    current |-> n]
      BY <1>1, <2>5, <3>1 DEF BlockShape
    <3>8. BlockShape' /\ BlockType'
      BY <1>1, <3>2, <3>7, ServicesAssumption DEF BlockShape, BlockType, Processes
    <3>9. AtRole'
      <4>1. block'.todo # <<>> /\ block'.current = n /\ block'.candidate = block.candidate
        BY <2>2, <3>7
      <4>. QED BY <2>5, <3>2, <4>1 DEF AtRole
    <3>10. RecordType'
      BY <1>1, <2>1, <2>5, <3>1, <3>2 DEF RecordType, Processes
    <3>11. Ports'
      <4>7. block'.port <= started' + 1
        BY <1>1, <2>1, <2>5, <3>2, <3>5, <3>7 DEF Ports
      <4>1. ASSUME NEW k \in Processes, (Runs(k))', k # n
            PROVE  Runs(k) /\ process'[k] = process[k]
        BY <1>1, <3>4, <4>1 DEF ProcessType, Runs
      <4>2. process'[n].port = block.port
        BY <1>1, <3>2, <3>4 DEF ProcessType
      <4>3. block.port <= n
        BY <1>1, <2>1, <3>1 DEF Ports
      <4>4. \A k \in Processes : (Runs(k))' => k <= started' /\ process'[k].port <= k
        BY <1>1, <2>5, <3>1, <3>2, <4>1, <4>2, <4>3 DEF Ports, Processes
      <4>5. \A k \in Processes : (Runs(k))' /\ process'[k].port = block'.port =>
              process'[k].told \/ (block'.pc = "poll" /\ k = block'.current)
        BY <1>1, <2>1, <3>7, <4>1 DEF Ports
      <4>6. block'.pc = "poll"
        BY <3>7
      <4>. QED BY <4>4, <4>5, <4>6, <4>7 DEF Ports
    <3>. QED BY <2>2, <3>6, <3>8, <3>9, <3>10, <3>11 DEF ServicesInv
  <2>. QED BY <1>5, <2>3, <2>4, <2>5 DEF startService
<1>6. CASE PortAnswers
  <2>1. /\ UNCHANGED <<process, started, services, tests, taken, lost, cancelled, exited>>
        /\ block.pc = "poll" /\ NextRole /\ local' = [local EXCEPT ![Role] = block.current]
    BY <1>6 DEF PortAnswers
  <2>2. BlockShape' /\ BlockType' /\ block'.pc = "pick"
    BY <1>1, <2>1, BlockSteps DEF AtRole
  <2>3. ProcessType' /\ SwitchType' /\ LostType' /\ AtRole' /\ Ports'
    BY <1>1, <2>1, <2>2, NoneStarted, PortsKept DEF ProcessType, SwitchType, LostType, AtRole
  <2>4. RecordType'
    BY <1>1, <2>1 DEF RecordType, BlockType
  <2>. QED BY <2>2, <2>3, <2>4 DEF ServicesInv
<1>7. CASE NotReady
  <2>1. /\ UNCHANGED <<started, local, services, tests, taken, lost, cancelled, exited>>
        /\ block.pc = "poll" /\ NextCandidate /\ process' = stopService({block.current})
    BY <1>7 DEF NotReady, Failed
  <2>2. /\ BlockShape' /\ BlockType' /\ block'.pc = "ladder" /\ block'.todo = block.todo
        /\ block'.port = block.port
    BY <1>1, <2>1, BlockSteps DEF AtRole
  <2>3. /\ ProcessType'
        /\ \A k \in Processes :
             /\ process'[k].at = process[k].at /\ process'[k].port = process[k].port
             /\ process[k].told => process'[k].told
             /\ Runs(k) /\ k \in {block.current} => process'[k].told
    BY <1>1, <2>1, Stopping
  <2>4. RecordType' /\ SwitchType' /\ LostType' /\ AtRole'
    BY <1>1, <2>1, <2>2 DEF RecordType, SwitchType, LostType, AtRole
  <2>5. Ports'
    BY <1>1, <2>1, <2>2, <2>3 DEF Ports, Runs
  <2>. QED BY <2>2, <2>3, <2>4, <2>5 DEF ServicesInv
<1>8. CASE bringupTask
  <2>1. /\ UNCHANGED <<process, started, local, taken, lost, cancelled, exited>> /\ Step("test")
        /\ services' = local
        /\ tests' = [r \in Roles |-> IF local[r] # 0 /\ ~cancelled THEN "running" ELSE "none"]
    BY <1>8 DEF bringupTask
  <2>2. BlockShape' /\ BlockType' /\ block'.pc = "test"
    BY <1>1, <2>1, BlockSteps
  <2>3. ProcessType' /\ RecordType' /\ LostType' /\ AtRole' /\ Ports'
    BY <1>1, <2>1, <2>2, NoneStarted, PortsKept DEF ProcessType, RecordType, LostType, AtRole
  <2>4. SwitchType'
    BY <1>1, <2>1 DEF SwitchType
  <2>. QED BY <2>2, <2>3, <2>4 DEF ServicesInv
<1>9. CASE TestsEnd \/ \E r \in Roles : TestEnds(r)
  <2>1. UNCHANGED <<process, started, local, services, taken, lost, cancelled, exited>>
    BY <1>9 DEF TestsEnd, TestEnds
  <2>2. BlockShape' /\ BlockType' /\ block'.pc \in {"down", "test"}
    <3>1. CASE TestsEnd
      BY <1>1, <3>1, BlockSteps DEF TestsEnd
    <3>2. CASE \E r \in Roles : TestEnds(r)
      <4>1. block' = block /\ block.pc = "test"
        BY <3>2 DEF TestEnds
      <4>. QED BY <1>1, <4>1 DEF BlockShape, BlockType
    <3>. QED BY <1>9, <3>1, <3>2
  <2>3. ProcessType' /\ RecordType' /\ LostType' /\ AtRole' /\ Ports'
    BY <1>1, <2>1, <2>2, NoneStarted, PortsKept DEF ProcessType, RecordType, LostType, AtRole
  <2>4. SwitchType'
    BY <1>1, <1>9, <2>1 DEF SwitchType, TestsEnd, TestEnds
  <2>. QED BY <2>2, <2>3, <2>4 DEF ServicesInv
<1>10. CASE teardownNode
  <2>1. /\ UNCHANGED <<started, local, services, tests, taken, lost, cancelled, exited>>
        /\ block' = Resting /\ process' = stopService({services[r] : r \in Roles})
    BY <1>10 DEF teardownNode
  <2>2. BlockShape' /\ BlockType' /\ block'.pc = "off"
    BY <2>1, ServicesAssumption DEF Resting, BlockShape, BlockType
  <2>3. /\ ProcessType'
        /\ \A k \in Processes :
             /\ process'[k].at = process[k].at /\ process'[k].port = process[k].port
             /\ process[k].told => process'[k].told
    BY <1>1, <2>1, Stopping
  <2>4. SameProcesses
    BY <2>1, <2>3 DEF SameProcesses, Runs
  <2>5. RecordType' /\ SwitchType' /\ LostType' /\ AtRole' /\ Ports'
    BY <1>1, <2>1, <2>2, <2>4, PortsKept DEF RecordType, SwitchType, LostType, AtRole
  <2>. QED BY <2>2, <2>3, <2>5 DEF ServicesInv
<1>11. CASE Cancel \/ Exit
  <2>1. UNCHANGED <<block, process, started, local, services, tests, taken, lost>>
    BY <1>11 DEF Cancel, Exit
  <2>2. SwitchType'
    BY <1>1, <1>11 DEF SwitchType, Cancel, Exit
  <2>. QED BY <1>1, <2>1, <2>2 DEF ServicesInv, BlockShape, BlockType, ProcessType, RecordType, LostType,
                                   AtRole, Ports, Runs
<1>12. ASSUME NEW k \in Processes, Watchdog(k) \/ Serve(k) \/ ProcessEnds(k)
       PROVE  ServicesInv'
  <2>1. UNCHANGED <<block, started, local, services, tests, taken, lost, cancelled, exited>>
    BY <1>12 DEF Watchdog, Serve, ProcessEnds
  <2>2. BlockShape' /\ BlockType' /\ RecordType' /\ SwitchType' /\ LostType' /\ AtRole'
    BY <1>1, <2>1 DEF BlockShape, BlockType, RecordType, SwitchType, LostType, AtRole
  <2>3. PICK at \in {"serving", "gone"}, watched \in BOOLEAN :
          /\ process' = [process EXCEPT ![k] = [process[k] EXCEPT !.at = at, !.watched = watched]]
          /\ at = "serving" => process[k].at = "up"
    <3>1. CASE Watchdog(k)
      <4>1. PICK no \in BOOLEAN : no = FALSE
        OBVIOUS
      <4>2. process' = [process EXCEPT ![k] = [process[k] EXCEPT !.at = "gone", !.watched = no]]
        BY <1>1, <3>1, <4>1 DEF Watchdog, ProcessType
      <4>. QED BY <4>2
    <3>2. CASE Serve(k) \/ ProcessEnds(k)
      <4>1. process[k].watched \in BOOLEAN
        BY <1>1 DEF ProcessType
      <4>2. PICK old \in BOOLEAN : old = process[k].watched
        BY <4>1
      <4>3. ASSUME NEW to \in {"serving", "gone"}
            PROVE  [process[k] EXCEPT !.at = to] = [process[k] EXCEPT !.at = to, !.watched = old]
        BY <1>1, <4>2 DEF ProcessType
      <4>. QED BY <1>1, <3>2, <4>3 DEF Serve, ProcessEnds
    <3>. QED BY <1>12, <3>1, <3>2
  <2>4. ProcessType'
    <3>1. PICK R : R = [at : {"none", "up", "serving", "gone"}, told : BOOLEAN, watched : BOOLEAN,
                        port : 0..(MaxProcesses + 1)]
      OBVIOUS
    <3>2. process \in [Processes -> R] /\ process[k] \in R
      BY <1>1, <3>1 DEF ProcessType
    <3>3. [process[k] EXCEPT !.at = at, !.watched = watched] \in R
      BY ONLY at \in {"serving", "gone"}, watched \in BOOLEAN, <3>1, <3>2
    <3>4. process' \in [Processes -> R]
      BY ONLY <2>3, <3>2, <3>3
    <3>. QED BY ONLY <3>1, <3>4 DEF ProcessType
  <2>5. \A j \in Processes : /\ process'[j].port = process[j].port /\ process'[j].told = process[j].told
                             /\ (Runs(j))' => Runs(j)
    BY <1>1, <2>3 DEF ProcessType, Runs
  <2>6. SameProcesses
    BY <2>1, <2>5 DEF SameProcesses
  <2>7. Ports'
    BY <1>1, <2>1, <2>6, PortsKept
  <2>. QED BY <2>2, <2>4, <2>7 DEF ServicesInv
<1>. QED BY <1>2, <1>3, <1>4, <1>5, <1>6, <1>7, <1>8, <1>9, <1>10, <1>11, <1>12 DEF ServicesNext, BlockStep

LEMMA ServicesInvariant == ServicesSpec => []ServicesInv
BY ServicesInitial, NextServices, PTL DEF ServicesSpec

(* Type correctness of the test services.                                  *)
THEOREM ServicesTypeCorrect == ServicesSpec => []ServicesTypeOK
<1>1. ServicesInv => ServicesTypeOK
  BY DEF ServicesInv, BlockShape, BlockType, ProcessType, RecordType, SwitchType, LostType, ServicesTypeOK
<1>. QED BY <1>1, ServicesInvariant, PTL

(* A role is recorded as ready only because its own process answered, or   *)
(* one that had been told to end, or another program on its port           *)
(* (lifecycle.ts, tryStartService).                                        *)
THEOREM Ready == ServicesSpec => ReadyIsOwn
<1>1. ServicesInv /\ [ServicesNext]_servicesVars =>
        [\A r \in Roles : local'[r] \notin {0, local[r]} =>
           taken \/ \A k \in AnsweredBy : k = local'[r] \/ process[k].told]_servicesVars
  <2>. SUFFICES ASSUME ServicesInv, ServicesNext, NEW r \in Roles, local'[r] \notin {0, local[r]},
                       NEW k \in AnsweredBy, k # local'[r]
                PROVE  process[k].told
    OBVIOUS
  <2>1. local \in [Roles -> 0..MaxProcesses] /\ Ports
    BY DEF ServicesInv, RecordType
  <2>2. PortAnswers
    <3>1. ~resetIntegrationAttemptState
      BY DEF resetIntegrationAttemptState, Nothing
    <3>2. local' # local
      OBVIOUS
    <3>. QED BY <3>1, <3>2 DEF ServicesNext, BlockStep, pickFreePort, startService, NotReady, bringupTask, TestEnds,
                TestsEnd, teardownNode, Cancel, Exit, Watchdog, Serve, ProcessEnds
  <2>3. local'[r] = block.current
    BY <2>1, <2>2 DEF PortAnswers
  <2>4. Runs(k) /\ process[k].port = block.port /\ k \in Processes
    BY DEF AnsweredBy, Runs
  <2>. QED BY <2>1, <2>2, <2>3, <2>4 DEF Ports, PortAnswers
<1>. QED BY <1>1, ServicesInvariant, PTL DEF ServicesSpec, ReadyIsOwn
=============================================================================
