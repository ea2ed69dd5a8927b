------------------------- MODULE AgentCalls_proofs -------------------------
(***************************************************************************)
(* Proofs about AgentCalls for any number of reviewers, budget, cost cap,  *)
(* retries and paths.                                                      *)
(***************************************************************************)
EXTENDS AgentCalls, FiniteSetTheorems, TLAPS

(* What a call's program counter says about the rest of its state.         *)
CallShape(c) ==
  /\ ~InLane(c) => pc[c] = "queued"
  /\ pc[c] = "started" => lane = "verify"
  /\ pc[c] \in {"queued", "started"} => wrote[c] = {}
  /\ pc[c] # "done" => blamed[c] = {}
  /\ pc[c] = "done" <=> outcome[c] # "none"
  /\ pc[c] = "backoff" => tries[c] <= Retries
  /\ blamed[c] # {} => outcome[c] \in {"breach", "mute", "cancelled"}

(* What ended the pool or the step says about the calls.                   *)
StopShape == stopped => \E r \in Reviewers : outcome[r] = "cancelled"
JoinShape == result \in {"merged", "kept"} =>
               \A c \in Calls : InLane(c) => pc[c] = "done"
Shape == (\A c \in Calls : CallShape(c)) /\ StopShape /\ JoinShape

(* Edits in the tree are edits that were made, and no call starts on a     *)
(* tree that holds an edit of its own.                                     *)
Authorship ==
  \A c \in Calls, p \in Paths :
    /\ c \in content[p] => p \in wrote[c]
    /\ c \notin before[c][p]

(* An edit of a guarded read-only call is still in the tree while the call *)
(* runs, unless some call was failed for the path.                         *)
Reported(p) == \E c \in ReadOnly : p \in blamed[c]
Watched ==
  \A r \in ReadOnly \ blind, p \in Paths :
    p \in wrote[r] =>
      \/ Reported(p)
      \/ pc[r] \in {"running", "backoff"} /\ r \in content[p]

BoundaryInv == TypeOK /\ Shape /\ Authorship /\ Watched
               /\ MergedReviewIsClean /\ KeptWorkIsAttributed

LEMMA CallFacts ==
  /\ Reviewers \subseteq Calls /\ RedReview \in Calls /\ Implementer \in Calls
  /\ Implementer \notin ReadOnly /\ RedReview \notin Reviewers
  /\ ReadOnly \subseteq Calls /\ RedReview \in ReadOnly
  /\ Reviewers \subseteq ReadOnly /\ ReadOnly = Reviewers \cup {RedReview}
  /\ RedReview # Implementer /\ Calls \subseteq Authors
  /\ Earlier \in Authors /\ Earlier \notin Calls
  BY CallsAssumption DEF Reviewers, Calls, RedReview, Implementer, ReadOnly,
     Authors, Earlier

LEMMA InitBoundary == Init => BoundaryInv
<1> SUFFICES ASSUME Init PROVE BoundaryInv
  OBVIOUS
<1> USE CallsAssumption, CallFacts
<1>1. content \in [Paths -> SUBSET Authors]
      /\ before \in [Calls -> [Paths -> SUBSET Authors]]
  <2>1. content \in [Paths -> {{}, {Earlier}}] /\ {{}, {Earlier}} \subseteq SUBSET Authors
    BY DEF Init
  <2>2. Clean \in [Paths -> SUBSET Authors]
    BY DEF Clean
  <2> QED
    BY <2>1, <2>2 DEF Init
<1>2. TypeOK
  <2>1. 0 \in 0 .. Retries + 1
    OBVIOUS
  <2>2. tries \in [Calls -> 0 .. Retries + 1] /\ spent \in 0 .. MaxAgents
        /\ charged \in Nat
    BY <2>1 DEF Init
  <2>3. /\ wrote \in [Calls -> SUBSET Paths] /\ blamed \in [Calls -> SUBSET Paths]
        /\ claims \subseteq Paths /\ blind \subseteq ReadOnly
    BY DEF Init
  <2> QED
    BY <1>1, <2>2, <2>3 DEF Init, TypeOK
<1>6. Shape
  BY DEF Init, Shape, CallShape, StopShape, JoinShape
<1>3. Authorship
  BY DEF Init, Authorship, Clean
<1>4. Watched
  BY DEF Init, Watched
<1>5. MergedReviewIsClean /\ KeptWorkIsAttributed
  BY DEF Init, MergedReviewIsClean, KeptWorkIsAttributed
<1> QED
  BY <1>2, <1>3, <1>4, <1>5, <1>6 DEF BoundaryInv

----------------------------------------------------------------------------
(* Type correctness.                                                       *)

How == {"answer", "error", "thrown"}

LEMMA EndTypes ==
  ASSUME TypeOK, NEW c \in Calls,
         NEW how \in How \cup {"breach", "mute"}, End(c, how)
  PROVE  /\ pc' \in [Calls -> {"queued", "started", "running", "backoff", "done"}]
         /\ outcome' \in [Calls -> {"none", "answer", "error", "thrown",
                                    "breach", "mute", "failed", "cancelled"}]
         /\ tries' \in [Calls -> 0 .. Retries + 1]
         /\ before' \in [Calls -> [Paths -> SUBSET Authors]]
         /\ stopped' \in BOOLEAN
<1> USE CallsAssumption
<1>1. pc' \in [Calls -> {"queued", "started", "running", "backoff", "done"}]
  BY DEF TypeOK, End
<1>2. outcome' \in [Calls -> {"none", "answer", "error", "thrown", "breach",
                              "mute", "failed", "cancelled"}]
  BY DEF TypeOK, End, How
<1>3. tries' \in [Calls -> 0 .. Retries + 1]
  BY DEF TypeOK, End
<1>4. before' \in [Calls -> [Paths -> SUBSET Authors]] /\ stopped' \in BOOLEAN
  BY DEF TypeOK, End, Clean
<1> QED
  BY <1>1, <1>2, <1>3, <1>4

LEMMA SettleTypes ==
  ASSUME TypeOK, NEW c \in Calls, NEW how \in How, Settle(c, how)
  PROVE  /\ pc' \in [Calls -> {"queued", "started", "running", "backoff", "done"}]
         /\ outcome' \in [Calls -> {"none", "answer", "error", "thrown",
                                    "breach", "mute", "failed", "cancelled"}]
         /\ tries' \in [Calls -> 0 .. Retries + 1]
         /\ before' \in [Calls -> [Paths -> SUBSET Authors]]
         /\ stopped' \in BOOLEAN
         /\ content' \in [Paths -> SUBSET Authors]
         /\ blind' \subseteq ReadOnly
         /\ blamed' \in [Calls -> SUBSET Paths]
<1> USE CallsAssumption, CallFacts
<1>1. CASE Unguarded(c, how)
  <2>1. End(c, how)
    BY <1>1 DEF Unguarded
  <2>2. /\ content' \in [Paths -> SUBSET Authors] /\ blind' \subseteq ReadOnly
        /\ blamed' \in [Calls -> SUBSET Paths]
    BY <1>1 DEF Unguarded, TypeOK
  <2> QED
    BY <2>1, <2>2, EndTypes
<1>2. CASE Guarded(c, how)
  <2>1. PICK h \in How \cup {"breach", "mute"} : End(c, h)
    BY <1>2 DEF Guarded, How
  <2>2. content' \in [Paths -> SUBSET Authors] /\ blind' \subseteq ReadOnly
    BY <1>2 DEF Guarded, TypeOK, Reverted
  <2>3. blamed' \in [Calls -> SUBSET Paths]
    BY <1>2 DEF Guarded, TypeOK, Violations
  <2> QED
    BY <2>1, <2>2, <2>3, EndTypes
<1> QED
  BY <1>1, <1>2 DEF Settle

LEMMA TypeStep == TypeOK /\ Shape /\ [Next]_vars => TypeOK'
<1> SUFFICES ASSUME TypeOK, Shape, [Next]_vars PROVE TypeOK'
  OBVIOUS
<1> USE CallsAssumption, CallFacts
<1>1. ASSUME NEW r \in Reviewers, Cancel(r) \/ Skip(r) \/ Start(r) PROVE TypeOK'
  BY <1>1 DEF Cancel, Skip, Start, TypeOK, spendVars, boundaryVars
<1>2. ASSUME NEW c \in Calls, Refuse(c) PROVE TypeOK'
  <2>1. End(c, "error")
    BY <1>2 DEF Refuse
  <2>2. spent' \in 0 .. MaxAgents
    BY <1>2 DEF Refuse, TypeOK, BudgetLeft
  <2> QED
    BY <1>2, <2>1, <2>2, EndTypes DEF Refuse, TypeOK, How
<1>3. ASSUME NEW c \in Calls, Launch(c) PROVE TypeOK'
  <2>1. spent' \in 0 .. MaxAgents
    BY <1>3 DEF Launch, TypeOK, BudgetLeft
  <2>2. tries' \in [Calls -> 0 .. Retries + 1]
    BY <1>3 DEF Launch, TypeOK
  <2>3. before' \in [Calls -> [Paths -> SUBSET Authors]] /\ blind' \subseteq ReadOnly
    BY <1>3 DEF Launch, TypeOK
  <2> QED
    BY <1>3, <2>1, <2>2, <2>3 DEF Launch, TypeOK
<1>4. ASSUME NEW c \in Calls, NEW p \in Paths, Edit(c, p) PROVE TypeOK'
  BY <1>4 DEF Edit, TypeOK, callVars, spendVars, boundaryVars
<1>5. ASSUME NEW c \in Calls, Backoff(c) PROVE TypeOK'
  BY <1>5 DEF Backoff, TypeOK, spendVars, boundaryVars
<1>6. ASSUME NEW c \in Calls, Redispatch(c) PROVE TypeOK'
  <2>1. tries[c] <= Retries /\ tries[c] \in Nat
    BY <1>6 DEF Redispatch, Shape, CallShape, TypeOK
  <2>2. tries' \in [Calls -> 0 .. Retries + 1]
    BY <1>6, <2>1 DEF Redispatch, TypeOK
  <2> QED
    BY <1>6, <2>2 DEF Redispatch, TypeOK, boundaryVars
<1>7. ASSUME NEW c \in Calls, Answer(c) PROVE TypeOK'
  <2>1. Settle(c, "answer") /\ "answer" \in How
    BY <1>7 DEF Answer, How
  <2>2. charged' \in Nat /\ claims' \subseteq Paths
    BY <1>7 DEF Answer, TypeOK, Cost
  <2> QED
    BY <1>7, <2>1, <2>2, SettleTypes DEF Answer, TypeOK
<1>8. ASSUME NEW c \in Calls, Fail(c) PROVE TypeOK'
  <2>1. Settle(c, "error") /\ "error" \in How
    BY <1>8 DEF Fail, How
  <2>2. charged' \in Nat
    BY <1>8 DEF Fail, TypeOK, Cost
  <2> QED
    BY <1>8, <2>1, <2>2, SettleTypes DEF Fail, TypeOK
<1>9. ASSUME NEW c \in Calls, Throw(c) PROVE TypeOK'
  <2>1. Settle(c, "thrown") /\ "thrown" \in How
    BY <1>9 DEF Throw, How
  <2> QED
    BY <1>9, <2>1, SettleTypes DEF Throw, TypeOK
<1>10. ASSUME Merge \/ Leave \/ Accept PROVE TypeOK'
  BY <1>10 DEF Merge, Leave, Accept, TypeOK, callVars, spendVars, boundaryVars
<1>11. ASSUME Reject \/ KeepWork PROVE TypeOK'
  BY <1>11 DEF Reject, KeepWork, Reverted, TypeOK, callVars, spendVars
<1>12. ASSUME Abort \/ WallPasses \/ UNCHANGED vars PROVE TypeOK'
  BY <1>12 DEF Abort, WallPasses, vars, TypeOK, callVars, spendVars, boundaryVars
<1> QED
  BY <1>1, <1>2, <1>3, <1>4, <1>5, <1>6, <1>7, <1>8, <1>9, <1>10, <1>11, <1>12
     DEF Next, Pool, Engine, Agents, Joins

----------------------------------------------------------------------------
(* What the steps of a call do to the rest of the state.                   *)

Closes(c) == Answer(c) \/ Fail(c) \/ Throw(c)
Moves(c) == Refuse(c) \/ Launch(c) \/ Redispatch(c) \/ Backoff(c)
Pooled(r) == Cancel(r) \/ Skip(r) \/ Start(r)
Active(c) == AtCall(c) \/ pc[c] \in {"running", "backoff"}

(* A call that still acts is one of the lane, has not ended and has no     *)
(* blame, and its lane is not joined.                                      *)
LEMMA ActiveFacts ==
  ASSUME TypeOK, Shape, NEW c \in Calls, Active(c)
  PROVE  /\ InLane(c) /\ pc[c] # "done" /\ outcome[c] = "none"
         /\ blamed[c] = {} /\ result \notin {"merged", "kept"}
<1>1. CallShape(c)
  BY DEF Shape
<1>2. InLane(c)
  BY <1>1 DEF Active, AtCall, CallShape, InLane
<1>3. pc[c] # "done"
  BY DEF Active, AtCall
<1> QED
  BY <1>1, <1>2, <1>3 DEF CallShape, Shape, JoinShape

LEMMA SettleFacts ==
  ASSUME TypeOK, Shape, NEW c \in Calls, NEW how \in How, Settle(c, how),
         pc[c] \in {"running", "backoff"}, lane' = lane
  PROVE  /\ pc' = [pc EXCEPT ![c] = "done"]
         /\ outcome' = [outcome EXCEPT ![c] = outcome'[c]] /\ outcome'[c] # "none"
         /\ tries' = [tries EXCEPT ![c] = 0]
         /\ before' = [before EXCEPT ![c] = Clean]
         /\ blamed' = [blamed EXCEPT ![c] = blamed'[c]]
         /\ blamed'[c] # {} => outcome'[c] \in {"breach", "mute", "cancelled"}
         /\ stopped' => stopped \/ (c \in Reviewers /\ outcome'[c] = "cancelled")
         /\ blind \subseteq blind'
         /\ c \in ReadOnly => c \in blind' \/ blamed'[c] = Violations(c)
         /\ \A p \in Paths :
              \/ content'[p] = content[p]
              \/ content'[p] = {} /\ p \in blamed'[c] /\ c \in Reviewers
<1> USE CallsAssumption, CallFacts
<1>1. InLane(c) /\ blamed[c] = {}
  BY ActiveFacts DEF Active
<1>2. lane = "verify" => c \in Reviewers
  BY <1>1 DEF InLane
<1>3. CASE Unguarded(c, how)
  <2>1. End(c, how) /\ UNCHANGED <<content, blamed>>
        /\ blind' = IF c \in ReadOnly THEN blind \cup {c} ELSE blind
    BY <1>3 DEF Unguarded
  <2>2. /\ pc' = [pc EXCEPT ![c] = "done"]
        /\ tries' = [tries EXCEPT ![c] = 0]
        /\ before' = [before EXCEPT ![c] = Clean]
    BY <2>1 DEF End
  <2>3. outcome' = [outcome EXCEPT ![c] = outcome'[c]] /\ outcome'[c] # "none"
    BY <2>1 DEF End, TypeOK, How
  <2>4. stopped' => stopped \/ (c \in Reviewers /\ outcome'[c] = "cancelled")
    BY <2>1, <1>2 DEF End, TypeOK
  <2>5. blamed' = [blamed EXCEPT ![c] = blamed'[c]] /\ blamed'[c] = {}
    BY <2>1, <1>1 DEF TypeOK
  <2> QED
    BY <2>1, <2>2, <2>3, <2>4, <2>5
<1>4. CASE Guarded(c, how)
  <2> DEFINE h == IF Violations(c) = {} THEN how
                  ELSE IF how = "answer" THEN "breach" ELSE "mute"
  <2>1. End(c, h) /\ blamed' = [blamed EXCEPT ![c] = Violations(c)]
    BY <1>4 DEF Guarded
  <2>2. h \in How \cup {"breach", "mute"} /\ (Violations(c) # {} => h \in {"breach", "mute"})
    BY DEF How
  <2> HIDE DEF h
  <2>3. /\ pc' = [pc EXCEPT ![c] = "done"]
        /\ tries' = [tries EXCEPT ![c] = 0]
        /\ before' = [before EXCEPT ![c] = Clean]
    BY <2>1 DEF End
  <2>4. outcome' = [outcome EXCEPT ![c] = outcome'[c]] /\ outcome'[c] \in {h, "cancelled"}
    BY <2>1 DEF End, TypeOK
  <2>5. stopped' => stopped \/ (c \in Reviewers /\ outcome'[c] = "cancelled")
    BY <2>1, <1>2 DEF End, TypeOK
  <2>6. blamed' = [blamed EXCEPT ![c] = blamed'[c]] /\ blamed'[c] = Violations(c)
    BY <2>1 DEF TypeOK
  <2>7. blind \subseteq blind'
    BY <1>4 DEF Guarded
  <2>8. ASSUME NEW p \in Paths
        PROVE  \/ content'[p] = content[p]
               \/ content'[p] = {} /\ p \in Violations(c) /\ c \in Reviewers
    <3>1. CASE ConcurrentWriter(c)
      BY <1>4, <3>1 DEF Guarded
    <3>2. CASE ~ConcurrentWriter(c)
      <4>1. c \in Reviewers
        BY <1>4, <3>2 DEF Guarded, ConcurrentWriter
      <4>2. PICK stuck : content' = Reverted(content, Restorable(c) \ stuck)
        BY <1>4, <3>2 DEF Guarded
      <4> QED
        BY <4>1, <4>2 DEF Reverted, Restorable
    <3> QED
      BY <3>1, <3>2
  <2> QED
    BY <2>2, <2>3, <2>4, <2>5, <2>6, <2>7, <2>8 DEF How
<1> QED
  BY <1>3, <1>4 DEF Settle

(* The end of a call after its last attempt.                               *)
LEMMA CloseFacts ==
  ASSUME TypeOK, Shape, NEW c \in Calls, Closes(c)
  PROVE  /\ UNCHANGED <<lane, result, wrote>>
         /\ Active(c) /\ pc[c] \in {"running", "backoff"}
         /\ c # Implementer => claims' = claims
         /\ \E how \in How : Settle(c, how)
<1>1. CASE Answer(c)
  BY <1>1 DEF Answer, Active, How
<1>2. CASE Fail(c)
  BY <1>2 DEF Fail, Active, How
<1>3. CASE Throw(c)
  BY <1>3 DEF Throw, Active, How
<1> QED
  BY <1>1, <1>2, <1>3 DEF Closes

(* A call that is launched, refused, delayed or retried.                   *)
LEMMA MoveFacts ==
  ASSUME TypeOK, Shape, NEW c \in Calls, Moves(c)
  PROVE  /\ UNCHANGED <<lane, result, content, wrote, blamed, claims>>
         /\ Active(c) /\ blind \subseteq blind'
         /\ pc' = [pc EXCEPT ![c] = pc'[c]]
         /\ outcome' = [outcome EXCEPT ![c] = outcome'[c]]
         /\ pc'[c] \in {"running", "backoff", "done"}
         /\ pc'[c] = "done" => pc[c] \in {"queued", "started"}
         /\ pc'[c] = "done" <=> outcome'[c] # "none"
         /\ \A d \in Calls : d # c => before'[d] = before[d] /\ tries'[d] = tries[d]
         /\ pc'[c] = "backoff" => tries'[c] <= Retries
         /\ before'[c] \in {before[c], content, Clean}
         /\ before'[c] = content => wrote[c] = {} \/ before'[c] = before[c]
         /\ stopped' => stopped \/ (c \in Reviewers /\ outcome'[c] = "cancelled")
<1> USE CallsAssumption, CallFacts
<1>0. Active(c) /\ CallShape(c)
  BY DEF Moves, Active, Refuse, Launch, Redispatch, Backoff, Shape
<1>1. InLane(c) /\ outcome[c] = "none"
  BY <1>0, ActiveFacts
<1>2. CASE Refuse(c)
  <2>1. End(c, "error") /\ AtCall(c)
        /\ UNCHANGED <<lane, result, content, blind, blamed, wrote, claims>>
    BY <1>2 DEF Refuse
  <2>2. pc[c] \in {"queued", "started"}
    BY <2>1 DEF AtCall
  <2>3. wrote[c] = {} /\ (lane = "verify" => c \in Reviewers)
    BY <1>0, <1>1, <2>2 DEF CallShape, InLane
  <2>4. pc' = [pc EXCEPT ![c] = pc'[c]] /\ pc'[c] = "done"
    BY <2>1 DEF End, TypeOK
  <2>5. outcome' = [outcome EXCEPT ![c] = outcome'[c]] /\ outcome'[c] # "none"
        /\ (stopped' => stopped \/ (c \in Reviewers /\ outcome'[c] = "cancelled"))
    BY <2>1, <2>3 DEF End, TypeOK
  <2>6. /\ \A d \in Calls : d # c => before'[d] = before[d] /\ tries'[d] = tries[d]
        /\ before'[c] = Clean
    BY <2>1 DEF End, TypeOK
  <2> QED
    BY <1>0, <2>1, <2>2, <2>3, <2>4, <2>5, <2>6
<1>3. CASE Launch(c)
  <2>1. AtCall(c) /\ blind \subseteq blind' /\ outcome' = outcome /\ stopped' = stopped
        /\ UNCHANGED <<lane, result, content, blamed, wrote, claims>>
    BY <1>3 DEF Launch
  <2>2. wrote[c] = {}
    BY <1>0, <2>1 DEF CallShape, AtCall
  <2>3. /\ pc' = [pc EXCEPT ![c] = pc'[c]] /\ pc'[c] = "running"
        /\ \A d \in Calls : d # c => before'[d] = before[d] /\ tries'[d] = tries[d]
        /\ before'[c] = content
    BY <1>3 DEF Launch, TypeOK
  <2>4. outcome' = [outcome EXCEPT ![c] = outcome'[c]] /\ outcome'[c] = "none"
    BY <2>1, <1>1 DEF TypeOK
  <2> QED
    BY <1>0, <2>1, <2>2, <2>3, <2>4
<1>4. CASE Redispatch(c)
  <2>1. /\ pc' = [pc EXCEPT ![c] = pc'[c]] /\ pc'[c] = "running"
        /\ \A d \in Calls : d # c => before'[d] = before[d] /\ tries'[d] = tries[d]
        /\ before' = before /\ blind' = blind /\ stopped' = stopped
        /\ UNCHANGED <<lane, result, content, blamed, wrote, claims>>
    BY <1>4 DEF Redispatch, TypeOK, boundaryVars
  <2>2. outcome' = [outcome EXCEPT ![c] = outcome'[c]] /\ outcome'[c] = "none"
    BY <1>4, <1>1 DEF Redispatch, TypeOK
  <2> QED
    BY <1>0, <2>1, <2>2
<1>5. CASE Backoff(c)
  <2>1. /\ pc' = [pc EXCEPT ![c] = pc'[c]] /\ pc'[c] = "backoff"
        /\ tries' = tries /\ tries[c] <= Retries
        /\ before' = before /\ blind' = blind /\ stopped' = stopped
        /\ UNCHANGED <<lane, result, content, blamed, wrote, claims>>
    BY <1>5 DEF Backoff, TypeOK, boundaryVars
  <2>2. outcome' = [outcome EXCEPT ![c] = outcome'[c]] /\ outcome'[c] = "none"
    BY <1>5, <1>1 DEF Backoff, TypeOK
  <2> QED
    BY <1>0, <2>1, <2>2
<1> QED
  BY <1>2, <1>3, <1>4, <1>5 DEF Moves

(* A branch that is taken from the queue.                                  *)
LEMMA PoolFacts ==
  ASSUME TypeOK, Shape, NEW c \in Reviewers, Pooled(c)
  PROVE  /\ UNCHANGED <<lane, result, content, wrote, blamed, claims, blind,
                         before, tries>>
         /\ lane = "verify" /\ pc[c] = "queued"
         /\ pc' = [pc EXCEPT ![c] = pc'[c]]
         /\ outcome' = [outcome EXCEPT ![c] = outcome'[c]]
         /\ pc'[c] \in {"started", "done"}
         /\ pc'[c] = "done" <=> outcome'[c] # "none"
         /\ stopped' => stopped \/ outcome'[c] = "cancelled"
<1> USE CallFacts
<1>1. c \in Calls /\ CallShape(c)
  BY DEF Shape
<1>2. lane = "verify" /\ pc[c] = "queued" /\ outcome[c] = "none"
  BY <1>1 DEF Pooled, Cancel, Skip, Start, MayDequeue, CallShape
<1>3. CASE Cancel(c) \/ Skip(c)
  BY <1>1, <1>2, <1>3 DEF Cancel, Skip, TypeOK, boundaryVars
<1>4. CASE Start(c)
  BY <1>1, <1>2, <1>4 DEF Start, TypeOK, boundaryVars
<1> QED
  BY <1>3, <1>4 DEF Pooled

(* A join only reverts paths and closes the lane.                          *)
Closing == Merge \/ Leave \/ Accept \/ Reject \/ KeepWork

LEMMA JoinFacts ==
  ASSUME TypeOK, Closing
  PROVE  /\ UNCHANGED <<lane, pc, outcome, tries, stopped, before, blamed,
                         wrote, claims>>
         /\ blind \subseteq blind' /\ result = "open"
         /\ \A p \in Paths : content'[p] \in {content[p], {}}
         /\ content' # content => pc[RedReview] = "done" /\ lane = "red"
         /\ content' # content /\ result' # "rejected" =>
              result' = "kept" /\ \A p \in Paths : content'[p] # content[p] => p \in Unclaimed
         /\ result' = "merged" => Merge
         /\ result' = "kept" => KeepWork
<1>1. CASE Merge
  BY <1>1 DEF Merge, callVars, boundaryVars, TypeOK
<1>2. CASE Leave
  BY <1>2 DEF Leave, callVars, boundaryVars, TypeOK
<1>3. CASE Accept
  BY <1>3 DEF Accept, AtJoin, callVars, boundaryVars, TypeOK
<1>4. CASE Reject
  <2>1. PICK stuck : content' = Reverted(content, Paths \ (TestFiles \cup stuck))
    BY <1>4 DEF Reject
  <2>2. \A p \in Paths : content'[p] \in {content[p], {}}
    BY <2>1 DEF Reverted
  <2> QED
    BY <1>4, <2>2 DEF Reject, AtJoin, Ended, callVars
<1>5. CASE KeepWork
  <2>1. PICK stuck : content' = Reverted(content, Unclaimed \ stuck)
    BY <1>5 DEF KeepWork
  <2>2. \A p \in Paths : content'[p] \in {content[p], {}}
                        /\ (content'[p] # content[p] => p \in Unclaimed)
    BY <2>1 DEF Reverted
  <2> QED
    BY <1>5, <2>2 DEF KeepWork, AtJoin, Ended, callVars
<1> QED
  BY <1>1, <1>2, <1>3, <1>4, <1>5 DEF Closing

(* The rest changes nothing the invariant is about.                        *)
Rest == Abort \/ WallPasses \/ UNCHANGED vars

LEMMA RestFacts ==
  ASSUME Rest
  PROVE  UNCHANGED <<lane, callVars, stopped, result, content, boundaryVars,
                     wrote, claims>>
  BY DEF Rest, Abort, WallPasses, vars, callVars, boundaryVars

LEMMA NextCases ==
  ASSUME [Next]_vars
  PROVE  \/ \E r \in Reviewers : Pooled(r)
         \/ \E c \in Calls : Moves(c) \/ Closes(c)
         \/ \E c \in Calls, p \in Paths : Edit(c, p)
         \/ Closing \/ Rest
  BY DEF Next, Pool, Engine, Agents, Joins, Pooled, Moves, Closes, Closing, Rest

----------------------------------------------------------------------------
(* The parts of the inductive invariant, action by action.                 *)

LEMMA CallShapeStep ==
  TypeOK /\ Shape /\ [Next]_vars => \A d \in Calls : CallShape(d)'
<1> SUFFICES ASSUME TypeOK, Shape, [Next]_vars, NEW d \in Calls
             PROVE CallShape(d)'
  OBVIOUS
<1> USE CallFacts
<1>0. CallShape(d)
  BY DEF Shape
<1>1. ASSUME NEW r \in Reviewers, Pooled(r) PROVE CallShape(d)'
  <2>1. CASE d = r
    BY <1>0, <1>1, <2>1, PoolFacts DEF CallShape, InLane, TypeOK
  <2>2. CASE d # r
    BY <1>0, <1>1, <2>2, PoolFacts DEF CallShape, InLane, TypeOK
  <2> QED
    BY <2>1, <2>2
<1>2. ASSUME NEW c \in Calls, Moves(c) PROVE CallShape(d)'
  <2>1. CASE d = c
    <3>1. InLane(c) /\ blamed[c] = {}
      BY <1>2, MoveFacts, ActiveFacts
    <3> QED
      BY <1>0, <1>2, <2>1, <3>1, MoveFacts DEF CallShape, InLane, TypeOK
  <2>2. CASE d # c
    BY <1>0, <1>2, <2>2, MoveFacts DEF CallShape, InLane, TypeOK
  <2> QED
    BY <2>1, <2>2
<1>3. ASSUME NEW c \in Calls, Closes(c) PROVE CallShape(d)'
  <2>1. Active(c) /\ pc[c] \in {"running", "backoff"} /\ UNCHANGED <<lane, wrote>>
    BY <1>3, CloseFacts
  <2>2. PICK how \in How : Settle(c, how)
    BY <1>3, CloseFacts
  <2>3. InLane(c)
    BY <2>1, ActiveFacts
  <2>4. CASE d = c
    BY <1>0, <2>1, <2>2, <2>3, <2>4, SettleFacts DEF CallShape, InLane, TypeOK
  <2>5. CASE d # c
    <3>1. /\ pc'[d] = pc[d] /\ outcome'[d] = outcome[d]
          /\ tries'[d] = tries[d] /\ blamed'[d] = blamed[d]
      BY <2>1, <2>2, <2>5, SettleFacts DEF TypeOK
    <3> QED
      BY <1>0, <2>1, <3>1 DEF CallShape, InLane
  <2> QED
    BY <2>4, <2>5
<1>4. ASSUME NEW c \in Calls, NEW p \in Paths, Edit(c, p) PROVE CallShape(d)'
  <2>1. UNCHANGED <<lane, pc, outcome, tries, blamed>> /\ pc[c] = "running"
        /\ \A x \in Calls : x # c => wrote'[x] = wrote[x]
    BY <1>4 DEF Edit, callVars, boundaryVars, TypeOK
  <2> QED
    BY <1>0, <2>1 DEF CallShape, InLane
<1>5. CASE Closing
  BY <1>0, <1>5, JoinFacts DEF CallShape, InLane
<1>6. CASE Rest
  BY <1>0, <1>6, RestFacts DEF CallShape, InLane, callVars, boundaryVars
<1> QED
  BY <1>1, <1>2, <1>3, <1>4, <1>5, <1>6, NextCases

LEMMA ShapeStep == TypeOK /\ Shape /\ [Next]_vars => Shape'
<1> SUFFICES ASSUME TypeOK, Shape, [Next]_vars PROVE StopShape' /\ JoinShape'
  BY CallShapeStep DEF Shape
<1> USE CallFacts
<1>0. StopShape /\ JoinShape
  BY DEF Shape
<1>1. ASSUME NEW r \in Reviewers, Pooled(r) PROVE StopShape' /\ JoinShape'
  <2>1. result \notin {"merged", "kept"}
    BY <1>1, <1>0, PoolFacts DEF JoinShape, InLane
  <2>2. outcome[r] = "none"
    BY <1>1, PoolFacts DEF Shape, CallShape
  <2>3. StopShape'
    BY <1>0, <1>1, <2>2, PoolFacts DEF StopShape, TypeOK
  <2> QED
    BY <1>1, <2>1, <2>3, PoolFacts DEF JoinShape
<1>2. ASSUME NEW c \in Calls, Moves(c) PROVE StopShape' /\ JoinShape'
  <2>1. result' \notin {"merged", "kept"} /\ outcome[c] = "none"
    BY <1>2, MoveFacts, ActiveFacts
  <2>2. StopShape'
    BY <1>0, <1>2, <2>1, MoveFacts DEF StopShape, TypeOK
  <2> QED
    BY <2>1, <2>2 DEF JoinShape
<1>3. ASSUME NEW c \in Calls, Closes(c) PROVE StopShape' /\ JoinShape'
  <2>1. result' \notin {"merged", "kept"} /\ outcome[c] = "none" /\ lane' = lane
        /\ pc[c] \in {"running", "backoff"}
    BY <1>3, CloseFacts, ActiveFacts
  <2>2. PICK how \in How : Settle(c, how)
    BY <1>3, CloseFacts
  <2>3. StopShape'
    BY <1>0, <2>1, <2>2, SettleFacts DEF StopShape, TypeOK
  <2> QED
    BY <2>1, <2>3 DEF JoinShape
<1>4. ASSUME NEW c \in Calls, NEW p \in Paths, Edit(c, p)
      PROVE StopShape' /\ JoinShape'
  BY <1>0, <1>4 DEF Edit, callVars, StopShape, JoinShape, InLane
<1>5. CASE Closing
  <2>1. StopShape'
    BY <1>0, <1>5, JoinFacts DEF StopShape
  <2>2. CASE result' = "merged"
    <3>1. Merge
      BY <1>5, <2>2, JoinFacts
    <3>2. ~Some({"cancelled"})
      BY <2>2, <3>1 DEF Merge
    <3>3. ~stopped
      BY <1>0, <3>2 DEF StopShape, Some
    <3>4. lane' = "verify" /\ \A c \in Reviewers : pc'[c] = "done"
      BY <3>1, <3>3 DEF Merge, Ended, callVars
    <3> QED
      BY <2>1, <3>4 DEF JoinShape, InLane
  <2>3. CASE result' = "kept"
    <3>1. KeepWork
      BY <1>5, <2>3, JoinFacts
    <3>2. lane' = "red" /\ pc'[RedReview] = "done" /\ pc'[Implementer] = "done"
      BY <3>1 DEF KeepWork, AtJoin, Ended, callVars
    <3> QED
      BY <2>1, <3>2 DEF JoinShape, InLane
  <2> QED
    BY <2>1, <2>2, <2>3 DEF JoinShape
<1>6. CASE Rest
  BY <1>0, <1>6, RestFacts DEF StopShape, JoinShape, InLane, callVars
<1> QED
  BY <1>1, <1>2, <1>3, <1>4, <1>5, <1>6, NextCases

LEMMA AuthorshipStep == TypeOK /\ Shape /\ Authorship /\ [Next]_vars => Authorship'
<1> SUFFICES ASSUME TypeOK, Shape, Authorship, [Next]_vars,
                    NEW d \in Calls, NEW q \in Paths
             PROVE  /\ d \in content'[q] => q \in wrote'[d]
                    /\ d \notin before'[d][q]
  BY DEF Authorship
<1> DEFINE Goal == /\ d \in content'[q] => q \in wrote'[d]
                   /\ d \notin before'[d][q]
<1> USE CallFacts
<1>0. (d \in content[q] => q \in wrote[d]) /\ d \notin before[d][q]
  BY DEF Authorship
<1>1. ASSUME NEW r \in Reviewers, Pooled(r) PROVE Goal
  BY <1>0, <1>1, PoolFacts
<1>2. ASSUME NEW c \in Calls, Moves(c) PROVE Goal
  <2>1. content' = content /\ wrote' = wrote
    BY <1>2, MoveFacts
  <2>2. CASE d = c
    <3>1. CASE before'[c] \in {before[c], Clean}
      BY <1>0, <2>1, <2>2, <3>1 DEF Clean
    <3>2. CASE before'[c] = content
      <4>1. wrote[c] = {} \/ before'[c] = before[c]
        BY <1>2, <3>2, MoveFacts
      <4> QED
        BY <1>0, <2>1, <2>2, <3>2, <4>1
    <3> QED
      BY <1>2, <3>1, <3>2, MoveFacts
  <2>3. CASE d # c
    BY <1>0, <1>2, <2>1, <2>3, MoveFacts
  <2> QED
    BY <2>2, <2>3
<1>3. ASSUME NEW c \in Calls, Closes(c) PROVE Goal
  <2>1. wrote' = wrote /\ pc[c] \in {"running", "backoff"} /\ lane' = lane
    BY <1>3, CloseFacts
  <2>2. PICK how \in How : Settle(c, how)
    BY <1>3, CloseFacts
  <2>3. content'[q] \in {content[q], {}} /\ before' = [before EXCEPT ![c] = Clean]
    BY <2>1, <2>2, SettleFacts
  <2>4. d \notin before'[d][q]
    BY <1>0, <2>3 DEF TypeOK, Clean
  <2> QED
    BY <1>0, <2>1, <2>3, <2>4
<1>4. ASSUME NEW c \in Calls, NEW p \in Paths, Edit(c, p) PROVE Goal
  BY <1>0, <1>4 DEF Edit, boundaryVars, TypeOK
<1>5. CASE Closing
  BY <1>0, <1>5, JoinFacts
<1>6. CASE Rest
  BY <1>0, <1>6, RestFacts DEF boundaryVars
<1> QED
  BY <1>1, <1>2, <1>3, <1>4, <1>5, <1>6, NextCases

(* A blame is never taken back.                                            *)
LEMMA BlameStays ==
  ASSUME TypeOK, Shape, NEW c \in Calls, Closes(c), NEW p \in Paths, Reported(p)
  PROVE  Reported(p)'
<1> USE CallFacts
<1>1. PICK d \in ReadOnly : p \in blamed[d]
  BY DEF Reported
<1>2. pc[c] \in {"running", "backoff"} /\ lane' = lane /\ blamed[c] = {}
  BY CloseFacts, ActiveFacts
<1>3. PICK how \in How : Settle(c, how)
  BY CloseFacts
<1>4. blamed' = [blamed EXCEPT ![c] = blamed'[c]]
  BY <1>2, <1>3, SettleFacts
<1>5. d # c
  BY <1>1, <1>2
<1>6. p \in blamed'[d]
  BY <1>1, <1>4, <1>5 DEF TypeOK
<1> QED
  BY <1>6 DEF Reported

LEMMA WatchedStep ==
  TypeOK /\ Shape /\ Authorship /\ Watched /\ [Next]_vars => Watched'
<1> SUFFICES ASSUME TypeOK, Shape, Authorship, Watched, [Next]_vars,
                    NEW r \in ReadOnly, r \notin blind', NEW q \in Paths,
                    q \in wrote'[r]
             PROVE  \/ Reported(q)'
                    \/ pc'[r] \in {"running", "backoff"} /\ r \in content'[q]
  BY DEF Watched
<1> DEFINE Goal == \/ Reported(q)'
                   \/ pc'[r] \in {"running", "backoff"} /\ r \in content'[q]
<1> USE CallFacts
<1>1. ASSUME NEW d \in Reviewers, Pooled(d) PROVE Goal
  <2>1. /\ UNCHANGED <<content, wrote, blamed, blind>>
        /\ pc' = [pc EXCEPT ![d] = pc'[d]] /\ pc[d] = "queued"
    BY <1>1, PoolFacts
  <2>2. Reported(q) \/ (pc[r] \in {"running", "backoff"} /\ r \in content[q])
    BY <2>1 DEF Watched
  <2>3. CASE Reported(q)
    BY <2>1, <2>3 DEF Reported
  <2>4. CASE pc[r] \in {"running", "backoff"} /\ r \in content[q]
    <3>1. pc'[r] = pc[r]
      BY <2>1, <2>4 DEF TypeOK
    <3> QED
      BY <2>1, <2>4, <3>1
  <2> QED
    BY <2>2, <2>3, <2>4
<1>2. ASSUME NEW c \in Calls, Moves(c) PROVE Goal
  <2>1. UNCHANGED <<content, wrote, blamed>> /\ blind \subseteq blind'
        /\ pc' = [pc EXCEPT ![c] = pc'[c]]
    BY <1>2, MoveFacts
  <2>2. Reported(q) \/ (pc[r] \in {"running", "backoff"} /\ r \in content[q])
    BY <2>1 DEF Watched
  <2>3. CASE r = c
    <3>1. wrote[c] = {} \/ pc[c] \notin {"queued", "started"}
      BY DEF Shape, CallShape
    <3>2. pc'[c] \in {"running", "backoff"}
      BY <1>2, <2>1, <2>3, <3>1, MoveFacts
    <3> QED
      BY <2>1, <2>2, <2>3, <3>2 DEF Reported
  <2>4. CASE r # c
    BY <2>1, <2>2, <2>4 DEF Reported, TypeOK
  <2> QED
    BY <2>3, <2>4
<1>3. ASSUME NEW c \in Calls, Closes(c) PROVE Goal
  <2>1. wrote' = wrote /\ pc[c] \in {"running", "backoff"} /\ lane' = lane
    BY <1>3, CloseFacts
  <2>2. PICK how \in How : Settle(c, how)
    BY <1>3, CloseFacts
  <2>3. Reported(q) \/ (pc[r] \in {"running", "backoff"} /\ r \in content[q])
    BY <2>1, <2>2, SettleFacts DEF Watched
  <2>4. CASE Reported(q)
    BY <1>3, <2>4, BlameStays
  <2>5. CASE r \in content[q] /\ r = c
    <3>1. q \in Violations(c)
      BY <2>5 DEF Authorship, Violations
    <3>2. blamed'[c] = Violations(c)
      BY <2>1, <2>2, <2>5, SettleFacts
    <3> QED
      BY <2>5, <3>1, <3>2 DEF Reported
  <2>6. CASE r \in content[q] /\ r # c /\ pc[r] \in {"running", "backoff"}
    <3>1. pc'[r] = pc[r]
      BY <2>1, <2>2, <2>6, SettleFacts DEF TypeOK
    <3>2. content'[q] = content[q] \/ (q \in blamed'[c] /\ c \in ReadOnly)
      BY <2>1, <2>2, SettleFacts
    <3> QED
      BY <2>6, <3>1, <3>2 DEF Reported
  <2> QED
    BY <2>3, <2>4, <2>5, <2>6
<1>4. ASSUME NEW c \in Calls, NEW p \in Paths, Edit(c, p) PROVE Goal
  <2>1. UNCHANGED <<pc, blind, blamed>> /\ pc[c] = "running"
        /\ content' = [content EXCEPT ![p] = @ \cup {c}]
        /\ wrote' = [wrote EXCEPT ![c] = @ \cup {p}]
    BY <1>4 DEF Edit, callVars, boundaryVars
  <2>2. CASE r = c /\ q = p
    BY <2>1, <2>2 DEF TypeOK
  <2>3. CASE ~(r = c /\ q = p)
    <3>1. q \in wrote[r] /\ (r \in content[q] => r \in content'[q])
      BY <2>1, <2>3 DEF TypeOK
    <3> QED
      BY <2>1, <3>1 DEF Watched, Reported
  <2> QED
    BY <2>2, <2>3
<1>5. CASE Closing
  <2>1. UNCHANGED <<lane, pc, blamed, wrote>> /\ blind \subseteq blind'
        /\ (content' # content => pc[RedReview] = "done" /\ lane = "red")
    BY <1>5, JoinFacts
  <2>2. Reported(q) \/ (pc[r] \in {"running", "backoff"} /\ r \in content[q])
    BY <2>1 DEF Watched
  <2>3. CASE content' = content
    BY <2>1, <2>2, <2>3 DEF Reported
  <2>4. CASE content' # content
    <3>1. r # RedReview => pc[r] = "queued"
      BY <2>1, <2>4 DEF Shape, CallShape, InLane
    <3> QED
      BY <2>1, <2>2, <2>4, <3>1 DEF Reported
  <2> QED
    BY <2>3, <2>4
<1>6. CASE Rest
  BY <1>6, RestFacts DEF Watched, Reported, callVars, boundaryVars
<1> QED
  BY <1>1, <1>2, <1>3, <1>4, <1>5, <1>6, NextCases

(* A blamed path has a call that ended with a violation, in its own lane.  *)
LEMMA BlameInLane ==
  ASSUME TypeOK, Shape, NEW p \in Paths, Reported(p)
  PROVE  \E c \in ReadOnly : /\ p \in blamed[c] /\ InLane(c)
                             /\ outcome[c] \in {"breach", "mute", "cancelled"}
<1>1. PICK c \in ReadOnly : p \in blamed[c]
  BY DEF Reported
<1>2. CallShape(c)
  BY CallFacts DEF Shape
<1>3. pc[c] = "done"
  BY <1>1, <1>2 DEF CallShape
<1> QED
  BY <1>1, <1>2, <1>3 DEF CallShape

LEMMA MergedStep ==
  TypeOK /\ Shape /\ Watched /\ MergedReviewIsClean /\ [Next]_vars
    => MergedReviewIsClean'
<1> SUFFICES ASSUME TypeOK, Shape, Watched, MergedReviewIsClean, [Next]_vars,
                    result' = "merged", NEW r \in Reviewers
             PROVE  /\ pc'[r] = "done" /\ outcome'[r] \in {"answer", "error"}
                    /\ r \notin blind' => wrote'[r] = {}
  BY DEF MergedReviewIsClean
<1> DEFINE Goal == /\ pc'[r] = "done" /\ outcome'[r] \in {"answer", "error"}
                   /\ r \notin blind' => wrote'[r] = {}
<1> USE CallFacts
<1>1. ASSUME NEW d \in Reviewers, Pooled(d) PROVE Goal
  BY <1>1, PoolFacts DEF MergedReviewIsClean
<1>2. ASSUME NEW c \in Calls, Moves(c) PROVE FALSE
  BY <1>2, MoveFacts, ActiveFacts
<1>3. ASSUME NEW c \in Calls, Closes(c) PROVE FALSE
  BY <1>3, CloseFacts, ActiveFacts
<1>4. ASSUME NEW c \in Calls, NEW p \in Paths, Edit(c, p) PROVE FALSE
  BY <1>4, ActiveFacts DEF Edit, Active
<1>5. CASE Closing
  <2>1. Merge /\ UNCHANGED <<lane, pc, outcome, wrote>> /\ blind \subseteq blind'
    BY <1>5, JoinFacts
  <2>2. lane = "verify" /\ ~Some({"cancelled"}) /\ ~BranchFailed
    BY <2>1 DEF Merge
  <2>3. \A d \in Reviewers : outcome[d] \notin {"cancelled", "failed", "breach",
                                                "mute", "thrown"}
    BY <2>2 DEF Some, BranchFailed
  <2>4. ~stopped
    BY <2>2 DEF Shape, StopShape, Some
  <2>5. \A d \in Reviewers : pc[d] = "done"
    BY <2>1, <2>4 DEF Merge, Ended
  <2>6. outcome[r] \in {"answer", "error"}
    BY <2>3, <2>5 DEF Shape, CallShape, TypeOK
  <2>7. ASSUME r \notin blind, NEW p \in wrote[r] PROVE FALSE
    <3>1. p \in Paths /\ Reported(p)
      BY <2>5, <2>7 DEF Watched, TypeOK
    <3>2. PICK c \in ReadOnly : InLane(c) /\ outcome[c] \in {"breach", "mute", "cancelled"}
      BY <3>1, BlameInLane
    <3> QED
      BY <2>2, <2>3, <3>2 DEF InLane
  <2> QED
    BY <2>1, <2>5, <2>6, <2>7
<1>6. CASE Rest
  BY <1>6, RestFacts DEF MergedReviewIsClean, callVars, boundaryVars
<1> QED
  BY <1>1, <1>2, <1>3, <1>4, <1>5, <1>6, NextCases

LEMMA KeptStep ==
  TypeOK /\ Shape /\ Authorship /\ Watched /\ KeptWorkIsAttributed /\ [Next]_vars
    => KeptWorkIsAttributed'
<1> SUFFICES ASSUME TypeOK, Shape, Authorship, Watched, KeptWorkIsAttributed,
                    [Next]_vars, result' = "kept", claims' # {},
                    RedReview \notin blind', NEW p \in Tracked, p \notin claims',
                    p \notin TestFiles
             PROVE  RedReview \notin content'[p]
  BY DEF KeptWorkIsAttributed
<1> USE CallFacts
<1>0. p \in Paths
  BY CallsAssumption
<1>1. ASSUME NEW d \in Reviewers, Pooled(d) PROVE RedReview \notin content'[p]
  BY <1>1, PoolFacts DEF KeptWorkIsAttributed
<1>2. ASSUME NEW c \in Calls, Moves(c) PROVE FALSE
  BY <1>2, MoveFacts, ActiveFacts
<1>3. ASSUME NEW c \in Calls, Closes(c) PROVE FALSE
  BY <1>3, CloseFacts, ActiveFacts
<1>4. ASSUME NEW c \in Calls, NEW q \in Paths, Edit(c, q) PROVE FALSE
  BY <1>4, ActiveFacts DEF Edit, Active
<1>5. CASE Closing
  <2>1. KeepWork /\ UNCHANGED <<wrote, claims>> /\ blind \subseteq blind'
        /\ content'[p] \in {content[p], {}}
    BY <1>0, <1>5, JoinFacts
  <2>2. lane = "red" /\ pc[RedReview] = "done"
    BY <2>1 DEF KeepWork, AtJoin, Ended
  <2>3. SUFFICES ASSUME RedReview \in content'[p] PROVE FALSE
    OBVIOUS
  <2>4. RedReview \in content[p] /\ p \in wrote[RedReview]
    BY <1>0, <2>1, <2>3 DEF Authorship
  <2>5. Reported(p)
    BY <1>0, <2>1, <2>2, <2>4 DEF Watched
  <2>6. p \in blamed[RedReview]
    BY <1>0, <2>2, <2>5, BlameInLane DEF InLane
  <2>7. p \in Unclaimed
    BY <2>1, <2>6 DEF Unclaimed
  <2>8. PICK stuck : /\ content' = Reverted(content, Unclaimed \ stuck)
                     /\ stuck = {} \/ RedReview \in blind'
    BY <2>1 DEF KeepWork
  <2> QED
    BY <1>0, <2>3, <2>7, <2>8 DEF Reverted
<1>6. CASE Rest
  BY <1>6, RestFacts DEF KeptWorkIsAttributed, boundaryVars
<1> QED
  BY <1>1, <1>2, <1>3, <1>4, <1>5, <1>6, NextCases

LEMMA BoundaryStep == BoundaryInv /\ [Next]_vars => BoundaryInv'
  BY TypeStep, ShapeStep, AuthorshipStep, WatchedStep,
     MergedStep, KeptStep DEF BoundaryInv

LEMMA BoundaryHolds == Spec => []BoundaryInv
  BY InitBoundary, BoundaryStep, PTL DEF Spec

----------------------------------------------------------------------------
(* The theorems.                                                           *)

(* The types and bounds of every state: attempts and budget units.         *)
THEOREM TypeCorrect == Spec => []TypeOK
  BY BoundaryHolds, PTL DEF BoundaryInv

(* No guarded read-only call ends with an edit nobody was failed for.      *)
THEOREM EditsReported == Spec => []EditIsReported
<1>1. BoundaryInv => EditIsReported
  BY CallFacts DEF BoundaryInv, Watched, Reported, EditIsReported
<1> QED
  BY <1>1, BoundaryHolds, PTL

(* Reviews are merged only of a tree their guarded reviewers left alone.   *)
THEOREM MergedClean == Spec => []MergedReviewIsClean
  BY BoundaryHolds, PTL DEF BoundaryInv

(* Kept work holds no edit of the review outside what was declared.        *)
THEOREM KeptAttributed == Spec => []KeptWorkIsAttributed
  BY BoundaryHolds, PTL DEF BoundaryInv

LEMMA ImplementerStep ==
  ASSUME BoundaryInv, [Next]_vars, NEW p \in Paths,
         Implementer \in content[p], Implementer \notin content'[p]
  PROVE  result' = "rejected" \/ (result' = "kept" /\ UnderClaimed(p))
<1> USE CallFacts DEF BoundaryInv
<1>0. p \in wrote[Implementer]
  BY DEF Authorship
<1>1. ASSUME NEW r \in Reviewers, Pooled(r) PROVE FALSE
  BY <1>1, PoolFacts
<1>2. ASSUME NEW c \in Calls, Moves(c) PROVE FALSE
  BY <1>2, MoveFacts
<1>3. ASSUME NEW c \in Calls, Closes(c) PROVE FALSE
  <2>1. pc[c] \in {"running", "backoff"} /\ lane' = lane /\ InLane(c)
    BY <1>3, CloseFacts, ActiveFacts
  <2>2. PICK how \in How : Settle(c, how)
    BY <1>3, CloseFacts
  <2>3. c \in Reviewers
    BY <2>1, <2>2, SettleFacts
  <2>4. pc[Implementer] = "queued"
    <3>1. lane = "verify"
      BY <2>1, <2>3 DEF InLane, Reviewers, RedReview, Implementer
    <3>2. Implementer \notin Reviewers
      BY DEF ReadOnly
    <3> QED
      BY <3>1, <3>2 DEF Shape, CallShape, InLane
  <2> QED
    BY <1>0, <2>4 DEF Shape, CallShape
<1>4. ASSUME NEW c \in Calls, NEW q \in Paths, Edit(c, q) PROVE FALSE
  BY <1>4 DEF Edit, TypeOK
<1>5. CASE Closing
  <2>1. SUFFICES ASSUME result' # "rejected" PROVE result' = "kept" /\ UnderClaimed(p)
    OBVIOUS
  <2>2. KeepWork /\ p \in Unclaimed
    BY <1>5, <2>1, JoinFacts
  <2> QED
    BY <2>2 DEF Unclaimed, UnderClaimed, KeepWork
<1>6. CASE Rest
  BY <1>6, RestFacts
<1> QED
  BY <1>1, <1>2, <1>3, <1>4, <1>5, <1>6, NextCases

(* Only a rejection takes an edit of the implementer out of the tree, or   *)
(* the attribution of a failed review where the implementer declared       *)
(* others of its files: for every declaration, honest or not.              *)
THEOREM ImplementerSafe == Spec => ImplementerSurvives
<1>1. BoundaryInv /\ [Next]_vars =>
        [\A p \in Paths :
           Implementer \in content[p] /\ Implementer \notin content'[p]
             => result' = "rejected" \/ (result' = "kept" /\ UnderClaimed(p))]_vars
  BY ImplementerStep
<1> QED
  BY <1>1, BoundaryHolds, PTL DEF Spec, ImplementerSurvives

----------------------------------------------------------------------------
(* The cost fuse.  A call in flight may still be charged Retries + 1       *)
(* attempts; what is charged and what may still be charged stay below the  *)
(* cap and one load for each slot.                                         *)

Load(n) == (Retries + 1) * n
Busy == Started \cup InFlight
CostInv == /\ Cardinality(Busy) <= Slots
           /\ charged + Load(Cardinality(InFlight)) < CostCap + Load(Slots)

LEMMA LoadFacts ==
  /\ \A n \in Nat : Load(n) \in Nat /\ Load(n + 1) = Load(n) + Retries + 1
  /\ \A m, n \in Nat : m <= n => Load(m) <= Load(n)
<1> USE CallsAssumption
<1>1. \A n \in Nat : Load(n) \in Nat /\ Load(n + 1) = Load(n) + Retries + 1
  BY DEF Load
<1>2. ASSUME NEW m \in Nat, NEW n \in Nat, m <= n PROVE Load(m) <= Load(n)
  <2>1. PICK d \in Nat : n = m + d
    BY <1>2
  <2>2. (Retries + 1) * (m + d) = (Retries + 1) * m + (Retries + 1) * d
    OBVIOUS
  <2>3. (Retries + 1) * d \in Nat /\ (Retries + 1) * m \in Nat
    OBVIOUS
  <2> QED
    BY <2>1, <2>2, <2>3 DEF Load
<1> QED
  BY <1>1, <1>2

LEMMA CallSets ==
  \A S : S \subseteq Calls => IsFiniteSet(S) /\ Cardinality(S) \in Nat
<1>1. IsFiniteSet(Calls)
  BY CallsAssumption, FS_Interval DEF Calls
<1> QED
  BY <1>1, FS_Subset, FS_CardinalityType

(* Adding one call to a set of calls, and taking one out.                  *)
LEMMA AddCall ==
  ASSUME NEW S, S \subseteq Calls, NEW c \in Calls, c \notin S
  PROVE  Cardinality(S \cup {c}) = Cardinality(S) + 1
  BY CallSets, FS_AddElement

LEMMA DropCall ==
  ASSUME NEW S, S \subseteq Calls, NEW c \in S
  PROVE  Cardinality(S) = Cardinality(S \ {c}) + 1
<1>1. Cardinality((S \ {c}) \cup {c}) = Cardinality(S \ {c}) + 1
  BY AddCall
<1>2. (S \ {c}) \cup {c} = S
  OBVIOUS
<1> QED
  BY <1>1, <1>2

LEMMA FewerCalls ==
  ASSUME NEW S, NEW T, T \subseteq Calls, S \subseteq T
  PROVE  Cardinality(S) <= Cardinality(T)
  BY CallSets, FS_Subset

LEMMA PairSize ==
  ASSUME NEW S, S \subseteq {RedReview, Implementer}
  PROVE  Cardinality(S) <= 2
<1>1. Cardinality({}) = 0
  BY FS_EmptySet
<1>2. Cardinality({} \cup {RedReview}) = 1
  BY <1>1, CallFacts, AddCall
<1>3. Cardinality({RedReview} \cup {Implementer}) = 2
  BY <1>2, CallFacts, AddCall
<1>4. Cardinality(S) <= Cardinality({RedReview} \cup {Implementer})
  BY CallFacts, FewerCalls
<1> QED
  BY <1>3, <1>4

LEMMA InitCost == Init => CostInv
<1> SUFFICES ASSUME Init PROVE CostInv
  OBVIOUS
<1>1. Busy = {} /\ InFlight = {}
  BY DEF Init, Busy, Started, InFlight
<1>2. Cardinality(Busy) = 0 /\ Cardinality(InFlight) = 0
  BY <1>1, FS_EmptySet
<1>3. Slots \in Nat
  BY CallsAssumption DEF Slots
<1>4. Load(0) <= Load(Slots) /\ Load(0) \in Nat /\ Load(Slots) \in Nat
  BY <1>3, LoadFacts
<1> QED
  BY <1>2, <1>3, <1>4, CallsAssumption DEF Init, CostInv

(* A step that charges nothing and adds nobody to the busy calls.          *)
LEMMA Eased ==
  ASSUME TypeOK, CostInv, lane' = lane, charged' = charged,
         InFlight' = InFlight, Busy' \subseteq Busy
  PROVE  CostInv'
<1>1. Slots' = Slots /\ Slots \in Nat
  BY CallsAssumption DEF Slots
<1>2. Busy \subseteq Calls
  BY DEF Busy, Started, InFlight
<1>3. Cardinality(Busy') <= Cardinality(Busy)
  BY <1>2, FewerCalls
<1>4. Cardinality(Busy') \in Nat /\ Cardinality(Busy) \in Nat
  BY <1>2, CallSets
<1>5. Cardinality(Busy') <= Slots'
  BY <1>1, <1>3, <1>4 DEF CostInv
<1>6. charged' + Load(Cardinality(InFlight')) < CostCap + Load(Slots')
  BY <1>1 DEF CostInv
<1> QED
  BY <1>5, <1>6 DEF CostInv, Load

LEMMA LaunchCost ==
  ASSUME TypeOK, Shape, CostInv, [Next]_vars, NEW c \in Calls, Launch(c)
  PROVE  CostInv'
<1> USE CallsAssumption, CallFacts
<1>1. /\ lane' = lane /\ charged' = charged /\ charged < CostCap
      /\ pc' = [pc EXCEPT ![c] = "running"] /\ AtCall(c)
  BY DEF Launch, CostTripped, TypeOK
<1>2. Slots' = Slots /\ Slots \in Nat
  BY <1>1 DEF Slots
<1>3. InFlight' \subseteq Busy' /\ Busy' \subseteq Calls
  BY DEF Busy, Started, InFlight
<1>4. Cardinality(Busy') <= Slots
  <2>1. CASE lane = "verify"
    <3>1. pc[c] = "started"
      BY <1>1, <2>1 DEF AtCall
    <3>2. Busy' = Busy
      BY <1>1, <3>1 DEF Busy, Started, InFlight, TypeOK
    <3> QED
      BY <3>2 DEF CostInv
  <2>2. CASE lane = "red"
    <3>1. \A d \in Calls : CallShape(d)'
      BY CallShapeStep
    <3>2. Busy' \subseteq {RedReview, Implementer}
      BY <1>1, <2>2, <3>1 DEF Busy, Started, InFlight, CallShape, InLane
    <3> QED
      BY <2>2, <3>2, PairSize DEF Slots
  <2> QED
    BY <2>1, <2>2 DEF TypeOK
<1>5. Cardinality(InFlight') <= Cardinality(Busy')
      /\ Cardinality(InFlight') \in Nat /\ Cardinality(Busy') \in Nat
  BY <1>3, FewerCalls, CallSets
<1>6. Cardinality(InFlight') <= Slots
  BY <1>2, <1>4, <1>5
<1>7. Load(Cardinality(InFlight')) <= Load(Slots)
      /\ Load(Cardinality(InFlight')) \in Nat /\ Load(Slots) \in Nat
  BY <1>2, <1>5, <1>6, LoadFacts
<1>8. charged' + Load(Cardinality(InFlight')) < CostCap + Load(Slots)
  BY <1>1, <1>7 DEF TypeOK
<1> QED
  BY <1>2, <1>4, <1>8 DEF CostInv, Load

LEMMA CloseCost ==
  ASSUME TypeOK, Shape, CostInv, NEW c \in Calls, Closes(c)
  PROVE  CostInv'
<1> USE CallsAssumption, CallFacts
<1>1. lane' = lane /\ pc[c] \in {"running", "backoff"}
  BY CloseFacts
<1>2. PICK how \in How : Settle(c, how)
  BY CloseFacts
<1>3. pc' = [pc EXCEPT ![c] = "done"]
  BY <1>1, <1>2, SettleFacts
<1>4. charged' \in Nat /\ charged' <= charged + Retries + 1
  <2>1. tries[c] \in 0 .. Retries + 1 /\ charged \in Nat
    BY DEF TypeOK
  <2>2. charged' \in {charged, charged + tries[c]}
    BY DEF Closes, Answer, Fail, Throw, Cost
  <2> QED
    BY <2>1, <2>2
<1>5. Slots' = Slots /\ Slots \in Nat
  BY <1>1 DEF Slots
<1>6. InFlight' = InFlight \ {c} /\ c \in InFlight /\ InFlight \subseteq Calls
      /\ Busy' \subseteq Busy /\ Busy \subseteq Calls
  BY <1>1, <1>3 DEF Busy, Started, InFlight, TypeOK
<1>7. Cardinality(InFlight) = Cardinality(InFlight') + 1
      /\ Cardinality(InFlight') \in Nat
  BY <1>6, DropCall, CallSets
<1>8. /\ Load(Cardinality(InFlight)) = Load(Cardinality(InFlight')) + Retries + 1
      /\ Load(Cardinality(InFlight')) \in Nat /\ Load(Slots) \in Nat
  BY <1>5, <1>7, LoadFacts
<1>9. Cardinality(Busy') <= Slots
  <2>1. Cardinality(Busy') <= Cardinality(Busy)
    BY <1>6, FewerCalls
  <2>2. Cardinality(Busy') \in Nat /\ Cardinality(Busy) \in Nat
    BY <1>6, CallSets
  <2> QED
    BY <1>5, <2>1, <2>2 DEF CostInv
<1>10. charged' + Load(Cardinality(InFlight')) < CostCap + Load(Slots)
  BY <1>4, <1>8 DEF CostInv, TypeOK
<1> QED
  BY <1>5, <1>9, <1>10 DEF CostInv, Load

LEMMA CostStep == TypeOK /\ Shape /\ CostInv /\ [Next]_vars => CostInv'
<1> SUFFICES ASSUME TypeOK, Shape, CostInv, [Next]_vars PROVE CostInv'
  OBVIOUS
<1> USE CallFacts
<1>1. ASSUME NEW r \in Reviewers, Cancel(r) \/ Skip(r) PROVE CostInv'
  <2>1. lane' = lane /\ charged' = charged
    BY <1>1 DEF Cancel, Skip, spendVars
  <2>2. pc[r] = "queued" /\ pc' = [pc EXCEPT ![r] = "done"]
    BY <1>1 DEF Cancel, Skip, MayDequeue
  <2>3. InFlight' = InFlight /\ Busy' \subseteq Busy
    BY <2>2 DEF Busy, Started, InFlight, TypeOK
  <2> QED
    BY <2>1, <2>3, Eased
<1>2. ASSUME NEW r \in Reviewers, Start(r) PROVE CostInv'
  <2>1. /\ lane' = lane /\ charged' = charged /\ lane = "verify" /\ pc[r] = "queued"
        /\ pc' = [pc EXCEPT ![r] = "started"] /\ Cardinality(Busy) < MaxConcurrency
    BY <1>2 DEF Start, MayDequeue, spendVars, Busy
  <2>2. InFlight' = InFlight /\ Busy' = Busy \cup {r} /\ r \notin Busy
        /\ Busy \subseteq Calls
    BY <2>1 DEF Busy, Started, InFlight, TypeOK
  <2>3. Cardinality(Busy') = Cardinality(Busy) + 1 /\ Cardinality(Busy) \in Nat
    BY <2>2, AddCall, CallSets
  <2>4. Slots' = Slots /\ Slots = MaxConcurrency
    BY <2>1 DEF Slots
  <2>5. Cardinality(Busy') <= Slots'
    BY <2>1, <2>3, <2>4, CallsAssumption
  <2> QED
    BY <2>1, <2>2, <2>4, <2>5 DEF CostInv, Load
<1>3. ASSUME NEW c \in Calls, Refuse(c) PROVE CostInv'
  <2>1. /\ lane' = lane /\ charged' = charged /\ pc[c] \in {"queued", "started"}
        /\ pc' = [pc EXCEPT ![c] = "done"]
    BY <1>3 DEF Refuse, End, AtCall
  <2>2. InFlight' = InFlight /\ Busy' \subseteq Busy
    BY <2>1 DEF Busy, Started, InFlight, TypeOK
  <2> QED
    BY <2>1, <2>2, Eased
<1>4. ASSUME NEW c \in Calls, Launch(c) PROVE CostInv'
  BY <1>4, LaunchCost
<1>5. ASSUME NEW c \in Calls, Redispatch(c) \/ Backoff(c) PROVE CostInv'
  <2>1. /\ lane' = lane /\ charged' = charged /\ pc[c] \in {"running", "backoff"}
        /\ pc' = [pc EXCEPT ![c] = pc'[c]] /\ pc'[c] \in {"running", "backoff"}
    BY <1>5 DEF Redispatch, Backoff, spendVars, TypeOK
  <2>2. InFlight' = InFlight /\ Busy' \subseteq Busy
    BY <2>1 DEF Busy, Started, InFlight, TypeOK
  <2> QED
    BY <2>1, <2>2, Eased
<1>6. ASSUME NEW c \in Calls, Closes(c) PROVE CostInv'
  BY <1>6, CloseCost
<1>7. ASSUME NEW c \in Calls, NEW p \in Paths, Edit(c, p) PROVE CostInv'
  <2>1. UNCHANGED <<lane, charged, pc>>
    BY <1>7 DEF Edit, callVars, spendVars
  <2> QED
    BY <2>1, Eased DEF Busy, Started, InFlight
<1>8. CASE Closing
  <2>1. UNCHANGED <<lane, charged, pc>>
    BY <1>8 DEF Closing, Merge, Leave, Accept, Reject, KeepWork, callVars, spendVars
  <2> QED
    BY <2>1, Eased DEF Busy, Started, InFlight
<1>9. CASE Rest
  <2>1. UNCHANGED <<lane, charged, pc>>
    BY <1>9 DEF Rest, Abort, WallPasses, vars, callVars, spendVars
  <2> QED
    BY <2>1, Eased DEF Busy, Started, InFlight
<1> QED
  BY <1>1, <1>2, <1>3, <1>4, <1>5, <1>6, <1>7, <1>8, <1>9, NextCases
     DEF Pooled, Moves

(* The cost fuse is overshot by one load for each slot at most.            *)
THEOREM Overshoot == Spec => []CostOvershoot
<1>1. TypeOK /\ CostInv => CostOvershoot
  <2> SUFFICES ASSUME TypeOK, CostInv PROVE CostOvershoot
    OBVIOUS
  <2>1. InFlight \subseteq Calls /\ Slots \in Nat
    BY CallsAssumption DEF InFlight, Slots
  <2>2. Load(Cardinality(InFlight)) \in Nat /\ Load(Slots) \in Nat
    BY <2>1, CallSets, LoadFacts
  <2>3. charged < CostCap + Load(Slots)
    BY <2>2, CallsAssumption DEF CostInv, TypeOK
  <2>4. Load(Slots) = Slots * (Retries + 1)
    BY <2>1, CallsAssumption DEF Load
  <2> QED
    BY <2>3, <2>4 DEF CostOvershoot
<1>2. Init /\ [][Next]_vars => []CostInv
  <2>1. BoundaryInv /\ CostInv /\ [Next]_vars => CostInv'
    BY CostStep DEF BoundaryInv
  <2> QED
    BY <2>1, InitCost, BoundaryHolds, PTL DEF Spec
<1> QED
  BY <1>1, <1>2, BoundaryHolds, PTL DEF Spec, BoundaryInv
=============================================================================
