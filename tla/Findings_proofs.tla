--------------------------- MODULE Findings_proofs ---------------------------
(***************************************************************************)
(* Proofs about what becomes of a finding: the requests to re-plan it      *)
(* (ReplanCircuit), for any stages, owners, findings and round budget and  *)
(* over any number of sessions, kills and failed writes; and its row in    *)
(* the convergence ledger (SpecConvergence), for any findings, owners,     *)
(* reviews, budgets and crashes.                                           *)
(***************************************************************************)
EXTENDS ReplanCircuit, SpecConvergence, FiniteSetTheorems, TLAPS

(***************************************************************************)
(* The replan circuit.                                                     *)
(***************************************************************************)

(* The trigger runs at the last stage, and its marker is set last.         *)
TriggerInv ==
  /\ ctl \in {"bump", "invalidate"} => at = LastStage /\ marker = "no"
  /\ marker = "trigger" => at = LastStage /\ ctl \in {"run", "ended"}

(* A round that is charged and whose restart has not happened.             *)
Outstanding == IF ctl \in {"bump", "invalidate"} \/ marker = "trigger" THEN 1 ELSE 0

(* The file accounts for every round since it was last lost.               *)
Account ==
  /\ rounds <= MaxReplanRounds
  /\ charged <= rounds + MaxReplanRounds * lost
  /\ triggered + Outstanding <= charged

(* An owner with a pending request that nobody reviewed, and whose trigger *)
(* was not cut short, has no recorded approval to replay.                  *)
Unreplayable ==
  /\ \A p \in Pairs : p[2] \in Owners /\ request[p] = "pending" /\ p \notin reviewed \cup owed
                        => rows[p[2]] # "approved"
  /\ AddressedUnlessCut

(* Once the marker is set, the rows of the set stay dropped.               *)
Dropped ==
  marker = "trigger" => \A s \in InvalidationSet \ {LastStage} : rows[s] = "none"

IInv == TypeOK /\ TriggerInv /\ Account /\ Unreplayable /\ Dropped

LEMMA InitIInv == Init => IInv
<1> SUFFICES ASSUME Init PROVE IInv
  OBVIOUS
<1> USE CircuitAssumption
<1>1. TypeOK
  BY DEF Init, TypeOK, NoRequests, Stage
<1>2. TriggerInv /\ Dropped
  BY DEF Init, TriggerInv, Dropped
<1>3. Account
  BY DEF Init, Account, Outstanding
<1>4. Unreplayable
  BY DEF Init, Unreplayable, AddressedUnlessCut, NoRequests
<1> QED
  BY <1>1, <1>2, <1>3, <1>4 DEF IInv

----------------------------------------------------------------------------
(* What the shared pieces of the actions preserve.                         *)

RequestStatus == {"none", "pending", "addressed", "stale"}
Kept == {"none", "approved", "other"}

LEMMA RowKept ==
  ASSUME TypeOK, NEW k \in Kept
  PROVE  [rows EXCEPT ![at] = k] \in [Stage -> Kept]
  BY DEF TypeOK, Kept

LEMMA LiveRowsKept ==
  ASSUME TypeOK, NEW r \in {rows} \cup LiveRows
  PROVE  /\ r \in [Stage -> Kept]
         /\ \A s \in Stage : r[s] = rows[s] \/ (s = at /\ r[s] = "other")
  BY RowKept DEF TypeOK, Kept, LiveRows

LEMMA FailedWrite ==
  ASSUME TypeOK, NEW seen \in SUBSET Pairs, WriteFails(seen)
  PROVE  /\ request' \in [Pairs -> RequestStatus] /\ rounds' \in Nat /\ lost' \in Nat
         /\ reviewed' \subseteq Pairs /\ owed' \subseteq Pairs
         /\ mishaps' \in 0 .. MaxMishaps
  BY CircuitAssumption DEF TypeOK, WriteFails, Torn, NoRequests, RequestStatus

LEMMA Consumed ==
  ASSUME TypeOK, NEW o, NEW seen \in SUBSET Pairs, Consume(o, seen)
  PROVE  /\ request' \in [Pairs -> RequestStatus] /\ rounds' \in Nat /\ lost' \in Nat
         /\ reviewed' \subseteq Pairs /\ owed' \subseteq Pairs
         /\ mishaps' \in 0 .. MaxMishaps
<1>1. CASE PendingFor(o) # {} /\ WriteFails(seen)
  BY <1>1, FailedWrite
<1>2. CASE /\ request' = [p \in Pairs |-> IF p \in PendingFor(o) THEN "addressed" ELSE request[p]]
           /\ reviewed' = seen
           /\ UNCHANGED <<rounds, lost, owed, mishaps>>
  BY <1>2 DEF TypeOK, RequestStatus
<1> QED
  BY <1>1, <1>2 DEF Consume

LEMMA NextStage ==
  ASSUME TypeOK, at \in Owners \/ at # LastStage
  PROVE  at + 1 \in Stage
  BY CircuitAssumption DEF TypeOK, Stage

LEMMA PersistedType ==
  ASSUME TypeOK, NEW new
  PROVE  Persisted(new) \in [Pairs -> RequestStatus]
  BY DEF TypeOK, Persisted, RequestStatus

LEMMA BegunRequests ==
  ASSUME TypeOK, BeginRun
  PROVE  request' \in [Pairs -> RequestStatus]
  BY DEF TypeOK, BeginRun, RequestStatus

(* Types.                                                                  *)
LEMMA NextType == TypeOK /\ TriggerInv /\ [Next]_vars => TypeOK'
<1> SUFFICES ASSUME TypeOK, TriggerInv, [Next]_vars PROVE TypeOK'
  OBVIOUS
<1> USE CircuitAssumption
<1>1. CASE StartSession
  <2>1. request' \in [Pairs -> RequestStatus]
    BY <1>1, BegunRequests DEF StartSession
  <2>2. rows' \in [Stage -> Kept]
    BY <1>1 DEF StartSession, TypeOK, Kept
  <2> QED
    BY <1>1, <2>1, <2>2 DEF StartSession, BeginRun, TypeOK, RequestStatus, Kept, Stage
<1>2. CASE Restart
  <2>1. request' \in [Pairs -> RequestStatus]
    BY <1>2, BegunRequests DEF Restart
  <2>2. restarts' \in 0 .. MaxReplanRounds /\ triggered' \in Nat
    BY <1>2 DEF Restart, MayRestart, Counted, TypeOK
  <2> QED
    BY <1>2, <2>1, <2>2 DEF Restart, BeginRun, TypeOK, RequestStatus, Stage
<1>3. CASE EndSession
  BY <1>3 DEF EndSession, SessionOver, TypeOK, files, history, Stage
<1>4. CASE EndRun
  <2>1. rows' \in [Stage -> Kept]
    BY <1>4, LiveRowsKept DEF EndRun
  <2> QED
    BY <1>4, <2>1 DEF EndRun, TypeOK, Kept, history
<1>5. CASE Crash
  <2>1. rows' \in [Stage -> Kept]
    BY <1>5, LiveRowsKept DEF Crash
  <2>2. /\ request' \in [Pairs -> RequestStatus] /\ rounds' \in Nat /\ lost' \in Nat
        /\ reviewed' \subseteq Pairs /\ owed' \subseteq Pairs
        /\ mishaps' \in 0 .. MaxMishaps
    BY <1>5 DEF Crash, Torn, NoRequests, TypeOK, RequestStatus
  <2> QED
    BY <1>5, <2>1, <2>2 DEF Crash, SessionOver, TypeOK, Kept, RequestStatus, Stage
<1>6. CASE Approve
  <2>1. rows' \in [Stage -> Kept]
    BY <1>6, RowKept DEF Approve, Kept
  <2>2. at' \in Stage
    BY <1>6, NextStage DEF Approve, AtOwner
  <2>3. reviewed \cup PendingFor(at) \in SUBSET Pairs
    BY DEF TypeOK, PendingFor
  <2>4. /\ request' \in [Pairs -> RequestStatus] /\ rounds' \in Nat /\ lost' \in Nat
        /\ reviewed' \subseteq Pairs /\ owed' \subseteq Pairs
        /\ mishaps' \in 0 .. MaxMishaps
    BY <1>6, <2>3, Consumed DEF Approve
  <2> QED
    BY <1>6, <2>1, <2>2, <2>4 DEF Approve, RunUnchanged, TypeOK, Kept, RequestStatus
<1>7. CASE ReplayApproval
  <2>1. at' \in Stage
    BY <1>7, NextStage DEF ReplayApproval, AtOwner
  <2>2. reviewed \in SUBSET Pairs
    BY DEF TypeOK
  <2>3. /\ request' \in [Pairs -> RequestStatus] /\ rounds' \in Nat /\ lost' \in Nat
        /\ reviewed' \subseteq Pairs /\ owed' \subseteq Pairs
        /\ mishaps' \in 0 .. MaxMishaps
    BY <1>7, <2>2, Consumed DEF ReplayApproval
  <2> QED
    BY <1>7, <2>1, <2>3 DEF ReplayApproval, RunUnchanged, TypeOK, RequestStatus
<1>8. CASE ExitOtherwise
  <2>1. rows' \in [Stage -> Kept]
    BY <1>8, RowKept DEF ExitOtherwise, Kept
  <2>2. at' \in Stage
    BY <1>8, NextStage DEF ExitOtherwise
  <2> QED
    BY <1>8, <2>1, <2>2 DEF ExitOtherwise, RunUnchanged, TypeOK, Kept
<1>9. ASSUME NEW o \in Owners, DeclinePending(o) PROVE TypeOK'
  <2>1. rows' \in [Stage -> Kept]
    BY <1>9, RowKept DEF DeclinePending, Kept
  <2> QED
    BY <1>9, <2>1 DEF DeclinePending, TypeOK, Kept, history
<1>10. ASSUME NEW C \in Classified, PersistHuman(C) PROVE TypeOK'
  <2>1. reviewed \in SUBSET Pairs
    BY DEF TypeOK
  <2>2. /\ request' \in [Pairs -> RequestStatus] /\ rounds' \in Nat /\ lost' \in Nat
        /\ reviewed' \subseteq Pairs /\ owed' \subseteq Pairs
        /\ mishaps' \in 0 .. MaxMishaps
    <3>1. CASE WriteFails(reviewed)
      BY <3>1, <2>1, FailedWrite
    <3>2. CASE request' = Persisted(NewRows(C)) /\ UNCHANGED <<rounds, lost, reviewed, owed, mishaps>>
      BY <3>2, PersistedType DEF TypeOK
    <3> QED
      BY <1>10, <3>1, <3>2 DEF PersistHuman
  <2> QED
    BY <1>10, <2>2 DEF PersistHuman, TypeOK, RequestStatus, session
<1>11. ASSUME NEW C \in Classified, WriteRequests(C) PROVE TypeOK'
  <2>1. rows' \in [Stage -> Kept]
    BY <1>11 DEF WriteRequests, TypeOK, Kept
  <2>2. reviewed \in SUBSET Pairs
    BY DEF TypeOK
  <2>3. NewRequests(C) \subseteq Pairs
    BY DEF NewRequests, Routed, Classified
  <2>4. /\ request' \in [Pairs -> RequestStatus] /\ rounds' \in Nat /\ lost' \in Nat
        /\ reviewed' \subseteq Pairs /\ owed' \subseteq Pairs
        /\ mishaps' \in 0 .. MaxMishaps
        /\ charged' \in Nat /\ ctl' \in {"run", "bump"}
    <3>1. CASE WriteFails(reviewed) /\ UNCHANGED <<charged, ctl>>
      BY <1>11, <3>1, <2>2, FailedWrite DEF WriteRequests, AtTrigger, TypeOK
    <3>2. CASE ~ (WriteFails(reviewed) /\ UNCHANGED <<charged, ctl>>)
      BY <1>11, <3>2, <2>3, PersistedType DEF WriteRequests, TypeOK
    <3> QED
      BY <3>1, <3>2
  <2> QED
    BY <1>11, <2>1, <2>4 DEF WriteRequests, TypeOK, RequestStatus, Kept
<1>12. CASE BumpRevisions
  BY <1>12 DEF BumpRevisions, TypeOK, history
<1>13. CASE Invalidate
  <2>1. rows' \in [Stage -> Kept]
    BY <1>13 DEF Invalidate, TypeOK, Kept
  <2>2. owed' \subseteq Pairs /\ mishaps' \in 0 .. MaxMishaps
    BY <1>13 DEF Invalidate, TypeOK
  <2>3. marker' \in {"no", "trigger"}
    BY <1>13 DEF Invalidate
  <2> QED
    BY <1>13, <2>1, <2>2, <2>3 DEF Invalidate, TypeOK, Kept
<1>14. CASE UNCHANGED vars
  BY <1>14 DEF vars, files, session, history, TypeOK
<1> QED
  BY <1>1, <1>2, <1>3, <1>4, <1>5, <1>6, <1>7, <1>8, <1>9, <1>10, <1>11, <1>12, <1>13, <1>14
     DEF Next, System

(* Where the trigger runs.                                                 *)
LEMMA NextTrigger == TypeOK /\ TriggerInv /\ [Next]_vars => TriggerInv'
<1> SUFFICES ASSUME TypeOK, TriggerInv, [Next]_vars PROVE TriggerInv'
  OBVIOUS
<1> USE DEF TriggerInv
<1>1. CASE StartSession \/ Restart
  BY <1>1 DEF StartSession, Restart, BeginRun
<1>2. CASE EndSession \/ EndRun \/ Crash
  BY <1>2 DEF EndSession, EndRun, Crash, SessionOver
<1>3. CASE Approve \/ ReplayApproval \/ ExitOtherwise
  BY <1>3 DEF Approve, ReplayApproval, ExitOtherwise, AtOwner, RunUnchanged
<1>4. CASE \E o \in Owners : DeclinePending(o)
  BY <1>4 DEF DeclinePending
<1>5. CASE \E C \in Classified : PersistHuman(C)
  BY <1>5 DEF PersistHuman, session
<1>6. CASE \E C \in Classified : WriteRequests(C)
  BY <1>6 DEF WriteRequests, AtTrigger
<1>7. CASE BumpRevisions
  BY <1>7 DEF BumpRevisions
<1>8. CASE Invalidate
  BY <1>8 DEF Invalidate
<1>9. CASE UNCHANGED vars
  BY <1>9 DEF vars, session
<1> QED
  BY <1>1, <1>2, <1>3, <1>4, <1>5, <1>6, <1>7, <1>8, <1>9 DEF Next, System

(* The round budget.  A failed write of the requests only loses rounds.    *)
LEMMA Times ==
  ASSUME NEW m \in Nat, NEW n \in Nat
  PROVE  m * (n + 1) = m * n + m /\ m * n \in Nat
  OBVIOUS

LEMMA FailedAccount ==
  ASSUME TypeOK, Account, NEW seen, WriteFails(seen) \/ Torn
  PROVE  rounds' <= MaxReplanRounds /\ charged <= rounds' + MaxReplanRounds * lost'
<1>1. CASE Torn
  <2>1. MaxReplanRounds * (lost + 1) = MaxReplanRounds * lost + MaxReplanRounds
    BY CircuitAssumption, Times DEF TypeOK
  <2>2. MaxReplanRounds * lost \in Nat
    BY CircuitAssumption, Times DEF TypeOK
  <2>3. rounds' = 0 /\ lost' = lost + 1
    BY <1>1 DEF Torn
  <2>4. charged <= MaxReplanRounds + MaxReplanRounds * lost
    BY <2>2, CircuitAssumption DEF Account, TypeOK
  <2> QED
    BY <2>1, <2>2, <2>3, <2>4, CircuitAssumption DEF TypeOK
<1>2. CASE UNCHANGED <<rounds, lost>>
  BY <1>2 DEF Account
<1> QED
  BY <1>1, <1>2 DEF WriteFails

LEMMA NextAccount == TypeOK /\ TriggerInv /\ Account /\ [Next]_vars => Account'
<1> SUFFICES ASSUME TypeOK, TriggerInv, Account, [Next]_vars PROVE Account'
  OBVIOUS
<1> USE CircuitAssumption
<1>1. CASE StartSession \/ Restart \/ EndSession \/ EndRun
  <2>1. UNCHANGED <<rounds, charged, lost>>
    BY <1>1 DEF StartSession, Restart, BeginRun, EndSession, EndRun, files, history
  <2>2. triggered' + Outstanding' <= triggered + Outstanding
    BY <1>1 DEF StartSession, Restart, BeginRun, EndSession, SessionOver, EndRun, history,
                Outstanding, TypeOK
  <2>3. triggered' + Outstanding' \in Nat
    BY <1>1 DEF StartSession, Restart, BeginRun, EndSession, SessionOver, EndRun, history,
                Outstanding, TypeOK
  <2>4. triggered' + Outstanding' <= charged'
    BY <2>1, <2>2, <2>3 DEF Account, Outstanding, TypeOK
  <2> QED
    BY <2>1, <2>4 DEF Account
<1>5. CASE Crash
  <2>1. rounds' <= MaxReplanRounds /\ charged <= rounds' + MaxReplanRounds * lost'
    BY <1>5, FailedAccount DEF Crash, Account
  <2>2. Outstanding' = 0 /\ UNCHANGED <<charged, triggered>>
    BY <1>5 DEF Crash, SessionOver, Outstanding
  <2>3. triggered <= charged
    BY DEF Account, Outstanding, TypeOK
  <2> QED
    BY <2>1, <2>2, <2>3 DEF Account, TypeOK
<1>6. ASSUME NEW o, NEW seen, Consume(o, seen), RunUnchanged PROVE Account'
  <2>1. rounds' <= MaxReplanRounds /\ charged <= rounds' + MaxReplanRounds * lost'
    BY <1>6, FailedAccount DEF Consume, Account
  <2>2. UNCHANGED <<Outstanding, charged, triggered>>
    BY <1>6 DEF RunUnchanged, Outstanding
  <2> QED
    BY <2>1, <2>2 DEF Account
<1>7. CASE Approve \/ ReplayApproval
  BY <1>7, <1>6 DEF Approve, ReplayApproval
<1>8. CASE ExitOtherwise
  BY <1>8 DEF ExitOtherwise, RunUnchanged, Account, Outstanding
<1>9. CASE \E o \in Owners : DeclinePending(o)
  BY <1>9 DEF DeclinePending, history, Account, Outstanding
<1>10. ASSUME NEW C \in Classified, PersistHuman(C) PROVE Account'
  <2>1. rounds' <= MaxReplanRounds /\ charged <= rounds' + MaxReplanRounds * lost'
    BY <1>10, FailedAccount DEF PersistHuman, Account
  <2>2. UNCHANGED <<Outstanding, charged, triggered>>
    BY <1>10 DEF PersistHuman, session, Outstanding
  <2> QED
    BY <2>1, <2>2 DEF Account
<1>11. ASSUME NEW C \in Classified, WriteRequests(C) PROVE Account'
  <2>1. CASE WriteFails(reviewed) /\ UNCHANGED <<charged, ctl>>
    <3>1. rounds' <= MaxReplanRounds /\ charged <= rounds' + MaxReplanRounds * lost'
      BY <2>1, FailedAccount
    <3>2. UNCHANGED <<Outstanding, charged, triggered>>
      BY <1>11, <2>1 DEF WriteRequests, Outstanding
    <3> QED
      BY <3>1, <3>2 DEF Account
  <2>2. CASE rounds' = rounds + 1 /\ charged' = charged + 1 /\ UNCHANGED lost /\ ctl' = "bump"
    <3>1. rounds < MaxReplanRounds /\ marker = "no" /\ ctl = "run"
      BY <1>11 DEF WriteRequests, WithinBudget, AtTrigger
    <3>2. Outstanding = 0 /\ Outstanding' = 1 /\ triggered' = triggered
      BY <1>11, <2>2, <3>1 DEF WriteRequests, Outstanding
    <3>3. PICK m \in Nat : m = MaxReplanRounds * lost
      BY Times DEF TypeOK
    <3>4. rounds' <= MaxReplanRounds /\ charged' <= rounds' + m
      BY <2>2, <3>1, <3>3 DEF Account, TypeOK
    <3>5. triggered' + Outstanding' <= charged'
      BY <2>2, <3>2 DEF Account, TypeOK
    <3> QED
      BY <2>2, <3>3, <3>4, <3>5 DEF Account
  <2> QED
    BY <1>11, <2>1, <2>2 DEF WriteRequests
<1>12. CASE BumpRevisions
  BY <1>12 DEF BumpRevisions, history, Account, Outstanding
<1>13. CASE Invalidate
  <2>1. UNCHANGED <<rounds, charged, lost, triggered>>
    BY <1>13 DEF Invalidate
  <2>2. Outstanding = 1 /\ Outstanding' \in {0, 1}
    BY <1>13 DEF Invalidate, Outstanding
  <2>3. triggered + Outstanding <= charged
    BY DEF Account
  <2>4. triggered \in Nat /\ charged \in Nat
    BY DEF TypeOK
  <2>5. triggered + 1 <= charged
    BY <2>2, <2>3
  <2>6. triggered' + Outstanding' <= charged'
    <3>1. CASE Outstanding' = 0
      BY <3>1, <2>1, <2>4, <2>5
    <3>2. CASE Outstanding' = 1
      BY <3>2, <2>1, <2>4, <2>5
    <3> QED
      BY <2>2, <3>1, <3>2
  <2> QED
    BY <2>1, <2>6 DEF Account
<1>14. CASE UNCHANGED vars
  BY <1>14 DEF vars, files, session, history, Account, Outstanding
<1> QED
  BY <1>1, <1>5, <1>7, <1>8, <1>9, <1>10, <1>11, <1>12, <1>13, <1>14
     DEF Next, System

----------------------------------------------------------------------------
(* A lost requests file has no request left to replay or to review.        *)
LEMMA EmptyUnreplayable ==
  ASSUME request' = NoRequests
  PROVE  Unreplayable'
  BY DEF Unreplayable, AddressedUnlessCut, NoRequests

(* A stage that records its result keeps the rest as it was: the row is    *)
(* an approval only if nothing of it is left pending and unreviewed.       *)
LEMMA ApprovalRecorded ==
  ASSUME TypeOK, Unreplayable,
         UNCHANGED <<request, reviewed, owed>>,
         \A s \in Stage : rows'[s] = "approved" => rows[s] = "approved"
  PROVE  Unreplayable'
<1> Owners \subseteq Stage
  BY CircuitAssumption DEF Stage
<1> QED
  BY DEF Unreplayable, AddressedUnlessCut

LEMMA OtherRow ==
  ASSUME TypeOK, rows' = [rows EXCEPT ![at] = "other"]
  PROVE  \A s \in Stage : rows'[s] = "approved" => rows[s] = "approved"
  BY DEF TypeOK

LEMMA NextUnreplayable ==
  TypeOK /\ TriggerInv /\ Unreplayable /\ [Next]_vars => Unreplayable'
<1> SUFFICES ASSUME TypeOK, TriggerInv, Unreplayable, [Next]_vars PROVE Unreplayable'
  OBVIOUS
<1> Owners \subseteq Stage /\ Human \notin Owners
  BY CircuitAssumption DEF Stage, Human
<1>1. CASE StartSession
  BY <1>1 DEF StartSession, BeginRun, Unreplayable, AddressedUnlessCut, history, TypeOK
<1>2. CASE Restart
  BY <1>2 DEF Restart, BeginRun, Unreplayable, AddressedUnlessCut, TypeOK
<1>3. CASE EndSession
  BY <1>3, ApprovalRecorded DEF EndSession, files, history
<1>4. CASE EndRun
  <2>1. \A s \in Stage : rows'[s] = "approved" => rows[s] = "approved"
    BY <1>4, LiveRowsKept DEF EndRun
  <2> QED
    BY <1>4, <2>1, ApprovalRecorded DEF EndRun, history
<1>5. CASE Crash
  <2>1. \A s \in Stage : rows'[s] = "approved" => rows[s] = "approved"
    BY <1>5, LiveRowsKept DEF Crash
  <2> QED
    BY <1>5, <2>1, ApprovalRecorded, EmptyUnreplayable DEF Crash, Torn
<1>6. CASE Approve
  <2>1. PICK seen : seen = reviewed \cup PendingFor(at)
    OBVIOUS
  <2>2. CASE WriteFails(seen)
    <3>1. CASE Torn
      BY <3>1, EmptyUnreplayable DEF Torn
    <3>2. CASE reviewed' = seen /\ UNCHANGED <<request, rounds, lost, owed>>
      <4>1. \A p \in Pairs : p[2] = at /\ request'[p] = "pending" => p \in reviewed'
        BY <2>1, <3>2 DEF PendingFor
      <4>2. \A s \in Stage : s # at => rows'[s] = rows[s]
        BY <1>6 DEF Approve, TypeOK
      <4> QED
        BY <2>1, <3>2, <4>1, <4>2 DEF Unreplayable, AddressedUnlessCut
    <3> QED
      BY <2>2, <3>1, <3>2 DEF WriteFails
  <2>3. CASE /\ request' = [p \in Pairs |-> IF p \in PendingFor(at) THEN "addressed" ELSE request[p]]
             /\ reviewed' = seen
             /\ UNCHANGED <<rounds, lost, owed, mishaps>>
    <3>1. \A p \in Pairs : p[2] = at => request'[p] # "pending"
      BY <2>3 DEF PendingFor
    <3>2. \A s \in Stage : s # at => rows'[s] = rows[s]
      BY <1>6 DEF Approve, TypeOK
    <3> QED
      BY <2>1, <2>3, <3>1, <3>2 DEF Unreplayable, AddressedUnlessCut
  <2> QED
    BY <1>6, <2>1, <2>2, <2>3 DEF Approve, Consume
<1>7. CASE ReplayApproval
  <2>1. CASE WriteFails(reviewed)
    <3>1. UNCHANGED rows
      BY <1>7 DEF ReplayApproval
    <3> QED
      BY <2>1, <3>1, EmptyUnreplayable, ApprovalRecorded DEF WriteFails, Torn
  <2>2. CASE /\ request' = [p \in Pairs |-> IF p \in PendingFor(at) THEN "addressed" ELSE request[p]]
             /\ reviewed' = reviewed
             /\ UNCHANGED <<rounds, lost, owed, mishaps>>
    <3>1. at \in Owners /\ rows[at] = "approved" /\ UNCHANGED rows
      BY <1>7 DEF ReplayApproval, AtOwner
    <3>2. \A p \in PendingFor(at) : p \in reviewed \cup owed
      BY <3>1 DEF PendingFor, Unreplayable
    <3> QED
      BY <2>2, <3>1, <3>2 DEF Unreplayable, AddressedUnlessCut
  <2> QED
    BY <1>7, <2>1, <2>2 DEF ReplayApproval, Consume
<1>8. CASE ExitOtherwise
  BY <1>8, OtherRow, ApprovalRecorded DEF ExitOtherwise
<1>9. CASE \E o \in Owners : DeclinePending(o)
  BY <1>9, OtherRow, ApprovalRecorded DEF DeclinePending, history
<1>10. ASSUME NEW C \in Classified, PersistHuman(C) PROVE Unreplayable'
  <2>1. UNCHANGED rows
    BY <1>10 DEF PersistHuman
  <2>2. CASE WriteFails(reviewed)
    BY <2>1, <2>2, EmptyUnreplayable, ApprovalRecorded DEF WriteFails, Torn
  <2>3. CASE request' = Persisted(NewRows(C)) /\ UNCHANGED <<rounds, lost, reviewed, owed, mishaps>>
    <3>1. NewRows(C) \subseteq {p \in Pairs : p[2] = Human \/ request[p] = "pending"}
      BY <1>10 DEF PersistHuman, NewRows, NewRequests, Deferred, Routed, Classified
    <3> QED
      BY <2>1, <2>3, <3>1 DEF Persisted, Unreplayable, AddressedUnlessCut
  <2> QED
    BY <1>10, <2>2, <2>3 DEF PersistHuman
<1>11. ASSUME NEW C \in Classified, WriteRequests(C) PROVE Unreplayable'
  <2>1. rows' = [rows EXCEPT ![at] = "other"]
    BY <1>11 DEF WriteRequests, AtTrigger
  <2>2. CASE WriteFails(reviewed)
    BY <2>1, <2>2, EmptyUnreplayable, OtherRow, ApprovalRecorded DEF WriteFails, Torn
  <2>3. CASE /\ request' = Persisted(NewRows(C))
             /\ reviewed' = reviewed \ NewRequests(C)
             /\ owed' = owed \cup NewRequests(C)
    <3>1. \A p \in NewRows(C) : p[2] = Human \/ p \in owed'
      BY <2>3 DEF NewRows, NewRequests, Deferred, Routed, Classified
    <3>2. \A p \in Pairs : p \in reviewed \cup owed => p \in reviewed' \cup owed'
      BY <2>3
    <3>3. \A s \in Stage : rows'[s] = "approved" => rows[s] = "approved"
      BY <2>1, OtherRow
    <3>4. \A p \in Pairs \ NewRows(C) : request'[p] = request[p]
      BY <2>3 DEF Persisted
    <3>5. \A p \in Pairs \cap NewRows(C) : request'[p] = "pending"
      BY <2>3 DEF Persisted
    <3> QED
      BY <3>1, <3>2, <3>3, <3>4, <3>5 DEF Unreplayable, AddressedUnlessCut
  <2> QED
    BY <1>11, <2>2, <2>3 DEF WriteRequests
<1>12. CASE BumpRevisions
  BY <1>12, ApprovalRecorded DEF BumpRevisions, history
<1>13. CASE Invalidate
  <2>1. CASE UNCHANGED <<rows, owed>>
    BY <1>13, <2>1, ApprovalRecorded DEF Invalidate
  <2>2. CASE /\ rows' = [s \in Stage |-> IF s \in InvalidationSet THEN "none" ELSE rows[s]]
             /\ owed' = {p \in owed : request[p] # "pending"}
    <3>1. ASSUME NEW p \in Pairs, p[2] \in Owners, request[p] = "pending"
          PROVE  rows'[p[2]] = "none"
      <4>1. p[2] \in PendingOwners
        BY <3>1 DEF PendingOwners, PendingFor
      <4>2. p[2] \in Stage /\ p[2] \in Nat
        <5>1. p[2] \in 1 .. LastStage - 1 /\ LastStage \in Nat
          BY <3>1, CircuitAssumption
        <5> QED
          BY <5>1 DEF Stage
      <4>3. p[2] \in Suffix(p[2])
        BY <4>2 DEF Suffix
      <4>4. p[2] \in InvalidationSet
        BY <4>1, <4>3 DEF InvalidationSet
      <4> QED
        BY <2>2, <4>2, <4>4
    <3> QED
      BY <1>13, <2>2, <3>1 DEF Invalidate, Unreplayable, AddressedUnlessCut
  <2> QED
    BY <1>13, <2>1, <2>2 DEF Invalidate
<1>14. CASE UNCHANGED vars
  BY <1>14, ApprovalRecorded DEF vars, files, history
<1> QED
  BY <1>1, <1>2, <1>3, <1>4, <1>5, <1>6, <1>7, <1>8, <1>9, <1>10, <1>11, <1>12, <1>13, <1>14
     DEF Next, System

(* Between the marker and the restart the run only ends.                   *)
LEMMA NextDropped == TypeOK /\ TriggerInv /\ Dropped /\ [Next]_vars => Dropped'
<1> SUFFICES ASSUME TypeOK, TriggerInv, Dropped, [Next]_vars, marker' = "trigger"
             PROVE  \A s \in InvalidationSet' \ {LastStage} : rows'[s] = "none"
  BY DEF Dropped
<1>1. CASE EndRun
  <2>1. marker = "trigger" /\ at = LastStage /\ UNCHANGED InvalidationSet
    BY <1>1 DEF EndRun, TriggerInv, InvalidationSet, PendingOwners, PendingFor
  <2>2. InvalidationSet \subseteq Stage
    BY DEF InvalidationSet, Suffix
  <2>3. \A s \in Stage \ {LastStage} : rows'[s] = rows[s]
    BY <1>1, <2>1, LiveRowsKept DEF EndRun
  <2> QED
    BY <2>1, <2>2, <2>3 DEF Dropped
<1>2. CASE Invalidate
  <2>1. UNCHANGED InvalidationSet
    BY <1>2 DEF Invalidate, InvalidationSet, PendingOwners, PendingFor
  <2> QED
    BY <1>2, <2>1 DEF Invalidate, B6Guard
<1>3. CASE UNCHANGED vars
  <2>1. UNCHANGED InvalidationSet
    BY <1>3 DEF vars, files, InvalidationSet, PendingOwners, PendingFor
  <2> QED
    BY <1>3, <2>1 DEF vars, files, session, Dropped
<1>4. CASE StartSession \/ Restart \/ EndSession \/ Crash
  BY <1>4 DEF StartSession, Restart, BeginRun, EndSession, Crash, SessionOver
<1>5. CASE Approve \/ ReplayApproval \/ ExitOtherwise
  BY <1>5 DEF Approve, ReplayApproval, ExitOtherwise, AtOwner, RunUnchanged
<1>6. CASE \E o \in Owners : DeclinePending(o)
  BY <1>6 DEF DeclinePending
<1>7. CASE \E C \in Classified : PersistHuman(C) \/ WriteRequests(C)
  BY <1>7 DEF PersistHuman, WriteRequests, AtTrigger, session
<1>8. CASE BumpRevisions
  BY <1>8 DEF BumpRevisions, TriggerInv
<1> QED
  BY <1>1, <1>2, <1>3, <1>4, <1>5, <1>6, <1>7, <1>8 DEF Next, System

----------------------------------------------------------------------------
(* Every reachable state satisfies the inductive invariant.                *)
THEOREM InvariantHolds == Spec => []IInv
<1>1. IInv /\ [Next]_vars => IInv'
  BY NextType, NextTrigger, NextAccount, NextUnreplayable, NextDropped DEF IInv
<1> QED
  BY InitIInv, <1>1, PTL DEF Spec

(* The circuit is well typed; in particular no session restarts more than  *)
(* MaxReplanRounds times (extension.ts:440-444).                           *)
THEOREM TypeCorrect == Spec => []TypeOK
<1>1. IInv => TypeOK
  BY DEF IInv
<1> QED
  BY InvariantHolds, <1>1, PTL

(* R5: rounds and triggered restarts stay within the budget of the track.  *)
THEOREM BudgetKept == Spec => []ReplanBudget
<1>1. IInv => ReplanBudget
  <2> SUFFICES ASSUME IInv PROVE ReplanBudget
    OBVIOUS
  <2>1. MaxReplanRounds * (lost + 1) = MaxReplanRounds * lost + MaxReplanRounds
        /\ MaxReplanRounds * lost \in Nat
    BY CircuitAssumption, Times DEF IInv, TypeOK
  <2>2. charged <= MaxReplanRounds * (lost + 1)
    BY <2>1, CircuitAssumption DEF IInv, TypeOK, Account
  <2>3. triggered + (IF marker = "trigger" THEN 1 ELSE 0) <= charged
    BY DEF IInv, TypeOK, Account, Outstanding
  <2> QED
    BY <2>2, <2>3 DEF ReplanBudget
<1> QED
  BY InvariantHolds, <1>1, PTL

(* A request whose trigger was not cut short is addressed only after its   *)
(* owner's review approved live (replan.ts:12-14).                         *)
THEOREM Addressed == Spec => []AddressedUnlessCut
<1>1. IInv => AddressedUnlessCut
  BY DEF IInv, Unreplayable
<1> QED
  BY InvariantHolds, <1>1, PTL

(* The restart after a trigger has nothing stale to replay for an owner    *)
(* that has to revise, nor for the stages after it (B6).                   *)
THEOREM Revises == Spec => RestartRevises
<1>1. IInv /\ [Next]_vars =>
        [Restart /\ marker = "trigger" =>
           \A s \in InvalidationSet \ {LastStage} : rows[s] = "none"]_vars
  BY DEF IInv, Dropped
<1> QED
  BY InvariantHolds, <1>1, PTL DEF Spec, RestartRevises

(***************************************************************************)
(* Spec convergence.  What makes an approval close what it should: a row   *)
(* of the ledger that was downgraded blocks no longer, one that a request  *)
(* or a later stage left as it found it is not downgraded; a request's row *)
(* blocks only while the request is pending; and a row a later stage sent  *)
(* back is re-attributed at the first round, or struck off there.          *)
(***************************************************************************)
RowHolds(f, row) ==
  /\ row.downgraded => ~row.blocking
  /\ row.detected = "verify" => ~row.downgraded
  /\ row.detected = "replan" => f = Replan /\ ~row.downgraded

LedgerInv ==
  /\ ledger \in [Identities -> Row] /\ disk \in [Identities -> Row]
  /\ \A f \in Identities : RowHolds(f, ledger[f])
  /\ \A f \in Identities : disk[f].downgraded => ~disk[f].blocking

(* The file is the ledger, but for a process that has not yet begun its    *)
(* first round, or has just struck something off in it.                    *)
Entering == pc = "start" \/ (pc = "round" /\ round = 0)
FileInv ==
  /\ Entering => ledger = Empty \/ disk = ledger
  /\ ~Entering /\ pc \notin {"writing", "fatal"} => disk = ledger

RequestInv ==
  \A f \in Identities : Blocks(ledger[f]) /\ ledger[f].detected = "replan" => replanRequest = "pending"

OrphanInv ==
  ~Entering /\ pc \notin {"routed", "fatal"} =>
    \A f \in Identities : Blocks(ledger[f]) /\ ledger[f].detected = "verify" => f \in orphans

(* What has passed the trace gate, on the way to the review.               *)
TraceInv ==
  /\ pc = "bouncing" => traced
  /\ pc \in {"family", "reviewing", "approved", "carried"} => traced \/ patched

CountInv ==
  /\ round \in Nat /\ reviewRound \in Nat
  /\ pc \in Working => reviewRound < round
  /\ pc # "fatal" => writerErrors < FatalErrors /\ reviewErrors < FatalErrors

SpecInv == SpecTypeOK /\ CountInv /\ LedgerInv /\ FileInv /\ RequestInv /\ OrphanInv /\ TraceInv

-----------------------------------------------------------------------------
(* What recording, claiming and verifying leave in a ledger.                *)

(* A row as it is recorded: only a request and a later stage detect a       *)
(* finding elsewhere, and their rows block.                                 *)
FreshRow(f, row) ==
  /\ row \in Row
  /\ row.downgraded => ~row.blocking
  /\ row.detected # "spec" => row.blocking /\ ~row.downgraded
  /\ row.detected = "replan" => f = Replan

(* L comes from l by a step that detects nothing outside this stage.        *)
Grows(l, L) ==
  /\ L \in [Identities -> Row]
  /\ \A f \in Identities :
       /\ RowHolds(f, L[f])
       /\ L[f].detected # "spec" /\ Blocks(L[f]) => Blocks(l[f]) /\ L[f].detected = l[f].detected

LEMMA NewRowIs ==
  ASSUME NEW status \in Status, NEW blocking \in BOOLEAN, NEW duty \in BOOLEAN, NEW detected \in Detected
  PROVE  LET row == NewRow(status, blocking, duty, detected)
         IN /\ row \in Row /\ row.downgraded = duty /\ row.detected = detected /\ row.status = status
            /\ duty => ~row.blocking
            /\ status \notin {"verified", "deferred"} /\ blocking /\ ~duty => row.blocking
<1>. DEFINE blocks == IF duty \/ status \in {"verified", "deferred"} THEN FALSE
                      ELSE status = "needs-human" \/ blocking
<1>1. blocks \in BOOLEAN /\ (duty => ~blocks) /\ (status \notin {"verified", "deferred"} /\ blocking /\ ~duty => blocks)
  OBVIOUS
<1>2. NewRow(status, blocking, duty, detected)
        = [status |-> status, blocking |-> blocks, downgraded |-> duty, detected |-> detected]
  BY DEF NewRow
<1>. HIDE DEF blocks
<1>. QED BY <1>1, <1>2 DEF Row

(* The row of a blocker.                                                    *)
LEMMA BlockerRow ==
  ASSUME NEW f, NEW status \in {"open", "addressed", "needs-human"}, NEW detected \in Detected,
         detected = "replan" => f = Replan
  PROVE  /\ FreshRow(f, NewRow(status, TRUE, FALSE, detected))
         /\ Blocks(NewRow(status, TRUE, FALSE, detected))
         /\ ~NewRow(status, TRUE, FALSE, detected).downgraded
         /\ NewRow(status, TRUE, FALSE, detected).detected = detected
<1>1. status \in Status
  BY DEF Status
<1>2. NewRow(status, TRUE, FALSE, detected)
        = [status |-> status, blocking |-> TRUE, downgraded |-> FALSE, detected |-> detected]
  BY DEF NewRow
<1>3. PICK row : row = NewRow(status, TRUE, FALSE, detected)
  OBVIOUS
<1>4. PICK yes \in BOOLEAN, no \in BOOLEAN : yes = TRUE /\ no = FALSE
  OBVIOUS
<1>5. row = [status |-> status, blocking |-> yes, downgraded |-> no, detected |-> detected]
  BY <1>2, <1>3, <1>4
<1>6. row.status = status /\ row.blocking = yes /\ row.downgraded = no /\ row.detected = detected
  BY <1>5
<1>7. row \in Row
  BY <1>1, <1>5 DEF Row
<1>8. row.blocking /\ ~row.downgraded
  BY <1>4, <1>6
<1>9. FreshRow(f, row) /\ Blocks(row)
  BY <1>6, <1>7, <1>8 DEF FreshRow, Blocks, Active
<1>. QED BY <1>3, <1>6, <1>8, <1>9

LEMMA MergeHolds ==
  ASSUME NEW f, NEW old \in Row, RowHolds(f, old), NEW new \in Row, FreshRow(f, new)
  PROVE  Merge(old, new) \in Row /\ RowHolds(f, Merge(old, new)) /\ Merge(old, new).detected = new.detected
<1>1. CASE old.status = "absent"
  BY <1>1 DEF Merge, FreshRow, RowHolds
<1>2. CASE old.status # "absent"
  <2>. DEFINE status == IF new.status = "addressed" THEN "open" ELSE new.status
              blocking == ~new.downgraded /\ (old.blocking \/ new.blocking)
              downgraded == new.downgraded \/ (old.downgraded /\ ~new.blocking)
  <2>1. Merge(old, new) = [status |-> status, blocking |-> blocking, downgraded |-> downgraded,
                           detected |-> new.detected]
    BY <1>2 DEF Merge
  <2>2. /\ old.blocking \in BOOLEAN /\ old.downgraded \in BOOLEAN
        /\ new.blocking \in BOOLEAN /\ new.downgraded \in BOOLEAN
        /\ status \in Status /\ new.detected \in Detected
    BY DEF Row, Status
  <2>3. /\ old.downgraded => ~old.blocking
        /\ new.downgraded => ~new.blocking
        /\ new.detected # "spec" => new.blocking /\ ~new.downgraded
        /\ new.detected = "replan" => f = Replan
    BY DEF RowHolds, FreshRow
  <2>4. /\ blocking \in BOOLEAN /\ downgraded \in BOOLEAN /\ (downgraded => ~blocking)
        /\ new.detected # "spec" => ~downgraded
    BY <2>2, <2>3
  <2>. HIDE DEF status, blocking, downgraded
  <2>5. Merge(old, new) \in Row
    BY <2>1, <2>2, <2>4 DEF Row
  <2>6. RowHolds(f, Merge(old, new))
    BY <2>1, <2>3, <2>4 DEF RowHolds
  <2>. QED BY <2>1, <2>5, <2>6
<1>. QED BY <1>1, <1>2

LEMMA RecordedHolds ==
  ASSUME NEW l \in [Identities -> Row], \A f \in Identities : RowHolds(f, l[f]),
         NEW entries, \A f \in Identities : f \in DOMAIN entries => FreshRow(f, entries[f])
  PROVE  /\ Recorded(l, entries) \in [Identities -> Row]
         /\ \A f \in Identities :
              /\ RowHolds(f, Recorded(l, entries)[f])
              /\ IF f \in DOMAIN entries
                 THEN /\ Recorded(l, entries)[f] = Merge(l[f], entries[f])
                      /\ Recorded(l, entries)[f].detected = entries[f].detected
                 ELSE Recorded(l, entries)[f] = l[f]
<1>1. ASSUME NEW f \in Identities
      PROVE  /\ Recorded(l, entries)[f] \in Row /\ RowHolds(f, Recorded(l, entries)[f])
             /\ IF f \in DOMAIN entries
                 THEN /\ Recorded(l, entries)[f] = Merge(l[f], entries[f])
                      /\ Recorded(l, entries)[f].detected = entries[f].detected
                 ELSE Recorded(l, entries)[f] = l[f]
  <2>1. CASE f \in DOMAIN entries
    <3>1. Recorded(l, entries)[f] = Merge(l[f], entries[f])
      BY <2>1 DEF Recorded
    <3>2. entries[f] \in Row /\ FreshRow(f, entries[f]) /\ l[f] \in Row
      BY <2>1 DEF FreshRow
    <3>. QED BY <2>1, <3>1, <3>2, MergeHolds
  <2>2. CASE f \notin DOMAIN entries
    BY <2>2 DEF Recorded
  <2>. QED BY <2>1, <2>2
<1>2. Recorded(l, entries) = [f \in Identities |-> Recorded(l, entries)[f]]
  BY DEF Recorded
<1>. QED BY <1>1, <1>2

LEMMA OwnRowsGrow ==
  ASSUME NEW l \in [Identities -> Row], \A f \in Identities : RowHolds(f, l[f]),
         NEW entries, \A f \in Identities : f \in DOMAIN entries => FreshRow(f, entries[f]) /\ entries[f].detected = "spec"
  PROVE  Grows(l, Recorded(l, entries))
<1>1. /\ Recorded(l, entries) \in [Identities -> Row]
      /\ \A f \in Identities :
           /\ RowHolds(f, Recorded(l, entries)[f])
           /\ Recorded(l, entries)[f].detected = "spec" \/ Recorded(l, entries)[f] = l[f]
  BY RecordedHolds
<1>. QED BY <1>1 DEF Grows

LEMMA SameGrows ==
  ASSUME NEW l \in [Identities -> Row], \A f \in Identities : RowHolds(f, l[f])
  PROVE  Grows(l, l)
BY DEF Grows

LEMMA GrowsOn ==
  ASSUME NEW l, NEW k, NEW m, Grows(l, k), Grows(k, m)
  PROVE  Grows(l, m)
BY DEF Grows

LEMMA GateRowGrows ==
  ASSUME NEW l \in [Identities -> Row], \A f \in Identities : RowHolds(f, l[f])
  PROVE  Grows(l, Recorded(l, GateRow))
<1>1. FreshRow(Gate, NewRow("open", TRUE, FALSE, "spec")) /\ NewRow("open", TRUE, FALSE, "spec").detected = "spec"
  <2>1. "spec" \in Detected
    BY DEF Detected
  <2>2. PICK row : row = NewRow("open", TRUE, FALSE, "spec")
    OBVIOUS
  <2>. QED BY <2>1, <2>2, BlockerRow
<1>2. \A f \in Identities : f \in DOMAIN GateRow => FreshRow(f, GateRow[f]) /\ GateRow[f].detected = "spec"
  BY <1>1 DEF GateRow
<1>. QED BY <1>2, OwnRowsGrow

LEMMA ClaimGrows ==
  ASSUME NEW l \in [Identities -> Row], \A f \in Identities : RowHolds(f, l[f]), NEW answered \in SUBSET Blocking(l)
  PROVE  Grows(l, Claimed(l, answered))
<1>1. ASSUME NEW f \in Identities
      PROVE  LET row == Claimed(l, answered)[f]
             IN /\ row \in Row /\ RowHolds(f, row)
                /\ row.detected = l[f].detected /\ (Blocks(row) => Blocks(l[f]))
  <2>1. CASE f \in answered
    <3>1. PICK row : row = [l[f] EXCEPT !.status = "addressed"]
      OBVIOUS
    <3>2. row \in Row /\ row.detected = l[f].detected /\ row.downgraded = l[f].downgraded
          /\ row.blocking = l[f].blocking
      BY <3>1 DEF Row, Status
    <3>3. RowHolds(f, row) /\ Blocks(l[f])
      BY <2>1, <3>2 DEF RowHolds, Blocking
    <3>. QED BY <2>1, <3>1, <3>2, <3>3 DEF Claimed
  <2>2. CASE f \notin answered
    BY <2>2 DEF Claimed
  <2>. QED BY <2>1, <2>2
<1>2. Claimed(l, answered) = [f \in Identities |-> Claimed(l, answered)[f]]
  BY DEF Claimed
<1>. QED BY <1>1, <1>2 DEF Grows

LEMMA VerifyGrows ==
  ASSUME NEW l \in [Identities -> Row], \A f \in Identities : RowHolds(f, l[f]), NEW genuine
  PROVE  /\ Grows(l, Verified(l, genuine))
         /\ \A f \in Identities : Blocks(Verified(l, genuine)[f]) =>
              Verified(l, genuine)[f] = l[f] /\ ~Closes(f, l[f], genuine)
<1>1. ASSUME NEW f \in Identities
      PROVE  LET row == Verified(l, genuine)[f]
             IN /\ row \in Row /\ RowHolds(f, row) /\ (Blocks(row) => row = l[f] /\ ~Closes(f, l[f], genuine))
  <2>1. CASE Closes(f, l[f], genuine)
    <3>1. PICK row : row = [l[f] EXCEPT !.status = "verified"]
      OBVIOUS
    <3>2. row \in Row /\ row.detected = l[f].detected /\ row.downgraded = l[f].downgraded
          /\ row.blocking = l[f].blocking /\ row.status = "verified"
      BY <3>1 DEF Row, Status
    <3>3. RowHolds(f, row) /\ ~Blocks(row)
      BY <3>2 DEF RowHolds, Blocks, Active
    <3>. QED BY <2>1, <3>1, <3>2, <3>3 DEF Verified
  <2>2. CASE ~Closes(f, l[f], genuine)
    BY <2>2 DEF Verified
  <2>. QED BY <2>1, <2>2
<1>2. Verified(l, genuine) = [f \in Identities |-> Verified(l, genuine)[f]]
  BY DEF Verified
<1>. QED BY <1>1, <1>2 DEF Grows

LEMMA MergedBlocks ==
  ASSUME NEW old \in Row, NEW new \in Row, Blocks(new), ~new.downgraded
  PROVE  Blocks(Merge(old, new))
<1>1. CASE old.status = "absent"
  BY <1>1 DEF Merge
<1>2. CASE old.status # "absent"
  <2>. DEFINE status == IF new.status = "addressed" THEN "open" ELSE new.status
              blocking == ~new.downgraded /\ (old.blocking \/ new.blocking)
              downgraded == new.downgraded \/ (old.downgraded /\ ~new.blocking)
  <2>1. Merge(old, new) = [status |-> status, blocking |-> blocking, downgraded |-> downgraded,
                           detected |-> new.detected]
    BY <1>2 DEF Merge
  <2>2. status \in {"open", "needs-human"}
    BY DEF Blocks, Active
  <2>3. blocking
    BY DEF Blocks
  <2>. HIDE DEF status, blocking, downgraded
  <2>4. PICK row : row = Merge(old, new)
    OBVIOUS
  <2>5. row.status = status /\ row.blocking = blocking
    BY <2>1, <2>4
  <2>. QED BY <2>2, <2>3, <2>4, <2>5 DEF Blocks, Active
<1>. QED BY <1>1, <1>2

LEMMA ReviewRowFresh ==
  ASSUME NEW review, NEW f
  PROVE  FreshRow(f, ReviewRow(review, f)) /\ ReviewRow(review, f).detected = "spec"
<1>. DEFINE duty == f \in review.duty
<1>1. PICK row : row = ReviewRow(review, f)
  OBVIOUS
<1>2. "spec" \in Detected /\ {"verified", "needs-human", "open"} \subseteq Status /\ duty \in BOOLEAN
  BY DEF Detected, Status
<1>3. PICK yes \in BOOLEAN, no \in BOOLEAN : yes = TRUE /\ no = FALSE
  OBVIOUS
<1>4. PICK heard \in BOOLEAN : heard = (review.says[f] = "blocks")
  OBVIOUS
<1>5. \/ row = NewRow("verified", no, no, "spec")
      \/ row = NewRow("needs-human", yes, duty, "spec")
      \/ row = NewRow("open", heard, duty, "spec")
  BY <1>1, <1>3, <1>4 DEF ReviewRow
<1>. HIDE DEF duty
<1>6. ASSUME NEW status \in Status, NEW b \in BOOLEAN, NEW d \in BOOLEAN, row = NewRow(status, b, d, "spec")
      PROVE  row \in Row /\ (row.downgraded => ~row.blocking) /\ row.detected = "spec"
  BY <1>2, <1>6, NewRowIs
<1>7. row \in Row /\ (row.downgraded => ~row.blocking) /\ row.detected = "spec"
  BY <1>2, <1>3, <1>4, <1>5, <1>6
<1>. QED BY <1>1, <1>7 DEF FreshRow

LEMMA ReviewGrows ==
  ASSUME NEW l \in [Identities -> Row], \A f \in Identities : RowHolds(f, l[f]), NEW review
  PROVE  Grows(l, Recorded(l, ReviewRows(review)))
<1>1. \A f \in Identities : f \in DOMAIN ReviewRows(review) =>
        FreshRow(f, ReviewRows(review)[f]) /\ ReviewRows(review)[f].detected = "spec"
  BY ReviewRowFresh DEF ReviewRows
<1>. QED BY <1>1, OwnRowsGrow

LEMMA NothingGrows ==
  ASSUME NEW l \in [Identities -> Row], \A f \in Identities : RowHolds(f, l[f])
  PROVE  Grows(l, Recorded(l, << >>))
<1>1. \A f \in Identities : f \notin DOMAIN << >>
  OBVIOUS
<1>. QED BY <1>1, OwnRowsGrow

-----------------------------------------------------------------------------
(* A step within a round.                                                   *)

InRound ==
  /\ pc \in Working /\ pc' # "start" /\ round' = round
  /\ \/ ledger' = ledger /\ disk' = disk /\ (pc # "writing" \/ pc' = "fatal")
     \/ Grows(ledger, ledger') /\ disk' = ledger'
  /\ \A f \in Identities : Blocks(ledger'[f]) /\ ledger'[f].detected = "replan" => replanRequest' = replanRequest
  /\ \A f \in Identities : f \in orphans /\ ledger[f].detected = "verify" => f \in orphans'

LEMMA InRoundKeeps ==
  ASSUME SpecInv, InRound
  PROVE  LedgerInv' /\ FileInv' /\ RequestInv' /\ OrphanInv'
<1>. USE DEF SpecInv
<1>1. /\ ledger \in [Identities -> Row] /\ disk \in [Identities -> Row]
      /\ \A f \in Identities : RowHolds(f, ledger[f])
      /\ \A f \in Identities : disk[f].downgraded => ~disk[f].blocking
  BY DEF LedgerInv
<1>2. round > 0 /\ pc \notin {"start", "round", "routed", "fatal"}
  BY DEF InRound, CountInv, Working
<1>3. ~Entering /\ ~Entering'
  BY <1>2 DEF Entering, InRound
<1>4. Grows(ledger, ledger')
  BY <1>1, SameGrows DEF InRound
<1>5. LedgerInv'
  <2>1. CASE ledger' = ledger /\ disk' = disk
    BY <1>1, <2>1 DEF LedgerInv
  <2>2. CASE disk' = ledger'
    BY <1>4, <2>2 DEF Grows, LedgerInv, RowHolds
  <2>. QED BY <2>1, <2>2 DEF InRound
<1>6. FileInv'
  BY <1>2, <1>3 DEF FileInv, InRound
<1>7. RequestInv'
  BY <1>4 DEF RequestInv, InRound, Grows
<1>8. OrphanInv'
  BY <1>2, <1>3, <1>4 DEF OrphanInv, InRound, Grows
<1>. QED BY <1>5, <1>6, <1>7, <1>8

(* Every step of a round but the verdict: it records what failed or was     *)
(* claimed, or nothing.                                                     *)
WorkStep ==
  \/ Write \/ TracePasses \/ TraceStrike \/ TraceFails \/ Bounce \/ NoBounce
  \/ FamilyPasses \/ FamilyStrike \/ FamilyFails \/ Retrace \/ Refused \/ ReviewFails

LEMMA WorkStepInRound ==
  ASSUME SpecInv, WorkStep
  PROVE  InRound
<1>1. /\ ledger \in [Identities -> Row] /\ \A f \in Identities : RowHolds(f, ledger[f])
  BY DEF SpecInv, LedgerInv
<1>2. Grows(ledger, Recorded(ledger, GateRow))
  BY <1>1, GateRowGrows
<1>3. \A answered \in SUBSET Blocking(ledger) : Grows(ledger, Claimed(ledger, answered))
  BY <1>1, ClaimGrows
<1>4. pc \in Working /\ pc' # "start" /\ round' = round /\ replanRequest' = replanRequest
  BY DEF WorkStep, Working, Write, TracePasses, TraceStrike, TraceFails, Bounce, NoBounce, FamilyPasses,
         FamilyStrike, FamilyFails, Retrace, Refused, ReviewFails, NextRound, AfterBounce, AfterStrike,
         counters
<1>5. \A f \in Identities : f \in orphans /\ ledger[f].detected = "verify" => f \in orphans'
  BY DEF WorkStep, Write, TracePasses, TraceStrike, TraceFails, Bounce, NoBounce, FamilyPasses,
         FamilyStrike, FamilyFails, Retrace, Refused, ReviewFails, Render, ghosts
<1>6. \/ ledger' = ledger /\ disk' = disk /\ (pc # "writing" \/ pc' = "fatal")
      \/ Grows(ledger, ledger') /\ disk' = ledger'
  <2>1. CASE Write
    BY <2>1, <1>2, <1>3 DEF Write, Keep
  <2>2. CASE TracePasses \/ Bounce \/ NoBounce \/ FamilyPasses
    BY <2>2 DEF TracePasses, Bounce, NoBounce, FamilyPasses
  <2>3. CASE TraceStrike \/ TraceFails \/ FamilyStrike \/ FamilyFails \/ Retrace \/ Refused
    BY <2>3, <1>2 DEF TraceStrike, TraceFails, FamilyStrike, FamilyFails, Retrace, Refused, Keep
  <2>4. CASE ReviewFails
    BY <2>4, <1>2 DEF ReviewFails, Keep
  <2>. QED BY <2>1, <2>2, <2>3, <2>4 DEF WorkStep
<1>. QED BY <1>4, <1>5, <1>6 DEF InRound

(* The verdict of a round, one of three.                                    *)
LEMMA ReviewIsOne ==
  ASSUME Review
  PROVE  \E review : Approval(review) \/ Carry(review) \/ Reject(review)
<1>1. PICK verdict \in {"approved", "changes", "malformed"}, says \in Reviews :
       LET heard == [verdict |-> verdict, duty |-> {}, says |-> says]
           review == [heard EXCEPT !.duty = Downgraded(heard, reviewRound')]
       IN Approval(review) \/ Carry(review) \/ Reject(review)
  BY DEF Review
<1>. DEFINE heard == [verdict |-> verdict, duty |-> {}, says |-> says]
<1>2. PICK review : review = [heard EXCEPT !.duty = Downgraded(heard, reviewRound')]
  OBVIOUS
<1>3. Approval(review) \/ Carry(review) \/ Reject(review)
  BY <1>1, <1>2
<1>. QED BY <1>3

(* What an approval leaves open it did not close, and it closes a request's *)
(* own row whenever it answers the request.                                 *)
LEMMA ApprovalStep ==
  ASSUME SpecInv, Review, NEW review, Approval(review)
  PROVE  /\ InRound
         /\ \A f \in Identities : Blocks(ledger'[f]) => ~Closes(f, ledger'[f], Genuine(review))
<1>1. /\ ledger \in [Identities -> Row] /\ \A f \in Identities : RowHolds(f, ledger[f])
  BY DEF SpecInv, LedgerInv
<1>2. PICK entries : /\ entries = IF review.duty # {} \/ Carried(review) # {} THEN ReviewRows(review) ELSE << >>
                  /\ Keep(Verified(Recorded(ledger, entries), Genuine(review)))
  BY DEF Approval
<1>3. Grows(ledger, Recorded(ledger, entries))
  BY <1>1, <1>2, ReviewGrows, NothingGrows
<1>4. PICK m : m = Recorded(ledger, entries)
  OBVIOUS
<1>5. m \in [Identities -> Row] /\ \A f \in Identities : RowHolds(f, m[f])
  BY <1>3, <1>4 DEF Grows
<1>6. ledger' = Verified(m, Genuine(review)) /\ disk' = ledger'
  BY <1>2, <1>4 DEF Keep
<1>7. /\ Grows(m, ledger')
      /\ \A f \in Identities : Blocks(ledger'[f]) => ledger'[f] = m[f] /\ ~Closes(f, m[f], Genuine(review))
  BY <1>5, <1>6, VerifyGrows
<1>8. Grows(ledger, ledger')
  BY <1>3, <1>4, <1>7, GrowsOn
<1>9. \A f \in Identities : Blocks(ledger'[f]) => ~Closes(f, ledger'[f], Genuine(review))
  BY <1>7
<1>10. ASSUME NEW f \in Identities, Blocks(ledger'[f]), ledger'[f].detected = "replan"
       PROVE  replanRequest' = replanRequest
  <2>1. f = Replan /\ ~ledger'[f].downgraded
    BY <1>8, <1>10 DEF Grows, RowHolds
  <2>2. Active(ledger'[f]) /\ Actionable(f)
    BY <1>10, <2>1, SpecAssumption DEF Blocks, Actionable
  <2>3. ~Genuine(review)
    BY <1>9, <1>10, <2>1, <2>2 DEF Closes
  <2>. QED BY <2>3 DEF Approval
<1>11. /\ pc \in Working /\ pc' # "start" /\ round' = round /\ orphans' = orphans
  BY DEF Review, Approval, Working
<1>. QED BY <1>6, <1>8, <1>9, <1>10, <1>11 DEF InRound

LEMMA OtherVerdicts ==
  ASSUME SpecInv, Review, NEW review, Carry(review) \/ Reject(review)
  PROVE  InRound /\ pc' # "approved"
<1>1. /\ ledger \in [Identities -> Row] /\ \A f \in Identities : RowHolds(f, ledger[f])
  BY DEF SpecInv, LedgerInv
<1>2. ledger' = Recorded(ledger, ReviewRows(review)) /\ disk' = ledger' /\ replanRequest' = replanRequest
  BY DEF Carry, Reject, Keep
<1>3. Grows(ledger, ledger')
  BY <1>1, <1>2, ReviewGrows
<1>4. pc \in Working /\ pc' \notin {"start", "approved"} /\ round' = round /\ orphans' = orphans
  BY DEF Review, Carry, Reject, Working
<1>. QED BY <1>2, <1>3, <1>4 DEF InRound

-----------------------------------------------------------------------------
(* The first round of a run: what it is told, and what it strikes off.      *)

LedgersHold == LedgerInv /\ FileInv /\ RequestInv /\ OrphanInv

LEMMA PriorBlocks ==
  ASSUME LedgerInv, NEW f \in Identities, Blocks(disk[f])
  PROVE  f \in Prior
BY DEF LedgerInv, Prior, Injectable, Blocks, Active

(* The ledger a walk starts with when it was told of something.             *)
LEMMA ToldRows ==
  ASSUME LedgerInv, NEW told \in SUBSET Prior,
         NEW before, before = Recorded(ledger, PriorRows(told)), NEW after, after = Recorded(before, RequestRow)
  PROVE  /\ after \in [Identities -> Row] /\ \A f \in Identities : RowHolds(f, after[f])
         /\ \A f \in Identities : Blocks(after[f]) /\ after[f].detected # "spec" =>
              \/ after[f].detected = "replan" /\ replanRequest = "pending"
              \/ f \notin told /\ Blocks(ledger[f]) /\ after[f].detected = ledger[f].detected
         /\ \A f \in told : Blocks(after[f])
<1>1. ledger \in [Identities -> Row] /\ \A f \in Identities : RowHolds(f, ledger[f])
  BY DEF LedgerInv
<1>2. ASSUME NEW f \in told
      PROVE  /\ FreshRow(f, PriorRows(told)[f]) /\ PriorRows(told)[f].detected = "spec"
             /\ Blocks(PriorRows(told)[f]) /\ ~PriorRows(told)[f].downgraded
  <2>1. disk[f].status \in {"open", "needs-human", "addressed"}
    BY DEF Prior, Injectable
  <2>2. PICK status : status = disk[f].status
    OBVIOUS
  <2>3. status \in {"open", "addressed", "needs-human"} /\ "spec" \in Detected
    BY <2>1, <2>2 DEF Detected
  <2>4. PriorRows(told)[f] = NewRow(status, TRUE, FALSE, "spec")
    BY <2>2 DEF PriorRows
  <2>5. /\ FreshRow(f, NewRow(status, TRUE, FALSE, "spec"))
        /\ Blocks(NewRow(status, TRUE, FALSE, "spec"))
        /\ ~NewRow(status, TRUE, FALSE, "spec").downgraded
        /\ NewRow(status, TRUE, FALSE, "spec").detected = "spec"
    BY <2>3, BlockerRow
  <2>. QED BY <2>4, <2>5
<1>3. DOMAIN PriorRows(told) = told /\ told \subseteq Identities
  BY DEF PriorRows, Prior
<1>4. /\ before \in [Identities -> Row]
      /\ \A f \in Identities :
           /\ RowHolds(f, before[f])
           /\ IF f \in told
              THEN before[f] = Merge(ledger[f], PriorRows(told)[f]) /\ before[f].detected = "spec"
              ELSE before[f] = ledger[f]
  BY <1>1, <1>2, <1>3, RecordedHolds
<1>5. \A f \in told : Blocks(before[f])
  BY <1>1, <1>2, <1>3, <1>4, MergedBlocks DEF FreshRow
<1>6. CASE replanRequest = "pending"
  <2>1. RequestRow = [f \in {Replan} |-> NewRow("open", TRUE, FALSE, "replan")]
    BY <1>6 DEF RequestRow
  <2>2. "replan" \in Detected
    BY DEF Detected
  <2>4. PICK new : new = NewRow("open", TRUE, FALSE, "replan")
    OBVIOUS
  <2>5. new \in Row /\ FreshRow(Replan, new) /\ new.detected = "replan" /\ Blocks(new) /\ ~new.downgraded
    <3>1. FreshRow(Replan, new) /\ new.detected = "replan" /\ Blocks(new) /\ ~new.downgraded
      BY <2>2, <2>4, BlockerRow
    <3>. QED BY <3>1 DEF FreshRow
  <2>6. DOMAIN RequestRow = {Replan} /\ RequestRow[Replan] = new
    BY <2>1, <2>4
  <2>7. /\ after \in [Identities -> Row]
        /\ \A f \in Identities :
             /\ RowHolds(f, after[f])
             /\ IF f = Replan
                THEN after[f] = Merge(before[f], new) /\ after[f].detected = "replan"
                ELSE after[f] = before[f]
    BY <1>4, <2>5, <2>6, RecordedHolds
  <2>8. \A f \in told : Blocks(after[f])
    BY <1>3, <1>4, <1>5, <2>5, <2>7, MergedBlocks
  <2>9. \A f \in Identities : Blocks(after[f]) /\ after[f].detected # "spec" =>
          \/ after[f].detected = "replan"
          \/ f \notin told /\ Blocks(ledger[f]) /\ after[f].detected = ledger[f].detected
    BY <1>4, <2>7
  <2>. QED BY <1>6, <2>7, <2>8, <2>9
<1>7. CASE replanRequest # "pending"
  <2>1. \A f \in Identities : f \notin DOMAIN RequestRow
    BY <1>7 DEF RequestRow
  <2>2. after \in [Identities -> Row] /\ \A f \in Identities : RowHolds(f, after[f]) /\ after[f] = before[f]
    BY <1>4, <2>1, RecordedHolds
  <2>. QED BY <1>3, <1>4, <1>5, <2>2
<1>. QED BY <1>6, <1>7

LEMMA FirstRound ==
  ASSUME LedgersHold, pc = "round", round = 0, pc' = "writing", round' = 1, UNCHANGED replanRequest,
         NEW some \in Orphans, Inject(Prior \ some), orphans' = some
  PROVE  /\ LedgersHold'
         /\ \A f \in Identities : Blocks(disk[f]) => Blocks(ledger'[f]) \/ f \in orphans'
<1>. DEFINE told == Prior \ some
<1>1. some \subseteq Prior /\ Prior \subseteq Identities /\ Entering
  BY DEF Orphans, Prior, Entering
<1>2. /\ ledger \in [Identities -> Row] /\ disk \in [Identities -> Row]
      /\ \A f \in Identities : RowHolds(f, ledger[f])
      /\ \A f \in Identities : disk[f].downgraded => ~disk[f].blocking
  BY DEF LedgersHold, LedgerInv
<1>3. ASSUME NEW f \in Identities, Blocks(ledger[f])
      PROVE  f \in Prior
  <2>1. ledger # Empty
    BY <1>3 DEF Empty, Absent, Blocks, Active
  <2>2. disk = ledger
    BY <1>1, <2>1 DEF LedgersHold, FileInv
  <2>. QED BY <1>3, <2>2, PriorBlocks DEF LedgersHold
<1>4. FileInv'
  BY DEF FileInv, Entering
<1>5. CASE told = {} /\ replanRequest # "pending"
  <2>1. ledger' = ledger /\ disk' = StruckOff(Prior) /\ some = Prior
    BY <1>1, <1>5 DEF Inject
  <2>2. ASSUME NEW f \in Identities
        PROVE  disk'[f] \in Row /\ (disk'[f].downgraded => ~disk'[f].blocking)
    <3>1. CASE f \in Prior
      <4>1. disk'[f] = [disk[f] EXCEPT !.status = "superseded", !.blocking = FALSE, !.downgraded = TRUE]
        BY <2>1, <3>1 DEF StruckOff
      <4>2. PICK yes \in BOOLEAN, no \in BOOLEAN : yes = TRUE /\ no = FALSE
        OBVIOUS
      <4>3. PICK row : row = [disk[f] EXCEPT !.status = "superseded", !.blocking = no, !.downgraded = yes]
        OBVIOUS
      <4>4. row \in Row /\ row.blocking = no
        BY <1>2, <4>3 DEF Row, Status
      <4>. QED BY <4>1, <4>2, <4>3, <4>4
    <3>2. CASE f \notin Prior
      BY <1>2, <2>1, <3>2 DEF StruckOff
    <3>. QED BY <3>1, <3>2
  <2>3. disk' = [f \in Identities |-> disk'[f]]
    BY <2>1 DEF StruckOff
  <2>4. LedgerInv'
    BY <1>2, <2>1, <2>2, <2>3 DEF LedgerInv
  <2>5. RequestInv'
    BY <2>1 DEF LedgersHold, RequestInv
  <2>6. \A f \in Identities : Blocks(disk[f]) \/ Blocks(ledger'[f]) => f \in orphans'
    BY <1>3, <2>1, PriorBlocks DEF LedgersHold
  <2>7. OrphanInv'
    BY <2>6 DEF OrphanInv
  <2>. QED BY <1>4, <2>4, <2>5, <2>6, <2>7 DEF LedgersHold
<1>6. CASE ~(told = {} /\ replanRequest # "pending")
  <2>1. PICK before, after : /\ before = Recorded(ledger, PriorRows(told))
                             /\ after = Recorded(before, RequestRow)
    OBVIOUS
  <2>2. ledger' = after /\ disk' = after
    BY <1>6, <2>1 DEF Inject, Keep
  <2>3. /\ after \in [Identities -> Row] /\ \A f \in Identities : RowHolds(f, after[f])
        /\ \A f \in Identities : Blocks(after[f]) /\ after[f].detected # "spec" =>
             \/ after[f].detected = "replan" /\ replanRequest = "pending"
             \/ f \notin told /\ Blocks(ledger[f]) /\ after[f].detected = ledger[f].detected
        /\ \A f \in told : Blocks(after[f])
    <3>1. told \in SUBSET Prior /\ LedgerInv
      BY DEF LedgersHold
    <3>. HIDE DEF told
    <3>. QED BY <2>1, <3>1, ToldRows
  <2>4. LedgerInv'
    BY <2>2, <2>3 DEF LedgerInv, RowHolds
  <2>5. RequestInv'
    BY <2>2, <2>3 DEF LedgersHold, RequestInv
  <2>6. OrphanInv'
    <3>1. ASSUME NEW f \in Identities, Blocks(ledger'[f]), ledger'[f].detected = "verify"
          PROVE  f \in some
      BY <1>3, <2>2, <2>3, <3>1
    <3>. QED BY <3>1 DEF OrphanInv
  <2>7. \A f \in Identities : Blocks(disk[f]) => Blocks(ledger'[f]) \/ f \in orphans'
    BY <2>2, <2>3, PriorBlocks DEF LedgersHold
  <2>. QED BY <1>4, <2>4, <2>5, <2>6, <2>7 DEF LedgersHold
<1>. QED BY <1>5, <1>6

LEMMA BeginRoundKeeps ==
  ASSUME LedgersHold, BeginRound, round \in Nat
  PROVE  /\ LedgersHold'
         /\ round = 0 /\ pc' = "writing" =>
              \A f \in Identities : Blocks(disk[f]) => Blocks(ledger'[f]) \/ f \in orphans'
<1>1. CASE round + 1 > cap /\ ~MayExtend
  <2>1. AtCap /\ UNCHANGED <<ledger, disk, round, orphans, replanRequest>> /\ pc = "round"
    BY <1>1 DEF BeginRound
  <2>2. pc' = "fatal" \/ (pc' = "routed" /\ UpstreamOpen(ledger) # {})
    <3>1. CASE UpstreamOpen(ledger) # {} /\ jumps < MaxJumps
      BY <2>1, <3>1 DEF AtCap
    <3>2. CASE ~(UpstreamOpen(ledger) # {} /\ jumps < MaxJumps)
      BY <2>1, <3>2, Zenon DEF AtCap
    <3>. QED BY <3>1, <3>2
  <2>3. ASSUME pc' = "routed"
        PROVE  disk = ledger
    <3>1. ledger # Empty
      BY <2>2, <2>3 DEF UpstreamOpen, Blocking, Empty, Absent, Blocks, Active
    <3>. QED BY <2>1, <3>1 DEF LedgersHold, FileInv, Entering
  <2>4. LedgerInv' /\ RequestInv'
    BY <2>1 DEF LedgersHold, LedgerInv, RequestInv
  <2>5. FileInv' /\ OrphanInv'
    BY <2>1, <2>2, <2>3 DEF FileInv, OrphanInv, Entering
  <2>. QED BY <2>2, <2>4, <2>5 DEF LedgersHold
<1>2. CASE ~(round + 1 > cap /\ ~MayExtend)
  <2>1. pc = "round" /\ pc' = "writing" /\ round' = round + 1 /\ UNCHANGED replanRequest
    BY <1>2 DEF BeginRound
  <2>2. CASE round = 0
    <3>1. PICK some \in Orphans : Inject(Prior \ some) /\ orphans' = some
      BY <1>2, <2>2 DEF BeginRound
    <3>2. round' = 1
      BY <2>1, <2>2
    <3>. QED BY <2>1, <2>2, <3>1, <3>2, FirstRound
  <2>3. CASE round # 0
    <3>1. UNCHANGED <<ledger, disk, orphans>>
      BY <1>2, <2>3 DEF BeginRound
    <3>2. LedgerInv' /\ RequestInv'
      BY <2>1, <3>1 DEF LedgersHold, LedgerInv, RequestInv
    <3>3. FileInv'
      BY <2>1 DEF FileInv, Entering
    <3>4. OrphanInv'
      BY <2>1, <2>3, <3>1 DEF LedgersHold, OrphanInv, Entering
    <3>. QED BY <2>3, <3>2, <3>3, <3>4 DEF LedgersHold
  <2>. QED BY <2>2, <2>3
<1>. QED BY <1>1, <1>2

-----------------------------------------------------------------------------
(* The counters, and where a round stands.                                  *)

Numbers ==
  /\ round \in Nat /\ reviewRound \in Nat /\ cap \in {MaxRounds, MaxRounds + Extension}
  /\ round <= cap /\ reviewRound <= round /\ (pc \in Working => reviewRound < round)
  /\ writerErrors \in 0 .. FatalErrors /\ reviewErrors \in 0 .. FatalErrors
  /\ (pc # "fatal" => writerErrors < FatalErrors /\ reviewErrors < FatalErrors)
  /\ budget \in 0 .. MaxAgents /\ jumps \in 0 .. MaxJumps /\ crashes \in 0 .. MaxCrashes
Readings ==
  /\ prevOpen \in 0 .. NoReading /\ lastOpen \in 0 .. NoReading /\ signature \subseteq Identities
Places ==
  /\ pc \in Ended \cup Working \cup {"start", "round"}
  /\ replanRequest \in {"none", "pending", "addressed"}

LEMMA Parts == SpecInv <=> Numbers /\ Readings /\ Places /\ LedgersHold /\ TraceInv
BY DEF SpecInv, SpecTypeOK, CountInv, Numbers, Readings, Places, LedgersHold, LedgerInv

LEMMA PartsNext == SpecInv' <=> (Numbers' /\ Readings' /\ Places' /\ LedgersHold' /\ TraceInv')
BY DEF SpecInv, SpecTypeOK, CountInv, Numbers, Readings, Places, LedgersHold, LedgerInv

LEMMA Bounds ==
  /\ MaxRounds \in Nat /\ MaxAgents \in Nat /\ MaxJumps \in Nat /\ MaxCrashes \in Nat
  /\ FatalErrors \in Nat \ {0} /\ Extension \in Nat \ {0} /\ DutyRound \in Nat \ {0}
  /\ IsFiniteSet(Identities)
BY SpecAssumption

LEMMA Reading == NoReading \in Nat /\ \A own \in SUBSET Identities : Cardinality(own) \in 0 .. NoReading
<1>1. Cardinality(Identities) \in Nat
  BY Bounds, FS_CardinalityType
<1>2. \A own \in SUBSET Identities : Cardinality(own) \in Nat /\ Cardinality(own) <= Cardinality(Identities)
  BY Bounds, FS_Subset, FS_CardinalityType
<1>. QED BY <1>1, <1>2 DEF NoReading

LEMMA NextPlaces == Places /\ [SpecNext]_specVars => Places'
<1>. SUFFICES ASSUME Places, [SpecNext]_specVars PROVE Places'
  OBVIOUS
<1>. USE DEF Places, Ended, Working
<1>1. CASE UNCHANGED specVars
  BY <1>1 DEF specVars
<1>2. CASE Start \/ BeginRound \/ OutOfBudget \/ Reenter \/ SentBack \/ ProcessDies \/ Done
  BY <1>2 DEF Start, BeginRound, AtCap, OutOfBudget, Reenter, SentBack, ProcessDies, Done, specVars
<1>3. CASE WorkStep
  BY <1>3 DEF WorkStep, Write, TracePasses, TraceStrike, TraceFails, Bounce, NoBounce, FamilyPasses,
              FamilyStrike, FamilyFails, Retrace, Refused, ReviewFails, NextRound, AfterBounce, AfterStrike
<1>4. CASE Review
  <2>1. PICK review : Approval(review) \/ Carry(review) \/ Reject(review)
    BY <1>4, ReviewIsOne
  <2>. QED BY <2>1 DEF Approval, Carry, Reject
<1>. QED BY <1>1, <1>2, <1>3, <1>4 DEF SpecNext, WorkStep

LEMMA NextReadings == Readings /\ [SpecNext]_specVars => Readings'
<1>. SUFFICES ASSUME Readings, [SpecNext]_specVars PROVE Readings'
  OBVIOUS
<1>1. NoReading \in 0 .. NoReading
  BY Reading
<1>2. CASE UNCHANGED progress
  BY <1>2 DEF progress, Readings
<1>3. CASE NoMemory
  BY <1>1, <1>3 DEF NoMemory, Readings
<1>4. CASE Enter
  BY <1>1, <1>4 DEF Enter, Readings
<1>5. CASE Write \/ TraceStrike \/ TraceFails \/ Bounce \/ FamilyStrike \/ FamilyFails \/ Retrace
           \/ Refused \/ ReviewFails
  BY <1>2, <1>3, <1>5 DEF Write, TraceStrike, TraceFails, Bounce, FamilyStrike, FamilyFails,
              Retrace, Refused, ReviewFails, NextRound, progress
<1>6. CASE TracePasses \/ NoBounce \/ FamilyPasses \/ BeginRound \/ OutOfBudget \/ Reenter \/ SentBack \/ Done
  BY <1>2, <1>6 DEF TracePasses, NoBounce, FamilyPasses, BeginRound, OutOfBudget, Reenter, SentBack, Done,
              specVars
<1>7. CASE Start \/ ProcessDies
  BY <1>4, <1>7 DEF Start, ProcessDies
<1>8. CASE Review
  <2>1. PICK review : Approval(review) \/ Carry(review) \/ Reject(review)
    BY <1>8, ReviewIsOne
  <2>2. CASE Approval(review) \/ Carry(review)
    BY <1>2, <2>2 DEF Approval, Carry
  <2>3. CASE Reject(review)
    <3>1. OwnOpen(ledger') \in 0 .. NoReading
      BY Reading DEF OwnOpen, Blocking
    <3>2. UpstreamOpen(ledger') \subseteq Identities
      BY DEF UpstreamOpen, Blocking
    <3>. QED BY <2>3, <3>1, <3>2 DEF Reject, Readings
  <2>. QED BY <2>1, <2>2, <2>3
<1>9. CASE UNCHANGED specVars
  BY <1>2, <1>9 DEF specVars
<1>. QED BY <1>5, <1>6, <1>7, <1>8, <1>9 DEF SpecNext

LEMMA NextTrace == TraceInv /\ [SpecNext]_specVars => TraceInv'
<1>. SUFFICES ASSUME TraceInv, [SpecNext]_specVars PROVE TraceInv'
  OBVIOUS
<1>. USE DEF TraceInv
<1>1. CASE UNCHANGED specVars
  BY <1>1 DEF specVars, ghosts
<1>2. CASE Start \/ BeginRound \/ OutOfBudget \/ Reenter \/ SentBack \/ ProcessDies \/ Done
  BY <1>2 DEF Start, BeginRound, AtCap, OutOfBudget, Reenter, SentBack, ProcessDies, Done, specVars, ghosts
<1>3. CASE WorkStep
  BY <1>3 DEF WorkStep, Write, TracePasses, TraceStrike, TraceFails, Bounce, NoBounce, FamilyPasses,
              FamilyStrike, FamilyFails, Retrace, Refused, ReviewFails, NextRound, AfterBounce, AfterStrike,
              Render, ghosts
<1>4. CASE Review
  <2>1. PICK review : Approval(review) \/ Carry(review) \/ Reject(review)
    BY <1>4, ReviewIsOne
  <2>2. pc = "reviewing" /\ traced' = traced /\ patched' = patched
    BY <1>4 DEF Review
  <2>. QED BY <2>1, <2>2 DEF Approval, Carry, Reject
<1>. QED BY <1>1, <1>2, <1>3, <1>4 DEF SpecNext, WorkStep

LEMMA NextNumbers == Numbers /\ Places /\ [SpecNext]_specVars => Numbers'
<1>. SUFFICES ASSUME Numbers, Places, [SpecNext]_specVars PROVE Numbers'
  OBVIOUS
<1>. USE Bounds DEF Numbers
<1>11. CallAgent => budget' \in 0 .. MaxAgents
  BY DEF CallAgent
<1>1. CASE UNCHANGED specVars
  BY <1>1 DEF specVars, counters, bounds
<1>2. CASE Start \/ ProcessDies
  BY <1>2 DEF Start, ProcessDies, Enter, bounds, Working
<1>3. CASE BeginRound
  <2>1. /\ UNCHANGED <<reviewRound, writerErrors, reviewErrors, budget, crashes>>
        /\ pc = "round" /\ jumps' \in 0 .. MaxJumps
    <3>1. CASE round + 1 > cap /\ ~MayExtend
      BY <1>3, <3>1 DEF BeginRound, AtCap
    <3>2. CASE ~(round + 1 > cap /\ ~MayExtend)
      BY <1>3, <3>2 DEF BeginRound
    <3>. QED BY <1>3, <3>1, <3>2 DEF BeginRound
  <2>2. /\ round' \in Nat /\ cap' \in {MaxRounds, MaxRounds + Extension} /\ round' <= cap' /\ reviewRound <= round'
        /\ pc' \in Working => reviewRound < round'
    <3>1. CASE round + 1 > cap /\ ~MayExtend
      BY <1>3, <3>1 DEF BeginRound, AtCap, Working
    <3>2. CASE round + 1 > cap /\ MayExtend
      BY <1>3, <3>2 DEF BeginRound, MayExtend
    <3>3. CASE round + 1 <= cap
      BY <1>3, <3>3 DEF BeginRound
    <3>. QED BY <3>1, <3>2, <3>3
  <2>. QED BY <2>1, <2>2
<1>4. CASE OutOfBudget \/ Reenter \/ Done
  BY <1>4 DEF OutOfBudget, Reenter, Done, specVars, counters, bounds, Working, Ended
<1>5. CASE SentBack
  BY <1>5 DEF SentBack, counters, Working
<1>6. CASE Write
  <2>1. /\ pc = "writing" /\ reviewErrors < FatalErrors
        /\ UNCHANGED <<round, reviewRound, cap, reviewErrors, jumps, crashes>>
    BY <1>6 DEF Write, Working, NextRound
  <2>2. budget' \in 0 .. MaxAgents
    BY <1>6, <1>11 DEF Write
  <2>3. writerErrors' \in 0 .. FatalErrors /\ (pc' # "fatal" => writerErrors' < FatalErrors)
    BY <1>6 DEF Write
  <2>. QED BY <2>1, <2>2, <2>3 DEF Working
<1>7. CASE ReviewFails
  <2>1. /\ pc = "reviewing" /\ pc' \notin Working
        /\ UNCHANGED <<round, reviewRound, cap, writerErrors, jumps, crashes>>
    BY <1>7 DEF ReviewFails, Working, NextRound
  <2>2. budget' \in 0 .. MaxAgents
    BY <1>7, <1>11 DEF ReviewFails
  <2>3. reviewErrors' \in 0 .. FatalErrors /\ (pc' # "fatal" => reviewErrors' < FatalErrors)
    BY <1>7 DEF ReviewFails
  <2>. QED BY <2>1, <2>2, <2>3
<1>8. CASE TracePasses \/ TraceFails \/ NoBounce \/ FamilyPasses \/ FamilyFails \/ Retrace \/ Refused
  BY <1>8 DEF TracePasses, TraceFails, NoBounce, FamilyPasses, FamilyFails, Retrace, Refused, counters, bounds,
              Working
<1>9. CASE TraceStrike \/ Bounce \/ FamilyStrike
  <2>1. pc \in Working /\ UNCHANGED <<counters, jumps, crashes>>
    BY <1>9 DEF TraceStrike, Bounce, FamilyStrike, Working
  <2>2. budget' \in 0 .. MaxAgents
    BY <1>9, <1>11 DEF TraceStrike, Bounce, FamilyStrike
  <2>. QED BY <2>1, <2>2 DEF counters, Working
<1>10. CASE Review
  <2>1. PICK review : Approval(review) \/ Carry(review) \/ Reject(review)
    BY <1>10, ReviewIsOne
  <2>2. pc' \notin Working
    BY <2>1 DEF Approval, Carry, Reject, Working
  <2>3. jumps' \in 0 .. MaxJumps
    <3>1. jumps' = jumps \/ (jumps < MaxJumps /\ jumps' = jumps + 1)
      BY <2>1 DEF Approval, Carry, Reject
    <3>. QED BY <3>1
  <2>4. budget' \in 0 .. MaxAgents
    BY <1>10, <1>11 DEF Review
  <2>5. /\ pc = "reviewing" /\ reviewErrors' = 0 /\ reviewRound' = reviewRound + 1
        /\ UNCHANGED <<round, cap, writerErrors, crashes>>
    BY <1>10 DEF Review
  <2>. QED BY <2>2, <2>3, <2>4, <2>5 DEF Working
<1>. QED BY <1>1, <1>2, <1>3, <1>4, <1>5, <1>6, <1>7, <1>8, <1>9, <1>10 DEF SpecNext

LEMMA SpecInitial == SpecInit => SpecInv /\ ApprovalCloses
<1>. SUFFICES ASSUME SpecInit PROVE SpecInv /\ ApprovalCloses
  OBVIOUS
<1>. USE DEF SpecInit
<1>1. Numbers /\ Places /\ TraceInv
  BY Bounds DEF Numbers, Places, TraceInv, Working, Ended
<1>2. Readings
  BY Reading DEF Readings
<1>3. PICK row \in Row : row = Absent
  BY DEF Row, Absent, Status, Detected
<1>4. row.downgraded = FALSE /\ row.detected = "spec" /\ ~Blocks(row)
  BY <1>3 DEF Absent, Blocks, Active
<1>5. ledger = [f \in Identities |-> row] /\ disk = ledger
  BY <1>3 DEF Empty
<1>6. LedgerInv
  BY <1>4, <1>5 DEF LedgerInv, RowHolds
<1>7. FileInv /\ RequestInv /\ OrphanInv
  BY <1>4, <1>5 DEF FileInv, RequestInv, OrphanInv, Entering
<1>8. ApprovalCloses
  BY DEF ApprovalCloses
<1>. QED BY <1>1, <1>2, <1>6, <1>7, <1>8, Parts DEF LedgersHold

(* The steps between two rounds, between two entries and between two runs.  *)
LEMMA EntryKeeps ==
  ASSUME SpecInv, Start \/ OutOfBudget \/ Reenter \/ SentBack \/ ProcessDies \/ UNCHANGED specVars
  PROVE  LedgersHold'
<1>. USE DEF LedgersHold
<1>1. LedgersHold
  BY Parts
<1>2. CASE UNCHANGED specVars
  BY <1>1, <1>2 DEF specVars, counters, ghosts, LedgerInv, FileInv, RequestInv, OrphanInv, Entering
<1>3. CASE Start
  <2>1. UNCHANGED <<ledger, disk, replanRequest>> /\ Entering /\ Entering' /\ pc' = "round"
    BY <1>3 DEF Start, Enter, Entering
  <2>. QED BY <1>1, <2>1 DEF LedgerInv, FileInv, RequestInv, OrphanInv
<1>4. CASE OutOfBudget
  <2>1. UNCHANGED <<ledger, disk, replanRequest>> /\ ~Entering' /\ pc' = "fatal"
    BY <1>4 DEF OutOfBudget, Entering
  <2>. QED BY <1>1, <2>1 DEF LedgerInv, FileInv, RequestInv, OrphanInv
<1>5. CASE Reenter
  <2>1. UNCHANGED <<ledger, disk, replanRequest>> /\ ~Entering /\ Entering' /\ pc = "routed" /\ pc' = "start"
    BY <1>5 DEF Reenter, Entering
  <2>. QED BY <1>1, <2>1 DEF LedgerInv, FileInv, RequestInv, OrphanInv
<1>6. CASE ProcessDies
  <2>1. ledger' = Empty /\ UNCHANGED <<disk, replanRequest>> /\ Entering'
    BY <1>6 DEF ProcessDies, Entering
  <2>2. PICK row \in Row : row = Absent
    BY DEF Row, Absent, Status, Detected
  <2>3. row.downgraded = FALSE /\ row.detected = "spec" /\ ~Blocks(row)
    BY <2>2 DEF Absent, Blocks, Active
  <2>4. ledger' = [f \in Identities |-> row]
    BY <2>1, <2>2 DEF Empty
  <2>5. LedgerInv'
    BY <1>1, <2>1, <2>3, <2>4 DEF LedgerInv, RowHolds
  <2>6. RequestInv'
    BY <2>3, <2>4 DEF RequestInv
  <2>. QED BY <2>1, <2>5, <2>6 DEF FileInv, OrphanInv
<1>7. CASE SentBack
  <2>1. pc \in {"approved", "carried"} /\ Entering' /\ UNCHANGED replanRequest
    BY <1>7 DEF SentBack, Entering
  <2>2. PICK f \in Identities \ {Gate, Replan} :
          Keep(Recorded(ledger, [g \in {f} |-> NewRow("open", TRUE, FALSE, "verify")]))
    BY <1>7 DEF SentBack
  <2>3. PICK entries : entries = [g \in {f} |-> NewRow("open", TRUE, FALSE, "verify")]
    OBVIOUS
  <2>4. FreshRow(f, NewRow("open", TRUE, FALSE, "verify")) /\ NewRow("open", TRUE, FALSE, "verify").detected = "verify"
    <3>1. "verify" \in Detected
      BY DEF Detected
    <3>. QED BY <3>1, BlockerRow
  <2>5. ledger \in [Identities -> Row] /\ \A g \in Identities : RowHolds(g, ledger[g])
    BY <1>1 DEF LedgerInv
  <2>6. DOMAIN entries = {f} /\ entries[f] = NewRow("open", TRUE, FALSE, "verify")
    BY <2>3
  <2>7. ledger' = Recorded(ledger, entries) /\ disk' = ledger'
    BY <2>2, <2>3 DEF Keep
  <2>8. /\ ledger' \in [Identities -> Row]
        /\ \A g \in Identities :
             /\ RowHolds(g, ledger'[g])
             /\ ledger'[g].detected = "verify" \/ ledger'[g] = ledger[g]
    <3>1. \A g \in Identities : g \in DOMAIN entries => FreshRow(g, entries[g]) /\ entries[g].detected = "verify"
      BY <2>4, <2>6
    <3>2. /\ Recorded(ledger, entries) \in [Identities -> Row]
          /\ \A g \in Identities :
               /\ RowHolds(g, Recorded(ledger, entries)[g])
               /\ IF g \in DOMAIN entries
                  THEN Recorded(ledger, entries)[g].detected = entries[g].detected
                  ELSE Recorded(ledger, entries)[g] = ledger[g]
      BY <2>5, <3>1, RecordedHolds
    <3>. QED BY <2>7, <3>1, <3>2
  <2>9. LedgerInv'
    BY <2>7, <2>8 DEF LedgerInv, RowHolds
  <2>10. RequestInv'
    BY <1>1, <2>1, <2>8 DEF RequestInv
  <2>. QED BY <2>1, <2>7, <2>9, <2>10 DEF FileInv, OrphanInv
<1>. QED BY <1>2, <1>3, <1>4, <1>5, <1>6, <1>7

LEMMA NextSpecInv ==
  SpecInv /\ ApprovalCloses /\ [SpecNext]_specVars => SpecInv' /\ ApprovalCloses'
<1>. SUFFICES ASSUME SpecInv, ApprovalCloses, [SpecNext]_specVars
              PROVE  SpecInv' /\ ApprovalCloses'
  OBVIOUS
<1>1. Numbers' /\ Readings' /\ Places' /\ TraceInv'
  BY Parts, NextNumbers, NextReadings, NextPlaces, NextTrace
<1>2. CASE WorkStep
  <2>1. LedgersHold'
    BY <1>2, WorkStepInRound, InRoundKeeps DEF LedgersHold
  <2>2. pc' # "approved"
    BY <1>2 DEF WorkStep, Write, TracePasses, TraceStrike, TraceFails, Bounce, NoBounce, FamilyPasses,
                FamilyStrike, FamilyFails, Retrace, Refused, ReviewFails, NextRound, AfterBounce, AfterStrike
  <2>. QED BY <1>1, <2>1, <2>2, PartsNext DEF ApprovalCloses
<1>3. CASE BeginRound
  <2>1. LedgersHold'
    BY <1>3, BeginRoundKeeps, Parts DEF Numbers
  <2>2. pc' # "approved"
    BY <1>3 DEF BeginRound, AtCap
  <2>. QED BY <1>1, <2>1, <2>2, PartsNext DEF ApprovalCloses
<1>4. CASE Review
  <2>1. PICK review : Approval(review) \/ Carry(review) \/ Reject(review)
    BY <1>4, ReviewIsOne
  <2>2. CASE Carry(review) \/ Reject(review)
    <3>1. LedgersHold' /\ pc' # "approved"
      BY <1>4, <2>2, OtherVerdicts, InRoundKeeps DEF LedgersHold
    <3>. QED BY <1>1, <3>1, PartsNext DEF ApprovalCloses
  <2>3. CASE Approval(review)
    <3>1. InRound /\ \A f \in Identities : Blocks(ledger'[f]) => ~Closes(f, ledger'[f], Genuine(review))
      BY <1>4, <2>3, ApprovalStep
    <3>2. LedgersHold' /\ pc' = "approved"
      BY <2>3, <3>1, InRoundKeeps DEF LedgersHold, Approval
    <3>3. ASSUME NEW f \in Identities, Blocks(ledger'[f]), Actionable(f)
          PROVE  \/ ledger'[f].detected = "replan" /\ replanRequest' = "pending"
                 \/ ledger'[f].detected = "verify" /\ f \in orphans'
      <4>1. Active(ledger'[f]) /\ ~ledger'[f].downgraded
        BY <3>2, <3>3 DEF LedgersHold, LedgerInv, RowHolds, Blocks
      <4>2. ledger'[f].detected # "spec"
        BY <3>1, <3>3, <4>1 DEF Closes
      <4>3. ledger'[f].detected \in Detected
        BY <3>2 DEF LedgersHold, LedgerInv, Row
      <4>4. ledger'[f].detected = "replan" => replanRequest' = "pending"
        BY <3>2, <3>3 DEF LedgersHold, RequestInv
      <4>5. ledger'[f].detected = "verify" => f \in orphans'
        BY <3>2, <3>3 DEF LedgersHold, OrphanInv, Entering
      <4>. QED BY <4>2, <4>3, <4>4, <4>5 DEF Detected
    <3>4. ApprovalCloses'
      BY <3>3 DEF ApprovalCloses, Blocking
    <3>. QED BY <1>1, <3>2, <3>4, PartsNext
  <2>. QED BY <2>1, <2>2, <2>3
<1>5. CASE Start \/ OutOfBudget \/ Reenter \/ SentBack \/ ProcessDies
  <2>1. LedgersHold'
    BY <1>5, EntryKeeps
  <2>2. pc' # "approved"
    BY <1>5 DEF Start, OutOfBudget, Reenter, SentBack, ProcessDies
  <2>. QED BY <1>1, <2>1, <2>2, PartsNext DEF ApprovalCloses
<1>6. CASE UNCHANGED specVars
  <2>1. LedgersHold'
    BY <1>6, EntryKeeps
  <2>2. ApprovalCloses'
    BY <1>6 DEF ApprovalCloses, specVars, ghosts, Blocking
  <2>. QED BY <1>1, <2>1, <2>2, PartsNext
<1>. QED BY <1>2, <1>3, <1>4, <1>5, <1>6 DEF SpecNext, WorkStep, Done

THEOREM SpecInvariant == SpecSpec => [](SpecInv /\ ApprovalCloses)
BY SpecInitial, NextSpecInv, PTL DEF SpecSpec

(* Type correctness of spec convergence.                                    *)
THEOREM SpecTypeCorrect == SpecSpec => []SpecTypeOK
<1>1. SpecInv => SpecTypeOK
  BY DEF SpecInv
<1>. QED BY <1>1, SpecInvariant, PTL

(* What a review approves or carries on passed the trace gate, or is the    *)
(* rewrite a bounce asked for (spec-convergence.ts, the gates of a round).  *)
THEOREM Traced == SpecSpec => []TracedUnlessBounced
<1>1. SpecInv => TracedUnlessBounced
  BY DEF SpecInv, TraceInv, TracedUnlessBounced
<1>. QED BY <1>1, SpecInvariant, PTL

(* An approval leaves no blocker of this stage or one before it, but for a  *)
(* request the duty layer answered alone and what was struck off on entry.  *)
THEOREM Closed == SpecSpec => []ApprovalCloses
BY SpecInvariant, PTL

(* What blocked when a process ended blocks from the first round of the     *)
(* next one, or was struck off there (priorFindingsForInjection).           *)
THEOREM Remembered == SpecSpec => NothingForgotten
<1>1. SpecInv /\ [SpecNext]_specVars =>
        [pc = "round" /\ round = 0 /\ pc' = "writing" =>
           \A f \in Identities : Blocks(disk[f]) => Blocks(ledger'[f]) \/ f \in orphans']_specVars
  <2>. SUFFICES ASSUME SpecInv, [SpecNext]_specVars, pc = "round", round = 0, pc' = "writing"
                PROVE  \A f \in Identities : Blocks(disk[f]) => Blocks(ledger'[f]) \/ f \in orphans'
    OBVIOUS
  <2>1. pc # pc'
    OBVIOUS
  <2>2. BeginRound
    <3>1. ~(UNCHANGED specVars)
      BY <2>1 DEF specVars
    <3>2. ~WorkStep
      BY DEF WorkStep, Write, TracePasses, TraceStrike, TraceFails, Bounce, NoBounce, FamilyPasses,
             FamilyStrike, FamilyFails, Retrace, Refused, ReviewFails
    <3>3. ~(Start \/ OutOfBudget \/ Review \/ Reenter \/ SentBack \/ ProcessDies \/ Done)
      BY DEF Start, OutOfBudget, Review, Reenter, SentBack, ProcessDies, Done, Ended
    <3>. QED BY <3>1, <3>2, <3>3 DEF SpecNext, WorkStep
  <2>. QED BY <2>2, BeginRoundKeeps, Parts
<1>. QED BY <1>1, SpecInvariant, PTL DEF SpecSpec, NothingForgotten
=============================================================================
