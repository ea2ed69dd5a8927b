----------------------------- MODULE Steering_proofs -----------------------------
(***************************************************************************)
(* Proofs about what moves a run off its straight path: the walker that    *)
(* jumps along edges, the judge that answers whether it may, and the       *)
(* session in which the user steers.  For every pipeline length, set of    *)
(* owners, edge budget and number of processes the per-run edge budget     *)
(* (RouteBudget) is implemented across kills, failing writes and resumes,  *)
(* with one more account for every epoch file that is lost; a sub-walk     *)
(* starts over a cache without rows of its suffix, and an owner that was   *)
(* routed to, or that carried debt reached, runs.  For any number of       *)
(* requests the judge keeps its budgets and its grounding; for any number  *)
(* of runs, notes and reloads the run guard holds and notes reach the      *)
(* agents.                                                                 *)
(***************************************************************************)
EXTENDS RoutingWalker, Judge, ExtensionSession, FiniteSetTheorems, TLAPS

(***************************************************************************)
(* RoutingWalker                                                           *)
(***************************************************************************)

(* The jumps on edge e from time t on in journal j.                        *)
Jumped(j, e, t) == {n \in {m \in j : m.time >= t} : n.edge = e}

(* While a signal is being handled it names an edge.                       *)
Signalled == ctl \in Protocol => sig \in Edge

(* Everything on disk was written before now, and a process that runs has  *)
(* an epoch.                                                               *)
Dated ==
  /\ clock > 0 /\ epoch <= clock /\ epochFile <= clock /\ began <= clock
  /\ \A n \in journal : n.time > 0 /\ n.time < clock

(* How often the journal says that e was taken since t.                    *)
Times(e, t) == Cardinality(Jumped(journal, e, t))

(* What the accounts of the run allow on an edge, and what the accounts    *)
(* closed by a lost epoch may have spent.                                  *)
Allowed == EdgeBudget * accounts
Spent == EdgeBudget * (accounts - 1)

(* The jumps of the logical run are in the journal.  Those that the epoch  *)
(* of the process, or the one on disk, does not see were paid for by the   *)
(* closed accounts.  This is what survives a kill: the process that        *)
(* resumes seeds its epoch from the file, or opens an account without it.  *)
FiledAt(e) ==
  /\ taken[e] <= Times(e, began)
  /\ Times(e, began) <= Allowed
  /\ ctl # "down" => Times(e, began) <= Spent + Times(e, epoch)
  /\ epochFile # None => Times(e, began) <= Spent + Times(e, epochFile)

Filed == \A e \in Edge : FiledAt(e)

(* The budget check made before the protocol still holds at the charge,    *)
(* and the charge is in the journal before the sub-walk is entered.        *)
Granted ==
  /\ ctl \in {"invalidate", "inject", "bump", "charge"} => Times(sig, epoch) < EdgeBudget
  /\ ctl = "enter" => taken[sig] < Times(sig, began)

IInv == TypeOK /\ Signalled /\ Dated /\ Filed /\ Granted

----------------------------------------------------------------------------
(* The number of journaled jumps is a number.                              *)
LEMMA JumpedFinite ==
  ASSUME TypeOK, NEW e, NEW t
  PROVE  IsFiniteSet(Jumped(journal, e, t)) /\ Times(e, t) \in Nat
<1>1. Jumped(journal, e, t) \subseteq journal
  BY DEF Jumped
<1>2. IsFiniteSet(journal)
  BY DEF TypeOK
<1>3. IsFiniteSet(Jumped(journal, e, t))
  BY <1>1, <1>2, FS_Subset
<1> QED
  BY <1>3, FS_CardinalityType DEF Times

(* One more account is EdgeBudget more jumps.                              *)
LEMMA Accounting ==
  ASSUME TypeOK
  PROVE  Spent \in Nat /\ Allowed \in Nat /\ Allowed = Spent + EdgeBudget
<1>1. PICK k \in Nat : accounts = k + 1
  <2>1. accounts - 1 \in Nat /\ accounts = (accounts - 1) + 1
    BY DEF TypeOK
  <2> QED
    BY <2>1
<1>2. EdgeBudget \in Nat
  BY WalkerAssumption
<1>3. EdgeBudget * (k + 1) = EdgeBudget * k + EdgeBudget /\ EdgeBudget * k \in Nat
  BY <1>2
<1>4. accounts - 1 = k
  BY <1>1
<1> QED
  BY <1>1, <1>2, <1>3, <1>4 DEF Spent, Allowed

(* A journal without an entry of the run says that no edge was taken.      *)
LEMMA NothingFiled ==
  ASSUME NEW j, NEW e, NEW t, ~\E n \in j : n.time >= t
  PROVE  Cardinality(Jumped(j, e, t)) = 0
<1>1. Jumped(j, e, t) = {}
  BY DEF Jumped
<1> QED
  BY <1>1, FS_EmptySet

LEMMA InitIInv == Init => IInv
<1> SUFFICES ASSUME Init PROVE IInv
  OBVIOUS
<1> USE WalkerAssumption DEF Init, None
<1>1. TypeOK
  <2>1. IsFiniteSet(journal)
    BY FS_EmptySet
  <2>2. 1 \in 1 .. LastStage + 1
    OBVIOUS
  <2>3. journal \subseteq [edge : Edge, time : Nat]
    OBVIOUS
  <2>4. revisions \in [Owners -> Nat] /\ converged \in [Owners -> Nat] /\ taken \in [Edge -> Nat]
    OBVIOUS
  <2>5. accounts \in Nat \ {0} /\ {epochFile, epoch, began, clock, starts, jumps} \subseteq Nat
    OBVIOUS
  <2> QED
    BY <2>1, <2>2, <2>3, <2>4, <2>5 DEF TypeOK
<1>2. Signalled /\ Granted
  BY DEF Signalled, Granted, Protocol
<1>3. Dated
  BY DEF Dated
<1>4. Filed
  <2>1. ~\E n \in journal : n.time >= began
    OBVIOUS
  <2>2. ASSUME NEW e \in Edge PROVE FiledAt(e)
    <3>1. Times(e, began) = 0
      BY <2>1, NothingFiled DEF Times
    <3>2. taken[e] = 0 /\ ctl = "down" /\ epochFile = None
      BY <2>2
    <3>3. Allowed \in Nat
      BY <1>1, Accounting
    <3> HIDE DEF Init, None
    <3> QED
      BY ONLY <3>1, <3>2, <3>3 DEF FiledAt
  <2> QED
    BY <2>2 DEF Filed
<1> QED
  BY <1>1, <1>2, <1>3, <1>4 DEF IInv

----------------------------------------------------------------------------
(* Starting a process: the epoch it seeds is a past time or now.           *)
LEMMA SeedDated ==
  ASSUME TypeOK, Dated, NEW t \in SeedEpochResumed(clock + 1)
  PROVE  t \in Nat /\ t > 0 /\ t <= clock + 1
<1>1. CASE journal = {}
  BY <1>1 DEF SeedEpochResumed, TypeOK, Dated
<1>2. CASE journal # {} /\ epochFile # None
  BY <1>2 DEF SeedEpochResumed, TypeOK, Dated, None
<1>3. CASE journal # {} /\ epochFile = None
  <2>1. PICK n \in journal : t = n.time
    BY <1>3 DEF SeedEpochResumed
  <2>2. n.time \in Nat
    BY <2>1 DEF TypeOK
  <2> QED
    BY <2>1, <2>2 DEF Dated, TypeOK
<1> QED
  BY <1>1, <1>2, <1>3

(* A signal that is thrown names an edge.                                  *)
LEMMA ThrownEdge ==
  ASSUME TypeOK, NEW o \in Owners, ThrowRouteBack(o)
  PROVE  sig' \in Edge /\ sig' = <<at, o>>
<1>1. at \in Stage /\ o < at /\ sig' = <<at, o>>
  BY DEF ThrowRouteBack
<1>2. <<at, o>> \in Stage \X Owners
  BY <1>1
<1> QED
  BY <1>1, <1>2 DEF Edge

(* Type correctness, with the signal: one step per action.                 *)
LEMMA NextType ==
  ASSUME TypeOK, Signalled, Dated, [Next]_vars
  PROVE  TypeOK' /\ Signalled'
<1> USE WalkerAssumption DEF Signalled, Protocol, files, history, ProcUnchanged, StepUnchanged
<1>a. \A s : s \in Stage => s + 1 \in 1 .. LastStage + 1 /\ s \in Nat
  BY DEF Stage
<1>b. ASSUME NEW o \in Owners PROVE Inject(o) \in [Owners -> {"none", "pending", "addressed", "stale"}]
  BY <1>b DEF Inject, TypeOK
<1>1. ASSUME StartFresh PROVE TypeOK' /\ Signalled'
  BY <1>1 DEF StartFresh, Boot, SeedEpochFresh, TypeOK, None
<1>2. ASSUME Resume PROVE TypeOK' /\ Signalled'
  <2>1. epoch' \in Nat
    BY <1>2, SeedDated DEF Resume
  <2>2. accounts' \in Nat \ {0}
    BY <1>2 DEF Resume, TypeOK
  <2> QED
    BY <1>2, <2>1, <2>2 DEF Resume, Boot, TypeOK, None
<1>3. ASSUME FastForward PROVE TypeOK' /\ Signalled'
  BY <1>3, <1>a DEF FastForward, TypeOK
<1>4. ASSUME Approve PROVE TypeOK' /\ Signalled'
  <2>1. request' \in [Owners -> {"none", "pending", "addressed", "stale"}]
    BY <1>4 DEF Approve, Consume, TypeOK
  <2>2. at \in Stage
    BY <1>4 DEF Approve
  <2> QED
    <3>1. /\ at' \in 1 .. LastStage + 1
          /\ cacheRows' \in SUBSET Stage
          /\ owed' \in SUBSET Owners /\ approved' \in SUBSET Stage
      BY <1>4, <1>a, <2>2 DEF Approve, TypeOK
    <3>2. converged' \in [Owners -> Nat]
      BY <1>4 DEF Approve, TypeOK
    <3> QED
      BY <1>4, <2>1, <3>1, <3>2 DEF Approve, TypeOK
<1>5. ASSUME ExitUnapproved PROVE TypeOK' /\ Signalled'
  <2>1. at \in Stage
    BY <1>5 DEF ExitUnapproved
  <2>2. PICK debtors \in SUBSET Downstream : \E written, bumped \in SUBSET debtors :
            Deliver(debtors, written, bumped)
    BY <1>5 DEF ExitUnapproved
  <2>3. PICK written \in SUBSET debtors, bumped \in SUBSET debtors :
            Deliver(debtors, written, bumped)
    BY <2>2
  <2>4. request' \in [Owners -> {"none", "pending", "addressed", "stale"}]
    BY <2>3, <1>b DEF Deliver, TypeOK
  <2>5. revisions' \in [Owners -> Nat]
    BY <2>3 DEF Deliver, TypeOK
  <2>6. owed' \in SUBSET Owners
    BY <2>2, <2>3 DEF Deliver, Downstream, TypeOK
  <2>7. ctl' \in {"walk", "down"}
    BY <1>5 DEF ExitUnapproved
  <2> QED
    BY <1>5, <1>a, <2>1, <2>4, <2>5, <2>6, <2>7 DEF ExitUnapproved, TypeOK
<1>6. ASSUME OtherStage PROVE TypeOK' /\ Signalled'
  BY <1>6, <1>a DEF OtherStage, TypeOK
<1>7. ASSUME NEW o \in Owners, ThrowRouteBack(o) PROVE TypeOK' /\ Signalled'
  BY <1>7, ThrownEdge DEF ThrowRouteBack, TypeOK
<1>8. ASSUME Finish PROVE TypeOK' /\ Signalled'
  BY <1>8 DEF Finish, TypeOK
<1>9. ASSUME Crash PROVE TypeOK' /\ Signalled'
  <2>1. torn' \in {torn, TRUE} /\ epochFile' \in {epochFile, epoch, None}
    BY <1>9 DEF Crash
  <2>2. epochFile' \in Nat
    BY <2>1 DEF TypeOK, None
  <2>3. torn' \in BOOLEAN
    BY <2>1, Zenon DEF TypeOK
  <2> QED
    BY <1>9, <2>2, <2>3 DEF Crash, TypeOK
<1>10. ASSUME Caught PROVE TypeOK' /\ Signalled'
  BY <1>10 DEF Caught, TypeOK
<1>11. ASSUME InvalidateCache PROVE TypeOK' /\ Signalled'
  <2>1. cacheRows' \in SUBSET Stage /\ ctl' \in {"decline", "inject"}
    BY <1>11 DEF InvalidateCache, TypeOK
  <2> QED
    BY <1>11, <2>1 DEF InvalidateCache, TypeOK
<1>12. ASSUME InjectRequests PROVE TypeOK' /\ Signalled'
  <2>1. sig[2] \in Owners
    BY <1>12 DEF InjectRequests, Edge
  <2> QED
    BY <1>12, <1>b, <2>1 DEF InjectRequests, TypeOK
<1>13. ASSUME BumpRevision PROVE TypeOK' /\ Signalled'
  <2>1. sig[2] \in Owners
    BY <1>13 DEF BumpRevision, Edge
  <2> QED
    BY <1>13, <2>1 DEF BumpRevision, Bumped, TypeOK
<1>14. ASSUME ChargeJump PROVE TypeOK' /\ Signalled'
  <2>1. sig \in Edge
    BY <1>14 DEF ChargeJump
  <2>2. journal' \subseteq [edge : Edge, time : Nat] /\ IsFiniteSet(journal')
    <3> DEFINE entry == [edge |-> sig, time |-> clock]
    <3>1. entry \in [edge : Edge, time : Nat]
      BY <2>1 DEF TypeOK
    <3>2. journal' \in {journal, journal \cup {entry}}
      BY <1>14 DEF ChargeJump, Appended
    <3>3. IsFiniteSet(journal \cup {entry})
      BY FS_AddElement DEF TypeOK
    <3> HIDE DEF entry
    <3> QED
      BY <3>1, <3>2, <3>3 DEF TypeOK
  <2>3. epochFile' \in Nat
    <3>1. epochFile' \in {epoch, epochFile, None}
      BY <1>14 DEF ChargeJump
    <3> QED
      BY <3>1 DEF TypeOK, None
  <2>4. torn' \in BOOLEAN /\ clock' \in Nat /\ ctl' \in {"enter", "decline"}
    <3>1. clock' \in {clock, clock + 1} /\ torn' \in {torn, FALSE} /\ ctl' \in {"enter", "decline"}
      BY <1>14 DEF ChargeJump
    <3>2. torn' \in BOOLEAN
      BY <3>1, Zenon DEF TypeOK
    <3>3. clock' \in Nat
      BY <3>1 DEF TypeOK
    <3> QED
      BY <3>1, <3>2, <3>3
  <2> QED
    BY <1>14, <2>2, <2>3, <2>4 DEF ChargeJump, TypeOK
<1>15. ASSUME Reenter PROVE TypeOK' /\ Signalled'
  <2>1. sig \in Edge /\ sig[2] \in Owners /\ sig[2] \in 1 .. LastStage + 1
    <3>1. sig \in Edge
      BY <1>15 DEF Reenter
    <3>2. sig[2] \in Owners /\ sig[2] \in Stage
      BY <3>1 DEF Edge
    <3> QED
      BY <3>1, <3>2 DEF Stage
  <2> QED
    BY <1>15, <2>1 DEF Reenter, TypeOK
<1>16. ASSUME Decline PROVE TypeOK' /\ Signalled'
  BY <1>16 DEF Decline, TypeOK
<1>17. CASE UNCHANGED vars
  BY <1>17 DEF vars, TypeOK
<1> QED
  BY <1>1, <1>2, <1>3, <1>4, <1>5, <1>6, <1>7, <1>8, <1>9, <1>10, <1>11, <1>12,
     <1>13, <1>14, <1>15, <1>16, <1>17 DEF Next

(* Time: entries carry the time at which they were appended.               *)
LEMMA NextDated ==
  ASSUME TypeOK, Signalled, Dated, [Next]_vars
  PROVE  Dated'
<1> USE DEF TypeOK, Dated, files, history, ProcUnchanged, StepUnchanged, Protocol
<1>1. ASSUME StartFresh PROVE Dated'
  BY <1>1 DEF StartFresh, Boot, SeedEpochFresh, None
<1>2. ASSUME Resume PROVE Dated'
  <2>1. epoch' > 0 /\ epoch' <= clock + 1 /\ epoch' \in Nat
    BY <1>2, SeedDated DEF Resume
  <2> QED
    BY <1>2, <2>1 DEF Resume, Boot, None
<1>3. ASSUME ChargeJump PROVE Dated'
  <2>1. epochFile' <= clock /\ epochFile' \in Nat
    <3>1. epochFile' \in {epoch, epochFile, None}
      BY <1>3 DEF ChargeJump
    <3> QED
      BY <3>1 DEF None
  <2>2. ASSUME NEW n \in journal' PROVE n.time > 0 /\ n.time < clock'
    BY <1>3, <2>2 DEF ChargeJump, Appended
  <2>3. clock' \in {clock, clock + 1} /\ epoch' = epoch /\ began' = began
    BY <1>3 DEF ChargeJump
  <2> QED
    BY <2>1, <2>2, <2>3
<1>4. ASSUME Crash PROVE Dated'
  <2>1. UNCHANGED <<journal, epoch, clock, began>> /\ epochFile' \in {epochFile, epoch, None}
    BY <1>4 DEF Crash
  <2>2. epochFile' <= clock
    BY <2>1 DEF None
  <2> QED
    BY <2>1, <2>2
<1>5. ASSUME UNCHANGED <<journal, epoch, clock, epochFile, began>> PROVE Dated'
  BY <1>5
<1>6. ASSUME NEW o \in Owners, ThrowRouteBack(o) PROVE Dated'
  BY <1>6, <1>5 DEF ThrowRouteBack
<1>7. ASSUME FastForward \/ Approve \/ ExitUnapproved \/ OtherStage \/ Finish PROVE Dated'
  BY <1>7, <1>5 DEF FastForward, Approve, ExitUnapproved, OtherStage, Finish
<1>8. ASSUME Caught \/ InvalidateCache \/ InjectRequests \/ BumpRevision \/ Reenter \/ Decline
      PROVE  Dated'
  BY <1>8, <1>5 DEF Caught, InvalidateCache, InjectRequests, BumpRevision, Reenter, Decline
<1>9. CASE UNCHANGED vars
  BY <1>9, <1>5 DEF vars
<1> QED
  BY <1>1, <1>2, <1>3, <1>4, <1>6, <1>7, <1>8, <1>9 DEF Next

----------------------------------------------------------------------------
(* One more entry on an edge is one more journaled jump on that edge, and  *)
(* on no other, as seen from any time before it.                           *)
LEMMA ChargeCounts ==
  ASSUME TypeOK, Dated, NEW e \in Edge, NEW x \in Edge, NEW t \in Nat, t <= clock, NEW j,
         j = journal \cup {[edge |-> e, time |-> clock]}
  PROVE  Cardinality(Jumped(j, x, t)) =
           IF x = e THEN Cardinality(Jumped(journal, x, t)) + 1
                    ELSE Cardinality(Jumped(journal, x, t))
<1> DEFINE entry == [edge |-> e, time |-> clock]
<1>1. entry.edge = e /\ entry.time = clock /\ clock >= t
  BY DEF TypeOK
<1>2. CASE x # e
  <2>1. Jumped(j, x, t) = Jumped(journal, x, t)
    BY <1>1, <1>2 DEF Jumped
  <2> QED
    BY <1>2, <2>1
<1>3. CASE x = e
  <2>1. Jumped(j, x, t) = Jumped(journal, x, t) \cup {entry}
    BY <1>1, <1>3 DEF Jumped
  <2>2. entry \notin Jumped(journal, x, t)
    BY <1>1 DEF Jumped, Dated, TypeOK
  <2>3. IsFiniteSet(Jumped(journal, x, t))
    BY JumpedFinite
  <2>4. Cardinality(Jumped(journal, x, t) \cup {entry}) = Cardinality(Jumped(journal, x, t)) + 1
    <3> HIDE DEF entry
    <3> QED BY <2>2, <2>3, FS_AddElement
  <2> QED
    BY ONLY <1>3, <2>1, <2>4
<1> QED
  BY <1>2, <1>3

(* The budget view of the walker counts the journaled jumps of its epoch.  *)
LEMMA BudgetLeft ==
  ASSUME TypeOK, NEW e \in Edge, RemainingBudget(e) # 0
  PROVE  Times(e, epoch) < EdgeBudget
<1>1. Consumed(e) = Times(e, epoch)
  BY DEF Consumed, WithinEpoch, Jumped, Times
<1>2. Consumed(e) \in Nat
  BY <1>1, JumpedFinite
<1> QED
  BY <1>1, <1>2, WalkerAssumption DEF RemainingBudget

(* A fresh run begins after everything in the journal.                     *)
LEMMA FreshFiled ==
  ASSUME IInv, StartFresh
  PROVE  Filed'
<1>1. journal' = journal /\ began' = clock + 1 /\ taken' = [e \in Edge |-> 0]
  BY DEF StartFresh, Boot
<1>2. ~\E n \in journal : n.time >= began'
  BY <1>1 DEF IInv, Dated, TypeOK
<1>3. ASSUME NEW e \in Edge PROVE FiledAt(e)'
  <2>1. Times(e, began)' = 0
    BY <1>1, <1>2, NothingFiled DEF Times
  <2>2. Allowed' \in Nat /\ Spent' \in Nat
    <3>1. accounts' = 1
      BY DEF StartFresh
    <3>2. Allowed' = EdgeBudget /\ Spent' = 0
      BY <3>1, WalkerAssumption DEF Allowed, Spent
    <3> QED
      BY <3>2, WalkerAssumption
  <2>3. Times(e, epoch)' \in Nat /\ Times(e, epochFile)' \in Nat
    <3>1. IsFiniteSet(journal)
      BY DEF IInv, TypeOK
    <3>2. ASSUME NEW t PROVE Cardinality(Jumped(journal, e, t)) \in Nat
      BY JumpedFinite DEF IInv, Times
    <3> QED
      BY <1>1, <3>2 DEF Times
  <2>4. taken'[e] = 0
    BY <1>1
  <2> QED
    BY ONLY <2>1, <2>2, <2>3, <2>4 DEF FiledAt
<1> QED
  BY <1>3 DEF Filed

(* What a resumed process finds: the epoch it seeds is the one on disk, or *)
(* the run has no entry yet, or it opens one more account.                 *)
LEMMA ResumeKeeps ==
  ASSUME IInv, Resume
  PROVE  Filed'
<1>1. UNCHANGED <<journal, epochFile, began, taken>>
  BY DEF Resume, Boot
<1>2. ASSUME NEW e \in Edge PROVE FiledAt(e)'
  <2> DEFINE n == Times(e, began)
             onFile == Times(e, epochFile)
             seen == Cardinality(Jumped(journal, e, epoch'))
  <2>1. /\ Times(e, began)' = n /\ Times(e, epochFile)' = onFile /\ Times(e, epoch)' = seen
        /\ taken' = taken
    BY <1>1 DEF Times
  <2>2. n \in Nat /\ onFile \in Nat /\ seen \in Nat
    BY JumpedFinite DEF IInv, Times
  <2>3. taken[e] <= n /\ n <= Allowed /\ (epochFile # None => n <= Spent + onFile)
    BY DEF IInv, Filed, FiledAt
  <2>4. Spent \in Nat /\ Allowed \in Nat /\ Allowed = Spent + EdgeBudget
    BY Accounting DEF IInv
  <2> HIDE DEF n, onFile, seen
  <2>5. CASE EpochLost
    <3>1. accounts' = accounts + 1 /\ epochFile = None
      BY <2>5 DEF Resume, EpochLost
    <3>2. Spent' = Allowed
      BY <3>1 DEF Spent, Allowed, IInv, TypeOK
    <3>3. Allowed' = Allowed + EdgeBudget
      <4>1. EdgeBudget \in Nat /\ accounts \in Nat
        BY WalkerAssumption DEF IInv, TypeOK
      <4> QED
        BY <3>1, <4>1 DEF Allowed
    <3>4. EdgeBudget \in Nat
      BY WalkerAssumption
    <3> QED
      BY <1>1, <2>1, <2>2, <2>3, <2>4, <3>1, <3>2, <3>3, <3>4 DEF FiledAt
  <2>6. CASE ~EpochLost
    <3>1. UNCHANGED <<Spent, Allowed>>
      BY <2>6 DEF Resume, Spent, Allowed
    <3>2. CASE epochFile # None /\ journal # {}
      <4>1. epoch' = epochFile
        BY <3>2 DEF Resume, SeedEpochResumed
      <4>2. seen = onFile
        BY <4>1 DEF seen, onFile, Times
      <4> QED
        BY <1>1, <2>1, <2>3, <3>1, <3>2, <4>2 DEF FiledAt
    <3>3. CASE epochFile = None \/ journal = {}
      <4>1. ~\E m \in journal : m.time >= began
        BY <2>6, <3>3 DEF EpochLost
      <4>2. n = 0
        BY <4>1, NothingFiled DEF n, Times
      <4> QED
        BY <1>1, <2>1, <2>2, <2>3, <2>4, <3>1, <4>2 DEF FiledAt
    <3> QED
      BY <3>2, <3>3
  <2> QED
    BY <2>5, <2>6
<1> QED
  BY <1>2 DEF Filed

(* The charge counts on its edge from the beginning of the run, from the   *)
(* epoch of the process and from the one on disk alike, whichever of them  *)
(* the epoch file is left with.                                            *)
LEMMA ChargeKeeps ==
  ASSUME IInv, ChargeJump
  PROVE  Filed' /\ Granted'
<1>1. /\ sig \in Edge /\ ctl = "charge" /\ epochFile' \in {epoch, epochFile, None}
      /\ UNCHANGED <<epoch, sig, taken, began, Spent, Allowed>>
  BY DEF IInv, ChargeJump, Signalled, Protocol, StepUnchanged, history, Spent, Allowed
<1>2. Spent \in Nat /\ Allowed \in Nat /\ Allowed = Spent + EdgeBudget /\ EdgeBudget \in Nat
  BY Accounting, WalkerAssumption DEF IInv
<1>3. CASE ctl' # "enter"
  <2>1. ctl' = "decline" /\ UNCHANGED journal
    BY <1>3 DEF ChargeJump
  <2>2. \A e, t : Times(e, t)' = Cardinality(Jumped(journal, e, t'))
    BY <2>1 DEF Times
  <2>3. ASSUME NEW e \in Edge PROVE FiledAt(e)'
    <3>1. FiledAt(e)
      BY DEF IInv, Filed
    <3> QED
      BY <1>1, <2>1, <3>1 DEF FiledAt, Times
  <2> QED
    BY <2>1, <2>3 DEF Filed, Granted
<1>4. CASE ctl' = "enter"
  <2>1. journal' = journal \cup {[edge |-> sig, time |-> clock]}
    BY <1>4 DEF ChargeJump, Appended
  <2>2. ASSUME NEW x \in Edge, NEW t \in Nat, t <= clock
        PROVE  /\ Cardinality(Jumped(journal', x, t)) =
                    IF x = sig THEN Times(x, t) + 1 ELSE Times(x, t)
               /\ Times(x, t) \in Nat
    BY <1>1, <2>1, <2>2, ChargeCounts, JumpedFinite DEF IInv, Times
  <2>3. /\ began \in Nat /\ began <= clock /\ epoch \in Nat /\ epoch <= clock
        /\ epochFile \in Nat /\ epochFile <= clock /\ taken \in [Edge -> Nat]
    BY DEF IInv, TypeOK, Dated
  <2>4. ASSUME NEW x \in Edge
        PROVE  /\ Times(x, began)' = IF x = sig THEN Times(x, began) + 1 ELSE Times(x, began)
               /\ Times(x, epoch)' = IF x = sig THEN Times(x, epoch) + 1 ELSE Times(x, epoch)
               /\ Cardinality(Jumped(journal', x, epochFile)) =
                    IF x = sig THEN Times(x, epochFile) + 1 ELSE Times(x, epochFile)
               /\ Times(x, began) \in Nat /\ Times(x, epoch) \in Nat /\ Times(x, epochFile) \in Nat
    BY <1>1, <2>2, <2>3 DEF Times
  <2>5. Times(sig, epoch) < EdgeBudget
    BY <1>1 DEF IInv, Granted
  <2>6. ASSUME NEW x \in Edge PROVE FiledAt(x)'
    <3>1. FiledAt(x) /\ ctl # "down"
      BY <1>1 DEF IInv, Filed
    <3>2. taken'[x] <= Times(x, began)'
      BY <1>1, <2>3, <2>4, <3>1 DEF FiledAt
    <3>3. Times(x, began)' <= Spent + Times(x, epoch)'
      BY <1>2, <2>4, <3>1 DEF FiledAt
    <3>4. Times(x, began)' <= Allowed
      <4>1. CASE x = sig
        BY <1>2, <2>4, <2>5, <3>1, <4>1 DEF FiledAt
      <4>2. CASE x # sig
        BY <2>4, <3>1, <4>2 DEF FiledAt
      <4> QED
        BY <4>1, <4>2
    <3>5. epochFile' # None => Times(x, began)' <= Spent + Times(x, epochFile)'
      <4>1. CASE epochFile' = epoch
        BY <1>1, <3>3, <4>1 DEF Times
      <4>2. CASE epochFile' = epochFile /\ epochFile # None
        <5>1. Times(x, epochFile)' = Cardinality(Jumped(journal', x, epochFile))
          BY <4>2 DEF Times
        <5> QED
          BY <1>2, <2>4, <3>1, <4>2, <5>1 DEF FiledAt
      <4> QED
        BY <1>1, <4>1, <4>2
    <3> QED
      BY <1>1, <3>2, <3>3, <3>4, <3>5 DEF FiledAt
  <2>7. Granted'
    <3>1. taken[sig] <= Times(sig, began)
      BY <1>1 DEF IInv, Filed, FiledAt
    <3>2. taken[sig] \in Nat
      BY <1>1, <2>3
    <3> QED
      BY <1>1, <1>4, <2>4, <3>1, <3>2 DEF Granted
  <2> QED
    BY <2>6, <2>7 DEF Filed
<1> QED
  BY <1>3, <1>4

(* Re-entering takes the jump that was charged.                            *)
LEMMA ReenterKeeps ==
  ASSUME IInv, Reenter
  PROVE  Filed' /\ Granted'
<1>1. /\ sig \in Edge /\ taken[sig] < Times(sig, began)
      /\ ctl' = "walk" /\ ctl # "down"
      /\ UNCHANGED <<journal, epoch, epochFile, began, Spent, Allowed>>
  BY DEF IInv, Reenter, Granted, Signalled, Protocol, files, Spent, Allowed
<1>2. taken \in [Edge -> Nat] /\ taken' = [taken EXCEPT ![sig] = @ + 1]
  BY DEF IInv, Reenter, TypeOK
<1>3. ASSUME NEW e \in Edge PROVE FiledAt(e)'
  <2>1. FiledAt(e) /\ Times(e, began) \in Nat
    BY JumpedFinite DEF IInv, Filed
  <2>2. taken'[e] <= Times(e, began)
    <3>1. CASE e = sig
      BY <1>1, <1>2, <2>1, <3>1
    <3>2. CASE e # sig
      BY <1>2, <2>1, <3>2 DEF FiledAt
    <3> QED
      BY <3>1, <3>2
  <2> QED
    BY <1>1, <2>1, <2>2 DEF FiledAt, Times
<1> QED
  BY <1>1, <1>3 DEF Filed, Granted

(* The budget part of the induction.  Only the charge, the re-entry and    *)
(* the start of a process change what it speaks of, and a kill that leaves *)
(* the epoch file unreadable.                                              *)
LEMMA NextBudget ==
  ASSUME IInv, [Next]_vars
  PROVE  Filed' /\ Granted'
<1> USE DEF IInv, Protocol, files, history, ProcUnchanged, StepUnchanged
<1>1. ASSUME StartFresh PROVE Filed' /\ Granted'
  BY <1>1, FreshFiled DEF StartFresh, Boot, Granted
<1>2. ASSUME Resume PROVE Filed' /\ Granted'
  BY <1>2, ResumeKeeps DEF Resume, Boot, Granted
<1>3. ASSUME UNCHANGED <<journal, epoch, taken, began, accounts>>, ctl # "down" \/ ctl' = ctl,
             epochFile' \in {epochFile, None} \/ (epochFile' = epoch /\ ctl # "down")
      PROVE  Filed'
  <2>1. UNCHANGED <<Spent, Allowed>>
    BY <1>3 DEF Spent, Allowed
  <2>2. ASSUME NEW e \in Edge PROVE FiledAt(e)'
    <3>1. FiledAt(e)
      BY DEF Filed
    <3> QED
      BY <1>3, <2>1, <3>1 DEF FiledAt, Times
  <2> QED
    BY <2>2 DEF Filed
<1>4. ASSUME UNCHANGED <<journal, epoch, epochFile, taken, began, accounts>>,
             ctl # "down" \/ ctl' = ctl, ctl' \in {"down", "walk", "caught", "decline"}
      PROVE  Filed' /\ Granted'
  BY <1>3, <1>4 DEF Granted
<1>5. ASSUME UNCHANGED <<journal, epoch, epochFile, taken, began, accounts, sig>>,
             ctl \in {"invalidate", "inject", "bump"}, ctl' \in Protocol \ {"enter"}
      PROVE  Filed' /\ Granted'
  BY <1>3, <1>5 DEF Granted, Times
<1>6. ASSUME NEW o \in Owners, ThrowRouteBack(o) PROVE Filed' /\ Granted'
  BY <1>4, <1>6 DEF ThrowRouteBack
<1>7. ASSUME FastForward \/ Approve \/ ExitUnapproved \/ OtherStage \/ Finish \/ Decline
      PROVE  Filed' /\ Granted'
  BY <1>4, <1>7 DEF FastForward, Approve, ExitUnapproved, OtherStage, Finish, Decline
<1>8. ASSUME Crash PROVE Filed' /\ Granted'
  BY <1>3, <1>8 DEF Crash, Granted
<1>9. ASSUME Caught PROVE Filed' /\ Granted'
  <2>1. CASE ctl' = "decline"
    BY <1>4, <1>9, <2>1 DEF Caught
  <2>2. CASE ctl' # "decline"
    <3>1. ctl' = "invalidate" /\ RemainingBudget(sig) # 0 /\ sig \in Edge
      BY <1>9, <2>2 DEF Caught, NotTaken, Signalled
    <3>2. Times(sig, epoch) < EdgeBudget
      BY <3>1, BudgetLeft
    <3>3. Filed'
      BY <1>3, <1>9 DEF Caught
    <3> QED
      BY <1>9, <3>1, <3>2, <3>3 DEF Caught, Granted, Times
  <2> QED
    BY <2>1, <2>2
<1>10. ASSUME InvalidateCache \/ InjectRequests \/ BumpRevision PROVE Filed' /\ Granted'
  BY <1>5, <1>10 DEF InvalidateCache, InjectRequests, BumpRevision
<1>11. CASE UNCHANGED vars
  BY <1>3, <1>11 DEF vars, Granted, Times
<1> QED
  BY <1>1, <1>2, <1>6, <1>7, <1>8, <1>9, <1>10, <1>11, ChargeKeeps, ReenterKeeps DEF Next

----------------------------------------------------------------------------
(* Every reachable state is well typed, whatever fails.                    *)
THEOREM TypeCorrect == Spec => []TypeOK
<1> DEFINE TInv == TypeOK /\ Signalled /\ Dated
<1>1. Init => TInv
  BY InitIInv DEF IInv
<1>2. TInv /\ [Next]_vars => TInv'
  BY NextType, NextDated
<1>3. TInv => TypeOK
  OBVIOUS
<1> HIDE DEF TInv
<1> QED
  BY <1>1, <1>2, <1>3, PTL DEF Spec

LEMMA Inductive == Spec => []IInv
<1>1. IInv /\ [Next]_vars => IInv'
  BY NextType, NextDated, NextBudget DEF IInv
<1> QED
  BY InitIInv, <1>1, PTL DEF Spec

(* A sub-walk is never entered on an edge the journal does not hold: the   *)
(* entries made since the run began cover every jump of the run, whatever  *)
(* becomes of the epoch file.                                              *)
THEOREM Journaled == Spec => []ReentryIsJournaled
<1>1. IInv => ReentryIsJournaled
  <2> SUFFICES ASSUME IInv, NEW e \in Edge
               PROVE  taken[e] <= Cardinality({n \in journal : n.edge = e /\ n.time >= began})
    BY DEF ReentryIsJournaled
  <2>1. Jumped(journal, e, began) = {n \in journal : n.edge = e /\ n.time >= began}
    BY DEF Jumped
  <2>2. taken[e] <= Times(e, began)
    BY DEF IInv, Filed, FiledAt
  <2> QED
    BY <2>1, <2>2 DEF Times
<1> QED
  BY <1>1, Inductive, PTL

(* The walker, its files, kills, failing writes and resumes implement the  *)
(* per-run account of RouteBudget: an edge is taken at most EdgeBudget     *)
(* times in one logical run, and as often again for each epoch it lost.    *)
THEOREM BudgetKept == Spec => BudgetPerRun
<1>1. Init => Account!RBInit
  BY DEF Init, Account!RBInit
<1>2. IInv /\ [Next]_vars => [Account!RBNext]_<<taken, accounts>>
  <2> SUFFICES ASSUME IInv, [Next]_vars PROVE [Account!RBNext]_<<taken, accounts>>
    OBVIOUS
  <2> USE DEF Account!RBNext, history, ProcUnchanged, StepUnchanged
  <2>1. CASE StartFresh
    BY <2>1 DEF StartFresh, Account!NewRun
  <2>2. CASE Reenter
    <3>1. sig \in Edge /\ taken[sig] < EdgeBudget * accounts
      <4>1. sig \in Edge /\ taken[sig] \in Nat
        BY <2>2 DEF IInv, Reenter, Signalled, Protocol, TypeOK
      <4>2. Times(sig, began) \in Nat /\ Allowed \in Nat
        BY JumpedFinite, Accounting DEF IInv
      <4>3. taken[sig] < Times(sig, began) /\ Times(sig, began) <= Allowed
        BY <2>2, <4>1 DEF IInv, Reenter, Granted, Filed, FiledAt
      <4>4. taken[sig] < Allowed
        BY ONLY <4>1, <4>2, <4>3
      <4> QED
        BY <4>1, <4>4 DEF Allowed
    <3> QED
      BY <2>2, <3>1 DEF Reenter, Account!TakeEdge
  <2>3. ASSUME NEW o \in Owners, ThrowRouteBack(o) PROVE UNCHANGED <<taken, accounts>>
    BY <2>3 DEF ThrowRouteBack
  <2>4. CASE FastForward \/ Approve \/ ExitUnapproved \/ OtherStage
    BY <2>4 DEF FastForward, Approve, ExitUnapproved, OtherStage
  <2>5. CASE Resume
    BY <2>5 DEF Resume, Account!Forget
  <2>6. CASE Finish \/ Crash
    BY <2>6 DEF Finish, Crash
  <2>7. CASE Caught \/ InvalidateCache \/ InjectRequests \/ BumpRevision \/ ChargeJump \/ Decline
    BY <2>7 DEF Caught, InvalidateCache, InjectRequests, BumpRevision, ChargeJump, Decline
  <2>8. CASE UNCHANGED vars
    BY <2>8 DEF vars
  <2> QED
    BY <2>1, <2>2, <2>3, <2>4, <2>5, <2>6, <2>7, <2>8 DEF Next
<1> QED
  BY <1>1, <1>2, Inductive, PTL DEF Spec, BudgetPerRun, Account!RBSpec
----------------------------------------------------------------------------
(* From the invalidation to the re-entry no row of the owner, or of a      *)
(* stage after it, is in the resume cache.                                 *)
Cleared ==
  ctl \in {"inject", "bump", "charge", "enter"} => cacheRows \cap Suffix(sig[2]) = {}

(* A recorded revision was counted; for an owner that owes a run, or is    *)
(* about to, the counter has moved on since, or its request is pending.    *)
MovedOn ==
  /\ \A o \in Owners : converged[o] <= revisions[o] + 1
  /\ \A o \in owed : converged[o] <= revisions[o] \/ request[o] = "pending"
  /\ ctl \in {"charge", "enter"} => converged[sig[2]] <= revisions[sig[2]]

ReentryInv == TypeOK /\ Signalled /\ Dated /\ Cleared /\ MovedOn

(* A rewrite that fails is noticed: the protocol only goes on over a cache *)
(* without rows of the suffix.                                             *)
LEMMA InvalidateClears ==
  ASSUME InvalidateCache, ctl' # "decline"
  PROVE  cacheRows' \cap Suffix(sig[2]) = {}
<1>1. PICK dropped \in {cacheRows \cap Suffix(sig[2])} \cup (IF Faults THEN {{}} ELSE {}) :
        /\ cacheRows' = cacheRows \ dropped
        /\ ~B6Guard(sig[2], dropped)
  BY DEF InvalidateCache
<1>2. CASE dropped = {}
  BY <1>1, <1>2 DEF B6Guard
<1>3. CASE dropped # {}
  <2>1. dropped = cacheRows \cap Suffix(sig[2])
    BY <1>1, <1>3
  <2> QED
    BY <1>1, <2>1
<1> QED
  BY <1>2, <1>3

LEMMA NextCleared ==
  ASSUME Signalled, Cleared, [Next]_vars
  PROVE  Cleared'
<1> USE DEF Cleared, files, history, ProcUnchanged, StepUnchanged
<1>1. ASSUME ctl' \in {"down", "walk", "caught", "invalidate", "decline"} PROVE Cleared'
  BY <1>1
<1>2. ASSUME UNCHANGED <<cacheRows, sig>>, ctl \in {"inject", "bump", "charge"} PROVE Cleared'
  BY <1>2
<1>3. ASSUME InvalidateCache PROVE Cleared'
  <2>1. UNCHANGED sig
    BY <1>3 DEF InvalidateCache
  <2>2. CASE ctl' = "decline"
    BY <1>1, <2>2
  <2>3. CASE ctl' # "decline"
    BY <1>3, <2>1, <2>3, InvalidateClears
  <2> QED
    BY <2>2, <2>3
<1>4. ASSUME InjectRequests \/ BumpRevision \/ ChargeJump PROVE Cleared'
  BY <1>2, <1>4 DEF InjectRequests, BumpRevision, ChargeJump
<1>5. ASSUME StartFresh \/ Resume \/ Finish \/ Crash \/ Caught \/ Reenter \/ Decline PROVE Cleared'
  BY <1>1, <1>5 DEF StartFresh, Resume, Boot, Finish, Crash, Caught, Reenter, Decline
<1>6. ASSUME FastForward \/ Approve \/ ExitUnapproved \/ OtherStage PROVE Cleared'
  BY <1>1, <1>6 DEF FastForward, Approve, ExitUnapproved, OtherStage
<1>7. ASSUME NEW o \in Owners, ThrowRouteBack(o) PROVE Cleared'
  BY <1>1, <1>7 DEF ThrowRouteBack
<1>8. CASE UNCHANGED vars
  BY <1>8 DEF vars
<1> QED
  BY <1>3, <1>4, <1>5, <1>6, <1>7, <1>8 DEF Next

(* Revisions only grow, a revision is recorded by a stage that runs, and   *)
(* between the bump and the re-entry neither happens to the owner.         *)
LEMMA NextMovedOn ==
  ASSUME TypeOK, Signalled, MovedOn, [Next]_vars
  PROVE  MovedOn'
<1> USE DEF TypeOK, MovedOn, files, history, ProcUnchanged, StepUnchanged
<1>0. ctl \in Protocol => sig[2] \in Owners
  BY DEF Signalled, Edge
<1>1. ASSUME UNCHANGED <<converged, revisions, owed, sig>>,
             \A o \in Owners : request[o] = "pending" => request'[o] = "pending",
             ctl' \in {"charge", "enter"} => ctl \in {"charge", "enter"}
      PROVE  MovedOn'
  BY <1>1
<1>2. ASSUME UNCHANGED <<converged, revisions, owed, request>>, ctl' \in {"down", "walk", "caught"}
      PROVE  MovedOn'
  BY <1>2
<1>3. ASSUME StartFresh \/ Resume PROVE MovedOn'
  BY <1>3 DEF StartFresh, Resume, Boot, None
<1>4. ASSUME Approve PROVE MovedOn'
  <2>1. /\ converged' = [converged EXCEPT ![at] = revisions[at] + 1]
        /\ UNCHANGED revisions /\ owed' = owed \ {at}
        /\ at \in Owners /\ ctl' = "walk"
    BY <1>4 DEF Approve
  <2>2. ASSUME NEW o \in Owners PROVE converged'[o] <= revisions'[o] + 1
    BY <2>1, <2>2
  <2>3. ASSUME NEW o \in owed' PROVE converged'[o] <= revisions'[o] \/ request'[o] = "pending"
    <3>1. o \in owed /\ o # at /\ o \in Owners
      BY <2>1, <2>3
    <3>2. request'[o] = request[o]
      BY <1>4, <3>1 DEF Approve, Consume
    <3> QED
      BY <2>1, <3>1, <3>2
  <2> QED
    BY <2>1, <2>2, <2>3
<1>5. ASSUME ExitUnapproved PROVE MovedOn'
  <2>1. UNCHANGED converged /\ ctl' \in {"walk", "down"}
    BY <1>5 DEF ExitUnapproved
  <2>2. PICK debtors \in SUBSET Owners : \E written, bumped \in SUBSET debtors :
            Deliver(debtors, written, bumped)
    BY <1>5 DEF ExitUnapproved, Downstream
  <2>3. PICK written \in SUBSET debtors, bumped \in SUBSET debtors :
            Deliver(debtors, written, bumped)
    BY <2>2
  <2>4. ASSUME NEW o \in Owners
        PROVE  /\ revisions'[o] = IF o \in bumped THEN revisions[o] + 1 ELSE revisions[o]
               /\ request[o] = "pending" => request'[o] = "pending"
    <3>1. revisions'[o] = IF o \in bumped THEN revisions[o] + 1 ELSE revisions[o]
      BY <2>3, <2>4 DEF Deliver
    <3>2. request[o] = "pending" => request'[o] = "pending"
      <4>1. request'[o] = IF o \in written THEN Inject(o)[o] ELSE request[o]
        BY <2>3, <2>4 DEF Deliver
      <4>2. Inject(o)[o] = IF request[o] \in {"none", "stale"} THEN "pending" ELSE request[o]
        BY <2>4 DEF Inject
      <4> QED
        BY ONLY <4>1, <4>2
    <3> QED
      BY <3>1, <3>2
  <2>5. ASSUME NEW o \in Owners PROVE converged'[o] <= revisions'[o] + 1
    <3>1. converged'[o] = converged[o] /\ revisions'[o] \in {revisions[o], revisions[o] + 1}
      BY <2>1, <2>4, <2>5
    <3>2. converged[o] <= revisions[o] + 1 /\ converged[o] \in Nat /\ revisions[o] \in Nat
      BY <2>5
    <3> QED
      BY ONLY <3>1, <3>2
  <2>6. ASSUME NEW o \in owed' PROVE converged'[o] <= revisions'[o] \/ request'[o] = "pending"
    <3>1. o \in Owners /\ (o \in owed \/ o \in bumped \/ request'[o] = "pending")
      BY <2>2, <2>3, <2>6 DEF Deliver
    <3>2. CASE o \in owed /\ o \notin bumped
      BY <2>1, <2>4, <3>1, <3>2
    <3>3. CASE o \in bumped
      BY <2>1, <2>4, <3>1, <3>3
    <3> QED
      BY <3>1, <3>2, <3>3
  <2> QED
    BY <2>1, <2>5, <2>6
<1>6. ASSUME BumpRevision PROVE MovedOn'
  <2>1. UNCHANGED <<converged, owed, sig>> /\ sig[2] \in Owners
    BY <1>0, <1>6 DEF BumpRevision, Protocol
  <2>2. CASE ctl' = "decline"
    BY <1>6, <2>1, <2>2 DEF BumpRevision
  <2>3. CASE ctl' # "decline"
    <3>1. revisions' = [revisions EXCEPT ![sig[2]] = @ + 1]
      BY <1>6, <2>3 DEF BumpRevision, Bumped
    <3>2. \A o \in Owners : revisions'[o] >= revisions[o] /\ revisions'[o] \in Nat
      BY <2>1, <3>1
    <3>3. converged[sig[2]] <= revisions'[sig[2]]
      BY <2>1, <3>1
    <3>4. \A o \in Owners : converged[o] <= revisions'[o] + 1
      BY <3>2
    <3>5. \A o \in owed : converged[o] <= revisions'[o] \/ request[o] = "pending"
      BY <3>2
    <3> QED
      BY <1>6, <2>1, <3>3, <3>4, <3>5 DEF BumpRevision
  <2> QED
    BY <2>2, <2>3
<1>7. ASSUME Reenter PROVE MovedOn'
  BY <1>0, <1>7 DEF Reenter, Protocol
<1>8. ASSUME Finish \/ Crash PROVE MovedOn'
  BY <1>2, <1>8 DEF Finish, Crash
<1>9. ASSUME FastForward \/ OtherStage PROVE MovedOn'
  BY <1>1, <1>9 DEF FastForward, OtherStage
<1>10. ASSUME NEW o \in Owners, ThrowRouteBack(o) PROVE MovedOn'
  BY <1>2, <1>10 DEF ThrowRouteBack
<1>11. ASSUME Caught \/ InvalidateCache \/ InjectRequests \/ ChargeJump \/ Decline PROVE MovedOn'
  BY <1>1, <1>11 DEF Caught, InvalidateCache, InjectRequests, ChargeJump, Decline, Inject
<1>12. CASE UNCHANGED vars
  BY <1>1, <1>12 DEF vars
<1> QED
  BY <1>3, <1>4, <1>5, <1>6, <1>7, <1>8, <1>9, <1>10, <1>11, <1>12 DEF Next

LEMMA Reentries == Spec => []ReentryInv
<1>1. Init => ReentryInv
  <2> SUFFICES ASSUME Init PROVE ReentryInv
    OBVIOUS
  <2>1. TypeOK /\ Signalled /\ Dated
    BY InitIInv DEF IInv
  <2>2. Cleared /\ MovedOn
    BY <2>1 DEF Init, Cleared, MovedOn, None
  <2> QED
    BY <2>1, <2>2 DEF ReentryInv
<1>2. ReentryInv /\ [Next]_vars => ReentryInv'
  BY NextType, NextDated, NextCleared, NextMovedOn DEF ReentryInv
<1> QED
  BY <1>1, <1>2, PTL DEF Spec

(* When a sub-walk is entered nothing of the owner or behind it can be     *)
(* replayed, whichever of the writes before it failed.                     *)
THEOREM Invalidated == Spec => []SuffixInvalidated
<1>1. ReentryInv => SuffixInvalidated
  BY DEF ReentryInv, Cleared, SuffixInvalidated
<1> QED
  BY <1>1, Reentries, PTL

(* An owner that was routed to, or that carried debt reached, is not       *)
(* fast-forwarded before it has run: the revision it converged at is       *)
(* behind the counter, or its request is still pending.                    *)
THEOREM OwedRuns == Spec => OwedStageRuns
<1>1. ReentryInv /\ [Next]_vars => [FastForward => at \notin owed]_vars
  <2> SUFFICES ASSUME ReentryInv, FastForward, at \in owed PROVE FALSE
    OBVIOUS
  <2>1. converged[at] = revisions[at] + 1 /\ at \in Owners /\ request[at] # "pending"
    BY DEF FastForward, RevisionGate, RevisionUnchanged
  <2>2. converged[at] <= revisions[at] /\ revisions[at] \in Nat
    BY <2>1 DEF ReentryInv, MovedOn, TypeOK
  <2> QED
    BY <2>1, <2>2
<1> QED
  BY <1>1, Reentries, PTL DEF Spec, OwedStageRuns

(***************************************************************************)
(* Judge                                                                   *)
(***************************************************************************)

CallOut == {"first", "second", "corrective"}

(* What the bounds rest on. The code writes the count of a retried call from *)
(* the value it read before the first attempt; it is the right one because   *)
(* nothing else counts for the signature meanwhile (FirstIsCounted).         *)
CountsAreTrue ==
  /\ askedRun = runCalls /\ runCalls <= MaxPerRun
  /\ \A s \in Sigs : asked[s] = signatureCalls[s] /\ signatureCalls[s] <= MaxPerSignature
FirstIsCounted ==
  \A s \in Sigs : ask[s].pc = "first" => signatureCalls[s] = ask[s].used + 1
OneUnaudited ==
  \A s \in Sigs : IF ask[s].pc \in CallOut THEN asked[s] = audited[s] + 1 ELSE asked[s] = audited[s]

BudgetInv == JudgeTypeOK /\ CountsAreTrue /\ FirstIsCounted /\ OneUnaudited

USE JudgeAssumption

RequestStatus == {"none", "routed", "escalate", "discarded", "degraded"}
Request == [pc : {"idle", "first", "second", "corrective", "done"}, used : 0..MaxPerSignature,
            status : RequestStatus, verdict : Verdict]

LEMMA InitBudget == JudgeInit => BudgetInv
BY DEF JudgeInit, BudgetInv, JudgeTypeOK, CountsAreTrue, FirstIsCounted, OneUnaudited, CallOut,
       Quiet, NoVerdict, Verdict

LEMMA NoVerdictType == NoVerdict \in Verdict /\ Quiet \in Request
BY DEF NoVerdict, Verdict, Quiet, Request, RequestStatus

LEMMA AnswerType ==
  ASSUME NEW s \in Sigs, NEW status \in RequestStatus, NEW v \in Verdict,
         ask \in [Sigs -> Request], Answer(s, status, v)
  PROVE  ask' \in [Sigs -> Request]
<1>. DEFINE answered == [ask[s] EXCEPT !.pc = "done", !.status = status, !.verdict = v]
<1>1. answered \in Request
  BY DEF Request
<1>2. ask' = [ask EXCEPT ![s] = answered]
  BY DEF Answer
<1>. QED BY <1>1, <1>2

(* A call is answered: the counts stay, the audit file catches up.           *)
LEMMA AnswerKeeps ==
  ASSUME NEW s \in Sigs, NEW status \in RequestStatus,
         NEW v \in Verdict, BudgetInv, ask[s].pc \in CallOut,
         Audit(s), Answer(s, status, v), NoCall
  PROVE  BudgetInv'
<1>1. JudgeTypeOK'
  BY AnswerType DEF BudgetInv, JudgeTypeOK, Request, RequestStatus, Audit, NoCall
<1>2. CountsAreTrue'
  BY DEF BudgetInv, CountsAreTrue, NoCall
<1>3. FirstIsCounted'
  BY DEF BudgetInv, JudgeTypeOK, FirstIsCounted, Answer, NoCall
<1>4. OneUnaudited'
  BY DEF BudgetInv, JudgeTypeOK, OneUnaudited, CallOut, Audit, Answer, NoCall
<1>. QED BY <1>1, <1>2, <1>3, <1>4 DEF BudgetInv

(* A call is answered by another one, which the budgets allow.               *)
LEMMA SpendKeeps ==
  ASSUME NEW s \in Sigs, BudgetInv, ask[s].pc \in CallOut, NEW pc \in {"second", "corrective"},
         Audit(s), Spend(s, signatureCalls[s] + 1, pc),
         signatureCalls[s] < MaxPerSignature, runCalls < MaxPerRun
  PROVE  BudgetInv'
<1>1. JudgeTypeOK'
  BY DEF BudgetInv, JudgeTypeOK, Audit, Spend
<1>2. CountsAreTrue'
  BY DEF BudgetInv, JudgeTypeOK, CountsAreTrue, Spend
<1>3. FirstIsCounted'
  BY DEF BudgetInv, JudgeTypeOK, FirstIsCounted, Spend
<1>4. OneUnaudited'
  BY DEF BudgetInv, JudgeTypeOK, OneUnaudited, CallOut, Audit, Spend
<1>. QED BY <1>1, <1>2, <1>3, <1>4 DEF BudgetInv

LEMMA RunJudgeKeeps ==
  ASSUME NEW s \in Sigs, BudgetInv, runJudge(s)
  PROVE  BudgetInv'
<1>1. CASE Answer(s, "degraded", NoVerdict) /\ NoCall
  <2>1. JudgeTypeOK'
    BY <1>1, AnswerType, NoVerdictType DEF BudgetInv, JudgeTypeOK, Request, RequestStatus, runJudge, NoCall
  <2>2. CountsAreTrue' /\ FirstIsCounted'
    BY <1>1 DEF BudgetInv, JudgeTypeOK, CountsAreTrue, FirstIsCounted, Answer, NoCall
  <2>3. OneUnaudited'
    BY <1>1 DEF BudgetInv, JudgeTypeOK, OneUnaudited, CallOut, runJudge, Answer, NoCall
  <2>. QED BY <2>1, <2>2, <2>3 DEF BudgetInv
<1>2. CASE /\ signatureCalls[s] < MaxPerSignature /\ runCalls < MaxPerRun
           /\ signatureCalls' = [signatureCalls EXCEPT ![s] = @ + 1] /\ runCalls' = runCalls + 1
           /\ asked' = [asked EXCEPT ![s] = @ + 1] /\ askedRun' = askedRun + 1
           /\ ask' = [ask EXCEPT ![s] = [Quiet EXCEPT !.pc = "first", !.used = signatureCalls[s]]]
  <2>. DEFINE first == [Quiet EXCEPT !.pc = "first", !.used = signatureCalls[s]]
  <2>0. /\ first.pc = "first" /\ first.used = signatureCalls[s]
        /\ first \in Request
    <3>1. signatureCalls[s] \in 0..MaxPerSignature
      BY <1>2 DEF BudgetInv, JudgeTypeOK
    <3>2. first \in Request
      BY <3>1, NoVerdictType DEF Request
    <3>3. first.pc = "first" /\ first.used = signatureCalls[s]
      BY NoVerdictType DEF Request
    <3>. QED BY <3>2, <3>3
  <2>1. JudgeTypeOK'
    BY <1>2, <2>0 DEF BudgetInv, JudgeTypeOK, Request, RequestStatus, runJudge
  <2>2. CountsAreTrue'
    BY <1>2 DEF BudgetInv, JudgeTypeOK, CountsAreTrue
  <2>3. FirstIsCounted'
    BY <1>2, <2>0 DEF BudgetInv, JudgeTypeOK, FirstIsCounted
  <2>4. OneUnaudited'
    BY <1>2, <2>0 DEF BudgetInv, JudgeTypeOK, OneUnaudited, CallOut, runJudge
  <2>. QED BY <2>1, <2>2, <2>3, <2>4 DEF BudgetInv
<1>. QED BY <1>1, <1>2 DEF runJudge

LEMMA AdjudicateAnswers ==
  ASSUME NEW s \in Sigs, NEW v \in Verdict, Adjudicate(s, v)
  PROVE  \E status \in {"routed", "escalate"}, w \in Verdict : Answer(s, status, w)
<1>1. [v EXCEPT !.route = "escalate-now"] \in Verdict
  BY DEF Verdict
<1>. QED BY <1>1 DEF Adjudicate

LEMMA TimesOutKeeps ==
  ASSUME NEW s \in Sigs, BudgetInv, TimesOut(s)
  PROVE  BudgetInv'
<1>0. ask[s].pc \in CallOut /\ Audit(s)
  BY DEF TimesOut, CallOut
<1>1. CASE MayRetry(s)
  <2>1. signatureCalls[s] = ask[s].used + 1 /\ ask[s].used \in Nat
    BY DEF BudgetInv, JudgeTypeOK, FirstIsCounted, TimesOut
  <2>2. Spend(s, signatureCalls[s] + 1, "second")
    BY <1>1, <2>1 DEF TimesOut, Spend
  <2>. QED BY <1>0, <1>1, <2>1, <2>2, SpendKeeps DEF MayRetry
<1>2. CASE ~MayRetry(s)
  BY <1>0, <1>2, AnswerKeeps, NoVerdictType DEF RequestStatus, TimesOut
<1>. QED BY <1>1, <1>2

LEMMA FirstVerdictKeeps ==
  ASSUME NEW s \in Sigs, NEW v \in Verdicts, BudgetInv, FirstVerdict(s, v)
  PROVE  BudgetInv'
<1>0. ask[s].pc \in CallOut /\ Audit(s) /\ v \in Verdict
  BY DEF FirstVerdict, CallOut, Verdicts
<1>. DEFINE plain == ~EvidenceFails(v) \/ (Missing(v) /\ v.route = "driven")
            bare == Missing(v) /\ v.route = "escalate-now"
<1>1. CASE plain
  <2>1. Adjudicate(s, v) /\ NoCall
    BY <1>1 DEF FirstVerdict, EvidenceFails, Missing
  <2>. QED BY <1>0, <2>1, AdjudicateAnswers, AnswerKeeps DEF RequestStatus
<1>2. CASE ~plain /\ bare
  <2>1. Answer(s, "escalate", v) /\ NoCall
    BY <1>2 DEF FirstVerdict
  <2>. QED BY <1>0, <2>1, AnswerKeeps DEF RequestStatus
<1>3. CASE ~plain /\ ~bare /\ MayCorrect(s)
  <2>1. Spend(s, signatureCalls[s] + 1, "corrective")
    BY <1>3 DEF FirstVerdict
  <2>. QED BY <1>0, <1>3, <2>1, SpendKeeps DEF MayCorrect
<1>4. CASE ~plain /\ ~bare /\ ~MayCorrect(s)
  <2>1. Answer(s, "discarded", NoVerdict) /\ NoCall
    BY <1>4 DEF FirstVerdict
  <2>. QED BY <1>0, <2>1, AnswerKeeps, NoVerdictType DEF RequestStatus
<1>. QED BY <1>1, <1>2, <1>3, <1>4

LEMMA CorrectiveVerdictKeeps ==
  ASSUME NEW s \in Sigs, NEW v \in Verdicts, BudgetInv, CorrectiveVerdict(s, v)
  PROVE  BudgetInv'
<1>0. ask[s].pc \in CallOut /\ Audit(s) /\ NoCall /\ v \in Verdict
  BY DEF CorrectiveVerdict, CallOut, Verdicts
<1>1. Floor(v) \in Verdict
  BY <1>0 DEF Floor, Verdict
<1>2. CASE EvidenceFails(v)
  BY <1>0, <1>1, <1>2, AnswerKeeps DEF RequestStatus, CorrectiveVerdict
<1>3. CASE ~EvidenceFails(v)
  BY <1>0, <1>3, AdjudicateAnswers, AnswerKeeps DEF RequestStatus, CorrectiveVerdict
<1>. QED BY <1>2, <1>3

LEMMA ResetKeeps == BudgetInv /\ resetJudgeBudgets => BudgetInv'
<1>. SUFFICES ASSUME BudgetInv, resetJudgeBudgets PROVE BudgetInv'
  OBVIOUS
<1>1. JudgeTypeOK' /\ CountsAreTrue'
  BY NoVerdictType DEF resetJudgeBudgets, JudgeTypeOK, CountsAreTrue, Request, RequestStatus
<1>2. FirstIsCounted' /\ OneUnaudited'
  BY DEF resetJudgeBudgets, FirstIsCounted, OneUnaudited, CallOut, Quiet
<1>. QED BY <1>1, <1>2 DEF BudgetInv

LEMMA StepBudget == BudgetInv /\ [JudgeNext]_judgeVars => BudgetInv'
<1>. SUFFICES ASSUME BudgetInv, [JudgeNext]_judgeVars PROVE BudgetInv'
  OBVIOUS
<1>1. CASE resetJudgeBudgets
  BY <1>1, ResetKeeps
<1>2. ASSUME NEW s \in Sigs, runJudge(s) PROVE BudgetInv'
  BY <1>2, RunJudgeKeeps
<1>3. ASSUME NEW s \in Sigs, TimesOut(s) PROVE BudgetInv'
  BY <1>3, TimesOutKeeps
<1>4. ASSUME NEW s \in Sigs, AgentFails(s) PROVE BudgetInv'
  BY <1>4, AnswerKeeps, NoVerdictType DEF RequestStatus, AgentFails, CallOut
<1>5. ASSUME NEW s \in Sigs, Unparseable(s) PROVE BudgetInv'
  BY <1>5, AnswerKeeps, NoVerdictType DEF RequestStatus, Unparseable, CallOut
<1>6. ASSUME NEW s \in Sigs, NEW v \in Verdicts, FirstVerdict(s, v) PROVE BudgetInv'
  BY <1>6, FirstVerdictKeeps
<1>7. ASSUME NEW s \in Sigs, NEW v \in Verdicts, CorrectiveVerdict(s, v) PROVE BudgetInv'
  BY <1>7, CorrectiveVerdictKeeps
<1>8. CASE UNCHANGED judgeVars
  BY <1>8 DEF judgeVars, BudgetInv, JudgeTypeOK, CountsAreTrue, FirstIsCounted, OneUnaudited
<1>. QED BY <1>1, <1>2, <1>3, <1>4, <1>5, <1>6, <1>7, <1>8 DEF JudgeNext

(* The judge's variables keep their types: the count of a retried call, read *)
(* before the first attempt and written after it, never passes its bound.    *)
THEOREM JudgeTypeCorrect == JudgeSpec => []JudgeTypeOK
<1>1. BudgetInv => JudgeTypeOK
  BY DEF BudgetInv
<1>. QED BY InitBudget, StepBudget, <1>1, PTL DEF JudgeSpec

(* judge.ts, INV-3 and INV-5: whatever times out, fails or is corrected, a   *)
(* signature and a run have no more calls than their budgets, and every call *)
(* that ended is in the audit file.                                          *)
THEOREM JudgeBudgetKept == JudgeSpec => []JudgeBudget
<1>1. BudgetInv => JudgeBudget
  BY DEF BudgetInv, JudgeTypeOK, CountsAreTrue, OneUnaudited, JudgeBudget, CallOut
<1>. QED BY InitBudget, StepBudget, <1>1, PTL DEF JudgeSpec

-----------------------------------------------------------------------------
(* What an outcome may be.                                                   *)
Grounded(status, v) ==
  /\ status = "routed" =>
       /\ v.offered /\ (v.sure \/ v.route = "escalate-now")
       /\ v.evidence = "verified" \/ (v.evidence = "none" /\ v.route \in {"continue", "driven"})
  /\ v.evidence # "bad"

LEMMA GroundedAnswer ==
  ASSUME NEW s \in Sigs, NEW status \in RequestStatus, NEW v \in Verdict, JudgeTypeOK, RoutedIsGrounded,
         Answer(s, status, v), Grounded(status, v)
  PROVE  RoutedIsGrounded'
<1>. SUFFICES ASSUME NEW t \in Sigs
              PROVE  Grounded(ask'[t].status, ask'[t].verdict)
  BY DEF RoutedIsGrounded, Grounded
<1>1. CASE t = s
  <2>1. ask'[s].status = status /\ ask'[s].verdict = v
    BY DEF Answer, JudgeTypeOK
  <2>. QED BY <1>1, <2>1
<1>2. CASE t # s
  <2>1. ask'[t] = ask[t]
    BY <1>2 DEF Answer, JudgeTypeOK
  <2>. QED BY <2>1 DEF RoutedIsGrounded, Grounded
<1>. QED BY <1>1, <1>2

LEMMA GroundedKept ==
  ASSUME RoutedIsGrounded,
         \A t \in Sigs : ask'[t].status = ask[t].status /\ ask'[t].verdict = ask[t].verdict
  PROVE  RoutedIsGrounded'
BY DEF RoutedIsGrounded

LEMMA NoVerdictGrounded ==
  ASSUME NEW status \in RequestStatus \ {"routed"}
  PROVE  Grounded(status, NoVerdict)
BY DEF Grounded, NoVerdict, RequestStatus

LEMMA AdjudicateGrounded ==
  ASSUME NEW s \in Sigs, NEW v \in Verdicts, JudgeTypeOK, RoutedIsGrounded, Adjudicate(s, v),
         v.evidence # "bad",
         v.evidence = "verified" \/ (v.evidence = "none" /\ v.route \in {"continue", "driven"})
  PROVE  RoutedIsGrounded'
<1>. DEFINE up == [v EXCEPT !.route = "escalate-now"]
<1>0. v \in Verdict /\ up \in Verdict /\ up.evidence = v.evidence
  BY DEF Verdicts, Verdict
<1>1. CASE v.offered /\ (v.sure \/ v.route = "escalate-now")
  <2>1. Answer(s, "routed", v) /\ Grounded("routed", v)
    BY <1>1 DEF Adjudicate, Grounded
  <2>. QED BY <1>0, <2>1, GroundedAnswer DEF RequestStatus
<1>2. CASE ~(v.offered /\ (v.sure \/ v.route = "escalate-now"))
  <2>1. Answer(s, "escalate", up) /\ Grounded("escalate", up)
    BY <1>0, <1>2 DEF Adjudicate, Grounded
  <2>. QED BY <1>0, <2>1, GroundedAnswer DEF RequestStatus
<1>. QED BY <1>1, <1>2

LEMMA FirstVerdictGrounded ==
  ASSUME NEW s \in Sigs, NEW v \in Verdicts, JudgeTypeOK, RoutedIsGrounded, FirstVerdict(s, v)
  PROVE  RoutedIsGrounded'
<1>0. v \in Verdict /\ v.evidence \in {"none", "verified", "bad"}
  BY DEF Verdicts, Verdict
<1>. DEFINE plain == ~EvidenceFails(v) \/ (Missing(v) /\ v.route = "driven")
            bare == Missing(v) /\ v.route = "escalate-now"
<1>1. CASE plain
  <2>1. Adjudicate(s, v)
    BY <1>1 DEF FirstVerdict, EvidenceFails, Missing
  <2>2. v.evidence = "verified" \/ (v.evidence = "none" /\ v.route \in {"continue", "driven"})
    BY <1>0, <1>1 DEF EvidenceFails, Missing
  <2>. QED BY <2>1, <2>2, AdjudicateGrounded
<1>2. CASE ~plain /\ bare
  <2>1. Answer(s, "escalate", v) /\ Grounded("escalate", v)
    BY <1>2 DEF FirstVerdict, Grounded, Missing
  <2>. QED BY <1>0, <2>1, GroundedAnswer DEF RequestStatus
<1>3. CASE ~plain /\ ~bare /\ MayCorrect(s)
  <2>1. ask' = [ask EXCEPT ![s].pc = "corrective"]
    BY <1>3 DEF FirstVerdict, Spend
  <2>2. \A t \in Sigs : ask'[t].status = ask[t].status /\ ask'[t].verdict = ask[t].verdict
    BY <2>1 DEF JudgeTypeOK
  <2>. QED BY <2>2, GroundedKept
<1>4. CASE ~plain /\ ~bare /\ ~MayCorrect(s)
  <2>1. Answer(s, "discarded", NoVerdict)
    BY <1>4 DEF FirstVerdict
  <2>. QED BY <2>1, GroundedAnswer, NoVerdictGrounded, NoVerdictType DEF RequestStatus
<1>. QED BY <1>1, <1>2, <1>3, <1>4

LEMMA CorrectiveVerdictGrounded ==
  ASSUME NEW s \in Sigs, NEW v \in Verdicts, JudgeTypeOK, RoutedIsGrounded, CorrectiveVerdict(s, v)
  PROVE  RoutedIsGrounded'
<1>0. v \in Verdict /\ v.evidence \in {"none", "verified", "bad"}
  BY DEF Verdicts, Verdict
<1>1. CASE EvidenceFails(v)
  <2>1. Floor(v) \in Verdict /\ Grounded("escalate", Floor(v))
    BY <1>0 DEF Floor, Verdict, Grounded
  <2>2. Answer(s, "escalate", Floor(v))
    BY <1>1 DEF CorrectiveVerdict
  <2>. QED BY <2>1, <2>2, GroundedAnswer DEF RequestStatus
<1>2. CASE ~EvidenceFails(v)
  <2>1. v.evidence = "verified" \/ (v.evidence = "none" /\ v.route \in {"continue", "driven"})
    BY <1>0, <1>2 DEF EvidenceFails
  <2>2. Adjudicate(s, v)
    BY <1>2 DEF CorrectiveVerdict
  <2>. QED BY <2>1, <2>2, AdjudicateGrounded
<1>. QED BY <1>1, <1>2

LEMMA StepGrounded ==
  JudgeTypeOK /\ RoutedIsGrounded /\ [JudgeNext]_judgeVars => RoutedIsGrounded'
<1>. SUFFICES ASSUME JudgeTypeOK, RoutedIsGrounded, [JudgeNext]_judgeVars PROVE RoutedIsGrounded'
  OBVIOUS
<1>1. CASE resetJudgeBudgets
  <2>1. \A t \in Sigs : ask'[t].status = "none" /\ ask'[t].verdict = NoVerdict
    BY <1>1 DEF resetJudgeBudgets, Quiet
  <2>. QED BY <2>1 DEF RoutedIsGrounded, NoVerdict
<1>2. ASSUME NEW s \in Sigs, runJudge(s) PROVE RoutedIsGrounded'
  <2>1. CASE Answer(s, "degraded", NoVerdict)
    BY <2>1, GroundedAnswer, NoVerdictGrounded, NoVerdictType DEF RequestStatus
  <2>2. CASE ask' = [ask EXCEPT ![s] = [Quiet EXCEPT !.pc = "first", !.used = signatureCalls[s]]]
    <3>1. /\ ask'[s].status = "none" /\ ask'[s].verdict = NoVerdict
          /\ \A t \in Sigs \ {s} : ask'[t] = ask[t]
      BY <2>2, NoVerdictType DEF JudgeTypeOK, Request, Quiet
    <3>. QED BY <3>1 DEF RoutedIsGrounded, NoVerdict
  <2>. QED BY <1>2, <2>1, <2>2 DEF runJudge
<1>3. ASSUME NEW s \in Sigs, TimesOut(s) PROVE RoutedIsGrounded'
  <2>1. CASE MayRetry(s)
    <3>1. ask' = [ask EXCEPT ![s].pc = "second"]
      BY <1>3, <2>1 DEF TimesOut, Spend
    <3>2. \A t \in Sigs : ask'[t].status = ask[t].status /\ ask'[t].verdict = ask[t].verdict
      BY <3>1 DEF JudgeTypeOK
    <3>. QED BY <3>2, GroundedKept
  <2>2. CASE ~MayRetry(s)
    BY <1>3, <2>2, GroundedAnswer, NoVerdictGrounded, NoVerdictType DEF TimesOut, RequestStatus
  <2>. QED BY <2>1, <2>2
<1>4. ASSUME NEW s \in Sigs, AgentFails(s) \/ Unparseable(s) PROVE RoutedIsGrounded'
  BY <1>4, GroundedAnswer, NoVerdictGrounded, NoVerdictType DEF AgentFails, Unparseable, RequestStatus
<1>5. ASSUME NEW s \in Sigs, NEW v \in Verdicts, FirstVerdict(s, v) PROVE RoutedIsGrounded'
  BY <1>5, FirstVerdictGrounded
<1>6. ASSUME NEW s \in Sigs, NEW v \in Verdicts, CorrectiveVerdict(s, v) PROVE RoutedIsGrounded'
  BY <1>6, CorrectiveVerdictGrounded
<1>7. CASE UNCHANGED judgeVars
  BY <1>7 DEF judgeVars, RoutedIsGrounded
<1>. QED BY <1>1, <1>2, <1>3, <1>4, <1>5, <1>6, <1>7 DEF JudgeNext

(* judge.ts, INV-2: a loop follows a route only if it was offered, the judge *)
(* was sure of it and its evidence was verified (continuing and bounded      *)
(* rework need none); evidence that failed leaves with no outcome at all.    *)
THEOREM Grounding == JudgeSpec => []RoutedIsGrounded
<1>1. JudgeInit => RoutedIsGrounded
  BY DEF JudgeInit, Quiet, NoVerdict, RoutedIsGrounded
<1>. QED BY InitBudget, StepBudget, StepGrounded, <1>1, PTL DEF JudgeSpec, BudgetInv

(***************************************************************************)
(* ExtensionSession                                                        *)
(***************************************************************************)

\* The fields of a call of the tool.
ExecFields == {"at", "mod", "spec", "restarts", "queue"}

(* Without the escape hatch the guard names the only run there is; the      *)
(* second conjunct of GuardHolds needs no more.                             *)
GuardInv ==
  /\ exec = [e \in Execs |-> exec[e]] /\ \A e \in Execs : DOMAIN exec[e] = ExecFields
  /\ forced = {} => \A e \in Execs : Live(e) => guard = e
  /\ latest # NoExec /\ Live(latest) => guard = latest
  /\ latest \in Execs \cup {NoExec}

LEMMA GuardSuffices == GuardInv => GuardHolds
<1>. SUFFICES ASSUME GuardInv, forced = {} PROVE Cardinality({e \in Execs : Live(e)}) <= 1
  BY DEF GuardInv, GuardHolds
<1>1. CASE \E e \in Execs : Live(e)
  <2>1. {e \in Execs : Live(e)} = {guard}
    BY <1>1 DEF GuardInv
  <2>. QED BY <2>1, FS_Singleton
<1>2. CASE ~\E e \in Execs : Live(e)
  <2>1. {e \in Execs : Live(e)} = {}
    BY <1>2
  <2>. QED BY <2>1, FS_EmptySet
<1>. QED BY <1>1, <1>2

LEMMA InitGuard == ExtensionInit => GuardInv
BY ExtensionAssumption DEF ExtensionInit, GuardInv, Called, ExecFields, Live

(* A step that starts or ends no run and leaves the guard alone.            *)
LEMMA Bystander ==
  ASSUME GuardInv, guard' = guard, latest' = latest, forced' = forced,
         exec' = [e \in Execs |-> exec'[e]],
         \A e \in Execs : DOMAIN exec'[e] = ExecFields /\ (Live(e)' => Live(e))
  PROVE  GuardInv'
BY DEF GuardInv

LEMMA ExecuteGuards == ASSUME GuardInv, NEW e \in Execs, Execute(e) PROVE GuardInv'
<1>1. PICK hatch \in BOOLEAN :
        \/ /\ Refused(hatch) /\ exec' = [exec EXCEPT ![e].at = "refused"]
           /\ UNCHANGED <<inFlight, activeRun, guard, latest, forced>>
        \/ /\ ~Refused(hatch) /\ guard' = e /\ latest' = e
           /\ forced' = IF hatch /\ guard # NoExec THEN forced \cup {e} ELSE forced
           /\ \E spec \in {e} \cup ({exec[x].spec : x \in Execs} \ {NoExec}) :
                exec' = [exec EXCEPT ![e].at = "running", ![e].mod = module, ![e].spec = spec]
  BY DEF Execute
<1>2. CASE exec' = [exec EXCEPT ![e].at = "refused"] /\ UNCHANGED <<guard, latest, forced>>
  <2>1. /\ exec' = [x \in Execs |-> exec'[x]] /\ \A x \in Execs : DOMAIN exec'[x] = ExecFields
        /\ exec'[e].at = "refused" /\ \A x \in Execs \ {e} : exec'[x] = exec[x]
    BY <1>2 DEF GuardInv, ExecFields
  <2>. QED BY <1>2, <2>1, Bystander DEF Live
<1>3. CASE /\ ~Refused(hatch) /\ guard' = e /\ latest' = e
           /\ forced' = IF hatch /\ guard # NoExec THEN forced \cup {e} ELSE forced
           /\ \E spec \in {e} \cup ({exec[x].spec : x \in Execs} \ {NoExec}) :
                exec' = [exec EXCEPT ![e].at = "running", ![e].mod = module, ![e].spec = spec]
  <2>1. /\ exec' = [x \in Execs |-> exec'[x]] /\ \A x \in Execs : DOMAIN exec'[x] = ExecFields
        /\ \A x \in Execs \ {e} : exec'[x] = exec[x]
    BY <1>3 DEF GuardInv, ExecFields
  <2>2. forced' = {} => forced = {} /\ guard = NoExec
    BY <1>3 DEF Refused
  <2>3. forced' = {} => \A x \in Execs \ {e} : ~Live(x)
    BY <2>2, ExtensionAssumption DEF GuardInv
  <2>. QED BY <1>3, <2>1, <2>3 DEF GuardInv, Live
<1>. QED BY <1>1, <1>2, <1>3

(* A run that ends releases the guard only if it holds it.                  *)
LEMMA EndGuards == ASSUME GuardInv, NEW e \in Execs, NEW kinds, EndRun(e, kinds) PROVE GuardInv'
<1>1. /\ guard' = (IF guard = e THEN NoExec ELSE guard) /\ latest' = latest /\ forced' = forced
      /\ exec' = [exec EXCEPT ![e].at = "ended", ![e].queue = <<>>]
  BY DEF EndRun, releaseRunGuard
<1>2. /\ exec' = [x \in Execs |-> exec'[x]] /\ \A x \in Execs : DOMAIN exec'[x] = ExecFields
      /\ exec'[e].at = "ended" /\ \A x \in Execs \ {e} : exec'[x] = exec[x]
  BY <1>1 DEF GuardInv, ExecFields
<1>3. ~Live(e)' /\ \A x \in Execs : Live(x)' => Live(x) /\ x # e
  BY <1>2 DEF Live
<1>. QED BY <1>1, <1>2, <1>3, ExtensionAssumption DEF GuardInv

LEMMA ReturnGuards == ASSUME GuardInv, NEW e \in Execs, PipelineReturns(e) PROVE GuardInv'
<1>1. CASE \E kinds \in Begun : EndRun(e, kinds)
  BY <1>1, EndGuards
<1>2. CASE /\ \/ exec' = [exec EXCEPT ![e].restarts = @ + 1]
              \/ exec' = [exec EXCEPT ![e].at = "asking"]
           /\ UNCHANGED <<guard, latest, forced>>
  <2>1. /\ exec' = [x \in Execs |-> exec'[x]] /\ \A x \in Execs : DOMAIN exec'[x] = ExecFields
        /\ exec'[e].at \in {"running", "asking"} /\ \A x \in Execs \ {e} : exec'[x] = exec[x]
    BY <1>2 DEF GuardInv, ExecFields, PipelineReturns
  <2>2. Live(e)
    BY DEF PipelineReturns, Live
  <2>. QED BY <1>2, <2>1, <2>2, Bystander DEF Live
<1>. QED BY <1>1, <1>2 DEF PipelineReturns

LEMMA QueueGuards ==
  ASSUME GuardInv, NEW e, NEW queue, exec' = [exec EXCEPT ![e].queue = queue],
         guard' = guard, latest' = latest, forced' = forced
  PROVE  GuardInv'
<1>1. /\ exec' = [x \in Execs |-> exec'[x]]
      /\ \A x \in Execs : DOMAIN exec'[x] = ExecFields /\ exec'[x].at = exec[x].at
  BY DEF GuardInv, ExecFields
<1>. QED BY <1>1, Bystander DEF Live

LEMMA StepGuard == GuardInv /\ [ExtensionNext]_extensionVars => GuardInv'
<1>. SUFFICES ASSUME GuardInv, [ExtensionNext]_extensionVars PROVE GuardInv'
  OBVIOUS
<1>1. ASSUME NEW e \in Execs, Execute(e) PROVE GuardInv'
  BY <1>1, ExecuteGuards
<1>2. ASSUME NEW e \in Execs, PipelineReturns(e) PROVE GuardInv'
  BY <1>2, ReturnGuards
<1>3. ASSUME NEW e \in Execs, StagnationAnswered(e) \/ PipelineThrows(e) PROVE GuardInv'
  BY <1>3, EndGuards DEF StagnationAnswered, PipelineThrows
<1>4. ASSUME NEW e \in Execs, StartAgent(e) PROVE GuardInv'
  BY <1>4, QueueGuards DEF StartAgent
<1>5. CASE InputAccepted
  <2>1. \E e, queue : exec' = [exec EXCEPT ![e].queue = queue]
    BY <1>5 DEF InputAccepted
  <2>. QED BY <1>5, <2>1, QueueGuards DEF InputAccepted
<1>6. CASE Settle \/ SessionShutdown
  BY <1>6 DEF Settle, SessionShutdown, GuardInv, Live
<1>7. CASE UNCHANGED extensionVars
  BY <1>7 DEF extensionVars, GuardInv, Live
<1>. QED BY <1>1, <1>2, <1>3, <1>4, <1>5, <1>6, <1>7 DEF ExtensionNext

(* Without the escape hatch one run is active in the process, reloads or     *)
(* not; and the run admitted last is guarded to its end (runGuardRefusal,    *)
(* releaseRunGuard).                                                         *)
THEOREM Guarded == ExtensionSpec => []GuardHolds
BY InitGuard, StepGuard, GuardSuffices, PTL DEF ExtensionSpec

----------------------------------------------------------------------------
(* What a shutdown names, and which agents a note reaches.                  *)

Call == [at : {"none", "refused", "running", "asking", "ended"}, mod : 0..MaxModules,
         spec : Execs \cup {NoExec}, restarts : Nat, queue : Seq(Nat)]

SessionType ==
  /\ module \in Modules /\ inFlight \in [Modules -> BOOLEAN]
  /\ activeRun \in [Modules -> Execs \cup {NoExec}]
  /\ pending \in [Modules -> SUBSET Work] /\ working \subseteq Work
  /\ exec \in [Execs -> Call]

\* A call that was admitted belongs to an evaluation and has a spec.
InRun == {"running", "asking", "ended"}
Admitted(e) == exec[e].at \in InRun
Placed ==
  \A e \in Execs : /\ Admitted(e) => exec[e].mod \in 1..module /\ exec[e].spec \in Execs
                   /\ ~Admitted(e) => exec[e].mod = 0

\* The run of an evaluation is the one that is under way in it.
Seated ==
  /\ \A e \in Execs : Live(e) => inFlight[exec[e].mod] /\ activeRun[exec[e].mod] = e
  /\ \A k \in Modules : activeRun[k] # NoExec => Live(activeRun[k]) /\ exec[activeRun[k]].mod = k

\* The registry of the evaluation in service, and of those to come, is the
\* work of its ended runs; older evaluations have reported theirs.
Registered ==
  /\ \A w \in working : exec[w[1]].at = "ended"
  /\ ~quit =>
       \A k \in Modules : k >= module => pending[k] = {w \in working : exec[w[1]].mod = k}

RunsInv == SessionType /\ Placed /\ Seated /\ Registered

Fate == {"queued", "stored", "crowded", "unsaved", "forgotten", "late"}
Note == [by : Execs, due : SUBSET Execs, fate : Fate]
Noted == note \in Seq(Note)

USE ExtensionAssumption DEF Modules

(* Facts about the sequences of notes.                                      *)
LEMMA SeqShape ==
  ASSUME NEW S, NEW s \in Seq(S)
  PROVE  s \in [1..Len(s) -> S] /\ Len(s) \in Nat /\ DOMAIN s = 1..Len(s)
OBVIOUS

LEMMA SeqMade ==
  ASSUME NEW S, NEW n \in Nat, NEW f \in [1..n -> S]
  PROVE  f \in Seq(S) /\ Len(f) = n
OBVIOUS

LEMMA AppendShape ==
  ASSUME NEW S, NEW s \in Seq(S), NEW x \in S
  PROVE  /\ Append(s, x) \in Seq(S) /\ Len(Append(s, x)) = Len(s) + 1
         /\ Append(s, x)[Len(s) + 1] = x /\ \A i \in 1..Len(s) : Append(s, x)[i] = s[i]
OBVIOUS

LEMMA TailShape ==
  ASSUME NEW S, NEW s \in Seq(S), s # <<>>
  PROVE  /\ Tail(s) \in Seq(S) /\ Len(Tail(s)) = Len(s) - 1 /\ Len(s) > 0 /\ Head(s) = s[1]
         /\ \A i \in 1..Len(Tail(s)) : Tail(s)[i] = s[i + 1]
OBVIOUS

LEMMA ToSetShape == ASSUME NEW S, NEW s \in Seq(S) PROVE ToSet(s) = {s[i] : i \in 1..Len(s)}
BY DEF ToSet

(* Only the fate of some notes changes.                                     *)
LEMMA FatesShape ==
  ASSUME Noted, NEW S, NEW f \in Fate
  PROVE  /\ Fates(S, f) \in Seq(Note) /\ Len(Fates(S, f)) = Len(note)
         /\ \A n \in 1..Len(note) :
              /\ Fates(S, f)[n].by = note[n].by /\ Fates(S, f)[n].due = note[n].due
              /\ Fates(S, f)[n].fate = IF n \in S THEN f ELSE note[n].fate
<1>1. Len(note) \in Nat /\ DOMAIN note = 1..Len(note) /\ note \in [1..Len(note) -> Note]
  BY SeqShape DEF Noted
<1>2. ASSUME NEW n \in 1..Len(note)
      PROVE  /\ Fates(S, f)[n] \in Note
             /\ Fates(S, f)[n].by = note[n].by /\ Fates(S, f)[n].due = note[n].due
             /\ Fates(S, f)[n].fate = IF n \in S THEN f ELSE note[n].fate
  <2>1. note[n] \in Note
    BY <1>1
  <2>2. Fates(S, f)[n] = IF n \in S THEN [note[n] EXCEPT !.fate = f] ELSE note[n]
    BY <1>1 DEF Fates
  <2>. QED BY <2>1, <2>2 DEF Note
<1>3. Fates(S, f) = [n \in 1..Len(note) |-> Fates(S, f)[n]]
  BY <1>1 DEF Fates
<1>4. Fates(S, f) \in [1..Len(note) -> Note]
  BY <1>2, <1>3
<1>. QED BY <1>1, <1>2, <1>4, SeqMade

(* What accepting a line does, for the run e and its queue q with the line.   *)
LEMMA InputShape ==
  ASSUME InputAccepted, NEW e, e = activeRun[module], NEW q, q = Append(exec[e].queue, Len(note) + 1)
  PROVE  /\ exec' = [exec EXCEPT ![e].queue = IF Len(q) > MaxQueued THEN Tail(q) ELSE q]
         /\ note' = Append(Fates(IF Len(q) > MaxQueued THEN {Head(q)} ELSE {}, "crowded"),
                           [by |-> e, due |-> {}, fate |-> "queued"])
         /\ UNCHANGED <<quit, module, inFlight, activeRun, pending, working, notesFile, prompted>>
BY ONLY InputAccepted, e = activeRun[module], q = Append(exec[e].queue, Len(note) + 1), Zenon DEF InputAccepted

(* Input is for the run of the evaluation in service.                       *)
LEMMA SeatedRun ==
  ASSUME RunsInv, InputAccepted, NEW e, e = activeRun[module]
  PROVE  e \in Execs /\ Live(e) /\ exec[e] \in Call /\ exec[e].queue \in Seq(Nat)
<1>1. module \in Modules /\ e # NoExec
  <2>1. e # NoExec
    BY ONLY InputAccepted, e = activeRun[module], Zenon DEF InputAccepted
  <2>. QED BY <2>1 DEF RunsInv, SessionType
<1>2. e \in Execs
  BY <1>1 DEF RunsInv, SessionType
<1>3. Live(e)
  BY <1>1 DEF RunsInv, Seated
<1>4. exec[e] \in Call
  BY <1>2 DEF RunsInv, SessionType
<1>. QED BY <1>2, <1>3, <1>4 DEF Call

LEMMA InitRuns == ExtensionInit => RunsInv
<1>. SUFFICES ASSUME ExtensionInit PROVE RunsInv
  OBVIOUS
<1>1. Called \in Call
  BY DEF Called, Call
<1>2. SessionType
  BY <1>1, ExtensionAssumption DEF ExtensionInit, SessionType, Modules, Work
<1>3. Placed /\ Seated /\ Registered
  BY DEF ExtensionInit, Placed, Seated, Registered, Admitted, InRun, Live, Called, Modules, Work
<1>. QED BY <1>2, <1>3 DEF RunsInv

(* A step that changes one call, but neither its place nor the runs.        *)
LEMMA CallMoves ==
  ASSUME RunsInv, NEW e \in Execs, Live(e), exec' \in [Execs -> Call],
         \A x \in Execs \ {e} : exec'[x] = exec[x],
         exec'[e].at \in {"running", "asking"},
         exec'[e].mod = exec[e].mod, exec'[e].spec = exec[e].spec,
         UNCHANGED <<quit, module, inFlight, activeRun, pending, working>>
  PROVE  RunsInv'
<1>1. \A x \in Execs : /\ Live(x)' <=> Live(x)
                       /\ Admitted(x)' <=> Admitted(x)
                       /\ exec'[x].mod = exec[x].mod /\ exec'[x].spec = exec[x].spec
                       /\ exec'[x].at = "ended" <=> exec[x].at = "ended"
  BY DEF Live, Admitted, InRun
<1>2. SessionType' /\ Placed'
  BY <1>1 DEF RunsInv, SessionType, Placed
<1>3. Seated'
  <2>1. \A k \in Modules : activeRun[k] # NoExec =>
          /\ activeRun[k] \in Execs /\ Live(activeRun[k])' /\ exec'[activeRun[k]].mod = k
    BY <1>1 DEF RunsInv, Seated, SessionType
  <2>2. \A x \in Execs : Live(x)' => inFlight[exec'[x].mod] /\ activeRun[exec'[x].mod] = x
    BY <1>1 DEF RunsInv, Seated
  <2>. QED BY <2>1, <2>2 DEF Seated, Live
<1>4. Registered'
  <2>1. \A w \in working : w[1] \in Execs
    BY DEF RunsInv, SessionType, Work
  <2>. QED BY <1>1, <2>1 DEF RunsInv, Registered
<1>. QED BY <1>2, <1>3, <1>4 DEF RunsInv

(* Only the queue of a call changes.                                        *)
LEMMA QueueSet ==
  ASSUME exec \in [Execs -> Call], NEW e \in Execs, NEW queue \in Seq(Nat),
         exec' = [exec EXCEPT ![e].queue = queue]
  PROVE  /\ exec' \in [Execs -> Call] /\ \A x \in Execs \ {e} : exec'[x] = exec[x]
         /\ exec'[e].at = exec[e].at /\ exec'[e].mod = exec[e].mod /\ exec'[e].spec = exec[e].spec
         /\ exec'[e].queue = queue
<1>1. exec[e] \in Call
  OBVIOUS
<1>2. exec'[e] = [exec[e] EXCEPT !.queue = queue]
  OBVIOUS
<1>3. /\ exec'[e] \in Call /\ exec'[e].at = exec[e].at /\ exec'[e].mod = exec[e].mod
      /\ exec'[e].spec = exec[e].spec /\ exec'[e].queue = queue
  BY <1>1, <1>2 DEF Call
<1>. QED BY <1>3

LEMMA ExecuteRuns == ASSUME RunsInv, NEW e \in Execs, Execute(e) PROVE RunsInv'
<1>1. /\ exec[e].at = "none" /\ exec \in [Execs -> Call]
      /\ module \in Modules /\ UNCHANGED <<quit, module, pending, working>>
  BY DEF Execute, RunsInv, SessionType
<1>2. \A w \in working : w[1] \in Execs /\ w[1] # e
  BY <1>1 DEF RunsInv, SessionType, Registered, Work
<1>3. CASE exec' = [exec EXCEPT ![e].at = "refused"] /\ UNCHANGED <<inFlight, activeRun>>
  <2>1. /\ exec' \in [Execs -> Call] /\ exec'[e].at = "refused" /\ exec'[e].mod = exec[e].mod
        /\ \A x \in Execs \ {e} : exec'[x] = exec[x]
    BY <1>1, <1>3 DEF Call
  <2>2. SessionType' /\ Placed'
    BY <1>1, <1>3, <2>1 DEF RunsInv, SessionType, Placed, Admitted, InRun
  <2>3. Seated'
    BY <1>1, <1>3, <2>1 DEF RunsInv, SessionType, Seated, Live
  <2>4. Registered'
    BY <1>1, <1>2, <2>1 DEF RunsInv, Registered
  <2>. QED BY <2>2, <2>3, <2>4 DEF RunsInv
<1>4. ASSUME ~inFlight[module], inFlight' = [inFlight EXCEPT ![module] = TRUE],
             activeRun' = [activeRun EXCEPT ![module] = e],
             NEW spec \in Execs,
             exec' = [exec EXCEPT ![e].at = "running", ![e].mod = module, ![e].spec = spec]
      PROVE  RunsInv'
  <2>1. /\ exec' \in [Execs -> Call] /\ exec'[e].at = "running" /\ exec'[e].mod = module
        /\ exec'[e].spec = spec /\ \A x \in Execs \ {e} : exec'[x] = exec[x]
    <3>1. exec[e] \in Call /\ module \in 0..MaxModules
      BY <1>1
    <3>2. exec'[e] = [exec[e] EXCEPT !.at = "running", !.mod = module, !.spec = spec]
      BY <1>1, <1>4
    <3>3. exec'[e] = [at |-> "running", mod |-> module, spec |-> spec,
                      restarts |-> exec[e].restarts, queue |-> exec[e].queue]
      BY <3>1, <3>2 DEF Call
    <3>4. exec'[e] \in Call
      BY <3>1, <3>3 DEF Call
    <3>5. \A x \in Execs \ {e} : exec'[x] = exec[x]
      BY <1>1, <1>4
    <3>. QED BY <1>1, <1>4, <3>3, <3>4, <3>5
  <2>2. SessionType' /\ Placed'
    BY <1>1, <1>4, <2>1 DEF RunsInv, SessionType, Placed, Admitted, InRun, Modules
  <2>3. Seated'
    <3>1. \A x \in Execs \ {e} : Live(x) => exec[x].mod \in Modules \ {module}
      BY <1>4 DEF RunsInv, Seated, Placed, Live, Admitted, InRun, SessionType, Modules
    <3>2. ASSUME NEW k \in Modules, activeRun'[k] # NoExec
          PROVE  Live(activeRun[k])' /\ exec'[activeRun'[k]].mod = k
      <4>1. CASE k = module
        <5>1. activeRun'[k] = e
          BY <1>1, <1>4, <4>1 DEF RunsInv, SessionType
        <5>. QED BY <2>1, <4>1, <5>1 DEF Live
      <4>2. CASE k # module
        <5>1. activeRun'[k] = activeRun[k] /\ activeRun[k] \in Execs
          BY <1>4, <3>2, <4>2 DEF RunsInv, SessionType
        <5>2. Live(activeRun[k]) /\ exec[activeRun[k]].mod = k
          BY <3>2, <5>1 DEF RunsInv, Seated
        <5>3. activeRun[k] # e
          BY <1>1, <5>2 DEF Live
        <5>4. exec'[activeRun[k]] = exec[activeRun[k]]
          BY <2>1, <5>1, <5>3
        <5>. QED BY <5>1, <5>2, <5>4 DEF Live
      <4>. QED BY <4>1, <4>2
    <3>3. ASSUME NEW x \in Execs, Live(x)'
          PROVE  inFlight'[exec'[x].mod] /\ activeRun'[exec'[x].mod] = x
      <4>1. CASE x = e
        BY <1>1, <1>4, <2>1, <4>1 DEF RunsInv, SessionType
      <4>2. CASE x # e
        <5>1. Live(x) /\ exec'[x] = exec[x]
          BY <2>1, <3>3, <4>2 DEF Live
        <5>2. exec[x].mod \in Modules \ {module} /\ inFlight[exec[x].mod] /\ activeRun[exec[x].mod] = x
          BY <3>1, <4>2, <5>1 DEF RunsInv, Seated
        <5>. QED BY <1>1, <1>4, <5>1, <5>2 DEF RunsInv, SessionType
      <4>. QED BY <4>1, <4>2
    <3>. QED BY <3>2, <3>3 DEF Seated, Live
  <2>4. Registered'
    BY <1>1, <1>2, <2>1 DEF RunsInv, Registered
  <2>. QED BY <2>2, <2>3, <2>4 DEF RunsInv
<1>5. \A spec \in {e} \cup ({exec[x].spec : x \in Execs} \ {NoExec}) : spec \in Execs
  BY <1>1 DEF Call
<1>. QED BY <1>3, <1>4, <1>5 DEF Execute, Refused

(* The run leaves its seat, and its work goes into the registry of its own  *)
(* evaluation.                                                              *)
LEMMA EndRuns ==
  ASSUME RunsInv, NEW e \in Execs, Live(e), NEW kinds \in SUBSET Kinds, EndRun(e, kinds)
  PROVE  RunsInv'
<1>. DEFINE begun == {<<e, k>> : k \in kinds}
<1>1. PICK m : m = exec[e].mod
  OBVIOUS
<1>2. /\ exec \in [Execs -> Call] /\ m \in 1..module /\ module \in Modules /\ m \in Modules
      /\ UNCHANGED <<quit, module>>
  BY <1>1 DEF EndRun, RunsInv, SessionType, Placed, Live, Admitted, InRun, Modules
<1>3. /\ pending' = [pending EXCEPT ![m] = @ \cup begun] /\ working' = working \cup begun
      /\ inFlight' = [inFlight EXCEPT ![m] = FALSE]
      /\ activeRun' = [activeRun EXCEPT ![m] = NoExec]
      /\ exec' = [exec EXCEPT ![e].at = "ended", ![e].queue = <<>>]
  BY <1>1 DEF EndRun, noteInFlightReflection
<1>4. /\ exec' \in [Execs -> Call] /\ exec'[e].at = "ended" /\ exec'[e].mod = m
      /\ exec'[e].spec = exec[e].spec /\ \A x \in Execs \ {e} : exec'[x] = exec[x]
  <2>1. exec[e] \in Call /\ <<>> \in Seq(Nat)
    BY <1>2
  <2>2. exec'[e] = [at |-> "ended", mod |-> exec[e].mod, spec |-> exec[e].spec,
                    restarts |-> exec[e].restarts, queue |-> <<>>]
    BY <1>2, <1>3, <2>1 DEF Call
  <2>3. exec'[e] \in Call
    BY <2>1, <2>2 DEF Call
  <2>. QED BY <1>1, <1>2, <1>3, <2>2, <2>3
<1>5. begun \subseteq Work /\ \A w \in begun : w[1] = e
  BY DEF Work
<1>. HIDE DEF begun
<1>6. SessionType'
  BY <1>2, <1>3, <1>4, <1>5 DEF RunsInv, SessionType
<1>7. Placed'
  BY <1>1, <1>2, <1>4 DEF RunsInv, Placed, Live, Admitted, InRun
<1>8. \A x \in Execs \ {e} : Live(x) => exec[x].mod \in Modules \ {m}
  BY <1>1, <1>2 DEF RunsInv, Seated, Placed, Live, Admitted, InRun, SessionType, Modules
<1>9. Seated'
  <2>1. ASSUME NEW x \in Execs, Live(x)' PROVE inFlight'[exec'[x].mod] /\ activeRun'[exec'[x].mod] = x
    <3>1. x # e /\ Live(x) /\ exec'[x] = exec[x]
      BY <1>4, <2>1 DEF Live
    <3>2. exec[x].mod \in Modules \ {m} /\ inFlight[exec[x].mod] /\ activeRun[exec[x].mod] = x
      BY <1>8, <3>1 DEF RunsInv, Seated
    <3>. QED BY <1>2, <1>3, <3>1, <3>2 DEF RunsInv, SessionType
  <2>2. ASSUME NEW k \in Modules, activeRun'[k] # NoExec
        PROVE  Live(activeRun[k])' /\ exec'[activeRun'[k]].mod = k
    <3>1. k # m /\ activeRun'[k] = activeRun[k] /\ activeRun[k] \in Execs
      BY <1>2, <1>3, <2>2 DEF RunsInv, SessionType
    <3>2. Live(activeRun[k]) /\ exec[activeRun[k]].mod = k
      BY <2>2, <3>1 DEF RunsInv, Seated
    <3>3. activeRun[k] # e
      BY <1>1, <3>1, <3>2
    <3>4. exec'[activeRun[k]] = exec[activeRun[k]]
      BY <1>4, <3>1, <3>3
    <3>. QED BY <3>1, <3>2, <3>4 DEF Live
  <2>. QED BY <2>1, <2>2 DEF Seated, Live
<1>10. Registered'
  <2>1. \A w \in working : w[1] \in Execs /\ exec[w[1]].at = "ended" /\ w[1] # e
    BY DEF RunsInv, SessionType, Registered, Work, Live
  <2>2. \A w \in working' : exec'[w[1]].at = "ended"
    BY <1>3, <1>4, <1>5, <2>1
  <2>3. ASSUME NEW k \in Modules, k >= module
        PROVE  ~quit => pending'[k] = {w \in working' : exec'[w[1]].mod = k}
    <3>1. {w \in working : exec'[w[1]].mod = k} = {w \in working : exec[w[1]].mod = k}
      BY <1>4, <2>1
    <3>2. {w \in begun : exec'[w[1]].mod = k} = IF k = m THEN begun ELSE {}
      BY <1>4, <1>5
    <3>3. ~quit => pending[k] = {w \in working : exec[w[1]].mod = k}
      BY <1>2, <2>3 DEF RunsInv, Registered, EndRun
    <3>4. pending'[k] = IF k = m THEN pending[k] \cup begun ELSE pending[k]
      BY <1>2, <1>3 DEF RunsInv, SessionType
    <3>. QED BY <1>3, <3>1, <3>2, <3>3, <3>4
  <2>. QED BY <1>2, <2>2, <2>3 DEF Registered
<1>. QED BY <1>6, <1>7, <1>9, <1>10 DEF RunsInv

LEMMA SettleRuns == ASSUME RunsInv, Settle PROVE RunsInv'
<1>1. PICK w \in working : working' = working \ {w} /\ pending' = Unlisted(w)
  BY DEF Settle
<1>2. UNCHANGED <<quit, module, inFlight, activeRun, exec>>
  BY DEF Settle
<1>3. SessionType'
  BY <1>1, <1>2 DEF RunsInv, SessionType, Unlisted
<1>4. Placed' /\ Seated'
  BY <1>2 DEF RunsInv, Placed, Seated, Live, Admitted, InRun
<1>5. Registered'
  BY <1>1, <1>2 DEF RunsInv, Registered, Unlisted
<1>. QED BY <1>3, <1>4, <1>5 DEF RunsInv

LEMMA ShutdownRuns == ASSUME RunsInv, SessionShutdown PROVE RunsInv'
<1>1. /\ UNCHANGED <<inFlight, activeRun, exec, working>> /\ module \in Modules
      /\ pending' = [pending EXCEPT ![module] = {}]
  BY DEF SessionShutdown, RunsInv, SessionType
<1>2. \/ module < MaxModules /\ module' = module + 1
      \/ quit' = TRUE /\ UNCHANGED module
  BY DEF SessionShutdown
<1>3. module' \in Modules /\ module' >= module
  BY <1>1, <1>2 DEF Modules
<1>4. SessionType'
  BY <1>1, <1>3 DEF RunsInv, SessionType
<1>5. Placed' /\ Seated'
  BY <1>1, <1>3 DEF RunsInv, Placed, Seated, Live, Admitted, InRun, Modules
<1>6. Registered'
  BY <1>1, <1>2 DEF RunsInv, Registered, SessionType, SessionShutdown, Modules
<1>. QED BY <1>4, <1>5, <1>6 DEF RunsInv

LEMMA StepRuns == RunsInv /\ Noted /\ [ExtensionNext]_extensionVars => RunsInv'
<1>. SUFFICES ASSUME RunsInv, Noted, [ExtensionNext]_extensionVars PROVE RunsInv'
  OBVIOUS
<1>1. ASSUME NEW e \in Execs, NEW kinds \in Begun \cup {{}}, Live(e), EndRun(e, kinds) PROVE RunsInv'
  BY <1>1, EndRuns DEF Begun, Kinds
<1>2. ASSUME NEW e \in Execs, Execute(e) PROVE RunsInv'
  BY <1>2, ExecuteRuns
<1>3. ASSUME NEW e \in Execs, PipelineReturns(e) PROVE RunsInv'
  <2>1. CASE exec' = [exec EXCEPT ![e].restarts = @ + 1] /\ UNCHANGED <<quit, module, inFlight, activeRun, pending, working>>
    <3>1. /\ exec' \in [Execs -> Call] /\ \A x \in Execs \ {e} : exec'[x] = exec[x]
          /\ exec'[e].at = exec[e].at /\ exec'[e].mod = exec[e].mod /\ exec'[e].spec = exec[e].spec
      <4>1. exec \in [Execs -> Call] /\ exec[e] \in Call
        BY DEF RunsInv, SessionType
      <4>2. exec'[e] = [exec[e] EXCEPT !.restarts = @ + 1] /\ exec[e].restarts + 1 \in Nat
        BY <2>1, <4>1 DEF Call
      <4>3. exec'[e] \in Call /\ exec'[e].at = exec[e].at /\ exec'[e].mod = exec[e].mod
            /\ exec'[e].spec = exec[e].spec
        BY <4>1, <4>2 DEF Call
      <4>. QED BY <2>1, <4>1, <4>3
    <3>. QED BY <1>3, <2>1, <3>1, CallMoves DEF PipelineReturns, Live
  <2>2. CASE exec' = [exec EXCEPT ![e].at = "asking"] /\ UNCHANGED <<quit, module, inFlight, activeRun, pending, working>>
    <3>1. /\ exec' \in [Execs -> Call] /\ \A x \in Execs \ {e} : exec'[x] = exec[x]
          /\ exec'[e].at = "asking" /\ exec'[e].mod = exec[e].mod /\ exec'[e].spec = exec[e].spec
      BY <2>2 DEF RunsInv, SessionType, Call
    <3>. QED BY <1>3, <2>2, <3>1, CallMoves DEF PipelineReturns, Live
  <2>. QED BY <1>1, <1>3, <2>1, <2>2 DEF PipelineReturns, Live
<1>4. ASSUME NEW e \in Execs, StagnationAnswered(e) \/ PipelineThrows(e) PROVE RunsInv'
  BY <1>1, <1>4 DEF StagnationAnswered, PipelineThrows, Live
<1>5. ASSUME NEW e \in Execs, StartAgent(e) PROVE RunsInv'
  <2>1. exec' = [exec EXCEPT ![e].queue = <<>>] /\ exec[e].at = "running"
        /\ UNCHANGED <<quit, module, inFlight, activeRun, pending, working>>
    BY <1>5 DEF StartAgent
  <2>2. /\ exec' \in [Execs -> Call] /\ \A x \in Execs \ {e} : exec'[x] = exec[x]
        /\ exec'[e].at = exec[e].at /\ exec'[e].mod = exec[e].mod /\ exec'[e].spec = exec[e].spec
    <3>1. <<>> \in Seq(Nat) /\ exec \in [Execs -> Call]
      BY DEF RunsInv, SessionType
    <3>. QED BY <2>1, <3>1, QueueSet
  <2>. QED BY <2>1, <2>2, CallMoves DEF Live
<1>6. CASE InputAccepted
  <2>1. PICK e : e = activeRun[module]
    OBVIOUS
  <2>2. PICK q : q = Append(exec[e].queue, Len(note) + 1)
    OBVIOUS
  <2>3. PICK r : r = IF Len(q) > MaxQueued THEN Tail(q) ELSE q
    OBVIOUS
  <2>4. e \in Execs /\ Live(e) /\ UNCHANGED <<quit, module, inFlight, activeRun, pending, working>>
    BY <1>6, <2>1, <2>2, SeatedRun, InputShape
  <2>5. exec' = [exec EXCEPT ![e].queue = r]
    <3>1. exec' = [exec EXCEPT ![e].queue = IF Len(q) > MaxQueued THEN Tail(q) ELSE q]
      BY <1>6, <2>1, <2>2, InputShape
    <3>. QED BY ONLY <2>3, <3>1
  <2>6. r \in Seq(Nat)
    <3>1. exec[e].queue \in Seq(Nat)
      BY <1>6, <2>1, SeatedRun
    <3>2. Len(note) + 1 \in Nat
      <4>1. Len(note) \in Nat
        BY SeqShape DEF Noted
      <4>. QED BY <4>1
    <3>3. q \in Seq(Nat) /\ q # <<>>
      BY <2>2, <3>1, <3>2
    <3>4. Tail(q) \in Seq(Nat)
      BY <3>3
    <3>. QED BY <2>3, <3>3, <3>4
  <2>7. /\ exec' \in [Execs -> Call] /\ \A x \in Execs \ {e} : exec'[x] = exec[x]
        /\ exec'[e].at = exec[e].at /\ exec'[e].mod = exec[e].mod /\ exec'[e].spec = exec[e].spec
    BY <2>4, <2>5, <2>6, QueueSet DEF RunsInv, SessionType
  <2>. QED BY <2>4, <2>7, CallMoves DEF Live
<1>7. CASE Settle
  BY <1>7, SettleRuns
<1>8. CASE SessionShutdown
  BY <1>8, ShutdownRuns
<1>9. CASE UNCHANGED extensionVars
  BY <1>9 DEF extensionVars, RunsInv, SessionType, Placed, Seated, Registered, Live, Admitted, InRun
<1>. QED BY <1>2, <1>3, <1>4, <1>5, <1>6, <1>7, <1>8, <1>9 DEF ExtensionNext

\* A line of the run e, whose queue is q with it, is noted; one that the
\* bound pushes out is marked.
LineNoted(e, q) ==
  /\ e \in Execs /\ Live(e) /\ q \in Seq(Nat)
  /\ note' \in Seq(Note) /\ Len(note') = Len(note) + 1
  /\ note'[Len(note) + 1] = [by |-> e, due |-> {}, fate |-> "queued"]
  /\ \A n \in 1..Len(note) :
       /\ note'[n].by = note[n].by /\ note'[n].due = note[n].due
       /\ note'[n].fate =
            IF Len(q) > MaxQueued /\ n = Head(q) THEN "crowded" ELSE note[n].fate

(* What the steps do to the notes.                                          *)
LEMMA InputNotes ==
  ASSUME RunsInv, Noted, InputAccepted, NEW e, e = activeRun[module],
         NEW q, q = Append(exec[e].queue, Len(note) + 1)
  PROVE  LineNoted(e, q)
<1>1. PICK S : S = IF Len(q) > MaxQueued THEN {Head(q)} ELSE {}
  OBVIOUS
<1>2. PICK new : new = [by |-> e, due |-> {}, fate |-> "queued"]
  OBVIOUS
<1>3. e \in Execs /\ Live(e)
  BY SeatedRun, Zenon
<1>4. note' = Append(Fates(S, "crowded"), new)
  <2>1. note' = Append(Fates(IF Len(q) > MaxQueued THEN {Head(q)} ELSE {}, "crowded"),
                       [by |-> e, due |-> {}, fate |-> "queued"])
    BY InputShape, Zenon
  <2>. QED BY ONLY <1>1, <1>2, <2>1
<1>5. new \in Note
  BY <1>2, <1>3 DEF Note, Fate
<1>6. Len(note) \in Nat
  BY SeqShape DEF Noted
<1>7. exec[e].queue \in Seq(Nat)
  BY SeatedRun
<1>8. q \in Seq(Nat)
  BY <1>6, <1>7
<1>9. PICK F : F = Fates(S, "crowded")
  OBVIOUS
<1>10. /\ F \in Seq(Note) /\ Len(F) = Len(note)
       /\ \A n \in 1..Len(note) :
            /\ F[n].by = note[n].by /\ F[n].due = note[n].due
            /\ F[n].fate = IF n \in S THEN "crowded" ELSE note[n].fate
  BY <1>9, FatesShape DEF Fate
<1>11. /\ note' \in Seq(Note) /\ Len(note') = Len(note) + 1
       /\ note'[Len(note) + 1] = new /\ \A n \in 1..Len(note) : note'[n] = F[n]
  BY <1>4, <1>5, <1>9, <1>10, AppendShape
<1>12. ASSUME NEW n \in 1..Len(note)
       PROVE  /\ note'[n].by = note[n].by /\ note'[n].due = note[n].due
              /\ note'[n].fate =
                   IF Len(q) > MaxQueued /\ n = Head(q) THEN "crowded" ELSE note[n].fate
  <2>1. note'[n] = F[n] /\ (n \in S <=> Len(q) > MaxQueued /\ n = Head(q))
    BY <1>1, <1>11
  <2>2. /\ F[n].by = note[n].by /\ F[n].due = note[n].due
        /\ F[n].fate = IF n \in S THEN "crowded" ELSE note[n].fate
    BY <1>10, <1>12
  <2>. QED BY ONLY <2>1, <2>2
<1>. QED BY <1>2, <1>3, <1>8, <1>11, <1>12 DEF LineNoted

Lost == {"crowded", "unsaved", "forgotten"}

\* A queue holds, once each, the notes of its run that still wait.
InQueue ==
  \A e \in Execs :
    /\ \A i \in 1..Len(exec[e].queue) :
         /\ exec[e].queue[i] \in 1..Len(note)
         /\ note[exec[e].queue[i]].by = e /\ note[exec[e].queue[i]].fate = "queued"
    /\ \A i, j \in 1..Len(exec[e].queue) : exec[e].queue[i] = exec[e].queue[j] => i = j

\* The file of a spec holds the notes stored by its runs.
Stored ==
  /\ notesFile \in [Execs -> SUBSET Nat] /\ prompted \in [Execs -> SUBSET Nat]
  /\ \A s \in Execs : \A n \in notesFile[s] :
       n \in 1..Len(note) /\ note[n].fate = "stored" /\ exec[note[n].by].spec = s
  /\ \A n \in 1..Len(note) : note[n].fate = "stored" => n \in notesFile[exec[note[n].by].spec]

\* Whoever is due a note works on its spec; a note that waits, or came too
\* late, was due to nobody.
Due ==
  \A n \in 1..Len(note) :
    /\ Admitted(note[n].by)
    /\ \A e \in note[n].due : Admitted(e) /\ exec[e].spec = exec[note[n].by].spec
    /\ note[n].fate = "queued" => note[n].due = {} /\ n \in ToSet(exec[note[n].by].queue)
    /\ note[n].fate = "late" => note[n].due = {} /\ exec[note[n].by].at = "ended"
    /\ note[n].fate \notin Lost => \A e \in note[n].due : n \in prompted[e]

NotesInv == Noted /\ InQueue /\ Stored /\ Due

LEMMA InitNotes == ExtensionInit => NotesInv
<1>. SUFFICES ASSUME ExtensionInit PROVE NotesInv
  OBVIOUS
<1>1. note = <<>> /\ \A e \in Execs : exec[e].queue = <<>>
  BY DEF ExtensionInit, Called
<1>2. Noted /\ InQueue /\ Due
  BY <1>1 DEF Noted, InQueue, Due
<1>3. Stored
  BY <1>1 DEF ExtensionInit, Stored
<1>. QED BY <1>2, <1>3 DEF NotesInv

(* A call whose queue stays as it is, and which keeps its spec once it has  *)
(* one, disturbs nothing.                                                   *)
LEMMA PlaceNotes ==
  ASSUME RunsInv, NotesInv, UNCHANGED <<note, notesFile, prompted>>,
         \A e \in Execs : /\ exec'[e].queue = exec[e].queue
                          /\ Admitted(e) => Admitted(e)' /\ exec'[e].spec = exec[e].spec
                          /\ exec[e].at = "ended" => exec'[e].at = "ended"
  PROVE  NotesInv'
<1>1. \A n \in 1..Len(note) : note[n] \in Note
  BY SeqShape DEF NotesInv, Noted
<1>2. Noted' /\ InQueue'
  BY DEF NotesInv, Noted, InQueue
<1>3. Stored'
  <2>1. ASSUME NEW n \in 1..Len(note) PROVE exec'[note[n].by].spec = exec[note[n].by].spec
    BY <1>1, <2>1 DEF NotesInv, Due, Note
  <2>. QED BY <2>1 DEF NotesInv, Stored
<1>4. Due'
  <2>1. ASSUME NEW n \in 1..Len(note)
        PROVE  /\ note[n].by \in Execs /\ note[n].due \subseteq Execs
               /\ exec'[note[n].by].at \in InRun /\ exec'[note[n].by].spec = exec[note[n].by].spec
               /\ exec'[note[n].by].queue = exec[note[n].by].queue
               /\ exec[note[n].by].at = "ended" => exec'[note[n].by].at = "ended"
               /\ \A e \in note[n].due : exec'[e].at \in InRun /\ exec'[e].spec = exec[note[n].by].spec
    BY <1>1, <2>1 DEF NotesInv, Due, Note, Admitted
  <2>. QED BY <2>1 DEF NotesInv, Due, Admitted
<1>. QED BY <1>2, <1>3, <1>4 DEF NotesInv

(* The notes still queued at the end of a run are the ones of that run.     *)
LEMMA EndNotes ==
  ASSUME RunsInv, NotesInv, NEW e \in Execs, Live(e), NEW kinds, EndRun(e, kinds)
  PROVE  NotesInv'
<1>1. PICK Q : Q = ToSet(exec[e].queue)
  OBVIOUS
<1>2. /\ exec[e] \in Call /\ exec \in [Execs -> Call] /\ exec[e].queue \in Seq(Nat)
      /\ Q = {exec[e].queue[i] : i \in 1..Len(exec[e].queue)}
  BY <1>1, ToSetShape DEF RunsInv, SessionType, Call
<1>3. /\ exec' = [exec EXCEPT ![e].at = "ended", ![e].queue = <<>>]
      /\ note' = Fates(Q, "late") /\ UNCHANGED <<notesFile, prompted>>
  BY <1>1 DEF EndRun
<1>4. /\ exec'[e].at = "ended" /\ exec'[e].queue = <<>> /\ exec'[e].spec = exec[e].spec
      /\ \A x \in Execs \ {e} : exec'[x] = exec[x]
  BY <1>2, <1>3 DEF Call
<1>5. /\ note' \in Seq(Note) /\ Len(note') = Len(note)
      /\ \A n \in 1..Len(note) :
           /\ note'[n].by = note[n].by /\ note'[n].due = note[n].due
           /\ note'[n].fate = IF n \in Q THEN "late" ELSE note[n].fate
  BY <1>3, FatesShape DEF NotesInv, Fate
<1>6. \A n \in Q : n \in 1..Len(note) /\ note[n].by = e /\ note[n].fate = "queued"
  BY <1>2 DEF NotesInv, InQueue
<1>7. \A n \in 1..Len(note) : note[n] \in Note
  BY SeqShape DEF NotesInv, Noted
<1>8. \A x \in Execs : Admitted(x)' <=> Admitted(x)
  BY <1>4 DEF Admitted, InRun, Live
<1>9. \A x \in Execs : exec'[x].spec = exec[x].spec
  BY <1>4
<1>10. InQueue'
  <2>1. ASSUME NEW x \in Execs \ {e}, NEW i \in 1..Len(exec[x].queue)
        PROVE  exec[x].queue[i] \in 1..Len(note) /\ exec[x].queue[i] \notin Q
               /\ note[exec[x].queue[i]].by = x /\ note[exec[x].queue[i]].fate = "queued"
    BY <1>6, <2>1 DEF NotesInv, InQueue
  <2>2. ASSUME NEW x \in Execs \ {e}
        PROVE  /\ \A i \in 1..Len(exec'[x].queue) :
                    /\ exec'[x].queue[i] \in 1..Len(note')
                    /\ note'[exec'[x].queue[i]].by = x /\ note'[exec'[x].queue[i]].fate = "queued"
               /\ \A i, j \in 1..Len(exec'[x].queue) : exec'[x].queue[i] = exec'[x].queue[j] => i = j
    <3>1. exec'[x].queue = exec[x].queue
      BY <1>4
    <3>2. ASSUME NEW i \in 1..Len(exec[x].queue)
          PROVE  /\ exec[x].queue[i] \in 1..Len(note')
                 /\ note'[exec[x].queue[i]].by = x /\ note'[exec[x].queue[i]].fate = "queued"
      BY <1>5, <2>1, <3>2
    <3>3. \A i, j \in 1..Len(exec[x].queue) : exec[x].queue[i] = exec[x].queue[j] => i = j
      BY DEF NotesInv, InQueue
    <3>. QED BY <3>1, <3>2, <3>3
  <2>3. 1..Len(exec'[e].queue) = {}
    BY <1>4
  <2>. QED BY <2>2, <2>3 DEF InQueue
<1>11. Stored'
  <2>1. \A s \in Execs : \A n \in notesFile[s] : n \notin Q
    BY <1>6 DEF NotesInv, Stored
  <2>2. \A n \in 1..Len(note) : note'[n].fate = "stored" <=> note[n].fate = "stored"
    BY <1>5, <1>6
  <2>3. \A n \in 1..Len(note) : exec'[note'[n].by].spec = exec[note[n].by].spec
    BY <1>5, <1>7, <1>9 DEF Note
  <2>4. ASSUME NEW s \in Execs, NEW n \in notesFile[s]
        PROVE  n \in 1..Len(note) /\ note'[n].fate = "stored" /\ exec'[note'[n].by].spec = s
    <3>1. n \in 1..Len(note) /\ note[n].fate = "stored" /\ exec[note[n].by].spec = s
      BY <2>4 DEF NotesInv, Stored
    <3>. QED BY ONLY <2>2, <2>3, <3>1
  <2>5. ASSUME NEW n \in 1..Len(note), note'[n].fate = "stored"
        PROVE  n \in notesFile[exec'[note'[n].by].spec]
    <3>1. note[n].fate = "stored" => n \in notesFile[exec[note[n].by].spec]
      BY <2>5 DEF NotesInv, Stored
    <3>. QED BY ONLY <2>2, <2>3, <2>5, <3>1
  <2>6. /\ notesFile' = notesFile /\ prompted' = prompted /\ Len(note') = Len(note)
        /\ notesFile \in [Execs -> SUBSET Nat] /\ prompted \in [Execs -> SUBSET Nat]
    BY <1>3, <1>5 DEF NotesInv, Stored
  <2>. QED BY ONLY <2>4, <2>5, <2>6 DEF Stored
<1>12. Due'
  <2>1. ASSUME NEW n \in 1..Len(note)
        PROVE  /\ note[n].by \in Execs /\ note[n].due \subseteq Execs
               /\ exec'[note'[n].by].at \in InRun /\ exec'[note'[n].by].spec = exec[note[n].by].spec
               /\ \A x \in note'[n].due : exec'[x].at \in InRun /\ exec'[x].spec = exec[note[n].by].spec
    <3>1. note[n].by \in Execs /\ note[n].due \subseteq Execs
      BY <1>7, <2>1 DEF Note
    <3>2. note'[n].by = note[n].by /\ note'[n].due = note[n].due
      BY <1>5, <2>1
    <3>3. /\ Admitted(note[n].by)
          /\ \A x \in note[n].due : Admitted(x) /\ exec[x].spec = exec[note[n].by].spec
      BY <2>1 DEF NotesInv, Due
    <3>. QED BY <1>8, <1>9, <3>1, <3>2, <3>3 DEF Admitted
  <2>2. ASSUME NEW n \in 1..Len(note), n \in Q
        PROVE  note'[n].fate = "late" /\ note'[n].due = {} /\ exec'[note'[n].by].at = "ended"
    BY <1>4, <1>5, <1>6, <2>2 DEF NotesInv, Due
  <2>3. ASSUME NEW n \in 1..Len(note), n \notin Q
        PROVE  /\ note'[n].fate = "queued" =>
                    note'[n].due = {} /\ n \in ToSet(exec'[note'[n].by].queue)
               /\ note'[n].fate = "late" => note'[n].due = {} /\ exec'[note'[n].by].at = "ended"
               /\ note'[n].fate \notin Lost => \A x \in note'[n].due : n \in prompted[x]
    <3>1. note[n].by = e => note[n].fate # "queued"
      BY <1>1, <2>3 DEF NotesInv, Due
    <3>2. note[n].by = e => exec'[note[n].by].at = "ended"
      BY <1>4
    <3>3. note[n].by # e => exec'[note[n].by] = exec[note[n].by]
      BY <1>4, <2>1
    <3>4. /\ note'[n].by = note[n].by /\ note'[n].due = note[n].due
          /\ note'[n].fate = note[n].fate
      BY <1>5, <2>3
    <3>5. /\ note[n].fate = "queued" => note[n].due = {} /\ n \in ToSet(exec[note[n].by].queue)
          /\ note[n].fate = "late" => note[n].due = {} /\ exec[note[n].by].at = "ended"
          /\ note[n].fate \notin Lost => \A x \in note[n].due : n \in prompted[x]
      BY <2>3 DEF NotesInv, Due
    <3>. QED BY <3>1, <3>2, <3>3, <3>4, <3>5
  <2>4. ASSUME NEW n \in 1..Len(note)
        PROVE  /\ Admitted(note[n].by)'
               /\ \A x \in note'[n].due : Admitted(x)' /\ exec'[x].spec = exec'[note'[n].by].spec
               /\ note'[n].fate = "queued" =>
                    note'[n].due = {} /\ n \in ToSet(exec'[note'[n].by].queue)
               /\ note'[n].fate = "late" => note'[n].due = {} /\ exec'[note'[n].by].at = "ended"
               /\ note'[n].fate \notin Lost => \A x \in note'[n].due : n \in prompted[x]
    <3>1. note'[n].fate = "queued" => note'[n].due = {} /\ n \in ToSet(exec'[note'[n].by].queue)
      BY <2>2, <2>3, <2>4
    <3>2. note'[n].fate = "late" => note'[n].due = {} /\ exec'[note'[n].by].at = "ended"
      BY <2>2, <2>3, <2>4
    <3>3. note'[n].fate \notin Lost => \A x \in note'[n].due : n \in prompted[x]
      <4>1. n \in Q => note'[n].due = {}
        BY <2>2, <2>4
      <4>. QED BY ONLY <2>3, <2>4, <4>1
    <3>4. /\ Admitted(note[n].by)'
          /\ \A x \in note'[n].due : Admitted(x)' /\ exec'[x].spec = exec'[note'[n].by].spec
      <4>1. /\ exec'[note'[n].by].at \in InRun /\ exec'[note'[n].by].spec = exec[note[n].by].spec
            /\ \A x \in note'[n].due : exec'[x].at \in InRun /\ exec'[x].spec = exec[note[n].by].spec
        BY <2>1, <2>4
      <4>. QED BY ONLY <4>1 DEF Admitted
    <3>. QED BY <3>1, <3>2, <3>3, <3>4
  <2>5. prompted' = prompted /\ Len(note') = Len(note)
    BY <1>3, <1>5
  <2>6. ASSUME NEW n \in 1..Len(note')
        PROVE  /\ Admitted(note[n].by)'
               /\ \A x \in note'[n].due : Admitted(x)' /\ exec'[x].spec = exec'[note'[n].by].spec
               /\ note'[n].fate = "queued" =>
                    note'[n].due = {} /\ n \in ToSet(exec'[note'[n].by].queue)
               /\ note'[n].fate = "late" => note'[n].due = {} /\ exec'[note'[n].by].at = "ended"
               /\ note'[n].fate \notin Lost => \A x \in note'[n].due : n \in prompted'[x]
    <3>1. n \in 1..Len(note)
      BY <2>5, <2>6
    <3>. QED BY <2>4, <2>5, <3>1
  <2>. QED BY ONLY <2>6, Zenon DEF Due
<1>. QED BY <1>5, <1>10, <1>11, <1>12 DEF NotesInv, Noted

(* A line typed by the user waits in the queue of the active run; where the  *)
(* queue is full the oldest goes.                                           *)
LEMMA QueuedNotes ==
  ASSUME RunsInv, NotesInv, InputAccepted
  PROVE  NotesInv'
<1>1. PICK e : e = activeRun[module]
  OBVIOUS
<1>2. PICK q : q = Append(exec[e].queue, Len(note) + 1)
  OBVIOUS
<1>3. PICK full \in BOOLEAN : full <=> Len(q) > MaxQueued
  OBVIOUS
<1>4. PICK r : r = IF full THEN Tail(q) ELSE q
  OBVIOUS
<1>5. PICK old : old = exec[e].queue
  OBVIOUS
<1>6. PICK k : k = Len(note)
  OBVIOUS
<1>7. /\ e \in Execs /\ Live(e) /\ q \in Seq(Nat)
      /\ note' \in Seq(Note) /\ Len(note') = k + 1
      /\ note'[k + 1] = [by |-> e, due |-> {}, fate |-> "queued"]
      /\ \A n \in 1..k :
           /\ note'[n].by = note[n].by /\ note'[n].due = note[n].due
           /\ note'[n].fate = IF full /\ n = Head(q) THEN "crowded" ELSE note[n].fate
  <2>1. Noted
    BY DEF NotesInv
  <2>2. /\ e \in Execs /\ Live(e) /\ q \in Seq(Nat)
        /\ note' \in Seq(Note) /\ Len(note') = Len(note) + 1
        /\ note'[Len(note) + 1] = [by |-> e, due |-> {}, fate |-> "queued"]
        /\ \A n \in 1..Len(note) :
             /\ note'[n].by = note[n].by /\ note'[n].due = note[n].due
             /\ note'[n].fate = IF Len(q) > MaxQueued /\ n = Head(q) THEN "crowded" ELSE note[n].fate
    <3>1. LineNoted(e, q)
      BY <1>1, <1>2, <2>1, InputNotes
    <3>. QED BY ONLY <3>1 DEF LineNoted
  <2>. QED BY ONLY <1>3, <1>6, <2>2
<1>8. /\ UNCHANGED <<notesFile, prompted>> /\ exec' = [exec EXCEPT ![e].queue = r]
  <2>1. /\ exec' = [exec EXCEPT ![e].queue = IF Len(q) > MaxQueued THEN Tail(q) ELSE q]
        /\ UNCHANGED <<notesFile, prompted>>
    BY <1>1, <1>2, InputShape, Zenon
  <2>. QED BY ONLY <1>3, <1>4, <2>1
<1>9. k \in Nat /\ old \in Seq(Nat) /\ exec \in [Execs -> Call] /\ \A n \in 1..k : note[n] \in Note
  BY <1>5, <1>6, <1>7, SeqShape DEF RunsInv, SessionType, Call, NotesInv, Noted
<1>10. /\ Len(q) = Len(old) + 1 /\ q[Len(old) + 1] = k + 1 /\ \A i \in 1..Len(old) : q[i] = old[i]
       /\ Len(old) \in Nat
  BY <1>2, <1>5, <1>6, <1>9, AppendShape
<1>11. /\ \A i \in 1..Len(old) : old[i] \in 1..k /\ note[old[i]].by = e /\ note[old[i]].fate = "queued"
       /\ \A i, j \in 1..Len(old) : old[i] = old[j] => i = j
  <2>1. e \in Execs /\ InQueue
    BY <1>7 DEF NotesInv
  <2>. QED BY ONLY <1>5, <1>6, <2>1 DEF InQueue
<1>12. full => Head(q) = old[1] /\ Len(old) > 0 /\ Head(q) \in 1..k
  <2>1. Len(q) > 0 /\ q # <<>>
    BY <1>10
  <2>2. Head(q) = q[1]
    BY <1>7, <2>1, TailShape
  <2>3. full => Len(old) > 0
    BY ONLY <1>3, <1>10, ExtensionAssumption
  <2>. QED BY <1>10, <1>11, <2>2, <2>3
<1>13. /\ r \in Seq(Nat)
       /\ full => Len(r) = Len(old) /\ \A i \in 1..Len(r) : r[i] = q[i + 1]
  <2>1. q # <<>>
    BY <1>10
  <2>. QED BY <1>4, <1>7, <1>10, <2>1, TailShape
<1>14. /\ \A x \in Execs \ {e} : exec'[x] = exec[x]
       /\ exec'[e].at = exec[e].at /\ exec'[e].spec = exec[e].spec /\ exec'[e].queue = r
  BY <1>7, <1>8, <1>9, <1>13, QueueSet
\* What waits afterwards.
<1>15. /\ \A i \in 1..Len(r) : r[i] = k + 1 \/ (r[i] \in 1..k /\ note[r[i]].by = e /\ note[r[i]].fate = "queued")
       /\ \A i \in 1..Len(r) : full => r[i] # Head(q)
       /\ \A i, j \in 1..Len(r) : r[i] = r[j] => i = j
  <2>1. \A i \in 1..Len(q) : /\ i = Len(q) => q[i] = k + 1
                             /\ i # Len(q) => i \in 1..Len(old) /\ q[i] = old[i]
    BY <1>10
  <2>2. \A i \in 1..Len(q) : \/ q[i] = k + 1
                             \/ q[i] \in 1..k /\ note[q[i]].by = e /\ note[q[i]].fate = "queued"
    <3>. TAKE i \in 1..Len(q)
    <3>1. CASE i = Len(q)
      <4>1. Len(q) = Len(old) + 1 /\ q[Len(old) + 1] = k + 1
        BY <1>10
      <4>2. q[i] = k + 1
        BY <3>1, <4>1
      <4>. QED BY <4>2
    <3>2. CASE i # Len(q)
      <4>1. i \in 1..Len(old) /\ q[i] = old[i]
        BY <2>1, <3>2
      <4>. QED BY <1>11, <4>1
    <3>. QED BY <3>1, <3>2
  <2>3. ASSUME NEW i \in 1..Len(q), NEW j \in 1..Len(q), q[i] = q[j] PROVE i = j
    <3>1. i # Len(q) /\ j # Len(q) => i = j
      <4>. SUFFICES ASSUME i # Len(q), j # Len(q) PROVE i = j
        OBVIOUS
      <4>1. i \in 1..Len(old) /\ j \in 1..Len(old) /\ old[i] = old[j]
        BY <2>1, <2>3
      <4>. QED BY <1>11, <4>1
    <3>2. \A x \in 1..Len(q) : x # Len(q) => q[x] # k + 1
      <4>1. \A x \in 1..Len(old) : old[x] # k + 1
        BY <1>9, <1>11
      <4>. QED BY <2>1, <4>1
    <3>3. (i = Len(q)) <=> (j = Len(q))
      <4>1. q[i] = k + 1 <=> i = Len(q)
        BY <1>10, <3>2
      <4>2. q[j] = k + 1 <=> j = Len(q)
        BY <1>10, <3>2
      <4>. QED BY <2>3, <4>1, <4>2
    <3>. QED BY <3>1, <3>3
  <2>4. CASE full
    <3>1. \A i \in 1..Len(r) : i + 1 \in 1..Len(q) /\ r[i] = q[i + 1]
      BY <1>10, <1>13, <2>4
    <3>2. Head(q) = q[1] /\ 1 \in 1..Len(q)
      BY <1>10, <1>12, <2>4
    <3>3. \A i \in 1..Len(r) : r[i] # Head(q)
      BY <1>10, <2>3, <3>1, <3>2
    <3>4. ASSUME NEW i \in 1..Len(r), NEW j \in 1..Len(r), r[i] = r[j] PROVE i = j
      <4>1. i + 1 \in 1..Len(q) /\ j + 1 \in 1..Len(q) /\ q[i + 1] = q[j + 1]
        BY <3>1, <3>4
      <4>2. i + 1 = j + 1
        BY <2>3, <4>1
      <4>. QED BY <4>2
    <3>. QED BY <2>2, <3>1, <3>3, <3>4
  <2>5. CASE ~full
    BY <1>4, <2>2, <2>3, <2>5
  <2>. QED BY <2>4, <2>5
<1>16. /\ k + 1 \in ToSet(r)
       /\ \A n \in ToSet(old) : ~(full /\ n = Head(q)) => n \in ToSet(r)
  <2>1. /\ ToSet(r) = {r[i] : i \in 1..Len(r)} /\ ToSet(old) = {old[i] : i \in 1..Len(old)}
    BY <1>9, <1>13, ToSetShape
  <2>2. CASE full
    <3>1. r[Len(old)] = k + 1 /\ Len(old) \in 1..Len(r)
      BY <1>10, <1>12, <1>13, <2>2
    <3>2. ASSUME NEW i \in 1..Len(old), old[i] # Head(q) PROVE old[i] \in ToSet(r)
      <4>1. i # 1
        BY <1>12, <2>2, <3>2
      <4>2. i - 1 \in 1..Len(r)
        BY <1>10, <1>13, <2>2, <4>1
      <4>3. r[i - 1] = old[i]
        BY <1>10, <1>13, <2>2, <4>2
      <4>. QED BY <2>1, <4>2, <4>3
    <3>. QED BY <2>1, <2>2, <3>1, <3>2
  <2>3. CASE ~full
    BY <1>4, <1>10, <2>1, <2>3
  <2>. QED BY <2>2, <2>3
<1>17. InQueue'
  <2>1. ASSUME NEW x \in Execs \ {e}, NEW i \in 1..Len(exec[x].queue)
        PROVE  /\ exec[x].queue[i] \in 1..k
               /\ note'[exec[x].queue[i]].by = x /\ note'[exec[x].queue[i]].fate = "queued"
    <3>1. exec[x].queue[i] \in 1..k /\ note[exec[x].queue[i]].by = x /\ note[exec[x].queue[i]].fate = "queued"
      BY <1>6, <2>1 DEF NotesInv, InQueue
    <3>2. full => exec[x].queue[i] # Head(q)
      BY <1>10, <1>11, <1>12, <2>1, <3>1
    <3>. QED BY <1>7, <3>1, <3>2
  <2>2. ASSUME NEW i \in 1..Len(r)
        PROVE  /\ r[i] \in 1..(k + 1) /\ note'[r[i]].by = e /\ note'[r[i]].fate = "queued"
    <3>1. CASE r[i] = k + 1
      BY <1>7, <1>9, <3>1
    <3>2. CASE r[i] # k + 1
      <4>1. r[i] \in 1..k /\ note[r[i]].by = e /\ note[r[i]].fate = "queued"
        BY <1>15, <2>2, <3>2
      <4>2. ~(full /\ r[i] = Head(q))
        BY <1>15, <2>2
      <4>. QED BY <1>7, <1>9, <4>1, <4>2
    <3>. QED BY <3>1, <3>2
  <2>3. ASSUME NEW x \in Execs
        PROVE  /\ \A i \in 1..Len(exec'[x].queue) :
                    /\ exec'[x].queue[i] \in 1..Len(note')
                    /\ note'[exec'[x].queue[i]].by = x /\ note'[exec'[x].queue[i]].fate = "queued"
               /\ \A i, j \in 1..Len(exec'[x].queue) : exec'[x].queue[i] = exec'[x].queue[j] => i = j
    <3>1. CASE x = e
      BY <1>7, <1>14, <1>15, <2>2, <3>1
    <3>2. CASE x # e
      <4>1. exec'[x].queue = exec[x].queue /\ x \in Execs \ {e}
        BY <1>14, <3>2
      <4>2. \A i, j \in 1..Len(exec[x].queue) : exec[x].queue[i] = exec[x].queue[j] => i = j
        BY DEF NotesInv, InQueue
      <4>3. \A i \in 1..Len(exec[x].queue) :
              /\ exec[x].queue[i] \in 1..(k + 1)
              /\ note'[exec[x].queue[i]].by = x /\ note'[exec[x].queue[i]].fate = "queued"
        BY <1>9, <2>1, <4>1
      <4>. QED BY <1>7, <4>1, <4>2, <4>3
    <3>. QED BY <3>1, <3>2
  <2>. QED BY <2>3 DEF InQueue
<1>18. \A x \in Execs : /\ exec'[x].spec = exec[x].spec /\ exec'[x].at = exec[x].at
                        /\ Admitted(x)' <=> Admitted(x)
  BY <1>14 DEF Admitted
<1>19. full => note[Head(q)].fate = "queued"
  BY <1>10, <1>11, <1>12
<1>20. Stored'
  <2>1. \A n \in 1..k : note'[n].fate = "stored" <=> note[n].fate = "stored"
    BY <1>7, <1>19
  <2>2. \A n \in 1..k : exec'[note'[n].by].spec = exec[note[n].by].spec
    BY <1>7, <1>9, <1>18 DEF Note
  <2>3. note'[k + 1].fate # "stored" /\ 1..(k + 1) = 1..k \cup {k + 1}
    BY <1>7, <1>9
  <2>4. \A n \in 1..Len(note') : note'[n].fate = "stored" =>
          n \in 1..k /\ note[n].fate = "stored" /\ exec'[note'[n].by].spec = exec[note[n].by].spec
    BY <1>7, <2>1, <2>2, <2>3
  <2>5. \A s \in Execs : \A n \in notesFile[s] :
          n \in 1..k /\ note[n].fate = "stored" /\ exec[note[n].by].spec = s
    BY <1>6 DEF NotesInv, Stored
  <2>6. \A s \in Execs : \A n \in notesFile[s] :
          n \in 1..Len(note') /\ note'[n].fate = "stored" /\ exec'[note'[n].by].spec = s
    BY <1>7, <2>1, <2>2, <2>3, <2>5
  <2>7. \A n \in 1..k : note[n].fate = "stored" => n \in notesFile[exec[note[n].by].spec]
    BY <1>6 DEF NotesInv, Stored
  <2>8. notesFile \in [Execs -> SUBSET Nat] /\ prompted \in [Execs -> SUBSET Nat]
    BY DEF NotesInv, Stored
  <2>9. \A n \in 1..Len(note') : note'[n].fate = "stored" => n \in notesFile[exec'[note'[n].by].spec]
    BY <2>4, <2>7
  <2>. QED BY <1>8, <2>6, <2>8, <2>9 DEF Stored
<1>21. Due'
  <2>1. ASSUME NEW n \in 1..k
        PROVE  /\ exec'[note'[n].by].at \in InRun
               /\ \A x \in note'[n].due : exec'[x].at \in InRun /\ exec'[x].spec = exec'[note'[n].by].spec
               /\ note'[n].fate = "queued" => note'[n].due = {} /\ n \in ToSet(exec'[note'[n].by].queue)
               /\ note'[n].fate = "late" => note'[n].due = {} /\ exec'[note'[n].by].at = "ended"
               /\ note'[n].fate \notin Lost => \A x \in note'[n].due : n \in prompted'[x]
    <3>1. /\ note[n].by \in Execs /\ note[n].due \subseteq Execs
          /\ note'[n].by = note[n].by /\ note'[n].due = note[n].due
      BY <1>7, <1>9, <2>1 DEF Note
    <3>2. /\ Admitted(note[n].by)
          /\ \A x \in note[n].due : Admitted(x) /\ exec[x].spec = exec[note[n].by].spec
          /\ note[n].fate = "queued" => note[n].due = {} /\ n \in ToSet(exec[note[n].by].queue)
          /\ note[n].fate = "late" => note[n].due = {} /\ exec[note[n].by].at = "ended"
          /\ note[n].fate \notin Lost => \A x \in note[n].due : n \in prompted[x]
      BY <1>6, <2>1 DEF NotesInv, Due
    <3>3. /\ exec'[note[n].by].at \in InRun
          /\ \A x \in note[n].due : exec'[x].at \in InRun /\ exec'[x].spec = exec'[note[n].by].spec
      BY <1>18, <3>1, <3>2 DEF Admitted
    <3>4. note'[n].fate = "queued" =>
            n \in ToSet(exec[note[n].by].queue) /\ ~(full /\ n = Head(q)) /\ note[n].due = {}
      BY <1>7, <2>1, <3>2
    <3>5. note'[n].fate = "queued" => n \in ToSet(exec'[note[n].by].queue)
      BY <1>5, <1>14, <1>16, <3>1, <3>4
    <3>6. note'[n].fate = "late" => note[n].fate = "late"
      BY <1>7, <2>1
    <3>7. note'[n].fate \notin Lost => note[n].fate = note'[n].fate
      BY <1>7, <2>1 DEF Lost
    <3>. QED BY <1>8, <1>18, <3>1, <3>2, <3>3, <3>4, <3>5, <3>6, <3>7 DEF Admitted
  <2>2. /\ exec'[e].at \in InRun /\ note'[k + 1].by = e /\ note'[k + 1].due = {}
        /\ note'[k + 1].fate = "queued" /\ k + 1 \in ToSet(exec'[e].queue)
    BY <1>7, <1>14, <1>16 DEF Admitted, InRun, Live
  <2>3. 1..(k + 1) = 1..k \cup {k + 1}
    BY <1>9
  <2>. QED BY <1>7, <2>1, <2>2, <2>3 DEF Due, Admitted
<1>. QED BY <1>7, <1>17, <1>20, <1>21 DEF NotesInv, Noted

(* A launch takes what waits into the file and the prompt; what the prompts   *)
(* of others are due is left alone, unless the file could not be read.       *)
LEMMA LaunchNotes ==
  ASSUME RunsInv, NotesInv, NEW e \in Execs, StartAgent(e)
  PROVE  NotesInv'
<1>0. PICK failed \in {"nothing", "read", "write"} :
       LET spec == exec[e].spec
           drained == ToSet(exec[e].queue)
           lose == IF failed = "read" /\ drained # {} THEN notesFile[spec] ELSE {}
           kept == IF failed = "write" THEN notesFile[spec] ELSE (notesFile[spec] \ lose) \cup drained
       IN /\ notesFile' = [notesFile EXCEPT ![spec] = kept]
          /\ prompted' = [prompted EXCEPT ![e] = kept]
          /\ note' = [n \in DOMAIN note |->
               [note[n] EXCEPT !.fate = CASE n \in lose -> "forgotten"
                                          [] n \in drained -> IF failed = "write" THEN "unsaved" ELSE "stored"
                                          [] OTHER -> @,
                               !.due = IF note[n].by = e \/ (note[n].fate = "stored" /\ exec[note[n].by].spec = spec)
                                       THEN @ \cup {e} ELSE @]]
  BY Zenon DEF StartAgent, Injected
<1>. DEFINE spec == exec[e].spec
            drained == ToSet(exec[e].queue)
            lose == IF failed = "read" /\ drained # {} THEN notesFile[spec] ELSE {}
            kept == IF failed = "write" THEN notesFile[spec] ELSE (notesFile[spec] \ lose) \cup drained
            fateOf(n) == CASE n \in lose -> "forgotten"
                           [] n \in drained -> IF failed = "write" THEN "unsaved" ELSE "stored"
                           [] OTHER -> note[n].fate
            dueOf(n) == IF note[n].by = e \/ (note[n].fate = "stored" /\ exec[note[n].by].spec = spec)
                        THEN note[n].due \cup {e} ELSE note[n].due
<1>05. /\ notesFile' = [notesFile EXCEPT ![spec] = kept]
       /\ prompted' = [prompted EXCEPT ![e] = kept]
       /\ note' = [n \in DOMAIN note |-> [note[n] EXCEPT !.fate = fateOf(n), !.due = dueOf(n)]]
  BY ONLY <1>0, Zenon
<1>07. \A n : dueOf(n) = IF note[n].by = e \/ (note[n].fate = "stored" /\ exec[note[n].by].spec = spec)
                         THEN note[n].due \cup {e} ELSE note[n].due
  OBVIOUS
<1>1. /\ spec = exec[e].spec /\ drained = ToSet(exec[e].queue)
      /\ lose = (IF failed = "read" /\ drained # {} THEN notesFile[spec] ELSE {})
      /\ kept = (IF failed = "write" THEN notesFile[spec] ELSE (notesFile[spec] \ lose) \cup drained)
  OBVIOUS
<1>. HIDE DEF spec, drained, lose, kept, dueOf
<1>2. PICK k : k = Len(note)
  OBVIOUS
<1>3. /\ k \in Nat /\ DOMAIN note = 1..k /\ \A n \in 1..k : note[n] \in Note
      /\ exec \in [Execs -> Call] /\ exec[e] \in Call /\ exec[e].queue \in Seq(Nat)
      /\ exec[e].at = "running" /\ spec \in Execs
  <2>1. note \in Seq(Note)
    BY DEF NotesInv, Noted
  <2>2. k \in Nat /\ DOMAIN note = 1..k /\ \A n \in 1..k : note[n] \in Note
    BY <1>2, <2>1, SeqShape
  <2>3. exec \in [Execs -> Call] /\ exec[e] \in Call /\ exec[e].queue \in Seq(Nat) /\ Placed
    BY DEF RunsInv, SessionType, Call
  <2>4. exec[e].at = "running"
    BY DEF StartAgent
  <2>. QED BY <1>1, <2>2, <2>3, <2>4 DEF Placed, Admitted, InRun
<1>4. /\ exec' = [exec EXCEPT ![e].queue = <<>>] /\ <<>> \in Seq(Nat)
  <2>1. exec' = [exec EXCEPT ![e].queue = <<>>]
    BY DEF StartAgent
  <2>2. <<>> \in Seq(Nat)
    OBVIOUS
  <2>. QED BY <2>1, <2>2
<1>5. /\ \A x \in Execs \ {e} : exec'[x] = exec[x]
      /\ exec'[e].queue = <<>> /\ \A x \in Execs : exec'[x].spec = exec[x].spec /\ exec'[x].at = exec[x].at
  BY <1>3, <1>4, QueueSet
<1>6. \A n \in drained : n \in 1..k /\ note[n].by = e /\ note[n].fate = "queued" /\ note[n].due = {}
  <2>1. drained = {exec[e].queue[i] : i \in 1..Len(exec[e].queue)}
    BY <1>1, <1>3, ToSetShape
  <2>. QED BY <1>2, <2>1 DEF NotesInv, InQueue, Due
<1>7. \A n \in notesFile[spec] : n \in 1..k /\ note[n].fate = "stored" /\ exec[note[n].by].spec = spec
  BY <1>2, <1>3 DEF NotesInv, Stored
<1>8. lose \subseteq notesFile[spec] /\ lose \cap drained = {}
  BY <1>1, <1>6, <1>7
<1>06. \A n : fateOf(n) = IF n \in lose THEN "forgotten"
                          ELSE IF n \in drained THEN IF failed = "write" THEN "unsaved" ELSE "stored"
                          ELSE note[n].fate
  BY <1>8
<1>. HIDE DEF fateOf
\* Each note after the launch.
<1>9. ASSUME NEW n \in 1..k
      PROVE  /\ note'[n] \in Note /\ note'[n].by = note[n].by
             /\ note'[n].fate = IF n \in lose THEN "forgotten"
                                ELSE IF n \in drained THEN IF failed = "write" THEN "unsaved" ELSE "stored"
                                ELSE note[n].fate
             /\ note'[n].due = IF note[n].by = e \/ (note[n].fate = "stored" /\ exec[note[n].by].spec = spec)
                               THEN note[n].due \cup {e} ELSE note[n].due
  <2>1. note'[n] = [note[n] EXCEPT !.fate = fateOf(n), !.due = dueOf(n)]
    BY <1>05, <1>3
  <2>2. note[n] \in Note
    BY <1>3
  <2>3. fateOf(n) \in Fate
    BY <1>06, <2>2 DEF Note, Fate
  <2>4. dueOf(n) \in SUBSET Execs
    BY <1>07, <2>2 DEF Note
  <2>5. /\ note'[n] \in Note /\ note'[n].by = note[n].by
        /\ note'[n].fate = fateOf(n) /\ note'[n].due = dueOf(n)
    BY <2>1, <2>2, <2>3, <2>4 DEF Note
  <2>. QED BY <1>06, <1>07, <2>5
<1>91. ASSUME NEW n \in 1..k
       PROVE  /\ note'[n].by = note[n].by
              /\ n \in drained => note'[n].fate = IF failed = "write" THEN "unsaved" ELSE "stored"
              /\ n \notin lose /\ n \notin drained => note'[n].fate = note[n].fate
              /\ note[n].due \subseteq note'[n].due /\ note'[n].due \subseteq note[n].due \cup {e}
              /\ e \in note'[n].due => \/ e \in note[n].due
                                       \/ note[n].by = e
                                       \/ note[n].fate = "stored" /\ exec[note[n].by].spec = spec
              /\ note[n].by # e /\ note[n].fate # "stored" => note'[n].due = note[n].due
  <2>1. /\ n \in drained => note'[n].fate = IF failed = "write" THEN "unsaved" ELSE "stored"
        /\ n \notin lose /\ n \notin drained => note'[n].fate = note[n].fate
    BY <1>8, <1>9
  <2>0. note'[n].by = note[n].by
    BY <1>9
  <2>2. CASE note[n].by = e \/ (note[n].fate = "stored" /\ exec[note[n].by].spec = spec)
    <3>1. note'[n].due = note[n].due \cup {e}
      BY <1>9, <2>2
    <3>. QED BY <2>0, <2>1, <2>2, <3>1
  <2>3. CASE ~(note[n].by = e \/ (note[n].fate = "stored" /\ exec[note[n].by].spec = spec))
    <3>1. note'[n].due = note[n].due
      BY <1>9, <2>3
    <3>. QED BY <2>0, <2>1, <2>3, <3>1
  <2>. QED BY <2>2, <2>3
<1>10. note' \in Seq(Note) /\ Len(note') = k
  <2>1. note' = [n \in 1..k |-> note'[n]]
    BY <1>05, <1>3
  <2>2. note' \in [1..k -> Note]
    BY <1>9, <2>1
  <2>. QED BY <1>3, <2>2, SeqMade
<1>11. /\ kept \subseteq Nat /\ notesFile' \in [Execs -> SUBSET Nat] /\ prompted' \in [Execs -> SUBSET Nat]
       /\ notesFile'[spec] = kept /\ \A s \in Execs \ {spec} : notesFile'[s] = notesFile[s]
       /\ prompted'[e] = kept /\ \A x \in Execs \ {e} : prompted'[x] = prompted[x]
  <2>1. /\ notesFile \in [Execs -> SUBSET Nat] /\ prompted \in [Execs -> SUBSET Nat]
    BY DEF NotesInv, Stored
  <2>2. drained \subseteq Nat /\ notesFile[spec] \subseteq Nat
    BY <1>3, <1>6, <2>1
  <2>3. kept \subseteq Nat
    BY <1>1, <2>2
  <2>. QED BY <1>05, <1>3, <2>1, <2>3
<1>12. ASSUME NEW n \in 1..k
       PROVE  /\ note[n].by \in Execs /\ note[n].due \subseteq Execs
              /\ exec[note[n].by].at \in InRun
              /\ \A x \in note[n].due : exec[x].at \in InRun /\ exec[x].spec = exec[note[n].by].spec
              /\ note[n].fate = "queued" => note[n].due = {} /\ n \in ToSet(exec[note[n].by].queue)
              /\ note[n].fate = "late" => note[n].due = {} /\ exec[note[n].by].at = "ended"
              /\ note[n].fate \notin Lost => \A x \in note[n].due : n \in prompted[x]
              /\ note[n].fate = "stored" => n \in notesFile[exec[note[n].by].spec]
  BY <1>2, <1>3 DEF NotesInv, Due, Stored, Admitted, Note
<1>13. InQueue'
  <2>1. ASSUME NEW x \in Execs
        PROVE  /\ \A i \in 1..Len(exec'[x].queue) :
                    /\ exec'[x].queue[i] \in 1..Len(note')
                    /\ note'[exec'[x].queue[i]].by = x /\ note'[exec'[x].queue[i]].fate = "queued"
               /\ \A i, j \in 1..Len(exec'[x].queue) : exec'[x].queue[i] = exec'[x].queue[j] => i = j
    <3>1. CASE x = e
      <4>1. 1..Len(exec'[x].queue) = {}
        BY <1>5, <3>1
      <4>. QED BY <4>1
    <3>2. CASE x # e
      <4>1. exec'[x].queue = exec[x].queue
        BY <1>5, <3>2
      <4>2. ASSUME NEW i \in 1..Len(exec[x].queue)
            PROVE  /\ exec[x].queue[i] \in 1..k
                   /\ note'[exec[x].queue[i]].by = x /\ note'[exec[x].queue[i]].fate = "queued"
        <5>1. /\ exec[x].queue[i] \in 1..k
              /\ note[exec[x].queue[i]].by = x /\ note[exec[x].queue[i]].fate = "queued"
          BY <1>2, <4>2 DEF NotesInv, InQueue
        <5>2. exec[x].queue[i] \notin drained /\ exec[x].queue[i] \notin lose
          BY <1>6, <1>7, <1>8, <3>2, <5>1
        <5>. QED BY <1>9, <5>1, <5>2
      <4>3. \A i, j \in 1..Len(exec[x].queue) : exec[x].queue[i] = exec[x].queue[j] => i = j
        BY DEF NotesInv, InQueue
      <4>. QED BY <1>10, <4>1, <4>2, <4>3
    <3>. QED BY <3>1, <3>2
  <2>. QED BY <2>1 DEF InQueue
<1>14. Stored'
  <2>1. ASSUME NEW s \in Execs, NEW n \in notesFile'[s]
        PROVE  n \in 1..k /\ note'[n].fate = "stored" /\ exec'[note'[n].by].spec = s
    <3>1. CASE s = spec
      <4>1. n \in kept /\ n \notin lose
        <5>1. n \in kept
          BY ONLY <1>11, <2>1, <3>1
        <5>. QED BY <1>1, <1>6, <1>7, <5>1
      <4>2. CASE n \in drained
        <5>1. n \in 1..k /\ note[n].by = e /\ note[n].fate = "queued"
          BY <1>6, <4>2
        <5>2. failed # "write"
          BY <1>1, <1>7, <4>1, <5>1
        <5>3. note'[n].fate = "stored" /\ note'[n].by = e
          BY <1>91, <4>2, <5>1, <5>2
        <5>4. exec'[e].spec = s
          BY <1>1, <1>5, <3>1
        <5>. QED BY ONLY <5>1, <5>3, <5>4
      <4>3. CASE n \notin drained
        <5>1. n \in notesFile[spec]
          BY <1>1, <4>1, <4>3
        <5>2. n \in 1..k /\ note[n].fate = "stored" /\ exec[note[n].by].spec = spec
          BY <1>7, <5>1
        <5>3. note'[n].fate = "stored" /\ note'[n].by = note[n].by /\ note[n].by \in Execs
          BY <1>12, <1>91, <4>1, <4>3, <5>2
        <5>. QED BY <1>5, <3>1, <5>2, <5>3
      <4>. QED BY <4>2, <4>3
    <3>2. CASE s # spec
      <4>1. n \in 1..k /\ note[n].fate = "stored" /\ exec[note[n].by].spec = s
        BY <1>2, <1>11, <2>1, <3>2 DEF NotesInv, Stored
      <4>2. n \notin drained /\ n \notin lose
        BY <1>6, <1>7, <1>8, <3>2, <4>1
      <4>. QED BY <1>5, <1>9, <1>12, <4>1, <4>2
    <3>. QED BY <3>1, <3>2
  <2>2. ASSUME NEW n \in 1..k, note'[n].fate = "stored"
        PROVE  n \in notesFile'[exec'[note'[n].by].spec]
    <3>1. note'[n].by = note[n].by /\ exec'[note[n].by].spec = exec[note[n].by].spec /\ n \notin lose
      BY <1>5, <1>9, <1>12, <2>2
    <3>2. CASE n \in drained
      <4>1. failed # "write" /\ n \in kept /\ exec[note[n].by].spec = spec
        BY <1>1, <1>6, <1>9, <2>2, <3>1, <3>2
      <4>. QED BY <1>11, <3>1, <4>1
    <3>3. CASE n \notin drained
      <4>1. note[n].fate = "stored" /\ n \in notesFile[exec[note[n].by].spec]
        BY <1>9, <1>12, <2>2, <3>1, <3>3
      <4>2. exec[note[n].by].spec = spec => n \in kept
        BY <1>1, <3>1, <4>1
      <4>3. exec[note[n].by].spec \in Execs
        BY <1>12 DEF RunsInv, Placed, Admitted
      <4>. QED BY <1>11, <3>1, <4>1, <4>2, <4>3
    <3>. QED BY <3>2, <3>3
  <2>. QED BY <1>10, <1>11, <2>1, <2>2 DEF Stored
<1>15. Due'
  <2>1. ASSUME NEW n \in 1..k
        PROVE  /\ exec'[note'[n].by].at \in InRun
               /\ \A x \in note'[n].due : exec'[x].at \in InRun /\ exec'[x].spec = exec'[note'[n].by].spec
    <3>1. /\ note'[n].by = note[n].by /\ note[n].by \in Execs /\ note[n].due \subseteq Execs
          /\ exec[note[n].by].at \in InRun
          /\ \A x \in note[n].due : exec[x].at \in InRun /\ exec[x].spec = exec[note[n].by].spec
      BY <1>91, <1>12, <2>1
    <3>2. exec'[note[n].by].at \in InRun /\ exec'[note[n].by].spec = exec[note[n].by].spec
      BY <1>5, <3>1
    <3>3. ASSUME NEW x \in note'[n].due
          PROVE  exec'[x].at \in InRun /\ exec'[x].spec = exec[note[n].by].spec
      <4>1. CASE x \in note[n].due
        BY <1>5, <3>1, <4>1
      <4>2. CASE x \notin note[n].due
        <5>1. x = e /\ (note[n].by = e \/ exec[note[n].by].spec = spec)
          BY <1>91, <2>1, <3>3, <4>2
        <5>2. exec[e].spec = exec[note[n].by].spec
          BY <1>1, <5>1
        <5>. QED BY <1>3, <1>5, <5>1, <5>2 DEF InRun
      <4>. QED BY <4>1, <4>2
    <3>. QED BY <3>1, <3>2, <3>3
  <2>2. ASSUME NEW n \in 1..k, note'[n].fate = "queued"
        PROVE  note'[n].due = {} /\ n \in ToSet(exec'[note'[n].by].queue)
    <3>1. n \notin drained /\ n \notin lose /\ note[n].fate = "queued"
      BY <1>9, <2>2
    <3>2. note[n].due = {} /\ n \in ToSet(exec[note[n].by].queue) /\ note[n].by \in Execs
      BY <1>12, <2>2, <3>1
    <3>3. note[n].by # e
      BY <1>1, <3>1, <3>2
    <3>4. note'[n].by = note[n].by /\ note'[n].due = {}
      BY <1>91, <2>2, <3>1, <3>2, <3>3
    <3>. QED BY <1>5, <3>2, <3>3, <3>4
  <2>3. ASSUME NEW n \in 1..k, note'[n].fate = "late"
        PROVE  note'[n].due = {} /\ exec'[note'[n].by].at = "ended"
    <3>1. note[n].fate = "late"
      BY <1>9, <2>3
    <3>2. note[n].due = {} /\ exec[note[n].by].at = "ended" /\ note[n].by \in Execs
      BY <1>12, <2>3, <3>1
    <3>3. note[n].by # e
      BY <1>3, <3>2
    <3>4. note'[n].by = note[n].by /\ note'[n].due = {}
      BY <1>91, <2>3, <3>1, <3>2, <3>3
    <3>. QED BY <1>5, <3>2, <3>4
  <2>4. ASSUME NEW n \in 1..k, note'[n].fate \notin Lost, NEW x \in note'[n].due
        PROVE  n \in prompted'[x]
    <3>1. n \notin lose
      BY <1>9, <2>4 DEF Lost
    <3>2. CASE n \in drained
      <4>1. failed # "write"
        BY <1>9, <2>4, <3>1, <3>2 DEF Lost
      <4>2. x = e /\ n \in kept
        <5>1. note[n].due = {}
          BY <1>6, <3>2
        <5>2. x = e
          BY <1>91, <2>4, <5>1
        <5>. QED BY <1>1, <3>2, <4>1, <5>2
      <4>. QED BY <1>11, <4>2
    <3>3. CASE n \notin drained
      <4>1. note'[n].fate = note[n].fate /\ note[n].fate \notin Lost
        BY <1>9, <2>4, <3>1, <3>3
      <4>2. CASE x = e
        <5>1. note[n].fate = "stored" /\ exec[note[n].by].spec = spec
          <6>1. note[n].fate \in {"queued", "stored", "late"}
            BY <1>3, <4>1 DEF Note, Fate, Lost
          <6>2. note[n].by = e => note[n].fate \notin {"queued", "late"}
            BY <1>1, <1>3, <1>12, <3>3
          <6>3. CASE note[n].by = e
            BY <1>1, <6>1, <6>2, <6>3
          <6>4. CASE note[n].by # e /\ e \in note[n].due
            BY <1>1, <1>12, <6>1, <6>4
          <6>5. CASE note[n].by # e /\ e \notin note[n].due
            BY <1>9, <2>4, <4>2, <6>5
          <6>. QED BY <6>3, <6>4, <6>5
        <5>2. n \in kept
          BY <1>1, <1>12, <3>1, <5>1
        <5>. QED BY <1>11, <4>2, <5>2
      <4>3. CASE x # e
        <5>1. x \in note[n].due /\ x \in Execs
          BY <1>91, <1>12, <2>4, <4>3
        <5>. QED BY <1>11, <1>12, <4>1, <4>3, <5>1
      <4>. QED BY <4>2, <4>3
    <3>. QED BY <3>2, <3>3
  <2>. QED BY <1>10, <2>1, <2>2, <2>3, <2>4 DEF Due, Admitted
<1>. QED BY <1>10, <1>13, <1>14, <1>15 DEF NotesInv, Noted

LEMMA StepNotes == RunsInv /\ NotesInv /\ [ExtensionNext]_extensionVars => NotesInv'
<1>. SUFFICES ASSUME RunsInv, NotesInv, [ExtensionNext]_extensionVars PROVE NotesInv'
  OBVIOUS
<1>. USE DEF Admitted, InRun
<1>0. exec \in [Execs -> Call]
  BY DEF RunsInv, SessionType
<1>1. ASSUME NEW e \in Execs, Execute(e) PROVE NotesInv'
  <2>1. exec[e].at = "none" /\ UNCHANGED <<note, notesFile, prompted>>
    BY <1>1 DEF Execute
  <2>2. \E spec : \/ exec' = [exec EXCEPT ![e].at = "refused"]
                  \/ exec' = [exec EXCEPT ![e].at = "running", ![e].mod = module, ![e].spec = spec]
    BY <1>1 DEF Execute
  <2>3. exec'[e].queue = exec[e].queue /\ \A x \in Execs \ {e} : exec'[x] = exec[x]
    BY <1>0, <2>2 DEF Call
  <2>. QED BY <2>1, <2>3, PlaceNotes
<1>2. ASSUME NEW e \in Execs, PipelineReturns(e), ~\E kinds \in Begun : EndRun(e, kinds) PROVE NotesInv'
  <2>1. exec[e].at = "running" /\ UNCHANGED <<note, notesFile, prompted>>
    BY <1>2 DEF PipelineReturns
  <2>2. \/ exec' = [exec EXCEPT ![e].restarts = @ + 1]
        \/ exec' = [exec EXCEPT ![e].at = "asking"]
    BY <1>2 DEF PipelineReturns
  <2>3. /\ exec'[e].queue = exec[e].queue /\ exec'[e].spec = exec[e].spec
        /\ exec'[e].at \in {"running", "asking"} /\ \A x \in Execs \ {e} : exec'[x] = exec[x]
    BY <1>0, <2>1, <2>2 DEF Call
  <2>. QED BY <2>1, <2>3, PlaceNotes
<1>3. ASSUME NEW e \in Execs, NEW kinds, Live(e), EndRun(e, kinds) PROVE NotesInv'
  BY <1>3, EndNotes
<1>4. ASSUME NEW e \in Execs, StartAgent(e) PROVE NotesInv'
  BY <1>4, LaunchNotes
<1>5. CASE InputAccepted
  BY <1>5, QueuedNotes
<1>6. CASE Settle \/ SessionShutdown \/ UNCHANGED extensionVars
  BY <1>6, PlaceNotes DEF Settle, SessionShutdown, extensionVars
<1>. QED BY <1>1, <1>2, <1>3, <1>4, <1>5, <1>6
         DEF ExtensionNext, PipelineReturns, StagnationAnswered, PipelineThrows, Live

LEMMA RunsHold == ExtensionSpec => [](RunsInv /\ NotesInv)
<1>1. RunsInv /\ NotesInv /\ [ExtensionNext]_extensionVars => (RunsInv /\ NotesInv)'
  BY StepRuns, StepNotes DEF NotesInv
<1>. QED BY InitRuns, InitNotes, <1>1, PTL DEF ExtensionSpec

(* An accepted input is in the prompt of every later agent of its spec, also *)
(* after a replan and in a resumed run, but for the three ways to lose it.   *)
THEOREM Reached == ExtensionSpec => []NoteReachesAgents
<1>1. NotesInv => NoteReachesAgents
  <2>. SUFFICES ASSUME NotesInv PROVE NoteReachesAgents
    OBVIOUS
  <2>1. DOMAIN note = 1..Len(note)
    BY SeqShape DEF NotesInv, Noted
  <2>. QED BY <2>1 DEF NotesInv, Due, Lost, NoteReachesAgents
<1>. QED BY <1>1, RunsHold, PTL

(* A shutdown of the session names the run and the background work of its    *)
(* evaluation that are under way, and nothing else, for any number of        *)
(* reloads and overlapping runs (reportSessionShutdown).                     *)
THEOREM Honest == ExtensionSpec => ShutdownIsHonest
<1>1. ASSUME RunsInv, SessionShutdown
      PROVE  named' = {w \in working : exec[w[1]].mod = module}
                        \cup {<<e, "run">> : e \in {x \in Execs : Live(x) /\ exec[x].mod = module}}
  <2>1. pending[module] = {w \in working : exec[w[1]].mod = module}
    BY <1>1 DEF RunsInv, SessionType, Registered, SessionShutdown, Modules
  <2>2. module \in Modules /\ activeRun[module] \in Execs \cup {NoExec}
    BY <1>1 DEF RunsInv, SessionType
  <2>3. CASE inFlight[module] /\ activeRun[module] # NoExec
    <3>1. {x \in Execs : Live(x) /\ exec[x].mod = module} = {activeRun[module]}
      BY <1>1, <2>2, <2>3 DEF RunsInv, Seated
    <3>2. {<<e, "run">> : e \in {activeRun[module]}} = {<<activeRun[module], "run">>}
      OBVIOUS
    <3>. QED BY <1>1, <2>1, <2>3, <3>1, <3>2 DEF SessionShutdown
  <2>4. CASE ~(inFlight[module] /\ activeRun[module] # NoExec)
    <3>1. {x \in Execs : Live(x) /\ exec[x].mod = module} = {}
      BY <1>1, <2>2, <2>4, ExtensionAssumption DEF RunsInv, Seated
    <3>. QED BY <1>1, <2>1, <2>4, <3>1 DEF SessionShutdown
  <2>. QED BY <2>3, <2>4
<1>2. ASSUME [ExtensionNext]_extensionVars, ~SessionShutdown PROVE UNCHANGED <<module, quit>>
  BY <1>2 DEF ExtensionNext, Execute, PipelineReturns, StagnationAnswered, PipelineThrows, EndRun,
     StartAgent, InputAccepted, Settle, extensionVars
<1>3. RunsInv /\ [ExtensionNext]_extensionVars =>
        [(module' # module \/ quit' # quit) =>
           named' = {w \in working : exec[w[1]].mod = module}
                      \cup {<<e, "run">> : e \in {x \in Execs : Live(x) /\ exec[x].mod = module}}]_extensionVars
  BY <1>1, <1>2
<1>. QED BY <1>3, RunsHold, PTL DEF ExtensionSpec, ShutdownIsHonest

(* What the bounds of the model hold on top: a queue is never longer than   *)
(* the code allows, and a prompt holds accepted notes only.                 *)
WithinBounds ==
  /\ \A e \in Execs : exec[e].restarts <= MaxReplanRounds /\ Len(exec[e].queue) <= MaxQueued
  /\ Len(note) <= MaxNotes /\ \A e \in Execs : prompted[e] \subseteq 1..Len(note)
  /\ misses \in 0..MaxMisses

Histories ==
  /\ quit \in BOOLEAN /\ guard \in Execs \cup {NoExec} /\ latest \in Execs \cup {NoExec}
  /\ forced \subseteq Execs /\ named \subseteq Execs \X (Kinds \cup {"run"})

LEMMA StepHistories == RunsInv /\ Histories /\ [ExtensionNext]_extensionVars => Histories'
<1>. SUFFICES ASSUME RunsInv, Histories, [ExtensionNext]_extensionVars PROVE Histories'
  OBVIOUS
<1>. USE DEF Histories
<1>1. ASSUME NEW e \in Execs, Execute(e) PROVE Histories'
  <2>1. UNCHANGED <<quit, named>> /\ \/ UNCHANGED <<guard, latest, forced>>
                                     \/ guard' = e /\ latest' = e /\ forced' \subseteq forced \cup {e}
    BY <1>1 DEF Execute
  <2>. QED BY <2>1
<1>2. ASSUME NEW e \in Execs, NEW kinds, EndRun(e, kinds) PROVE Histories'
  <2>1. UNCHANGED <<quit, named, latest, forced>> /\ guard' \in {guard, NoExec}
    BY <1>2 DEF EndRun, releaseRunGuard
  <2>. QED BY <2>1
<1>3. CASE SessionShutdown
  <2>1. UNCHANGED <<guard, latest, forced>> /\ quit' \in {TRUE, quit}
    BY <1>3 DEF SessionShutdown
  <2>2. pending[module] \subseteq Work /\ activeRun[module] \in Execs \cup {NoExec}
    BY DEF RunsInv, SessionType
  <2>3. \A w \in named' : w \in pending[module] \/ (activeRun[module] # NoExec /\ w = <<activeRun[module], "run">>)
    BY <1>3 DEF SessionShutdown
  <2>4. named' \subseteq Execs \X (Kinds \cup {"run"})
    BY <2>2, <2>3 DEF Work
  <2>5. quit' \in BOOLEAN
    BY <2>1
  <2>. QED BY <2>1, <2>4, <2>5
<1>4. ASSUME \/ \E e \in Execs : StartAgent(e) \/ (PipelineReturns(e) /\ ~\E kinds \in Begun : EndRun(e, kinds))
             \/ InputAccepted \/ Settle \/ UNCHANGED extensionVars
      PROVE  Histories'
  <2>1. UNCHANGED <<quit, guard, latest, forced, named>>
    BY <1>4 DEF StartAgent, PipelineReturns, InputAccepted, Settle, extensionVars
  <2>. QED BY <2>1
<1>. QED BY <1>1, <1>2, <1>3, <1>4 DEF ExtensionNext, PipelineReturns, StagnationAnswered, PipelineThrows

(* A step that accepts no input and starts no agent.                        *)
LEMMA BoundsStay ==
  ASSUME WithinBounds, Len(note') = Len(note), UNCHANGED <<prompted, misses>>,
         \A e \in Execs : exec'[e].restarts <= MaxReplanRounds /\ Len(exec'[e].queue) <= MaxQueued
  PROVE  WithinBounds'
BY DEF WithinBounds

LEMMA InputBounds == ASSUME RunsInv, NotesInv, WithinBounds, InputAccepted PROVE WithinBounds'
<1>. DEFINE e == activeRun[module]
            q == Append(exec[e].queue, Len(note) + 1)
<1>1. /\ e \in Execs /\ q \in Seq(Nat) /\ Len(note') = Len(note) + 1
  <2>1. LineNoted(e, q)
    BY InputNotes DEF NotesInv
  <2>. HIDE DEF e, q
  <2>. QED BY ONLY <2>1 DEF LineNoted
<1>2. /\ exec \in [Execs -> Call] /\ exec[e].queue \in Seq(Nat) /\ exec[e].restarts \in Nat
  BY <1>1 DEF RunsInv, SessionType, Call
<1>3. Len(q) = Len(exec[e].queue) + 1 /\ Len(exec[e].queue) \in Nat
  BY <1>1, <1>2, SeqShape
<1>4. Len(exec[e].queue) <= MaxQueued
  BY <1>1 DEF WithinBounds
<1>5. PICK r : r = IF Len(q) > MaxQueued THEN Tail(q) ELSE q
  OBVIOUS
<1>55. exec' = [exec EXCEPT ![e].queue = r] /\ Len(note) < MaxNotes /\ UNCHANGED <<prompted, misses>>
  BY <1>5 DEF InputAccepted
<1>. HIDE DEF q
<1>6. Len(r) <= MaxQueued
  <2>1. CASE Len(q) > MaxQueued
    <3>1. q # <<>>
      BY <1>3, Len(<<>>) = 0
    <3>2. Len(Tail(q)) = Len(q) - 1
      BY <1>1, <3>1, TailShape
    <3>. QED BY <1>3, <1>4, <1>5, <2>1, <3>2
  <2>. QED BY <1>3, <1>5, <2>1
<1>7. /\ \A x \in Execs \ {e} : exec'[x] = exec[x]
      /\ exec'[e].queue = r /\ exec'[e].restarts = exec[e].restarts
  BY <1>1, <1>2, <1>55 DEF Call
<1>8. Len(note) \in Nat
  BY SeqShape DEF NotesInv, Noted
<1>. QED BY <1>1, <1>55, <1>6, <1>7, <1>8 DEF WithinBounds

LEMMA LaunchBounds == ASSUME RunsInv, NotesInv, WithinBounds, NEW e \in Execs, StartAgent(e) PROVE WithinBounds'
<1>1. /\ exec \in [Execs -> Call] /\ exec[e].queue \in Seq(Nat) /\ exec[e].spec \in Execs
  BY DEF RunsInv, SessionType, Call, Placed, Admitted, InRun, StartAgent
<1>2. /\ exec' = [exec EXCEPT ![e].queue = <<>>] /\ misses' \in 0..MaxMisses
  <2>1. exec' = [exec EXCEPT ![e].queue = <<>>] /\ (misses' = misses \/ (misses < MaxMisses /\ misses' = misses + 1))
    BY DEF StartAgent
  <2>. QED BY <2>1 DEF WithinBounds
<1>3. \E kept : kept \subseteq notesFile[exec[e].spec] \cup ToSet(exec[e].queue)
                /\ prompted' = [prompted EXCEPT ![e] = kept]
  BY DEF StartAgent, Injected
<1>4. notesFile[exec[e].spec] \subseteq 1..Len(note)
  BY <1>1 DEF NotesInv, Stored
<1>5. ToSet(exec[e].queue) \subseteq 1..Len(note)
  BY <1>1, ToSetShape DEF NotesInv, InQueue
<1>6. Len(note') = Len(note) /\ Len(note) \in Nat
  <2>1. note \in Seq(Note) /\ Len(note) \in Nat /\ DOMAIN note = 1..Len(note)
    BY SeqShape DEF NotesInv, Noted
  <2>2. DOMAIN note' = DOMAIN note
    BY DEF StartAgent
  <2>3. note' \in Seq(Note)
    BY LaunchNotes DEF NotesInv, Noted
  <2>4. DOMAIN note' = 1..Len(note') /\ Len(note') \in Nat
    BY <2>3, SeqShape
  <2>. QED BY <2>1, <2>2, <2>4
<1>7. \A x \in Execs : prompted'[x] \subseteq 1..Len(note)
  <2>1. prompted \in [Execs -> SUBSET Nat]
    BY DEF NotesInv, Stored
  <2>. QED BY <1>3, <1>4, <1>5, <2>1 DEF WithinBounds
<1>8. \A x \in Execs : exec'[x].restarts <= MaxReplanRounds /\ Len(exec'[x].queue) <= MaxQueued
  <2>1. exec'[e].queue = <<>> /\ exec'[e].restarts = exec[e].restarts /\ \A x \in Execs \ {e} : exec'[x] = exec[x]
    BY <1>1, <1>2 DEF Call
  <2>. QED BY <2>1 DEF WithinBounds
<1>. QED BY <1>2, <1>6, <1>7, <1>8 DEF WithinBounds

LEMMA StepBounds == RunsInv /\ NotesInv /\ WithinBounds /\ [ExtensionNext]_extensionVars => WithinBounds'
<1>. SUFFICES ASSUME RunsInv, NotesInv, WithinBounds, [ExtensionNext]_extensionVars PROVE WithinBounds'
  OBVIOUS
<1>0. exec \in [Execs -> Call] /\ \A e \in Execs : exec[e].restarts <= MaxReplanRounds /\ Len(exec[e].queue) <= MaxQueued
  BY DEF RunsInv, SessionType, WithinBounds
<1>1. ASSUME NEW e \in Execs, Execute(e) PROVE WithinBounds'
  <2>1. UNCHANGED <<note, prompted, misses>>
    BY <1>1 DEF Execute
  <2>2. \E spec : \/ exec' = [exec EXCEPT ![e].at = "refused"]
                  \/ exec' = [exec EXCEPT ![e].at = "running", ![e].mod = module, ![e].spec = spec]
    BY <1>1 DEF Execute
  <2>3. exec'[e].queue = exec[e].queue /\ exec'[e].restarts = exec[e].restarts /\ \A x \in Execs \ {e} : exec'[x] = exec[x]
    BY <1>0, <2>2 DEF Call
  <2>. QED BY <1>0, <2>1, <2>3, BoundsStay
<1>2. ASSUME NEW e \in Execs, PipelineReturns(e), ~\E kinds \in Begun : EndRun(e, kinds) PROVE WithinBounds'
  <2>1. UNCHANGED <<note, prompted, misses>>
    BY <1>2 DEF PipelineReturns
  <2>2. \/ exec[e].restarts < MaxReplanRounds /\ exec' = [exec EXCEPT ![e].restarts = @ + 1]
        \/ exec' = [exec EXCEPT ![e].at = "asking"]
    BY <1>2 DEF PipelineReturns
  <2>3. /\ exec'[e].queue = exec[e].queue /\ \A x \in Execs \ {e} : exec'[x] = exec[x]
        /\ \/ exec'[e].restarts = exec[e].restarts
           \/ exec[e].restarts < MaxReplanRounds /\ exec'[e].restarts = exec[e].restarts + 1
    <3>1. CASE exec[e].restarts < MaxReplanRounds /\ exec' = [exec EXCEPT ![e].restarts = @ + 1]
      BY <1>0, <3>1 DEF Call
    <3>2. CASE exec' = [exec EXCEPT ![e].at = "asking"]
      BY <1>0, <3>2 DEF Call
    <3>. QED BY <2>2, <3>1, <3>2
  <2>4. exec[e].restarts \in Nat
    BY <1>0 DEF Call
  <2>5. exec'[e].restarts <= MaxReplanRounds
    BY <1>0, <2>3, <2>4
  <2>. QED BY <1>0, <2>1, <2>3, <2>5, BoundsStay
<1>3. ASSUME NEW e \in Execs, NEW kinds, EndRun(e, kinds) PROVE WithinBounds'
  <2>1. /\ note' = Fates(ToSet(exec[e].queue), "late") /\ UNCHANGED <<prompted, misses>>
        /\ exec' = [exec EXCEPT ![e].at = "ended", ![e].queue = <<>>]
    BY <1>3 DEF EndRun
  <2>2. Len(note') = Len(note)
    BY <2>1, FatesShape DEF NotesInv, Fate
  <2>3. /\ \A x \in Execs \ {e} : exec'[x] = exec[x]
        /\ exec'[e].restarts = exec[e].restarts /\ exec'[e].queue = <<>>
    BY <1>0, <2>1 DEF Call
  <2>4. Len(exec'[e].queue) <= MaxQueued
    BY <2>3
  <2>. QED BY <1>0, <2>1, <2>2, <2>3, <2>4, BoundsStay
<1>4. ASSUME NEW e \in Execs, StartAgent(e) PROVE WithinBounds'
  BY <1>4, LaunchBounds
<1>5. CASE InputAccepted
  BY <1>5, InputBounds
<1>6. CASE Settle \/ SessionShutdown \/ UNCHANGED extensionVars
  BY <1>6 DEF Settle, SessionShutdown, extensionVars, WithinBounds
<1>. QED BY <1>1, <1>2, <1>3, <1>4, <1>5, <1>6
         DEF ExtensionNext, PipelineReturns, StagnationAnswered, PipelineThrows

LEMMA InitBounds == ExtensionInit => WithinBounds /\ Histories
<1>. SUFFICES ASSUME ExtensionInit PROVE WithinBounds /\ Histories
  OBVIOUS
<1>1. \A e \in Execs : exec[e] = Called /\ prompted[e] = {}
  BY DEF ExtensionInit
<1>2. note = <<>> /\ Len(note) = 0 /\ Called.restarts = 0 /\ Len(Called.queue) = 0
  BY DEF ExtensionInit, Called
<1>3. WithinBounds
  BY <1>1, <1>2 DEF ExtensionInit, WithinBounds
<1>. QED BY <1>3 DEF ExtensionInit, Histories

LEMMA BoundsType ==
  ASSUME RunsInv, NotesInv, WithinBounds, Histories
  PROVE  ExtensionTypeOK
<1>1. /\ exec \in [Execs -> Call] /\ note \in Seq(Note) /\ Len(note) \in Nat
      /\ notesFile \in [Execs -> SUBSET Nat] /\ prompted \in [Execs -> SUBSET Nat]
  BY SeqShape DEF RunsInv, SessionType, NotesInv, Noted, Stored
<1>2. 1..Len(note) \subseteq Notes
  BY <1>1 DEF WithinBounds, Notes
<1>3. \A e \in Execs : notesFile[e] \subseteq Notes /\ prompted[e] \subseteq Notes
  BY <1>2 DEF NotesInv, Stored, WithinBounds
<1>4. notesFile \in [Execs -> SUBSET Notes] /\ prompted \in [Execs -> SUBSET Notes]
  BY <1>1, <1>3
<1>5. ASSUME NEW e \in Execs
      PROVE  /\ exec[e].at \in {"none", "refused", "running", "asking", "ended"}
             /\ exec[e].mod \in 0..MaxModules /\ exec[e].spec \in Execs \cup {NoExec}
             /\ exec[e].restarts \in 0..MaxReplanRounds
             /\ exec[e].queue \in Seq(Notes) /\ Len(exec[e].queue) <= MaxQueued
  <2>1. exec[e] \in Call /\ exec[e].queue \in Seq(Nat)
    BY <1>1 DEF Call
  <2>2. /\ exec[e].at \in {"none", "refused", "running", "asking", "ended"}
        /\ exec[e].mod \in 0..MaxModules /\ exec[e].spec \in Execs \cup {NoExec}
        /\ exec[e].restarts \in Nat
    BY <2>1 DEF Call
  <2>3. exec[e].restarts \in 0..MaxReplanRounds /\ Len(exec[e].queue) <= MaxQueued
    BY <2>2 DEF WithinBounds
  <2>4. exec[e].queue \in Seq(Notes)
    <3>1. PICK q \in Seq(Nat) : q = exec[e].queue
      BY <2>1
    <3>2. \A i \in 1..Len(q) : q[i] \in Notes
      BY <1>2, <3>1 DEF NotesInv, InQueue
    <3>3. q \in [1..Len(q) -> Nat] /\ Len(q) \in Nat
      BY SeqShape
    <3>4. q \in [1..Len(q) -> Notes]
      BY <3>2, <3>3
    <3>. QED BY <3>1, <3>3, <3>4, SeqMade
  <2>. QED BY <2>2, <2>3, <2>4
<1>6. note \in Seq([by : Execs, due : SUBSET Execs, fate : {"queued", "stored", "crowded", "unsaved", "forgotten", "late"}])
  BY <1>1 DEF Note, Fate
<1>7. DOMAIN exec = Execs
  BY <1>1
<1>. QED BY <1>4, <1>5, <1>6, <1>7 DEF ExtensionTypeOK, RunsInv, SessionType, WithinBounds, Histories

(* The state of every evaluation, call and note stays in its domain: in      *)
(* particular a queue is never over its limit, a run restarts no more often  *)
(* than replans are allowed, and a prompt holds accepted notes only          *)
(* (ActiveRun.push, MAX_QUEUED_INPUTS; maxReplanRounds).                     *)
THEOREM ExtensionTypeCorrect == ExtensionSpec => []ExtensionTypeOK
<1>1. RunsInv /\ NotesInv /\ WithinBounds /\ Histories /\ [ExtensionNext]_extensionVars => (WithinBounds /\ Histories)'
  BY StepBounds, StepHistories
<1>2. RunsInv /\ NotesInv /\ WithinBounds /\ Histories => ExtensionTypeOK
  BY BoundsType
<1>. QED BY RunsHold, InitBounds, <1>1, <1>2, PTL DEF ExtensionSpec

===============================================================================
