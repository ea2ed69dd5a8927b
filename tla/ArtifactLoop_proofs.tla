------------------------ MODULE ArtifactLoop_proofs ------------------------
(***************************************************************************)
(* Proofs about ArtifactLoop for every round cap, ceiling multiple,        *)
(* extension, fuse and budget: its types, the bound on its rounds, and     *)
(* that a resumed run replays each call in the context it was made in.     *)
(* TLC checks the same invariants on small values of them.                 *)
(***************************************************************************)
EXTENDS ArtifactLoop, TLAPS

Running == {"round"} \cup Calling
Fuse == AGENT_ERROR_FATAL_CONSECUTIVE

(* Why the rounds are bounded: until the one extension is used a loop runs *)
(* no round past its cap but the first fresh one, and the extension admits *)
(* one round more than that.                                               *)
RoundInv ==
  ctl \in Running =>
    /\ loop.writerErrors < Fuse /\ loop.reviewErrors < Fuse
    /\ loop.round <= Greater(Ceiling, loop.prior + 1) + 1
    /\ ~loop.extended => loop.round <= Greater(loop.cap, loop.prior + 1)

IInv == TypeOK /\ RoundInv

(* What the round counting does not look at may change freely.             *)
Carried(l) ==
  /\ l \in Locals
  /\ l.round = loop.round /\ l.prior = loop.prior
  /\ l.cap = loop.cap /\ l.extended = loop.extended

LEMMA CeilingType == Ceiling \in Nat
BY LoopAssumption DEF Ceiling

LEMMA CountType ==
  ASSUME TypeOK, NEW role \in Role
  PROVE  countStageRounds(role) \in Nat
<1> DEFINE good == {r.n : r \in {q \in rows : q.role = role /\ q.out # "error"}}
           top  == {n \in good : \A k \in good : k <= n}
<1>1. good \subseteq Nat
  BY DEF TypeOK, Row
<1>2. top \subseteq Nat
  BY <1>1
<1>3. CASE top = {}
  BY <1>3 DEF countStageRounds
<1>4. CASE top # {}
  <2>1. (CHOOSE n \in top : TRUE) \in top
    BY <1>4
  <2> QED BY <2>1, <1>2, <1>4 DEF countStageRounds
<1> QED BY <1>3, <1>4

LEMMA InitIInv == Init => IInv
<1> SUFFICES ASSUME Init PROVE IInv
  OBVIOUS
<1>1. EnterLoop(0, 0, 0) \in Locals
  BY LoopAssumption, CeilingType DEF EnterLoop, Locals, NoReading
<1>2. TypeOK
  <2>1. occ \in [Role -> Nat] /\ spent \in 0 .. MaxAgents /\ escal \in 0 .. ESCALATION_RETRY_CAP
    BY LoopAssumption DEF Init
  <2>2. ctl \in {"down", "enter", "round"} \cup Calling \cup Ended
    BY DEF Init
  <2>3. {ids, last, starts, reroutes, mishaps, detours} \subseteq Nat
    BY DEF Init
  <2>4. {guided, drifted, stale, struck} \subseteq BOOLEAN /\ torn \in BOOLEAN /\ segment \in BOOLEAN
    BY DEF Init
  <2>5. /\ rows \subseteq Row /\ cache \subseteq Row
        /\ \A r, q \in rows : r.role = q.role /\ r.n = q.n => r = q
    BY DEF Init
  <2>6. loop \in Locals
    BY <1>1 DEF Init
  <2> QED BY <2>1, <2>2, <2>3, <2>4, <2>5, <2>6 DEF TypeOK
<1>3. RoundInv
  BY DEF Init, RoundInv, Running, Calling
<1> QED BY <1>2, <1>3 DEF IInv

(* A call keeps both stores keyed: one row per role and occurrence.        *)
LEMMA StoredType ==
  ASSUME NEW store, store \subseteq Row, NEW row \in Row
  PROVE  /\ Stored(store, row) \subseteq Row
         /\ (\A r, q \in store : r.role = q.role /\ r.n = q.n => r = q)
              => \A r, q \in Stored(store, row) : r.role = q.role /\ r.n = q.n => r = q
BY DEF Stored, Keyed

LEMMA CallType ==
  ASSUME TypeOK, NEW role \in Role, NEW out \in WriterOut \cup ReviewOut, Call(role, out)
  PROVE  /\ rows' \subseteq Row /\ cache' \subseteq Row
         /\ \A r, q \in rows' : r.role = q.role /\ r.n = q.n => r = q
         /\ torn' \in BOOLEAN /\ segment' \in BOOLEAN
         /\ occ' \in [Role -> Nat] /\ spent' \in 0 .. MaxAgents
         /\ {ids', last', starts', reroutes', mishaps', detours'} \subseteq Nat
         /\ stale' \in BOOLEAN
<1> USE DEF TypeOK
<1>1. Occurrence(role) \in Nat
  BY DEF Occurrence
<1>2. occ' \in [Role -> Nat] /\ UNCHANGED <<segment, starts, reroutes>> /\ spent < MaxAgents
  BY <1>1 DEF Call
<1>3. CASE Replay(role, out)
  <2>1. PICK row \in Hits(role) :
          /\ last' = row.id /\ stale' = (stale \/ row.pred # last)
          /\ UNCHANGED <<rows, torn, cache, spent, ids, mishaps, detours>>
    BY <1>3 DEF Replay
  <2>2. row \in Row
    BY <2>1 DEF Hits, Keyed
  <2>3. last' \in Nat
    BY <2>1, <2>2 DEF Row
  <2>4. stale' \in BOOLEAN
    BY <2>1
  <2> QED BY <1>2, <2>1, <2>3, <2>4
<1>4. CASE Live(role, out)
  <2> DEFINE row == [role |-> role, n |-> Occurrence(role), id |-> ids + 1,
                     pred |-> last, out |-> out]
  <2>1. row \in Row
    BY <1>1 DEF Row
  <2>2. /\ detours' \in Nat /\ spent' \in 0 .. MaxAgents
        /\ ids' \in Nat /\ last' \in Nat
    BY <1>4, <1>2, LoopAssumption DEF Live
  <2>3. stale' \in BOOLEAN
    BY <1>4 DEF Live
  <2>4. CASE out = "dead"
    <3>1. mishaps' = mishaps + 1 /\ UNCHANGED <<rows, torn, cache>>
      BY <1>4, <2>4 DEF Live
    <3> QED BY <1>2, <2>2, <2>3, <3>1
  <2>5. CASE out # "dead"
    <3>1. Record(row)
      BY <2>5, <1>4 DEF Live
    <3>2. cache' = Stored(cache, row) /\ rows' \in {rows, Stored(rows, row)}
      BY <3>1 DEF Record, Appended
    <3>3. mishaps' \in {mishaps, mishaps + 1} /\ torn' \in {torn, TRUE, FALSE}
      BY <3>1 DEF Record
    <3>4. cache' \subseteq Row /\ rows' \subseteq Row
      BY <3>2, <2>1, StoredType
    <3>5. \A r, q \in rows' : r.role = q.role /\ r.n = q.n => r = q
      BY <3>2, <2>1, StoredType
    <3>6. mishaps' \in Nat
      BY <3>3
    <3>7. torn' \in BOOLEAN
      BY <3>3, Zenon
    <3> QED BY <3>4, <3>5, <3>6, <3>7, <1>2, <2>2, <2>3
  <2> QED BY <2>4, <2>5
<1> QED BY <1>3, <1>4 DEF Call

LEMMA SeenCarried ==
  ASSUME TypeOK, NEW role \in Role
  PROVE  /\ Carried(Seen(role))
         /\ Seen(role).writerErrors = loop.writerErrors
         /\ Seen(role).reviewErrors = loop.reviewErrors
<1> DEFINE isLive == Hits(role) = {}
           live == IF isLive THEN loop.live + 1 ELSE loop.live
           reviews == IF isLive /\ role = "review" THEN loop.liveReviews + 1 ELSE loop.liveReviews
<1>1. loop \in Locals
  BY DEF TypeOK
<1>2. live \in Nat /\ reviews \in Nat
  BY <1>1 DEF Locals
<1>3. Seen(role) = [loop EXCEPT !.live = live, !.liveReviews = reviews]
  BY <1>1 DEF Seen, Locals
<1> HIDE DEF live, reviews
<1> QED BY <1>1, <1>2, <1>3 DEF Carried, Locals

LEMMA WrittenCarried ==
  ASSUME TypeOK, last' \in Nat
  PROVE  /\ Carried(Written)
         /\ Written.writerErrors = loop.writerErrors
         /\ Written.reviewErrors = loop.reviewErrors
<1>1. /\ Carried(Seen("writer"))
      /\ Seen("writer").writerErrors = loop.writerErrors
      /\ Seen("writer").reviewErrors = loop.reviewErrors
  BY SeenCarried DEF Role
<1> QED BY <1>1 DEF Written, Carried, Locals

LEMMA ReviewedCarried ==
  ASSUME TypeOK
  PROVE  /\ Carried(Reviewed)
         /\ Reviewed.writerErrors = loop.writerErrors
         /\ Reviewed.reviewErrors = loop.reviewErrors
<1> DEFINE hits == Hits("review")
           saw == IF hits = {} THEN last ELSE (CHOOSE r \in hits : TRUE).pred
<1>1. /\ Carried(Seen("review"))
      /\ Seen("review").writerErrors = loop.writerErrors
      /\ Seen("review").reviewErrors = loop.reviewErrors
  BY SeenCarried DEF Role
<1>2. saw \in Nat
  <2>1. hits \subseteq Row
    BY DEF TypeOK, Hits, Keyed
  <2>2. CASE hits = {}
    BY <2>2 DEF TypeOK
  <2>3. CASE hits # {}
    <3>1. (CHOOSE r \in hits : TRUE) \in Row
      BY <2>1, <2>3
    <3> QED BY <3>1, <2>3 DEF Row
  <2> QED BY <2>2, <2>3
<1>3. Reviewed = [Seen("review") EXCEPT !.saw = saw]
  BY DEF Reviewed
<1> HIDE DEF saw
<1> QED BY <1>1, <1>2, <1>3 DEF Carried, Locals

LEMMA NoProgressCarried ==
  ASSUME TypeOK, NEW l, Carried(l)
  PROVE  /\ Carried(NoProgress(l))
         /\ NoProgress(l).writerErrors = l.writerErrors
         /\ NoProgress(l).reviewErrors = l.reviewErrors
<1>1. l \in Locals
  BY DEF Carried
<1>2. NoProgress(l) \in Locals
  <2> DEFINE m == [l EXCEPT !.prevOpen = 0]
  <2>1. 0 \in 0 .. 2
    OBVIOUS
  <2>2. m \in Locals
    BY <1>1, <2>1 DEF Locals
  <2>3. NoProgress(l) = [m EXCEPT !.lastOpen = 0]
    BY DEF NoProgress, NoReading
  <2> HIDE DEF m
  <2> QED BY <2>1, <2>2, <2>3 DEF Locals
<1> QED BY <1>1, <1>2 DEF Carried, NoProgress, Locals

(* A step that carries the round counters and stays below the fuse keeps   *)
(* the bound.                                                              *)
LEMMA CarriedKeeps ==
  ASSUME TypeOK, RoundInv, ctl \in Running, Carried(loop'),
         ctl' \in Running => loop'.writerErrors < Fuse /\ loop'.reviewErrors < Fuse
  PROVE  RoundInv'
BY DEF RoundInv, Carried, Greater, Ceiling

(* What a call's continuation must establish: the counters are carried,    *)
(* and the fuse has not blown while the loop goes on.                      *)
Lands ==
  /\ Carried(loop')
  /\ ctl' \in Running \cup Ended
  /\ ctl' \in Running => loop'.writerErrors < Fuse /\ loop'.reviewErrors < Fuse

LEMMA LandsKeeps ==
  ASSUME IInv, ctl \in Running, Lands, NEW role \in Role,
         NEW out \in WriterOut \cup ReviewOut, Call(role, out),
         {struck', guided', drifted'} \subseteq BOOLEAN, escal' \in 0 .. ESCALATION_RETRY_CAP
  PROVE  IInv'
<1>1. RoundInv'
  BY CarriedKeeps DEF IInv, Lands
<1>2. loop' \in Locals /\ ctl' \in {"down", "enter", "round"} \cup Calling \cup Ended
  BY DEF Lands, Carried, Running
<1>3. TypeOK'
  BY CallType, <1>2 DEF IInv, TypeOK
<1> QED BY <1>1, <1>3 DEF IInv

Below(l) == l.writerErrors < Fuse /\ l.reviewErrors < Fuse

LEMMA ReworkLands ==
  ASSUME TypeOK, NEW l, Carried(l), Below(l), Rework(l)
  PROVE  Lands
BY NoProgressCarried DEF Rework, Lands, Running, Below

LEMMA GatedLands ==
  ASSUME TypeOK, NEW l, Carried(l), Below(l), NEW out, Gated(l, out)
  PROVE  Lands /\ struck' \in BOOLEAN
<1> USE DEF Gated
<1>1. struck' \in BOOLEAN
  BY DEF TypeOK
<1>2. CASE Rework(l)
  BY <1>1, <1>2, ReworkLands
<1>3. CASE loop' = l /\ ctl' \in {"strike", "review"}
  BY <1>1, <1>3 DEF Lands, Running, Calling, Below
<1>4. CASE out \in Bounced /\ loop' = [l EXCEPT !.bounced = out] /\ ctl' = "bounce"
  <2>1. l \in Locals
    BY DEF Carried
  <2>2. loop' \in Locals
    BY <1>4, <2>1 DEF Locals
  <2>3. Carried(loop') /\ Below(loop')
    BY <1>4, <2>1, <2>2 DEF Carried, Below, Locals
  <2> QED BY <1>1, <1>4, <2>3 DEF Lands, Running, Calling, Below
<1> QED BY <1>2, <1>3, <1>4

LEMMA ExaminedLands ==
  ASSUME TypeOK, NEW l, Carried(l), Below(l), NEW out, Examined(l, out)
  PROVE  Lands /\ struck' \in BOOLEAN /\ drifted' \in BOOLEAN
<1>1. PICK seen \in Answers(out) : drifted' = (drifted \/ seen # out) /\ Gated(l, seen)
  BY DEF Examined
<1>2. Lands /\ struck' \in BOOLEAN
  BY <1>1, GatedLands
<1>3. drifted' \in BOOLEAN
  BY <1>1
<1> QED BY <1>2, <1>3

LEMMA ErrorsType ==
  ASSUME NEW n \in Nat, ctl' \in AfterError(n)
  PROVE  ctl' \in Running \cup Ended /\ (ctl' \in Running => n < Fuse)
BY DEF AfterError, Running, Calling, Ended, Fuse

LEMMA WriterErroredLands ==
  ASSUME TypeOK, NEW l, Carried(l), Below(l), WriterErrored(l)
  PROVE  Lands
<1> USE DEF Fuse
<1> DEFINE errors == IF Fresh THEN l.writerErrors + 1 ELSE l.writerErrors
           m == [l EXCEPT !.writerErrors = errors, !.liveErrors = @ + 1]
<1>1. l \in Locals
  BY DEF Carried
<1>2. errors \in Nat /\ errors <= Fuse
  BY <1>1, LoopAssumption DEF Locals, Below
<1>3. loop' = NoProgress(m) /\ ctl' \in AfterError(errors)
  BY DEF WriterErrored
<1>4. Carried(m) /\ m.writerErrors = errors /\ m.reviewErrors = l.reviewErrors
  <2>1. errors \in 0 .. Fuse
    BY <1>2, LoopAssumption
  <2>2. l.liveErrors + 1 \in Nat
    BY <1>1 DEF Locals
  <2> HIDE DEF errors
  <2>3. m = [l EXCEPT !.writerErrors = errors, !.liveErrors = l.liveErrors + 1]
    BY <1>1 DEF Locals
  <2> HIDE DEF m
  <2>4. m \in Locals
    BY <1>1, <2>1, <2>2, <2>3 DEF Locals
  <2> QED BY <1>1, <2>3, <2>4 DEF Carried, Locals
<1> HIDE DEF m, errors
<1>5. Carried(loop') /\ loop'.writerErrors = errors /\ loop'.reviewErrors = l.reviewErrors
  BY <1>3, <1>4, NoProgressCarried
<1> QED BY <1>2, <1>3, <1>5, ErrorsType DEF Lands, Below

LEMMA ReviewErroredLands ==
  ASSUME TypeOK, NEW l, Carried(l), Below(l), ReviewErrored(l)
  PROVE  Lands
<1> USE DEF Fuse
<1> DEFINE errors == IF Fresh THEN l.reviewErrors + 1 ELSE l.reviewErrors
           m == [l EXCEPT !.reviewErrors = errors]
<1>1. l \in Locals
  BY DEF Carried
<1>2. errors \in Nat /\ errors <= Fuse
  BY <1>1, LoopAssumption DEF Locals, Below
<1>3. loop' = NoProgress(m) /\ ctl' \in AfterError(errors)
  BY DEF ReviewErrored
<1>4. Carried(m) /\ m.reviewErrors = errors /\ m.writerErrors = l.writerErrors
  <2>1. errors \in 0 .. Fuse
    BY <1>2, LoopAssumption
  <2> HIDE DEF errors
  <2>4. m \in Locals
    BY <1>1, <2>1 DEF Locals
  <2> QED BY <1>1, <2>4 DEF Carried, Locals
<1> HIDE DEF m, errors
<1>5. Carried(loop') /\ loop'.reviewErrors = errors /\ loop'.writerErrors = l.writerErrors
  BY <1>3, <1>4, NoProgressCarried
<1> QED BY <1>2, <1>3, <1>5, ErrorsType DEF Lands, Below

LEMMA WriterCall ==
  ASSUME IInv, ctl \in Running, NEW out \in WriterOut, Call("writer", out)
  PROVE  Carried(Written) /\ Below(Written)
<1>1. last' \in Nat
  BY CallType DEF IInv, Role
<1> QED BY <1>1, WrittenCarried DEF IInv, RoundInv, Below

LEMMA WriteKeeps == IInv /\ Write => IInv'
<1> SUFFICES ASSUME IInv, Write PROVE IInv'
  OBVIOUS
<1>1. PICK out \in WriterOut :
        /\ Call("writer", out)
        /\ \/ out \in Mishap /\ WriterErrored(Written) /\ UNCHANGED <<struck, drifted>>
           \/ out \notin Mishap /\ Examined([Written EXCEPT !.writerErrors = 0, !.liveErrors = 0], out)
  BY DEF Write
<1>2. ctl \in Running /\ TypeOK /\ UNCHANGED <<escal, guided>>
  BY DEF IInv, Write, Running, Calling
<1>3. Carried(Written) /\ Below(Written)
  BY <1>1, <1>2, WriterCall
<1>4. Lands /\ struck' \in BOOLEAN /\ drifted' \in BOOLEAN
  <2>1. CASE WriterErrored(Written) /\ UNCHANGED <<struck, drifted>>
    BY <1>2, <1>3, <2>1, WriterErroredLands DEF TypeOK
  <2>2. CASE Examined([Written EXCEPT !.writerErrors = 0, !.liveErrors = 0], out)
    <3> DEFINE l == [Written EXCEPT !.writerErrors = 0, !.liveErrors = 0]
    <3>1. Written \in Locals
      BY <1>3 DEF Carried
    <3>2. 0 \in 0 .. Fuse /\ 0 < Fuse
      BY LoopAssumption DEF Fuse
    <3>3. l \in Locals
      BY <3>1, <3>2 DEF Locals, Fuse
    <3>4. Carried(l) /\ Below(l)
      BY <1>3, <3>1, <3>2, <3>3 DEF Carried, Below, Locals
    <3> HIDE DEF l
    <3> QED BY <1>2, <2>2, <3>4, ExaminedLands DEF l
  <2> QED BY <1>1, <2>1, <2>2
<1> QED BY <1>1, <1>2, <1>4, LandsKeeps DEF TypeOK, Role

LEMMA StrikeKeeps == IInv /\ Strike => IInv'
<1> SUFFICES ASSUME IInv, Strike PROVE IInv'
  OBVIOUS
<1>1. PICK out \in WriterOut :
        /\ Call("writer", out)
        /\ \/ out \in Mishap /\ Rework(Written) /\ UNCHANGED <<struck, drifted>>
           \/ out \notin Mishap /\ Examined(Written, out)
  BY DEF Strike
<1>2. ctl \in Running /\ TypeOK /\ UNCHANGED <<escal, guided>>
  BY DEF IInv, Strike, Running, Calling
<1>3. Carried(Written) /\ Below(Written)
  BY <1>1, <1>2, WriterCall
<1>4. Lands /\ struck' \in BOOLEAN /\ drifted' \in BOOLEAN
  BY <1>1, <1>2, <1>3, ReworkLands, ExaminedLands DEF TypeOK
<1> QED BY <1>1, <1>2, <1>4, LandsKeeps DEF TypeOK, Role

LEMMA BounceKeeps == IInv /\ Bounce => IInv'
<1> SUFFICES ASSUME IInv, Bounce PROVE IInv'
  OBVIOUS
<1>1. PICK out \in WriterOut :
        /\ Call("writer", out)
        /\ \/ loop' = Written /\ ctl' = "review" /\ UNCHANGED <<struck, drifted>>
           \/ out \in Mishap /\ Rework(Written) /\ UNCHANGED <<struck, drifted>>
           \/ out \notin Mishap /\ Examined(Written, out)
  BY DEF Bounce
<1>2. ctl \in Running /\ TypeOK /\ UNCHANGED <<escal, guided>>
  BY DEF IInv, Bounce, Running, Calling
<1>3. Carried(Written) /\ Below(Written)
  BY <1>1, <1>2, WriterCall
<1>4. Lands /\ struck' \in BOOLEAN /\ drifted' \in BOOLEAN
  <2>1. CASE loop' = Written /\ ctl' = "review" /\ UNCHANGED <<struck, drifted>>
    BY <1>2, <1>3, <2>1 DEF Lands, Below, Running, Calling, TypeOK
  <2> QED BY <1>1, <1>2, <1>3, <2>1, ReworkLands, ExaminedLands DEF TypeOK
<1> QED BY <1>1, <1>2, <1>4, LandsKeeps DEF TypeOK, Role

LEMMA RejectedLands ==
  ASSUME TypeOK, NEW l, Carried(l), Below(l), NEW out \in {"reject1", "reject2"}, Rejected(l, out)
  PROVE  /\ Lands /\ guided' \in BOOLEAN
         /\ escal' \in 0 .. ESCALATION_RETRY_CAP
<1> DEFINE read == IF FreshReading(l)
                   THEN [l EXCEPT !.prevOpen = l.lastOpen, !.lastOpen = Open(out), !.signature = out]
                   ELSE [NoProgress(l) EXCEPT !.signature = out]
<1>1. l \in Locals /\ out \in {"none"} \cup ReviewOut
  BY DEF Carried, ReviewOut
<1>2. Carried(read) /\ Below(read)
  <2>1. CASE FreshReading(l)
    <3>1. Open(out) \in 0 .. 2 /\ l.lastOpen \in 0 .. 2
      BY <1>1 DEF Open, Locals
    <3>2. read = [l EXCEPT !.prevOpen = l.lastOpen, !.lastOpen = Open(out), !.signature = out]
      BY <2>1
    <3> DEFINE a == [l EXCEPT !.prevOpen = l.lastOpen]
               b == [a EXCEPT !.lastOpen = Open(out)]
               c == [b EXCEPT !.signature = out]
    <3>3. Carried(a) /\ Below(a)
      <4>1. a \in Locals
        BY <1>1, <3>1 DEF Locals
      <4> QED BY <1>1, <4>1 DEF Carried, Below, Locals
    <3> HIDE DEF a
    <3>4. Carried(b) /\ Below(b)
      <4>1. b \in Locals
        BY <3>1, <3>3 DEF Carried, Locals
      <4> QED BY <3>3, <4>1 DEF Carried, Below, Locals
    <3> HIDE DEF b
    <3>5. Carried(c) /\ Below(c)
      <4>1. c \in Locals
        BY <1>1, <3>4 DEF Carried, Locals
      <4> QED BY <3>4, <4>1 DEF Carried, Below, Locals
    <3>6. read = c
      BY <3>2 DEF a, b
    <3> QED BY <3>5, <3>6
  <2>2. CASE ~FreshReading(l)
    <3> DEFINE m == NoProgress(l)
    <3>1. Carried(m) /\ Below(m)
      BY NoProgressCarried DEF Below
    <3>2. read = [m EXCEPT !.signature = out]
      BY <2>2
    <3> HIDE DEF m
    <3>3. [m EXCEPT !.signature = out] \in Locals
      BY <1>1, <3>1 DEF Carried, Locals
    <3> QED BY <3>1, <3>2, <3>3 DEF Carried, Below, Locals
  <2> QED BY <2>1, <2>2
<1>3. Carried([read EXCEPT !.signature = "none"]) /\ Below([read EXCEPT !.signature = "none"])
  <2> HIDE DEF read
  <2>1. [read EXCEPT !.signature = "none"] \in Locals
    BY <1>2 DEF Carried, Locals
  <2> QED BY <1>2, <2>1 DEF Carried, Below, Locals
<1>4. /\ loop' = read \/ loop' = [read EXCEPT !.signature = "none"]
      /\ ctl' \in {"round", "accepted", "fatal"}
      /\ guided' \in BOOLEAN
  BY DEF Rejected, TypeOK
<1>5. escal' \in 0 .. ESCALATION_RETRY_CAP
  BY LoopAssumption DEF Rejected, TypeOK
<1> HIDE DEF read
<1> QED BY <1>2, <1>3, <1>4, <1>5 DEF Lands, Below, Running, Calling, Ended

LEMMA ReviewKeeps == IInv /\ Review => IInv'
<1> SUFFICES ASSUME IInv, Review PROVE IInv'
  OBVIOUS
<1> DEFINE l == [Reviewed EXCEPT !.reviewErrors = 0, !.reviewRound = @ + 1]
<1>1. PICK out \in ReviewOut :
        /\ Call("review", out)
        /\ \/ out \in Mishap /\ ReviewErrored(Reviewed)
           \/ out \in {"reject1", "reject2"} /\ Rejected(l, out)
           \/ out = "upstream" /\ UpstreamOwned(l)
           \/ /\ out \in {"approve", "carried"}
              /\ loop' = l
              /\ ctl' = IF out = "approve" THEN "approved" ELSE "carried"
              /\ UNCHANGED <<escal, guided>>
  BY DEF Review
<1>2. ctl \in Running /\ TypeOK /\ struck' \in BOOLEAN /\ drifted' \in BOOLEAN
  BY DEF IInv, Review, Running, Calling, TypeOK
<1>3. Carried(Reviewed) /\ Below(Reviewed)
  BY <1>2, ReviewedCarried DEF IInv, RoundInv, Below
<1>4. Carried(l) /\ Below(l)
  <2>1. Reviewed \in Locals
    BY <1>3 DEF Carried
  <2>2. 0 \in 0 .. Fuse /\ 0 < Fuse /\ Reviewed.reviewRound + 1 \in Nat
    BY <2>1, LoopAssumption DEF Fuse, Locals
  <2>3. l = [Reviewed EXCEPT !.reviewErrors = 0, !.reviewRound = Reviewed.reviewRound + 1]
    BY <2>1 DEF Locals
  <2>4. l \in Locals
    BY <2>1, <2>2, <2>3 DEF Locals, Fuse
  <2> QED BY <1>3, <2>1, <2>2, <2>3, <2>4 DEF Carried, Below, Locals
<1> HIDE DEF l
<1>5. Lands /\ guided' \in BOOLEAN /\ escal' \in 0 .. ESCALATION_RETRY_CAP
  <2>1. CASE ReviewErrored(Reviewed)
    BY <1>2, <1>3, <2>1, ReviewErroredLands DEF ReviewErrored, TypeOK
  <2>2. CASE out \in {"reject1", "reject2"} /\ Rejected(l, out)
    BY <1>2, <1>4, <2>2, RejectedLands
  <2>3. CASE UpstreamOwned(l)
    <3>1. loop' = l /\ ctl' \in {"accepted", "routed", "fatal"} /\ guided' \in BOOLEAN
      BY <1>2, <2>3 DEF UpstreamOwned, TypeOK
    <3>2. escal' \in 0 .. ESCALATION_RETRY_CAP
      BY <1>2, <2>3, LoopAssumption DEF UpstreamOwned, TypeOK
    <3> QED BY <1>4, <3>1, <3>2 DEF Lands, Below, Running, Calling, Ended
  <2>4. CASE /\ loop' = l
             /\ ctl' = IF out = "approve" THEN "approved" ELSE "carried"
             /\ UNCHANGED <<escal, guided>>
    BY <1>2, <1>4, <2>4 DEF Lands, Below, Running, Calling, Ended, TypeOK
  <2> QED BY <1>1, <2>1, <2>2, <2>3, <2>4
<1> QED BY <1>1, <1>2, <1>5, LandsKeeps DEF Role

LEMMA NextRoundKeeps == IInv /\ NextRound => IInv'
<1> SUFFICES ASSUME IInv, NextRound PROVE IInv'
  OBVIOUS
<1> DEFINE r == loop.round + 1
           l == [loop EXCEPT !.round = r, !.judged = @ \/ r = loop.cap - 1]
<1>1. /\ ctl = "round" /\ loop \in Locals
      /\ r \in Nat /\ loop.prior \in Nat /\ loop.cap \in Nat /\ loop.cap <= Ceiling
  BY CeilingType DEF IInv, TypeOK, NextRound, Locals
<1>2. /\ loop.writerErrors < Fuse /\ loop.reviewErrors < Fuse
      /\ loop.round <= Greater(Ceiling, loop.prior + 1) + 1
      /\ ~loop.extended => loop.round <= Greater(loop.cap, loop.prior + 1)
  BY <1>1 DEF IInv, RoundInv, Running
<1>3. /\ l \in Locals /\ l.round = r /\ l.prior = loop.prior /\ l.cap = loop.cap
      /\ l.extended = loop.extended /\ Below(l)
  <2> DEFINE j == (loop.judged \/ r = loop.cap - 1)
  <2>1. j \in BOOLEAN
    BY <1>1 DEF Locals
  <2>2. l = [loop EXCEPT !.round = r, !.judged = j]
    BY <1>1 DEF Locals
  <2> HIDE DEF j, r
  <2>3. l \in Locals
    BY <1>1, <2>1, <2>2 DEF Locals
  <2> QED BY <1>1, <1>2, <2>2, <2>3 DEF Below, Locals
<1>4. CASE ~PastCap(r) /\ loop' = l /\ ctl' = "write"
  <2>1. TypeOK'
    BY <1>3, <1>4 DEF NextRound, IInv, TypeOK, disk, proc, hist, Calling
  <2>2. RoundInv'
    <3>1. r <= Greater(loop.cap, loop.prior + 1) /\ r <= Greater(Ceiling, loop.prior + 1) + 1
      BY <1>1, <1>4, CeilingType DEF PastCap, Greater
    <3>2. Ceiling' = Ceiling
      BY DEF Ceiling
    <3> HIDE DEF l, r
    <3> QED BY <1>3, <1>4, <3>1, <3>2 DEF RoundInv, Greater, Below
  <2> QED BY <2>1, <2>2 DEF IInv
<1>5. CASE /\ PastCap(r) /\ StrictProgress
           /\ loop' = [l EXCEPT !.extended = TRUE, !.cap = extendedRoundCap(@)]
           /\ ctl' = "write"
  <2> DEFINE c == extendedRoundCap(loop.cap)
  <2>1. c \in 0 .. Ceiling
    BY <1>1, CeilingType, LoopAssumption DEF extendedRoundCap, Lesser
  <2>2. loop' = [l EXCEPT !.extended = TRUE, !.cap = c]
    BY <1>3, <1>5 DEF Locals
  <2> HIDE DEF c, l
  <2>3. loop' \in Locals
    BY <1>3, <2>1, <2>2 DEF Locals
  <2>4. loop'.round = r /\ loop'.prior = loop.prior /\ loop'.extended /\ Below(loop')
    BY <1>3, <2>2 DEF Locals, Below
  <2>5. TypeOK'
    BY <1>5, <2>3 DEF NextRound, IInv, TypeOK, disk, proc, hist, Calling
  <2>6. ~loop.extended
    BY <1>5 DEF StrictProgress
  <2>7. RoundInv'
    <3>1. r <= Greater(Ceiling, loop.prior + 1) + 1
      <4>1. loop.round \in Nat /\ loop.round <= Greater(loop.cap, loop.prior + 1)
        BY <1>1, <1>2, <2>6 DEF Locals
      <4> QED BY <1>1, <4>1, CeilingType DEF Greater
    <3>2. Ceiling' = Ceiling
      BY DEF Ceiling
    <3> HIDE DEF r
    <3> QED BY <2>4, <3>1, <3>2 DEF RoundInv, Greater, Below
  <2> QED BY <2>5, <2>7 DEF IInv
<1>6. CASE loop' = l /\ ctl' \in {"capfatal", "routed"}
  <2>1. TypeOK'
    BY <1>3, <1>6 DEF NextRound, IInv, TypeOK, disk, proc, hist, Ended
  <2>2. RoundInv'
    BY <1>6 DEF RoundInv, Running, Calling
  <2> QED BY <2>1, <2>2 DEF IInv
<1> QED BY <1>4, <1>5, <1>6 DEF NextRound

LEMMA EnterKeeps == IInv /\ Enter => IInv'
<1> SUFFICES ASSUME IInv, Enter PROVE IInv'
  OBVIOUS
<1> DEFINE prior == countStageRounds("writer")
           review == countStageRounds("review")
           cap == effectiveRoundCap(IF segment THEN 0 ELSE prior)
<1>1. prior \in Nat /\ review \in Nat
  BY CountType DEF IInv, Role
<1>2. cap \in 0 .. Ceiling
  BY <1>1, CeilingType, LoopAssumption DEF effectiveRoundCap, Lesser
<1>3. loop' = EnterLoop(prior, review, cap) /\ ctl' = "round" /\ UNCHANGED <<disk, proc, hist>>
  BY DEF Enter
<1> HIDE DEF prior, review, cap
<1>4. loop' \in Locals
  BY <1>1, <1>2, <1>3, LoopAssumption DEF EnterLoop, Locals, NoReading
<1>5. TypeOK'
  BY <1>3, <1>4 DEF IInv, TypeOK, disk, proc, hist
<1>6. RoundInv'
  <2>1. /\ loop'.round = 0 /\ loop'.prior = prior /\ loop'.cap = cap
        /\ loop'.writerErrors = 0 /\ loop'.reviewErrors = 0
    BY <1>3 DEF EnterLoop
  <2>2. Ceiling' = Ceiling
    BY DEF Ceiling
  <2> QED BY <1>1, <1>2, <2>1, <2>2, CeilingType, LoopAssumption DEF RoundInv, Greater, Fuse
<1> QED BY <1>5, <1>6 DEF IInv

(* The steps that leave the round, and those that leave the locals alone.  *)
LEMMA OutsideKeeps ==
  ASSUME IInv, Boot \/ Stop \/ Reroute \/ BudgetExhausted \/ JudgeEscalates \/ Refused
  PROVE  IInv'
<1> USE DEF IInv, TypeOK, disk, proc, hist
<1>1. CASE Boot
  <2>1. spent' \in 0 .. MaxAgents /\ escal' \in 0 .. ESCALATION_RETRY_CAP
    BY <1>1, LoopAssumption DEF Boot
  <2>2. occ' \in [Role -> Nat]
    BY <1>1 DEF Boot
  <2>3. {ids', last', starts', reroutes', mishaps', detours'} \subseteq Nat
    BY <1>1 DEF Boot
  <2>4. UNCHANGED <<rows, torn, segment, loop, guided, drifted, stale>> /\ cache' = rows
        /\ struck' = FALSE /\ ctl' = "enter"
    BY <1>1 DEF Boot
  <2>5. TypeOK'
    BY <2>1, <2>2, <2>3, <2>4
  <2>6. RoundInv'
    BY <1>1 DEF Boot, RoundInv, Running, Calling
  <2> QED BY <2>5, <2>6
<1>2. CASE Stop
  <2>1. TypeOK'
    BY <1>2 DEF Stop
  <2>2. RoundInv'
    BY <1>2 DEF Stop, RoundInv, Running, Calling
  <2> QED BY <2>1, <2>2
<1>3. CASE Reroute
  <2>1. segment' \in BOOLEAN
    BY <1>3 DEF Reroute
  <2>2. {ids', last', starts', reroutes', mishaps', detours'} \subseteq Nat
    BY <1>3 DEF Reroute
  <2>3. rows' = {} /\ torn' = FALSE /\ ctl' = "enter" /\ UNCHANGED <<proc, loop, guided, drifted, stale>>
    BY <1>3 DEF Reroute
  <2>4. TypeOK'
    BY <2>1, <2>2, <2>3
  <2>5. RoundInv'
    BY <1>3 DEF Reroute, RoundInv, Running, Calling
  <2> QED BY <2>4, <2>5
<1>4. CASE BudgetExhausted \/ JudgeEscalates
  <2>1. TypeOK'
    BY <1>4 DEF BudgetExhausted, JudgeEscalates, Ended
  <2>2. RoundInv'
    BY <1>4 DEF BudgetExhausted, JudgeEscalates, RoundInv, Running, Calling
  <2> QED BY <2>1, <2>2
<1>5. CASE Refused
  <2>1. Carried(loop)
    BY DEF Carried
  <2>2. Carried(loop') /\ loop'.writerErrors = loop.writerErrors /\ loop'.reviewErrors = loop.reviewErrors
    BY <1>5, <2>1, NoProgressCarried DEF Refused
  <2>3. TypeOK'
    BY <1>5, <2>2 DEF Refused, Carried
  <2>4. ctl \in Running
    BY <1>5 DEF Refused, Running
  <2>5. RoundInv'
    <3>1. loop'.writerErrors < Fuse /\ loop'.reviewErrors < Fuse
      BY <2>2, <2>4 DEF RoundInv
    <3> QED BY <2>2, <2>4, <3>1, CarriedKeeps
  <2> QED BY <2>3, <2>5
<1> QED BY <1>1, <1>2, <1>3, <1>4, <1>5

LEMMA NextIInv == IInv /\ [Next]_vars => IInv'
<1> SUFFICES ASSUME IInv, [Next]_vars PROVE IInv'
  OBVIOUS
<1>1. CASE Next
  BY <1>1, EnterKeeps, OutsideKeeps, NextRoundKeeps, WriteKeeps, StrikeKeeps, BounceKeeps, ReviewKeeps
     DEF Next
<1>2. CASE UNCHANGED vars
  <2>1. TypeOK'
    BY <1>2 DEF vars, disk, proc, hist, IInv, TypeOK
  <2>2. RoundInv'
    <3>1. Ceiling' = Ceiling
      BY DEF Ceiling
    <3> QED BY <1>2, <3>1 DEF vars, IInv, RoundInv, Greater
  <2> QED BY <2>1, <2>2 DEF IInv
<1> QED BY <1>1, <1>2

(* The convergence loop stays well typed whatever the agents answer, at    *)
(* every round cap, fuse and budget.                                       *)
THEOREM TypeCorrect == Spec => []TypeOK
<1>1. IInv => TypeOK
  BY DEF IInv
<1> QED BY <1>1, InitIInv, NextIInv, PTL DEF Spec

(* rounds.ts:10-13: replayed and fresh rounds together stay below the      *)
(* ceiling, but for the one fresh round and the one extension round, at    *)
(* every round cap, multiple and extension.                                *)
THEOREM Bounded == Spec => []RoundsBounded
<1>1. IInv => RoundsBounded
  BY DEF IInv, RoundInv, RoundsBounded, Running
<1> QED BY <1>1, InitIInv, NextIInv, PTL DEF Spec
-----------------------------------------------------------------------------
(* Why a resumed run replays its calls in their context.  On an undisturbed *)
(* track the rows are one chain, each computed from the one before it, and  *)
(* which role calls next is decided by the answers so far: the walk of a    *)
(* resumed process can only follow the chain, so its occurrence counters    *)
(* find the next link or nothing.                                           *)

(* The walk's one bounce: the first answer that a gate bounced.             *)
FirstBounce(r) == r.out \in Bounced /\ \A q \in rows : q.id < r.id => q.out \notin Bounced

(* A bounce after validation is answered by whatever the writer says next.  *)
AfterBounce(r) == \E q \in rows : q.id + 1 = r.id /\ q.out = "bounce" /\ FirstBounce(q)

NextRole(r) ==
  IF /\ r.role = "writer"
     /\ r.out = "valid" \/ AfterBounce(r) \/ (r.out \in Bounced /\ ~FirstBounce(r))
  THEN "review" ELSE "writer"

Due(k, role) ==
  \/ k = 0 /\ role = "writer"
  \/ \E r \in rows : r.id = k /\ role = NextRole(r)

Chain ==
  /\ \A r \in rows : /\ r.id \in 1 .. ids /\ r.pred + 1 = r.id
                     /\ r.out \in Outcomes(r.role) \ Mishap
                     /\ Due(r.pred, r.role)
  /\ \A k \in 1 .. ids : \E r \in rows : r.id = k
  /\ \A r, q \in rows : r.id = q.id => r = q

Counted ==
  /\ \A r \in rows : r.n > 0 /\ \A j \in 1 .. r.n - 1 : \E q \in rows : q.role = r.role /\ q.n = j
  /\ \A r, q \in rows : r.role = q.role => (r.n < q.n <=> r.id < q.id)

(* How far along the chain the process is.                                  *)
Along ==
  /\ cache = rows /\ last \in 0 .. ids
  /\ \A role \in Role :
       /\ \A r \in rows : r.role = role /\ r.id <= last => r.n <= occ[role]
       /\ occ[role] = 0 \/ \E r \in rows : r.role = role /\ r.id <= last /\ r.n = occ[role]

BouncedOnce ==
  IF loop.bounced = "no" THEN \A r \in rows : r.id <= last => r.out \notin Bounced
  ELSE \E r \in rows : r.id <= last /\ FirstBounce(r) /\ r.out = loop.bounced

AtBounce == \E r \in rows : r.id = last /\ FirstBounce(r)

Placed ==
  /\ ctl = "enter" => Along /\ last = 0
  /\ ctl \in Calling => Along /\ BouncedOnce
  /\ ctl = "round" /\ spent < MaxAgents => Along /\ BouncedOnce /\ ~AtBounce /\ Due(last, "writer")
  /\ ctl \in {"write", "strike"} => ~AtBounce /\ Due(last, "writer")
  /\ ctl = "bounce" => AtBounce /\ Due(last, "writer")
  /\ ctl = "review" => ~AtBounce /\ Due(last, "review")

Replays == ~stale /\ Chain /\ Counted /\ Placed
ReplayInv == Undisturbed => Replays

LEMMA DueUnique ==
  ASSUME TypeOK, Chain, NEW k \in Nat, NEW a, NEW b, Due(k, a), Due(k, b)
  PROVE  a = b
<1>1. \A r \in rows : r.id \in Nat /\ r.id > 0
  BY DEF Chain, TypeOK, Row
<1>2. CASE k = 0
  BY <1>1, <1>2 DEF Due
<1>3. CASE k # 0
  <2>1. PICK r \in rows : r.id = k /\ a = NextRole(r)
    BY <1>3 DEF Due
  <2>2. PICK q \in rows : q.id = k /\ b = NextRole(q)
    BY <1>3 DEF Due
  <2>3. r = q
    BY <2>1, <2>2 DEF Chain
  <2> QED BY <2>1, <2>2, <2>3
<1> QED BY <1>2, <1>3

(* The next link of the chain, if it is recorded, is the row that the       *)
(* occurrence counter of the role that is due points at.                    *)
LEMMA NextLink ==
  ASSUME TypeOK, Chain, Counted, Along, NEW role \in Role, Due(last, role), last < ids
  PROVE  \E q \in Hits(role) : q.id = last + 1
<1>1. last \in Nat /\ ids \in Nat /\ occ \in [Role -> Nat] /\ rows \subseteq Row
  BY DEF TypeOK
<1>2. PICK q \in rows : q.id = last + 1
  BY <1>1 DEF Chain
<1>3. q.pred = last /\ q.out # "error" /\ q \in Row
  BY <1>1, <1>2 DEF Chain, Row, Mishap
<1>4. q.role = role
  <2>1. Due(last, q.role)
    BY <1>3 DEF Chain
  <2> QED BY <1>1, <2>1, DueUnique
<1>5. q.n \in Nat /\ occ[role] \in Nat
  BY <1>1, <1>3 DEF Row
<1>6. q.n > occ[role]
  <2>1. CASE occ[role] = 0
    BY <1>5, <2>1 DEF Counted
  <2>2. CASE occ[role] # 0
    <3>1. PICK r \in rows : r.role = role /\ r.id <= last /\ r.n = occ[role]
      BY <2>2 DEF Along
    <3>2. r.id < q.id
      BY <1>1, <1>2, <3>1 DEF Row
    <3> QED BY <1>4, <3>1, <3>2 DEF Counted
  <2> QED BY <2>1, <2>2
<1>7. q.n = occ[role] + 1
  <2> SUFFICES ASSUME q.n > occ[role] + 1 PROVE FALSE
    BY <1>5, <1>6
  <2>1. PICK r \in rows : r.role = q.role /\ r.n = occ[role] + 1
    <3>1. occ[role] + 1 \in 1 .. q.n - 1
      BY <1>5
    <3> QED BY <3>1 DEF Counted
  <2>2. r.n < q.n
    BY <2>1
  <2>3. r.id < q.id /\ r.id \in Nat
    BY <1>1, <2>1, <2>2 DEF Counted, Row
  <2>4. r.n <= occ[role]
    BY <1>1, <1>2, <1>4, <2>1, <2>3 DEF Along
  <2> QED BY <1>5, <2>1, <2>4
<1> QED BY <1>2, <1>3, <1>4, <1>7 DEF Hits, Keyed, Occurrence, Along

LEMMA NoLink ==
  ASSUME TypeOK, Chain, Along, NEW role \in Role, last = ids
  PROVE  Keyed(rows, role, Occurrence(role)) = {}
<1> SUFFICES ASSUME NEW h \in Keyed(rows, role, Occurrence(role)) PROVE FALSE
  OBVIOUS
<1>1. h \in rows /\ h.role = role /\ h.n = occ[role] + 1 /\ occ[role] \in Nat
  BY DEF Keyed, Occurrence, TypeOK
<1>2. h.id <= last
  BY <1>1 DEF Chain
<1>3. h.n <= occ[role]
  BY <1>1, <1>2 DEF Along
<1> QED BY <1>1, <1>3

(* What a call does to the chain: it is one link further along, and what    *)
(* came before is as it was.                                                *)
Advanced(role, out) ==
  /\ ~stale' /\ Chain' /\ Counted' /\ Along'
  /\ last' = last + 1 /\ out \in Outcomes(role) \ Mishap
  /\ \E r \in rows' : r.id = last' /\ r.role = role /\ r.out = out
  /\ rows \subseteq rows'
  /\ \A r \in rows' : r.id <= last => r \in rows
  /\ \A r \in rows : FirstBounce(r)' <=> FirstBounce(r)

LEMMA ReplayAdvances ==
  ASSUME TypeOK, ~stale, Chain, Counted, Along, NEW role \in Role, Due(last, role), NEW out,
         occ' = [occ EXCEPT ![role] = Occurrence(role)], Replay(role, out)
  PROVE  Advanced(role, out)
<1>1. last \in Nat /\ ids \in Nat /\ occ \in [Role -> Nat] /\ rows \subseteq Row
  BY DEF TypeOK
<1>2. PICK h \in Hits(role) :
        /\ out = h.out /\ last' = h.id /\ stale' = (stale \/ h.pred # last)
        /\ UNCHANGED <<rows, torn, cache, spent, ids, mishaps, detours>>
  BY DEF Replay
<1>3. h \in rows /\ h.role = role /\ h.n = occ[role] + 1 /\ h \in Row
  BY <1>1 DEF Hits, Keyed, Occurrence, Along
<1>4. last < ids
  <2>1. last # ids
    BY <1>3, NoLink DEF Keyed, Occurrence
  <2> QED BY <1>1, <2>1 DEF Along
<1>5. PICK q \in Hits(role) : q.id = last + 1
  BY <1>4, NextLink
<1>6. h = q
  BY <1>3 DEF Hits, Keyed, Occurrence, Along, TypeOK
<1>7. h.id = last + 1 /\ h.pred = last
  BY <1>1, <1>3, <1>5, <1>6 DEF Chain, Row
<1>8. ~stale' /\ last' = last + 1
  BY <1>2, <1>7
<1>9. Chain' /\ Counted' /\ \A r \in rows : FirstBounce(r)' <=> FirstBounce(r)
  BY <1>2 DEF Chain, Counted, FirstBounce, Due, NextRole, AfterBounce
<1>10. Along'
  <2>1. cache' = rows' /\ last' \in 0 .. ids'
    BY <1>1, <1>2, <1>4, <1>8 DEF Along
  <2>2. ASSUME NEW a \in Role
        PROVE  /\ \A r \in rows' : r.role = a /\ r.id <= last' => r.n <= occ'[a]
               /\ occ'[a] = 0 \/ \E r \in rows' : r.role = a /\ r.id <= last' /\ r.n = occ'[a]
    <3>1. \A r \in rows : r.id <= last' => r.id <= last \/ r = h
      <4>1. \A r \in rows : r.id \in Nat
        BY <1>1 DEF Row
      <4>2. \A r \in rows : r.id = h.id => r = h
        BY <1>3 DEF Chain
      <4> QED BY <1>1, <1>7, <1>8, <4>1, <4>2
    <3>2. CASE a = role
      <4>1. occ'[a] = occ[role] + 1 /\ occ[role] \in Nat
        BY <1>1, <3>2 DEF Occurrence
      <4>2. \A r \in rows : r.role = a /\ r.id <= last' => r.n <= occ'[a]
        <5>1. \A r \in rows : r.role = a /\ r.id <= last => r.n <= occ[role] /\ r.n \in Nat
          BY <1>1, <3>2 DEF Along, Row
        <5> QED BY <1>3, <3>1, <4>1, <5>1
      <4>3. h.role = a /\ h.id <= last' /\ h.n = occ'[a]
        BY <1>3, <1>7, <1>8, <1>1, <3>2, <4>1
      <4> QED BY <1>2, <1>3, <4>2, <4>3
    <3>3. CASE a # role
      <4>1. occ'[a] = occ[a]
        BY <1>1, <3>3
      <4>2. \A r \in rows : r.role = a /\ r.id <= last' => r.n <= occ'[a]
        BY <1>3, <3>1, <3>3, <4>1 DEF Along
      <4>3. \A r \in rows : r.id <= last => r.id <= last'
        BY <1>1, <1>8 DEF Row
      <4> QED BY <1>2, <4>1, <4>2, <4>3 DEF Along
    <3> QED BY <3>2, <3>3
  <2> QED BY <2>1, <2>2 DEF Along
<1>11. out \in Outcomes(role) \ Mishap
  BY <1>2, <1>3 DEF Chain
<1>12. \E r \in rows' : r.id = last' /\ r.role = role /\ r.out = out
  BY <1>2, <1>3
<1> QED BY <1>2, <1>8, <1>9, <1>10, <1>11, <1>12 DEF Advanced

LEMMA LiveAdvances ==
  ASSUME TypeOK, ~stale, Chain, Counted, Along, NEW role \in Role, Due(last, role), NEW out,
         mishaps = 0, mishaps' = 0,
         occ' = [occ EXCEPT ![role] = Occurrence(role)], Live(role, out)
  PROVE  Advanced(role, out)
<1>1. last \in Nat /\ ids \in Nat /\ occ \in [Role -> Nat] /\ rows \subseteq Row
  BY DEF TypeOK
<1>2. out \in Outcomes(role) \ Mishap /\ out # "dead"
  <2>1. mishaps' # mishaps + 1
    OBVIOUS
  <2>2. out # "dead"
    BY <2>1 DEF Live
  <2>3. out \notin Mishap
    <3>1. ASSUME NEW row, Record(row) PROVE row.out \notin Mishap
      BY <2>1, <3>1 DEF Record
    <3>2. Record([role |-> role, n |-> Occurrence(role), id |-> ids + 1, pred |-> last, out |-> out])
      BY <2>2 DEF Live
    <3> QED BY <3>1, <3>2
  <2> QED BY <2>2, <2>3 DEF Live
<1>3. last = ids
  <2>1. Hits(role) = {}
    BY DEF Live
  <2>2. ~ last < ids
    BY <2>1, NextLink
  <2> QED BY <1>1, <2>2 DEF Along
<1>0. PICK row : row = [role |-> role, n |-> Occurrence(role), id |-> ids + 1, pred |-> last, out |-> out]
  OBVIOUS
<1>4. /\ cache' = Stored(cache, row) /\ rows' = Stored(rows, row)
      /\ ids' = ids + 1 /\ last' = ids + 1 /\ stale' = stale
  <2>1. Record(row) /\ ids' = ids + 1 /\ last' = ids + 1 /\ stale' = stale
    BY <1>0, <1>2 DEF Live
  <2>2. mishaps' # mishaps + 1
    OBVIOUS
  <2> QED BY <2>1, <2>2 DEF Record, Appended
<1>5. /\ row.role = role /\ row.n = occ[role] + 1 /\ row.id = ids + 1
      /\ row.pred = ids /\ row.out = out
  BY <1>0, <1>3 DEF Occurrence
<1>6. rows' = rows \cup {row} /\ cache' = rows'
  <2>1. Keyed(rows, role, Occurrence(role)) = {}
    BY <1>3, NoLink
  <2> QED BY <1>4, <1>5, <2>1 DEF Stored, Along, Occurrence
<1>7. \A r \in rows : r.id \in Nat /\ r.id > 0 /\ r.id <= ids /\ r.n \in Nat
  BY <1>1 DEF Chain, Row
<1>8. \A r \in rows : FirstBounce(r)' <=> FirstBounce(r)
  <2> SUFFICES ASSUME NEW r \in rows PROVE FirstBounce(r)' <=> FirstBounce(r)
    OBVIOUS
  <2>1. ~ row.id < r.id
    BY <1>1, <1>5, <1>7
  <2> QED BY <1>6, <2>1 DEF FirstBounce
<1>9. \A r \in rows : NextRole(r)' = NextRole(r)
  <2> SUFFICES ASSUME NEW r \in rows PROVE NextRole(r)' = NextRole(r)
    OBVIOUS
  <2>1. row.id + 1 # r.id
    BY <1>1, <1>5, <1>7
  <2>2. AfterBounce(r)' <=> AfterBounce(r)
    BY <1>6, <1>8, <2>1 DEF AfterBounce
  <2> QED BY <1>8, <2>2 DEF NextRole
<1>10. \A k, a : Due(k, a) => Due(k, a)'
  BY <1>6, <1>9 DEF Due
<1>11. Chain'
  <2>1. \A r \in rows : /\ r.id \in 1 .. ids' /\ r.pred + 1 = r.id
                        /\ r.out \in Outcomes(r.role) \ Mishap /\ Due(r.pred, r.role)'
    BY <1>1, <1>4, <1>7, <1>10 DEF Chain
  <2>2. /\ row.id \in 1 .. ids' /\ row.pred + 1 = row.id
        /\ row.out \in Outcomes(row.role) \ Mishap /\ Due(row.pred, row.role)'
    <3>1. Due(row.pred, row.role)'
      <4>1. Due(row.pred, row.role)
        BY <1>3, <1>5
      <4> QED BY <1>10, <4>1
    <3> QED BY <1>1, <1>2, <1>3, <1>4, <1>5, <3>1
  <2>3. \A k \in 1 .. ids' : \E r \in rows' : r.id = k
    <3>1. \A k \in 1 .. ids' : k \in 1 .. ids \/ k = ids + 1
      BY <1>1, <1>4
    <3>2. \A k \in 1 .. ids : \E r \in rows : r.id = k
      BY DEF Chain
    <3> QED BY <1>5, <1>6, <3>1, <3>2
  <2>4. \A r, q \in rows' : r.id = q.id => r = q
    <3>1. \A r \in rows : r.id # row.id
      BY <1>1, <1>5, <1>7
    <3>2. \A r, q \in rows : r.id = q.id => r = q
      BY DEF Chain
    <3> QED BY <1>6, <3>1, <3>2
  <2> QED BY <1>6, <2>1, <2>2, <2>3, <2>4 DEF Chain
<1>12. \A r \in rows : r.role = role => r.n <= occ[role]
  BY <1>3, <1>7 DEF Along
<1>13. occ[role] \in Nat /\ occ'[role] = occ[role] + 1 /\ \A a \in Role : a # role => occ'[a] = occ[a]
  BY <1>1 DEF Occurrence
<1>14. Counted'
  <2>1. \A j \in 1 .. row.n - 1 : \E q \in rows : q.role = role /\ q.n = j
    <3> SUFFICES ASSUME NEW j \in 1 .. occ[role] PROVE \E q \in rows : q.role = role /\ q.n = j
      BY <1>5, <1>13
    <3>1. PICK p \in rows : p.role = role /\ p.n = occ[role]
      BY <1>13 DEF Along
    <3>2. CASE j = occ[role]
      BY <3>1, <3>2
    <3>3. CASE j # occ[role]
      <4>1. j \in 1 .. p.n - 1
        BY <1>13, <3>1, <3>3
      <4> QED BY <3>1, <4>1 DEF Counted
    <3> QED BY <3>2, <3>3
  <2>2. \A r \in rows' : r.n > 0 /\ \A j \in 1 .. r.n - 1 : \E q \in rows' : q.role = r.role /\ q.n = j
    <3>1. row.n > 0
      BY <1>5, <1>13
    <3>2. \A j \in 1 .. row.n - 1 : \E q \in rows' : q.role = row.role /\ q.n = j
      BY <1>5, <1>6, <2>1
    <3>3. \A r \in rows : r.n > 0 /\ \A j \in 1 .. r.n - 1 : \E q \in rows' : q.role = r.role /\ q.n = j
      BY <1>6 DEF Counted
    <3> QED BY <1>6, <3>1, <3>2, <3>3
  <2>3. \A r \in rows : r.role = row.role => r.n < row.n /\ r.id < row.id /\ ~ row.n < r.n /\ ~ row.id < r.id
    BY <1>1, <1>5, <1>7, <1>12, <1>13
  <2>4. ~ row.n < row.n /\ ~ row.id < row.id
    BY <1>1, <1>5, <1>13
  <2>5. \A r, q \in rows' : r.role = q.role => (r.n < q.n <=> r.id < q.id)
    BY <1>6, <2>3, <2>4 DEF Counted
  <2> QED BY <2>2, <2>5 DEF Counted
<1>15. Along'
  <2>1. cache' = rows' /\ last' \in 0 .. ids'
    BY <1>1, <1>4, <1>6
  <2>2. ASSUME NEW a \in Role
        PROVE  /\ \A r \in rows' : r.role = a /\ r.id <= last' => r.n <= occ'[a]
               /\ occ'[a] = 0 \/ \E r \in rows' : r.role = a /\ r.id <= last' /\ r.n = occ'[a]
    <3>1. CASE a = role
      <4>1. \A r \in rows : r.role = a => r.n <= occ'[a]
        BY <1>7, <1>12, <1>13, <3>1
      <4>2. row.n <= occ'[a] /\ row.role = a /\ row.id <= last' /\ row.n = occ'[a]
        BY <1>1, <1>4, <1>5, <1>13, <3>1
      <4> QED BY <1>6, <4>1, <4>2
    <3>2. CASE a # role
      <4>1. occ'[a] = occ[a] /\ row.role # a
        BY <1>5, <1>13, <3>2
      <4>2. \A r \in rows : r.id <= last /\ r.id <= last'
        BY <1>1, <1>3, <1>4, <1>7
      <4>3. /\ \A r \in rows : r.role = a => r.n <= occ[a]
            /\ occ[a] = 0 \/ \E r \in rows : r.role = a /\ r.n = occ[a]
        BY <4>2 DEF Along
      <4> QED BY <1>6, <4>1, <4>2, <4>3
    <3> QED BY <3>1, <3>2
  <2> QED BY <2>1, <2>2 DEF Along
<1>16. \E r \in rows' : r.id = last' /\ r.role = role /\ r.out = out
  BY <1>4, <1>5, <1>6
<1>17. \A r \in rows' : r.id <= last => r \in rows
  BY <1>1, <1>3, <1>5, <1>6
<1> QED BY <1>1, <1>2, <1>3, <1>4, <1>6, <1>8, <1>11, <1>14, <1>15, <1>16, <1>17 DEF Advanced

LEMMA CallAdvances ==
  ASSUME TypeOK, Undisturbed, Undisturbed', ~stale, Chain, Counted, Along,
         NEW role \in Role, Due(last, role), NEW out, Call(role, out)
  PROVE  Advanced(role, out)
BY ReplayAdvances, LiveAdvances DEF Call, Undisturbed

(* Where an answer leads: the next call is due, and the bounce is accounted.*)
Leads(role) == ~AtBounce' /\ BouncedOnce' /\ Due(last, role)'
LeadsToBounce == AtBounce' /\ BouncedOnce' /\ Due(last, "writer")'

LEMMA NewRow ==
  ASSUME TypeOK, NEW role \in Role, NEW out, Advanced(role, out), Chain, Along
  PROVE  \E r \in rows' : /\ r.id = last' /\ r.role = role /\ r.out = out
                          /\ \A q \in rows' : q.id = last' => q = r
                          /\ \A q \in rows' : q.id < last' <=> q.id <= last
                          /\ \A q \in rows' : q.id <= last' => q = r \/ (q \in rows /\ q.id <= last)
<1>1. PICK r \in rows' : r.id = last' /\ r.role = role /\ r.out = out
  BY DEF Advanced
<1>2. \A q \in rows' : q.id \in Nat
  BY DEF Advanced, Chain
<1>3. last \in Nat /\ last' = last + 1
  BY DEF Advanced, TypeOK
<1>4. \A q \in rows' : q.id = last' => q = r
  BY <1>1 DEF Advanced, Chain
<1>5. \A q \in rows' : q.id <= last => q \in rows
  BY DEF Advanced
<1>6. \A q \in rows' : q.id < last' <=> q.id <= last
  BY <1>2, <1>3
<1>7. \A q \in rows' : q.id <= last' => q.id = last' \/ q.id <= last
  BY <1>2, <1>3
<1> QED BY <1>1, <1>4, <1>5, <1>6, <1>7

(* The bounce account after a call that leaves the locals' bounce alone:    *)
(* the answer was no first bounce.                                          *)
LEMMA StaysBounced ==
  ASSUME TypeOK, NEW role \in Role, NEW out, Advanced(role, out), Chain, Along, BouncedOnce,
         loop'.bounced = loop.bounced,
         out \in Bounced => loop.bounced # "no"
  PROVE  BouncedOnce' /\ ~AtBounce'
<1>1. PICK r \in rows' :
         /\ r.id = last' /\ r.role = role /\ r.out = out
         /\ \A q \in rows' : q.id = last' => q = r
         /\ \A q \in rows' : q.id < last' <=> q.id <= last
         /\ \A q \in rows' : q.id <= last' => q = r \/ (q \in rows /\ q.id <= last)
  BY NewRow
<1>2. rows \subseteq rows' /\ \A q \in rows : FirstBounce(q)' <=> FirstBounce(q)
  BY DEF Advanced
<1>3. \A q \in rows : q.id <= last => q.id < r.id /\ q.id <= last'
  BY <1>1, <1>2 DEF Advanced, TypeOK, Row
<1>4. CASE loop.bounced = "no"
  <2>1. out \notin Bounced
    BY <1>4
  <2>2. \A q \in rows' : q.id <= last' => q.out \notin Bounced
    BY <1>1, <1>4, <2>1 DEF BouncedOnce
  <2>3. ~AtBounce'
    BY <1>1, <2>1 DEF AtBounce, FirstBounce
  <2> QED BY <1>4, <2>2, <2>3 DEF BouncedOnce
<1>5. CASE loop.bounced # "no"
  <2>1. PICK q \in rows : q.id <= last /\ FirstBounce(q) /\ q.out = loop.bounced
    BY <1>5 DEF BouncedOnce
  <2>2. q \in rows' /\ q.id <= last' /\ FirstBounce(q)' /\ q.id < r.id
    BY <1>2, <1>3, <2>1
  <2>3. ~FirstBounce(r)'
    BY <2>1, <2>2 DEF FirstBounce
  <2>4. ~AtBounce'
    BY <1>1, <2>3 DEF AtBounce
  <2>5. BouncedOnce'
    BY <1>5, <2>1, <2>2 DEF BouncedOnce
  <2> QED BY <2>4, <2>5
<1> QED BY <1>4, <1>5

(* Whether the call answers a bounce after validation.                      *)
LEMMA AnswersHere ==
  ASSUME TypeOK, NEW role \in Role, NEW out, Advanced(role, out), Chain, Along, BouncedOnce,
         NEW r \in rows', r.id = last'
  PROVE  AfterBounce(r)' <=> AtBounce /\ loop.bounced = "bounce"
<1>1. last \in Nat /\ last' = last + 1 /\ \A q \in rows' : q.id \in Nat
  BY DEF Advanced, Chain, TypeOK
<1>2. \A q \in rows' : q.id + 1 = r.id <=> q.id = last
  BY <1>1
<1>3. /\ rows \subseteq rows' /\ \A q \in rows' : q.id <= last => q \in rows
      /\ \A q \in rows : FirstBounce(q)' <=> FirstBounce(q)
  BY DEF Advanced
<1>4. \A q \in rows : q.id = last => q.id <= last
  BY <1>1
<1>5. ASSUME AfterBounce(r)' PROVE AtBounce /\ loop.bounced = "bounce"
  <2>1. PICK q \in rows' : q.id + 1 = r.id /\ q.out = "bounce" /\ FirstBounce(q)'
    BY <1>5 DEF AfterBounce
  <2>2. q \in rows /\ q.id = last /\ FirstBounce(q)
    BY <1>1, <1>2, <1>3, <2>1
  <2>3. loop.bounced = "bounce"
    <3>1. loop.bounced # "no"
      BY <1>4, <2>2 DEF BouncedOnce, FirstBounce
    <3>2. PICK p \in rows : p.id <= last /\ FirstBounce(p) /\ p.out = loop.bounced
      BY <3>1 DEF BouncedOnce
    <3>3. p = q
      <4>1. ~ p.id < q.id
        BY <2>2, <3>2 DEF FirstBounce
      <4>2. p.id = q.id
        BY <1>1, <1>3, <2>2, <3>2, <4>1
      <4> QED BY <2>2, <4>2 DEF Chain
    <3> QED BY <2>1, <3>2, <3>3
  <2> QED BY <2>2, <2>3 DEF AtBounce
<1>6. ASSUME AtBounce, loop.bounced = "bounce" PROVE AfterBounce(r)'
  <2>1. PICK q \in rows : q.id = last /\ FirstBounce(q)
    BY <1>6 DEF AtBounce
  <2>2. PICK p \in rows : p.id <= last /\ FirstBounce(p) /\ p.out = "bounce"
    BY <1>6 DEF BouncedOnce
  <2>3. p = q
    <3>1. ~ p.id < q.id
      BY <2>1, <2>2 DEF FirstBounce
    <3>2. p.id = q.id
      BY <1>1, <1>3, <2>1, <2>2, <3>1
    <3> QED BY <2>1, <3>2 DEF Chain
  <2> QED BY <1>2, <1>3, <2>1, <2>2, <2>3 DEF AfterBounce
<1> QED BY <1>5, <1>6

(* A call that bounces nothing for the first time leads to the role that    *)
(* its answer makes due.                                                    *)
LEMMA CallLeads ==
  ASSUME TypeOK, NEW role \in Role, NEW out, Advanced(role, out), Chain, Along, BouncedOnce,
         loop'.bounced = loop.bounced,
         out \in Bounced => loop.bounced # "no"
  PROVE  IF /\ role = "writer"
            /\ \/ out \in {"valid"} \cup Bounced
               \/ AtBounce /\ loop.bounced = "bounce"
         THEN Leads("review") ELSE Leads("writer")
<1>1. PICK r \in rows' : r.id = last' /\ r.role = role /\ r.out = out
  BY DEF Advanced
<1>2. AfterBounce(r)' <=> AtBounce /\ loop.bounced = "bounce"
  BY <1>1, AnswersHere
<1>3. BouncedOnce' /\ ~AtBounce'
  BY StaysBounced
<1>4. ~FirstBounce(r)'
  BY <1>1, <1>3 DEF AtBounce
<1>5. NextRole(r)' = IF /\ role = "writer"
                        /\ \/ out \in {"valid"} \cup Bounced
                           \/ AtBounce /\ loop.bounced = "bounce"
                     THEN "review" ELSE "writer"
  BY <1>1, <1>2, <1>4 DEF NextRole
<1> QED BY <1>1, <1>3, <1>5 DEF Leads, Due

(* The walk's one bounce sends the writer off again.                        *)
LEMMA CallBounces ==
  ASSUME TypeOK, NEW out \in Bounced, Advanced("writer", out), Chain, Along, BouncedOnce,
         loop.bounced = "no", loop'.bounced = out
  PROVE  LeadsToBounce
<1>1. PICK r \in rows' :
         /\ r.id = last' /\ r.role = "writer" /\ r.out = out
         /\ \A q \in rows' : q.id = last' => q = r
         /\ \A q \in rows' : q.id < last' <=> q.id <= last
         /\ \A q \in rows' : q.id <= last' => q = r \/ (q \in rows /\ q.id <= last)
  BY NewRow DEF Role
<1>2. \A q \in rows : q.id <= last => q.out \notin Bounced
  BY DEF BouncedOnce
<1>3. FirstBounce(r)'
  <2>1. \A q \in rows' : q.id < r.id => q \in rows /\ q.id <= last
    BY <1>1 DEF Advanced
  <2> QED BY <1>1, <1>2, <2>1 DEF FirstBounce
<1>4. AtBounce'
  BY <1>1, <1>3 DEF AtBounce
<1>5. ~AtBounce
  BY <1>2 DEF AtBounce, FirstBounce, TypeOK
<1>6. ~AfterBounce(r)'
  BY <1>1, <1>5, AnswersHere DEF Role
<1>7. NextRole(r)' = "writer"
  BY <1>1, <1>3, <1>6 DEF NextRole, Bounced
<1>8. Due(last, "writer")'
  BY <1>1, <1>7 DEF Due
<1>9. BouncedOnce'
  <2>1. last' <= last'
    BY DEF Advanced, TypeOK
  <2> QED BY <1>1, <1>3, <2>1 DEF BouncedOnce, Bounced
<1> QED BY <1>4, <1>8, <1>9 DEF LeadsToBounce

LEMMA Settles ==
  ASSUME Along', \/ Leads("writer") /\ ctl' \in {"round", "write", "strike"}
                 \/ LeadsToBounce /\ ctl' = "bounce"
                 \/ Leads("review") /\ ctl' = "review"
                 \/ ctl' \in Ended
  PROVE  Placed'
BY DEF Placed, Leads, LeadsToBounce, Ended, Calling

LEMMA BouncedKept ==
  ASSUME TypeOK
  PROVE  /\ Written.bounced = loop.bounced /\ Reviewed.bounced = loop.bounced
         /\ \A l \in Locals : NoProgress(l).bounced = l.bounced
<1>1. \A role \in Role : Seen(role).bounced = loop.bounced /\ Seen(role) \in Locals
  <2>1. \A role \in Role : Seen(role) \in Locals
    BY SeenCarried DEF Carried
  <2>2. loop \in Locals
    BY DEF TypeOK
  <2>3. ASSUME NEW role \in Role PROVE Seen(role).bounced = loop.bounced
    <3>1. PICK a, b : Seen(role) = [loop EXCEPT !.live = a, !.liveReviews = b]
      BY <2>2 DEF Seen, Locals
    <3> QED BY <2>2, <3>1 DEF Locals
  <2> QED BY <2>1, <2>3
<1>2. Written.bounced = Seen("writer").bounced
  BY <1>1 DEF Written, Locals, Role
<1>3. Reviewed.bounced = Seen("review").bounced
  BY <1>1 DEF Reviewed, Locals, Role
<1>4. \A l \in Locals : NoProgress(l).bounced = l.bounced
  BY DEF NoProgress, Locals
<1> QED BY <1>1, <1>2, <1>3, <1>4 DEF Role

LEMMA GatedPlaced ==
  ASSUME TypeOK, NEW out \in WriterOut, Advanced("writer", out), Chain, Along, BouncedOnce,
         NEW l \in Locals, l.bounced = loop.bounced, Gated(l, out),
         ~(AtBounce /\ loop.bounced = "bounce")
  PROVE  Placed'
<1>1. Along'
  BY DEF Advanced
<1>2. CASE Rework(l) /\ out \in {"invalid", "malformed"}
  <2>1. loop'.bounced = loop.bounced /\ ctl' = "round"
    BY <1>2, BouncedKept DEF Rework
  <2>2. Leads("writer")
    BY <1>2, <2>1, CallLeads DEF Role, Bounced
  <2> QED BY <1>1, <2>1, <2>2, Settles
<1>3. CASE loop' = l /\ ctl' = "strike" /\ out = "malformed"
  <2>1. Leads("writer")
    BY <1>3, CallLeads DEF Role, Bounced
  <2> QED BY <1>1, <1>3, <2>1, Settles
<1>4. CASE out \in Bounced /\ l.bounced = "no" /\ loop' = [l EXCEPT !.bounced = out] /\ ctl' = "bounce"
  <2>1. loop'.bounced = out
    BY <1>4 DEF Locals
  <2>2. LeadsToBounce
    BY <1>4, <2>1, CallBounces
  <2> QED BY <1>1, <1>4, <2>2, Settles
<1>5. CASE /\ out = "valid" \/ (out \in Bounced /\ l.bounced # "no")
           /\ loop' = l /\ ctl' = "review"
  <2>1. Leads("review")
    BY <1>5, CallLeads DEF Role, Bounced
  <2> QED BY <1>1, <1>5, <2>1, Settles
<1> QED BY <1>2, <1>3, <1>4, <1>5 DEF Gated

(* On an undisturbed track the gates answer a replayed control as they did. *)
LEMMA Unmoved ==
  ASSUME Undisturbed', NEW l, NEW out, Examined(l, out)
  PROVE  Gated(l, out)
<1>1. PICK seen \in Answers(out) : drifted' = (drifted \/ seen # out) /\ Gated(l, seen)
  BY DEF Examined
<1>2. seen = out
  BY <1>1 DEF Undisturbed
<1> QED BY <1>1, <1>2

LEMMA WriteReplays ==
  ASSUME TypeOK, Replays, Undisturbed, Undisturbed', Write
  PROVE  Replays'
<1>1. PICK out \in WriterOut :
        /\ Call("writer", out)
        /\ \/ out \in Mishap
           \/ Gated([Written EXCEPT !.writerErrors = 0, !.liveErrors = 0], out)
  BY Unmoved DEF Write
<1>2. ~stale /\ Chain /\ Counted /\ Along /\ BouncedOnce /\ ~AtBounce /\ Due(last, "writer")
  BY DEF Replays, Placed, Write, Calling
<1>3. Advanced("writer", out)
  BY <1>1, <1>2, CallAdvances DEF Role
<1>. DEFINE l == [Written EXCEPT !.writerErrors = 0, !.liveErrors = 0]
<1>4. l \in Locals /\ l.bounced = loop.bounced
  <2>1. last' \in Nat
    BY <1>1, CallType DEF Role
  <2>2. Written \in Locals
    BY <2>1, WrittenCarried DEF Carried
  <2>3. 0 \in 0 .. Fuse
    BY LoopAssumption DEF Fuse
  <2>4. l \in Locals /\ l.bounced = Written.bounced
    BY <2>2, <2>3 DEF Locals, Fuse
  <2> QED BY <2>4, BouncedKept
<1>. HIDE DEF l
<1>5. Placed'
  BY <1>1, <1>2, <1>3, <1>4, GatedPlaced DEF Advanced, l
<1> QED BY <1>3, <1>5 DEF Replays, Advanced

LEMMA WrittenLocals ==
  ASSUME TypeOK, NEW out \in WriterOut, Call("writer", out)
  PROVE  Written \in Locals /\ Written.bounced = loop.bounced
<1>1. last' \in Nat
  BY CallType DEF Role
<1> QED BY <1>1, WrittenCarried, BouncedKept DEF Carried

LEMMA StrikeReplays ==
  ASSUME TypeOK, Replays, Undisturbed, Undisturbed', Strike
  PROVE  Replays'
<1>1. PICK out \in WriterOut : Call("writer", out) /\ (out \in Mishap \/ Gated(Written, out))
  BY Unmoved DEF Strike
<1>2. ~stale /\ Chain /\ Counted /\ Along /\ BouncedOnce /\ ~AtBounce /\ Due(last, "writer")
  BY DEF Replays, Placed, Strike, Calling
<1>3. Advanced("writer", out)
  BY <1>1, <1>2, CallAdvances DEF Role
<1>4. Placed'
  BY <1>1, <1>2, <1>3, WrittenLocals, GatedPlaced DEF Advanced
<1> QED BY <1>3, <1>4 DEF Replays, Advanced

LEMMA BounceReplays ==
  ASSUME TypeOK, Replays, Undisturbed, Undisturbed', Bounce
  PROVE  Replays'
<1>1. PICK out \in WriterOut :
        /\ Call("writer", out)
        /\ IF loop.bounced = "bounce" THEN loop' = Written /\ ctl' = "review"
           ELSE out \in Mishap \/ Gated(Written, out)
  BY Unmoved DEF Bounce
<1>2. ~stale /\ Chain /\ Counted /\ Along /\ BouncedOnce /\ AtBounce /\ Due(last, "writer")
  BY DEF Replays, Placed, Bounce, Calling
<1>3. Advanced("writer", out)
  BY <1>1, <1>2, CallAdvances DEF Role
<1>4. Written \in Locals /\ Written.bounced = loop.bounced
  BY <1>1, WrittenLocals
<1>5. Placed'
  <2>1. CASE loop.bounced = "bounce"
    <3>1. loop'.bounced = loop.bounced /\ loop.bounced # "no"
      BY <1>1, <1>4, <2>1
    <3>2. Leads("review")
      BY <1>2, <1>3, <2>1, <3>1, CallLeads DEF Role
    <3> QED BY <1>1, <1>3, <2>1, <3>2, Settles DEF Advanced
  <2>2. CASE loop.bounced # "bounce"
    BY <1>1, <1>2, <1>3, <1>4, <2>2, GatedPlaced DEF Advanced
  <2> QED BY <2>1, <2>2
<1> QED BY <1>3, <1>5 DEF Replays, Advanced

LEMMA ReviewReplays ==
  ASSUME TypeOK, Replays, Undisturbed, Undisturbed', Review
  PROVE  Replays'
<1>. DEFINE l == [Reviewed EXCEPT !.reviewErrors = 0, !.reviewRound = @ + 1]
<1>1. PICK out \in ReviewOut :
        /\ Call("review", out)
        /\ \/ out \in Mishap
           \/ out \in {"reject1", "reject2"} /\ Rejected(l, out)
           \/ out = "upstream" /\ UpstreamOwned(l)
           \/ out \in {"approve", "carried"} /\ ctl' \in {"approved", "carried"}
  BY DEF Review
<1>2. ~stale /\ Chain /\ Counted /\ Along /\ BouncedOnce /\ ~AtBounce /\ Due(last, "review")
  BY DEF Replays, Placed, Review, Calling
<1>3. Advanced("review", out)
  BY <1>1, <1>2, CallAdvances DEF Role
<1>4. l.bounced = loop.bounced /\ l \in Locals
  <2>1. Reviewed \in Locals /\ Reviewed.bounced = loop.bounced
    BY ReviewedCarried, BouncedKept DEF Carried
  <2>2. 0 \in 0 .. Fuse /\ Reviewed.reviewRound + 1 \in Nat
    BY <2>1, LoopAssumption DEF Fuse, Locals
  <2>3. l = [Reviewed EXCEPT !.reviewErrors = 0, !.reviewRound = Reviewed.reviewRound + 1]
    BY <2>1 DEF Locals
  <2> QED BY <2>1, <2>2, <2>3 DEF Locals, Fuse
<1>. HIDE DEF l
<1>5. Placed'
  <2>1. CASE out \in {"reject1", "reject2"} /\ Rejected(l, out)
    <3>. DEFINE read == IF FreshReading(l)
                        THEN [l EXCEPT !.prevOpen = l.lastOpen, !.lastOpen = Open(out), !.signature = out]
                        ELSE [NoProgress(l) EXCEPT !.signature = out]
    <3>1. guided' = FALSE
      BY DEF Undisturbed
    <3>2. loop' = read /\ ctl' = "round"
      BY <2>1, <3>1 DEF Rejected
    <3>3. read.bounced = l.bounced
      BY <1>4 DEF NoProgress, Locals
    <3>4. Leads("writer")
      BY <1>2, <1>3, <1>4, <2>1, <3>2, <3>3, CallLeads DEF Role, Bounced
    <3> QED BY <1>3, <3>2, <3>4, Settles DEF Advanced
  <2>2. CASE out = "upstream" /\ UpstreamOwned(l)
    <3>1. ctl' \in Ended
      BY <2>2 DEF UpstreamOwned, Ended
    <3> QED BY <1>3, <3>1, Settles DEF Advanced
  <2>3. CASE ctl' \in {"approved", "carried"}
    BY <1>3, <2>3, Settles DEF Advanced, Ended
  <2> QED BY <1>1, <1>3, <2>1, <2>2, <2>3 DEF Advanced
<1> QED BY <1>3, <1>5 DEF Replays, Advanced

LEMMA ChainKept ==
  ASSUME UNCHANGED <<rows, ids>>
  PROVE  /\ Chain' <=> Chain
         /\ Counted' <=> Counted
         /\ UNCHANGED <<cache, last, occ>> => (Along' <=> Along)
         /\ last' = last => (AtBounce' <=> AtBounce)
         /\ last' = last => \A role \in Role : Due(last, role)' <=> Due(last, role)
         /\ last' = last /\ loop'.bounced = loop.bounced => (BouncedOnce' <=> BouncedOnce)
<1>1. /\ \A r : FirstBounce(r)' <=> FirstBounce(r)
      /\ \A r : AfterBounce(r)' <=> AfterBounce(r)
      /\ \A r : NextRole(r)' = NextRole(r)
      /\ \A k, a : Due(k, a)' <=> Due(k, a)
  BY DEF FirstBounce, AfterBounce, NextRole, Due
<1>2. last' = last => \A role \in Role : Due(last, role)' <=> Due(last, role)
  BY <1>1 DEF Due
<1> QED BY <1>1, <1>2 DEF Chain, Counted, Along, AtBounce, BouncedOnce

LEMMA RoundReplays ==
  ASSUME TypeOK, Replays, NextRound \/ Refused \/ BudgetExhausted \/ JudgeEscalates
  PROVE  Replays'
<1>1. UNCHANGED <<rows, ids, cache, last, occ, stale, spent>>
  BY DEF NextRound, Refused, BudgetExhausted, JudgeEscalates, disk, proc, hist
<1>2. ~stale' /\ Chain' /\ Counted'
  BY <1>1, ChainKept DEF Replays
<1>3. Placed'
  <2>1. CASE NextRound
    <3>1. loop'.bounced = loop.bounced
      BY <2>1 DEF NextRound, TypeOK, Locals
    <3>2. Along /\ BouncedOnce /\ ~AtBounce /\ Due(last, "writer")
      BY <2>1 DEF NextRound, Replays, Placed
    <3>3. Along' /\ Leads("writer")
      BY <1>1, <3>1, <3>2, ChainKept DEF Leads, Role
    <3>4. ctl' \in {"write"} \cup Ended
      BY <2>1 DEF NextRound, Ended
    <3> QED BY <3>3, <3>4, Settles
  <2>2. CASE Refused
    <3>1. ctl' = "round" /\ ~(spent' < MaxAgents)
      BY <1>1, <2>2, LoopAssumption DEF Refused
    <3> QED BY <3>1 DEF Placed, Calling
  <2>3. CASE BudgetExhausted \/ JudgeEscalates
    <3>1. ctl' = "fatal"
      BY <2>3 DEF BudgetExhausted, JudgeEscalates
    <3> QED BY <3>1 DEF Placed, Calling
  <2> QED BY <2>1, <2>2, <2>3
<1> QED BY <1>2, <1>3 DEF Replays

LEMMA WalkReplays ==
  ASSUME TypeOK, Replays, Boot \/ Enter \/ Stop
  PROVE  Replays'
<1>1. UNCHANGED <<rows, ids, stale>>
  BY DEF Boot, Enter, Stop, disk, proc, hist
<1>2. ~stale' /\ Chain' /\ Counted'
  BY <1>1, ChainKept DEF Replays
<1>3. \A r \in rows : r.id \in Nat /\ r.id > 0
  BY DEF Replays, Chain
<1>4. CASE Boot
  <2>1. ctl' = "enter" /\ last' = 0 /\ cache' = rows' /\ occ' = [a \in Role |-> 0] /\ ids' \in Nat
    BY <1>4 DEF Boot, TypeOK, disk
  <2>2. Along'
    <3>1. \A a \in Role : occ'[a] = 0
      BY <2>1
    <3>2. \A r \in rows' : ~ r.id <= last'
      BY <1>1, <1>3, <2>1
    <3>3. last' \in 0 .. ids'
      BY <2>1
    <3> QED BY <2>1, <3>1, <3>2, <3>3 DEF Along
  <2>3. Placed'
    BY <2>1, <2>2 DEF Placed, Calling
  <2> QED BY <1>2, <2>3 DEF Replays
<1>5. CASE Enter
  <2>1. Along /\ last = 0 /\ ctl' = "round" /\ UNCHANGED <<last, cache, occ>>
    BY <1>5 DEF Enter, Replays, Placed, proc, hist
  <2>2. loop'.bounced = "no"
    BY <1>5 DEF Enter, EnterLoop
  <2>3. Along'
    BY <1>1, <2>1, ChainKept
  <2>4. \A r \in rows' : ~ r.id <= last'
    BY <1>1, <1>3, <2>1
  <2>5. BouncedOnce' /\ ~AtBounce'
    BY <1>1, <1>3, <2>1, <2>2, <2>4 DEF BouncedOnce, AtBounce
  <2>6. Due(last, "writer")'
    BY <2>1 DEF Due
  <2>7. Placed'
    BY <2>1, <2>3, <2>5, <2>6, Settles DEF Leads
  <2> QED BY <1>2, <2>7 DEF Replays
<1>6. CASE Stop
  <2>1. Placed'
    BY <1>6 DEF Stop, Placed, Calling
  <2> QED BY <1>2, <2>1 DEF Replays
<1> QED BY <1>4, <1>5, <1>6

(* What disturbs the replay is never forgotten.                             *)
LEMMA DisturbanceKept ==
  ASSUME TypeOK, [Next]_vars, Undisturbed'
  PROVE  Undisturbed /\ ~Reroute
<1>1. CASE Write \/ Strike \/ Bounce \/ Review
  <2>1. PICK role \in Role, out \in WriterOut \cup ReviewOut : Call(role, out)
    BY <1>1 DEF Write, Strike, Bounce, Review, Role
  <2>2. mishaps \in Nat /\ (mishaps' = mishaps \/ mishaps' = mishaps + 1) /\ reroutes' = reroutes
    <3>1. \A row : Record(row) => mishaps' = mishaps \/ mishaps' = mishaps + 1
      BY DEF Record
    <3> QED BY <2>1, <3>1 DEF Call, Replay, Live, TypeOK
  <2>3. mishaps = 0 /\ reroutes = 0
    BY <2>2 DEF Undisturbed
  <2>4. guided' = guided \/ guided' = TRUE
    BY <1>1 DEF Write, Strike, Bounce, Review, ReviewErrored, Rejected, UpstreamOwned
  <2>6. drifted => drifted'
    <3>1. \A l, o : Examined(l, o) => (drifted => drifted')
      BY DEF Examined
    <3>2. CASE Write \/ Strike
      BY <3>1, <3>2 DEF Write, Strike
    <3>3. CASE Bounce \/ Review
      BY <3>1, <3>3 DEF Bounce, Review
    <3> QED BY <1>1, <3>2, <3>3
  <2>5. ~Reroute
    BY <2>2, <2>3 DEF Reroute
  <2> QED BY <2>3, <2>4, <2>5, <2>6 DEF Undisturbed, TypeOK
<1>2. CASE Reroute
  BY <1>2 DEF Reroute, Undisturbed, TypeOK
<1>3. CASE Boot \/ Enter \/ Stop \/ BudgetExhausted \/ JudgeEscalates \/ NextRound \/ Refused \/ UNCHANGED vars
  <2>1. UNCHANGED <<mishaps, reroutes, guided, drifted>>
    BY <1>3 DEF Boot, Enter, Stop, BudgetExhausted, JudgeEscalates, NextRound, Refused, vars, hist
  <2>2. reroutes \in Nat /\ reroutes' # reroutes + 1
    BY <2>1 DEF TypeOK
  <2> QED BY <2>1, <2>2 DEF Undisturbed, Reroute
<1> QED BY <1>1, <1>2, <1>3 DEF Next

LEMMA ReplayNext == IInv /\ ReplayInv /\ [Next]_vars => ReplayInv'
<1> SUFFICES ASSUME IInv, ReplayInv, [Next]_vars, Undisturbed' PROVE Replays'
  BY DEF ReplayInv
<1>1. Undisturbed /\ ~Reroute /\ TypeOK
  BY DisturbanceKept DEF IInv
<1>2. Replays
  BY <1>1 DEF ReplayInv
<1>3. CASE UNCHANGED vars
  <2>1. UNCHANGED <<rows, ids, cache, last, occ, stale, spent, ctl, loop>>
    BY <1>3 DEF vars, disk, proc, hist
  <2> QED BY <1>2, <2>1, ChainKept DEF Replays, Placed, Role
<1> QED BY <1>1, <1>2, <1>3, WriteReplays, StrikeReplays, BounceReplays, ReviewReplays, RoundReplays, WalkReplays
        DEF Next

LEMMA ReplayInit == Init => ReplayInv
<1> SUFFICES ASSUME Init PROVE Replays
  BY DEF ReplayInv
<1>1. rows = {} /\ ids = 0 /\ ctl = "down" /\ stale = FALSE
  BY DEF Init
<1>2. Chain /\ Counted
  BY <1>1 DEF Chain, Counted
<1>3. Placed
  BY <1>1 DEF Placed, Calling
<1> QED BY <1>1, <1>2, <1>3 DEF Replays

(* resume.ts:12-16: on a track where no agent and no append failed, no      *)
(* human answered, no jump dropped rows and no gate changed its answer, a   *)
(* resumed run replays every call in the context it was made in, however    *)
(* often it was killed, for every round cap, gate and budget.               *)
THEOREM Replayed == Spec => []CleanReplay
<1>1. ReplayInv => CleanReplay
  BY DEF ReplayInv, Replays, CleanReplay
<1>2. IInv /\ ReplayInv /\ [Next]_vars => IInv' /\ ReplayInv'
  BY NextIInv, ReplayNext
<1> QED BY <1>1, <1>2, InitIInv, ReplayInit, PTL DEF Spec
=============================================================================
