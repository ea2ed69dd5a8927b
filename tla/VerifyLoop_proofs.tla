-------------------------- MODULE VerifyLoop_proofs --------------------------
(***************************************************************************)
(* Proofs about the verification stage, for any set of reviewers and of    *)
(* integration roles, any number of crashes and route-backs, and any       *)
(* budget.                                                                 *)
(***************************************************************************)
EXTENDS VerifyLoop, FiniteSetTheorems, WellFoundedInduction, TLAPS

-----------------------------------------------------------------------------
(* The least number of a set: how a review and a test round are dated.     *)

LEMMA LessIsWellFounded == IsWellFoundedOn({ss \in Nat \X Nat : ss[1] < ss[2]}, Nat)
BY ONLY NatLessThanWellFounded, Zenon DEF OpToRel

LEMMA LeastExists ==
  ASSUME NEW S \in SUBSET Nat, S # {}
  PROVE  \E n \in S : \A m \in S : n <= m
<1>. DEFINE Less == {ss \in Nat \X Nat : ss[1] < ss[2]}
<1>1. PICK x \in S : \A y \in S : ~ (<<y, x>> \in Less)
  BY LessIsWellFounded, WFMin
<1>2. \A a, b \in Nat : a < b => <<a, b>> \in Less
  OBVIOUS
<1>3. ASSUME NEW m \in S PROVE x <= m
  <2>1. ~ (<<m, x>> \in Less) /\ m \in Nat /\ x \in Nat
    BY <1>1
  <2>. HIDE DEF Less
  <2>. QED BY <1>2, <2>1
<1>. QED BY <1>3

-----------------------------------------------------------------------------
(* The invariant.                                                          *)

RowType == [n : Nat, said : Verdicts \cup {"done", "passed", "failed"}, tree : Nat]
Status == {None, "unknown", "failed", "passed", "not-applicable", "skipped-static", "unavailable"}
Result == [status : Status, failing : SUBSET Roles, tree : Nat]
Built == [pass : BOOLEAN, ran : BOOLEAN, tree : Nat]

Shape ==
  /\ TypeOK
  /\ tree \in Nat /\ attempt \in Nat /\ attempts \in Nat
  /\ occ \in [Callers -> Nat]
  /\ rows \in [Callers -> SUBSET RowType]
  /\ build \in Built /\ integration \in Result
  /\ unheard \in BOOLEAN
  /\ pc \in Kinds => budget # 0

\* Only reviewers answer for reviewers, and the first process replays nothing.
RowsAreOwn ==
  /\ \A r \in Reviewers : \A row \in rows[r] : row.said \in Verdicts
  /\ life = 1 => \A c \in Callers : \A row \in rows[c] : row.n <= occ[c]

\* Answers are collected within a round, from the tree as it is.
Answers ==
  \A r \in Reviewers :
    /\ pc # "reviewing" \/ answer[r].said = "waiting" => answer[r] = Waiting
    /\ life = 1 /\ answer[r] # Waiting => answer[r].tree = tree

ReviewCurrent == life = 1 /\ ~unheard => review.tree = tree

\* What the node holds on its way to the end.  Without budget a build gate that
\* did not run passes on what an earlier one said, and then no tester runs.
Evidenced ==
  /\ pc = "build" => ReviewCurrent
  /\ pc = "tests" => review.approved /\ build.pass /\ ReviewCurrent /\ (budget = 0 \/ build.tree = tree)
  /\ pc \in {"integrated", "converged"} =>
       /\ review.approved /\ build.pass /\ ReviewCurrent
       /\ \/ pc = "integrated" /\ integration.status = "failed"
          \/ build.tree = tree /\ (life = 1 => integration.tree = tree)

Decided ==
  /\ pc \in {"build", "boundary"} /\ ~unheard /\ ~review.approved /\ review.findings = {} =>
       review.deferred # {} \/ review.silent # {}
  /\ BlockedIsDecision

VerifyInv == Shape /\ RowsAreOwn /\ Answers /\ Evidenced /\ Decided

USE VerifyAssumption, VerdictAssumption

-----------------------------------------------------------------------------
LEMMA NamesDiffer ==
  /\ Reviewers \subseteq Callers /\ Kinds \subseteq Callers /\ Roles \subseteq Callers
  /\ \A r \in Reviewers : r \notin Kinds /\ r \notin Roles
  /\ \A r \in Roles : r \notin Kinds
BY DEF Callers, Kinds

LEMMA WaitingAnswer == Waiting.said = "waiting" /\ Waiting.tree = 0
BY DEF Waiting

\* A review is dated by the oldest tree one of its answers is of.
LEMMA MergedShape ==
  ASSUME Shape
  PROVE  Merged \in Review /\ Merged.tree \in {answer[r].tree : r \in Reviewers} /\ Merged.tree <= tree
<1>. DEFINE S == {answer[r].tree : r \in Reviewers}
<1>1. S \in SUBSET Nat /\ S # {} /\ \A t \in S : t <= tree
  BY DEF Shape, TypeOK
<1>2. \E t \in S : \A m \in S : t <= m
  BY <1>1, LeastExists
<1>3. Merged.tree = CHOOSE t \in S : \A r \in Reviewers : t <= answer[r].tree
  BY DEF Merged
<1>4. \E t \in S : \A r \in Reviewers : t <= answer[r].tree
  BY <1>2
<1>5. Merged.tree \in S
  BY <1>3, <1>4
<1>6. Merged.approved \in BOOLEAN /\ Merged.silent \in SUBSET Reviewers
  BY DEF Merged
<1>11. Merged.deferred \in SUBSET {"upstream", "human"}
  <2>1. \A r \in Reviewers : Defers(r) \subseteq {"upstream", "human"}
    BY DEF Defers
  <2>. QED BY <2>1 DEF Merged
<1>7. \A r \in Reviewers : Blames(r) \subseteq Reviewers \X {"rejects", "rewords", "infra"}
  BY DEF Blames
<1>8. Merged.findings \in SUBSET (Reviewers \X {"rejects", "rewords", "infra"})
  BY <1>7 DEF Merged
<1>9. \E a, f, d, s, t :
        Merged = [approved |-> a, findings |-> f, deferred |-> d, silent |-> s, tree |-> t]
  BY DEF Merged
<1>10. Merged \in Review
  BY <1>1, <1>5, <1>6, <1>8, <1>9, <1>11 DEF Review
<1>. QED BY <1>1, <1>5, <1>10

\* When every reviewer was heard, a refusal leaves a finding, a deferred one, or
\* the name of a reviewer who gave none.
LEMMA MergedDecides ==
  ASSUME Shape, ~Failed, \A r \in Reviewers : answer[r].said # "waiting",
         ~Merged.approved, Merged.findings = {}
  PROVE  Merged.deferred # {} \/ Merged.silent # {}
<1>1. PICK r \in Reviewers : answer[r].said \notin Approving
  BY DEF Merged
<1>2. answer[r].said \in {"rejects", "rewords", "upstream", "human", "bare", "dies"}
  BY <1>1 DEF Failed, Shape, TypeOK, Answer, Verdict, Approving
<1>3. Blames(r) = {}
  BY DEF Merged
<1>4. answer[r].said \in {"upstream", "human", "bare"}
  BY <1>2, <1>3 DEF Blames
<1>5. answer[r].said = "bare" => r \in Merged.silent
  BY DEF Merged
<1>6. answer[r].said \in {"upstream", "human"} => Defers(r) # {} /\ Defers(r) \subseteq Merged.deferred
  BY DEF Merged, Defers
<1>. QED BY <1>4, <1>5, <1>6

-----------------------------------------------------------------------------
LEMMA InitHolds == ASSUME Init PROVE VerifyInv
<1>1. /\ NoReview \in Review /\ NoReview.tree = 0 /\ NoBuild \in Built /\ NoBuild.tree = 0
      /\ NotTested \in Result /\ NotTested.tree = 0
  BY DEF NoReview, NoBuild, NotTested, Review, Built, Result, Status, None
<1>2. Waiting \in [said : Answer, tree : 0 .. 0]
  BY DEF Waiting, Answer
<1>3. TypeOK
  BY <1>1, <1>2 DEF Init, TypeOK
<1>4. Shape
  BY <1>1, <1>3 DEF Init, Shape, Kinds
<1>5. RowsAreOwn /\ Answers
  BY NamesDiffer DEF Init, RowsAreOwn, Answers
<1>6. Evidenced /\ Decided
  BY DEF Init, Evidenced, Decided, BlockedIsDecision
<1>. QED BY <1>4, <1>5, <1>6 DEF VerifyInv

LEMMA StartStep ==
  ASSUME VerifyInv, StartAttempt \/ OutOfBudget
  PROVE  VerifyInv'
<1>1. /\ NotTested \in Result /\ NotTested.tree = 0
      /\ [NotTested EXCEPT !.status = "unknown"] \in Result
      /\ [NotTested EXCEPT !.status = "unknown"].tree = 0
  BY DEF NotTested, Result, Status, None
<1>2. integration' \in Result /\ integration'.tree = 0
  BY <1>1 DEF StartAttempt, OutOfBudget
<1>3. /\ pc = "attempt" /\ pc' \in {"reviewing", "exhausted"}
      /\ UNCHANGED <<answer, review, build, tree, budget, life, rows, occ, jumps, unheard>>
  BY DEF StartAttempt, OutOfBudget, history, memo, route
<1>5. attempt' \in Nat /\ attempts' \in Nat /\ attempt' \in 0 .. attempts'
  <2>1. \/ attempt' = attempt + 1 /\ attempts' = attempts + 1
        \/ attempt' = attempt /\ attempts' = attempts
    BY DEF StartAttempt, OutOfBudget
  <2>. QED BY <2>1 DEF VerifyInv, Shape, TypeOK
<1>4. Shape'
  BY <1>2, <1>3, <1>5 DEF VerifyInv, Shape, TypeOK, Terminal, Kinds
<1>. QED BY <1>3, <1>4 DEF VerifyInv, RowsAreOwn, Answers, Evidenced, Decided, BlockedIsDecision

LEMMA ReviewerStep ==
  ASSUME VerifyInv, NEW r \in Reviewers, Reviewer(r)
  PROVE  VerifyInv'
<1>. USE DEF VerifyInv
<1>1. /\ pc = "reviewing" /\ pc' = pc /\ r \in Callers
      /\ UNCHANGED <<attempt, attempts, review, build, integration, tree, life, unheard, jumps>>
  BY NamesDiffer DEF Reviewer, route
<1>2. PICK a : answer' = [answer EXCEPT ![r] = a]
  BY DEF Reviewer
<1>3. /\ a \in [said : Answer \ {"waiting"}, tree : 0 .. tree]
      /\ life = 1 => a.tree = tree
  <2>1. CASE budget = 0
    <3>1. answer' = [answer EXCEPT ![r] = [said |-> "refused", tree |-> tree]]
      BY <2>1 DEF Reviewer
    <3>2. a = [said |-> "refused", tree |-> tree]
      BY <1>2, <3>1 DEF Shape, TypeOK
    <3>. QED BY <3>2 DEF Answer, Shape
  <2>2. CASE \E row \in Hit(r) : answer' = [answer EXCEPT ![r] = [said |-> row.said, tree |-> row.tree]]
    <3>1. PICK row \in Hit(r) : a = [said |-> row.said, tree |-> row.tree]
      BY <1>2, <2>2 DEF Shape, TypeOK
    <3>2. row \in rows[r] /\ row.n = occ[r] + 1 /\ row.said \in Verdicts /\ row.tree \in 0 .. tree
      BY <1>1, <3>1 DEF Hit, Shape, TypeOK, RowsAreOwn, RowType
    <3>3. life # 1
      BY <1>1, <3>2 DEF RowsAreOwn, Shape
    <3>. QED BY <3>1, <3>2, <3>3 DEF Answer, Verdict, Approving
  <2>3. CASE \E said \in Verdicts \cup {"dies", "throws"} :
               answer' = [answer EXCEPT ![r] = [said |-> said, tree |-> tree]]
    <3>1. PICK said \in Verdicts \cup {"dies", "throws"} : a = [said |-> said, tree |-> tree]
      BY <1>2, <2>3 DEF Shape, TypeOK
    <3>. QED BY <3>1 DEF Answer, Verdict, Approving, Shape
  <2>. QED BY <2>1, <2>2, <2>3 DEF Reviewer
<1>4. /\ answer' \in [Reviewers -> [said : Answer, tree : 0 .. tree]]
      /\ answer'[r] = a /\ \A q \in Reviewers \ {r} : answer'[q] = answer[q]
  BY <1>2, <1>3 DEF Shape, TypeOK
<1>5. budget' \in 0 .. MaxAgents
  <2>1. budget' = budget \/ (budget # 0 /\ budget' = budget - 1)
    <3>1. CASE budget = 0
      BY <3>1 DEF Reviewer
    <3>2. CASE budget # 0
      BY <3>2 DEF Reviewer
    <3>. QED BY <3>1, <3>2
  <2>. QED BY <2>1 DEF Shape, TypeOK
<1>6. /\ occ' \in [Callers -> Nat] /\ occ'[r] >= occ[r] /\ \A c \in Callers \ {r} : occ'[c] = occ[c]
  <2>1. occ' = occ \/ occ' = [occ EXCEPT ![r] = @ + 1]
    BY DEF Reviewer, memo
  <2>. QED BY <1>1, <2>1 DEF Shape
<1>7. rows' \in {rows} \cup {[rows EXCEPT ![r] = @ \cup {Row(r, said)}] : said \in Verdicts}
  BY DEF Reviewer, memo
<1>8. /\ rows' \in [Callers -> SUBSET RowType]
      /\ \A c \in Callers \ {r} : rows'[c] = rows[c]
      /\ rows'[r] = rows[r] \/ /\ occ'[r] = occ[r] + 1
                               /\ \E said \in Verdicts : rows'[r] = rows[r] \cup {Row(r, said)}
  <2>1. \A said \in Verdicts : Row(r, said) \in RowType
    BY <1>1, NamesDiffer DEF Row, RowType, Shape
  <2>2. rows' = rows \/ occ'[r] = occ[r] + 1
    BY <1>1 DEF Reviewer, memo, Shape
  <2>. QED BY <1>1, <1>7, <2>1, <2>2 DEF Shape
<1>9. \A said \in Verdicts : /\ Row(r, said).n = occ[r] + 1 /\ Row(r, said).said = said
                             /\ Row(r, said).tree = tree
  BY NamesDiffer DEF Row
<1>10. Shape'
  <2>1. \A c \in Callers : \A row \in rows'[c] : row.tree <= tree
    BY <1>8, <1>9 DEF Shape, TypeOK
  <2>. QED BY <1>1, <1>4, <1>5, <1>6, <1>8, <2>1 DEF Shape, TypeOK, Terminal, Kinds
<1>11. RowsAreOwn'
  <2>1. \A q \in Reviewers : \A row \in rows'[q] : row.said \in Verdicts
    BY <1>1, <1>8, <1>9, NamesDiffer DEF RowsAreOwn
  <2>2. ASSUME life = 1, NEW c \in Callers, NEW row \in rows'[c] PROVE row.n <= occ'[c]
    <3>1. CASE row \in rows[c]
      <4>1. row.n <= occ[c] /\ row.n \in Nat /\ occ[c] \in Nat /\ occ'[c] \in Nat /\ occ'[c] >= occ[c]
        BY <1>1, <1>6, <2>2, <3>1 DEF RowsAreOwn, Shape, RowType
      <4>. QED BY <4>1
    <3>2. CASE row \notin rows[c]
      BY <1>8, <1>9, <2>2, <3>2, <1>6, <1>1 DEF Shape
    <3>. QED BY <3>1, <3>2
  <2>. QED BY <1>1, <2>1, <2>2 DEF RowsAreOwn
<1>12. Answers'
  BY <1>1, <1>3, <1>4, WaitingAnswer DEF Answers
<1>. QED BY <1>1, <1>10, <1>11, <1>12 DEF Evidenced, Decided, BlockedIsDecision

LEMMA JoinStep ==
  ASSUME VerifyInv, Join
  PROVE  VerifyInv'
<1>. USE DEF VerifyInv
<1>1. /\ pc = "reviewing" /\ pc' \in {"attempt", "build"}
      /\ answer' = [r \in Reviewers |-> Waiting]
      /\ review' = IF Failed THEN review ELSE Merged
      /\ unheard' = Failed /\ unheard' \in BOOLEAN
      /\ \A r \in Reviewers : answer[r] # Waiting
      /\ UNCHANGED <<attempt, attempts, build, integration, tree, budget, life, rows, occ, jumps>>
  BY DEF Join, route, memo, Failed
<1>2. review' \in Review /\ review'.tree <= tree
  BY <1>1, MergedShape DEF Shape, TypeOK
<1>3. Waiting \in [said : Answer, tree : 0 .. tree]
  BY DEF Waiting, Answer, Shape
<1>4. Shape'
  BY <1>1, <1>2, <1>3 DEF Shape, TypeOK, Terminal, Kinds
<1>5. Answers'
  BY <1>1, WaitingAnswer DEF Answers
<1>6. ReviewCurrent'
  <2>1. ASSUME life = 1, ~Failed PROVE Merged.tree = tree
    BY <1>1, <2>1, MergedShape DEF Answers
  <2>. QED BY <1>1, <2>1 DEF ReviewCurrent
<1>7. ~unheard' /\ ~review'.approved /\ review'.findings = {} =>
        review'.deferred # {} \/ review'.silent # {}
  BY <1>1, MergedDecides DEF Answers
<1>. QED BY <1>1, <1>4, <1>5, <1>6, <1>7 DEF RowsAreOwn, Evidenced, Decided, BlockedIsDecision

LEMMA BuildStep ==
  ASSUME VerifyInv, BuildGate
  PROVE  VerifyInv'
<1>. USE DEF VerifyInv
<1>1. /\ pc = "build" /\ pc' = IF review.approved /\ build'.pass THEN "tests" ELSE "boundary"
      /\ UNCHANGED <<attempt, attempts, answer, review, integration, tree, budget, life, rows, occ,
                     jumps, unheard>>
  BY DEF BuildGate, route, memo, history, reviewApproved
<1>2. build' \in Built /\ build'.tree <= tree /\ (budget = 0 \/ build'.tree = tree)
  <2>1. CASE build' = build /\ budget = 0
    BY <2>1 DEF Shape, TypeOK
  <2>2. CASE \E pass \in BOOLEAN : build' = [pass |-> pass, ran |-> TRUE, tree |-> tree]
    BY <2>2 DEF Shape, Built
  <2>. QED BY <2>1, <2>2 DEF BuildGate
<1>3. Shape'
  BY <1>1, <1>2 DEF Shape, TypeOK, Terminal, Kinds
<1>. QED BY <1>1, <1>2, <1>3 DEF RowsAreOwn, Answers, Evidenced, ReviewCurrent, Decided, BlockedIsDecision

LEMMA BoundaryStep ==
  ASSUME VerifyInv, DeadEnd \/ Evaluate
  PROVE  VerifyInv'
<1>. USE DEF VerifyInv
<1>1. CASE DeadEnd
  <2>1. /\ pc = "boundary" /\ NothingToFix
        /\ pc' \in {"attempt", "routed", "blocked"}
        /\ pc' = "blocked" => ~ (review.deferred \cap {"upstream"} # {} /\ jumps < MaxJumps)
        /\ jumps' \in 0 .. MaxJumps /\ (pc' = "blocked" => jumps' = jumps)
        /\ UNCHANGED <<attempt, attempts, answer, review, build, integration, tree, budget, life,
                       rows, occ, unheard>>
    BY <1>1 DEF DeadEnd, evidence, memo, history, Shape, TypeOK
  <2>2. Shape'
    BY <2>1 DEF Shape, TypeOK, Terminal, Kinds
  <2>3. BlockedIsDecision'
    BY <2>1 DEF BlockedIsDecision, Decided, NothingToFix, reviewApproved, Shape, TypeOK
  <2>. QED BY <2>1, <2>2, <2>3 DEF RowsAreOwn, Answers, Evidenced, Decided
<1>2. CASE Evaluate
  <2>1. /\ pc \in {"boundary", "integrated"}
        /\ pc' \in {"stagnant", "exhausted", "review", "integration"}
        /\ pc' \in Kinds => budget # 0
        /\ UNCHANGED <<attempt, attempts, answer, review, build, integration, tree, budget, life,
                       rows, occ, unheard, jumps>>
    BY <1>2 DEF Evaluate, evidence, memo, history, Stuck, NotStuck, ToFix, Kinds
  <2>2. Shape'
    BY <2>1 DEF Shape, TypeOK, Terminal, Kinds
  <2>. QED BY <2>1, <2>2 DEF RowsAreOwn, Answers, Evidenced, Decided, BlockedIsDecision
<1>. QED BY <1>1, <1>2

LEMMA ReenterStep ==
  ASSUME VerifyInv, Reenter
  PROVE  VerifyInv'
<1>. USE DEF VerifyInv
<1>1. /\ pc = "routed" /\ pc' = "attempt" /\ attempt' = 0 /\ tree' = tree + 1 /\ budget' \in {0, budget}
      /\ UNCHANGED <<attempts, answer, review, build, integration, life, rows, occ, unheard, jumps>>
  BY DEF Reenter, Enter, evidence, memo, history, route
<1>2. answer' \in [Reviewers -> [said : Answer, tree : 0 .. tree']]
  BY <1>1 DEF Shape, TypeOK
<1>3. \A c \in Callers : \A row \in rows[c] : row.tree <= tree'
  <2>1. ASSUME NEW c \in Callers, NEW row \in rows[c] PROVE row.tree <= tree'
    <3>1. row.tree \in Nat /\ row.tree <= tree /\ tree \in Nat
      BY DEF Shape, TypeOK, RowType
    <3>. QED BY <1>1, <3>1
  <2>. QED BY <2>1
<1>4. review.tree \in Nat /\ build.tree \in Nat /\ integration.tree \in Nat
  BY DEF Shape, TypeOK, Review, Built, Result
<1>5. Shape'
  BY <1>1, <1>2, <1>3, <1>4 DEF Shape, TypeOK, Terminal, Kinds
<1>. QED BY <1>1, <1>5 DEF RowsAreOwn, Answers, Evidenced, Decided, BlockedIsDecision

LEMMA FixStep ==
  ASSUME VerifyInv, NEW kind \in Kinds, Fix(kind)
  PROVE  VerifyInv'
<1>. USE DEF VerifyInv
<1>1. /\ pc = kind /\ pc' = "attempt" /\ tree' \in {tree, tree + 1}
      /\ budget' \in {budget, budget - 1}
      /\ occ' = [occ EXCEPT ![kind] = @ + 1]
      /\ kind \in Callers /\ kind \notin Reviewers
      /\ UNCHANGED <<attempt, attempts, answer, review, build, integration, life, unheard, jumps>>
  BY NamesDiffer DEF Fix, AfterFix, evidence, history, route
<1>2. budget' \in 0 .. MaxAgents
  <2>1. budget' = budget \/ budget' = budget - 1
    BY DEF Fix
  <2>. QED BY <1>1, <2>1 DEF Shape, TypeOK
<1>3. /\ rows' \in {rows, [rows EXCEPT ![kind] = @ \cup {Row(kind, "done")}]}
      /\ Row(kind, "done") = [n |-> occ[kind] + 1, said |-> "done", tree |-> 0]
  BY DEF Fix, Row
<1>4. /\ occ' \in [Callers -> Nat] /\ occ'[kind] = occ[kind] + 1
      /\ \A c \in Callers \ {kind} : occ'[c] = occ[c]
  BY <1>1 DEF Shape
<1>5. /\ rows' \in [Callers -> SUBSET RowType]
      /\ \A c \in Callers \ {kind} : rows'[c] = rows[c]
      /\ \A row \in rows'[kind] : row \in rows[kind] \/ (row.n = occ[kind] + 1 /\ row.tree = 0)
  <2>1. Row(kind, "done") \in RowType
    BY <1>1, <1>3 DEF RowType, Shape
  <2>. QED BY <1>1, <1>3, <2>1 DEF Shape
<1>6. tree' \in Nat /\ tree <= tree'
  BY <1>1 DEF Shape
<1>7. answer' \in [Reviewers -> [said : Answer, tree : 0 .. tree']]
  BY <1>1, <1>6 DEF Shape, TypeOK
<1>8. \A c \in Callers : \A row \in rows'[c] : row.tree <= tree'
  <2>1. ASSUME NEW c \in Callers, NEW row \in rows'[c] PROVE row.tree <= tree'
    <3>1. row.tree \in Nat /\ (row.tree <= tree \/ row.tree = 0)
      BY <1>5 DEF Shape, TypeOK, RowType
    <3>. QED BY <1>6, <3>1 DEF Shape
  <2>. QED BY <2>1
<1>9. Shape'
  <2>1. review.tree \in Nat /\ build.tree \in Nat /\ integration.tree \in Nat
    BY DEF Shape, TypeOK, Review, Built, Result
  <2>2. review.tree <= tree' /\ build.tree <= tree' /\ integration.tree <= tree'
    BY <1>6, <2>1 DEF Shape, TypeOK
  <2>. QED BY <1>1, <1>2, <1>4, <1>5, <1>6, <1>7, <1>8, <2>2 DEF Shape, TypeOK, Kinds
<1>10. RowsAreOwn'
  <2>1. \A r \in Reviewers : rows'[r] = rows[r]
    BY <1>1, <1>5, NamesDiffer
  <2>2. ASSUME life = 1, NEW c \in Callers, NEW row \in rows'[c] PROVE row.n <= occ'[c]
    <3>1. row \in rows[c] => row.n \in Nat /\ row.n <= occ[c] /\ occ[c] \in Nat
      BY <2>2 DEF RowsAreOwn, Shape, RowType
    <3>2. occ'[c] \in Nat /\ occ'[c] >= occ[c] /\ occ[c] \in Nat
      BY <1>4 DEF Shape
    <3>3. row \notin rows[c] => row.n = occ'[c]
      BY <1>4, <1>5
    <3>. QED BY <3>1, <3>2, <3>3
  <2>. QED BY <1>1, <2>1, <2>2 DEF RowsAreOwn
<1>11. pc # "reviewing" /\ pc' # "reviewing"
  BY <1>1 DEF Kinds
<1>. QED BY <1>1, <1>9, <1>10, <1>11 DEF Answers, Evidenced, Decided, BlockedIsDecision

\* What a test round gives: its status, its failing roles, its oldest tree.
LEMMA TestResult ==
  ASSUME VerifyInv, NEW roles \in SUBSET Roles, NEW static \in BOOLEAN,
         NEW said \in [roles -> {"passed", "failed", "unavailable", "unknown"}],
         NEW old, \A row \in old : \E r \in Roles : row \in Hit(r),
         NEW res, res = [status |-> Outcome(said, static),
                         failing |-> {r \in roles : said[r] \in {"failed", "unavailable"}},
                         tree |-> Least({tree} \cup {row.tree : row \in old})]
  PROVE  res \in Result /\ res.tree <= tree /\ (life = 1 => res.tree = tree)
<1>. DEFINE S == {tree} \cup {row.tree : row \in old}
<1>1. \A row \in old : row.tree \in Nat /\ row.tree <= tree /\ life # 1
  <2>1. ASSUME NEW row \in old PROVE row.tree \in Nat /\ row.tree <= tree /\ life # 1
    <3>1. PICK r \in Roles : row \in Hit(r)
      OBVIOUS
    <3>2. r \in Callers /\ row \in rows[r] /\ row.n = occ[r] + 1
      BY <3>1, NamesDiffer DEF Hit
    <3>. QED BY <3>2 DEF VerifyInv, Shape, TypeOK, RowType, RowsAreOwn
  <2>. QED BY <2>1
<1>2. S \in SUBSET Nat /\ S # {} /\ tree \in S
  BY <1>1 DEF VerifyInv, Shape
<1>3. \E n \in S : \A m \in S : n <= m
  BY <1>2, LeastExists
<1>. HIDE DEF S
<1>4. Least(S) \in S /\ Least(S) <= tree
  BY <1>2, <1>3 DEF Least
<1>5. life = 1 => Least(S) = tree
  BY <1>1, <1>4 DEF S
<1>6. Outcome(said, static) \in Status
  BY DEF Outcome, Status
<1>7. res.tree = Least(S) /\ res \in Result
  BY <1>2, <1>4, <1>6 DEF Result, S
<1>. QED BY <1>4, <1>5, <1>7

LEMMA TestStep ==
  ASSUME VerifyInv, Test
  PROVE  VerifyInv'
<1>. USE DEF VerifyInv
<1>1. PICK roles \in SUBSET Roles, static \in BOOLEAN :
        \E said \in [roles -> {"passed", "failed", "unavailable", "unknown"}], ready \in SUBSET roles :
          LET live == {r \in ready : Hit(r) = {}}
              old == {row \in UNION {Hit(r) : r \in ready} : TRUE}
          IN /\ \A r \in roles \ ready : said[r] = "unavailable"
             /\ \A r \in ready \ live : \A row \in Hit(r) : said[r] = row.said
             /\ Cardinality(live) <= budget
             /\ budget' = budget - Cardinality(live)
             /\ occ' = [c \in Callers |-> IF c \in ready THEN occ[c] + 1 ELSE occ[c]]
             /\ rows' = [c \in Callers |-> IF c \in live /\ said[c] \in {"passed", "failed"}
                                           THEN rows[c] \cup {Row(c, said[c])} ELSE rows[c]]
             /\ integration' = [status |-> Outcome(said, static),
                                failing |-> {r \in roles : said[r] \in {"failed", "unavailable"}},
                                tree |-> Least({tree} \cup {row.tree : row \in old})]
             /\ \/ pc' = "integrated"
                \/ live # {} /\ pc' = "violated"
  BY DEF Test
<1>2. PICK said \in [roles -> {"passed", "failed", "unavailable", "unknown"}], ready \in SUBSET roles :
          LET live == {r \in ready : Hit(r) = {}}
              old == {row \in UNION {Hit(r) : r \in ready} : TRUE}
          IN /\ Cardinality(live) <= budget
             /\ budget' = budget - Cardinality(live)
             /\ occ' = [c \in Callers |-> IF c \in ready THEN occ[c] + 1 ELSE occ[c]]
             /\ rows' = [c \in Callers |-> IF c \in live /\ said[c] \in {"passed", "failed"}
                                           THEN rows[c] \cup {Row(c, said[c])} ELSE rows[c]]
             /\ integration' = [status |-> Outcome(said, static),
                                failing |-> {r \in roles : said[r] \in {"failed", "unavailable"}},
                                tree |-> Least({tree} \cup {row.tree : row \in old})]
             /\ pc' \in {"integrated", "violated"}
  BY <1>1
<1>3. PICK live : live = {r \in ready : Hit(r) = {}}
  OBVIOUS
<1>4. PICK old : old = {row \in UNION {Hit(r) : r \in ready} : TRUE}
  OBVIOUS
<1>5. /\ pc = "tests" /\ pc' \in {"integrated", "violated"} /\ budget # 0
      /\ UNCHANGED <<attempt, attempts, answer, review, build, tree, life, jumps, unheard>>
  BY <1>2 DEF Test, route, history, Shape, TypeOK
<1>6. integration' \in Result /\ integration'.tree <= tree /\ (life = 1 => integration'.tree = tree)
  <2>1. \A row \in old : \E r \in Roles : row \in Hit(r)
    BY <1>4
  <2>2. integration' = [status |-> Outcome(said, static),
                        failing |-> {r \in roles : said[r] \in {"failed", "unavailable"}},
                        tree |-> Least({tree} \cup {row.tree : row \in old})]
    BY <1>2, <1>4
  <2>. QED BY <2>1, <2>2, TestResult
<1>7. budget' \in 0 .. MaxAgents
  <2>1. live \subseteq Roles /\ IsFiniteSet(live)
    BY <1>3, FS_Subset
  <2>2. Cardinality(live) \in Nat
    BY <2>1, FS_CardinalityType
  <2>3. Cardinality(live) <= budget /\ budget' = budget - Cardinality(live)
    BY <1>2, <1>3
  <2>. QED BY <2>2, <2>3 DEF Shape, TypeOK
<1>8. /\ occ' \in [Callers -> Nat] /\ ready \subseteq Callers
      /\ \A c \in Callers : occ'[c] = IF c \in ready THEN occ[c] + 1 ELSE occ[c]
  BY <1>2, NamesDiffer DEF Shape
<1>9. /\ live \subseteq ready /\ live \subseteq Roles
      /\ rows' = [c \in Callers |-> IF c \in live /\ said[c] \in {"passed", "failed"}
                                   THEN rows[c] \cup {Row(c, said[c])} ELSE rows[c]]
  BY <1>2, <1>3
<1>10. \A c \in Callers : \A row \in rows'[c] :
         \/ row \in rows[c]
         \/ /\ c \in live /\ row \in RowType /\ row.n = occ[c] + 1 /\ row.tree = tree
  <2>1. ASSUME NEW c \in Callers, NEW row \in rows'[c], row \notin rows[c]
        PROVE  c \in live /\ row \in RowType /\ row.n = occ[c] + 1 /\ row.tree = tree
    <3>1. c \in live /\ said[c] \in {"passed", "failed"} /\ row = Row(c, said[c]) /\ c \notin Kinds
      <4>1. rows'[c] = IF c \in live /\ said[c] \in {"passed", "failed"}
                       THEN rows[c] \cup {Row(c, said[c])} ELSE rows[c]
        BY <1>9
      <4>2. c \in live /\ said[c] \in {"passed", "failed"} /\ row = Row(c, said[c])
        BY <2>1, <4>1
      <4>. QED BY <1>9, <4>2, NamesDiffer
    <3>2. row = [n |-> occ[c] + 1, said |-> said[c], tree |-> tree]
      BY <3>1 DEF Row
    <3>. QED BY <3>1, <3>2 DEF RowType, Shape
  <2>. QED BY <2>1
<1>11. rows' \in [Callers -> SUBSET RowType]
  <2>. DEFINE now(c) == IF c \in live /\ said[c] \in {"passed", "failed"}
                        THEN rows[c] \cup {Row(c, said[c])} ELSE rows[c]
  <2>1. rows' = [c \in Callers |-> now(c)]
    BY <1>9
  <2>2. ASSUME NEW c \in Callers PROVE now(c) \in SUBSET RowType
    <3>1. now(c) = rows'[c]
      BY <2>1
    <3>. HIDE DEF now
    <3>. QED BY <1>10, <3>1 DEF Shape
  <2>. HIDE DEF now
  <2>. QED BY <2>1, <2>2
<1>12. \A c \in Callers : \A row \in rows'[c] : row.tree <= tree
  BY <1>10 DEF Shape, TypeOK
<1>13. Shape'
  BY <1>5, <1>6, <1>7, <1>8, <1>11, <1>12 DEF Shape, TypeOK, Terminal, Kinds
<1>14. RowsAreOwn'
  <2>1. \A r \in Reviewers : \A row \in rows'[r] : row.said \in Verdicts
    BY <1>9, <1>10, NamesDiffer DEF RowsAreOwn
  <2>2. ASSUME life = 1, NEW c \in Callers, NEW row \in rows'[c] PROVE row.n <= occ'[c]
    <3>1. occ[c] \in Nat /\ occ'[c] \in Nat /\ occ'[c] >= occ[c]
      BY <1>8 DEF Shape
    <3>2. CASE row \in rows[c]
      BY <2>2, <3>1, <3>2 DEF RowsAreOwn, Shape, RowType
    <3>3. CASE row \notin rows[c]
      <4>1. c \in ready /\ row.n = occ[c] + 1
        BY <1>9, <1>10, <3>3
      <4>. QED BY <1>8, <3>1, <4>1
    <3>. QED BY <3>2, <3>3
  <2>. QED BY <1>5, <2>1, <2>2 DEF RowsAreOwn
<1>. QED BY <1>5, <1>6, <1>13, <1>14 DEF Answers, Evidenced, ReviewCurrent, Decided, BlockedIsDecision

LEMMA SettleStep ==
  ASSUME VerifyInv, TestBlockFails \/ Settle
  PROVE  VerifyInv'
<1>. USE DEF VerifyInv
<1>1. CASE TestBlockFails
  <2>1. /\ pc = "tests" /\ pc' = "integrated"
        /\ integration' = [status |-> "failed", failing |-> {}, tree |-> tree]
        /\ UNCHANGED <<attempt, attempts, answer, review, build, tree, budget, life, rows, occ, jumps,
                       unheard>>
    BY <1>1 DEF TestBlockFails, route, memo, history
  <2>2. integration' \in Result /\ integration'.tree = tree
    BY <2>1 DEF Result, Status, Shape
  <2>3. Shape'
    BY <2>1, <2>2 DEF Shape, TypeOK, Terminal, Kinds
  <2>. QED BY <2>1, <2>3 DEF RowsAreOwn, Answers, Evidenced, ReviewCurrent, Decided, BlockedIsDecision
<1>2. CASE Settle
  <2>1. /\ pc = "integrated" /\ pc' \in {"converged", "inconclusive"}
        /\ integration.status # "failed"
        /\ UNCHANGED <<attempt, attempts, answer, review, build, integration, tree, budget, life, rows,
                       occ, jumps, unheard>>
    BY <1>2 DEF Settle, evidence, route, memo, history
  <2>2. Shape'
    BY <2>1 DEF Shape, TypeOK, Terminal, Kinds
  <2>. QED BY <2>1, <2>2 DEF RowsAreOwn, Answers, Evidenced, ReviewCurrent, Decided, BlockedIsDecision
<1>. QED BY <1>1, <1>2

LEMMA CrashStep ==
  ASSUME VerifyInv, Crash
  PROVE  VerifyInv'
<1>. USE DEF VerifyInv
<1>1. /\ pc' = "attempt" /\ attempt' = 0 /\ attempts' = 0 /\ life' = life + 1 /\ life < MaxLives
      /\ answer' = [r \in Reviewers |-> Waiting]
      /\ review' = NoReview /\ build' = NoBuild /\ integration' = NotTested
      /\ budget' = MaxAgents /\ occ' = [c \in Callers |-> 0]
      /\ tree' \in {tree, tree + 1} /\ unheard' = FALSE /\ UNCHANGED <<jumps, rows>>
  BY DEF Crash, Enter, route
<1>2. /\ NoReview \in Review /\ NoReview.tree = 0 /\ NoBuild \in Built /\ NoBuild.tree = 0
      /\ NotTested \in Result /\ NotTested.tree = 0
  BY DEF NoReview, NoBuild, NotTested, Review, Built, Result, Status, None
<1>3. tree' \in Nat /\ tree <= tree' /\ tree \in Nat /\ life \in Nat \ {0}
  BY <1>1 DEF Shape, TypeOK
<1>4. Waiting \in [said : Answer, tree : 0 .. tree']
  BY <1>3 DEF Waiting, Answer
<1>5. \A c \in Callers : \A row \in rows[c] : row.tree <= tree'
  <2>1. ASSUME NEW c \in Callers, NEW row \in rows[c] PROVE row.tree <= tree'
    <3>1. row.tree \in Nat /\ row.tree <= tree
      BY DEF Shape, TypeOK, RowType
    <3>. QED BY <1>3, <3>1
  <2>. QED BY <2>1
<1>6. Shape'
  <2>1. life' \in 1 .. MaxLives /\ budget' \in 0 .. MaxAgents
    BY <1>1, <1>3
  <2>2. /\ review' \in Review /\ review'.tree = 0 /\ build' \in Built /\ build'.tree = 0
        /\ integration' \in Result /\ integration'.tree = 0
    BY <1>1, <1>2
  <2>. HIDE DEF VerifyInv
  <2>3. VerifyInv => UNCHANGED <<jumps, rows>> /\ jumps \in 0 .. MaxJumps /\ rows \in [Callers -> SUBSET RowType]
    BY <1>1 DEF VerifyInv, Shape, TypeOK
  <2>4. TypeOK'
    BY <1>1, <1>3, <1>4, <1>5, <2>1, <2>2, <2>3 DEF TypeOK
  <2>. QED BY <1>1, <1>3, <2>2, <2>3, <2>4 DEF Shape, Kinds
<1>7. life' # 1
  BY <1>1, <1>3
<1>. QED BY <1>1, <1>6, <1>7 DEF RowsAreOwn, Answers, Evidenced, Decided, BlockedIsDecision

LEMMA VerifyStep ==
  ASSUME VerifyInv, [Next]_vars
  PROVE  VerifyInv'
<1>1. CASE UNCHANGED vars
  BY <1>1 DEF vars, evidence, stagnation, memo, route, history, VerifyInv, Shape, TypeOK, RowsAreOwn,
     Answers, Evidenced, ReviewCurrent, Decided, BlockedIsDecision
<1>2. CASE Done
  BY <1>1, <1>2 DEF Done
<1>. QED BY <1>1, <1>2, StartStep, ReviewerStep, JoinStep, BuildStep, BoundaryStep, ReenterStep,
        FixStep, TestStep, SettleStep, CrashStep DEF Next, Step

(* The invariant holds in every state of the stage. *)
THEOREM VerifyInvariant == Spec => []VerifyInv
<1>1. Init => VerifyInv
  BY InitHolds
<1>2. VerifyInv /\ [Next]_vars => VerifyInv'
  BY VerifyStep
<1>. QED BY <1>1, <1>2, PTL DEF Spec

(* The stage is well typed: evidence is never of a later tree. *)
THEOREM VerifyTypeCorrect == Spec => []TypeOK
<1>1. VerifyInv => TypeOK
  BY DEF VerifyInv, Shape
<1>. QED BY <1>1, VerifyInvariant, PTL

(* What the node calls converged was reviewed, built and tested as it is. *)
THEOREM Verified == Spec => []ConvergedIsVerified
<1>1. VerifyInv => ConvergedIsVerified
  BY DEF VerifyInv, Evidenced, ReviewCurrent, ConvergedIsVerified, Fresh, reviewApproved, buildGreen
<1>. QED BY <1>1, VerifyInvariant, PTL

(* A node that blocks has a refusal and nothing for a fixer: what is left is *)
(* deferred, or a reviewer refused and named nothing. *)
THEOREM Decision == Spec => []BlockedIsDecision
<1>1. VerifyInv => BlockedIsDecision
  BY DEF VerifyInv, Decided
<1>. QED BY <1>1, VerifyInvariant, PTL
=============================================================================
