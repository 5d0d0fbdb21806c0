-------------------------- MODULE ReviewSyncProofs --------------------------
(***************************************************************************)
(* Proofs about the two ends of a task's life, for every value of their     *)
(* constants.  Review: the loads are exact, review and execution agree, an  *)
(* accepted execution was validated, decisions stand and are counted once.  *)
(* IssueSync: the tasks of an issue are a retention period apart, the       *)
(* cursor passes nothing over and what has been processed is reflected.     *)
(***************************************************************************)
EXTENDS Review, IssueSync, FiniteSetTheorems, WellFoundedInduction, TLAPS

-----------------------------------------------------------------------------
(* Review.                                                                   *)

\* The sets whose sizes are counted are finite.
LEMMA FinitePending ==
  \A r : IsFiniteSet(PendingOf(r)) /\ Cardinality(PendingOf(r)) \in Nat
<1> TAKE r
<1>1. PendingOf(r) \in SUBSET Submissions /\ IsFiniteSet(Submissions)
  BY ReviewAssumption DEF PendingOf
<1>2. IsFiniteSet(PendingOf(r))
  BY <1>1, FS_Subset
<1> QED
  BY <1>2, FS_CardinalityType

\* A batch has a number of decisions of each kind.
LEMMA SignalsType ==
  ASSUME NEW todo \in SUBSET Submissions, NEW k, NEW d
  PROVE  Signals(todo, k, d) \in Nat
<1> DEFINE S == {s \in todo : KeyOf[s] = k /\ review[s].decision = d}
<1>1. S \in SUBSET Submissions /\ IsFiniteSet(Submissions)
  BY ReviewAssumption
<1>2. IsFiniteSet(S)
  BY <1>1, FS_Subset
<1>3. Cardinality(S) \in Nat
  BY <1>2, FS_CardinalityType
<1> QED
  BY <1>3 DEF Signals

\* Initially there is no review and nobody has any work.
LEMMA InitIInv == Init => IInv
<1> SUFFICES ASSUME Init PROVE IInv
  OBVIOUS
<1> USE DEF Init
<1>1. NoReview \in ReviewRow
  BY DEF NoReview, ReviewRow
<1>2. IdleSession \in Session
  BY <1>1 DEF IdleSession, Session
<1>3. NoCounts \in Counts
  BY DEF NoCounts, Counts
<1>4. NoBatch \in Batch
  BY <1>3 DEF NoBatch, Batch
<1>5. TypeOK
  BY <1>1, <1>2, <1>3, <1>4 DEF TypeOK, ExecStatus
<1>6. SessionFits
  BY DEF SessionFits, Fits, IdleSession
<1>10. ReviewIsAssigned
  BY DEF ReviewIsAssigned, NoReview
<1>7. DecisionAgrees
  BY DEF DecisionAgrees, NoReview, Decisions
<1>8. AcceptedIsValidated
  BY DEF AcceptedIsValidated
<1>9. LoadIsPending
  <2> SUFFICES ASSUME NEW r \in Reviewers PROVE load[r] = Cardinality(PendingOf(r))
    BY DEF LoadIsPending
  <2>1. PendingOf(r) = {}
    BY DEF PendingOf, NoReview
  <2>2. Cardinality(PendingOf(r)) = 0
    BY <2>1, FS_EmptySet
  <2> QED
    BY <2>2
<1> QED
  BY <1>5, <1>6, <1>7, <1>8, <1>9, <1>10 DEF IInv

-----------------------------------------------------------------------------
\* A review that exists keeps existing, and keeps its reviewer.
ReviewEvolves(s) ==
  review[s].status # "none" =>
    /\ review'[s].status # "none"
    /\ review'[s].reviewer = review[s].reviewer

\* What the open requests rely on persists when reviews evolve and validations
\* stay as they were.
LEMMA KeepSession ==
  ASSUME SessionFits, NEW q \in Sessions, ses'[q] = ses[q] \/ ses'[q] = IdleSession,
         \A s \in Submissions : ReviewEvolves(s),
         \A s \in Submissions : HasPassed(s) => HasPassed(s)'
  PROVE  Fits(q)'
<1>1. CASE ses'[q] = IdleSession
  BY <1>1 DEF IdleSession, Fits
<1>2. CASE ses'[q] = ses[q]
  <2> DEFINE x == ses[q]
  <2>1. CASE x.op = "create"
    BY <1>2, <2>1 DEF SessionFits, Fits
  <2>2. CASE x.op = "decide"
    <3>1. /\ x.s \in Submissions /\ x.decision \in Decisions
          /\ x.row.reviewer \in Reviewers
          /\ x.row.reviewer = review[x.s].reviewer
          /\ review[x.s].status # "none"
          /\ x.decision = "accepted" => HasPassed(x.s)
      BY <2>2 DEF SessionFits, Fits
    <3>2. ReviewEvolves(x.s)
      BY <3>1
    <3>3. x.decision = "accepted" => (gates'[x.s] = "passed"
             \/ (gates'[x.s] = "failed" /\ ~ reachable'[x.s]))
      BY <3>1 DEF HasPassed
    <3> QED
      BY <1>2, <2>2, <3>1, <3>2, <3>3 DEF ReviewEvolves, HasPassed, Fits
  <2>3. CASE x.op \notin {"create", "decide"}
    BY <1>2, <2>3 DEF Fits
  <2> QED
    BY <2>1, <2>2, <2>3
<1> QED
  BY <1>1, <1>2

\* The same for all of them.
LEMMA KeepSessions ==
  ASSUME SessionFits,
         \A q \in Sessions : ses'[q] = ses[q] \/ ses'[q] = IdleSession,
         \A s \in Submissions : ReviewEvolves(s),
         \A s \in Submissions : HasPassed(s) => HasPassed(s)'
  PROVE  SessionFits'
  BY KeepSession DEF SessionFits

\* Loads fit when neither they nor who has to decide what changes.
LEMMA KeepLoads ==
  ASSUME LoadIsPending, load' = load,
         \A s \in Submissions : /\ review'[s].status = "pending" <=> review[s].status = "pending"
                                /\ review'[s].reviewer = review[s].reviewer
  PROVE  LoadIsPending'
<1>1. ASSUME NEW r \in Reviewers PROVE PendingOf(r)' = PendingOf(r)
  BY DEF PendingOf
<1> QED
  BY <1>1 DEF LoadIsPending

-----------------------------------------------------------------------------
\* A request passes its checks: only its own session changes.
LEMMA ReadStep ==
  ASSUME IInv, NEW p \in Sessions, NEW s \in Submissions,
         CreateRead(p, s) \/ \E d \in Decisions : DecideRead(p, s, d)
  PROVE  IInv'
<1>1. UNCHANGED <<exec, gates, reachable, review, load, proj, batch>>
  BY DEF CreateRead, DecideRead
<1>2. \A t \in Submissions : ReviewEvolves(t) /\ (HasPassed(t) => HasPassed(t)')
  BY <1>1 DEF ReviewEvolves, HasPassed
<1>3. DecisionAgrees' /\ AcceptedIsValidated' /\ ReviewIsAssigned'
  BY <1>1 DEF IInv, DecisionAgrees, AcceptedIsValidated, HasPassed, ReviewIsAssigned
<1>4. LoadIsPending'
  BY <1>1, KeepLoads DEF IInv
<1>5. CASE CreateRead(p, s)
  <2>1. PICK r \in Allocate :
          ses' = [ses EXCEPT ![p] =
                    [op |-> "create", s |-> s, decision |-> None,
                     row |-> [NoReview EXCEPT !.status = "pending", !.reviewer = r]]]
    BY <1>5 DEF CreateRead
  <2> DEFINE row == [NoReview EXCEPT !.status = "pending", !.reviewer = r]
             x == [op |-> "create", s |-> s, decision |-> None, row |-> row]
  <2>2. r \in Reviewers
    BY DEF Allocate
  <2>3. row \in ReviewRow /\ row.status = "pending" /\ row.reviewer = r
    BY <2>2 DEF NoReview, ReviewRow
  <2> HIDE DEF row
  <2>4. x \in Session /\ x.op = "create" /\ x.s = s /\ x.row = row
    BY <2>3 DEF Session
  <2>5. ses' = [ses EXCEPT ![p] = x]
    BY <2>1 DEF row
  <2> HIDE DEF x
  <2>6. TypeOK'
    BY <1>1, <2>4, <2>5 DEF IInv, TypeOK
  <2>7. SessionFits'
    <3> SUFFICES ASSUME NEW q \in Sessions PROVE Fits(q)'
      BY DEF SessionFits
    <3>1. CASE q = p
      <4>1. ses'[q] = x
        BY <2>5, <3>1 DEF IInv, TypeOK
      <4> QED
        BY <4>1, <2>2, <2>3, <2>4 DEF Fits
    <3>2. CASE q # p
      <4>1. ses'[q] = ses[q]
        BY <2>5, <3>2 DEF IInv, TypeOK
      <4> QED
        BY <4>1, <1>2, KeepSession DEF IInv
    <3> QED
      BY <3>1, <3>2
  <2> QED
    BY <1>3, <1>4, <2>6, <2>7 DEF IInv
<1>6. ASSUME NEW d \in Decisions, DecideRead(p, s, d) PROVE IInv'
  <2> DEFINE x == [op |-> "decide", s |-> s, row |-> review[s], decision |-> d]
  <2>1. review[s] \in ReviewRow /\ review[s].status = "pending"
    BY <1>6 DEF DecideRead, IInv, TypeOK
  <2>2. x \in Session /\ x.op = "decide" /\ x.s = s /\ x.row = review[s] /\ x.decision = d
    BY <2>1 DEF Session
  <2>3. ses' = [ses EXCEPT ![p] = x]
    BY <1>6 DEF DecideRead
  <2>4. d = "accepted" => HasPassed(s)
    BY <1>6 DEF DecideRead, MayDecide, HasPassed
  <2>5. review[s].reviewer \in Reviewers
    BY <2>1 DEF IInv, ReviewIsAssigned
  <2> HIDE DEF x
  <2>6. TypeOK'
    BY <1>1, <2>2, <2>3 DEF IInv, TypeOK
  <2>7. SessionFits'
    <3> SUFFICES ASSUME NEW q \in Sessions PROVE Fits(q)'
      BY DEF SessionFits
    <3>1. CASE q = p
      <4>1. ses'[q] = x
        BY <2>3, <3>1 DEF IInv, TypeOK
      <4>2. d = "accepted" => HasPassed(s)'
        BY <1>2, <2>4
      <4> QED
        BY <4>1, <4>2, <1>1, <2>1, <2>2, <2>5 DEF HasPassed, Fits
    <3>2. CASE q # p
      <4>1. ses'[q] = ses[q]
        BY <2>3, <3>2 DEF IInv, TypeOK
      <4> QED
        BY <4>1, <1>2, KeepSession DEF IInv
    <3> QED
      BY <3>1, <3>2
  <2> QED
    BY <1>3, <1>4, <2>6, <2>7 DEF IInv
<1> QED
  BY <1>5, <1>6

\* A review is created: its reviewer's load and pending reviews grow together.
LEMMA CreateStep ==
  ASSUME IInv, NEW p \in Sessions, CreateCommit(p)
  PROVE  IInv'
<1> DEFINE s == ses[p].s
           row == ses[p].row
           r == row.reviewer
<1>1. s \in Submissions /\ row.status = "pending" /\ r \in Reviewers /\ row \in ReviewRow
  <2>1. ses[p] \in Session /\ Fits(p) /\ ses[p].op = "create"
    BY DEF IInv, TypeOK, SessionFits, CreateCommit
  <2> QED
    BY <2>1 DEF Fits, Session
<1>2. /\ review[s].status = "none"
      /\ load' = [load EXCEPT ![r] = @ + 1]
      /\ review' = [review EXCEPT ![s] = row]
      /\ ses' = [ses EXCEPT ![p] = IdleSession]
      /\ UNCHANGED <<exec, gates, reachable, proj, batch>>
  BY DEF CreateCommit, MayInsert
<1> HIDE DEF s, row, r
<1>3. review' \in [Submissions -> ReviewRow] /\ review'[s] = row
        /\ \A t \in Submissions \ {s} : review'[t] = review[t]
  BY <1>1, <1>2 DEF IInv, TypeOK
<1>4. \A q \in Sessions : ses'[q] = ses[q] \/ ses'[q] = IdleSession
  BY <1>2 DEF IInv, TypeOK
<1>5. TypeOK'
  <2>1. IdleSession \in Session
    BY DEF IdleSession, Session, NoReview, ReviewRow
  <2> QED
    BY <1>1, <1>2, <1>3, <2>1 DEF IInv, TypeOK
<1>6. \A t \in Submissions : ReviewEvolves(t)
  BY <1>2, <1>3 DEF ReviewEvolves
<1>7. SessionFits'
  BY <1>2, <1>4, <1>6, KeepSessions DEF IInv, HasPassed
<1>8. ReviewIsAssigned'
  BY <1>1, <1>3, r = row.reviewer DEF IInv, ReviewIsAssigned, r
<1>9. DecisionAgrees'
  BY <1>1, <1>2, <1>3 DEF IInv, DecisionAgrees
<1>10. AcceptedIsValidated'
  BY <1>2 DEF IInv, AcceptedIsValidated, HasPassed
<1>11. LoadIsPending'
  <2> SUFFICES ASSUME NEW q \in Reviewers
               PROVE  load'[q] = Cardinality(PendingOf(q)')
    BY DEF LoadIsPending
  <2>1. load[q] = Cardinality(PendingOf(q)) /\ load \in [Reviewers -> Nat]
    BY DEF IInv, LoadIsPending, TypeOK
  <2>2. CASE q = r
    <3>1. PendingOf(q)' = PendingOf(q) \cup {s}
      BY <1>1, <1>3, <2>2 DEF PendingOf, r
    <3>2. s \notin PendingOf(q)
      BY <1>2 DEF PendingOf
    <3>3. Cardinality(PendingOf(q) \cup {s}) = Cardinality(PendingOf(q)) + 1
      BY <3>2, FinitePending, FS_AddElement
    <3> QED
      BY <1>1, <1>2, <2>1, <2>2, <3>1, <3>3
  <2>3. CASE q # r
    <3>1. PendingOf(q)' = PendingOf(q)
      BY <1>1, <1>2, <1>3, <2>3 DEF PendingOf, r
    <3> QED
      BY <1>1, <1>2, <2>1, <2>3, <3>1
  <2> QED
    BY <2>2, <2>3
<1> QED
  BY <1>5, <1>7, <1>8, <1>9, <1>10, <1>11 DEF IInv

\* What a decision that gets through has found: the review is still pending,
\* because the execution is still under review.
LEMMA DecideFinds ==
  ASSUME IInv, NEW p \in Sessions, DecideCommit(p)
  PROVE  /\ ses[p].s \in Submissions
         /\ review[ses[p].s].status = "pending"
         /\ review[ses[p].s].reviewer = ses[p].row.reviewer
         /\ ses[p].row.reviewer \in Reviewers
         /\ ses[p].decision \in Decisions
         /\ ses[p].decision = "accepted" => HasPassed(ses[p].s)
<1>1. Fits(p) /\ ses[p].op = "decide" /\ exec[ses[p].s] = "reviewing"
  BY DEF IInv, SessionFits, DecideCommit, MayApply
<1>2. ses[p].s \in Submissions /\ review[ses[p].s].status # "none"
  BY <1>1 DEF Fits
<1>3. review[ses[p].s] \in ReviewRow
  BY <1>2 DEF IInv, TypeOK
<1>4. review[ses[p].s].status # "submitted"
  <2> SUFFICES ASSUME review[ses[p].s].status = "submitted" PROVE FALSE
    OBVIOUS
  <2>1. exec[ses[p].s] = review[ses[p].s].decision \/ exec[ses[p].s] = "cancelled"
    BY <1>2 DEF IInv, DecisionAgrees
  <2>2. review[ses[p].s].decision # "reviewing"
    BY <1>2 DEF IInv, ReviewIsAssigned, Decisions
  <2> QED
    BY <1>1, <2>1, <2>2
<1>5. review[ses[p].s].status = "pending"
  BY <1>2, <1>3, <1>4 DEF ReviewRow
<1> QED
  BY <1>1, <1>2, <1>5 DEF Fits

\* A decision: its reviewer's load and pending reviews shrink together.
LEMMA DecideStep ==
  ASSUME IInv, NEW p \in Sessions, DecideCommit(p)
  PROVE  IInv' /\ exec[ses[p].s] = "reviewing"
               /\ \A t \in Submissions \ {ses[p].s} : review'[t] = review[t]
<1> DEFINE s == ses[p].s
           d == ses[p].decision
           r == ses[p].row.reviewer
           new == [Submit(ses[p].row, d) EXCEPT !.projected = review[s].projected]
<1>1. /\ s \in Submissions /\ review[s].status = "pending"
      /\ review[s].reviewer = r /\ r \in Reviewers /\ d \in Decisions
      /\ d = "accepted" => HasPassed(s)
  BY DecideFinds
<1>2. ses[p].row \in ReviewRow /\ review[s] \in ReviewRow
  BY <1>1 DEF IInv, TypeOK, Session
<1>3. /\ new \in ReviewRow /\ new.status = "submitted" /\ new.reviewer = r
      /\ new.decision = d
      /\ Submit(ses[p].row, d).reviewer = r
  BY <1>1, <1>2 DEF Submit, ReviewRow
<1>4. /\ load[r] > 0 /\ exec[s] = "reviewing"
      /\ review' = [review EXCEPT ![s] = new]
      /\ load' = [load EXCEPT ![r] = load[r] - 1]
      /\ exec' = [exec EXCEPT ![s] = d]
      /\ ses' = [ses EXCEPT ![p] = IdleSession]
      /\ UNCHANGED <<gates, reachable, proj, batch>>
  BY <1>3 DEF DecideCommit, MayApply, Released
<1> HIDE DEF s, d, r, new
<1>5. review' \in [Submissions -> ReviewRow] /\ review'[s] = new
        /\ \A t \in Submissions \ {s} : review'[t] = review[t]
  BY <1>1, <1>3, <1>4 DEF IInv, TypeOK
<1>6. exec' \in [Submissions -> ExecStatus] /\ exec'[s] = d
        /\ \A t \in Submissions \ {s} : exec'[t] = exec[t]
  BY <1>1, <1>4 DEF IInv, TypeOK, ExecStatus
<1>7. \A q \in Sessions : ses'[q] = ses[q] \/ ses'[q] = IdleSession
  BY <1>4 DEF IInv, TypeOK
<1>8. TypeOK'
  <2>1. IdleSession \in Session
    BY DEF IdleSession, Session, NoReview, ReviewRow
  <2>2. load' \in [Reviewers -> Nat]
    BY <1>1, <1>4 DEF IInv, TypeOK
  <2> QED
    BY <1>4, <1>5, <1>6, <2>1, <2>2 DEF IInv, TypeOK
<1>9. SessionFits'
  <2>1. \A t \in Submissions : ReviewEvolves(t)
    BY <1>1, <1>3, <1>5 DEF ReviewEvolves
  <2> QED
    BY <1>4, <1>7, <2>1, KeepSessions DEF IInv, HasPassed
<1>10. ReviewIsAssigned'
  BY <1>1, <1>3, <1>5 DEF IInv, ReviewIsAssigned
<1>11. DecisionAgrees'
  BY <1>1, <1>3, <1>5, <1>6 DEF IInv, DecisionAgrees
<1>12. AcceptedIsValidated'
  BY <1>1, <1>4, <1>6 DEF IInv, AcceptedIsValidated, HasPassed
<1>13. LoadIsPending'
  <2> SUFFICES ASSUME NEW q \in Reviewers
               PROVE  load'[q] = Cardinality(PendingOf(q)')
    BY DEF LoadIsPending
  <2>1. load[q] = Cardinality(PendingOf(q)) /\ load \in [Reviewers -> Nat]
    BY DEF IInv, LoadIsPending, TypeOK
  <2>2. CASE q = r
    <3>1. PendingOf(q)' = PendingOf(q) \ {s}
      BY <1>1, <1>3, <1>5, <2>2 DEF PendingOf
    <3>2. s \in PendingOf(q)
      BY <1>1, <2>2 DEF PendingOf
    <3>3. Cardinality(PendingOf(q) \ {s}) = Cardinality(PendingOf(q)) - 1
      BY <3>2, FinitePending, FS_RemoveElement
    <3> QED
      BY <1>1, <1>4, <2>1, <2>2, <3>1, <3>3
  <2>3. CASE q # r
    <3>1. PendingOf(q)' = PendingOf(q)
      BY <1>1, <1>3, <1>5, <2>3 DEF PendingOf
    <3> QED
      BY <1>1, <1>4, <2>1, <2>3, <3>1
  <2> QED
    BY <2>2, <2>3
<1> QED
  BY <1>4, <1>5, <1>8, <1>9, <1>10, <1>11, <1>12, <1>13 DEF IInv, s

\* A request fails: only its session changes.
LEMMA AbortStep ==
  ASSUME IInv, NEW p \in Sessions, Abort(p)
  PROVE  IInv'
<1>1. /\ UNCHANGED <<exec, gates, reachable, review, load, proj, batch>>
      /\ ses' = [ses EXCEPT ![p] = IdleSession]
  BY DEF Abort
<1>2. IdleSession \in Session
  BY DEF IdleSession, Session, NoReview, ReviewRow
<1>3. TypeOK'
  BY <1>1, <1>2 DEF IInv, TypeOK
<1>4. \A q \in Sessions : ses'[q] = ses[q] \/ ses'[q] = IdleSession
  BY <1>1 DEF IInv, TypeOK
<1>5. SessionFits'
  BY <1>1, <1>4, KeepSessions DEF IInv, HasPassed, ReviewEvolves
<1>6. ReviewIsAssigned' /\ DecisionAgrees' /\ AcceptedIsValidated'
  BY <1>1 DEF IInv, ReviewIsAssigned, DecisionAgrees, AcceptedIsValidated, HasPassed
<1>7. LoadIsPending'
  BY <1>1, KeepLoads DEF IInv
<1> QED
  BY <1>3, <1>5, <1>6, <1>7 DEF IInv

\* The reputation worker changes nothing of a review but its mark.
LEMMA ProjectStep ==
  ASSUME IInv, NEW w \in Workers, Project(w)
  PROVE  /\ IInv'
         /\ \A s \in Submissions : /\ review'[s].status = review[s].status
                                   /\ review'[s].reviewer = review[s].reviewer
                                   /\ review'[s].decision = review[s].decision
<1>1. UNCHANGED <<exec, gates, reachable, load, ses>>
  BY DEF Project, BatchRead, BatchCommit, BatchFails
<1>2. /\ review' \in [Submissions -> ReviewRow]
      /\ \A s \in Submissions : /\ review'[s].status = review[s].status
                                /\ review'[s].reviewer = review[s].reviewer
                                /\ review'[s].decision = review[s].decision
  <2>1. CASE review' = review
    BY <2>1 DEF IInv, TypeOK
  <2>2. CASE BatchCommit(w)
    <3> DEFINE todo == batch[w].todo
    <3>1. review' = [s \in Submissions |->
                       IF s \in todo THEN [review[s] EXCEPT !.projected = TRUE]
                       ELSE review[s]]
      BY <2>2 DEF BatchCommit
    <3> HIDE DEF todo
    <3>2. ASSUME NEW s \in Submissions
          PROVE  /\ review'[s] \in ReviewRow
                 /\ review'[s].status = review[s].status
                 /\ review'[s].reviewer = review[s].reviewer
                 /\ review'[s].decision = review[s].decision
      <4>1. review[s] \in ReviewRow
        BY DEF IInv, TypeOK
      <4> QED
        BY <3>1, <4>1 DEF ReviewRow
    <3> QED
      BY <3>1, <3>2
  <2> QED
    BY <2>1, <2>2 DEF Project, BatchRead, BatchFails
<1>3. proj' \in [Keys -> Counts] /\ batch' \in [Workers -> Batch]
  <2>1. NoBatch \in Batch
    BY DEF NoBatch, Batch, NoCounts, Counts
  <2>2. CASE BatchRead(w)
    <3>1. PICK todo \in SUBSET Unprojected :
            /\ batch' = [batch EXCEPT ![w] = [todo |-> todo, proj |-> proj]]
            /\ proj' = proj
      BY <2>2 DEF BatchRead
    <3>2. [todo |-> todo, proj |-> proj] \in Batch
      BY DEF Unprojected, IInv, TypeOK, Batch
    <3> QED
      BY <3>1, <3>2 DEF IInv, TypeOK
  <2>3. CASE BatchFails(w)
    BY <2>1, <2>3 DEF BatchFails, IInv, TypeOK
  <2>4. CASE BatchCommit(w)
    <3>1. batch[w] \in Batch /\ batch[w].todo \in SUBSET Submissions
            /\ batch[w].proj \in [Keys -> Counts]
      BY DEF IInv, TypeOK, Batch
    <3>2. ASSUME NEW k \in Keys PROVE Applied(w, k) \in Counts
      <4>1. ASSUME NEW d \in Decisions
            PROVE  batch[w].proj[k][d] + Signals(batch[w].todo, k, d) \in Nat
        <5>1. batch[w].proj[k][d] \in Nat
          BY <3>1 DEF Counts
        <5>2. Signals(batch[w].todo, k, d) \in Nat
          BY <3>1, SignalsType
        <5> QED
          BY <5>1, <5>2
      <4> QED
        BY <4>1 DEF Applied, Counts
    <3>3. proj' \in [Keys -> Counts]
      BY <2>4, <3>2 DEF BatchCommit, IInv, TypeOK
    <3>4. batch' \in [Workers -> Batch]
      BY <2>1, <2>4 DEF BatchCommit, IInv, TypeOK
    <3> QED
      BY <3>3, <3>4
  <2> QED
    BY <2>2, <2>3, <2>4 DEF Project
<1>4. TypeOK'
  BY <1>1, <1>2, <1>3 DEF IInv, TypeOK
<1>5. SessionFits'
  <2>1. \A s \in Submissions : ReviewEvolves(s) /\ (HasPassed(s) => HasPassed(s)')
    BY <1>1, <1>2 DEF ReviewEvolves, HasPassed
  <2> QED
    BY <1>1, <2>1, KeepSessions DEF IInv
<1>6. ReviewIsAssigned' /\ DecisionAgrees' /\ AcceptedIsValidated'
  BY <1>1, <1>2 DEF IInv, ReviewIsAssigned, DecisionAgrees, AcceptedIsValidated, HasPassed
<1>7. LoadIsPending'
  BY <1>1, <1>2, KeepLoads DEF IInv
<1> QED
  BY <1>2, <1>4, <1>5, <1>6, <1>7 DEF IInv

\* Executions, jobs and branches move: what was accepted stays validated, and
\* a cancel meets no decision but a requested revision.
LEMMA ElsewhereStep ==
  ASSUME IInv, NEW s \in Submissions, Elsewhere(s)
  PROVE  IInv' /\ review' = review
<1>1. UNCHANGED <<review, load, ses, proj, batch>>
  BY DEF Elsewhere, Validated, SubmitForReview, JobEnds, ForcePush, Cancel, Unread
<1>2. TypeOK'
  BY <1>1 DEF Elsewhere, Validated, SubmitForReview, JobEnds, ForcePush, Cancel,
              IInv, TypeOK, ExecStatus, Decisions
<1>3. \A t \in Submissions : HasPassed(t) => HasPassed(t)'
  BY DEF Elsewhere, Validated, SubmitForReview, JobEnds, ForcePush, Cancel,
         IInv, TypeOK, HasPassed
<1>4. SessionFits'
  BY <1>1, <1>3, KeepSessions DEF IInv, ReviewEvolves
<1>5. ReviewIsAssigned'
  BY <1>1 DEF IInv, ReviewIsAssigned
<1>6. \A t \in Submissions :
        \/ exec'[t] = exec[t]
        \/ exec[t] = "working" /\ exec'[t] = "reviewing"
        \/ exec[t] \in {"reviewing", "revision_requested"} /\ exec'[t] = "cancelled"
  BY DEF Elsewhere, Validated, SubmitForReview, JobEnds, ForcePush, Cancel,
         IInv, TypeOK
<1>7. DecisionAgrees'
  <2> SUFFICES ASSUME NEW t \in Submissions
               PROVE  /\ review[t].status = "submitted" =>
                           \/ exec'[t] = review[t].decision
                           \/ exec'[t] = "cancelled"
                                /\ review[t].decision = "revision_requested"
                      /\ exec'[t] \in Decisions => review[t].status = "submitted"
    BY <1>1 DEF DecisionAgrees
  <2>1. /\ review[t].status = "submitted" =>
             \/ exec[t] = review[t].decision
             \/ exec[t] = "cancelled" /\ review[t].decision = "revision_requested"
        /\ exec[t] \in Decisions => review[t].status = "submitted"
        /\ review[t].status = "submitted" => review[t].decision \in Decisions
    BY DEF IInv, DecisionAgrees, ReviewIsAssigned
  <2> QED
    BY <1>6, <2>1 DEF Decisions
<1>8. AcceptedIsValidated'
  BY <1>3, <1>6 DEF IInv, AcceptedIsValidated
<1>9. LoadIsPending'
  BY <1>1, KeepLoads DEF IInv
<1> QED
  BY <1>1, <1>2, <1>4, <1>5, <1>7, <1>8, <1>9 DEF IInv

-----------------------------------------------------------------------------
\* Every step preserves the invariant, and no step touches a submitted review
\* except to mark it as projected.
LEMMA NextIInv ==
  ASSUME IInv, [Next]_vars
  PROVE  /\ IInv'
         /\ \A s \in Submissions : review[s].status = "submitted" =>
              /\ review'[s].status = "submitted"
              /\ review'[s].reviewer = review[s].reviewer
              /\ review'[s].decision = review[s].decision
<1> DEFINE Stands == \A s \in Submissions : review[s].status = "submitted" =>
              /\ review'[s].status = "submitted"
              /\ review'[s].reviewer = review[s].reviewer
              /\ review'[s].decision = review[s].decision
<1>1. ASSUME NEW p \in Sessions, Serve(p) PROVE IInv' /\ Stands
  <2>1. CASE \E s \in Submissions : CreateRead(p, s) \/ \E d \in Decisions : DecideRead(p, s, d)
    BY <2>1, ReadStep DEF CreateRead, DecideRead
  <2>2. CASE CreateCommit(p)
    <3>1. \A s \in Submissions : review[s].status = "submitted" => review'[s] = review[s]
      BY <2>2 DEF CreateCommit, MayInsert, IInv, TypeOK
    <3> QED
      BY <2>2, <3>1, CreateStep
  <2>3. CASE DecideCommit(p)
    <3>1. IInv' /\ review[ses[p].s].status = "pending"
      BY <2>3, DecideStep, DecideFinds
    <3>2. \A s \in Submissions \ {ses[p].s} : review'[s] = review[s]
      BY <2>3, DecideStep
    <3> QED
      BY <3>1, <3>2
  <2>4. CASE Abort(p)
    BY <2>4, AbortStep DEF Abort
  <2> QED
    BY <1>1, <2>1, <2>2, <2>3, <2>4 DEF Serve
<1>2. ASSUME NEW w \in Workers, Project(w) PROVE IInv' /\ Stands
  BY <1>2, ProjectStep
<1>3. ASSUME NEW s \in Submissions, Elsewhere(s) PROVE IInv' /\ Stands
  BY <1>3, ElsewhereStep
<1>4. CASE UNCHANGED vars
  <2>1. IInv'
    BY <1>4 DEF vars, IInv, TypeOK, SessionFits, Fits, ReviewIsAssigned,
                DecisionAgrees, AcceptedIsValidated, HasPassed, LoadIsPending, PendingOf
  <2> QED
    BY <1>4, <2>1 DEF vars
<1> QED
  BY <1>1, <1>2, <1>3, <1>4 DEF Next

\* The invariant holds throughout, for every number of submissions, reviewers,
\* requests and workers.
THEOREM Invariance == Spec => []IInv
<1>1. IInv /\ [Next]_vars => IInv'
  BY NextIInv
<1> QED
  BY <1>1, InitIInv, PTL DEF Spec

\* A reviewer's load is the number of reviews that await his decision, however
\* many requests and decisions race (IncrementLoad, DecrementLoad).
THEOREM LoadIsExact == Spec => []LoadIsPending
<1>1. IInv => LoadIsPending
  BY DEF IInv
<1> QED
  BY <1>1, Invariance, PTL

\* Review and execution agree on the decision (applyDecisionToExecution).
THEOREM ReviewAndExecutionAgree == Spec => []DecisionAgrees
<1>1. IInv => DecisionAgrees
  BY DEF IInv
<1> QED
  BY <1>1, Invariance, PTL

\* No execution is accepted that has not passed its validation, although the
\* gates are read before the decision is written (SubmitDecision).
THEOREM AcceptedWasValidated == Spec => []AcceptedIsValidated
<1>1. IInv => AcceptedIsValidated
  BY DEF IInv
<1> QED
  BY <1>1, Invariance, PTL

\* A submitted review keeps its reviewer and its decision, although Update
\* overwrites the row whatever is in it.
THEOREM DecisionsStand == Spec => DecisionStands
<1>1. IInv /\ [Next]_vars =>
        [\A s \in Submissions : review[s].status = "submitted" =>
           /\ review'[s].status = "submitted"
           /\ review'[s].reviewer = review[s].reviewer
           /\ review'[s].decision = review[s].decision]_vars
  BY NextIInv
<1> QED
  BY <1>1, Invariance, PTL DEF Spec, DecisionStands

-----------------------------------------------------------------------------
(* The reputation worker: what is counted.                                   *)

\* A review is projected only after its decision, and no open request will
\* write a row that says otherwise.
MarksFit ==
  /\ \A s \in Submissions : review[s].projected => review[s].status = "submitted"
  /\ \A p \in Sessions : ses[p].op = "create" => ~ ses[p].row.projected

\* What the workers hold has been decided and not been counted, and nobody else
\* holds it (SKIP LOCKED).
BatchesFit ==
  /\ \A w \in Workers : \A s \in batch[w].todo :
       review[s].status = "submitted" /\ ~ review[s].projected
  /\ \A w, v \in Workers : w # v => batch[w].todo \cap batch[v].todo = {}

\* A worker that is the only one has the projections as they are.
ProjectionsCurrent ==
  Cardinality(Workers) = 1 =>
    \A w \in Workers : batch[w].todo # {} => batch[w].proj = proj

CountsInv == IInv /\ MarksFit /\ BatchesFit /\ ProjectionsCurrent /\ ReputationCounts

\* The reviews that have been counted.
Projected == {s \in Submissions : review[s].projected}

\* A mark is never taken back.
MarksStay == \A s \in Submissions : review[s].projected => review'[s].projected

\* A step that neither decides a counted review nor counts one leaves all
\* numbers alone.
LEMMA SameSignals ==
  ASSUME NEW todo, NEW k, NEW d,
         \A s \in todo : review'[s].decision = review[s].decision
  PROVE  Signals(todo, k, d)' = Signals(todo, k, d)
<1>1. {s \in todo : KeyOf[s] = k /\ review'[s].decision = d}
         = {s \in todo : KeyOf[s] = k /\ review[s].decision = d}
  OBVIOUS
<1> QED
  BY <1>1 DEF Signals

\* Disjoint reviews are counted one after the other.
LEMMA SignalsAdd ==
  ASSUME NEW S \in SUBSET Submissions, NEW T \in SUBSET Submissions, S \cap T = {},
         NEW k, NEW d
  PROVE  Signals(S \cup T, k, d) = Signals(S, k, d) + Signals(T, k, d)
<1> DEFINE Those(X) == {s \in X : KeyOf[s] = k /\ review[s].decision = d}
<1>1. Those(S) \in SUBSET Submissions /\ Those(T) \in SUBSET Submissions /\ IsFiniteSet(Submissions)
  BY ReviewAssumption
<1>2. IsFiniteSet(Those(S)) /\ IsFiniteSet(Those(T))
  BY <1>1, FS_Subset
<1>3. Those(S \cup T) = Those(S) \cup Those(T) /\ Those(S) \cap Those(T) = {}
  OBVIOUS
<1>4. Cardinality(Those(S) \cap Those(T)) = 0
  BY <1>3, FS_EmptySet
<1>5. Cardinality(Those(S)) \in Nat /\ Cardinality(Those(T)) \in Nat
  BY <1>2, FS_CardinalityType
<1> HIDE DEF Those
<1>6. Cardinality(Those(S \cup T)) = Cardinality(Those(S)) + Cardinality(Those(T))
  <2>1. Cardinality(Those(S) \cup Those(T))
          = Cardinality(Those(S)) + Cardinality(Those(T)) - Cardinality(Those(S) \cap Those(T))
    BY <1>2, FS_Union, Zenon
  <2>2. Cardinality(Those(S)) + Cardinality(Those(T)) - 0 = Cardinality(Those(S)) + Cardinality(Those(T))
    BY <1>5
  <2> QED
    BY <1>3, <1>4, <2>1, <2>2, Zenon
<1>7. /\ Signals(S \cup T, k, d) = Cardinality(Those(S \cup T))
      /\ Signals(S, k, d) = Cardinality(Those(S))
      /\ Signals(T, k, d) = Cardinality(Those(T))
  BY Zenon DEF Signals, Those
<1> QED
  BY <1>6, <1>7

\* Without a batch that is stored, nothing that was counted changes.
LEMMA UncountedStep ==
  ASSUME CountsInv, proj' = proj,
         \A s \in Submissions : /\ review'[s].projected = review[s].projected
                                /\ review[s].projected => review'[s].decision = review[s].decision
  PROVE  ReputationCounts' /\ MarksStay
<1>1. Projected' = Projected
  BY DEF Projected
<1>2. \A s \in Projected : review'[s].decision = review[s].decision
  BY DEF Projected
<1>3. ASSUME NEW k, NEW d PROVE Signals(Projected, k, d)' = Signals(Projected, k, d)
  <2>1. {s \in Projected' : KeyOf[s] = k /\ review'[s].decision = d}
           = {s \in Projected : KeyOf[s] = k /\ review[s].decision = d}
    BY <1>1, <1>2
  <2> QED
    BY <2>1 DEF Signals
<1>4. ReputationCounts'
  BY <1>3 DEF CountsInv, ReputationCounts, Projected
<1> QED
  BY <1>4 DEF MarksStay

\* A request writes no mark: what it inserts is not counted, and a decision
\* keeps the mark of the row.
LEMMA ServeCounts ==
  ASSUME CountsInv, NEW p \in Sessions, Serve(p)
  PROVE  /\ MarksFit' /\ BatchesFit' /\ ProjectionsCurrent'
         /\ proj' = proj
         /\ \A s \in Submissions : /\ review'[s].projected = review[s].projected
                                   /\ review[s].projected => review'[s].decision = review[s].decision
<1>1. proj' = proj /\ batch' = batch
  <2>1. CASE \E s \in Submissions : CreateRead(p, s) \/ \E d \in Decisions : DecideRead(p, s, d)
    BY <2>1, Zenon DEF CreateRead, DecideRead
  <2>2. CASE CreateCommit(p) \/ DecideCommit(p) \/ Abort(p)
    BY <2>2, Zenon DEF CreateCommit, DecideCommit, Abort
  <2> QED
    BY <2>1, <2>2, Zenon DEF Serve
<1>2. ProjectionsCurrent'
  BY <1>1 DEF CountsInv, ProjectionsCurrent
<1>3. ASSUME review' = review, \A q \in Sessions : ses'[q].op = "create" => ~ ses'[q].row.projected
      PROVE  MarksFit' /\ BatchesFit'
  BY <1>1, <1>3 DEF CountsInv, MarksFit, BatchesFit
<1>4. CASE \E s \in Submissions : CreateRead(p, s)
  <2>1. PICK s \in Submissions, r \in Reviewers : ses' = [ses EXCEPT ![p] =
                 [op |-> "create", s |-> s, decision |-> None,
                  row |-> [NoReview EXCEPT !.status = "pending", !.reviewer = r]]]
    BY <1>4, Zenon DEF CreateRead, Allocate
  <2>2. \A q \in Sessions : ses'[q].op = "create" => ~ ses'[q].row.projected
    BY <2>1 DEF CountsInv, MarksFit, NoReview, IInv, TypeOK
  <2> QED
    BY <1>1, <1>2, <1>3, <1>4, <2>2 DEF CreateRead
<1>5. CASE \E s \in Submissions, d \in Decisions : DecideRead(p, s, d)
  <2>1. \A q \in Sessions : ses'[q].op = "create" => ~ ses'[q].row.projected
    BY <1>5 DEF DecideRead, CountsInv, MarksFit, IInv, TypeOK
  <2> QED
    BY <1>1, <1>2, <1>3, <1>5, <2>1 DEF DecideRead
<1>6. CASE Abort(p)
  <2>1. \A q \in Sessions : ses'[q].op = "create" => ~ ses'[q].row.projected
    BY <1>6 DEF Abort, IdleSession, CountsInv, MarksFit, IInv, TypeOK
  <2> QED
    BY <1>1, <1>2, <1>3, <1>6, <2>1 DEF Abort
<1>7. CASE CreateCommit(p)
  <2>1. PICK s : s = ses[p].s
    OBVIOUS
  <2>2. /\ s \in Submissions /\ ses[p].row.status = "pending" /\ ~ ses[p].row.projected
        /\ review[s].status = "none" /\ ses[p].row \in ReviewRow
    BY <1>7, <2>1 DEF CreateCommit, MayInsert, CountsInv, MarksFit, IInv, SessionFits, Fits, TypeOK, Session
  <2>3. ~ review[s].projected /\ review[s] \in ReviewRow
    BY <2>2 DEF CountsInv, MarksFit, IInv, TypeOK
  <2>4. review'[s] = ses[p].row /\ \A t \in Submissions \ {s} : review'[t] = review[t]
    BY <1>7, <2>1, <2>2 DEF CreateCommit, CountsInv, IInv, TypeOK
  <2>5. \A t \in Submissions : review'[t].projected = review[t].projected
    BY <2>2, <2>3, <2>4 DEF ReviewRow
  <2>6. \A q \in Sessions : ses'[q].op = "create" => ~ ses'[q].row.projected
    BY <1>7 DEF CreateCommit, IdleSession, CountsInv, MarksFit, IInv, TypeOK
  <2>7. MarksFit'
    BY <2>2, <2>3, <2>4, <2>6 DEF CountsInv, MarksFit
  <2>8. \A w \in Workers : s \notin batch[w].todo
    BY <2>2 DEF CountsInv, BatchesFit
  <2>9. BatchesFit'
    BY <1>1, <2>4, <2>8 DEF CountsInv, BatchesFit, IInv, TypeOK, Batch
  <2> QED
    BY <1>1, <1>2, <2>3, <2>4, <2>5, <2>7, <2>9
<1>8. CASE DecideCommit(p)
  <2>1. PICK s : s = ses[p].s
    OBVIOUS
  <2>2. s \in Submissions /\ review[s].status = "pending"
    BY <1>8, <2>1, DecideFinds DEF CountsInv
  <2>3. review[s] \in ReviewRow /\ ses[p].row \in ReviewRow
    BY <2>2 DEF CountsInv, IInv, TypeOK, Session
  <2>4. ~ review[s].projected
    BY <2>2 DEF CountsInv, MarksFit
  <2>5. /\ review'[s].status = "submitted" /\ review'[s].projected = review[s].projected
        /\ \A t \in Submissions \ {s} : review'[t] = review[t]
    BY <1>8, <2>1, <2>2, <2>3 DEF DecideCommit, Submit, CountsInv, IInv, TypeOK, ReviewRow
  <2>6. \A q \in Sessions : ses'[q].op = "create" => ~ ses'[q].row.projected
    BY <1>8 DEF DecideCommit, IdleSession, CountsInv, MarksFit, IInv, TypeOK
  <2>7. MarksFit'
    BY <2>4, <2>5, <2>6 DEF CountsInv, MarksFit
  <2>8. \A w \in Workers : s \notin batch[w].todo
    BY <2>2 DEF CountsInv, BatchesFit
  <2>9. BatchesFit'
    BY <1>1, <2>5, <2>8 DEF CountsInv, BatchesFit, IInv, TypeOK, Batch
  <2> QED
    BY <1>1, <1>2, <2>4, <2>5, <2>7, <2>9
<1> QED
  BY <1>4, <1>5, <1>6, <1>7, <1>8 DEF Serve

\* A batch takes what nobody holds and reads the projections as they are; a
\* batch that fails stores nothing.
LEMMA BatchOpens ==
  ASSUME CountsInv, NEW w \in Workers, BatchRead(w) \/ BatchFails(w)
  PROVE  MarksFit' /\ BatchesFit' /\ ProjectionsCurrent' /\ review' = review /\ proj' = proj
<1>1. review' = review /\ proj' = proj /\ ses' = ses
  BY DEF BatchRead, BatchFails
<1>2. MarksFit'
  BY <1>1 DEF CountsInv, MarksFit
<1>3. PICK todo \in SUBSET Unprojected, q \in [Keys -> Counts] :
         /\ batch' = [batch EXCEPT ![w] = [todo |-> todo, proj |-> q]]
         /\ todo # {} => q = proj
  BY DEF BatchRead, BatchFails, NoBatch, NoCounts, Counts, CountsInv, IInv, TypeOK
<1>4. /\ batch'[w] = [todo |-> todo, proj |-> q]
      /\ \A v \in Workers \ {w} : batch'[v] = batch[v]
  BY <1>3 DEF CountsInv, IInv, TypeOK
<1>5. \A s \in todo : /\ s \in Submissions /\ review[s].status = "submitted" /\ ~ review[s].projected
                      /\ \A v \in Workers : s \notin batch[v].todo
  BY DEF Unprojected, Lock
<1>6. BatchesFit'
  BY <1>1, <1>4, <1>5 DEF CountsInv, BatchesFit
<1>7. ProjectionsCurrent'
  BY <1>1, <1>3, <1>4 DEF CountsInv, ProjectionsCurrent
<1> QED
  BY <1>1, <1>2, <1>6, <1>7

\* A batch that is stored adds what it marks, once.
LEMMA BatchCounts ==
  ASSUME CountsInv, NEW w \in Workers, BatchCommit(w)
  PROVE  /\ MarksFit' /\ BatchesFit' /\ ProjectionsCurrent' /\ ReputationCounts'
         /\ MarksStay
<1>1. PICK todo : todo = batch[w].todo
  OBVIOUS
<1>2. /\ todo \in SUBSET Submissions /\ todo # {}
      /\ \A s \in todo : review[s].status = "submitted" /\ ~ review[s].projected
      /\ \A v \in Workers \ {w} : todo \cap batch[v].todo = {}
  BY <1>1 DEF BatchCommit, CountsInv, BatchesFit, IInv, TypeOK, Batch
<1>3. ASSUME NEW s \in Submissions
      PROVE  /\ review'[s].status = review[s].status
             /\ review'[s].decision = review[s].decision
             /\ review'[s].projected = (s \in todo \/ review[s].projected)
  <2>1. review[s] \in ReviewRow
    BY DEF CountsInv, IInv, TypeOK
  <2>2. review'[s] = IF s \in todo THEN [review[s] EXCEPT !.projected = TRUE] ELSE review[s]
    BY <1>1 DEF BatchCommit
  <2> QED
    BY <2>1, <2>2 DEF ReviewRow
<1>4. /\ batch'[w] = NoBatch
      /\ \A v \in Workers \ {w} : batch'[v] = batch[v]
  BY DEF BatchCommit, CountsInv, IInv, TypeOK
<1>5. MarksFit'
  BY <1>2, <1>3 DEF BatchCommit, CountsInv, MarksFit
<1>6. BatchesFit'
  <2>1. ASSUME NEW v \in Workers, NEW s \in batch'[v].todo
        PROVE  review'[s].status = "submitted" /\ ~ review'[s].projected
    <3>1. v # w /\ batch'[v] = batch[v] /\ batch[v] \in Batch
      BY <1>4 DEF NoBatch, CountsInv, IInv, TypeOK
    <3>2. s \in Submissions /\ s \notin todo /\ review[s].status = "submitted" /\ ~ review[s].projected
      BY <1>2, <3>1 DEF Batch, CountsInv, BatchesFit
    <3> QED
      BY <1>3, <3>2
  <2>2. \A u, v \in Workers : u # v => batch'[u].todo \cap batch'[v].todo = {}
    BY <1>4 DEF NoBatch, CountsInv, BatchesFit
  <2> QED
    BY <2>1, <2>2 DEF BatchesFit
<1>7. Cardinality(Workers) = 1 => \A v \in Workers : v = w
  BY ReviewAssumption, FS_Singleton
<1>8. ProjectionsCurrent'
  BY <1>4, <1>7 DEF ProjectionsCurrent, NoBatch
<1>9. ReputationCounts'
  <2> SUFFICES ASSUME NEW k \in Keys, NEW d \in Decisions, Cardinality(Workers) = 1
               PROVE  proj'[k][d] = Signals({s \in Submissions : review[s].projected}, k, d)'
    BY DEF ReputationCounts
  <2>1. Projected' = Projected \cup todo /\ Projected \cap todo = {} /\ Projected \in SUBSET Submissions
    BY <1>2, <1>3 DEF Projected
  <2>2. Signals(Projected, k, d)' = Signals(Projected \cup todo, k, d)
    <3>1. {s \in Projected' : KeyOf[s] = k /\ review'[s].decision = d}
             = {s \in Projected \cup todo : KeyOf[s] = k /\ review[s].decision = d}
      BY <1>2, <1>3, <2>1
    <3> QED
      BY <3>1 DEF Signals
  <2>3. Signals(Projected \cup todo, k, d) = Signals(Projected, k, d) + Signals(todo, k, d)
    BY <1>2, <2>1, SignalsAdd
  <2>4. proj[k][d] = Signals(Projected, k, d)
    BY DEF CountsInv, ReputationCounts, Projected
  <2>5. batch[w].proj = proj
    BY <1>1, <1>2 DEF CountsInv, ProjectionsCurrent
  <2>6. CASE k \in {KeyOf[s] : s \in todo}
    <3>1. proj'[k] = Applied(w, k)
      BY <1>1, <2>6 DEF BatchCommit
    <3>2. proj'[k][d] = proj[k][d] + Signals(todo, k, d)
      BY <1>1, <2>5, <3>1 DEF Applied
    <3> QED
      BY <2>2, <2>3, <2>4, <3>2 DEF Projected
  <2>7. CASE k \notin {KeyOf[s] : s \in todo}
    <3>1. proj'[k] = proj[k]
      BY <1>1, <2>7 DEF BatchCommit
    <3>2. {s \in todo : KeyOf[s] = k /\ review[s].decision = d} = {}
      BY <2>7
    <3>3. Signals(todo, k, d) = 0
      BY <3>2, FS_EmptySet DEF Signals
    <3>4. Signals(Projected, k, d) \in Nat
      BY <2>1, SignalsType
    <3> QED
      BY <2>2, <2>3, <2>4, <3>1, <3>3, <3>4 DEF Projected
  <2> QED
    BY <2>6, <2>7
<1>10. MarksStay
  BY <1>3 DEF MarksStay
<1> QED
  BY <1>5, <1>6, <1>8, <1>9, <1>10

\* Every step preserves the counts and the marks.
LEMMA NextCounts ==
  ASSUME CountsInv, [Next]_vars
  PROVE  CountsInv' /\ MarksStay
<1> DEFINE Goal == /\ MarksFit' /\ BatchesFit' /\ ProjectionsCurrent' /\ ReputationCounts'
                   /\ MarksStay
<1>1. IInv'
  BY NextIInv DEF CountsInv
<1>2. ASSUME NEW p \in Sessions, Serve(p) PROVE Goal
  BY <1>2, ServeCounts, UncountedStep
<1>3. ASSUME NEW w \in Workers, Project(w) PROVE Goal
  <2>1. CASE BatchCommit(w)
    BY <2>1, BatchCounts
  <2>2. CASE BatchRead(w) \/ BatchFails(w)
    BY <2>2, BatchOpens, UncountedStep
  <2> QED
    BY <1>3, <2>1, <2>2 DEF Project
<1>4. ASSUME UNCHANGED <<review, load, ses, proj, batch>> PROVE Goal
  <2>1. MarksFit' /\ BatchesFit' /\ ProjectionsCurrent'
    BY <1>4 DEF CountsInv, MarksFit, BatchesFit, ProjectionsCurrent
  <2>2. review' = review /\ proj' = proj
    BY <1>4
  <2>3. ReputationCounts' /\ MarksStay
    BY <2>2, UncountedStep
  <2> QED
    BY <2>1, <2>3
<1>5. ASSUME NEW s \in Submissions, Elsewhere(s) PROVE UNCHANGED <<review, load, ses, proj, batch>>
  BY <1>5, Zenon DEF Elsewhere, Validated, SubmitForReview, JobEnds, ForcePush, Cancel, Unread
<1> HIDE DEF Goal
<1>6. Goal
  BY <1>2, <1>3, <1>4, <1>5 DEF Next, vars
<1> USE DEF Goal
<1> QED
  BY <1>1, <1>6 DEF CountsInv

\* At first nothing is decided and nothing is counted.
LEMMA InitCounts == Init => CountsInv
<1> SUFFICES ASSUME Init PROVE CountsInv
  OBVIOUS
<1>1. IInv
  BY InitIInv
<1>2. MarksFit
  BY DEF Init, MarksFit, NoReview, IdleSession
<1>3. BatchesFit /\ ProjectionsCurrent
  BY DEF Init, BatchesFit, ProjectionsCurrent, NoBatch
<1>4. ReputationCounts
  <2> SUFFICES ASSUME NEW k \in Keys, NEW d \in Decisions
               PROVE  proj[k][d] = Signals({s \in Submissions : review[s].projected}, k, d)
    BY DEF ReputationCounts
  <2>1. {s \in {t \in Submissions : review[t].projected} : KeyOf[s] = k /\ review[s].decision = d} = {}
    BY DEF Init, NoReview
  <2>2. Signals({s \in Submissions : review[s].projected}, k, d) = 0
    BY <2>1, FS_EmptySet DEF Signals
  <2>3. proj[k][d] = 0
    BY DEF Init, NoCounts
  <2> QED
    BY <2>2, <2>3
<1> QED
  BY <1>1, <1>2, <1>3, <1>4 DEF CountsInv

\* The projections and the marks stay together, with any number of requests and
\* submissions.
THEOREM CountsHold == Spec => []CountsInv
<1>1. CountsInv /\ [Next]_vars => CountsInv'
  BY NextCounts
<1> QED
  BY <1>1, InitCounts, PTL DEF Spec

\* With one worker, the projections count exactly the reviews marked as
\* projected, however many batches fail (RunOnce).
THEOREM CountsAreExact == Spec => []ReputationCounts
<1>1. CountsInv => ReputationCounts
  BY DEF CountsInv
<1> QED
  BY <1>1, CountsHold, PTL

\* A review that has been counted is counted for good: the part of
\* ReputationFollows that needs no fairness.
CountedForGood ==
  \A s \in Submissions : [](review[s].projected => [](review[s].projected /\ ReputationCounts))

\* The marks are never taken back (MarkProjected is the only writer of
\* projected_at), and the projections agree with them ever after.
THEOREM OnceCountedAlways == Spec => CountedForGood
<1> SUFFICES ASSUME NEW s \in Submissions
             PROVE  Spec => [](review[s].projected => [](review[s].projected /\ ReputationCounts))
  BY DEF CountedForGood
<1>1. CountsInv /\ [Next]_vars => (review[s].projected => (review[s].projected)')
  BY NextCounts DEF MarksStay
<1>2. CountsInv => ReputationCounts
  BY DEF CountsInv
<1> QED
  BY <1>1, <1>2, CountsHold, PTL DEF Spec

-----------------------------------------------------------------------------
(* Issue synchronisation: the inductive invariant.                           *)

\* The places of a run that is at one issue.
Handling == {"look", "publish", "map", "status", "cancel", "update", "refresh"}

\* The issues a run still has to see to, as it listed them.
Held(q) == q.todo \cup (IF q.at \in Handling THEN {q.cur} ELSE {})

\* Issues and their versions.
IssueRows ==
  /\ \A i \in Issues : issue[i].at <= clock /\ (issue[i].state # "none" => issue[i].ver # 0)
  /\ \A k \in Rules, i \in Issues : done[k][i] <= issue[i].ver /\ failed[k][i] <= issue[i].ver
  /\ \A r \in Runners : \A x \in Held(run[r]) : x.ver <= issue[x.i].ver

\* Tasks are numbered without a gap, and the record of the request that is
\* remembered is the one of the rule's last task.
TaskRows ==
  /\ \A t, u \in TaskIds : t < u /\ task[u].status # "none" => task[t].status # "none"
  /\ \A t \in TaskIds : task[t].status # "none" =>
       /\ task[t].of \in Issues /\ task[t].key \in Rules
       /\ 0 < task[t].born /\ task[t].born <= record[task[t].key][task[t].of].born

\* A task that is named is there, and it is a task of that issue.
TaskOf(t, i) == t \in TaskIds /\ task[t].of = i /\ task[t].status # "none"

RecordNames ==
  \A k \in Rules, i \in Issues : record[k][i] # NoRecord =>
    TaskOf(record[k][i].task, i) /\ record[k][i].born <= clock

MappingNames ==
  \A i \in Issues : mapping[i] # NoMapping =>
    TaskOf(mapping[i].task, i) /\ mapping[i].state \in IssueStates

RunNames(q) == q.at \in Handling \ {"look", "publish"} => TaskOf(q.map.task, q.cur.i)

NamesFit == RecordNames /\ MappingNames /\ \A r \in Runners : RunNames(run[r])

RetentionInv == SyncTypeOK /\ IssueRows /\ TaskRows /\ NamesFit /\ OneTaskPerRetention

\* An issue as it is now has been processed, or its processing failed.
SeenTo(k, i) == issue[i].ver \in {done[k][i], failed[k][i]}

\* What a rule asks for and changed before the given time has been seen to.
Covered(k, i, n) == Matches(rule[k], i) /\ issue[i].at < n => SeenTo(k, i)

\* A run whose rule is as it loaded it.
RuleFits(q) ==
  /\ rule[q.k].row = "live" /\ rule[q.k].filter = q.rule.filter
  /\ rule[q.k].dedupe = q.rule.dedupe
  /\ q.now <= clock

\* What a run passes over has been seen to.
RunCovers(q) ==
  /\ q.at = "list" => q.rule.cursor <= clock /\ \A i \in Issues : Covered(q.k, i, q.rule.cursor)
  /\ q.at \notin {"idle", "list"} =>
       \A i \in Issues : \/ Covered(q.k, i, q.now)
                         \/ \E x \in Held(q) : x.i = i /\ x.ver = issue[i].ver
  /\ q.at = "touch" => q.todo = {}

CursorInv ==
  /\ admin = NotEditing
  /\ \A k \in Rules :
       /\ rule[k].row = "new" => \A i \in Issues : done[k][i] = 0
       /\ rule[k].row = "live" =>
            rule[k].cursor <= clock /\ \A i \in Issues : Covered(k, i, rule[k].cursor)
  /\ \A r \in Runners : run[r].at # "idle" => RuleFits(run[r]) /\ RunCovers(run[r])

\* A task that is on offer as the issue is.
OnOffer(t, x, k) ==
  task[t].status = "open" /\ ~task[t].again =>
    x.state = "open" /\ (rule[k].dedupe = "update" => task[t].content = x.ver)

\* An issue as the only run has it is the latest that anybody has seen of it.
Latest(x) ==
  /\ x.ver = issue[x.i].ver => x.state = issue[x.i].state
  /\ \A k \in Rules : done[k][x.i] <= x.ver
  /\ \A t \in TaskIds : TaskOf(t, x.i) => task[t].content <= x.ver

\* Where the only run is with its issue.
AtIssue(q) ==
  /\ q.at \in {"publish", "map"} => mapping[q.cur.i] = NoMapping /\ q.cur.state = "open"
  /\ q.at = "map" => task[q.map.task].content = q.cur.ver
  /\ q.at \in {"status", "cancel", "update", "refresh"} =>
       mapping[q.cur.i] = q.map /\ q.map # NoMapping
  /\ q.at = "update" => q.cur.state = "open"
  /\ q.at = "refresh" => OnOffer(q.map.task, q.cur, q.k)

\* What the only run has in memory: no issue twice.
Carries(q) ==
  /\ \A x \in Held(q) : Latest(x)
  /\ \A x, y \in q.todo : x.i = y.i => x = y
  /\ q.at \in Handling => \A x \in q.todo : x.i # q.cur.i
  /\ AtIssue(q)

\* Contents are of versions that the issue has had, and a task does not go back
\* behind the request that published it.
ContentsFit ==
  /\ \A t \in TaskIds, i \in Issues : TaskOf(t, i) => task[t].content <= issue[i].ver
  /\ \A k \in Rules, i \in Issues : record[k][i] # NoRecord =>
       record[k][i].ver <= task[record[k][i].task].content

AllReflected ==
  \A k \in Rules, i \in Issues :
    /\ rule[k].row = "live" /\ done[k][i] = issue[i].ver /\ Matches(rule[k], i)
    => Reflects(k, i)

AloneInv ==
  /\ \A r \in Runners : r # Ticker => run[r].at = "idle"
  /\ Carries(run[Ticker])
  /\ ContentsFit
  /\ AllReflected

SyncInv ==
  /\ RetentionInv
  /\ ~ setting.edits => CursorInv
  /\ Alone => AloneInv

-----------------------------------------------------------------------------
(* Types.                                                                    *)

LEMMA RestFits == AtRest \in Run /\ AtRest.at = "idle" /\ AtRest.cur \in Listed
<1>1. \E k \in Rules : k = (CHOOSE x \in Rules : TRUE)
  BY SyncAssumption
<1>2. \E i \in Issues : i = (CHOOSE x \in Issues : TRUE)
  BY SyncAssumption
<1>3. NewRule \in Rule /\ NoMapping \in Mapping /\ 0 \in 0 .. MaxClock
  BY SyncAssumption DEF NewRule, Rule, NoMapping, Mapping, IssueStates
<1>4. 1 \in 1 .. MaxVer /\ "open" \in IssueStates
  BY SyncAssumption DEF IssueStates
<1>5. AtRest.cur \in Listed
  BY <1>2, <1>4 DEF AtRest, Listed
<1> QED
  BY <1>1, <1>3, <1>5 DEF AtRest, Run, Places

\* What is not above two numbers is not above the one that is taken of them.
LEMMA Rises ==
  ASSUME NEW a \in Nat, NEW m \in Nat, NEW n \in Nat, NEW x \in {m, n}, a <= m, m <= n
  PROVE  a <= x
OBVIOUS

\* What is over for the later of two times is over for the earlier one.
LEMMA NotBefore ==
  ASSUME NEW a \in Nat, NEW m \in Nat, NEW n \in Nat, NEW span \in Nat,
         a <= m, ~ (n < m + span)
  PROVE  n >= a + span
OBVIOUS

\* The larger of two numbers.
LEMMA Larger ==
  ASSUME NEW m \in Nat, NEW n \in Nat
  PROVE  /\ Max({m, n}) \in {m, n}
         /\ m <= Max({m, n}) /\ n <= Max({m, n})
<1> DEFINE Top(x) == x \in {m, n} /\ \A y \in {m, n} : x >= y
<1>1. \E x : Top(x)
  <2>1. CASE m >= n
    BY <2>1
  <2>2. CASE n >= m
    BY <2>2
  <2> QED
    BY <2>1, <2>2
<1>2. Max({m, n}) = CHOOSE x : Top(x)
  BY Zenon DEF Max
<1>3. Top(Max({m, n}))
  BY <1>1, <1>2, Zenon
<1> QED
  BY <1>3

\* The step of one run: it is at another place, or goes to its next issue.
Moved(r, q) == q \in Run /\ run' = [run EXCEPT ![r] = q]

LEMMA BetweenFits ==
  ASSUME NEW q \in Run
  PROVE  /\ Between(q) \in Run
         /\ Between(q).at = "next" /\ Between(q).todo = q.todo
         /\ Between(q).k = q.k /\ Between(q).now = q.now /\ Between(q).rule = q.rule
<1>1. AtRest.cur \in Listed /\ NoMapping \in Mapping
  BY RestFits, SyncAssumption DEF NoMapping, Mapping, IssueStates
<1>2. PICK x \in Listed : x = AtRest.cur
  BY <1>1
<1>3. Between(q) = [q EXCEPT !.at = "next", !.cur = x, !.map = NoMapping]
  BY <1>2, Zenon DEF Between
<1> QED
  BY <1>1, <1>3 DEF Run, Places

\* A run that is through with an issue.
LEMMA ProcessedStep ==
  ASSUME SyncTypeOK, NEW r \in Runners, Processed(r)
  PROVE  /\ Moved(r, Between(run[r]))
         /\ done' \in [Rules -> [Issues -> 0 .. MaxVer]] /\ failed' = failed
         /\ \A k \in Rules, i \in Issues :
              IF k = run[r].k /\ i = run[r].cur.i
                THEN /\ done'[k][i] \in {done[k][i], run[r].cur.ver}
                     /\ done[k][i] <= done'[k][i] /\ run[r].cur.ver <= done'[k][i]
                ELSE done'[k][i] = done[k][i]
<1> DEFINE k == run[r].k
           i == run[r].cur.i
           n == Max({done[k][i], run[r].cur.ver})
<1>1. /\ run[r] \in Run /\ k \in Rules /\ i \in Issues
      /\ run[r].cur.ver \in 0 .. MaxVer /\ done[k][i] \in 0 .. MaxVer
  BY SyncAssumption DEF SyncTypeOK, Run, Listed
<1>2. /\ n \in {done[k][i], run[r].cur.ver}
      /\ done[k][i] <= n /\ run[r].cur.ver <= n
  <2>1. done[k][i] \in Nat /\ run[r].cur.ver \in Nat
    BY <1>1, SyncAssumption
  <2> QED
    BY <2>1, Larger, Zenon
<1>3. n \in 0 .. MaxVer
  BY <1>1, <1>2
<1>4. done' = [done EXCEPT ![k][i] = n]
  BY Zenon DEF Processed
<1> HIDE DEF n
<1>5. done' \in [Rules -> [Issues -> 0 .. MaxVer]]
  BY <1>1, <1>3, <1>4 DEF SyncTypeOK
<1>6. \A l \in Rules, j \in Issues :
        done'[l][j] = IF l = k /\ j = i THEN n ELSE done[l][j]
  BY <1>1, <1>3, <1>4 DEF SyncTypeOK
<1>7. Moved(r, Between(run[r]))
  BY <1>1, BetweenFits DEF Moved, Processed
<1> QED
  BY <1>2, <1>5, <1>6, <1>7 DEF Processed

\* An error is counted.
LEMMA CountedStep ==
  ASSUME SyncTypeOK, NEW r \in Runners, Counted(r)
  PROVE  /\ Moved(r, Between(run[r]))
         /\ failed' \in [Rules -> [Issues -> 0 .. MaxVer]] /\ done' = done
         /\ \A k \in Rules, i \in Issues :
              IF k = run[r].k /\ i = run[r].cur.i
                THEN /\ failed'[k][i] \in {failed[k][i], run[r].cur.ver}
                     /\ failed[k][i] <= failed'[k][i] /\ run[r].cur.ver <= failed'[k][i]
                ELSE failed'[k][i] = failed[k][i]
<1> DEFINE k == run[r].k
           i == run[r].cur.i
           n == Max({failed[k][i], run[r].cur.ver})
<1>1. /\ run[r] \in Run /\ k \in Rules /\ i \in Issues
      /\ run[r].cur.ver \in 0 .. MaxVer /\ failed[k][i] \in 0 .. MaxVer
  BY SyncAssumption DEF SyncTypeOK, Run, Listed
<1>2. /\ n \in {failed[k][i], run[r].cur.ver}
      /\ failed[k][i] <= n /\ run[r].cur.ver <= n
  <2>1. failed[k][i] \in Nat /\ run[r].cur.ver \in Nat
    BY <1>1, SyncAssumption
  <2> QED
    BY <2>1, Larger, Zenon
<1>3. n \in 0 .. MaxVer
  BY <1>1, <1>2
<1>4. failed' = [failed EXCEPT ![k][i] = n]
  BY Zenon DEF Counted
<1> HIDE DEF n
<1>5. failed' \in [Rules -> [Issues -> 0 .. MaxVer]]
  BY <1>1, <1>3, <1>4 DEF SyncTypeOK
<1>6. \A l \in Rules, j \in Issues :
        failed'[l][j] = IF l = k /\ j = i THEN n ELSE failed[l][j]
  BY <1>1, <1>3, <1>4 DEF SyncTypeOK
<1>7. Moved(r, Between(run[r]))
  BY <1>1, BetweenFits DEF Moved, Counted
<1> QED
  BY <1>2, <1>5, <1>6, <1>7 DEF Counted

\* A run goes on with what it has.
LEMMA GoesStep ==
  ASSUME SyncTypeOK, NEW r \in Runners, NEW place \in Places, Goes(r, place)
  PROVE  \E q \in Run : /\ Moved(r, q) /\ q.at = place /\ UNCHANGED <<done, failed>>
                        /\ q.k = run[r].k /\ q.rule = run[r].rule /\ q.now = run[r].now
                        /\ q.todo = run[r].todo /\ q.cur = run[r].cur /\ q.map = run[r].map
<1>1. run[r] \in Run
  BY DEF SyncTypeOK
<1>2. PICK q : q = [run[r] EXCEPT !.at = place]
  OBVIOUS
<1>3. /\ q \in Run /\ q.at = place
      /\ q.k = run[r].k /\ q.rule = run[r].rule /\ q.now = run[r].now
      /\ q.todo = run[r].todo /\ q.cur = run[r].cur /\ q.map = run[r].map
  BY <1>1, <1>2 DEF Run
<1>4. run' = [run EXCEPT ![r] = q]
  BY <1>2, Zenon DEF Goes
<1> QED
  BY <1>3, <1>4 DEF Goes, Moved

-----------------------------------------------------------------------------
(* What the steps of a run do.                                               *)

\* A run that goes on: what it knows of its rule stays, and it does not come by
\* issues that it has not listed.
Onward(r, q) ==
  /\ Moved(r, q) /\ run[r].at \notin {"idle", "list"} /\ q.at \notin {"idle", "list"}
  /\ q.k = run[r].k /\ q.rule = run[r].rule /\ q.now = run[r].now
  /\ Held(q) \subseteq Held(run[r]) /\ q.todo \subseteq run[r].todo

Others == <<clock, issue, rule, mapping, task, record, admin, setting>>

\* The rule is loaded and the time is read.
LEMMA RunRuleStep ==
  ASSUME SyncTypeOK, NEW r \in Runners, NEW k \in Rules, RunRule(r, k)
  PROVE  \E q \in Run :
           /\ Moved(r, q) /\ q.at = "list" /\ q.k = k /\ q.rule = rule[k] /\ q.now = clock
           /\ Held(q) = {} /\ rule[k].row = "live" /\ r \in setting.runs
           /\ UNCHANGED <<Others, done, failed>>
<1>1. /\ AtRest \in Run /\ AtRest.todo = {} /\ rule[k] \in Rule /\ clock \in 0 .. MaxClock
  BY RestFits DEF SyncTypeOK, AtRest
<1>2. PICK a \in Run : a = AtRest
  BY <1>1
<1>3. PICK q : q = [a EXCEPT !.at = "list", !.k = k, !.rule = rule[k], !.now = clock]
  OBVIOUS
<1>4. /\ q \in Run /\ q.at = "list" /\ q.k = k /\ q.rule = rule[k] /\ q.now = clock
      /\ q.todo = {}
  BY <1>1, <1>2, <1>3 DEF Run, Places
<1>5. run' = [run EXCEPT ![r] = q]
  BY <1>2, <1>3, Zenon DEF RunRule
<1> QED
  BY <1>4, <1>5 DEF RunRule, Moved, Others, Held, Handling

\* The issues are listed.
LEMMA FetchStep ==
  ASSUME SyncTypeOK, IssueRows, NEW r \in Runners, Fetch(r)
  PROVE  \E q \in Run :
           /\ Moved(r, q) /\ run[r].at = "list" /\ q.at = "next"
           /\ q.k = run[r].k /\ q.now = run[r].now
           /\ q.rule.filter = run[r].rule.filter /\ q.rule.dedupe = run[r].rule.dedupe
           /\ Held(q) = ListIssues(run[r].rule) /\ q.todo = ListIssues(run[r].rule)
           /\ UNCHANGED <<Others, done, failed>>
<1> DEFINE c == run[r].rule
<1>1. run[r] \in Run /\ c \in Rule /\ 0 \in 0 .. MaxClock
  BY SyncAssumption DEF SyncTypeOK, Run
<1>2. ListIssues(c) \subseteq Listed
  <2> SUFFICES ASSUME NEW i \in Issues, Matches(c, i)
               PROVE  [i |-> i, state |-> issue[i].state, ver |-> issue[i].ver] \in Listed
    BY DEF ListIssues, Changed
  <2>1. issue[i] \in Issue /\ issue[i].state \in IssueStates /\ issue[i].ver # 0
    BY DEF SyncTypeOK, Matches, IssueStates, IssueRows
  <2>2. issue[i].ver \in 1 .. MaxVer
    BY <2>1, SyncAssumption DEF Issue
  <2> QED
    BY <2>1, <2>2 DEF Listed
<1>3. PICK d : d = [c EXCEPT !.cursor = 0]
  OBVIOUS
<1>4. d \in Rule /\ d.filter = c.filter /\ d.dedupe = c.dedupe
  BY <1>1, <1>3 DEF Rule
<1>5. PICK q : q = [run[r] EXCEPT !.at = "next", !.todo = ListIssues(c), !.rule = d]
  OBVIOUS
<1>6. /\ q \in Run /\ q.at = "next" /\ q.k = run[r].k /\ q.now = run[r].now /\ q.rule = d
      /\ q.todo = ListIssues(c)
  BY <1>1, <1>2, <1>4, <1>5 DEF Run, Places
<1>7. run' = [run EXCEPT ![r] = q]
  BY <1>3, <1>5, Zenon DEF Fetch
<1>8. Held(q) = ListIssues(c)
  BY <1>6 DEF Held, Handling
<1>9. Moved(r, q)
  BY <1>6, <1>7 DEF Moved
<1>10. run[r].at = "list" /\ UNCHANGED <<Others, done, failed>>
  BY DEF Fetch, Others
<1> QED
  BY <1>1, <1>4, <1>6, <1>8, <1>9, <1>10

\* A run takes up one of its issues, or is through with all of them.
LEMMA NextIssueStep ==
  ASSUME SyncTypeOK, NEW r \in Runners, NextIssue(r)
  PROVE  \E q \in Run :
           /\ Onward(r, q) /\ Held(q) = Held(run[r])
           /\ run[r].at = "next"
           /\ \/ q.at = "touch" /\ q.todo = {}
              \/ q.at = "look" /\ q.cur \notin q.todo
           /\ UNCHANGED <<Others, done, failed>>
<1>1. run[r] \in Run
  BY DEF SyncTypeOK
<1>2. CASE run[r].todo = {}
  <2>1. PICK q : q = [run[r] EXCEPT !.at = "touch"]
    OBVIOUS
  <2>2. q \in Run /\ q.at = "touch" /\ q.k = run[r].k /\ q.rule = run[r].rule
        /\ q.now = run[r].now /\ q.todo = run[r].todo
    BY <1>1, <2>1 DEF Run, Places
  <2>3. run' = [run EXCEPT ![r] = q]
    BY <1>2, <2>1, Zenon DEF NextIssue
  <2> QED
    BY <1>2, <2>2, <2>3 DEF NextIssue, Onward, Moved, Others, Held, Handling
<1>3. CASE run[r].todo # {}
  <2>1. PICK x \in run[r].todo :
          run' = [run EXCEPT ![r] = [@ EXCEPT !.at = "look", !.cur = x, !.todo = run[r].todo \ {x}]]
    BY <1>3 DEF NextIssue
  <2>2. PICK q : q = [run[r] EXCEPT !.at = "look", !.cur = x, !.todo = run[r].todo \ {x}]
    OBVIOUS
  <2>3. q \in Run /\ q.at = "look" /\ q.k = run[r].k /\ q.rule = run[r].rule
        /\ q.now = run[r].now /\ q.todo = run[r].todo \ {x} /\ q.cur = x
    BY <1>1, <2>2 DEF Run, Places
  <2>4. run' = [run EXCEPT ![r] = q]
    BY <2>1, <2>2, Zenon
  <2>5. Held(q) = Held(run[r]) /\ run[r].at = "next"
    BY <2>3 DEF Held, Handling, NextIssue
  <2>6. Onward(r, q)
    BY <2>3, <2>4, <2>5 DEF Onward, Moved
  <2>7. q.cur \notin q.todo
    BY <2>3
  <2> QED
    BY <2>3, <2>5, <2>6, <2>7 DEF NextIssue, Others
<1> QED
  BY <1>2, <1>3

\* A run that is through with an issue goes on with the rest.
LEMMA BetweenStep ==
  ASSUME SyncTypeOK, NEW r \in Runners, run[r].at \in Handling,
         Moved(r, Between(run[r]))
  PROVE  \E q \in Run : /\ Onward(r, q) /\ q.at = "next" /\ q.todo = run[r].todo
                        /\ Held(q) = run[r].todo
<1>1. run[r] \in Run
  BY DEF SyncTypeOK
<1>2. PICK q : q = Between(run[r])
  OBVIOUS
<1> QED
  BY <1>1, <1>2, BetweenFits DEF Onward, Held, Handling

\* A run goes to another place with its issue.
LEMMA AtIssueStep ==
  ASSUME SyncTypeOK, NEW r \in Runners, run[r].at \in Handling,
         NEW place \in Handling, Goes(r, place)
  PROVE  \E q \in Run : /\ Onward(r, q) /\ q.at = place /\ UNCHANGED <<done, failed>>
                        /\ q.todo = run[r].todo /\ q.cur = run[r].cur /\ q.map = run[r].map
<1>1. place \in Places
  BY DEF Handling, Places
<1>2. PICK q \in Run : /\ Moved(r, q) /\ q.at = place /\ UNCHANGED <<done, failed>>
                       /\ q.k = run[r].k /\ q.rule = run[r].rule /\ q.now = run[r].now
                       /\ q.todo = run[r].todo /\ q.cur = run[r].cur /\ q.map = run[r].map
  BY <1>1, GoesStep
<1> QED
  BY <1>2 DEF Onward, Held, Handling

\* A run looks its issue up.
LEMMA LookStep ==
  ASSUME SyncTypeOK, NEW r \in Runners, Look(r)
  PROVE  /\ run[r].at = "look" /\ UNCHANGED Others
         /\ \/ /\ Processed(r)
               /\ mapping[run[r].cur.i] = NoMapping /\ run[r].cur.state = "closed"
            \/ \E q \in Run :
                 /\ Onward(r, q) /\ q.todo = run[r].todo /\ q.cur = run[r].cur
                 /\ q.map = mapping[q.cur.i] /\ UNCHANGED <<done, failed>>
                 /\ \/ q.at = "publish" /\ q.map = NoMapping /\ q.cur.state = "open"
                    \/ q.at = "status" /\ q.map # NoMapping
<1> DEFINE m == mapping[run[r].cur.i]
           place == IF m = NoMapping THEN "publish" ELSE "status"
<1>1. run[r] \in Run /\ run[r].cur.i \in Issues /\ run[r].cur.state \in IssueStates
      /\ m \in Mapping
  BY DEF SyncTypeOK, Run, Listed
<1>2. run[r].at = "look" /\ UNCHANGED Others
  BY DEF Look, Others
<1>3. CASE m = NoMapping /\ run[r].cur.state = "closed"
  BY <1>2, <1>3, Zenon DEF Look
<1>4. CASE ~ (m = NoMapping /\ run[r].cur.state = "closed")
  <2>1. /\ run' = [run EXCEPT ![r].map = m, ![r].at = place]
        /\ UNCHANGED <<done, failed>>
    BY <1>4, Zenon DEF Look
  <2>2. PICK q : q = [run[r] EXCEPT !.map = m, !.at = place]
    OBVIOUS
  <2>3. place \in {"publish", "status"} /\ (place = "publish" <=> m = NoMapping)
    OBVIOUS
  <2> HIDE DEF place
  <2>4. q \in Run /\ q.at = place /\ q.k = run[r].k /\ q.rule = run[r].rule
        /\ q.now = run[r].now /\ q.todo = run[r].todo /\ q.cur = run[r].cur /\ q.map = m
    BY <1>1, <2>2, <2>3 DEF Run, Places
  <2>5. run' = [run EXCEPT ![r] = q]
    BY <1>1, <2>1, <2>2 DEF SyncTypeOK
  <2>6. Onward(r, q)
    BY <1>2, <2>3, <2>4, <2>5 DEF Onward, Moved, Held, Handling
  <2>7. q.at = "publish" => q.cur.state = "open"
    BY <1>1, <1>4, <2>3, <2>4 DEF IssueStates
  <2> QED
    BY <1>2, <2>1, <2>3, <2>4, <2>6, <2>7
<1> QED
  BY <1>3, <1>4

-----------------------------------------------------------------------------
(* Tasks.                                                                    *)

\* The order of the natural numbers, as the library's theorem wants it.
LEMMA LessThan == \E R : IsWellFoundedOn(R, Nat) /\ \A x, y \in Nat : <<y, x>> \in R <=> y < x
<1>1. PICK R : R = OpToRel(<, Nat)
  OBVIOUS
<1>2. IsWellFoundedOn(R, Nat)
  BY <1>1, NatLessThanWellFounded
<1>3. \A x, y \in Nat : <<y, x>> \in R <=> y < x
  BY <1>1 DEF OpToRel
<1> QED
  BY <1>2, <1>3

\* The first number that no task has.
LEMMA FirstFree ==
  ASSUME FreeIds # {}
  PROVE  Min(FreeIds) \in FreeIds /\ \A t \in FreeIds : Min(FreeIds) <= t
<1>1. FreeIds \in SUBSET Nat
  BY SyncAssumption DEF FreeIds, TaskIds
<1>2. PICK R : IsWellFoundedOn(R, Nat) /\ \A x, y \in Nat : <<y, x>> \in R <=> y < x
  BY LessThan
<1>3. \E x \in FreeIds : \A y \in FreeIds : ~ (<<y, x>> \in R)
  BY <1>1, <1>2, WFMin
<1>4. \A x, y \in Nat : ~ (y < x) => x <= y
  OBVIOUS
<1>5. \E x \in FreeIds : \A y \in FreeIds : x <= y
  BY <1>1, <1>2, <1>3, <1>4
<1> QED
  BY <1>5 DEF Min

\* What is published is a task of the rule and the issue at hand.
LEMMA SystemTaskFits ==
  ASSUME SyncTypeOK, NEW r \in Runners
  PROVE  /\ SystemTask(r) \in Task /\ SystemTask(r).of = run[r].cur.i
         /\ SystemTask(r).key = run[r].k /\ SystemTask(r).born = clock
         /\ SystemTask(r).status = "open" /\ SystemTask(r).content = run[r].cur.ver
         /\ ~ SystemTask(r).again
<1>1. /\ run[r].k \in Rules /\ run[r].cur.i \in Issues /\ run[r].cur.ver \in 0 .. MaxVer
      /\ clock \in 0 .. MaxClock /\ run[r].cur.ver \in 1 .. MaxVer
  BY SyncAssumption DEF SyncTypeOK, Run, Listed
<1> QED
  BY <1>1 DEF SystemTask, Task

\* The answers to a request to publish: the task of the same request before,
Republished(r, i, k, t) ==
  /\ UNCHANGED <<task, record>>
  /\ Answered(k, i) /\ SameRequest(r, record[k][i]) /\ t = record[k][i].task

\* or a new one.
Published(r, i, k, t) ==
  /\ task[t].status = "none" /\ \A u \in TaskIds : task[u].status = "none" => t <= u
  /\ ~ Answered(k, i)
  /\ task' = [task EXCEPT ![t] = SystemTask(r)]
  /\ record' = [record EXCEPT ![k][i] = [task |-> t, now |-> run[r].now, born |-> clock,
                                        ver |-> run[r].cur.ver]]

\* A run has a task for its issue.
HasTask(r, q, t) ==
  /\ Onward(r, q) /\ q.at = "map" /\ q.todo = run[r].todo
  /\ q.cur = run[r].cur /\ q.map.task = t /\ UNCHANGED <<done, failed>>

\* What comes of a request to publish.
LEMMA PublishStep ==
  ASSUME SyncTypeOK, NamesFit, NEW r \in Runners, Publish(r),
         NEW i \in Issues, i = run[r].cur.i, NEW k \in Rules, k = run[r].k
  PROVE  \/ Counted(r) /\ UNCHANGED <<task, record>>
         \/ \E q \in Run, t \in TaskIds :
              HasTask(r, q, t) /\ (Republished(r, i, k, t) \/ Published(r, i, k, t))
<1> DEFINE old == record[k][i]
<1>1. /\ run[r] \in Run /\ old \in Record
      /\ run[r].at = "publish"
  <2>1. run[r] \in Run /\ old \in Record
    BY DEF SyncTypeOK
  <2>2. run[r].at = "publish"
    BY DEF Publish
  <2> QED
    BY <2>1, <2>2
<1>3. ASSUME NEW t \in TaskIds, run' = [run EXCEPT ![r].at = "map", ![r].map.task = t]
      PROVE  \E q \in Run :
               UNCHANGED <<done, failed>> => HasTask(r, q, t)
  <2>1. PICK m : m = [run[r].map EXCEPT !.task = t]
    OBVIOUS
  <2>2. m \in Mapping /\ m.task = t
    BY <1>1, <2>1 DEF Run, Mapping
  <2>3. PICK q : q = [run[r] EXCEPT !.at = "map", !.map = m]
    OBVIOUS
  <2>4. q \in Run /\ q.at = "map" /\ q.k = run[r].k /\ q.rule = run[r].rule
        /\ q.now = run[r].now /\ q.todo = run[r].todo /\ q.cur = run[r].cur /\ q.map = m
    BY <1>1, <2>2, <2>3 DEF Run, Places
  <2>5. run' = [run EXCEPT ![r] = q]
    BY <1>1, <1>3, <2>1, <2>3 DEF SyncTypeOK, Run, Mapping
  <2> QED
    BY <1>1, <2>2, <2>4, <2>5 DEF HasTask, Onward, Moved, Held, Handling
<1>4. CASE /\ Answered(k, i) /\ SameRequest(r, old)
           /\ run' = [run EXCEPT ![r].at = "map", ![r].map.task = old.task]
           /\ UNCHANGED <<task, record, done, failed>>
  <2>1. old.task \in TaskIds
    BY <1>1, <1>4 DEF Answered, NamesFit, RecordNames, TaskOf
  <2> QED
    BY <1>3, <1>4, <2>1 DEF Republished
<1>5. CASE Counted(r) /\ UNCHANGED <<task, record>>
  BY <1>5
<1>6. CASE /\ ~ Answered(k, i) /\ FreeIds # {} /\ UNCHANGED <<done, failed>>
           /\ task' = [task EXCEPT ![Min(FreeIds)] = SystemTask(r)]
           /\ record' = [record EXCEPT ![k][i] =
                [task |-> Min(FreeIds), now |-> run[r].now, born |-> clock,
                 ver |-> run[r].cur.ver]]
           /\ run' = [run EXCEPT ![r].at = "map", ![r].map.task = Min(FreeIds)]
  <2>1. PICK t : t = Min(FreeIds)
    OBVIOUS
  <2>2. /\ t \in TaskIds /\ task[t].status = "none"
        /\ \A u \in TaskIds : task[u].status = "none" => t <= u
    BY <1>6, <2>1, FirstFree DEF FreeIds
  <2> QED
    BY <1>3, <1>6, <2>1, <2>2 DEF Published
<1> QED
  BY <1>4, <1>5, <1>6 DEF Publish

\* What is said about tasks: they belong to their issues and rules for good.
TasksStay ==
  \A t \in TaskIds :
    /\ task'[t].of = task[t].of /\ task'[t].key = task[t].key /\ task'[t].born = task[t].born
    /\ (task'[t].status = "none" <=> task[t].status = "none")

Statuses == {"open", "claimed", "completed", "cancelled"}

\* A task gets another status,
LEMMA StatusRow ==
  ASSUME SyncTypeOK, NEW t \in TaskIds, task[t].status # "none", NEW s \in Statuses,
         task' = [task EXCEPT ![t].status = s]
  PROVE  /\ task' \in [TaskIds -> Task] /\ TasksStay
         /\ \A u \in TaskIds : /\ task'[u].content = task[u].content
                               /\ task'[u].again = task[u].again
                               /\ u # t => task'[u] = task[u]
         /\ task'[t].status = s
<1>1. PICK x : x = [task[t] EXCEPT !.status = s]
  OBVIOUS
<1>2. /\ x \in Task /\ x.of = task[t].of /\ x.key = task[t].key /\ x.born = task[t].born
      /\ x.content = task[t].content /\ x.again = task[t].again /\ x.status = s
  BY <1>1 DEF SyncTypeOK, Task, Statuses
<1>3. task' = [task EXCEPT ![t] = x] /\ s # "none"
  BY <1>1, Zenon DEF Statuses
<1>4. \A u \in TaskIds : task'[u] = IF u = t THEN x ELSE task[u]
  BY <1>3 DEF SyncTypeOK
<1>5. task' \in [TaskIds -> Task]
  BY <1>2, <1>3 DEF SyncTypeOK
<1> QED
  BY <1>2, <1>3, <1>4, <1>5 DEF TasksStay

\* or is open again,
LEMMA AgainRow ==
  ASSUME SyncTypeOK, NEW t \in TaskIds, task[t].status = "claimed",
         task' = [task EXCEPT ![t].status = "open", ![t].again = TRUE]
  PROVE  /\ task' \in [TaskIds -> Task] /\ TasksStay
         /\ \A u \in TaskIds : /\ task'[u].content = task[u].content
                               /\ u # t => task'[u] = task[u]
         /\ task'[t].again
<1>1. PICK x : x = [task[t] EXCEPT !.status = "open", !.again = TRUE]
  OBVIOUS
<1>2. /\ x \in Task /\ x.of = task[t].of /\ x.key = task[t].key /\ x.born = task[t].born
      /\ x.content = task[t].content /\ x.again /\ x.status = "open"
  BY <1>1 DEF SyncTypeOK, Task
<1>3. task' = [task EXCEPT ![t] = x]
  BY <1>1 DEF SyncTypeOK
<1> QED
  BY <1>2, <1>3 DEF SyncTypeOK, TasksStay

\* or another content.
LEMMA ContentRow ==
  ASSUME SyncTypeOK, NEW t \in TaskIds, NEW v \in 0 .. MaxVer,
         task' = [task EXCEPT ![t].content = v]
  PROVE  /\ task' \in [TaskIds -> Task] /\ TasksStay
         /\ \A u \in TaskIds : /\ task'[u].status = task[u].status
                               /\ task'[u].again = task[u].again
                               /\ u # t => task'[u] = task[u]
         /\ task'[t].content = v
<1>1. PICK x : x = [task[t] EXCEPT !.content = v]
  OBVIOUS
<1>2. /\ x \in Task /\ x.of = task[t].of /\ x.key = task[t].key /\ x.born = task[t].born
      /\ x.status = task[t].status /\ x.again = task[t].again /\ x.content = v
  BY <1>1 DEF SyncTypeOK, Task
<1>3. task' = [task EXCEPT ![t] = x]
  BY <1>1, Zenon
<1> QED
  BY <1>2, <1>3 DEF SyncTypeOK, TasksStay

\* Tasks that stay, and the records that name them.
LEMMA TablesStay ==
  ASSUME RetentionInv, TasksStay, record' = record, clock' \in Nat, clock <= clock',
         task' \in [TaskIds -> Task]
  PROVE  /\ TaskRows' /\ RecordNames' /\ OneTaskPerRetention'
         /\ \A t, i : TaskOf(t, i) => TaskOf(t, i)'
<1>1. \A t, i : TaskOf(t, i) => TaskOf(t, i)'
  BY DEF TasksStay, TaskOf
<1>2. TaskRows' /\ OneTaskPerRetention'
  BY DEF TasksStay, TaskRows, RetentionInv, OneTaskPerRetention, TaskIds
<1>3. RecordNames'
  <2> SUFFICES ASSUME NEW k \in Rules, NEW i \in Issues, record[k][i] # NoRecord
               PROVE  TaskOf(record[k][i].task, i)' /\ record[k][i].born <= clock'
    BY DEF RecordNames
  <2>1. TaskOf(record[k][i].task, i) /\ record[k][i].born <= clock
    BY DEF RetentionInv, NamesFit, RecordNames
  <2>2. record[k][i].born \in Nat /\ clock \in Nat
    BY DEF RetentionInv, SyncTypeOK, Record
  <2> QED
    BY <1>1, <2>1, <2>2
<1> QED
  BY <1>1, <1>2, <1>3

\* A task is published: the last one of its rule and issue was published a
\* retention period ago.
LEMMA TablesGrow ==
  ASSUME RetentionInv, NEW t \in TaskIds, NEW r \in Runners, task[t].status = "none",
         NEW k \in Rules, k = run[r].k, NEW i \in Issues, i = run[r].cur.i,
         \A u \in TaskIds : task[u].status = "none" => t <= u,
         ~ Answered(k, i),
         task' = [task EXCEPT ![t] = SystemTask(r)],
         record' = [record EXCEPT ![k][i] =
                      [task |-> t, now |-> run[r].now, born |-> clock,
                       ver |-> run[r].cur.ver]],
         clock' = clock
  PROVE  /\ task' \in [TaskIds -> Task] /\ record' \in [Rules -> [Issues -> Record]]
         /\ TaskRows' /\ RecordNames' /\ OneTaskPerRetention'
         /\ \A u, j : TaskOf(u, j) => TaskOf(u, j)'
         /\ TaskOf(t, i)'
<1>1. /\ run[r] \in Run /\ clock \in 1 .. MaxClock
      /\ run[r].now \in 0 .. MaxClock /\ run[r].cur.ver \in 0 .. MaxVer
  BY SyncAssumption DEF RetentionInv, SyncTypeOK, Run, Listed
<1>2. PICK x \in Task : /\ x = SystemTask(r) /\ x.of = i /\ x.key = k /\ x.born = clock
                        /\ x.status = "open"
  BY SystemTaskFits DEF RetentionInv
<1>3. PICK d : d = [task |-> t, now |-> run[r].now, born |-> clock, ver |-> run[r].cur.ver]
  OBVIOUS
<1>4. d \in Record /\ d.task = t /\ d.born = clock
  BY <1>1, <1>3, SyncAssumption DEF Record
<1>5. task' = [task EXCEPT ![t] = x] /\ record' = [record EXCEPT ![k][i] = d]
  BY <1>2, <1>3
<1>6. /\ task' \in [TaskIds -> Task]
      /\ \A u \in TaskIds : task'[u] = IF u = t THEN x ELSE task[u]
  BY <1>2, <1>5 DEF RetentionInv, SyncTypeOK
<1>7. /\ record' \in [Rules -> [Issues -> Record]]
      /\ \A l \in Rules, j \in Issues :
           record'[l][j] = IF l = k /\ j = i THEN d ELSE record[l][j]
  BY <1>1, <1>4, <1>5 DEF RetentionInv, SyncTypeOK
<1>8. \A u, j : TaskOf(u, j) => TaskOf(u, j)'
  BY <1>6 DEF TaskOf
<1>9. TaskOf(t, i)'
  BY <1>2, <1>6 DEF TaskOf
<1>10. \A u \in TaskIds : task[u].status # "none" => u < t
  <2> SUFFICES ASSUME NEW u \in TaskIds, task[u].status # "none" PROVE u < t
    OBVIOUS
  <2>1. ~ (t < u) /\ t # u
    BY DEF RetentionInv, TaskRows
  <2> QED
    BY <2>1 DEF TaskIds
<1>11. \A u \in TaskIds : task[u].status # "none" =>
         /\ task[u].of \in Issues /\ task[u].key \in Rules
         /\ 0 < task[u].born /\ task[u].born <= record[task[u].key][task[u].of].born
         /\ record[task[u].key][task[u].of].born <= clock
  <2> SUFFICES ASSUME NEW u \in TaskIds, task[u].status # "none"
               PROVE  /\ task[u].of \in Issues /\ task[u].key \in Rules
                      /\ 0 < task[u].born
                      /\ task[u].born <= record[task[u].key][task[u].of].born
                      /\ record[task[u].key][task[u].of].born <= clock
    OBVIOUS
  <2>1. /\ task[u].of \in Issues /\ task[u].key \in Rules
        /\ 0 < task[u].born /\ task[u].born <= record[task[u].key][task[u].of].born
    BY DEF RetentionInv, TaskRows
  <2>2. record[task[u].key][task[u].of] # NoRecord
    BY <2>1, SyncAssumption DEF NoRecord, RetentionInv, SyncTypeOK, Task
  <2> QED
    BY <2>1, <2>2 DEF RetentionInv, NamesFit, RecordNames
<1>12. TaskRows'
  <2>1. ASSUME NEW u \in TaskIds, NEW v \in TaskIds, u < v, task'[v].status # "none"
        PROVE  task'[u].status # "none"
    <3>1. u # t => task[v].status # "none" \/ v = t
      BY <1>6, <2>1
    <3>2. u # t => u < t \/ task[u].status # "none"
      BY <1>10, <2>1, <3>1 DEF TaskIds
    <3>3. u # t => task[u].status # "none"
      BY <2>1, <3>1, <3>2 DEF RetentionInv, TaskRows, TaskIds
    <3> QED
      BY <1>2, <1>6, <3>3
  <2>2. ASSUME NEW u \in TaskIds, task'[u].status # "none"
        PROVE  /\ task'[u].of \in Issues /\ task'[u].key \in Rules
               /\ 0 < task'[u].born
               /\ task'[u].born <= record'[task'[u].key][task'[u].of].born
    <3>1. CASE u = t
      BY <1>1, <1>2, <1>4, <1>6, <1>7, <3>1
    <3>2. CASE u # t
      <4>1. /\ task[u].born \in Nat /\ record[task[u].key][task[u].of].born \in Nat
            /\ task'[u] = task[u] /\ task[u].status # "none"
        BY <1>6, <1>11, <2>2, <3>2 DEF RetentionInv, SyncTypeOK, Task, Record
      <4>2. PICK l \in Rules, j \in Issues : l = task[u].key /\ j = task[u].of
        BY <1>11, <4>1
      <4>3. record'[l][j].born \in {record[l][j].born, clock}
        <5>1. l = k /\ j = i => record'[l][j] = d
          BY <1>7
        <5>2. ~ (l = k /\ j = i) => record'[l][j] = record[l][j]
          BY <1>7
        <5> QED
          BY <1>4, <5>1, <5>2, Zenon
      <4>4. 0 < task[u].born /\ task[u].born <= record[l][j].born /\ record[l][j].born <= clock
        BY <1>11, <4>1, <4>2
      <4>5. task[u].born <= record'[l][j].born
        <5>1. /\ task[u].born \in Nat /\ record[l][j].born \in Nat /\ clock \in Nat
          BY <1>1, <4>1, <4>2
        <5> QED
          BY <4>3, <4>4, <5>1, Rises
      <4> QED
        BY <4>1, <4>2, <4>4, <4>5
    <3> QED
      BY <3>1, <3>2
  <2> QED
    BY <2>1, <2>2 DEF TaskRows
<1>13. RecordNames'
  <2> SUFFICES ASSUME NEW l \in Rules, NEW j \in Issues, record'[l][j] # NoRecord
               PROVE  /\ TaskOf(record[l][j].task, j)'
                      /\ record'[l][j].born <= clock'
    BY DEF RecordNames
  <2>1. CASE l = k /\ j = i
    <3>1. record'[l][j] = d
      BY <1>7, <2>1
    <3>2. clock <= clock'
      BY <1>1
    <3> QED
      BY <1>4, <1>9, <2>1, <3>1, <3>2 DEF TaskOf
  <2>2. CASE ~ (l = k /\ j = i)
    <3>1. record'[l][j] = record[l][j]
      BY <1>7, <2>2
    <3>2. TaskOf(record[l][j].task, j) /\ record[l][j].born <= clock
      BY <3>1 DEF RetentionInv, NamesFit, RecordNames
    <3>3. PICK u : u = record[l][j].task
      OBVIOUS
    <3>4. TaskOf(u, j)'
      BY <1>8, <3>2, <3>3, Zenon
    <3> QED
      BY <3>1, <3>2, <3>3, <3>4 DEF TaskOf
  <2> QED
    BY <2>1, <2>2
<1>14. OneTaskPerRetention'
  <2> SUFFICES ASSUME NEW u \in TaskIds, NEW v \in TaskIds, u < v,
                      task'[u].status # "none", task'[v].status # "none",
                      task'[u].of = task'[v].of, task'[u].key = task'[v].key
               PROVE  task'[v].born >= task'[u].born + Retention
    BY DEF OneTaskPerRetention
  <2>1. CASE v = t
    <3>1. task'[u] = task[u] /\ task[u].status # "none" /\ task[u].of = i /\ task[u].key = k
      BY <1>2, <1>6, <2>1, SyncAssumption DEF TaskIds
    <3>2. record[k][i] # NoRecord /\ task[u].born <= record[k][i].born
      <4>1. 0 < task[u].born /\ task[u].born <= record[k][i].born
        BY <1>11, <3>1
      <4>2. task[u].born \in Nat
        BY DEF RetentionInv, SyncTypeOK, Task
      <4>3. NoRecord.born = 0
        BY DEF NoRecord
      <4> QED
        BY <4>1, <4>2, <4>3
    <3>3. ~ (clock < record[k][i].born + Retention)
      BY <3>2 DEF Answered
    <3>4. task[u].born \in Nat /\ record[k][i].born \in Nat /\ task'[v].born = clock
      BY <1>1, <1>2, <1>6, <2>1 DEF RetentionInv, SyncTypeOK, Record, Task
    <3>5. clock \in Nat /\ Retention \in Nat
      BY <1>1, SyncAssumption
    <3>6. clock >= task[u].born + Retention
      BY <3>2, <3>3, <3>4, <3>5, NotBefore
    <3> QED
      BY <3>1, <3>4, <3>6
  <2>2. CASE v # t
    <3>1. u # t /\ task[v].status # "none"
      BY <1>6, <1>10, <2>2 DEF TaskIds
    <3> QED
      BY <1>6, <2>2, <3>1 DEF RetentionInv, OneTaskPerRetention
  <2> QED
    BY <2>1, <2>2
<1> QED
  BY <1>6, <1>7, <1>8, <1>9, <1>12, <1>13, <1>14

-----------------------------------------------------------------------------
(* Retention.                                                                *)

\* Whatever a run does to the tables, it does it to tasks of its issue.
LEMMA OnwardKeeps ==
  ASSUME RetentionInv, NEW r \in Runners, NEW q \in Run, Onward(r, q),
         UNCHANGED <<clock, issue, rule, admin, setting>>,
         done' \in [Rules -> [Issues -> 0 .. MaxVer]],
         failed' \in [Rules -> [Issues -> 0 .. MaxVer]],
         \A k \in Rules, i \in Issues :
           done'[k][i] <= issue[i].ver /\ failed'[k][i] <= issue[i].ver,
         task' \in [TaskIds -> Task], record' \in [Rules -> [Issues -> Record]],
         mapping' \in [Issues -> Mapping],
         TaskRows', RecordNames', OneTaskPerRetention', MappingNames',
         \A t, i : TaskOf(t, i) => TaskOf(t, i)',
         RunNames(q)'
  PROVE  RetentionInv'
<1>1. run' = [run EXCEPT ![r] = q] /\ run' \in [Runners -> Run]
  BY DEF Onward, Moved, RetentionInv, SyncTypeOK
<1>2. \A p \in Runners : run'[p] = IF p = r THEN q ELSE run[p]
  BY <1>1 DEF RetentionInv, SyncTypeOK
<1>3. SyncTypeOK'
  BY <1>1 DEF RetentionInv, SyncTypeOK
<1>4. IssueRows'
  <2>1. ASSUME NEW p \in Runners, NEW x \in Held(run'[p]) PROVE x.ver <= issue[x.i].ver
    BY <1>2 DEF Onward, RetentionInv, IssueRows
  <2> QED
    BY <2>1 DEF RetentionInv, IssueRows
<1>5. \A p \in Runners : RunNames(run[p])'
  <2> TAKE p \in Runners
  <2>1. CASE p = r
    BY <1>2, <2>1 DEF RunNames, TaskOf
  <2>2. CASE p # r
    BY <1>2, <2>2 DEF RunNames, RetentionInv, NamesFit
  <2> QED
    BY <2>1, <2>2
<1> QED
  BY <1>3, <1>4, <1>5 DEF RetentionInv, NamesFit

\* A run that goes on and leaves the tables alone.
LEMMA OnwardQuiet ==
  ASSUME RetentionInv, NEW r \in Runners, NEW q \in Run, Onward(r, q),
         UNCHANGED <<clock, issue, rule, admin, setting, task, record, mapping>>,
         done' \in [Rules -> [Issues -> 0 .. MaxVer]],
         failed' \in [Rules -> [Issues -> 0 .. MaxVer]],
         \A k \in Rules, i \in Issues :
           done'[k][i] <= issue[i].ver /\ failed'[k][i] <= issue[i].ver,
         RunNames(q)
  PROVE  RetentionInv'
<1>1. TasksStay /\ clock \in Nat
  BY DEF TasksStay, RetentionInv, SyncTypeOK
<1>2. /\ TaskRows' /\ RecordNames' /\ OneTaskPerRetention'
      /\ \A t, i : TaskOf(t, i) => TaskOf(t, i)'
  BY <1>1, TablesStay DEF RetentionInv, SyncTypeOK
<1>3. MappingNames' /\ RunNames(q)'
  BY <1>2 DEF RetentionInv, NamesFit, MappingNames, RunNames
<1> QED
  BY <1>2, <1>3, OnwardKeeps DEF RetentionInv, SyncTypeOK

\* What is counted as processed is a version that the issue has had.
LEMMA DoneFits ==
  ASSUME RetentionInv, NEW r \in Runners, run[r].at \in Handling, Processed(r)
  PROVE  /\ done' \in [Rules -> [Issues -> 0 .. MaxVer]] /\ failed' = failed
         /\ \A k \in Rules, i \in Issues :
              done'[k][i] <= issue[i].ver /\ failed'[k][i] <= issue[i].ver
         /\ \E q \in Run : /\ Onward(r, q) /\ q.at = "next" /\ q.todo = run[r].todo
                           /\ Held(q) = run[r].todo
<1>1. run[r].cur.ver <= issue[run[r].cur.i].ver
  BY DEF RetentionInv, IssueRows, Held
<1>2. \A k \in Rules, i \in Issues : done[k][i] <= issue[i].ver /\ failed[k][i] <= issue[i].ver
  BY DEF RetentionInv, IssueRows
<1>3. \A k \in Rules, i \in Issues : done'[k][i] <= issue[i].ver /\ failed'[k][i] <= issue[i].ver
  BY <1>1, <1>2, ProcessedStep DEF RetentionInv
<1> QED
  BY <1>3, ProcessedStep, BetweenStep DEF RetentionInv

\* An issue whose processing fails.
LEMMA CountedKeeps ==
  ASSUME RetentionInv, NEW r \in Runners, run[r].at \in Handling, Counted(r),
         UNCHANGED Others
  PROVE  RetentionInv'
<1>1. PICK q \in Run : Onward(r, q) /\ q.at = "next"
  BY CountedStep, BetweenStep DEF RetentionInv
<1>2. run[r].cur.ver <= issue[run[r].cur.i].ver
  BY DEF RetentionInv, IssueRows, Held
<1>3. /\ failed' \in [Rules -> [Issues -> 0 .. MaxVer]] /\ done' = done
      /\ \A k \in Rules, i \in Issues : failed'[k][i] <= issue[i].ver
  BY <1>2, CountedStep DEF RetentionInv, IssueRows
<1> QED
  BY <1>1, <1>3, OnwardQuiet DEF RunNames, Handling, Others, RetentionInv, SyncTypeOK, IssueRows

\* An issue that is passed.
LEMMA PassedKeeps ==
  ASSUME RetentionInv, NEW r \in Runners, run[r].at \in Handling, Processed(r),
         UNCHANGED Others
  PROVE  RetentionInv'
<1>1. PICK q \in Run : Onward(r, q) /\ q.at = "next"
  BY DoneFits
<1> QED
  BY <1>1, DoneFits, OnwardQuiet DEF RunNames, Handling, Others, RetentionInv, SyncTypeOK

LEMMA LookKeeps ==
  ASSUME RetentionInv, NEW r \in Runners, Look(r) PROVE RetentionInv'
<1>1. run[r].at \in Handling /\ UNCHANGED Others
  BY LookStep DEF RetentionInv, Handling
<1>2. CASE Processed(r)
  BY <1>1, <1>2, PassedKeeps
<1>3. ASSUME NEW q \in Run,
             Onward(r, q) /\ q.todo = run[r].todo /\ q.cur = run[r].cur,
             q.map = mapping[q.cur.i], UNCHANGED <<done, failed>>,
             \/ q.at = "publish" /\ q.map = NoMapping /\ q.cur.state = "open"
             \/ q.at = "status" /\ q.map # NoMapping
      PROVE  RetentionInv'
  <2>1. q.cur.i \in Issues
    BY DEF Run, Listed
  <2>2. RunNames(q)
    BY <1>3, <2>1 DEF RunNames, RetentionInv, NamesFit, MappingNames
  <2> QED
    BY <1>1, <1>3, <2>2, OnwardQuiet DEF Others, RetentionInv, SyncTypeOK, IssueRows
<1> QED
  BY <1>2, <1>3, LookStep DEF RetentionInv

LEMMA PublishKeeps ==
  ASSUME RetentionInv, NEW r \in Runners, Publish(r) PROVE RetentionInv'
<1>1. PICK i \in Issues, k \in Rules : i = run[r].cur.i /\ k = run[r].k
  BY DEF RetentionInv, SyncTypeOK, Run, Listed
<1>2. /\ run[r].at \in Handling
      /\ UNCHANGED <<clock, issue, rule, mapping, admin, setting>>
  BY DEF Publish, Handling
<1>3. CASE Counted(r) /\ UNCHANGED <<task, record>>
  BY <1>2, <1>3, CountedKeeps DEF Others
<1>4. ASSUME NEW q \in Run, NEW t \in TaskIds, HasTask(r, q, t), Republished(r, i, k, t)
      PROVE  RetentionInv'
  <2>1. RunNames(q)
    BY <1>1, <1>4 DEF HasTask, Republished, Answered, RetentionInv, NamesFit, RecordNames, RunNames
  <2> QED
    BY <1>2, <1>4, <2>1, OnwardQuiet
       DEF HasTask, Republished, RetentionInv, SyncTypeOK, IssueRows
<1>5. ASSUME NEW q \in Run, NEW t \in TaskIds, HasTask(r, q, t), Published(r, i, k, t)
      PROVE  RetentionInv'
  <2>1. /\ task' \in [TaskIds -> Task] /\ record' \in [Rules -> [Issues -> Record]]
        /\ TaskRows' /\ RecordNames' /\ OneTaskPerRetention'
        /\ \A u, j : TaskOf(u, j) => TaskOf(u, j)'
        /\ TaskOf(t, i)'
    BY <1>1, <1>2, <1>5, TablesGrow DEF Published
  <2>2. MappingNames' /\ RunNames(q)'
    BY <1>1, <1>2, <1>5, <2>1 DEF HasTask, RetentionInv, NamesFit, MappingNames, RunNames
  <2> QED
    BY <1>2, <1>5, <2>1, <2>2, OnwardKeeps DEF HasTask, RetentionInv, SyncTypeOK, IssueRows
<1>6. \/ Counted(r) /\ UNCHANGED <<task, record>>
      \/ \E q \in Run, t \in TaskIds :
           HasTask(r, q, t) /\ (Republished(r, i, k, t) \/ Published(r, i, k, t))
  BY <1>1, PublishStep DEF RetentionInv
<1> QED
  BY <1>3, <1>4, <1>5, <1>6

LEMMA UpsertKeeps ==
  ASSUME RetentionInv, NEW r \in Runners, Upsert(r) PROVE RetentionInv'
<1>1. /\ run[r].at \in Handling /\ Processed(r)
      /\ UNCHANGED <<clock, issue, rule, task, record, admin, setting>>
  BY DEF Upsert, Handling
<1>2. PICK i \in Issues, t \in TaskIds, s \in IssueStates :
        /\ i = run[r].cur.i /\ t = run[r].map.task /\ s = run[r].cur.state /\ TaskOf(t, i)
  BY DEF Upsert, Handling, RetentionInv, NamesFit, RunNames, SyncTypeOK, Run, Listed, TaskOf
<1>3. PICK m : m = [task |-> t, state |-> s]
  OBVIOUS
<1>4. m \in Mapping /\ m.task = t /\ m.state = s
  BY <1>3 DEF Mapping
<1>5. mapping' = [mapping EXCEPT ![i] = m]
  BY <1>2, <1>3, Zenon DEF Upsert
<1>6. /\ mapping' \in [Issues -> Mapping]
      /\ \A j \in Issues : mapping'[j] = IF j = i THEN m ELSE mapping[j]
  BY <1>4, <1>5 DEF RetentionInv, SyncTypeOK
<1>7. PICK q \in Run : Onward(r, q) /\ q.at = "next"
  BY <1>1, DoneFits
<1>8. TasksStay /\ clock \in Nat
  BY <1>1 DEF TasksStay, RetentionInv, SyncTypeOK
<1>9. /\ TaskRows' /\ RecordNames' /\ OneTaskPerRetention'
      /\ \A u, j : TaskOf(u, j) => TaskOf(u, j)'
  BY <1>1, <1>8, TablesStay DEF RetentionInv, SyncTypeOK
<1>10. MappingNames'
  BY <1>2, <1>4, <1>6, <1>9 DEF RetentionInv, NamesFit, MappingNames, TaskOf
<1> QED
  BY <1>1, <1>6, <1>7, <1>9, <1>10, DoneFits, OnwardKeeps
     DEF RunNames, Handling, RetentionInv, SyncTypeOK

LEMMA StatusKeeps ==
  ASSUME RetentionInv, NEW r \in Runners, Status(r) PROVE RetentionInv'
<1>1. /\ run[r].at = "status" /\ UNCHANGED Others
      /\ \E place \in {"cancel", "update", "refresh"} : Goes(r, place)
  BY DEF Status, Others
<1>2. PICK q \in Run : /\ Onward(r, q) /\ UNCHANGED <<done, failed>>
                       /\ q.cur = run[r].cur /\ q.map = run[r].map
  BY <1>1, AtIssueStep DEF RetentionInv, Handling
<1>3. RunNames(q)
  BY <1>1, <1>2 DEF RetentionInv, NamesFit, RunNames, Handling
<1> QED
  BY <1>1, <1>2, <1>3, OnwardQuiet DEF Others, RetentionInv, SyncTypeOK, IssueRows

\* A run does something to its task.
LEMMA TaskStepKeeps ==
  ASSUME RetentionInv, NEW r \in Runners, run[r].at \in {"cancel", "update"},
         Goes(r, "refresh"), TasksStay, task' \in [TaskIds -> Task],
         UNCHANGED <<clock, issue, rule, mapping, record, admin, setting>>
  PROVE  RetentionInv'
<1>1. PICK q \in Run : /\ Onward(r, q) /\ UNCHANGED <<done, failed>>
                       /\ q.cur = run[r].cur /\ q.map = run[r].map
  BY AtIssueStep DEF RetentionInv, Handling
<1>2. /\ TaskRows' /\ RecordNames' /\ OneTaskPerRetention'
      /\ \A u, j : TaskOf(u, j) => TaskOf(u, j)'
  BY TablesStay DEF RetentionInv, SyncTypeOK
<1>3. TaskOf(q.map.task, q.cur.i)
  BY <1>1 DEF RetentionInv, NamesFit, RunNames, Handling
<1>4. MappingNames' /\ RunNames(q)'
  BY <1>2, <1>3 DEF RetentionInv, NamesFit, MappingNames, RunNames
<1> QED
  BY <1>1, <1>2, <1>4, OnwardKeeps DEF RetentionInv, SyncTypeOK, IssueRows

LEMMA CancelKeeps ==
  ASSUME RetentionInv, NEW r \in Runners, CancelTask(r) PROVE RetentionInv'
<1>1. PICK t \in TaskIds : t = run[r].map.task
  BY DEF CancelTask, Handling, RetentionInv, NamesFit, RunNames, TaskOf
<1>2. CASE /\ task[t].status \in {"open", "claimed"} /\ Goes(r, "refresh")
           /\ task' = [task EXCEPT ![t].status = "cancelled"]
  <2>1. task[t].status # "none" /\ "cancelled" \in Statuses
    BY <1>2 DEF Statuses
  <2>2. TasksStay /\ task' \in [TaskIds -> Task]
    BY <1>2, <2>1, StatusRow DEF RetentionInv
  <2> QED
    BY <1>2, <2>2, TaskStepKeeps DEF CancelTask
<1>3. CASE Counted(r) /\ UNCHANGED task
  BY <1>3, CountedKeeps DEF CancelTask, Others, Handling
<1> QED
  BY <1>1, <1>2, <1>3 DEF CancelTask

LEMMA UpdateKeeps ==
  ASSUME RetentionInv, NEW r \in Runners, UpdateTask(r) PROVE RetentionInv'
<1>1. PICK t \in TaskIds : t = run[r].map.task
  BY DEF UpdateTask, Handling, RetentionInv, NamesFit, RunNames, TaskOf
<1>2. PICK v \in 0 .. MaxVer : v = run[r].cur.ver
  BY SyncAssumption DEF RetentionInv, SyncTypeOK, Run, Listed
<1>3. \/ task' = task
      \/ task' = [task EXCEPT ![t].content = v]
  BY <1>1, <1>2, Zenon DEF UpdateTask
<1>4. TasksStay /\ task' \in [TaskIds -> Task]
  <2>1. CASE task' = task
    BY <2>1 DEF TasksStay, RetentionInv, SyncTypeOK
  <2>2. CASE task' = [task EXCEPT ![t].content = v]
    BY <2>2, ContentRow DEF RetentionInv, TasksStay
  <2> QED
    BY <1>3, <2>1, <2>2
<1> QED
  BY <1>4, TaskStepKeeps DEF UpdateTask

\* Steps that leave the tables alone.
LEMMA QuietKeeps ==
  ASSUME RetentionInv, SyncTypeOK', UNCHANGED <<clock, issue, mapping, task, record, done, failed>>,
         \A p \in Runners : \/ run'[p] = run[p]
                            \/ /\ run'[p].at \notin Handling
                               /\ \A x \in Held(run'[p]) : x.ver <= issue[x.i].ver
  PROVE  RetentionInv'
<1>1. TasksStay /\ clock \in Nat
  BY DEF TasksStay, RetentionInv, SyncTypeOK
<1>2. /\ TaskRows' /\ RecordNames' /\ OneTaskPerRetention'
      /\ \A t, i : TaskOf(t, i) => TaskOf(t, i)'
  BY <1>1, TablesStay DEF RetentionInv, SyncTypeOK
<1>3. MappingNames'
  BY <1>2 DEF RetentionInv, NamesFit, MappingNames
<1>4. \A p \in Runners : RunNames(run[p])'
  <2> TAKE p \in Runners
  <2>1. CASE run'[p] = run[p]
    <3>1. RunNames(run[p])
      BY DEF RetentionInv, NamesFit
    <3> QED
      BY <1>2, <2>1, <3>1 DEF RunNames
  <2>2. CASE run'[p].at \notin Handling
    BY <2>2 DEF RunNames
  <2> QED
    BY <2>1, <2>2
<1>5. IssueRows'
  <2>1. ASSUME NEW p \in Runners, NEW x \in Held(run'[p]) PROVE x.ver <= issue[x.i].ver
    BY DEF RetentionInv, IssueRows
  <2> QED
    BY <2>1 DEF RetentionInv, IssueRows
<1> QED
  BY <1>2, <1>3, <1>4, <1>5 DEF RetentionInv, NamesFit

\* A run that begins, lists its issues, goes on, or ends.
LEMMA MovedKeeps ==
  ASSUME RetentionInv, NEW r \in Runners, NEW q \in Run, Moved(r, q),
         UNCHANGED <<clock, issue, mapping, task, record, admin, done, failed, setting>>,
         rule' \in [Rules -> Rule], q.at \notin Handling,
         \A x \in Held(q) : x.ver <= issue[x.i].ver
  PROVE  RetentionInv'
<1>1. SyncTypeOK'
  BY DEF Moved, RetentionInv, SyncTypeOK
<1>2. \A p \in Runners : run'[p] = IF p = r THEN q ELSE run[p]
  BY DEF Moved, RetentionInv, SyncTypeOK
<1> QED
  BY <1>1, <1>2, QuietKeeps

LEMMA RunRuleKeeps ==
  ASSUME RetentionInv, NEW r \in Runners, NEW k \in Rules, RunRule(r, k) PROVE RetentionInv'
<1>1. PICK q \in Run : Moved(r, q) /\ q.at = "list" /\ Held(q) = {}
                       /\ UNCHANGED <<Others, done, failed>>
  BY RunRuleStep DEF RetentionInv
<1> QED
  BY <1>1, MovedKeeps DEF Others, Handling, RetentionInv, SyncTypeOK

LEMMA FetchKeeps ==
  ASSUME RetentionInv, NEW r \in Runners, Fetch(r) PROVE RetentionInv'
<1>1. PICK q \in Run : Moved(r, q) /\ q.at = "next" /\ Held(q) = ListIssues(run[r].rule)
                       /\ UNCHANGED <<Others, done, failed>>
  BY FetchStep DEF RetentionInv
<1>2. \A x \in ListIssues(run[r].rule) : x.ver <= issue[x.i].ver
  BY DEF ListIssues, RetentionInv, SyncTypeOK, Issue, Changed
<1> QED
  BY <1>1, <1>2, MovedKeeps DEF Others, Handling, RetentionInv, SyncTypeOK

LEMMA NextIssueKeeps ==
  ASSUME RetentionInv, NEW r \in Runners, NextIssue(r) PROVE RetentionInv'
<1>1. PICK q \in Run : /\ Onward(r, q) /\ q.at \in {"touch", "look"}
                       /\ UNCHANGED <<Others, done, failed>>
  BY NextIssueStep DEF RetentionInv
<1> QED
  BY <1>1, OnwardQuiet DEF Others, RunNames, Handling, RetentionInv, SyncTypeOK, IssueRows

\* A run ends.
LEMMA RestKeeps ==
  ASSUME RetentionInv, NEW r \in Runners, run' = [run EXCEPT ![r] = AtRest],
         UNCHANGED <<clock, issue, mapping, task, record, admin, done, failed, setting>>,
         rule' \in [Rules -> Rule]
  PROVE  RetentionInv'
<1>1. PICK q \in Run : q = AtRest
  BY RestFits
<1>2. Moved(r, q) /\ q.at = "idle" /\ Held(q) = {}
  BY <1>1 DEF Moved, Held, Handling, AtRest
<1> QED
  BY <1>1, <1>2, MovedKeeps DEF Handling

\* A row of the rules that is written.
LEMMA CursorRow ==
  ASSUME SyncTypeOK, NEW k \in Rules, NEW n \in 0 .. MaxClock,
         rule' = [rule EXCEPT ![k].cursor = n]
  PROVE  /\ rule' \in [Rules -> Rule]
         /\ \A l \in Rules : /\ rule'[l].filter = rule[l].filter
                             /\ rule'[l].dedupe = rule[l].dedupe
                             /\ rule'[l].row = rule[l].row
                             /\ rule'[l].cursor = IF l = k THEN n ELSE rule[l].cursor
<1>1. PICK x : x = [rule[k] EXCEPT !.cursor = n]
  OBVIOUS
<1>2. /\ x \in Rule /\ x.filter = rule[k].filter /\ x.dedupe = rule[k].dedupe
      /\ x.row = rule[k].row /\ x.cursor = n
  BY <1>1 DEF SyncTypeOK, Rule
<1>3. rule' = [rule EXCEPT ![k] = x]
  BY <1>1, Zenon
<1> QED
  BY <1>2, <1>3 DEF SyncTypeOK

LEMMA TouchStep ==
  ASSUME SyncTypeOK, NEW r \in Runners, Touch(r)
  PROVE  /\ rule' \in [Rules -> Rule]
         /\ \A l \in Rules : /\ rule'[l].filter = rule[l].filter
                             /\ rule'[l].dedupe = rule[l].dedupe
                             /\ rule'[l].row = rule[l].row
                             /\ \/ rule'[l].cursor = rule[l].cursor
                                \/ l = run[r].k /\ rule'[l].cursor = run[r].now
<1>1. run[r].k \in Rules /\ run[r].now \in 0 .. MaxClock
  BY DEF SyncTypeOK, Run
<1>2. CASE rule' = rule
  BY <1>2 DEF SyncTypeOK
<1>3. CASE rule' = [rule EXCEPT ![run[r].k].cursor = run[r].now]
  <2>1. PICK k \in Rules : k = run[r].k
    BY <1>1
  <2>2. PICK n \in 0 .. MaxClock : n = run[r].now
    BY <1>1
  <2>3. rule' = [rule EXCEPT ![k].cursor = n]
    BY <1>3, <2>1, <2>2, Zenon
  <2>4. /\ rule' \in [Rules -> Rule]
        /\ \A l \in Rules : /\ rule'[l].filter = rule[l].filter
                            /\ rule'[l].dedupe = rule[l].dedupe
                            /\ rule'[l].row = rule[l].row
                            /\ rule'[l].cursor = IF l = k THEN n ELSE rule[l].cursor
    BY <2>3, CursorRow
  <2> QED
    BY <2>1, <2>2, <2>4
<1> QED
  BY <1>2, <1>3 DEF Touch

LEMMA TouchKeeps ==
  ASSUME RetentionInv, NEW r \in Runners, Touch(r) PROVE RetentionInv'
  BY TouchStep, RestKeeps DEF Touch, RetentionInv

LEMMA StopsKeeps ==
  ASSUME RetentionInv, NEW r \in Runners, Stops(r) PROVE RetentionInv'
  BY RestKeeps DEF Stops, RetentionInv, SyncTypeOK

LEMMA FailsKeeps ==
  ASSUME RetentionInv, NEW r \in Runners, Fails(r) PROVE RetentionInv'
<1>1. run[r].at \in Handling
  BY DEF Fails, Places, Handling
<1> QED
  BY <1>1, CountedKeeps DEF Fails, Others

\* A new rule,
LEMMA CreateRuleStep ==
  ASSUME SyncTypeOK, NEW k \in Rules, NEW c \in Content, CreateRule(k, c)
  PROVE  /\ rule' \in [Rules -> Rule]
         /\ rule'[k].cursor = 0 /\ rule'[k].row = "live" /\ rule[k].row = "new"
         /\ \A l \in Rules : l # k => rule'[l] = rule[l]
<1>1. PICK n : n = NewRule
  OBVIOUS
<1>2. n \in Rule /\ n.cursor = 0
  BY <1>1, SyncAssumption DEF NewRule, Rule, IssueStates
<1>3. PICK x : x = [n EXCEPT !.row = "live", !.filter = c.filter, !.dedupe = c.dedupe,
                             !.enabled = c.enabled]
  OBVIOUS
<1>4. x \in Rule /\ x.cursor = 0 /\ x.row = "live"
  BY <1>2, <1>3 DEF Rule, Content
<1>5. rule' = [rule EXCEPT ![k] = x]
  BY <1>1, <1>3, Zenon DEF CreateRule
<1> QED
  BY <1>4, <1>5 DEF SyncTypeOK, CreateRule

\* and one that is saved or deleted.
LEMMA SaveRuleStep ==
  ASSUME SyncTypeOK, NEW c \in Content, SaveRule(c)
  PROVE  rule' \in [Rules -> Rule] /\ admin' \in [k : Rules \cup {Nil}, rule : Rule]
<1>1. NewRule \in Rule
  BY SyncAssumption DEF NewRule, Rule, IssueStates
<1>2. admin' \in [k : Rules \cup {Nil}, rule : Rule]
  BY <1>1 DEF SaveRule, NotEditing
<1>3. PICK a \in Rule : a = admin.rule
  BY DEF SyncTypeOK
<1>4. PICK x : x = [a EXCEPT !.filter = c.filter, !.dedupe = c.dedupe, !.enabled = c.enabled]
  OBVIOUS
<1>5. x \in Rule
  BY <1>3, <1>4 DEF Rule, Content
<1>6. \/ rule' = rule
      \/ rule' = [rule EXCEPT ![admin.k] = x]
  BY <1>3, <1>4, Zenon DEF SaveRule
<1>7. rule \in [Rules -> Rule]
  BY DEF SyncTypeOK
<1>8. PICK k : k = admin.k
  OBVIOUS
<1>9. [rule EXCEPT ![k] = x] \in [Rules -> Rule]
  BY <1>5, <1>7
<1> QED
  BY <1>2, <1>6, <1>7, <1>8, <1>9, Zenon

LEMMA DeleteRuleStep ==
  ASSUME SyncTypeOK, NEW k \in Rules, DeleteRule(k) PROVE rule' \in [Rules -> Rule]
<1>1. PICK n : n = NewRule
  OBVIOUS
<1>2. n \in Rule
  BY <1>1, SyncAssumption DEF NewRule, Rule, IssueStates
<1>3. PICK x : x = [n EXCEPT !.row = "deleted"]
  OBVIOUS
<1>4. x \in Rule
  BY <1>2, <1>3 DEF Rule
<1>5. rule' = [rule EXCEPT ![k] = x]
  BY <1>1, <1>3, Zenon DEF DeleteRule
<1> QED
  BY <1>4, <1>5 DEF SyncTypeOK

\* What administrators do to the rules changes no table.
LEMMA RulesKeep ==
  ASSUME RetentionInv,
         UNCHANGED <<clock, issue, mapping, task, record, run, done, failed, setting>>,
         rule' \in [Rules -> Rule], admin' \in [k : Rules \cup {Nil}, rule : Rule]
  PROVE  RetentionInv'
<1>1. SyncTypeOK'
  BY DEF RetentionInv, SyncTypeOK
<1> QED
  BY <1>1, QuietKeeps

LEMMA AdminKeeps ==
  ASSUME RetentionInv,
         \/ \E k \in Rules : LoadRule(k) \/ DeleteRule(k)
         \/ \E c \in Content : SaveRule(c) \/ \E k \in Rules : CreateRule(k, c)
  PROVE  RetentionInv'
<1>1. ASSUME NEW k \in Rules, LoadRule(k) PROVE RetentionInv'
  <2>1. admin' \in [k : Rules \cup {Nil}, rule : Rule]
    BY <1>1 DEF LoadRule, RetentionInv, SyncTypeOK
  <2> QED
    BY <1>1, <2>1, RulesKeep DEF LoadRule, RetentionInv, SyncTypeOK
<1>2. ASSUME NEW k \in Rules, DeleteRule(k) PROVE RetentionInv'
  BY <1>2, DeleteRuleStep, RulesKeep DEF DeleteRule, RetentionInv, SyncTypeOK
<1>3. ASSUME NEW c \in Content, SaveRule(c) PROVE RetentionInv'
  BY <1>3, SaveRuleStep, RulesKeep DEF SaveRule, RetentionInv, SyncTypeOK
<1>4. ASSUME NEW c \in Content, NEW k \in Rules, CreateRule(k, c) PROVE RetentionInv'
  BY <1>4, CreateRuleStep, RulesKeep DEF CreateRule, RetentionInv, SyncTypeOK
<1> QED
  BY <1>1, <1>2, <1>3, <1>4

\* An issue that changes has a version that nobody has seen.
LEMMA IssueStep ==
  ASSUME SyncTypeOK, NEW i \in Issues, NEW s \in IssueStates, NEW w \in BOOLEAN,
         IssueChanges(i, s, w)
  PROVE  /\ issue' \in [Issues -> Issue]
         /\ issue'[i].ver = issue[i].ver + 1 /\ issue'[i].at = clock
         /\ \A j \in Issues : j # i => issue'[j] = issue[j]
<1>1. setting.vers \in 1 .. MaxVer /\ issue[i].ver \in 0 .. MaxVer /\ issue[i].ver < setting.vers
  BY SyncAssumption DEF SyncTypeOK, Issue, IssueChanges
<1>2. issue[i].ver + 1 \in 0 .. MaxVer /\ clock \in 0 .. MaxClock
  BY <1>1, SyncAssumption DEF SyncTypeOK
<1>3. PICK x : x = [state |-> s, wanted |-> w, ver |-> issue[i].ver + 1, at |-> clock]
  OBVIOUS
<1>4. x \in Issue /\ x.ver = issue[i].ver + 1 /\ x.at = clock
  BY <1>2, <1>3 DEF Issue
<1>5. issue' = [issue EXCEPT ![i] = x]
  BY <1>3, Zenon DEF IssueChanges
<1> QED
  BY <1>4, <1>5 DEF SyncTypeOK

LEMMA IssueKeeps ==
  ASSUME RetentionInv, NEW i \in Issues, NEW s \in IssueStates, NEW w \in BOOLEAN,
         IssueChanges(i, s, w)
  PROVE  RetentionInv'
<1>1. /\ issue' \in [Issues -> Issue]
      /\ issue'[i].ver = issue[i].ver + 1 /\ issue'[i].at = clock
      /\ \A j \in Issues : j # i => issue'[j] = issue[j]
      /\ UNCHANGED <<clock, rule, mapping, task, record, run, admin, done, failed, setting>>
  BY IssueStep DEF RetentionInv, IssueChanges
<1>2. SyncTypeOK'
  BY <1>1 DEF RetentionInv, SyncTypeOK
<1>3. TasksStay /\ clock \in Nat
  BY <1>1 DEF TasksStay, RetentionInv, SyncTypeOK
<1>4. /\ TaskRows' /\ RecordNames' /\ OneTaskPerRetention'
      /\ \A t, j : TaskOf(t, j) => TaskOf(t, j)'
  BY <1>1, <1>3, TablesStay DEF RetentionInv, SyncTypeOK
<1>5. NamesFit'
  BY <1>1, <1>4 DEF RetentionInv, NamesFit, MappingNames, RunNames, TaskOf
<1>6. \A j \in Issues : /\ issue[j].ver \in Nat /\ issue'[j].ver \in Nat /\ clock \in Nat
                        /\ issue[j].ver <= issue'[j].ver
                        /\ issue'[j].at <= clock
                        /\ issue'[j].state # "none" => issue'[j].ver # 0
  <2> TAKE j \in Issues
  <2>1. /\ issue[j].ver \in Nat /\ issue'[j].ver \in Nat /\ clock \in Nat
        /\ issue[j].at <= clock /\ (issue[j].state # "none" => issue[j].ver # 0)
    BY <1>1, SyncAssumption DEF RetentionInv, SyncTypeOK, IssueRows, Issue
  <2>2. CASE j = i
    BY <1>1, <2>1, <2>2
  <2>3. CASE j # i
    BY <1>1, <2>1, <2>3
  <2> QED
    BY <2>2, <2>3
<1>7. ASSUME NEW p \in Runners, NEW x \in Held(run[p]) PROVE x.ver <= issue'[x.i].ver
  <2>1. x \in Listed /\ x.ver <= issue[x.i].ver
    BY DEF Held, RetentionInv, SyncTypeOK, IssueRows, Run
  <2> QED
    BY <1>6, <2>1, SyncAssumption DEF Listed
<1>8. ASSUME NEW k \in Rules, NEW j \in Issues 
      PROVE  done[k][j] <= issue'[j].ver /\ failed[k][j] <= issue'[j].ver
  <2>1. /\ done[k][j] <= issue[j].ver /\ done[k][j] \in Nat
        /\ failed[k][j] <= issue[j].ver /\ failed[k][j] \in Nat
    BY SyncAssumption DEF RetentionInv, SyncTypeOK, IssueRows
  <2> QED
    BY <1>6, <2>1
<1>9. IssueRows'
  BY <1>1, <1>6, <1>7, <1>8 DEF IssueRows
<1> QED
  BY <1>2, <1>4, <1>5, <1>9 DEF RetentionInv

\* A task that an agent moves.
LEMMA TaskMovesStep ==
  ASSUME SyncTypeOK, NEW t \in TaskIds, TaskMoves(t)
  PROVE  /\ task' \in [TaskIds -> Task] /\ TasksStay
         /\ \A u \in TaskIds : /\ task'[u].content = task[u].content
                               /\ u # t => task'[u] = task[u]
         /\ task'[t].status = "open" => task'[t].again
<1>1. CASE task[t].status = "open" /\ task' = [task EXCEPT ![t].status = "claimed"]
  BY <1>1, StatusRow DEF Statuses
<1>2. CASE task[t].status = "claimed" /\ task' = [task EXCEPT ![t].status = "completed"]
  BY <1>2, StatusRow DEF Statuses
<1>3. CASE /\ task[t].status = "claimed"
           /\ task' = [task EXCEPT ![t].status = "open", ![t].again = TRUE]
  BY <1>3, AgainRow
<1> QED
  BY <1>1, <1>2, <1>3 DEF TaskMoves

LEMMA TaskMovesKeeps ==
  ASSUME RetentionInv, NEW t \in TaskIds, TaskMoves(t) PROVE RetentionInv'
<1>1. /\ task' \in [TaskIds -> Task] /\ TasksStay
      /\ UNCHANGED <<clock, issue, rule, mapping, record, run, admin, done, failed, setting>>
  BY TaskMovesStep DEF RetentionInv, TaskMoves
<1>2. SyncTypeOK' /\ IssueRows'
  BY <1>1 DEF RetentionInv, SyncTypeOK, IssueRows
<1>3. /\ TaskRows' /\ RecordNames' /\ OneTaskPerRetention'
      /\ \A u, i : TaskOf(u, i) => TaskOf(u, i)'
  BY <1>1, TablesStay DEF RetentionInv, SyncTypeOK
<1>4. NamesFit'
  BY <1>1, <1>3 DEF RetentionInv, NamesFit, MappingNames, RunNames
<1> QED
  BY <1>2, <1>3, <1>4 DEF RetentionInv

LEMMA TickKeeps ==
  ASSUME RetentionInv, Tick PROVE RetentionInv'
<1>1. /\ clock' \in 1 .. MaxClock /\ clock <= clock' /\ clock \in Nat
      /\ UNCHANGED <<issue, rule, mapping, task, record, run, admin, done, failed, setting>>
  BY SyncAssumption DEF Tick, RetentionInv, SyncTypeOK
<1>2. SyncTypeOK' /\ TasksStay
  BY <1>1 DEF RetentionInv, SyncTypeOK, TasksStay
<1>3. IssueRows'
  BY <1>1 DEF RetentionInv, SyncTypeOK, IssueRows, Issue
<1>4. /\ TaskRows' /\ RecordNames' /\ OneTaskPerRetention'
      /\ \A u, i : TaskOf(u, i) => TaskOf(u, i)'
  BY <1>1, <1>2, TablesStay DEF RetentionInv, SyncTypeOK
<1>5. NamesFit'
  BY <1>1, <1>4 DEF RetentionInv, NamesFit, MappingNames, RunNames
<1> QED
  BY <1>2, <1>3, <1>4, <1>5 DEF RetentionInv

\* Every step keeps it.
LEMMA NextRetention == RetentionInv /\ [SyncNext]_syncVars => RetentionInv'
<1> SUFFICES ASSUME RetentionInv, [SyncNext]_syncVars PROVE RetentionInv'
  OBVIOUS
<1>1. ASSUME NEW r \in Runners, Step(r) PROVE RetentionInv'
  BY <1>1, FetchKeeps, NextIssueKeeps, LookKeeps, PublishKeeps, UpsertKeeps, StatusKeeps,
     CancelKeeps, UpdateKeeps, TouchKeeps DEF Step
<1>2. CASE UNCHANGED syncVars
  BY <1>2, RulesKeep DEF syncVars, RetentionInv, SyncTypeOK
<1> QED
  BY <1>1, <1>2, StopsKeeps, FailsKeeps, RunRuleKeeps, AdminKeeps, IssueKeeps, TaskMovesKeeps,
     TickKeeps DEF SyncNext

LEMMA InitRetention == SyncInit => RetentionInv
<1> SUFFICES ASSUME SyncInit PROVE RetentionInv
  OBVIOUS
<1>1. /\ NoTask \in Task /\ NoRecord \in Record /\ NoMapping \in Mapping /\ NewRule \in Rule
  BY SyncAssumption
     DEF NoTask, Task, NoRecord, Record, NoMapping, Mapping, NewRule, Rule, IssueStates
<1>2. [state |-> "none", wanted |-> FALSE, ver |-> 0, at |-> 0] \in Issue
  BY SyncAssumption DEF Issue, IssueStates
<1>3. SyncTypeOK
  BY <1>1, <1>2, RestFits, SyncAssumption DEF SyncInit, SyncTypeOK, NotEditing
<1>4. \A t \in TaskIds : task[t].status = "none"
  BY DEF SyncInit, NoTask
<1>5. \A r \in Runners : run[r].at = "idle" /\ Held(run[r]) = {}
  BY RestFits DEF SyncInit, Held, Handling, AtRest
<1>6. IssueRows
  BY <1>5, SyncAssumption DEF SyncInit, IssueRows
<1>7. TaskRows /\ OneTaskPerRetention
  BY <1>4 DEF TaskRows, OneTaskPerRetention
<1>8. NamesFit
  BY <1>5 DEF SyncInit, NamesFit, RecordNames, MappingNames, RunNames, Handling
<1> QED
  BY <1>3, <1>6, <1>7, <1>8 DEF RetentionInv

-----------------------------------------------------------------------------
(* The cursor.                                                               *)

\* What a step leaves of what has been seen to: a rule that is live stays as it
\* is but for its cursor, and what changes has a later time.
Lasts ==
  /\ UNCHANGED <<admin, setting>> /\ clock <= clock'
  /\ \A k \in Rules : rule[k].row = "live" =>
       /\ rule'[k].row = "live" /\ rule'[k].filter = rule[k].filter
       /\ rule'[k].dedupe = rule[k].dedupe
       /\ \A i \in Issues, n \in Nat :
            /\ n <= clock /\ Covered(k, i, n) => Covered(k, i, n)'
            /\ n <= clock /\ issue'[i].ver # issue[i].ver => Covered(k, i, n)'

\* A run that does not move.
LEMMA RunLasts ==
  ASSUME RetentionInv, CursorInv, Lasts, NEW p \in Runners, run'[p] = run[p],
         run[p].at # "idle", clock' \in Nat
  PROVE  RuleFits(run[p])' /\ RunCovers(run[p])'
<1>1. PICK q \in Run : q = run[p] /\ q = run'[p] /\ q.at # "idle"
  BY DEF RetentionInv, SyncTypeOK
<1>2. /\ RuleFits(q) /\ RunCovers(q) /\ q.k \in Rules /\ q.now \in Nat /\ q.rule.cursor \in Nat
      /\ clock \in Nat /\ q.now <= clock
  BY <1>1, SyncAssumption DEF CursorInv, RuleFits, Run, Rule, RetentionInv, SyncTypeOK
<1>3. RuleFits(q)'
  BY <1>2 DEF RuleFits, Lasts
<1>4. q.at = "list" => q.rule.cursor <= clock' /\ \A i \in Issues : Covered(q.k, i, q.rule.cursor)'
  BY <1>2 DEF RuleFits, RunCovers, Lasts
<1>5. ASSUME q.at \notin {"idle", "list"}, NEW i \in Issues
      PROVE  Covered(q.k, i, q.now)' \/ \E x \in Held(q) : x.i = i /\ x.ver = issue'[i].ver
  BY <1>2, <1>5 DEF RuleFits, RunCovers, Lasts
<1>6. RunCovers(q)'
  BY <1>2, <1>4, <1>5 DEF RunCovers
<1> QED
  BY <1>1, <1>3, <1>6 DEF RuleFits, RunCovers, Covered, SeenTo, Matches

\* The rules, as long as their cursors stand.
LEMMA RulesLast ==
  ASSUME RetentionInv, CursorInv, Lasts, clock' \in Nat,
         NEW k \in Rules, rule'[k] = rule[k], done'[k] = done[k] \/ rule[k].row = "live"
  PROVE  /\ rule'[k].row = "new" => \A i \in Issues : done'[k][i] = 0
         /\ rule'[k].row = "live" =>
              rule'[k].cursor <= clock' /\ \A i \in Issues : Covered(k, i, rule[k].cursor)'
<1>1. rule[k].cursor \in Nat /\ clock \in Nat
  BY SyncAssumption DEF RetentionInv, SyncTypeOK, Rule
<1>2. rule[k].row = "new" => \A i \in Issues : done'[k][i] = 0
  BY DEF CursorInv
<1>3. ASSUME rule[k].row = "live"
      PROVE  /\ rule[k].cursor <= clock'
             /\ \A i \in Issues : \A n \in Nat : n = rule[k].cursor => Covered(k, i, n)'
  BY <1>1, <1>3 DEF CursorInv, Lasts
<1> QED
  BY <1>1, <1>2, <1>3 DEF Covered

\* What one run does.
LEMMA CursorMoves ==
  ASSUME RetentionInv, CursorInv, Lasts, clock' = clock, NEW r \in Runners, NEW q \in Run,
         Moved(r, q), rule' = rule,
         \A k \in Rules : done'[k] = done[k] \/ rule[k].row = "live",
         q.at # "idle" => RuleFits(q)' /\ RunCovers(q)'
  PROVE  CursorInv'
<1>1. \A p \in Runners : run'[p] = IF p = r THEN q ELSE run[p]
  BY DEF Moved, RetentionInv, SyncTypeOK
<1>2. clock' \in Nat /\ admin' = NotEditing
  BY DEF CursorInv, Lasts, RetentionInv, SyncTypeOK, NotEditing, NewRule
<1>3. ASSUME NEW p \in Runners, run'[p].at # "idle"
      PROVE  RuleFits(run[p])' /\ RunCovers(run[p])'
  <2>1. CASE p = r
    BY <1>1, <1>3, <2>1 DEF RuleFits, RunCovers, Covered, SeenTo, Matches
  <2>2. CASE p # r
    BY <1>1, <1>2, <1>3, <2>2, RunLasts
  <2> QED
    BY <2>1, <2>2
<1>4. ASSUME NEW k \in Rules
      PROVE  /\ rule'[k].row = "new" => \A i \in Issues : done'[k][i] = 0
             /\ rule'[k].row = "live" =>
                  rule'[k].cursor <= clock' /\ \A i \in Issues : Covered(k, i, rule[k].cursor)'
  BY <1>2, RulesLast
<1> QED
  BY <1>2, <1>3, <1>4 DEF CursorInv, NotEditing, NewRule

\* A run that goes on: what it has not seen to yet it still holds.
LEMMA CursorOnward ==
  ASSUME RetentionInv, CursorInv, NEW r \in Runners, NEW q \in Run, Onward(r, q),
         UNCHANGED <<clock, issue, rule, admin, setting>>,
         NEW k \in Rules, k = run[r].k,
         \A l \in Rules, i \in Issues : SeenTo(l, i) => SeenTo(l, i)',
         \A l \in Rules : l # k => done'[l] = done[l],
         \A x \in Held(run[r]) :
           x \in Held(q) \/ (x.ver = issue[x.i].ver => SeenTo(k, x.i)'),
         q.at = "touch" => q.todo = {}
  PROVE  CursorInv'
<1>1. /\ Moved(r, q) /\ run[r].at # "idle" /\ run[r].at # "list" /\ q.at \notin {"idle", "list"}
      /\ q.k = k /\ q.rule = run[r].rule /\ q.now = run[r].now /\ clock \in Nat
  BY DEF Onward, RetentionInv, SyncTypeOK
<1>2. RuleFits(run[r]) /\ RunCovers(run[r]) /\ rule[k].row = "live"
  BY <1>1 DEF CursorInv, RuleFits
<1>3. Lasts
  BY <1>1 DEF Lasts, Covered, Matches
<1>4. RuleFits(q)'
  BY <1>1, <1>2 DEF RuleFits
<1>5. ASSUME NEW i \in Issues
      PROVE  Covered(k, i, q.now)' \/ \E x \in Held(q) : x.i = i /\ x.ver = issue'[i].ver
  <2>1. CASE Covered(k, i, run[r].now)
    BY <1>1, <2>1 DEF Covered, Matches
  <2>2. CASE \E x \in Held(run[r]) : x.i = i /\ x.ver = issue[i].ver
    <3>1. PICK x \in Held(run[r]) : x.i = i /\ x.ver = issue[i].ver
      BY <2>2
    <3> QED
      BY <3>1 DEF Covered
  <2> QED
    BY <1>1, <1>2, <2>1, <2>2 DEF RunCovers
<1>6. RunCovers(q)'
  BY <1>1, <1>5 DEF RunCovers
<1> QED
  BY <1>1, <1>2, <1>3, <1>4, <1>6, CursorMoves

\* A run that keeps its issue, or takes one up.
LEMMA CursorStands ==
  ASSUME RetentionInv, CursorInv, NEW r \in Runners, NEW q \in Run, Onward(r, q),
         UNCHANGED <<clock, issue, rule, admin, setting, done, failed>>,
         Held(q) = Held(run[r]), q.at = "touch" => q.todo = {}
  PROVE  CursorInv'
<1>1. PICK k \in Rules : k = run[r].k
  BY DEF RetentionInv, SyncTypeOK, Run
<1>2. \A l \in Rules, i \in Issues : SeenTo(l, i) => SeenTo(l, i)'
  BY DEF SeenTo
<1> QED
  BY <1>1, <1>2, CursorOnward

\* What is counted stays counted, and the issue at hand is counted too.
LEMMA SeenStays ==
  ASSUME RetentionInv, NEW r \in Runners, run[r].at \in Handling, issue' = issue,
         NEW k \in Rules, k = run[r].k,
         Processed(r) \/ Counted(r)
  PROVE  /\ \A l \in Rules, i \in Issues : SeenTo(l, i) => SeenTo(l, i)'
         /\ \A l \in Rules : l # k => done'[l] = done[l]
         /\ \A x : x = run[r].cur /\ x.ver = issue[x.i].ver => SeenTo(k, x.i)'
<1>1. PICK x \in Listed : x = run[r].cur /\ x.ver <= issue[x.i].ver /\ x.i \in Issues
  BY DEF RetentionInv, SyncTypeOK, Run, Listed, IssueRows, Held
<1>2. /\ \A l \in Rules, i \in Issues : done[l][i] \in Nat /\ failed[l][i] \in Nat
      /\ \A i \in Issues : issue[i].ver \in Nat
      /\ x.ver \in Nat
  BY SyncAssumption DEF RetentionInv, SyncTypeOK, Issue, Listed
<1>3. CASE Processed(r)
  <2>1. /\ failed' = failed /\ done' \in [Rules -> [Issues -> 0 .. MaxVer]]
        /\ \A l \in Rules, i \in Issues :
              IF l = k /\ i = x.i
                THEN /\ done'[l][i] \in {done[l][i], x.ver}
                     /\ done[l][i] <= done'[l][i] /\ x.ver <= done'[l][i]
                ELSE done'[l][i] = done[l][i]
    BY <1>1, <1>3, ProcessedStep DEF RetentionInv
  <2>2. /\ done'[k][x.i] = done[k][x.i] \/ done'[k][x.i] = x.ver
        /\ done[k][x.i] <= done'[k][x.i] /\ x.ver <= done'[k][x.i]
    BY <1>1, <2>1
  <2>3. done[k][x.i] <= issue[x.i].ver
    BY <1>1 DEF RetentionInv, IssueRows
  <2>4. /\ x.ver = issue[x.i].ver => done'[k][x.i] = issue[x.i].ver
        /\ done[k][x.i] = issue[x.i].ver => done'[k][x.i] = issue[x.i].ver
    <3>1. /\ done[k][x.i] \in Nat /\ issue[x.i].ver \in Nat /\ x.ver \in Nat
          /\ x.ver <= issue[x.i].ver
      BY <1>1, <1>2
    <3>2. done'[k][x.i] \in Nat
      BY <3>1, <2>2
    <3> QED
      BY <2>2, <2>3, <3>1, <3>2
  <2>5. SeenTo(k, x.i)' <=> issue[x.i].ver \in {done'[k][x.i], failed[k][x.i]}
    BY <2>1 DEF SeenTo
  <2>6. \A l \in Rules, i \in Issues : SeenTo(l, i) => SeenTo(l, i)'
    <3> SUFFICES ASSUME NEW l \in Rules, NEW i \in Issues, SeenTo(l, i) PROVE SeenTo(l, i)'
      OBVIOUS
    <3>1. CASE l = k /\ i = x.i
      BY <2>4, <2>5, <3>1 DEF SeenTo
    <3>2. CASE ~ (l = k /\ i = x.i)
      BY <2>1, <3>2 DEF SeenTo
    <3> QED
      BY <3>1, <3>2
  <2>7. \A l \in Rules : l # k => done'[l] = done[l]
    BY <2>1 DEF RetentionInv, SyncTypeOK
  <2> QED
    BY <1>1, <2>4, <2>5, <2>6, <2>7
<1>4. CASE Counted(r)
  <2>1. /\ done' = done
        /\ \A l \in Rules, i \in Issues :
              IF l = k /\ i = x.i
                THEN /\ failed'[l][i] \in {failed[l][i], x.ver}
                     /\ failed[l][i] <= failed'[l][i] /\ x.ver <= failed'[l][i]
                ELSE failed'[l][i] = failed[l][i]
    BY <1>1, <1>4, CountedStep DEF RetentionInv
  <2>2. /\ failed'[k][x.i] = failed[k][x.i] \/ failed'[k][x.i] = x.ver
        /\ failed[k][x.i] <= failed'[k][x.i] /\ x.ver <= failed'[k][x.i]
    BY <1>1, <2>1
  <2>3. failed[k][x.i] <= issue[x.i].ver
    BY <1>1 DEF RetentionInv, IssueRows
  <2>4. /\ x.ver = issue[x.i].ver => failed'[k][x.i] = issue[x.i].ver
        /\ failed[k][x.i] = issue[x.i].ver => failed'[k][x.i] = issue[x.i].ver
    <3>1. /\ failed[k][x.i] \in Nat /\ issue[x.i].ver \in Nat /\ x.ver \in Nat
          /\ x.ver <= issue[x.i].ver
      BY <1>1, <1>2
    <3>2. failed'[k][x.i] \in Nat
      BY <3>1, <2>2
    <3> QED
      BY <2>2, <2>3, <3>1, <3>2
  <2>5. SeenTo(k, x.i)' <=> issue[x.i].ver \in {done[k][x.i], failed'[k][x.i]}
    BY <2>1 DEF SeenTo
  <2>6. \A l \in Rules, i \in Issues : SeenTo(l, i) => SeenTo(l, i)'
    <3> SUFFICES ASSUME NEW l \in Rules, NEW i \in Issues, SeenTo(l, i) PROVE SeenTo(l, i)'
      OBVIOUS
    <3>1. CASE l = k /\ i = x.i
      BY <2>4, <2>5, <3>1 DEF SeenTo
    <3>2. CASE ~ (l = k /\ i = x.i)
      BY <2>1, <3>2 DEF SeenTo
    <3> QED
      BY <3>1, <3>2
  <2> QED
    BY <1>1, <2>1, <2>4, <2>5, <2>6
<1> QED
  BY <1>3, <1>4

LEMMA CursorCounts ==
  ASSUME RetentionInv, CursorInv, NEW r \in Runners, run[r].at \in Handling,
         Processed(r) \/ Counted(r), UNCHANGED <<clock, issue, rule, admin, setting>>
  PROVE  CursorInv'
<1>1. PICK k \in Rules : k = run[r].k
  BY DEF RetentionInv, SyncTypeOK, Run
<1>2. PICK q \in Run : Onward(r, q) /\ q.at = "next" /\ Held(q) = run[r].todo
  BY ProcessedStep, CountedStep, BetweenStep DEF RetentionInv
<1>3. \A x \in Held(run[r]) :
        x \in Held(q) \/ (x.ver = issue[x.i].ver => SeenTo(k, x.i)')
  BY <1>1, <1>2, SeenStays DEF Held
<1> QED
  BY <1>1, <1>2, <1>3, SeenStays, CursorOnward

\* A run that is at an issue.
LEMMA CursorGoes ==
  ASSUME RetentionInv, CursorInv, NEW r \in Runners, run[r].at \in Handling,
         NEW q \in Run, Onward(r, q), q.at \in Handling, q.todo = run[r].todo,
         q.cur = run[r].cur,
         UNCHANGED <<clock, issue, rule, admin, setting, done, failed>>
  PROVE  CursorInv'
<1>1. Held(q) = Held(run[r])
  BY DEF Held
<1> QED
  BY <1>1, CursorStands DEF Handling

LEMMA StepCursor ==
  ASSUME RetentionInv, CursorInv, NEW r \in Runners,
         Look(r) \/ Publish(r) \/ Upsert(r) \/ Status(r) \/ CancelTask(r) \/ UpdateTask(r)
           \/ Fails(r)
  PROVE  CursorInv'
<1>1. ASSUME NEW place \in Handling, Goes(r, place), run[r].at \in Handling,
             UNCHANGED <<clock, issue, rule, admin, setting>>
      PROVE  CursorInv'
  BY <1>1, AtIssueStep, CursorGoes DEF RetentionInv
<1>2. CASE Look(r)
  <2>1. run[r].at \in Handling /\ UNCHANGED <<clock, issue, rule, admin, setting>>
    BY <1>2 DEF Look, Handling
  <2>2. CASE Processed(r)
    BY <2>1, <2>2, CursorCounts
  <2>3. ASSUME NEW q \in Run, Onward(r, q), q.todo = run[r].todo, q.cur = run[r].cur,
               UNCHANGED <<done, failed>>, q.at \in {"publish", "status"}
        PROVE  CursorInv'
    BY <2>1, <2>3, CursorGoes DEF Handling
  <2> QED
    BY <1>2, <2>2, <2>3, LookStep DEF RetentionInv
<1>3. CASE Publish(r)
  <2>1. run[r].at \in Handling /\ UNCHANGED <<clock, issue, rule, admin, setting>>
    BY <1>3 DEF Publish, Handling
  <2>2. PICK i \in Issues, k \in Rules : i = run[r].cur.i /\ k = run[r].k
    BY DEF RetentionInv, SyncTypeOK, Run, Listed
  <2>3. CASE Counted(r)
    BY <2>1, <2>3, CursorCounts
  <2>4. ASSUME NEW q \in Run, NEW t \in TaskIds, HasTask(r, q, t) PROVE CursorInv'
    BY <2>1, <2>4, CursorGoes DEF HasTask, Handling
  <2> QED
    BY <1>3, <2>2, <2>3, <2>4, PublishStep DEF RetentionInv
<1>4. CASE Upsert(r)
  BY <1>4, CursorCounts DEF Upsert, Handling
<1>5. CASE Status(r)
  BY <1>1, <1>5 DEF Status, Handling
<1>6. CASE CancelTask(r)
  BY <1>1, <1>6, CursorCounts DEF CancelTask, Handling
<1>7. CASE UpdateTask(r)
  BY <1>1, <1>7 DEF UpdateTask, Handling
<1>8. CASE Fails(r)
  BY <1>8, CursorCounts DEF Fails, Places, Handling
<1> QED
  BY <1>2, <1>3, <1>4, <1>5, <1>6, <1>7, <1>8

\* Nothing is seen to or changes.
LEMMA StillLasts ==
  ASSUME RetentionInv,
         UNCHANGED <<clock, issue, rule, admin, setting, done, failed>>
  PROVE  Lasts
  BY DEF Lasts, Covered, SeenTo, Matches, RetentionInv, SyncTypeOK

LEMMA RunRuleCursor ==
  ASSUME RetentionInv, CursorInv, NEW r \in Runners, NEW k \in Rules, RunRule(r, k)
  PROVE  CursorInv'
<1>1. PICK q \in Run :
        /\ Moved(r, q) /\ q.at = "list" /\ q.k = k /\ q.rule = rule[k] /\ q.now = clock
        /\ rule[k].row = "live" /\ UNCHANGED <<Others, done, failed>>
  BY RunRuleStep DEF RetentionInv
<1>2. Lasts
  <2>1. UNCHANGED <<clock, issue, rule, admin, setting, done, failed>>
    BY <1>1 DEF Others
  <2> QED
    BY <2>1, StillLasts
<1>3. RuleFits(q)' /\ RunCovers(q)'
  BY <1>1 DEF RuleFits, RunCovers, CursorInv, Covered, SeenTo, Matches, Others, RetentionInv,
     SyncTypeOK
<1> QED
  BY <1>1, <1>2, <1>3, CursorMoves DEF Others

LEMMA FetchCursor ==
  ASSUME RetentionInv, CursorInv, NEW r \in Runners, Fetch(r) PROVE CursorInv'
<1>1. PICK q \in Run :
        /\ Moved(r, q) /\ run[r].at = "list" /\ q.at = "next"
        /\ q.k = run[r].k /\ q.now = run[r].now
        /\ q.rule.filter = run[r].rule.filter /\ q.rule.dedupe = run[r].rule.dedupe
        /\ Held(q) = ListIssues(run[r].rule) /\ UNCHANGED <<Others, done, failed>>
  BY FetchStep DEF RetentionInv
<1>2. /\ RuleFits(run[r]) /\ RunCovers(run[r])
      /\ run[r].rule.cursor \in Nat /\ q.k \in Rules
  BY <1>1, SyncAssumption DEF CursorInv, RetentionInv, SyncTypeOK, Run, Rule
<1>3. Lasts
  BY <1>1, StillLasts DEF Others
<1>4. RuleFits(q)'
  BY <1>1, <1>2 DEF RuleFits, Others
<1>5. ASSUME NEW i \in Issues
      PROVE  Covered(q.k, i, q.now) \/ \E x \in Held(q) : x.i = i /\ x.ver = issue[i].ver
  <2>1. issue[i].at \in Nat
    BY SyncAssumption DEF RetentionInv, SyncTypeOK, Issue
  <2>2. CASE issue[i].at < run[r].rule.cursor
    BY <1>1, <1>2, <2>2 DEF RunCovers, Covered
  <2>3. CASE ~ Matches(rule[q.k], i)
    BY <2>3 DEF Covered
  <2>4. CASE issue[i].at >= run[r].rule.cursor /\ Matches(rule[q.k], i)
    <3>1. Matches(run[r].rule, i)
      BY <1>1, <1>2, <2>4 DEF RuleFits, Matches
    <3>2. PICK x : x = [i |-> i, state |-> issue[i].state, ver |-> issue[i].ver]
      OBVIOUS
    <3>3. x \in ListIssues(run[r].rule)
      BY <2>4, <3>1, <3>2 DEF ListIssues, Changed
    <3> QED
      BY <1>1, <3>2, <3>3
  <2> QED
    BY <1>2, <2>1, <2>2, <2>3, <2>4
<1>6. RunCovers(q)'
  BY <1>1, <1>5 DEF RunCovers, Covered, SeenTo, Matches, Others
<1> QED
  BY <1>1, <1>3, <1>4, <1>6, CursorMoves DEF Others

LEMMA NextIssueCursor ==
  ASSUME RetentionInv, CursorInv, NEW r \in Runners, NextIssue(r) PROVE CursorInv'
<1>1. PICK q \in Run :
        /\ Onward(r, q) /\ Held(q) = Held(run[r]) /\ (q.at = "touch" => q.todo = {})
        /\ UNCHANGED <<Others, done, failed>>
  BY NextIssueStep DEF RetentionInv
<1> QED
  BY <1>1, CursorStands DEF Others

\* A run that ends early.
LEMMA StopsCursor ==
  ASSUME RetentionInv, CursorInv, NEW r \in Runners, Stops(r) PROVE CursorInv'
<1>1. PICK q \in Run : q = AtRest /\ q.at = "idle"
  BY RestFits
<1>2. Moved(r, q) /\ UNCHANGED <<clock, issue, rule, admin, setting, done, failed>>
  BY <1>1 DEF Stops, Moved
<1> QED
  BY <1>1, <1>2, StillLasts, CursorMoves

\* A run that is through with everything sets the cursor.
LEMMA TouchCursor ==
  ASSUME RetentionInv, CursorInv, NEW r \in Runners, Touch(r) PROVE CursorInv'
<1>1. /\ rule' \in [Rules -> Rule]
      /\ \A l \in Rules : /\ rule'[l].filter = rule[l].filter
                          /\ rule'[l].dedupe = rule[l].dedupe
                          /\ rule'[l].row = rule[l].row
                          /\ \/ rule'[l].cursor = rule[l].cursor
                             \/ l = run[r].k /\ rule'[l].cursor = run[r].now
  BY TouchStep DEF RetentionInv
<1>2. /\ UNCHANGED <<clock, issue, admin, setting, done, failed>> /\ clock \in Nat
      /\ run[r].at = "touch" /\ run' = [run EXCEPT ![r] = AtRest]
  BY DEF Touch, RetentionInv, SyncTypeOK
<1>3. Lasts
  BY <1>1, <1>2 DEF Lasts, Covered, SeenTo, Matches
<1>4. /\ \A i \in Issues : Covered(run[r].k, i, run[r].now)
      /\ run[r].now <= clock
  BY <1>2 DEF CursorInv, RuleFits, RunCovers, Held, Handling
<1>5. ASSUME NEW p \in Runners, run'[p].at # "idle"
      PROVE  RuleFits(run[p])' /\ RunCovers(run[p])'
  <2>1. run'[p] = run[p]
    BY <1>2, <1>5, RestFits DEF RetentionInv, SyncTypeOK
  <2> QED
    BY <1>2, <1>3, <1>5, <2>1, RunLasts
<1>6. ASSUME NEW k \in Rules
      PROVE  /\ rule'[k].row = "new" => \A i \in Issues : done'[k][i] = 0
             /\ rule'[k].row = "live" =>
                  /\ rule'[k].cursor <= clock'
                  /\ \A i \in Issues : \A n : n = rule'[k].cursor => Covered(k, i, n)'
  <2>1. CASE rule'[k].cursor = rule[k].cursor
    <3>1. rule[k].cursor \in Nat
      BY SyncAssumption DEF RetentionInv, SyncTypeOK, Rule
    <3>2. rule[k].row = "new" => \A i \in Issues : done'[k][i] = 0
      BY <1>2 DEF CursorInv
    <3>3. rule[k].row = "live" =>
            rule[k].cursor <= clock /\ \A i \in Issues : Covered(k, i, rule[k].cursor)'
      BY <1>3, <2>1, <3>1 DEF CursorInv, Lasts
    <3> QED
      BY <1>1, <1>2, <2>1, <3>2, <3>3
  <2>2. CASE k = run[r].k /\ rule'[k].cursor = run[r].now
    <3>1. PICK n \in Nat : n = run[r].now
      BY SyncAssumption DEF RetentionInv, SyncTypeOK, Run
    <3>2. rule[k].row = "new" => \A i \in Issues : done'[k][i] = 0
      BY <1>2 DEF CursorInv
    <3>3. rule[k].row = "live" =>
            n <= clock /\ \A i \in Issues : Covered(k, i, n)'
      BY <1>3, <1>4, <2>2, <3>1 DEF Lasts
    <3> QED
      BY <1>1, <1>2, <2>2, <3>1, <3>2, <3>3
  <2> QED
    BY <1>1, <2>1, <2>2
<1> QED
  BY <1>2, <1>5, <1>6 DEF CursorInv, NotEditing, NewRule, Covered

\* No run moves, and no rule.
LEMMA CursorWaits ==
  ASSUME RetentionInv, CursorInv, Lasts, clock' \in Nat, run' = run, rule' = rule, done' = done
  PROVE  CursorInv'
<1>1. admin' = NotEditing
  BY DEF CursorInv, Lasts
<1>2. \A p \in Runners : run'[p].at # "idle" => RuleFits(run[p])' /\ RunCovers(run[p])'
  BY RunLasts
<1>3. ASSUME NEW k \in Rules
      PROVE  /\ rule'[k].row = "new" => \A i \in Issues : done'[k][i] = 0
             /\ rule'[k].row = "live" =>
                  rule'[k].cursor <= clock' /\ \A i \in Issues : Covered(k, i, rule[k].cursor)'
  BY RulesLast
<1> QED
  BY <1>1, <1>2, <1>3 DEF CursorInv, NotEditing, NewRule

\* An issue that changes does so now, after whatever a cursor has passed.
LEMMA IssueCursor ==
  ASSUME RetentionInv, CursorInv, NEW i \in Issues, NEW s \in IssueStates, NEW w \in BOOLEAN,
         IssueChanges(i, s, w)
  PROVE  CursorInv'
<1>1. /\ issue'[i].at = clock /\ clock \in Nat
      /\ \A j \in Issues : j # i => issue'[j] = issue[j]
      /\ UNCHANGED <<clock, rule, mapping, task, record, run, admin, done, failed, setting>>
  BY IssueStep DEF RetentionInv, SyncTypeOK, IssueChanges
<1>2. ASSUME NEW k \in Rules, NEW j \in Issues, NEW n \in Nat, n <= clock,
             Covered(k, j, n) \/ issue'[j].ver # issue[j].ver
      PROVE  Covered(k, j, n)'
  <2>1. CASE j = i
    BY <1>1, <1>2, <2>1 DEF Covered
  <2>2. CASE j # i
    BY <1>1, <1>2, <2>2 DEF Covered, SeenTo, Matches
  <2> QED
    BY <2>1, <2>2
<1>3. Lasts
  BY <1>1, <1>2 DEF Lasts
<1> QED
  BY <1>1, <1>3, CursorWaits

LEMMA CreateRuleCursor ==
  ASSUME RetentionInv, CursorInv, NEW k \in Rules, NEW c \in Content, CreateRule(k, c)
  PROVE  CursorInv'
<1>1. /\ rule'[k].cursor = 0 /\ rule'[k].row = "live" /\ rule[k].row = "new"
      /\ \A l \in Rules : l # k => rule'[l] = rule[l]
      /\ UNCHANGED <<clock, issue, run, admin, done, failed, setting>> /\ clock \in Nat
  <2>1. UNCHANGED <<clock, issue, run, admin, done, failed, setting>>
    BY DEF CreateRule
  <2> QED
    BY <2>1, CreateRuleStep DEF RetentionInv, SyncTypeOK
<1>2. ASSUME NEW l \in Rules, l # k, NEW i \in Issues, NEW n \in Nat
      PROVE  Covered(l, i, n) => Covered(l, i, n)'
  BY <1>1, <1>2 DEF Covered, SeenTo, Matches
<1>3. Lasts
  BY <1>1, <1>2 DEF Lasts
<1>4. \A p \in Runners : run'[p].at # "idle" => RuleFits(run[p])' /\ RunCovers(run[p])'
  BY <1>1, <1>3, RunLasts
<1>5. ASSUME NEW l \in Rules, rule'[l].row = "live"
      PROVE  rule'[l].cursor <= clock' /\ \A i \in Issues : Covered(l, i, rule[l].cursor)'
  <2>1. CASE l # k
    BY <1>1, <1>3, <1>5, <2>1, RulesLast DEF Covered
  <2>2. CASE l = k
    BY <1>1, <2>2, SyncAssumption DEF Covered, RetentionInv, SyncTypeOK, Issue
  <2> QED
    BY <2>1, <2>2
<1>6. \A l \in Rules : rule'[l].row = "new" => \A i \in Issues : done'[l][i] = 0
  BY <1>1 DEF CursorInv
<1> QED
  BY <1>1, <1>4, <1>5, <1>6 DEF CursorInv, NotEditing, NewRule

\* While nobody changes a rule again, every step keeps what the cursor says.
LEMMA NextCursor ==
  ASSUME RetentionInv, CursorInv, ~ setting.edits, [SyncNext]_syncVars PROVE CursorInv'
<1>1. clock \in Nat
  BY DEF RetentionInv, SyncTypeOK
<1>2. ASSUME NEW r \in Runners, Step(r) PROVE CursorInv'
  BY <1>2, FetchCursor, NextIssueCursor, StepCursor, TouchCursor DEF Step
<1>3. ASSUME NEW k \in Rules, LoadRule(k) \/ DeleteRule(k) PROVE CursorInv'
  BY <1>3 DEF LoadRule, DeleteRule
<1>4. ASSUME NEW c \in Content, SaveRule(c) PROVE CursorInv'
  BY <1>4 DEF SaveRule, CursorInv
<1>5. ASSUME NEW t \in TaskIds, TaskMoves(t) PROVE CursorInv'
  BY <1>1, <1>5, StillLasts, CursorWaits DEF TaskMoves
<1>6. CASE Tick
  <2>1. /\ UNCHANGED <<issue, rule, run, admin, done, failed, setting>>
        /\ clock' \in Nat /\ clock <= clock'
    BY <1>1, <1>6 DEF Tick
  <2>2. Lasts
    BY <2>1 DEF Lasts, Covered, SeenTo, Matches
  <2> QED
    BY <2>1, <2>2, CursorWaits
<1>7. CASE UNCHANGED syncVars
  BY <1>1, <1>7, StillLasts, CursorWaits DEF syncVars
<1> QED
  BY <1>2, <1>3, <1>4, <1>5, <1>6, <1>7, StepCursor, StopsCursor, RunRuleCursor,
     CreateRuleCursor, IssueCursor DEF SyncNext

LEMMA InitCursor == SyncInit => CursorInv
<1> SUFFICES ASSUME SyncInit PROVE CursorInv
  OBVIOUS
<1>1. \A r \in Runners : run[r].at = "idle"
  BY RestFits DEF SyncInit
<1>2. \A k \in Rules : rule[k].row = "new" /\ \A i \in Issues : done[k][i] = 0
  BY DEF SyncInit, NewRule
<1> QED
  BY <1>1, <1>2 DEF SyncInit, CursorInv, NotEditing, NewRule

LEMMA CursorHonest == RetentionInv /\ (~ setting.edits => CursorInv) => CursorIsHonest
  BY DEF CursorInv, CursorIsHonest, Covered, SeenTo

-----------------------------------------------------------------------------
(* One run at a time.                                                        *)

\* A mapping names a task that is there.
LEMMA MappedTask ==
  ASSUME RetentionInv, NEW i \in Issues, mapping[i] # NoMapping
  PROVE  TaskOf(mapping[i].task, i)
  BY DEF RetentionInv, NamesFit, MappingNames

\* What is left behind, in the words of what is on offer.
LEMMA ReflectsOffer ==
  ASSUME NEW k \in Rules, NEW i \in Issues, mapping[i] # NoMapping
  PROVE  Reflects(k, i) <=> /\ mapping[i].state = issue[i].state
                            /\ task[mapping[i].task].of = i
                            /\ OnOffer(mapping[i].task, issue[i], k)
  BY DEF Reflects, OnOffer

\* Rules that stay what they are.
RulesStay ==
  \A k \in Rules : rule[k].row # "new" =>
    /\ rule'[k].row = rule[k].row /\ rule'[k].filter = rule[k].filter
    /\ rule'[k].dedupe = rule[k].dedupe

\* A rule that becomes live has processed nothing.
LEMMA NewRules ==
  ASSUME RetentionInv, CursorInv, RulesStay, issue' = issue, done' = done,
         NEW k \in Rules, NEW i \in Issues,
         rule'[k].row = "live" /\ done'[k][i] = issue'[i].ver /\ Matches(rule[k], i)'
  PROVE  /\ rule[k].row = "live" /\ done[k][i] = issue[i].ver /\ Matches(rule[k], i)
         /\ rule'[k].dedupe = rule[k].dedupe
<1>1. issue[i].ver # 0
  BY DEF Matches, IssueStates, RetentionInv, IssueRows
<1>2. rule[k].row # "new"
  BY <1>1 DEF CursorInv
<1> QED
  BY <1>2 DEF RulesStay, Matches

\* What has been processed stays reflected when a task changes, as long as it
\* is on offer as it was.
LEMMA ReflectedStays ==
  ASSUME RetentionInv, CursorInv, AloneInv, RulesStay, issue' = issue, done' = done,
         mapping' = mapping,
         \A t \in TaskIds, k \in Rules, i \in Issues :
           /\ TaskOf(t, i) /\ done[k][i] = issue[i].ver /\ rule[k].row = "live"
           /\ rule'[k].dedupe = rule[k].dedupe /\ OnOffer(t, issue[i], k)
           => task'[t].of = i /\ OnOffer(t, issue[i], k)'
  PROVE  AllReflected'
<1> SUFFICES ASSUME NEW k \in Rules, NEW i \in Issues,
                    rule'[k].row = "live" /\ done'[k][i] = issue'[i].ver /\ Matches(rule[k], i)'
             PROVE  Reflects(k, i)'
  BY DEF AllReflected, Matches
<1>1. /\ rule[k].row = "live" /\ done[k][i] = issue[i].ver /\ Matches(rule[k], i)
      /\ rule'[k].dedupe = rule[k].dedupe
  BY NewRules
<1>2. Reflects(k, i)
  BY <1>1 DEF AloneInv, AllReflected
<1>3. CASE mapping[i] = NoMapping
  BY <1>2, <1>3 DEF Reflects
<1>4. CASE mapping[i] # NoMapping
  <2>1. PICK t \in TaskIds : t = mapping[i].task /\ TaskOf(t, i)
    BY <1>4, MappedTask DEF TaskOf
  <2>2. mapping[i].state = issue[i].state /\ OnOffer(t, issue[i], k)
    BY <1>2, <1>4, <2>1, ReflectsOffer
  <2>3. task'[t].of = i /\ OnOffer(t, issue[i], k)'
    BY <1>1, <2>1, <2>2
  <2> QED
    BY <1>4, <2>1, <2>2, <2>3 DEF Reflects, OnOffer
<1> QED
  BY <1>3, <1>4

\* Steps that leave the issues and the tables alone.
LEMMA QuietAlone ==
  ASSUME RetentionInv, CursorInv, AloneInv, RulesStay,
         UNCHANGED <<issue, mapping, task, record, done>>
  PROVE  /\ ContentsFit' /\ AllReflected'
         /\ \A x : Latest(x) => Latest(x)'
<1>1. ContentsFit' /\ \A x : Latest(x) => Latest(x)'
  BY DEF AloneInv, ContentsFit, TaskOf, Latest
<1>2. AllReflected'
  BY ReflectedStays DEF TaskOf, OnOffer
<1> QED
  BY <1>1, <1>2

\* The step of the only run.
LEMMA AloneMoves ==
  ASSUME RetentionInv, AloneInv, NEW r \in Runners, r = Ticker, NEW q \in Run, Moved(r, q),
         Carries(q)', ContentsFit', AllReflected'
  PROVE  AloneInv'
<1>1. \A p \in Runners : run'[p] = IF p = r THEN q ELSE run[p]
  BY DEF Moved, RetentionInv, SyncTypeOK
<1>2. run'[Ticker] = q
  BY <1>1
<1>3. Carries(run[Ticker])'
  BY <1>2 DEF Carries, Held, Latest, TaskOf, AtIssue, OnOffer
<1> QED
  BY <1>1, <1>3 DEF AloneInv

\* A run that is at no issue.
LEMMA CarriesNone ==
  ASSUME NEW q \in Run, q.at \notin Handling,
         \A x \in q.todo : Latest(x)', \A x, y \in q.todo : x.i = y.i => x = y
  PROVE  Carries(q)'
<1>1. Held(q) = q.todo
  BY DEF Held
<1>2. AtIssue(q)'
  BY DEF AtIssue, Handling
<1> QED
  BY <1>1, <1>2 DEF Carries

\* A run that goes on with its issue.
LEMMA CarriesOn ==
  ASSUME AloneInv, run[Ticker].at \in Handling, NEW q \in Run, q.todo = run[Ticker].todo,
         q.cur = run[Ticker].cur, \A x \in Held(run[Ticker]) : Latest(x)', AtIssue(q)'
  PROVE  Carries(q)'
<1>1. Held(q) \subseteq Held(run[Ticker])
  BY DEF Held
<1> QED
  BY <1>1 DEF AloneInv, Carries

LEMMA RulesStand ==
  ASSUME rule' = rule PROVE RulesStay
  BY DEF RulesStay

LEMMA RunRuleAlone ==
  ASSUME RetentionInv, CursorInv, AloneInv, NEW r \in Runners, r = Ticker,
         NEW k \in Rules, RunRule(r, k)
  PROVE  AloneInv'
<1>1. PICK q \in Run : Moved(r, q) /\ q.at = "list" /\ Held(q) = {}
                       /\ UNCHANGED <<Others, done, failed>>
  BY RunRuleStep DEF RetentionInv
<1>2. ContentsFit' /\ AllReflected'
  BY <1>1, RulesStand, QuietAlone DEF Others
<1>3. Carries(q)'
  BY <1>1, CarriesNone DEF Held, Handling
<1> QED
  BY <1>1, <1>2, <1>3, AloneMoves

LEMMA FetchAlone ==
  ASSUME RetentionInv, CursorInv, AloneInv, NEW r \in Runners, r = Ticker, Fetch(r)
  PROVE  AloneInv'
<1>1. PICK q \in Run : Moved(r, q) /\ q.at = "next" /\ q.todo = ListIssues(run[r].rule)
                       /\ UNCHANGED <<Others, done, failed>>
  BY FetchStep DEF RetentionInv
<1>2. ContentsFit' /\ AllReflected' /\ \A x : Latest(x) => Latest(x)'
  BY <1>1, RulesStand, QuietAlone DEF Others
<1>3. ASSUME NEW x \in q.todo PROVE Latest(x)
  <2>1. PICK i \in Issues : x = [i |-> i, state |-> issue[i].state, ver |-> issue[i].ver]
    BY <1>1 DEF ListIssues, Changed
  <2>2. x.i = i /\ x.state = issue[i].state /\ x.ver = issue[i].ver
    BY <2>1
  <2>3. /\ \A k \in Rules : done[k][i] <= issue[i].ver
        /\ \A t \in TaskIds : TaskOf(t, i) => task[t].content <= issue[i].ver
    BY DEF RetentionInv, IssueRows, AloneInv, ContentsFit
  <2> QED
    BY <2>2, <2>3 DEF Latest
<1>4. \A x, y \in q.todo : x.i = y.i => x = y
  BY <1>1 DEF ListIssues, Changed
<1>5. Carries(q)'
  BY <1>1, <1>2, <1>3, <1>4, CarriesNone DEF Handling
<1> QED
  BY <1>1, <1>2, <1>5, AloneMoves

LEMMA NextIssueAlone ==
  ASSUME RetentionInv, CursorInv, AloneInv, NEW r \in Runners, r = Ticker, NextIssue(r)
  PROVE  AloneInv'
<1>1. PICK q \in Run :
        /\ Onward(r, q) /\ Held(q) = Held(run[r])
        /\ run[r].at = "next"
        /\ \/ q.at = "touch" /\ q.todo = {}
           \/ q.at = "look" /\ q.cur \notin q.todo
        /\ UNCHANGED <<Others, done, failed>>
  BY NextIssueStep DEF RetentionInv
<1>2. ContentsFit' /\ AllReflected' /\ \A x : Latest(x) => Latest(x)'
  BY <1>1, RulesStand, QuietAlone DEF Others
<1>3. \A x \in Held(q) : Latest(x)'
  BY <1>1, <1>2 DEF AloneInv, Carries
<1>4. Held(q) = run[r].todo /\ \A x, y \in run[r].todo : x.i = y.i => x = y
  BY <1>1 DEF Held, Handling, AloneInv, Carries
<1>5. ASSUME q.at = "touch" /\ q.todo = {} PROVE Carries(q)'
  BY <1>5, CarriesNone DEF Handling
<1>6. ASSUME q.at = "look" /\ q.cur \notin q.todo PROVE Carries(q)'
  <2>1. q.cur \in Held(q) /\ q.todo \subseteq Held(q)
    BY <1>6 DEF Held, Handling
  <2>2. /\ \A x, y \in q.todo : x.i = y.i => x = y
        /\ \A x \in q.todo : x.i # q.cur.i
    BY <1>4, <1>6, <2>1
  <2>3. AtIssue(q)'
    BY <1>6 DEF AtIssue
  <2> QED
    BY <1>3, <2>2, <2>3 DEF Carries
<1> QED
  BY <1>1, <1>2, <1>5, <1>6, AloneMoves DEF Onward

\* A run that ends, whatever the tables of the rules say then.
LEMMA RestAlone ==
  ASSUME RetentionInv, CursorInv, AloneInv, NEW r \in Runners, r = Ticker,
         run' = [run EXCEPT ![r] = AtRest], RulesStay,
         UNCHANGED <<issue, mapping, task, record, done>>
  PROVE  AloneInv'
<1>1. PICK q \in Run : q = AtRest
  BY RestFits
<1>2. Moved(r, q) /\ q.at = "idle" /\ q.todo = {}
  BY <1>1 DEF Moved, AtRest
<1>3. Carries(q)'
  BY <1>2, CarriesNone DEF Handling
<1> QED
  BY <1>2, <1>3, QuietAlone, AloneMoves

\* A run that goes on to the next issue without having processed this one.
LEMMA CountedAlone ==
  ASSUME RetentionInv, CursorInv, AloneInv, NEW r \in Runners, r = Ticker,
         run[r].at \in Handling, Counted(r), UNCHANGED <<issue, rule, mapping, task, record>>
  PROVE  AloneInv'
<1>1. PICK q \in Run : Onward(r, q) /\ q.at = "next" /\ q.todo = run[r].todo
  BY CountedStep, BetweenStep DEF RetentionInv
<1>2. ContentsFit' /\ AllReflected' /\ \A x : Latest(x) => Latest(x)'
  BY RulesStand, QuietAlone DEF Counted
<1>3. Carries(q)'
  BY <1>1, <1>2, CarriesNone DEF Handling, AloneInv, Carries, Held
<1> QED
  BY <1>1, <1>2, <1>3, AloneMoves DEF Onward

\* A run that keeps its issue and has only looked.
LEMMA LooksAlone ==
  ASSUME RetentionInv, CursorInv, AloneInv, NEW r \in Runners, r = Ticker,
         run[r].at \in Handling, NEW q \in Run, Onward(r, q), q.todo = run[r].todo,
         q.cur = run[r].cur, AtIssue(q),
         UNCHANGED <<issue, rule, mapping, task, record, done>>
  PROVE  AloneInv'
<1>1. ContentsFit' /\ AllReflected' /\ \A x : Latest(x) => Latest(x)'
  BY RulesStand, QuietAlone
<1>2. AtIssue(q)'
  BY DEF AtIssue, OnOffer
<1>3. Carries(q)'
  BY <1>1, <1>2, CarriesOn DEF AloneInv, Carries
<1> QED
  BY <1>1, <1>3, AloneMoves DEF Onward

\* The version processed is the latest one that any rule has processed.
LEMMA DoneAtIssue ==
  ASSUME RetentionInv, AloneInv, NEW r \in Runners, r = Ticker, run[r].at \in Handling,
         NEW x \in Listed, x = run[r].cur, Processed(r)
  PROVE  /\ x.i \in Issues /\ Latest(x)
         /\ x.ver \in Nat /\ issue[x.i].ver \in Nat /\ x.ver <= issue[x.i].ver
         /\ \A k \in Rules, i \in Issues : i # x.i => done'[k][i] = done[k][i]
         /\ \A k \in Rules : k # run[r].k => done'[k][x.i] = done[k][x.i]
         /\ \A k \in Rules : done'[k][x.i] = issue[x.i].ver =>
              x.ver = issue[x.i].ver /\ x.state = issue[x.i].state
         /\ \A k \in Rules : done'[k][x.i] <= x.ver
<1>1. /\ x \in Held(run[r]) /\ x.i \in Issues /\ x.ver <= issue[x.i].ver
      /\ x.ver \in Nat /\ issue[x.i].ver \in Nat
  BY SyncAssumption DEF Held, RetentionInv, SyncTypeOK, IssueRows, Issue, Listed
<1>2. Latest(x)
  BY <1>1 DEF AloneInv, Carries
<1>3. /\ done' \in [Rules -> [Issues -> 0 .. MaxVer]]
      /\ \A k \in Rules, i \in Issues :
              IF k = run[r].k /\ i = x.i
                THEN done'[k][i] \in {done[k][i], x.ver}
                ELSE done'[k][i] = done[k][i]
  BY ProcessedStep DEF RetentionInv
<1>4. \A k \in Rules : done'[k][x.i] <= x.ver
  BY <1>1, <1>2, <1>3 DEF Latest
<1>5. \A k \in Rules : done'[k][x.i] = issue[x.i].ver => x.ver = issue[x.i].ver
  <2> SUFFICES ASSUME NEW k \in Rules, done'[k][x.i] = issue[x.i].ver
               PROVE  x.ver = issue[x.i].ver
    OBVIOUS
  <2>1. issue[x.i].ver <= x.ver
    BY <1>4
  <2> QED
    BY <1>1, <2>1
<1> QED
  BY <1>1, <1>2, <1>3, <1>4, <1>5 DEF Latest

\* The issues that are left to a run that has processed one.
LEMMA TodoLatest ==
  ASSUME RetentionInv, AloneInv, NEW r \in Runners, r = Ticker, run[r].at \in Handling,
         Processed(r), UNCHANGED <<issue, task>>
  PROVE  \A y \in run[r].todo : Latest(y)'
<1>1. PICK x \in Listed : x = run[r].cur
  BY DEF RetentionInv, SyncTypeOK, Run
<1> SUFFICES ASSUME NEW y \in run[r].todo PROVE Latest(y)'
  OBVIOUS
<1>2. Latest(y) /\ y.i # x.i /\ y.i \in Issues
  BY <1>1 DEF AloneInv, Carries, Held, RetentionInv, SyncTypeOK, Run, Listed
<1>3. \A k \in Rules : done'[k][y.i] = done[k][y.i]
  BY <1>1, <1>2, DoneAtIssue
<1> QED
  BY <1>2, <1>3 DEF Latest, TaskOf

\* An issue that is processed: every rule that has seen it as it is finds it
\* reflected.
LEMMA ProcessedAlone ==
  ASSUME RetentionInv, CursorInv, AloneInv, NEW r \in Runners, r = Ticker,
         run[r].at \in Handling, Processed(r), NEW x \in Listed, x = run[r].cur,
         UNCHANGED <<issue, rule, task, record>>,
         \A i \in Issues : i # x.i => mapping'[i] = mapping[i],
         \A k \in Rules :
           /\ rule[k].row = "live" /\ Matches(rule[k], x.i)
           /\ x.ver = issue[x.i].ver /\ x.state = issue[x.i].state
           /\ k = run[r].k \/ Reflects(k, x.i)
           => Reflects(k, x.i)'
  PROVE  AloneInv'
<1>1. PICK q \in Run : Onward(r, q) /\ q.at = "next" /\ q.todo = run[r].todo
  BY ProcessedStep, BetweenStep DEF RetentionInv
<1>2. ContentsFit'
  BY DEF AloneInv, ContentsFit, TaskOf
<1>3. ASSUME NEW k \in Rules, NEW i \in Issues,
             (rule[k].row = "live" /\ done[k][i] = issue[i].ver /\ Matches(rule[k], i))'
      PROVE  Reflects(k, i)'
  <2>1. rule[k].row = "live" /\ Matches(rule[k], i) /\ done'[k][i] = issue[i].ver
    BY <1>3 DEF Matches
  <2>2. CASE i # x.i
    <3>1. Reflects(k, i)
      BY <2>1, <2>2, DoneAtIssue DEF AloneInv, AllReflected
    <3> QED
      BY <2>2, <3>1 DEF Reflects
  <2>3. CASE i = x.i
    <3>1. x.ver = issue[x.i].ver /\ x.state = issue[x.i].state
      BY <2>1, <2>3, DoneAtIssue
    <3>2. k = run[r].k \/ Reflects(k, x.i)
      BY <2>1, <2>3, DoneAtIssue DEF AloneInv, AllReflected
    <3> QED
      BY <2>1, <2>3, <3>1, <3>2
  <2> QED
    BY <2>2, <2>3
<1>4. Carries(q)'
  BY <1>1, TodoLatest, CarriesNone DEF Handling, AloneInv, Carries
<1> QED
  BY <1>1, <1>2, <1>3, <1>4, AloneMoves DEF Onward, AllReflected

LEMMA LookAlone ==
  ASSUME RetentionInv, CursorInv, AloneInv, NEW r \in Runners, r = Ticker, Look(r)
  PROVE  AloneInv'
<1>1. run[r].at \in Handling /\ UNCHANGED Others
  BY LookStep DEF RetentionInv, Handling
<1>2. CASE Processed(r) /\ mapping[run[r].cur.i] = NoMapping /\ run[r].cur.state = "closed"
  <2>1. PICK x \in Listed : x = run[r].cur
    BY DEF RetentionInv, SyncTypeOK, Run
  <2>2. ASSUME x.state = issue[x.i].state, NEW k \in Rules PROVE Reflects(k, x.i)'
    BY <1>1, <1>2, <2>1, <2>2 DEF Reflects, Others
  <2> QED
    BY <1>1, <1>2, <2>1, <2>2, ProcessedAlone DEF Others
<1>3. ASSUME NEW q \in Run,
             Onward(r, q) /\ q.todo = run[r].todo /\ q.cur = run[r].cur,
             q.map = mapping[q.cur.i], UNCHANGED <<done, failed>>,
             \/ q.at = "publish" /\ q.map = NoMapping /\ q.cur.state = "open"
             \/ q.at = "status" /\ q.map # NoMapping
      PROVE  AloneInv'
  <2>1. AtIssue(q)
    BY <1>3 DEF AtIssue
  <2> QED
    BY <1>1, <1>3, <2>1, LooksAlone DEF Others
<1> QED
  BY <1>2, <1>3, LookStep DEF RetentionInv

\* The mapping is written.
LEMMA UpsertAlone ==
  ASSUME RetentionInv, CursorInv, AloneInv, NEW r \in Runners, r = Ticker, Upsert(r)
  PROVE  AloneInv'
<1>1. /\ run[r].at \in {"map", "refresh"} /\ run[r].at \in Handling /\ Processed(r)
      /\ UNCHANGED <<clock, issue, rule, task, record, admin, setting>>
  BY DEF Upsert, Handling
<1>2. PICK x \in Listed : x = run[r].cur
  BY DEF RetentionInv, SyncTypeOK, Run
<1>3. PICK t \in TaskIds : t = run[r].map.task /\ TaskOf(t, x.i)
  BY <1>1, <1>2 DEF RetentionInv, NamesFit, RunNames, TaskOf, Handling
<1>4. PICK m : m = [task |-> t, state |-> x.state]
  OBVIOUS
<1>5. m.task = t /\ m.state = x.state /\ m # NoMapping
  BY <1>4, SyncAssumption DEF NoMapping, Listed
<1>6. mapping' = [mapping EXCEPT ![x.i] = m] /\ x.i \in Issues
  BY <1>2, <1>3, <1>4 DEF Upsert, Listed
<1>7. mapping'[x.i] = m /\ \A i \in Issues : i # x.i => mapping'[i] = mapping[i]
  BY <1>6 DEF RetentionInv, SyncTypeOK
<1>8. AtIssue(run[r])
  BY DEF AloneInv, Carries
<1>9. ASSUME NEW k \in Rules, x.ver = issue[x.i].ver, x.state = issue[x.i].state,
             k = run[r].k \/ Reflects(k, x.i)
      PROVE  Reflects(k, x.i)'
  <2>1. OnOffer(t, x, k)
    <3>1. CASE run[r].at = "map"
      <4>1. mapping[x.i] = NoMapping /\ x.state = "open" /\ task[t].content = x.ver
        BY <1>2, <1>3, <1>8, <3>1 DEF AtIssue
      <4> QED
        BY <4>1 DEF OnOffer
    <3>2. CASE run[r].at = "refresh" /\ k = run[r].k
      BY <1>2, <1>3, <1>8, <3>2 DEF AtIssue
    <3>3. CASE run[r].at = "refresh" /\ Reflects(k, x.i)
      <4>1. mapping[x.i] = run[r].map /\ mapping[x.i] # NoMapping
        BY <1>2, <1>8, <3>3 DEF AtIssue
      <4> QED
        BY <1>3, <1>9, <3>3, <4>1 DEF Reflects, OnOffer
    <3> QED
      BY <1>1, <1>9, <3>1, <3>2, <3>3
  <2>2. task'[t].of = x.i /\ issue' = issue /\ task' = task /\ rule' = rule
    BY <1>1, <1>3 DEF TaskOf
  <2> QED
    BY <1>5, <1>7, <1>9, <2>1, <2>2 DEF Reflects, OnOffer
<1> QED
  BY <1>1, <1>2, <1>7, <1>9, ProcessedAlone

\* What follows from the status of the task.
LEMMA StatusAlone ==
  ASSUME RetentionInv, CursorInv, AloneInv, NEW r \in Runners, r = Ticker, Status(r)
  PROVE  AloneInv'
<1>1. PICK s : s = task[run[r].map.task].status
  OBVIOUS
<1>2. PICK place \in {"cancel", "update", "refresh"} :
        /\ Goes(r, place)
        /\ place = "update" => run[r].cur.state = "open"
        /\ place = "refresh" =>
             (s = "open" => run[r].cur.state = "open" /\ run[r].rule.dedupe = "skip")
  BY <1>1 DEF Status
<1>3. run[r].at = "status" /\ run[r].at \in Handling /\ place \in Handling /\ UNCHANGED Others
  BY DEF Status, Others, Handling
<1>4. PICK q \in Run : /\ Onward(r, q) /\ q.at = place /\ UNCHANGED <<done, failed>>
                       /\ q.todo = run[r].todo /\ q.cur = run[r].cur /\ q.map = run[r].map
  BY <1>2, <1>3, AtIssueStep DEF RetentionInv
<1>5. q.k = run[r].k /\ rule[q.k].dedupe = run[r].rule.dedupe
  BY <1>3, <1>4 DEF Onward, CursorInv, RuleFits
<1>6. mapping[q.cur.i] = q.map /\ q.map # NoMapping
  BY <1>3, <1>4 DEF AloneInv, Carries, AtIssue
<1>7. q.at = "refresh" => OnOffer(q.map.task, q.cur, q.k)
  BY <1>1, <1>2, <1>4, <1>5 DEF OnOffer
<1>8. AtIssue(q)
  BY <1>2, <1>4, <1>6, <1>7 DEF AtIssue
<1> QED
  BY <1>3, <1>4, <1>8, LooksAlone DEF Others

\* A task changes that belongs to the issue at hand; the run goes on with it.
LEMMA TaskAlone ==
  ASSUME RetentionInv, CursorInv, AloneInv, NEW r \in Runners, r = Ticker,
         run[r].at \in Handling, NEW x \in Listed, x = run[r].cur,
         NEW q \in Run, Onward(r, q), q.todo = run[r].todo, q.cur = run[r].cur,
         UNCHANGED <<issue, rule, mapping, done>>, NEW t \in TaskIds,
         \A u \in TaskIds : u # t => task'[u] = task[u],
         task'[t].of = x.i, task'[t].content <= x.ver, AtIssue(q)',
         ContentsFit',
         TaskOf(t, x.i) \/ task[t].status = "none",
         \A k \in Rules :
           x.ver = issue[x.i].ver /\ OnOffer(t, issue[x.i], k) => OnOffer(t, issue[x.i], k)'
  PROVE  AloneInv'
<1>1. /\ x \in Held(run[r]) /\ Latest(x) /\ x.ver <= issue[x.i].ver
      /\ x.ver \in Nat /\ issue[x.i].ver \in Nat
  BY SyncAssumption
     DEF Held, AloneInv, Carries, RetentionInv, IssueRows, SyncTypeOK, Issue, Listed
<1>2. AllReflected'
  <2>1. ASSUME NEW u \in TaskIds, NEW k \in Rules, NEW i \in Issues,
               TaskOf(u, i), done[k][i] = issue[i].ver, OnOffer(u, issue[i], k)
        PROVE  task'[u].of = i /\ OnOffer(u, issue[i], k)'
    <3>1. CASE u # t
      BY <2>1, <3>1 DEF TaskOf, OnOffer
    <3>2. CASE u = t
      <4>1. i = x.i
        BY <2>1, <3>2 DEF TaskOf
      <4>2. x.ver = issue[x.i].ver
        <5>1. issue[x.i].ver <= x.ver
          BY <1>1, <2>1, <4>1 DEF Latest
        <5> QED
          BY <1>1, <5>1
      <4> QED
        BY <2>1, <3>2, <4>1, <4>2 DEF OnOffer
    <3> QED
      BY <3>1, <3>2
  <2> QED
    BY <2>1, RulesStand, ReflectedStays
<1>3. ASSUME NEW y \in Held(run[r]) PROVE Latest(y)'
  <2>1. Latest(y)
    BY DEF AloneInv, Carries
  <2>2. CASE y = x
    BY <1>1, <2>2 DEF Latest, TaskOf
  <2>3. CASE y # x
    <3>1. y.i # x.i
      BY <2>3 DEF Held, AloneInv, Carries
    <3> QED
      BY <2>1, <3>1 DEF Latest, TaskOf
  <2> QED
    BY <2>2, <2>3
<1>4. Carries(q)'
  BY <1>3, CarriesOn
<1> QED
  BY <1>2, <1>4, AloneMoves DEF Onward

LEMMA PublishAlone ==
  ASSUME RetentionInv, CursorInv, AloneInv, NEW r \in Runners, r = Ticker, Publish(r)
  PROVE  AloneInv'
<1>1. PICK x \in Listed : x = run[r].cur
  BY DEF RetentionInv, SyncTypeOK, Run
<1>2. PICK i \in Issues, k \in Rules : i = run[r].cur.i /\ k = run[r].k
  BY DEF RetentionInv, SyncTypeOK, Run, Listed
<1>3. /\ run[r].at = "publish" /\ run[r].at \in Handling
      /\ UNCHANGED <<clock, issue, rule, mapping, admin, setting>>
  BY DEF Publish, Handling
<1>4. mapping[i] = NoMapping /\ run[r].cur.state = "open" /\ Latest(x) /\ i = x.i
  BY <1>1, <1>2, <1>3 DEF AloneInv, Carries, AtIssue, Held
<1>5. CASE Counted(r) /\ UNCHANGED <<task, record>>
  BY <1>3, <1>5, CountedAlone
<1>6. ASSUME NEW q \in Run, NEW t \in TaskIds, HasTask(r, q, t), Republished(r, i, k, t)
      PROVE  AloneInv'
  <2>1. /\ record[k][i] # NoRecord /\ record[k][i].ver = x.ver /\ t = record[k][i].task
        /\ TaskOf(t, i)
    BY <1>1, <1>6 DEF Republished, Answered, SameRequest, RetentionInv, NamesFit, RecordNames
  <2>2. x.ver <= task[t].content /\ task[t].content <= x.ver
    BY <1>4, <2>1 DEF AloneInv, ContentsFit, Latest
  <2>3. task[t].content = x.ver
    <3>1. task[t].content \in 0 .. MaxVer /\ x.ver \in 1 .. MaxVer
      BY DEF RetentionInv, SyncTypeOK, Task, Listed
    <3> QED
      BY <2>2, <3>1, SyncAssumption
  <2>4. AtIssue(q)
    BY <1>1, <1>2, <1>4, <1>6, <2>3 DEF AtIssue, HasTask
  <2> QED
    BY <1>3, <1>6, <2>4, LooksAlone DEF HasTask, Republished
<1>7. ASSUME NEW q \in Run, NEW t \in TaskIds, HasTask(r, q, t), Published(r, i, k, t)
      PROVE  AloneInv'
  <2>1. PICK y \in Task : /\ y = SystemTask(r) /\ y.of = i /\ y.status = "open"
                          /\ y.content = x.ver
    BY <1>1, <1>2, SystemTaskFits DEF RetentionInv
  <2>2. PICK d : d = [task |-> t, now |-> run[r].now, born |-> clock, ver |-> x.ver]
    OBVIOUS
  <2>3. d.task = t /\ d.ver = x.ver
    BY <2>2
  <2>4. task' = [task EXCEPT ![t] = y] /\ record' = [record EXCEPT ![k][i] = d]
    BY <1>1, <1>7, <2>1, <2>2 DEF Published
  <2>5. task'[t] = y /\ \A u \in TaskIds : u # t => task'[u] = task[u]
    BY <2>4 DEF RetentionInv, SyncTypeOK
  <2>6. \A l \in Rules, j \in Issues :
          record'[l][j] = IF l = k /\ j = i THEN d ELSE record[l][j]
    BY <1>2, <2>4 DEF RetentionInv, SyncTypeOK
  <2>7. /\ x.ver <= issue[i].ver /\ x.ver \in Nat
    BY <1>1, <1>3, <1>4, SyncAssumption DEF RetentionInv, IssueRows, Held, Listed
  <2>8. task[t].status = "none"
    BY <1>7 DEF Published
  <2>9. ContentsFit'
    <3>1. ASSUME NEW u \in TaskIds, NEW j \in Issues, TaskOf(u, j)'
          PROVE  task'[u].content <= issue'[j].ver
      <4>1. CASE u = t
        BY <1>3, <2>1, <2>5, <2>7, <3>1, <4>1 DEF TaskOf
      <4>2. CASE u # t
        BY <1>3, <2>5, <3>1, <4>2 DEF TaskOf, AloneInv, ContentsFit
      <4> QED
        BY <4>1, <4>2
    <3>2. ASSUME NEW l \in Rules, NEW j \in Issues, record'[l][j] # NoRecord,
                 NEW u, u = record'[l][j].task
          PROVE  record'[l][j].ver <= task'[u].content
      <4>1. CASE l = k /\ j = i
        BY <2>1, <2>3, <2>5, <2>6, <2>7, <3>2, <4>1
      <4>2. CASE ~ (l = k /\ j = i)
        <5>1. record'[l][j] = record[l][j] /\ record[l][j] # NoRecord /\ u = record[l][j].task
          BY <2>6, <3>2, <4>2
        <5>2. TaskOf(u, j) /\ record[l][j].ver <= task[u].content
          BY <5>1 DEF RetentionInv, NamesFit, RecordNames, AloneInv, ContentsFit
        <5> QED
          BY <2>5, <2>8, <5>1, <5>2 DEF TaskOf
      <4> QED
        BY <4>1, <4>2
    <3> QED
      BY <3>1, <3>2 DEF ContentsFit
  <2>10. AtIssue(q)'
    BY <1>1, <1>2, <1>3, <1>4, <1>7, <2>1, <2>5 DEF AtIssue, HasTask
  <2>11. x.ver = issue[i].ver => x.state = issue[i].state
    BY <1>4 DEF Latest
  <2>12. \A l \in Rules : x.ver = issue[i].ver => OnOffer(t, issue[i], l)'
    BY <1>1, <1>3, <1>4, <2>1, <2>5, <2>11 DEF OnOffer
  <2>13. task'[t].of = x.i /\ task'[t].content <= x.ver
    BY <1>4, <2>1, <2>5, <2>7
  <2> QED
    BY <1>1, <1>3, <1>4, <1>7, <2>5, <2>8, <2>9, <2>10, <2>12, <2>13, TaskAlone DEF HasTask
<1>8. \/ Counted(r) /\ UNCHANGED <<task, record>>
      \/ \E q \in Run, t \in TaskIds :
           HasTask(r, q, t) /\ (Republished(r, i, k, t) \/ Published(r, i, k, t))
  BY <1>2, PublishStep DEF RetentionInv
<1> QED
  BY <1>5, <1>6, <1>7, <1>8

LEMMA CancelAlone ==
  ASSUME RetentionInv, CursorInv, AloneInv, NEW r \in Runners, r = Ticker, CancelTask(r)
  PROVE  AloneInv'
<1>1. PICK x \in Listed : x = run[r].cur
  BY DEF RetentionInv, SyncTypeOK, Run
<1>2. /\ run[r].at = "cancel" /\ run[r].at \in Handling
      /\ UNCHANGED <<clock, issue, rule, mapping, record, admin, setting>>
  BY DEF CancelTask, Handling
<1>3. PICK t \in TaskIds : t = run[r].map.task /\ TaskOf(t, x.i)
  BY <1>1, <1>2 DEF Handling, RetentionInv, NamesFit, RunNames, TaskOf
<1>4. CASE /\ task[t].status \in {"open", "claimed"} /\ Goes(r, "refresh")
           /\ task' = [task EXCEPT ![t].status = "cancelled"]
  <2>1. task[t].status # "none" /\ "cancelled" \in Statuses
    BY <1>4 DEF Statuses
  <2>2. /\ TasksStay /\ task'[t].status = "cancelled"
        /\ \A u \in TaskIds : /\ task'[u].content = task[u].content
                              /\ u # t => task'[u] = task[u]
    BY <1>4, <2>1, StatusRow DEF RetentionInv
  <2>3. PICK q \in Run : /\ Onward(r, q) /\ q.at = "refresh" /\ UNCHANGED <<done, failed>>
                         /\ q.todo = run[r].todo /\ q.cur = run[r].cur /\ q.map = run[r].map
    BY <1>2, <1>4, AtIssueStep DEF RetentionInv, Handling
  <2>4. ContentsFit'
    <3>1. \A u, j : TaskOf(u, j)' => TaskOf(u, j)
      BY <2>2 DEF TasksStay, TaskOf
    <3>2. \A l \in Rules, j \in Issues : record[l][j] # NoRecord => record[l][j].task \in TaskIds
      BY DEF RetentionInv, NamesFit, RecordNames, TaskOf
    <3> QED
      BY <1>2, <2>2, <3>1, <3>2 DEF AloneInv, ContentsFit, TaskOf
  <2>5. AtIssue(q)'
    BY <1>2, <1>3, <2>2, <2>3 DEF AloneInv, Carries, AtIssue, OnOffer
  <2>6. task'[t].of = x.i /\ task'[t].content <= x.ver
    BY <1>1, <1>2, <1>3, <2>2 DEF TasksStay, TaskOf, AloneInv, Carries, Latest, Held
  <2>7. \A k \in Rules : OnOffer(t, issue[x.i], k)'
    BY <2>2 DEF OnOffer
  <2> QED
    BY <1>1, <1>2, <1>3, <2>2, <2>3, <2>4, <2>5, <2>6, <2>7, TaskAlone
<1>5. CASE Counted(r) /\ UNCHANGED task
  BY <1>2, <1>5, CountedAlone
<1> QED
  BY <1>3, <1>4, <1>5 DEF CancelTask

LEMMA UpdateAlone ==
  ASSUME RetentionInv, CursorInv, AloneInv, NEW r \in Runners, r = Ticker, UpdateTask(r)
  PROVE  AloneInv'
<1>1. PICK x \in Listed : x = run[r].cur
  BY DEF RetentionInv, SyncTypeOK, Run
<1>2. /\ run[r].at = "update" /\ run[r].at \in Handling /\ Goes(r, "refresh")
      /\ UNCHANGED <<clock, issue, rule, mapping, record, admin, setting>>
  BY DEF UpdateTask, Handling
<1>3. PICK t \in TaskIds : t = run[r].map.task /\ TaskOf(t, x.i)
  BY <1>1, <1>2 DEF Handling, RetentionInv, NamesFit, RunNames, TaskOf
<1>4. PICK q \in Run : /\ Onward(r, q) /\ q.at = "refresh" /\ UNCHANGED <<done, failed>>
                       /\ q.todo = run[r].todo /\ q.cur = run[r].cur /\ q.map = run[r].map
  BY <1>2, AtIssueStep DEF RetentionInv, Handling
<1>5. /\ mapping[x.i] = run[r].map /\ mapping[x.i] # NoMapping /\ x.state = "open" /\ Latest(x)
  BY <1>1, <1>2 DEF AloneInv, Carries, AtIssue, Held
<1>6. CASE task[t].status # "open"
  <2>1. task' = task
    BY <1>3, <1>6 DEF UpdateTask, MayUpdate
  <2>2. AtIssue(q)
    BY <1>1, <1>3, <1>4, <1>5, <1>6 DEF AtIssue, OnOffer
  <2> QED
    BY <1>2, <1>4, <2>1, <2>2, LooksAlone
<1>7. CASE task[t].status = "open"
  <2>1. PICK v \in 0 .. MaxVer : v = x.ver
    BY SyncAssumption DEF Listed
  <2>2. task' = [task EXCEPT ![t].content = v]
    BY <1>1, <1>3, <1>7, <2>1 DEF UpdateTask, MayUpdate
  <2>3. /\ TasksStay /\ task'[t].content = x.ver
        /\ \A u \in TaskIds : /\ task'[u].status = task[u].status
                              /\ u # t => task'[u] = task[u]
    BY <2>1, <2>2, ContentRow DEF RetentionInv
  <2>4. /\ task[t].content <= x.ver /\ x.ver <= issue[x.i].ver /\ x.i \in Issues
        /\ task[t].content \in Nat /\ x.ver \in Nat
    BY <1>1, <1>2, <1>3, <1>5, SyncAssumption
       DEF Latest, RetentionInv, IssueRows, Held, Listed, SyncTypeOK, Task
  <2>5. ContentsFit'
    <3>1. ASSUME NEW u \in TaskIds, NEW j \in Issues, TaskOf(u, j)'
          PROVE  task'[u].content <= issue'[j].ver
      <4>1. TaskOf(u, j)
        BY <2>3, <3>1 DEF TasksStay, TaskOf
      <4>2. CASE u = t
        BY <1>2, <1>3, <2>3, <2>4, <4>1, <4>2 DEF TaskOf
      <4>3. CASE u # t
        BY <1>2, <2>3, <4>1, <4>3 DEF AloneInv, ContentsFit
      <4> QED
        BY <4>2, <4>3
    <3>2. ASSUME NEW l \in Rules, NEW j \in Issues, record[l][j] # NoRecord,
                 NEW u \in TaskIds, u = record[l][j].task
          PROVE  record[l][j].ver <= task'[u].content
      <4>1. record[l][j].ver <= task[u].content /\ record[l][j].ver \in Nat
        BY <3>2, SyncAssumption DEF AloneInv, ContentsFit, RetentionInv, SyncTypeOK, Record
      <4>2. CASE u = t
        BY <2>3, <2>4, <4>1, <4>2
      <4>3. CASE u # t
        BY <2>3, <4>1, <4>3
      <4> QED
        BY <4>2, <4>3
    <3>3. \A l \in Rules, j \in Issues : record[l][j] # NoRecord => record[l][j].task \in TaskIds
      BY DEF RetentionInv, NamesFit, RecordNames, TaskOf
    <3> QED
      BY <1>2, <3>1, <3>2, <3>3 DEF ContentsFit
  <2>6. AtIssue(q)'
    BY <1>1, <1>2, <1>3, <1>4, <1>5, <2>3 DEF AtIssue, OnOffer
  <2>7. task'[t].of = x.i /\ task'[t].content <= x.ver
    BY <1>3, <2>3, <2>4 DEF TasksStay, TaskOf
  <2>8. \A k \in Rules : x.ver = issue[x.i].ver => OnOffer(t, issue[x.i], k)'
    BY <1>2, <1>5, <2>3 DEF Latest, OnOffer
  <2> QED
    BY <1>1, <1>2, <1>3, <1>4, <2>3, <2>5, <2>6, <2>7, <2>8, TaskAlone
<1> QED
  BY <1>6, <1>7

\* An issue changes: what anybody has of it is older than what it is now.
LEMMA IssueAlone ==
  ASSUME RetentionInv, CursorInv, AloneInv, NEW i \in Issues, NEW s \in IssueStates,
         NEW w \in BOOLEAN, IssueChanges(i, s, w)
  PROVE  AloneInv'
<1>1. /\ issue'[i].ver = issue[i].ver + 1 /\ issue[i].ver \in Nat
      /\ \A j \in Issues : j # i => issue'[j] = issue[j]
      /\ UNCHANGED <<clock, rule, mapping, task, record, run, admin, done, failed, setting>>
  BY IssueStep, SyncAssumption DEF RetentionInv, SyncTypeOK, Issue, IssueChanges
<1>2. ASSUME NEW x \in Held(run[Ticker]) PROVE Latest(x)'
  <2>1. Latest(x) /\ x.ver <= issue[x.i].ver /\ x \in Listed
    BY SyncAssumption DEF AloneInv, Carries, RetentionInv, IssueRows, Held, SyncTypeOK, Run
  <2>2. x.i = i => x.ver # issue'[x.i].ver
    BY <1>1, <2>1, SyncAssumption DEF Listed
  <2>3. x.ver = issue'[x.i].ver => x.state = issue'[x.i].state
    BY <1>1, <2>1, <2>2 DEF Latest, Listed
  <2> QED
    BY <1>1, <2>1, <2>3 DEF Latest, TaskOf
<1>3. Carries(run[Ticker])'
  <2>1. PICK q : q = run[Ticker] /\ Carries(q)
    BY DEF AloneInv
  <2>2. Carries(q)'
    BY <1>1, <1>2, <2>1 DEF Carries, AtIssue, OnOffer
  <2> QED
    BY <1>1, <2>1, <2>2 DEF Carries, Held, Latest, TaskOf, AtIssue, OnOffer
<1>4. ContentsFit'
  <2>1. ASSUME NEW t \in TaskIds, NEW j \in Issues, TaskOf(t, j)
        PROVE  task[t].content <= issue'[j].ver
    <3>1. task[t].content <= issue[j].ver
      BY <2>1 DEF AloneInv, ContentsFit
    <3>2. task[t].content \in Nat /\ issue[j].ver \in Nat
      BY SyncAssumption DEF RetentionInv, SyncTypeOK, Task, Issue
    <3>3. issue'[j].ver = issue[j].ver \/ issue'[j].ver = issue[j].ver + 1
      BY <1>1
    <3> QED
      BY <3>1, <3>2, <3>3
  <2> QED
    BY <1>1, <2>1 DEF AloneInv, ContentsFit, TaskOf
<1>5. AllReflected'
  <2> SUFFICES ASSUME NEW k \in Rules, NEW j \in Issues,
                      (rule[k].row = "live" /\ done[k][j] = issue[j].ver /\ Matches(rule[k], j))'
               PROVE  Reflects(k, j)'
    BY DEF AllReflected
  <2>1. done[k][j] <= issue[j].ver /\ done[k][j] = issue'[j].ver
    BY <1>1 DEF RetentionInv, IssueRows
  <2>2. j # i
    BY <1>1, <2>1
  <2>3. issue'[j] = issue[j]
    BY <1>1, <2>2
  <2>4. Reflects(k, j)
    BY <1>1, <2>1, <2>3 DEF AloneInv, AllReflected, Matches
  <2> QED
    BY <1>1, <2>3, <2>4 DEF Reflects
<1> QED
  BY <1>1, <1>3, <1>4, <1>5 DEF AloneInv

\* A task that an agent takes, or that is open again.
LEMMA TaskMovesAlone ==
  ASSUME RetentionInv, CursorInv, AloneInv, NEW t \in TaskIds, TaskMoves(t) PROVE AloneInv'
<1>1. /\ TasksStay
      /\ \A u \in TaskIds : /\ task'[u].content = task[u].content
                            /\ u # t => task'[u] = task[u]
      /\ task'[t].status = "open" => task'[t].again
      /\ UNCHANGED <<clock, issue, rule, mapping, record, run, admin, done, failed, setting>>
  BY TaskMovesStep DEF RetentionInv, TaskMoves
<1>2. \A u, i : TaskOf(u, i)' <=> TaskOf(u, i)
  BY <1>1 DEF TasksStay, TaskOf
<1>3. ASSUME NEW u \in TaskIds, NEW x, NEW k, OnOffer(u, x, k) PROVE OnOffer(u, x, k)'
  BY <1>1, <1>3 DEF OnOffer
<1>4. \A x : Latest(x) => Latest(x)'
  BY <1>1, <1>2 DEF Latest
<1>5. ContentsFit'
  <2>1. \A k \in Rules, i \in Issues : record[k][i] # NoRecord => record[k][i].task \in TaskIds
    BY DEF RetentionInv, NamesFit, RecordNames, TaskOf
  <2> QED
    BY <1>1, <1>2, <2>1 DEF AloneInv, ContentsFit
<1>6. AllReflected'
  <2>1. \A u \in TaskIds : \A i : TaskOf(u, i) => task'[u].of = i
    BY <1>1 DEF TasksStay, TaskOf
  <2> QED
    BY <1>1, <1>3, <2>1, RulesStand, ReflectedStays
<1>7. Carries(run[Ticker])'
  <2>1. PICK q \in Run : q = run[Ticker] /\ Carries(q) /\ RunNames(q)
    BY SyncAssumption DEF AloneInv, RetentionInv, NamesFit, SyncTypeOK
  <2>2. q.at \in {"map", "refresh"} => q.map.task \in TaskIds
    BY <2>1 DEF RunNames, Handling, TaskOf
  <2>3. AtIssue(q)'
    BY <1>1, <1>3, <2>1, <2>2 DEF Carries, AtIssue
  <2>4. Carries(q)'
    BY <1>4, <2>1, <2>3 DEF Carries
  <2> QED
    BY <1>1, <2>1, <2>4 DEF Carries, Held, Latest, TaskOf, AtIssue, OnOffer
<1> QED
  BY <1>1, <1>5, <1>6, <1>7 DEF AloneInv

\* No run moves, and nothing changes but the time or a rule that is new.
LEMMA WaitsAlone ==
  ASSUME RetentionInv, CursorInv, AloneInv, RulesStay,
         UNCHANGED <<issue, mapping, task, record, done, run>>
  PROVE  AloneInv'
<1>1. PICK q \in Run : q = run[Ticker] /\ Carries(q)
  BY SyncAssumption DEF AloneInv, RetentionInv, SyncTypeOK
<1>2. q.at # "idle" => rule'[q.k].dedupe = rule[q.k].dedupe
  BY <1>1, SyncAssumption DEF CursorInv, RuleFits, RulesStay, Run
<1>3. AtIssue(q)'
  BY <1>1, <1>2 DEF Carries, AtIssue, OnOffer
<1>4. Carries(q)'
  BY <1>1, <1>3, QuietAlone DEF Carries
<1>5. Carries(run[Ticker])'
  BY <1>1, <1>4 DEF Carries, Held, Latest, TaskOf, AtIssue, OnOffer
<1> QED
  BY <1>5, QuietAlone DEF AloneInv

LEMMA CreateRuleAlone ==
  ASSUME RetentionInv, CursorInv, AloneInv, NEW k \in Rules, NEW c \in Content,
         CreateRule(k, c)
  PROVE  AloneInv'
<1>1. rule[k].row = "new" /\ \A l \in Rules : l # k => rule'[l] = rule[l]
  BY CreateRuleStep DEF RetentionInv
<1>2. RulesStay
  BY <1>1 DEF RulesStay
<1>3. UNCHANGED <<issue, mapping, task, record, done, run>>
  BY DEF CreateRule
<1> QED
  BY <1>2, <1>3, WaitsAlone

\* With one run at a time every step keeps what was processed reflected.
LEMMA NextAlone ==
  ASSUME RetentionInv, CursorInv, AloneInv, Alone, [SyncNext]_syncVars
  PROVE  AloneInv'
<1>1. ASSUME NEW r \in Runners, Step(r) \/ Stops(r) \/ Fails(r) PROVE AloneInv'
  <2>1. run[r].at # "idle"
    BY <1>1 DEF Step, Fetch, NextIssue, Look, Publish, Upsert, Status, CancelTask, UpdateTask,
                Touch, Stops, Fails
  <2>2. r = Ticker
    BY <2>1 DEF AloneInv
  <2>3. CASE Touch(r)
    <3>1. RulesStay
      BY <2>3, TouchStep DEF RulesStay, RetentionInv
    <3> QED
      BY <2>2, <2>3, <3>1, RestAlone DEF Touch
  <2>4. CASE Stops(r)
    BY <2>2, <2>4, RulesStand, RestAlone DEF Stops
  <2>5. CASE Fails(r)
    BY <2>2, <2>5, CountedAlone DEF Fails, Places, Handling, Counted
  <2> QED
    BY <1>1, <2>2, <2>3, <2>4, <2>5, FetchAlone, NextIssueAlone, LookAlone, PublishAlone,
       UpsertAlone, StatusAlone, CancelAlone, UpdateAlone DEF Step
<1>2. ASSUME NEW r \in Runners, NEW k \in Rules, RunRule(r, k) PROVE AloneInv'
  BY <1>2, RunRuleAlone DEF RunRule, Alone
<1>3. ASSUME NEW k \in Rules, LoadRule(k) \/ DeleteRule(k) PROVE AloneInv'
  BY <1>3 DEF LoadRule, DeleteRule, Alone
<1>4. ASSUME NEW c \in Content, SaveRule(c) PROVE AloneInv'
  BY <1>4 DEF SaveRule, CursorInv
<1>5. CASE Tick
  BY <1>5, RulesStand, WaitsAlone DEF Tick
<1>6. CASE UNCHANGED syncVars
  BY <1>6, RulesStand, WaitsAlone DEF syncVars
<1> QED
  BY <1>1, <1>2, <1>3, <1>4, <1>5, <1>6, CreateRuleAlone, IssueAlone, TaskMovesAlone
     DEF SyncNext

LEMMA InitAlone == SyncInit => AloneInv
<1> SUFFICES ASSUME SyncInit PROVE AloneInv
  OBVIOUS
<1>1. PICK q \in Run : q = AtRest /\ q.at = "idle" /\ q.todo = {} /\ Held(q) = {}
  BY RestFits DEF AtRest, Held, Handling
<1>2. \A r \in Runners : run[r] = q
  BY <1>1 DEF SyncInit
<1>3. Carries(run[Ticker])
  BY <1>1, <1>2, SyncAssumption DEF Carries, AtIssue, Handling
<1>4. \A t, i : ~ TaskOf(t, i)
  BY DEF SyncInit, TaskOf, NoTask
<1>5. ContentsFit
  BY <1>4 DEF SyncInit, ContentsFit
<1>6. AllReflected
  BY DEF SyncInit, AllReflected, NewRule
<1> QED
  BY <1>1, <1>2, <1>3, <1>5, <1>6 DEF AloneInv

LEMMA AloneReflected == (Alone => AloneInv) => ProcessedIsReflected
  BY DEF AloneInv, AllReflected, ProcessedIsReflected

\* The settings do not change.
LEMMA SettingStays == [SyncNext]_syncVars => setting' = setting
<1> SUFFICES ASSUME [SyncNext]_syncVars PROVE setting' = setting
  OBVIOUS
<1>1. ASSUME NEW r \in Runners, Step(r) \/ Stops(r) \/ Fails(r) PROVE setting' = setting
  BY <1>1 DEF Step, Fetch, NextIssue, Look, Publish, Upsert, Status, CancelTask, UpdateTask,
              Touch, Stops, Fails
<1> QED
  BY <1>1 DEF SyncNext, syncVars, RunRule, LoadRule, DeleteRule, SaveRule, CreateRule,
              IssueChanges, TaskMoves, Tick

LEMMA NextSync == SyncInv /\ [SyncNext]_syncVars => SyncInv'
<1> SUFFICES ASSUME SyncInv, [SyncNext]_syncVars PROVE SyncInv'
  OBVIOUS
<1>1. RetentionInv'
  BY NextRetention DEF SyncInv
<1>2. setting' = setting
  BY SettingStays
<1>3. (~ setting.edits => CursorInv)'
  BY <1>2, NextCursor DEF SyncInv
<1>4. (Alone => AloneInv)'
  BY <1>2, NextAlone DEF SyncInv, Alone
<1> QED
  BY <1>1, <1>3, <1>4 DEF SyncInv

\* A task that an agent has taken keeps its content: the engine writes it only
\* after looking at the status again.
LEMMA ContentStep ==
  ASSUME RetentionInv, [SyncNext]_syncVars, NEW t \in TaskIds,
         task[t].status \notin {"none", "open"}
  PROVE  task'[t].content = task[t].content
<1>1. ASSUME NEW r \in Runners, Publish(r) PROVE task'[t].content = task[t].content
  <2>1. PICK i \in Issues, k \in Rules : i = run[r].cur.i /\ k = run[r].k
    BY DEF RetentionInv, SyncTypeOK, Run, Listed
  <2>2. ASSUME NEW u \in TaskIds, Published(r, i, k, u)
        PROVE  task'[t].content = task[t].content
    BY <2>2 DEF Published, RetentionInv, SyncTypeOK
  <2> QED
    BY <1>1, <2>1, <2>2, PublishStep DEF RetentionInv, Republished
<1>2. ASSUME NEW r \in Runners, CancelTask(r) PROVE task'[t].content = task[t].content
  <2>1. PICK u \in TaskIds : u = run[r].map.task
    BY <1>2 DEF CancelTask, Handling, RetentionInv, NamesFit, RunNames, TaskOf
  <2>2. CASE /\ task[u].status \in {"open", "claimed"}
             /\ task' = [task EXCEPT ![u].status = "cancelled"]
    BY <2>2, StatusRow DEF Statuses, RetentionInv
  <2> QED
    BY <1>2, <2>1, <2>2 DEF CancelTask
<1>3. ASSUME NEW r \in Runners, UpdateTask(r) PROVE task'[t].content = task[t].content
  <2>1. PICK u \in TaskIds : u = run[r].map.task
    BY <1>3 DEF UpdateTask, Handling, RetentionInv, NamesFit, RunNames, TaskOf
  <2>2. CASE task[u].status = "open" /\ task' = [task EXCEPT ![u].content = run[r].cur.ver]
    BY <2>2 DEF RetentionInv, SyncTypeOK
  <2> QED
    BY <1>3, <2>1, <2>2 DEF UpdateTask, MayUpdate
<1>4. ASSUME NEW u \in TaskIds, TaskMoves(u) PROVE task'[t].content = task[t].content
  BY <1>4, TaskMovesStep DEF RetentionInv
<1>5. ASSUME NEW r \in Runners, Step(r) \/ Stops(r) \/ Fails(r)
      PROVE  task'[t].content = task[t].content
  BY <1>1, <1>2, <1>3, <1>5
     DEF Step, Fetch, NextIssue, Look, Upsert, Status, Touch, Stops, Fails
<1> QED
  BY <1>4, <1>5 DEF SyncNext, syncVars, RunRule, LoadRule, DeleteRule, SaveRule, CreateRule,
     IssueChanges, Tick

THEOREM SyncInvAlways == SyncSpec => []SyncInv
<1>1. SyncInit => SyncInv
  BY InitRetention, InitCursor, InitAlone DEF SyncInv
<1> QED
  BY <1>1, NextSync, PTL DEF SyncSpec

\* Whatever runs race, two tasks of one rule for one issue are a retention
\* period apart.
THEOREM OneTask == SyncSpec => []OneTaskPerRetention
<1>1. SyncInv => OneTaskPerRetention
  BY DEF SyncInv, RetentionInv
<1> QED
  BY <1>1, SyncInvAlways, PTL

\* The cursor passes nothing over, one run at a time leaves every processed
\* issue reflected, and a task that an agent has taken keeps its content.
THEOREM TasksFollow == SyncSpec => TasksFollowIssues
<1>1. SyncInv => CursorIsHonest /\ ProcessedIsReflected
  BY CursorHonest, AloneReflected DEF SyncInv
<1>2. SyncInv /\ [SyncNext]_syncVars =>
        [\A t \in TaskIds : task[t].status \notin {"none", "open"} =>
           task'[t].content = task[t].content]_syncVars
  BY ContentStep DEF SyncInv
<1> QED
  BY <1>1, <1>2, SyncInvAlways, PTL DEF TasksFollowIssues, AdvancedTaskKeepsContent, SyncSpec

=============================================================================
