------------------------------- MODULE Review -------------------------------
(***************************************************************************)
(* Reviews of submissions: CreateReview and SubmitDecision                  *)
(* (review/application/service.go), the load of the reviewers, the gates an *)
(* accepting decision depends on, and the reputation worker                 *)
(* (reputation/worker/worker.go) that folds decisions into projections.     *)
(*                                                                         *)
(* A submission stands for its execution and its validation job too: how    *)
(* these get there is the subject of TaskLifecycle and ValidationPipeline.  *)
(* A command reads in one step, without locks, and writes in another: under *)
(* read committed everything it has read may be stale by then, except the   *)
(* execution, which SubmitDecision locks and reads when it writes.  The row *)
(* locks the writes wait for only order the second steps.                   *)
(* A repeated request is answered from its idempotency record (Idempotency) *)
(* and does nothing here.  The verdicts on criteria that a committed         *)
(* decision sends to the ledger are left to that component.                 *)
(***************************************************************************)
EXTENDS Integers, FiniteSets

CONSTANTS
  Submissions,
  Reviewers,    \* active profiles, all with the capabilities asked for
  Unvalidated,  \* submissions whose agent does not wait for the validation
  Sessions,     \* requests being served
  Workers,      \* processes with a reputation worker
  Keys,         \* projection keys: agent version, capability, task type
  KeyOf,        \* the key of the reviews of each submission
  BatchSize,
  None

ASSUME ReviewAssumption ==
  /\ None \notin Submissions \cup Reviewers
  /\ IsFiniteSet(Submissions) /\ IsFiniteSet(Workers)
  /\ Unvalidated \subseteq Submissions
  /\ KeyOf \in [Submissions -> Keys]
  /\ BatchSize \in Nat \ {0}

VARIABLES
  exec,       \* status of the execution of each submission
  gates,      \* what its validation job says
  reachable,  \* its commit is still on its branch
  review,     \* the row of reviews of each submission
  load,       \* reviewer_profiles.current_load
  ses,        \* what each request has read
  proj,       \* reputation_projections: reviews counted, by decision
  batch       \* what each worker has read

vars == <<exec, gates, reachable, review, load, ses, proj, batch>>

-----------------------------------------------------------------------------
Decisions == {"accepted", "rejected", "revision_requested"}

ExecStatus == {"working", "reviewing", "cancelled"} \cup Decisions

ReviewRow == [status : {"none", "pending", "submitted"},
              reviewer : Reviewers \cup {None},
              decision : Decisions \cup {None},
              projected : BOOLEAN]

NoReview == [status |-> "none", reviewer |-> None, decision |-> None,
             projected |-> FALSE]

Session == [op : {"idle", "create", "decide"},
            s : Submissions \cup {None},
            row : ReviewRow,
            decision : Decisions \cup {None}]

IdleSession == [op |-> "idle", s |-> None, row |-> NoReview, decision |-> None]

Counts == [Decisions -> Nat]

NoCounts == [d \in Decisions |-> 0]

\* Reviews a worker has locked, and the projections it has loaded.
Batch == [todo : SUBSET Submissions, proj : [Keys -> Counts]]

NoBatch == [todo |-> {}, proj |-> [k \in Keys |-> NoCounts]]

TypeOK ==
  /\ exec \in [Submissions -> ExecStatus]
  /\ gates \in [Submissions -> {"open", "passed", "failed"}]
  /\ reachable \in [Submissions -> BOOLEAN]
  /\ review \in [Submissions -> ReviewRow]
  /\ load \in [Reviewers -> Nat]
  /\ ses \in [Sessions -> Session]
  /\ proj \in [Keys -> Counts]
  /\ batch \in [Workers -> Batch]

-----------------------------------------------------------------------------
(* CreateReview *)

\* The reviewer with the lowest load; ties go to the older profile.
Allocate == {r \in Reviewers : \A q \in Reviewers : load[r] <= load[q]}

\* The checks, and the choice of a reviewer by the loads as they are now.
CreateRead(p, s) ==
  /\ ses[p].op = "idle"
  /\ exec[s] = "reviewing"
  /\ reachable[s]
  /\ \E r \in Allocate :
       ses' = [ses EXCEPT ![p] =
                 [op |-> "create", s |-> s, decision |-> None,
                  row |-> [NoReview EXCEPT !.status = "pending", !.reviewer = r]]]
  /\ UNCHANGED <<exec, gates, reachable, review, load, proj, batch>>

\* Fault: the index reviews_one_per_submission is missing.
InsertAnyway(s) == TRUE

\* reviews_one_per_submission
MayInsert(s) == review[s].status = "none"

\* IncrementLoad and Insert.
CreateCommit(p) ==
  LET s == ses[p].s IN
  /\ ses[p].op = "create"
  /\ MayInsert(s)
  /\ load' = [load EXCEPT ![ses[p].row.reviewer] = @ + 1]
  /\ review' = [review EXCEPT ![s] = ses[p].row]
  /\ ses' = [ses EXCEPT ![p] = IdleSession]
  /\ UNCHANGED <<exec, gates, reachable, proj, batch>>

-----------------------------------------------------------------------------
(* SubmitDecision, by the reviewer or an administrator *)

\* Fault: the gates are not looked at.
AllDecisionsOpen(s, d) == TRUE

\* AllHardGatesPassed and CheckIntegrity
MayDecide(s, d) == d = "accepted" => gates[s] = "passed" /\ reachable[s]

\* Review.Submit
Submit(row, d) == [row EXCEPT !.status = "submitted", !.decision = d]

DecideRead(p, s, d) ==
  /\ ses[p].op = "idle"
  /\ review[s].status = "pending"
  /\ MayDecide(s, d)
  /\ ses' = [ses EXCEPT ![p] = [op |-> "decide", s |-> s, row |-> review[s],
                                decision |-> d]]
  /\ UNCHANGED <<exec, gates, reachable, review, load, proj, batch>>

\* Fault: the execution takes any decision.
ApplyAnyway(s) == TRUE

\* Accept, Reject and RequestRevision of the locked execution.
MayApply(s) == exec[s] = "reviewing"

\* DecrementLoad
Released(r) == load[r] - 1

\* Update, DecrementLoad and applyDecisionToExecution.  Update writes the row
\* whatever is in it by now; projected_at is not among its columns.
DecideCommit(p) ==
  LET s   == ses[p].s
      d   == ses[p].decision
      row == Submit(ses[p].row, d)
  IN /\ ses[p].op = "decide"
     /\ load[row.reviewer] > 0
     /\ MayApply(s)
     /\ review' = [review EXCEPT ![s] = [row EXCEPT !.projected = review[s].projected]]
     /\ load' = [load EXCEPT ![row.reviewer] = Released(row.reviewer)]
     /\ exec' = [exec EXCEPT ![s] = d]
     /\ ses' = [ses EXCEPT ![p] = IdleSession]
     /\ UNCHANGED <<gates, reachable, proj, batch>>

\* An error, a conflict or a crash: the transaction changes nothing.
Abort(p) ==
  /\ ses[p].op # "idle"
  /\ ses' = [ses EXCEPT ![p] = IdleSession]
  /\ UNCHANGED <<exec, gates, reachable, review, load, proj, batch>>

-----------------------------------------------------------------------------
(* The reputation worker *)

Lock(s) == \E w \in Workers : s \in batch[w].todo

Unprojected ==
  {s \in Submissions : review[s].status = "submitted" /\ ~ review[s].projected
                         /\ ~ Lock(s)}

\* ListUnprojected (FOR UPDATE SKIP LOCKED, the first BatchSize by id; ids are
\* random) and the projections it adds to, loaded without a lock.
BatchRead(w) ==
  /\ batch[w].todo = {}
  /\ \E todo \in SUBSET Unprojected :
       /\ todo # {}
       /\ Cardinality(todo) <= BatchSize
       /\ Cardinality(todo) < BatchSize => todo = Unprojected
       /\ batch' = [batch EXCEPT ![w] = [todo |-> todo, proj |-> proj]]
  /\ UNCHANGED <<exec, gates, reachable, review, load, ses, proj>>

\* The decisions of the batch under one key.
Signals(todo, k, d) ==
  Cardinality({s \in todo : KeyOf[s] = k /\ review[s].decision = d})

\* Projection.Apply for each signal.
Applied(w, k) ==
  [d \in Decisions |-> batch[w].proj[k][d] + Signals(batch[w].todo, k, d)]

\* UpsertProjection for the keys that were touched, and MarkProjected.
BatchCommit(w) ==
  LET todo == batch[w].todo
      keys == {KeyOf[s] : s \in todo}
  IN /\ todo # {}
     /\ proj' = [k \in Keys |-> IF k \in keys THEN Applied(w, k) ELSE proj[k]]
     /\ review' = [s \in Submissions |->
                     IF s \in todo THEN [review[s] EXCEPT !.projected = TRUE]
                     ELSE review[s]]
     /\ batch' = [batch EXCEPT ![w] = NoBatch]
     /\ UNCHANGED <<exec, gates, reachable, load, ses>>

\* Fault: a batch that fails has already stored its projections.
KeepsProjections(w) ==
  /\ batch[w].todo # {}
  /\ proj' = [k \in Keys |-> Applied(w, k)]
  /\ batch' = [batch EXCEPT ![w] = NoBatch]
  /\ UNCHANGED <<exec, gates, reachable, review, load, ses>>

\* The transaction fails, or the process dies.
BatchFails(w) ==
  /\ batch[w].todo # {}
  /\ batch' = [batch EXCEPT ![w] = NoBatch]
  /\ UNCHANGED <<exec, gates, reachable, review, load, ses, proj>>

-----------------------------------------------------------------------------
(* The rest of the system *)

Unread == <<review, load, ses, proj, batch>>

\* The validation ends well, and the execution is under review.
Validated(s) ==
  /\ exec[s] = "working" /\ s \notin Unvalidated
  /\ exec' = [exec EXCEPT ![s] = "reviewing"]
  /\ gates' = [gates EXCEPT ![s] = "passed"]
  /\ UNCHANGED <<reachable, Unread>>

\* The agent asks for the review itself, the validation has not ended.
SubmitForReview(s) ==
  /\ exec[s] = "working" /\ s \in Unvalidated
  /\ exec' = [exec EXCEPT ![s] = "reviewing"]
  /\ UNCHANGED <<gates, reachable, Unread>>

\* Its job ends during the review; and a succeeded one fails after all when
\* its commit is gone (syncTerminalState).
JobEnds(s, to) ==
  /\ exec[s] # "working" /\ s \in Unvalidated
  /\ \/ gates[s] = "open"
     \/ gates[s] = "passed" /\ to = "failed" /\ ~ reachable[s]
  /\ gates' = [gates EXCEPT ![s] = to]
  /\ UNCHANGED <<exec, reachable, Unread>>

ForcePush(s) ==
  /\ exec[s] # "working"
  /\ reachable[s]
  /\ reachable' = [reachable EXCEPT ![s] = FALSE]
  /\ UNCHANGED <<exec, gates, Unread>>

\* Fault: a decided execution can still be cancelled.
CancelAlways(s) ==
  /\ exec[s] # "working"
  /\ exec' = [exec EXCEPT ![s] = "cancelled"]
  /\ UNCHANGED <<gates, reachable, Unread>>

\* The publisher cancels the task.
Cancel(s) ==
  /\ exec[s] \in {"reviewing", "revision_requested"}
  /\ exec' = [exec EXCEPT ![s] = "cancelled"]
  /\ UNCHANGED <<gates, reachable, Unread>>

-----------------------------------------------------------------------------
Init ==
  /\ exec = [s \in Submissions |-> "working"]
  /\ gates = [s \in Submissions |-> "open"]
  /\ reachable = [s \in Submissions |-> TRUE]
  /\ review = [s \in Submissions |-> NoReview]
  /\ load = [r \in Reviewers |-> 0]
  /\ ses = [p \in Sessions |-> IdleSession]
  /\ proj = [k \in Keys |-> NoCounts]
  /\ batch = [w \in Workers |-> NoBatch]

Serve(p) ==
  \/ \E s \in Submissions :
       \/ CreateRead(p, s)
       \/ \E d \in Decisions : DecideRead(p, s, d)
  \/ CreateCommit(p)
  \/ DecideCommit(p)
  \/ Abort(p)

Project(w) == BatchRead(w) \/ BatchCommit(w) \/ BatchFails(w)

Elsewhere(s) ==
  \/ Validated(s)
  \/ SubmitForReview(s)
  \/ \E to \in {"passed", "failed"} : JobEnds(s, to)
  \/ ForcePush(s)
  \/ Cancel(s)

Next ==
  \/ \E p \in Sessions : Serve(p)
  \/ \E w \in Workers : Project(w)
  \/ \E s \in Submissions : Elsewhere(s)

Spec == Init /\ [][Next]_vars

\* The worker's ticker goes on for ever, and its transactions do not fail for
\* ever.
FairSpec ==
  Spec /\ \A w \in Workers : WF_vars(BatchRead(w)) /\ SF_vars(BatchCommit(w))

-----------------------------------------------------------------------------
(* What it promises *)

PendingOf(r) ==
  {s \in Submissions : review[s].status = "pending" /\ review[s].reviewer = r}

\* The load the allocator goes by is the number of reviews a reviewer still has
\* to decide, whatever decisions race: increments and decrements are made
\* without looking at the review (IncrementLoad, DecrementLoad).
LoadIsPending == \A r \in Reviewers : load[r] = Cardinality(PendingOf(r))

\* A submitted review and the execution say the same, and an execution under
\* review or cancelled has no decision against it: two deciders that both
\* loaded the pending review do not both get through
\* (applyDecisionToExecution).
DecisionAgrees ==
  \A s \in Submissions :
    /\ review[s].status = "submitted" =>
         \/ exec[s] = review[s].decision
         \/ exec[s] = "cancelled" /\ review[s].decision = "revision_requested"
    /\ exec[s] \in Decisions => review[s].status = "submitted"

\* Once submitted, a review keeps its reviewer and its decision although Update
\* overwrites the row unconditionally.
DecisionStands ==
  [][\A s \in Submissions : review[s].status = "submitted" =>
       /\ review'[s].status = "submitted"
       /\ review'[s].reviewer = review[s].reviewer
       /\ review'[s].decision = review[s].decision]_vars

\* The job has succeeded; when it says otherwise now, the commit has
\* disappeared since.
HasPassed(s) ==
  \/ gates[s] = "passed"
  \/ gates[s] = "failed" /\ ~ reachable[s]

\* An accepted execution has passed its validation (SubmitDecision reads the
\* gates before it writes).
AcceptedIsValidated ==
  \A s \in Submissions : exec[s] = "accepted" => HasPassed(s)

\* With one worker, every projection counts exactly the reviews marked as
\* projected, each once, in spite of failed batches (RunOnce).
ReputationCounts ==
  \A k \in Keys, d \in Decisions :
    Cardinality(Workers) = 1 =>
      proj[k][d] = Signals({s \in Submissions : review[s].projected}, k, d)

\* Every decision reaches the reputation (Worker.Run) and is counted once, for
\* good, in spite of the batches that fail half way.
ReputationFollows ==
  \A s \in Submissions :
    review[s].status = "submitted" ~> [](review[s].projected /\ ReputationCounts)

-----------------------------------------------------------------------------
(* The strengthening under which the promises are provable.                *)

\* A request that has passed its checks is about an existing row, and what it
\* has checked cannot be undone except by what its commit looks at again.
Fits(p) ==
  /\ ses[p].op = "create" =>
       /\ ses[p].s \in Submissions
       /\ ses[p].row.status = "pending"
       /\ ses[p].row.reviewer \in Reviewers
  /\ ses[p].op = "decide" =>
       /\ ses[p].s \in Submissions
       /\ ses[p].decision \in Decisions
       /\ ses[p].row.reviewer \in Reviewers
       /\ ses[p].row.reviewer = review[ses[p].s].reviewer
       /\ review[ses[p].s].status # "none"
       /\ ses[p].decision = "accepted" => HasPassed(ses[p].s)

SessionFits == \A p \in Sessions : Fits(p)

\* A review has a reviewer, and a submitted one a decision.
ReviewIsAssigned ==
  \A s \in Submissions :
    /\ review[s].status # "none" => review[s].reviewer \in Reviewers
    /\ review[s].status = "submitted" => review[s].decision \in Decisions

\* The inductive invariant.
IInv == TypeOK /\ SessionFits /\ ReviewIsAssigned /\ DecisionAgrees
          /\ AcceptedIsValidated /\ LoadIsPending

=============================================================================
