------------------------- MODULE ValidationPipeline -------------------------
(***************************************************************************)
(* From a submission to a verdict: CreateSubmission                         *)
(* (git/application/submission.go), the validation workers                  *)
(* (git/worker/validation_worker.go) over the rows of validation_jobs and   *)
(* validation_steps, and what they tell the execution and the submission.   *)
(*                                                                         *)
(* One tenant, one execution and one submission per job: a job stands for   *)
(* all three.  The tables are read committed, so a worker's transaction     *)
(* that loads a job without a lock and writes it back later is two steps    *)
(* here.  What the execution goes through apart from validation is the      *)
(* subject of TaskLifecycle; here it moves by itself.                       *)
(* A claim is lapsed when claimed_until has passed.  Claims last as long or *)
(* as short as the model likes, so a worker that writes an old              *)
(* claimed_until back only sets the claim again.                            *)
(***************************************************************************)
EXTENDS Integers, Sequences, FiniteSets, SequencesExt

CONSTANTS
  Jobs, Workers,
  StepOrder,       \* DefaultValidationSteps
  MaxAttempts,
  Settings         \* the circumstances considered: which of the workers run,
                   \* which of EnvironmentMoves happen, the steps that the
                   \* registry has a command for, and a bound on failing
                   \* calls and crashes

EnvironmentMoves == {"cancel", "expire", "decide", "bypass", "unreachable"}

ASSUME PipelineAssumption ==
  /\ Jobs # {} /\ IsFiniteSet(Workers)
  /\ StepOrder \in Seq(STRING) /\ Len(StepOrder) > 0
  /\ MaxAttempts \in Nat \ {0}
  /\ Settings \subseteq [run : SUBSET Workers, env : SUBSET EnvironmentMoves,
                          config : SUBSET {StepOrder[i] : i \in DOMAIN StepOrder},
                          faults : Nat]

Steps == {StepOrder[i] : i \in DOMAIN StepOrder}

\* DefaultRegistry
HardGates == {"build", "public_tests", "hidden_tests", "security_scan"}

VARIABLES
  order,    \* the jobs there are, by created_at
  job,      \* validation_jobs and validation_steps
  sub,      \* status of the submission
  exec,     \* status of the execution
  facts,    \* jobs whose outcome the criterion ledger has
  checker,  \* submissions a reviewer's integrity check is about to invalidate
  wk,       \* where each worker is, and what it has in memory
  faults,
  setting   \* the circumstances of this behaviour

vars == <<order, job, sub, exec, facts, checker, wk, faults, setting>>

-----------------------------------------------------------------------------
(* The data *)

\* "failed_gate" is a failed step with hard_gate set.
Failed == {"failed", "failed_gate"}
Passed == {"succeeded", "skipped"}
Results == Failed \cup Passed

Terminal == {"succeeded", "failed"}

JobRow == [status : {"pending", "running"} \cup Terminal,
           attempt : 0 .. MaxAttempts + 1,
           claimed : BOOLEAN,
           synced : BOOLEAN,
           steps : [Steps -> {"pending"} \cup Results]]

NewValidationJob == [status |-> "pending", attempt |-> 0, claimed |-> FALSE,
                     synced |-> FALSE, steps |-> [s \in Steps |-> "pending"]]

Reviewed == {"accepted", "rejected", "revision_requested"}

ExecStatus == {"running", "submitted", "validating", "validation_failed",
               "reviewing", "expired", "cancelled"} \cup Reviewed

SubStatus == {"none", "pending_verification", "validated",
              "validation_failed", "invalid"}

Places == {"idle", "start", "step", "locking", "locked", "fail", "failing",
           "check", "notify", "write", "save", "facts"}

\* mem is the job as the caller of runStep keeps it, row what the running
\* transaction has loaded, todo the steps process still goes through.
Worker == [at : Places, j : Jobs, mem : JobRow, row : JobRow,
           todo : Seq(Steps), target : SubStatus]

AtRest == [at |-> "idle", j |-> CHOOSE j \in Jobs : TRUE,
           mem |-> NewValidationJob, row |-> NewValidationJob, todo |-> <<>>,
           target |-> "none"]

TypeOK ==
  /\ order \in Seq(Jobs)
  /\ job \in [Jobs -> JobRow]
  /\ sub \in [Jobs -> SubStatus]
  /\ exec \in [Jobs -> ExecStatus]
  /\ facts \subseteq Jobs /\ checker \subseteq Jobs
  /\ \A w \in Workers : wk[w] \in Worker
  /\ faults \in 0 .. setting.faults

Created == {j \in Jobs : sub[j] # "none"}

-----------------------------------------------------------------------------
(* CoreExecutionNotifier.Notify: an intent is applied, was applied before,  *)
(* or is refused.                                                          *)

From == [submit |-> "running", start_validation |-> "submitted",
         fail_validation |-> "validating", mark_reviewing |-> "validating"]

To == [submit |-> "submitted", start_validation |-> "validating",
       fail_validation |-> "validation_failed", mark_reviewing |-> "reviewing"]

\* Fault: a failed validation also counts as applied once the execution is
\* under review or over.
AppliedToo(status, intent) ==
  status \in
    [submit |-> ExecStatus \ {"running", "expired", "cancelled"},
     start_validation |-> ExecStatus \ {"running", "submitted", "expired",
                                        "cancelled"},
     fail_validation |-> {"validation_failed", "reviewing", "cancelled"},
     mark_reviewing |-> {"reviewing"} \cup Reviewed][intent]

executionTransitionAlreadyApplied(status, intent) ==
  status \in
    [submit |-> {"submitted", "validating", "validation_failed", "reviewing"}
                  \cup Reviewed,
     start_validation |-> {"validating", "validation_failed", "reviewing"}
                            \cup Reviewed,
     fail_validation |-> {"validation_failed"},
     mark_reviewing |-> {"reviewing"} \cup Reviewed][intent]

Notify(j, intent) ==
  \/ /\ exec[j] = From[intent]
     /\ exec' = [exec EXCEPT ![j] = To[intent]]
  \/ /\ executionTransitionAlreadyApplied(exec[j], intent)
     /\ UNCHANGED exec

Refused(j, intent) ==
  /\ exec[j] # From[intent]
  /\ ~ executionTransitionAlreadyApplied(exec[j], intent)

-----------------------------------------------------------------------------
(* Submissions *)

NewSubmission == "pending_verification"

\* The transaction of CreateSubmission.  The credential it revokes admits one
\* submission.
CreateSubmission(j) ==
  /\ sub[j] = "none"
  /\ exec[j] = "running"
  /\ order' = Append(order, j)
  /\ sub' = [sub EXCEPT ![j] = NewSubmission]
  /\ job' = [job EXCEPT ![j] = NewValidationJob]
  /\ UNCHANGED <<exec, facts, checker, wk, faults>>

\* What follows it, outside the transaction, and on every retry.
NotifySubmit(j) ==
  /\ sub[j] # "none"
  /\ exec[j] = From["submit"]
  /\ exec' = [exec EXCEPT ![j] = To["submit"]]
  /\ UNCHANGED <<order, job, sub, facts, checker, wk, faults>>

-----------------------------------------------------------------------------
(* The worker *)

Go(w, place) == wk' = [wk EXCEPT ![w].at = place]

Locked(j) == \E w \in Workers : wk[w].at = "locked" /\ wk[w].j = j

Claimable(j) ==
  /\ \/ job[j].status \in {"pending", "running"}
     \/ job[j].status \in Terminal /\ ~ job[j].synced
  /\ ~ job[j].claimed
  /\ ~ Locked(j)

\* The target of the submission that goes with the status of a job.
TargetOf(status) ==
  IF status = "succeeded" THEN "validated" ELSE "validation_failed"

\* Where syncTerminalState begins.
SyncFrom(status) == IF status = "succeeded" THEN "check" ELSE "notify"

\* ClaimNextPending, and what runOne makes of the job it gets.
ClaimNextPending(w) ==
  \E i \in DOMAIN order :
    LET j   == order[i]
        att == IF job[j].attempt > MaxAttempts THEN job[j].attempt
               ELSE job[j].attempt + 1
        st  == IF job[j].status \in Terminal THEN job[j].status ELSE "running"
        row == [job[j] EXCEPT !.status = st, !.attempt = att, !.claimed = TRUE]
        undone(s) == row.steps[s] \notin Passed
    IN /\ wk[w].at = "idle"
       /\ Claimable(j)
       /\ \A k \in 1 .. i - 1 : ~ Claimable(order[k])
       /\ job' = [job EXCEPT ![j] = row]
       /\ wk' = [wk EXCEPT ![w] =
                   [at |-> CASE st \in Terminal -> SyncFrom(st)
                             [] st \notin Terminal /\ att > MaxAttempts -> "fail"
                             [] OTHER -> "start",
                    j |-> j, mem |-> row, row |-> row,
                    todo |-> SelectSeq(StepOrder, undone),
                    target |-> TargetOf(st)]]
       /\ UNCHANGED <<order, sub, exec, facts, checker, faults>>

\* Notify(start_validation)
StartValidation(w) ==
  LET j == wk[w].j IN
  /\ wk[w].at = "start"
  /\ \/ Notify(j, "start_validation") /\ Go(w, "step")
     \/ Refused(j, "start_validation") /\ Go(w, "fail") /\ UNCHANGED exec
  /\ UNCHANGED <<order, job, sub, facts, checker, faults>>

\* The conditions of runStep and StartStep on the row it has loaded.
MayStart(row, s) ==
  /\ row.status = "running"
  /\ row.steps[s] \in {"pending"} \cup Failed

\* runStep up to its first write: GetByID takes no lock.
StepRead(w) ==
  LET row == job[wk[w].j] IN
  /\ wk[w].at = "step"
  /\ wk[w].todo # <<>>
  /\ wk' = [wk EXCEPT ![w].row = row,
                      ![w].at = IF MayStart(row, Head(wk[w].todo))
                                THEN "locking" ELSE "fail"]
  /\ UNCHANGED <<order, job, sub, exec, facts, checker, faults>>

\* The first Update, which other transactions do not see but wait for.
StepLock(w) ==
  /\ wk[w].at = "locking"
  /\ ~ Locked(wk[w].j)
  /\ Go(w, "locked")
  /\ UNCHANGED <<order, job, sub, exec, facts, checker, faults>>

\* Fault: a job that has run all its steps has succeeded.
CompleteIsSuccess(row, s, r) ==
  LET steps == [row.steps EXCEPT ![s] = r] IN
  IF r = "failed_gate" THEN "failed"
  ELSE IF \E q \in Steps : steps[q] = "pending" THEN row.status
  ELSE "succeeded"

\* The status of a job after step s has ended with r.
FinishStep(row, s, r) ==
  LET steps == [row.steps EXCEPT ![s] = r] IN
  IF r = "failed_gate" THEN "failed"
  ELSE IF \E q \in Steps : steps[q] = "pending" THEN row.status
  ELSE IF \E q \in Steps : steps[q] \in Failed THEN "failed"
  ELSE "succeeded"

\* GitWorkspaceFactory.Prepare: the repository resolves, the commit is fetched,
\* and what was checked out is the commit; or the step has failed, as a step
\* that is no gate.
Prepared == {"ready", "failed"}

\* The command in its container, until its timeout.
Execute(s) == {"succeeded", IF s \in HardGates THEN "failed_gate" ELSE "failed"}

\* Runner.RunStep: a step without a command is skipped.
RunStep(s) ==
  IF s \notin setting.config THEN {"skipped"}
  ELSE UNION {IF p = "ready" THEN Execute(s) ELSE {p} : p \in Prepared}

\* The step runs, and the transaction commits: the job row as loaded, with its
\* new status, and the row of this step only.
StepCommit(w, r) ==
  LET j   == wk[w].j
      s   == Head(wk[w].todo)
      st  == FinishStep(wk[w].row, s, r)
      mem == [wk[w].row EXCEPT !.status = st, !.steps[s] = r,
                               !.claimed = @ /\ st \notin Terminal]
  IN /\ wk[w].at = "locked"
     /\ r \in RunStep(s)
     /\ job' = [job EXCEPT ![j] = [mem EXCEPT !.steps =
                                     [job[j].steps EXCEPT ![s] = r]]]
     /\ wk' = [wk EXCEPT ![w].mem = mem, ![w].row = mem,
                         ![w].todo = IF st \in Terminal THEN <<>> ELSE Tail(@),
                         ![w].target = TargetOf(st),
                         ![w].at = IF st \in Terminal THEN SyncFrom(st)
                                   ELSE "step"]
     /\ UNCHANGED <<order, sub, exec, facts, checker, faults>>

\* process returns without an error and without a verdict.
ProcessEnds(w) ==
  /\ wk[w].at = "step"
  /\ wk[w].todo = <<>>
  /\ wk' = [wk EXCEPT ![w] = AtRest]
  /\ UNCHANGED <<order, job, sub, exec, facts, checker, faults>>

\* recordFailure loads the job without a lock ...
FailRead(w) ==
  /\ wk[w].at = "fail"
  /\ wk' = [wk EXCEPT ![w].row = job[wk[w].j], ![w].at = "failing"]
  /\ UNCHANGED <<order, job, sub, exec, facts, checker, faults>>

\* Fault: the attempts are not counted.
TryAgain(row) == IF row.status # "running" THEN row.status ELSE "pending"

\* ... and writes it back.
AfterFailure(row) ==
  IF row.status # "running" THEN row.status
  ELSE IF row.attempt >= MaxAttempts THEN "failed"
  ELSE "pending"

FailWrite(w) ==
  LET j   == wk[w].j
      row == wk[w].row
  IN /\ wk[w].at = "failing"
     /\ ~ Locked(j)
     /\ job' = IF row.status = "pending" THEN job
               ELSE [job EXCEPT ![j] = [row EXCEPT !.status = AfterFailure(row),
                                                   !.claimed = FALSE,
                                                   !.steps = job[j].steps]]
     /\ wk' = [wk EXCEPT ![w] = AtRest]
     /\ UNCHANGED <<order, sub, exec, facts, checker, faults>>

\* syncTerminalState: the commit of a succeeded job must still be reachable.
CheckIntegrity(w, reachable) ==
  /\ wk[w].at = "check"
  /\ reachable \/ "unreachable" \in setting.env
  /\ wk' = [wk EXCEPT ![w].at = "notify",
                      ![w].mem.status = IF reachable THEN @ ELSE "failed",
                      ![w].target = IF reachable THEN @ ELSE "invalid"]
  /\ UNCHANGED <<order, job, sub, exec, facts, checker, faults>>

IntentOf(status) ==
  IF status = "succeeded" THEN "mark_reviewing" ELSE "fail_validation"

\* The execution is told first ...
SyncNotify(w) ==
  LET j == wk[w].j
      i == IntentOf(wk[w].mem.status)
  IN /\ wk[w].at = "notify"
     /\ \/ Notify(j, i) /\ Go(w, "write")
        \/ Refused(j, i) /\ Go(w, "fail") /\ UNCHANGED exec
     /\ UNCHANGED <<order, job, sub, facts, checker, faults>>

\* MarkValidated, MarkValidationFailed, MarkInvalid, or nothing to mark.
MayMark(status, target) == status \in {"pending_verification", target}

\* ... then, in a transaction, the submission is loaded ...
SyncRead(w) ==
  /\ wk[w].at = "write"
  /\ Go(w, IF MayMark(sub[wk[w].j], wk[w].target) THEN "save" ELSE "fail")
  /\ UNCHANGED <<order, job, sub, exec, facts, checker, faults>>

\* ... and saved, with the job, which from now on is synced.
SyncSave(w) ==
  LET j == wk[w].j IN
  /\ wk[w].at = "save"
  /\ ~ Locked(j)
  /\ sub' = [sub EXCEPT ![j] = wk[w].target]
  /\ job' = [job EXCEPT ![j].status = wk[w].mem.status, ![j].synced = TRUE,
                        ![j].claimed = FALSE]
  /\ Go(w, "facts")
  /\ UNCHANGED <<order, exec, facts, checker, faults>>

\* recordCriterionFacts: steps that ran, not the skipped ones, make facts.
RecordFacts(w) ==
  LET j == wk[w].j IN
  /\ wk[w].at = "facts"
  /\ facts' = IF \E s \in Steps : wk[w].mem.steps[s] \in {"succeeded"} \cup Failed
              THEN facts \cup {j} ELSE facts
  /\ wk' = [wk EXCEPT ![w] = AtRest]
  /\ UNCHANGED <<order, job, sub, exec, checker, faults>>

\* A call fails - the notifier, the runner, the ledger, a transaction - and
\* runOne records the failure.
CallFails(w) ==
  /\ wk[w].at \in {"start", "locked", "check", "notify", "write", "save", "facts"}
  /\ faults < setting.faults
  /\ faults' = faults + 1
  /\ Go(w, "fail")
  /\ UNCHANGED <<order, job, sub, exec, facts, checker>>

\* The process dies, or recordFailure fails too: the claim stays.
Crash(w) ==
  /\ wk[w].at # "idle"
  /\ faults < setting.faults
  /\ faults' = faults + 1
  /\ wk' = [wk EXCEPT ![w] = AtRest]
  /\ UNCHANGED <<order, job, sub, exec, facts, checker>>

\* claimed_until passes.
Lapse(j) ==
  /\ job[j].claimed
  /\ job' = [job EXCEPT ![j].claimed = FALSE]
  /\ UNCHANGED <<order, sub, exec, facts, checker, wk, faults>>

-----------------------------------------------------------------------------
(* The rest of the system *)

ExecMoves(j, from, to) ==
  /\ exec[j] \in from
  /\ exec' = [exec EXCEPT ![j] = to]
  /\ UNCHANGED <<order, job, sub, facts, checker, wk, faults>>

Cancel(j) ==
  /\ "cancel" \in setting.env
  /\ ExecMoves(j, {"running", "submitted", "validating", "reviewing",
                   "revision_requested"}, "cancelled")

Expire(j) ==
  /\ "expire" \in setting.env
  /\ ExecMoves(j, {"running"}, "expired")

\* A reviewer's decision.
Decide(j, to) ==
  /\ "decide" \in setting.env
  /\ ExecMoves(j, {"reviewing"}, to)

\* The agent asks for a review by itself, without waiting for the validation.
SubmitForReview(j) ==
  /\ "bypass" \in setting.env
  /\ ExecMoves(j, {"running"}, "reviewing")

\* CreateReview finds the commit unreachable, having loaded the submission ...
ReviewerChecks(j) ==
  /\ "unreachable" \in setting.env
  /\ exec[j] = "reviewing"
  /\ sub[j] = "pending_verification"
  /\ checker' = checker \cup {j}
  /\ UNCHANGED <<order, job, sub, exec, facts, wk, faults>>

\* ... and saves it as invalid in a transaction of its own.
ReviewerInvalidates(j) ==
  /\ j \in checker
  /\ checker' = checker \ {j}
  /\ sub' = [sub EXCEPT ![j] = "invalid"]
  /\ UNCHANGED <<order, job, exec, facts, wk, faults>>

-----------------------------------------------------------------------------
Init ==
  /\ order = <<>>
  /\ job = [j \in Jobs |-> NewValidationJob]
  /\ sub = [j \in Jobs |-> "none"]
  /\ exec = [j \in Jobs |-> "running"]
  /\ facts = {} /\ checker = {}
  /\ wk = [w \in Workers |-> AtRest]
  /\ faults = 0
  /\ setting \in Settings

\* What a worker does without anything failing.
Work(w) ==
  \/ ClaimNextPending(w)
  \/ StartValidation(w)
  \/ StepRead(w)
  \/ StepLock(w)
  \/ \E r \in Results : StepCommit(w, r)
  \/ ProcessEnds(w)
  \/ FailRead(w)
  \/ FailWrite(w)
  \/ \E ok \in BOOLEAN : CheckIntegrity(w, ok)
  \/ SyncNotify(w)
  \/ SyncRead(w)
  \/ SyncSave(w)
  \/ RecordFacts(w)

Next ==
  /\ \/ \E j \in Jobs :
          \/ CreateSubmission(j)
          \/ NotifySubmit(j)
          \/ Lapse(j)
          \/ Cancel(j)
          \/ Expire(j)
          \/ \E to \in Reviewed : Decide(j, to)
          \/ SubmitForReview(j)
          \/ ReviewerChecks(j)
          \/ ReviewerInvalidates(j)
     \/ \E w \in setting.run : Work(w) \/ CallFails(w) \/ Crash(w)
  /\ UNCHANGED setting

Spec == Init /\ [][Next]_vars

\* The worker polls for ever, leases run out, and the agent repeats its
\* request until the execution is submitted (submission.go, retryable).
FairSpec ==
  /\ Spec
  /\ \A w \in Workers : WF_vars(w \in setting.run /\ Work(w) /\ UNCHANGED setting)
  /\ \A j \in Jobs : /\ WF_vars(Lapse(j) /\ UNCHANGED setting)
                      /\ WF_vars(NotifySubmit(j) /\ UNCHANGED setting)

-----------------------------------------------------------------------------
(* What it promises *)

\* The deployment the repository describes: one API process, hence one worker.
Alone == Cardinality(setting.run) = 1

\* A submission is validated only when every step of its job has passed: no
\* retry, crash or late step of the one worker lets a failed hard gate through
\* (FinishStep, syncTerminalState).
GateHolds ==
  Alone => \A j \in Jobs : sub[j] = "validated" =>
             \A s \in Steps : job[j].steps[s] \in Passed

\* A synced job, the execution and the submission tell the same story,
\* whatever happened between the three writes of syncTerminalState.  A
\* reviewer's check may have invalidated the submission meanwhile.  The ledger
\* only learns of outcomes that are synced.
SyncedAgrees ==
  Alone => \A j \in Jobs :
    /\ job[j].synced =>
         \/ /\ job[j].status = "succeeded"
            /\ sub[j] \in {"validated", "invalid"}
            /\ exec[j] \in {"reviewing", "cancelled"} \cup Reviewed
         \/ /\ job[j].status = "failed"
            /\ sub[j] \in {"validation_failed", "invalid"}
            /\ exec[j] = "validation_failed"
    /\ j \in facts => job[j].synced

\* What the runner found, the job's verdict, the submission and the execution
\* agree, whichever write of whichever retry was the last that got through.
VerdictsAgree == GateHolds /\ SyncedAgrees

\* recordFailure and ClaimNextPending leave a verdict alone: a terminal status
\* changes only to failed, and then the commit is gone; what is synced stays
\* synced.
VerdictIsFinal ==
  [][Alone => \A j \in Jobs : job[j].status \in Terminal =>
       /\ \/ job'[j].status = job[j].status
          \/ job'[j].status = "failed" /\ sub'[j] = "invalid"
       /\ job[j].synced => job'[j].synced]_vars

\* Two workers may be on one job, each with a verdict of its own: the execution
\* takes one of them, and the submission never goes from validated to
\* validation_failed or back (Notify comes before the marks in
\* syncTerminalState).  No worker takes validated back at all; a reviewer's
\* check does that which loaded the submission before the verdict came, and it
\* alone, although the documents say otherwise: see ValidatedStands.
VerdictsDoNotCross ==
  [][\A j \in Jobs :
       /\ sub[j] = "validated" =>
            \/ sub'[j] = "validated"
            \/ sub'[j] = "invalid" /\ j \in checker /\ j \notin checker'
       /\ sub[j] = "validation_failed" =>
            sub'[j] \in {"validation_failed", "invalid"}]_vars

\* A verdict that is out stands, for the retries of its own worker and for a
\* second worker with another verdict.
VerdictsStand == VerdictIsFinal /\ VerdictsDoNotCross

\* What the documents say of a commit that is found missing when a review is
\* created: a submission that is validated stays so
\* (openspec/specs/submission-validation/spec.md:29), since MarkInvalid refuses
\* to leave validated (the comment at git_providers.go:206-208).
ValidatedStands ==
  [][\A j \in Jobs : sub[j] = "validated" => sub'[j] = "validated"]_vars

\* The attempts end: whatever fails, a job gets a verdict (runOne,
\* recordFailure).
VerdictReached ==
  \A j \in Jobs : j \in Created ~> (job[j].status \in Terminal \/ ~ Alone)

=============================================================================
