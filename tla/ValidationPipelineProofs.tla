----------------------- MODULE ValidationPipelineProofs -----------------------
(* Proofs about ValidationPipeline: with one worker the job, the submission,  *)
(* the execution and the ledger agree and a verdict stands, whatever fails    *)
(* and however often it is tried again; and for any number of workers the     *)
(* verdicts of two of them do not cross.                                     *)
EXTENDS ValidationPipeline, FiniteSetTheorems, TLAPS

(* The rows, and what a worker has in memory.  The steps it still goes        *)
(* through do not matter to what follows.                                    *)

IsWorker(q) ==
  /\ q = [at |-> q.at, j |-> q.j, mem |-> q.mem, row |-> q.row, todo |-> q.todo,
          target |-> q.target]
  /\ q.at \in Places /\ q.j \in Jobs /\ q.mem \in JobRow /\ q.row \in JobRow
  /\ q.target \in SubStatus

Types ==
  /\ setting \in Settings
  /\ order \in Seq(Jobs)
  /\ job \in [Jobs -> JobRow]
  /\ sub \in [Jobs -> SubStatus]
  /\ exec \in [Jobs -> ExecStatus]
  /\ wk = [w \in Workers |-> wk[w]]

\* The execution once its validation has succeeded, in whatever state it is.
AfterReview == {"reviewing", "cancelled"} \cup Reviewed

-----------------------------------------------------------------------------
(* What holds of any number of workers.                                      *)

\* Only submissions have jobs that are worked at.
Submitted ==
  /\ \A j \in Jobs : sub[j] = "none" => job[j] = NewValidationJob
  /\ facts \subseteq Created /\ checker \subseteq Created
  /\ \A i \in DOMAIN order : order[i] \in Created

\* A submission has a verdict only with the execution that goes with it.
Marked(j) ==
  /\ sub[j] = "validated" => exec[j] \in AfterReview
  /\ sub[j] = "validation_failed" => exec[j] = "validation_failed"

\* The verdict in a worker's memory, and the execution once it has been told.
Good(q) == q.mem.status = "succeeded" /\ q.target = "validated"
Bad(q) == q.mem.status = "failed" /\ q.target \in {"validation_failed", "invalid"}

Decided(q) ==
  /\ q.at = "check" => Good(q)
  /\ q.at = "notify" => Good(q) \/ Bad(q)
  /\ q.at \in {"write", "save"} =>
       \/ Good(q) /\ exec[q.j] \in AfterReview
       \/ Bad(q) /\ exec[q.j] = "validation_failed"

-----------------------------------------------------------------------------
(* What holds of one worker.                                                 *)

\* A row that was loaded is what the table holds, but for the claim.
Same(a, b) ==
  a.status = b.status /\ a.attempt = b.attempt /\ a.synced = b.synced /\ a.steps = b.steps

Loaded(q) ==
  /\ q.at \in {"locking", "locked"} => Same(q.row, job[q.j]) /\ q.row.status = "running"
  /\ q.at = "failing" => Same(q.row, job[q.j])
  /\ q.at \in {"check", "notify", "write", "save"} =>
       /\ job[q.j].status \in Terminal
       /\ q.target # "invalid" => job[q.j].status = q.mem.status
  /\ q.at = "facts" => job[q.j].synced

Synced(j) ==
  \/ /\ job[j].status = "succeeded"
     /\ sub[j] \in {"validated", "invalid"}
     /\ exec[j] \in AfterReview
  \/ /\ job[j].status = "failed"
     /\ sub[j] \in {"validation_failed", "invalid"}
     /\ exec[j] = "validation_failed"

JobFits(j) ==
  /\ job[j].status = "succeeded" => \A s \in Steps : job[j].steps[s] \in Passed
  /\ sub[j] = "validated" => job[j].status = "succeeded"
  /\ job[j].synced => Synced(j)
  /\ j \in facts => job[j].synced

WorkerFits(w) ==
  /\ IsWorker(wk[w])
  /\ wk[w].at # "idle" => wk[w].j \in Created /\ w \in setting.run
  /\ Decided(wk[w])
  /\ Alone => Loaded(wk[w])

PipelineInv ==
  /\ Types /\ Submitted
  /\ \A j \in Jobs : Marked(j) /\ (Alone => JobFits(j))
  /\ \A w \in Workers : WorkerFits(w)

-----------------------------------------------------------------------------
(* Lemmas.                                                                   *)

\* An execution that has been told a verdict keeps to it.
Stays ==
  \A j \in Jobs : /\ exec[j] \in AfterReview => exec'[j] \in AfterReview
                  /\ exec[j] = "validation_failed" => exec'[j] = "validation_failed"

\* In a deployment with one worker there is no other.
LEMMA OneInCharge ==
  ASSUME setting \in Settings, Alone, NEW w \in setting.run, NEW v \in setting.run PROVE v = w
<1>1. setting.run \subseteq Workers /\ IsFiniteSet(Workers)
  BY PipelineAssumption
<1>2. IsFiniteSet(setting.run) /\ Cardinality(setting.run) = 1
  BY <1>1, FS_Subset DEF Alone
<1>3. \E x : setting.run = {x}
  BY <1>2, FS_Singleton
<1> QED
  BY <1>3

\* A worker at rest has nothing to do with any job.
LEMMA IdleFits ==
  ASSUME NEW q, q.at = "idle" PROVE Decided(q) /\ Decided(q)' /\ Loaded(q) /\ Loaded(q)'
  BY DEF Decided, Loaded

\* What a worker starts with is what a worker may have.
LEMMA RestIsIdle == IsWorker(AtRest) /\ AtRest.at = "idle"
<1>1. (CHOOSE j \in Jobs : TRUE) \in Jobs
  BY PipelineAssumption
<1>2. NewValidationJob \in JobRow
  BY PipelineAssumption DEF NewValidationJob, JobRow
<1> QED
  BY <1>1, <1>2 DEF AtRest, IsWorker, Places, SubStatus

\* A worker and what is put in its place.
LEMMA Put ==
  ASSUME Types, NEW w \in Workers, NEW q, wk' = [wk EXCEPT ![w] = q]
  PROVE  /\ wk' = [v \in Workers |-> wk'[v]] /\ wk'[w] = q
         /\ \A v \in Workers \ {w} : wk'[v] = wk[v]
<1>1. wk = [v \in Workers |-> wk[v]]
  BY DEF Types
<1> QED
  BY <1>1

\* A worker at another place, with the same memory.
LEMMA Went ==
  ASSUME NEW x, IsWorker(x), NEW p \in Places
  PROVE  /\ IsWorker([x EXCEPT !.at = p])
         /\ [x EXCEPT !.at = p].at = p /\ [x EXCEPT !.at = p].j = x.j
         /\ [x EXCEPT !.at = p].mem = x.mem /\ [x EXCEPT !.at = p].row = x.row
         /\ [x EXCEPT !.at = p].target = x.target
  BY DEF IsWorker

\* Going from one place to another.
LEMMA Goes ==
  ASSUME PipelineInv, NEW w \in Workers, NEW p \in Places, Go(w, p)
  PROVE  \E q : /\ wk' = [wk EXCEPT ![w] = q] /\ IsWorker(q) /\ q.at = p /\ q.j = wk[w].j
                /\ q.mem = wk[w].mem /\ q.row = wk[w].row /\ q.target = wk[w].target
<1>1. IsWorker(wk[w])
  BY DEF PipelineInv, WorkerFits
<1>2. PICK q : q = [wk[w] EXCEPT !.at = p]
  OBVIOUS
<1>3. wk' = [wk EXCEPT ![w] = q]
  BY <1>2 DEF Go
<1>4. /\ IsWorker(q) /\ q.at = p /\ q.j = wk[w].j
      /\ q.mem = wk[w].mem /\ q.row = wk[w].row /\ q.target = wk[w].target
  BY <1>1, <1>2, Went
<1> QED
  BY <1>3, <1>4

\* A step that writes neither a job nor a submission.
LEMMA Moves ==
  ASSUME PipelineInv, UNCHANGED <<setting, order, job, sub>>,
         exec' \in [Jobs -> ExecStatus], Stays,
         facts' \subseteq Created, Alone => \A j \in facts' : j \in facts \/ job[j].synced,
         checker' \subseteq Created,
         wk' = [v \in Workers |-> wk'[v]],
         \A v \in Workers : wk'[v] = wk[v] \/ WorkerFits(v)'
  PROVE  PipelineInv'
<1>1. Created' = Created
  BY DEF Created
<1>2. Types' /\ Submitted'
  BY <1>1 DEF PipelineInv, Types, Submitted
<1>3. ASSUME NEW j \in Jobs PROVE Marked(j)' /\ (Alone => JobFits(j))'
  BY DEF PipelineInv, Marked, JobFits, Alone, Synced, Stays
<1>4. ASSUME NEW v \in Workers PROVE WorkerFits(v)'
  <2>1. CASE wk'[v] = wk[v]
    <3>1. PICK q : q = wk[v]
      OBVIOUS
    <3>2. /\ IsWorker(q) /\ q.j \in Jobs /\ Decided(q) /\ (Alone => Loaded(q))
          /\ q.at # "idle" => q.j \in Created /\ v \in setting.run
      BY <3>1 DEF PipelineInv, WorkerFits, IsWorker
    <3>3. Decided(q)' /\ (Alone => Loaded(q))'
      BY <3>2 DEF Decided, Good, Bad, Stays, Alone, Loaded
    <3> QED
      BY <1>1, <2>1, <3>1, <3>2, <3>3 DEF WorkerFits
  <2> QED
    BY <2>1
<1> QED
  BY <1>2, <1>3, <1>4 DEF PipelineInv

\* The same, by a worker.
LEMMA WorkerMoves ==
  ASSUME PipelineInv, NEW w \in Workers, w \in setting.run, NEW q,
         UNCHANGED <<setting, order, job, sub, checker>>,
         exec' \in [Jobs -> ExecStatus], Stays,
         facts' \subseteq Created, Alone => \A j \in facts' : j \in facts \/ job[j].synced,
         wk' = [wk EXCEPT ![w] = q], IsWorker(q), q.at # "idle" => q.j \in Created,
         Decided(q)', Alone => Loaded(q)
  PROVE  PipelineInv'
<1>1. /\ wk' = [v \in Workers |-> wk'[v]] /\ wk'[w] = q
      /\ \A v \in Workers \ {w} : wk'[v] = wk[v]
  BY Put DEF PipelineInv
<1>2. WorkerFits(w)'
  <2>1. Created' = Created /\ (Alone => Loaded(q))'
    BY DEF Created, Alone, Loaded
  <2> QED
    BY <1>1, <2>1 DEF WorkerFits
<1>3. checker' \subseteq Created
  BY DEF PipelineInv, Submitted
<1> QED
  BY <1>1, <1>2, <1>3, Moves

\* A worker that writes nothing.
LEMMA WorkerThinks ==
  ASSUME PipelineInv, NEW w \in Workers, w \in setting.run, NEW q,
         UNCHANGED <<setting, order, job, sub, exec, facts, checker>>,
         wk' = [wk EXCEPT ![w] = q], IsWorker(q), q.at # "idle" => q.j \in Created,
         Decided(q), Alone => Loaded(q)
  PROVE  PipelineInv'
<1>1. exec' \in [Jobs -> ExecStatus] /\ Stays /\ facts' \subseteq Created
  BY DEF PipelineInv, Types, Submitted, Stays
<1>2. Decided(q)'
  BY DEF Decided
<1> QED
  BY <1>1, <1>2, WorkerMoves

\* A worker that goes to a place where it needs to remember nothing.
LEMMA WorkerGoes ==
  ASSUME PipelineInv, NEW w \in Workers, w \in setting.run, wk[w].at # "idle",
         UNCHANGED <<setting, order, job, sub, exec, facts, checker>>,
         NEW p \in {"step", "start", "fail"}, Go(w, p)
  PROVE  PipelineInv'
<1>1. p \in Places
  BY DEF Places
<1>2. PICK q : wk' = [wk EXCEPT ![w] = q] /\ IsWorker(q) /\ q.at = p /\ q.j = wk[w].j
  BY <1>1, Goes
<1>3. q.j \in Created
  BY <1>2 DEF PipelineInv, WorkerFits
<1>4. Decided(q) /\ Loaded(q)
  BY <1>2 DEF Decided, Loaded
<1> QED
  BY <1>2, <1>3, <1>4, WorkerThinks

\* A step that writes one job, by the worker that is at it.
LEMMA JobWrites ==
  ASSUME PipelineInv, NEW w \in Workers, w \in setting.run, NEW q,
         NEW j \in Created, NEW r \in JobRow, NEW t \in SubStatus \ {"none"},
         UNCHANGED <<setting, order, exec, facts, checker>>,
         job' = [job EXCEPT ![j] = r], sub' = [sub EXCEPT ![j] = t],
         wk' = [wk EXCEPT ![w] = q], IsWorker(q), q.at # "idle" => q.j = j,
         Decided(q)', (Alone => Loaded(q))', Marked(j)', (Alone => JobFits(j))'
  PROVE  PipelineInv'
<1>1. /\ wk' = [v \in Workers |-> wk'[v]] /\ wk'[w] = q
      /\ \A v \in Workers \ {w} : wk'[v] = wk[v]
  BY Put DEF PipelineInv
<1>2. /\ j \in Jobs /\ job' \in [Jobs -> JobRow] /\ sub' \in [Jobs -> SubStatus]
      /\ job'[j] = r /\ sub'[j] = t
      /\ \A k \in Jobs \ {j} : job'[k] = job[k] /\ sub'[k] = sub[k]
  BY DEF PipelineInv, Types, Created
<1>3. Created' = Created
  BY <1>2 DEF Created
<1>4. Types'
  BY <1>1, <1>2 DEF PipelineInv, Types
<1>5. Submitted'
  BY <1>2, <1>3 DEF PipelineInv, Submitted
<1>6. ASSUME NEW k \in Jobs PROVE Marked(k)' /\ (Alone => JobFits(k))'
  <2>1. CASE k = j
    BY <2>1
  <2>2. CASE k # j
    BY <1>2, <2>2 DEF PipelineInv, Marked, JobFits, Synced, Alone
  <2> QED
    BY <2>1, <2>2
<1>7. ASSUME NEW v \in Workers PROVE WorkerFits(v)'
  <2>1. CASE v = w
    BY <1>1, <1>3, <2>1 DEF WorkerFits
  <2>2. CASE v # w
    <3>1. PICK x : x = wk[v] /\ x = wk'[v]
      BY <1>1, <2>2
    <3>2. /\ IsWorker(x) /\ Decided(x)
          /\ x.at # "idle" => x.j \in Created /\ v \in setting.run
      BY <3>1 DEF PipelineInv, WorkerFits
    <3>3. Decided(x)'
      BY <3>2 DEF Decided
    <3>4. Alone => x.at = "idle"
      BY <2>2, <3>2, OneInCharge DEF PipelineInv, Types
    <3>5. (Alone => Loaded(x))'
      BY <3>4, IdleFits DEF Alone
    <3> QED
      BY <1>3, <3>1, <3>2, <3>3, <3>5 DEF WorkerFits
  <2> QED
    BY <2>1, <2>2
<1> QED
  BY <1>4, <1>5, <1>6, <1>7 DEF PipelineInv

-----------------------------------------------------------------------------
(* The steps of a worker.                                                    *)

\* A notification moves the execution to where the verdict belongs.
LEMMA NotifyStays ==
  ASSUME Types, NEW j \in Jobs, NEW intent \in {"start_validation", "fail_validation", "mark_reviewing"},
         Notify(j, intent)
  PROVE  /\ exec' \in [Jobs -> ExecStatus] /\ Stays
         /\ intent = "mark_reviewing" => exec'[j] \in AfterReview
         /\ intent = "fail_validation" => exec'[j] = "validation_failed"
<1>1. CASE intent = "start_validation"
  <2>1. \/ exec[j] = "submitted" /\ exec' = [exec EXCEPT ![j] = "validating"]
        \/ UNCHANGED exec
    BY <1>1 DEF Notify, From, To
  <2>2. "validating" \in ExecStatus /\ "submitted" \notin AfterReview
    BY DEF ExecStatus, AfterReview, Reviewed
  <2> QED
    BY <1>1, <2>1, <2>2 DEF Types, Stays
<1>2. CASE intent = "fail_validation"
  <2>1. \/ exec[j] = "validating" /\ exec' = [exec EXCEPT ![j] = "validation_failed"]
        \/ exec[j] = "validation_failed" /\ UNCHANGED exec
    BY <1>2 DEF Notify, From, To, executionTransitionAlreadyApplied
  <2>2. "validation_failed" \in ExecStatus /\ "validating" \notin AfterReview
    BY DEF ExecStatus, AfterReview, Reviewed
  <2> QED
    BY <1>2, <2>1, <2>2 DEF Types, Stays
<1>3. CASE intent = "mark_reviewing"
  <2>1. \/ exec[j] = "validating" /\ exec' = [exec EXCEPT ![j] = "reviewing"]
        \/ exec[j] \in {"reviewing"} \cup Reviewed /\ UNCHANGED exec
    BY <1>3 DEF Notify, From, To, executionTransitionAlreadyApplied
  <2>2. "reviewing" \in ExecStatus /\ "validating" \notin AfterReview
    BY DEF ExecStatus, AfterReview, Reviewed
  <2>3. {"reviewing"} \cup Reviewed \subseteq AfterReview
    BY DEF AfterReview
  <2> QED
    BY <1>3, <2>1, <2>2, <2>3 DEF Types, Stays, AfterReview
<1> QED
  BY <1>1, <1>2, <1>3

\* Where a worker is that is not at rest.
LEMMA AtWork ==
  ASSUME PipelineInv, NEW w \in Workers, wk[w].at # "idle"
  PROVE  /\ w \in setting.run /\ wk[w].j \in Created /\ wk[w].j \in Jobs
         /\ IsWorker(wk[w]) /\ Decided(wk[w]) /\ (Alone => Loaded(wk[w]))
  BY DEF PipelineInv, WorkerFits, IsWorker

\* The execution is told that the validation begins.
LEMMA StartValidationStep ==
  ASSUME PipelineInv, UNCHANGED setting, NEW w \in Workers, StartValidation(w)
  PROVE  PipelineInv'
<1>1. wk[w].at = "start"
  BY DEF StartValidation
<1>2. w \in setting.run /\ wk[w].j \in Created /\ wk[w].j \in Jobs
  BY <1>1, AtWork
<1>3. CASE Notify(wk[w].j, "start_validation") /\ Go(w, "step")
  <2>1. exec' \in [Jobs -> ExecStatus] /\ Stays
    BY <1>2, <1>3, NotifyStays DEF PipelineInv
  <2>2. PICK q : wk' = [wk EXCEPT ![w] = q] /\ IsWorker(q) /\ q.at = "step" /\ q.j = wk[w].j
    BY <1>3, Goes DEF Places
  <2>3. Decided(q)' /\ Loaded(q)
    BY <2>2 DEF Decided, Loaded
  <2>4. UNCHANGED <<setting, order, job, sub, checker, facts>> /\ facts \subseteq Created
    BY DEF StartValidation, PipelineInv, Submitted
  <2> QED
    BY <1>2, <2>1, <2>2, <2>3, <2>4, WorkerMoves
<1>4. CASE Go(w, "fail") /\ UNCHANGED exec
  BY <1>1, <1>2, <1>4, WorkerGoes DEF StartValidation
<1> QED
  BY <1>3, <1>4 DEF StartValidation

\* The job is loaded, without a lock.
LEMMA StepReadStep ==
  ASSUME PipelineInv, UNCHANGED setting, NEW w \in Workers, StepRead(w)
  PROVE  PipelineInv'
<1>1. wk[w].at = "step"
  BY DEF StepRead
<1>2. w \in setting.run /\ wk[w].j \in Created /\ wk[w].j \in Jobs /\ IsWorker(wk[w])
  BY <1>1, AtWork
<1>3. PICK row, p : /\ row = job[wk[w].j]
                    /\ p = IF MayStart(row, Head(wk[w].todo)) THEN "locking" ELSE "fail"
  OBVIOUS
<1>4. row \in JobRow /\ p \in {"locking", "fail"} /\ (p = "locking" => row.status = "running")
  BY <1>2, <1>3 DEF PipelineInv, Types, MayStart
<1>5. PICK q : q = [wk[w] EXCEPT !.row = row, !.at = p]
  OBVIOUS
<1>6. wk' = [wk EXCEPT ![w] = q]
  BY <1>3, <1>5 DEF StepRead
<1>7. IsWorker(q) /\ q.at = p /\ q.j = wk[w].j /\ q.row = row
  BY <1>2, <1>4, <1>5 DEF IsWorker, Places
<1>8. Decided(q) /\ Loaded(q)
  BY <1>3, <1>4, <1>7 DEF Decided, Loaded, Same
<1> QED
  BY <1>2, <1>6, <1>7, <1>8, WorkerThinks DEF StepRead

\* The first write of the step.
LEMMA StepLockStep ==
  ASSUME PipelineInv, UNCHANGED setting, NEW w \in Workers, StepLock(w)
  PROVE  PipelineInv'
<1>1. wk[w].at = "locking" /\ Go(w, "locked") /\ "locked" \in Places
  BY DEF StepLock, Places
<1>2. w \in setting.run /\ wk[w].j \in Created /\ (Alone => Loaded(wk[w]))
  BY <1>1, AtWork
<1>3. PICK q : /\ wk' = [wk EXCEPT ![w] = q] /\ IsWorker(q) /\ q.at = "locked"
               /\ q.j = wk[w].j /\ q.row = wk[w].row
  BY <1>1, Goes
<1>4. Decided(q) /\ (Alone => Loaded(q))
  BY <1>1, <1>2, <1>3 DEF Decided, Loaded
<1> QED
  BY <1>2, <1>3, <1>4, WorkerThinks DEF StepLock

\* The worker gives the job up, for whatever reason.
LEMMA RestStep ==
  ASSUME PipelineInv, NEW w \in Workers, wk[w].at # "idle",
         UNCHANGED <<setting, order, job, sub, exec, facts, checker>>,
         wk' = [wk EXCEPT ![w] = AtRest]
  PROVE  PipelineInv'
<1>1. PICK q : q = AtRest
  OBVIOUS
<1>2. IsWorker(q) /\ q.at = "idle" /\ Decided(q) /\ Loaded(q)
  BY <1>1, RestIsIdle, IdleFits
<1>3. w \in setting.run
  BY AtWork
<1> QED
  BY <1>1, <1>2, <1>3, WorkerThinks

\* The failure is about to be recorded.
LEMMA FailReadStep ==
  ASSUME PipelineInv, UNCHANGED setting, NEW w \in Workers, FailRead(w)
  PROVE  PipelineInv'
<1>1. wk[w].at = "fail"
  BY DEF FailRead
<1>2. w \in setting.run /\ wk[w].j \in Created /\ wk[w].j \in Jobs /\ IsWorker(wk[w])
  BY <1>1, AtWork
<1>3. PICK row : row = job[wk[w].j]
  OBVIOUS
<1>4. row \in JobRow
  BY <1>2, <1>3 DEF PipelineInv, Types
<1>5. PICK q : q = [wk[w] EXCEPT !.row = row, !.at = "failing"]
  OBVIOUS
<1>6. wk' = [wk EXCEPT ![w] = q]
  BY <1>3, <1>5 DEF FailRead
<1>7. IsWorker(q) /\ q.at = "failing" /\ q.j = wk[w].j /\ q.row = row
  BY <1>2, <1>4, <1>5 DEF IsWorker, Places
<1>8. Decided(q) /\ Loaded(q)
  BY <1>3, <1>7 DEF Decided, Loaded, Same
<1> QED
  BY <1>2, <1>6, <1>7, <1>8, WorkerThinks DEF FailRead

\* The commit is looked for once more.
LEMMA CheckIntegrityStep ==
  ASSUME PipelineInv, UNCHANGED setting, NEW w \in Workers, NEW ok \in BOOLEAN,
         CheckIntegrity(w, ok)
  PROVE  PipelineInv'
<1>1. wk[w].at = "check"
  BY DEF CheckIntegrity
<1>2. /\ w \in setting.run /\ wk[w].j \in Created /\ IsWorker(wk[w]) /\ Decided(wk[w])
      /\ Alone => Loaded(wk[w])
  BY <1>1, AtWork
<1>3. PICK mem, target : /\ mem = [wk[w].mem EXCEPT !.status = IF ok THEN @ ELSE "failed"]
                         /\ target = IF ok THEN wk[w].target ELSE "invalid"
  OBVIOUS
<1>4. wk[w].mem \in JobRow /\ wk[w].mem.status = "succeeded" /\ wk[w].target = "validated"
  BY <1>1, <1>2 DEF IsWorker, Decided, Good
<1>5. /\ mem \in JobRow /\ target \in SubStatus
      /\ \/ mem.status = "succeeded" /\ target = "validated"
         \/ mem.status = "failed" /\ target = "invalid"
  BY <1>3, <1>4 DEF JobRow, Terminal, SubStatus
<1>6. PICK q : q = [wk[w] EXCEPT !.at = "notify", !.mem = mem, !.target = target]
  OBVIOUS
<1>7. wk' = [wk EXCEPT ![w] = q]
  BY <1>2, <1>3, <1>6 DEF CheckIntegrity, IsWorker
<1>8. IsWorker(q) /\ q.at = "notify" /\ q.j = wk[w].j /\ q.mem = mem /\ q.target = target
  BY <1>2, <1>5, <1>6 DEF IsWorker, Places
<1>9. Decided(q) /\ (Alone => Loaded(q))
  BY <1>1, <1>2, <1>4, <1>5, <1>8 DEF Decided, Good, Bad, Loaded
<1> QED
  BY <1>2, <1>7, <1>8, <1>9, WorkerThinks DEF CheckIntegrity

\* The execution is told the verdict.
LEMMA SyncNotifyStep ==
  ASSUME PipelineInv, UNCHANGED setting, NEW w \in Workers, SyncNotify(w)
  PROVE  PipelineInv'
<1>1. wk[w].at = "notify"
  BY DEF SyncNotify
<1>2. /\ w \in setting.run /\ wk[w].j \in Created /\ wk[w].j \in Jobs
      /\ Good(wk[w]) \/ Bad(wk[w])
      /\ Alone => Loaded(wk[w])
  BY <1>1, AtWork DEF Decided
<1>3. PICK i : i = IntentOf(wk[w].mem.status)
  OBVIOUS
<1>4. /\ i \in {"mark_reviewing", "fail_validation"}
      /\ Good(wk[w]) => i = "mark_reviewing"
      /\ Bad(wk[w]) => i = "fail_validation"
  BY <1>3 DEF IntentOf, Good, Bad
<1>5. CASE Notify(wk[w].j, i) /\ Go(w, "write")
  <2>1. /\ exec' \in [Jobs -> ExecStatus] /\ Stays
        /\ i = "mark_reviewing" => exec'[wk[w].j] \in AfterReview
        /\ i = "fail_validation" => exec'[wk[w].j] = "validation_failed"
    BY <1>2, <1>4, <1>5, NotifyStays DEF PipelineInv
  <2>2. PICK q : /\ wk' = [wk EXCEPT ![w] = q] /\ IsWorker(q) /\ q.at = "write"
                 /\ q.j = wk[w].j /\ q.mem = wk[w].mem /\ q.target = wk[w].target
    BY <1>5, Goes DEF Places
  <2>3. Decided(q)'
    BY <1>2, <1>4, <2>1, <2>2 DEF Decided, Good, Bad
  <2>4. Alone => Loaded(q)
    BY <1>1, <1>2, <2>2 DEF Loaded
  <2>5. UNCHANGED <<setting, order, job, sub, checker, facts>> /\ facts \subseteq Created
    BY DEF SyncNotify, PipelineInv, Submitted
  <2> QED
    BY <1>2, <2>1, <2>2, <2>3, <2>4, <2>5, WorkerMoves
<1>6. CASE Go(w, "fail") /\ UNCHANGED exec
  BY <1>1, <1>2, <1>6, WorkerGoes DEF SyncNotify
<1> QED
  BY <1>3, <1>5, <1>6 DEF SyncNotify

\* The submission is loaded.
LEMMA SyncReadStep ==
  ASSUME PipelineInv, UNCHANGED setting, NEW w \in Workers, SyncRead(w)
  PROVE  PipelineInv'
<1>1. /\ wk[w].at = "write"
      /\ UNCHANGED <<setting, order, job, sub, exec, facts, checker>>
      /\ Go(w, "save") \/ Go(w, "fail")
  BY DEF SyncRead
<1>2. /\ w \in setting.run /\ wk[w].j \in Created /\ Decided(wk[w])
      /\ Alone => Loaded(wk[w])
  BY <1>1, AtWork
<1>3. CASE Go(w, "save")
  <2>1. PICK q : /\ wk' = [wk EXCEPT ![w] = q] /\ IsWorker(q) /\ q.at = "save"
                 /\ q.j = wk[w].j /\ q.mem = wk[w].mem /\ q.target = wk[w].target
    BY <1>3, Goes DEF Places
  <2>2. Decided(q) /\ (Alone => Loaded(q))
    BY <1>1, <1>2, <2>1 DEF Decided, Good, Bad, Loaded
  <2> QED
    BY <1>1, <1>2, <2>1, <2>2, WorkerThinks
<1>4. CASE Go(w, "fail")
  BY <1>1, <1>2, <1>4, WorkerGoes
<1> QED
  BY <1>1, <1>3, <1>4

\* The facts of a job that is synced go to the ledger.
LEMMA RecordFactsStep ==
  ASSUME PipelineInv, UNCHANGED setting, NEW w \in Workers, RecordFacts(w)
  PROVE  PipelineInv'
<1>1. wk[w].at = "facts"
  BY DEF RecordFacts
<1>2. w \in setting.run /\ wk[w].j \in Created /\ (Alone => Loaded(wk[w]))
  BY <1>1, AtWork
<1>3. PICK j : j = wk[w].j
  OBVIOUS
<1>4. facts' = facts \cup {j} \/ facts' = facts
  BY <1>3 DEF RecordFacts
<1>5. PICK q : q = AtRest
  OBVIOUS
<1>6. IsWorker(q) /\ q.at = "idle" /\ Decided(q)' /\ Loaded(q)
  BY <1>5, RestIsIdle, IdleFits
<1>7. exec' \in [Jobs -> ExecStatus] /\ Stays /\ facts' \subseteq Created
  BY <1>2, <1>3, <1>4 DEF RecordFacts, PipelineInv, Types, Stays, Submitted
<1>8. Alone => job[j].synced
  BY <1>1, <1>2, <1>3 DEF Loaded
<1> QED
  BY <1>2, <1>4, <1>5, <1>6, <1>7, <1>8, WorkerMoves DEF RecordFacts

-----------------------------------------------------------------------------
(* The steps that write a job.                                               *)

\* The status of a job after a step.
LEMMA FinishIs ==
  ASSUME NEW row \in JobRow, NEW s, NEW r \in Results
  PROVE  /\ [row.steps EXCEPT ![s] = r] \in [Steps -> {"pending"} \cup Results]
         /\ FinishStep(row, s, r) \in {row.status} \cup Terminal
         /\ row.status = "running" /\ FinishStep(row, s, r) = "succeeded" =>
              \A q \in Steps : [row.steps EXCEPT ![s] = r][q] \in Passed
<1>1. PICK steps : steps = [row.steps EXCEPT ![s] = r]
  OBVIOUS
<1>2. row.steps \in [Steps -> {"pending"} \cup Results]
  BY DEF JobRow
<1>3. steps \in [Steps -> {"pending"} \cup Results]
  BY <1>1, <1>2
<1>4. FinishStep(row, s, r) = IF r = "failed_gate" THEN "failed"
        ELSE IF \E q \in Steps : steps[q] = "pending" THEN row.status
        ELSE IF \E q \in Steps : steps[q] \in Failed THEN "failed"
        ELSE "succeeded"
  BY <1>1 DEF FinishStep
<1>5. FinishStep(row, s, r) \in {row.status} \cup Terminal
  BY <1>4 DEF Terminal
<1>6. row.status = "running" /\ FinishStep(row, s, r) = "succeeded" =>
        \A q \in Steps : steps[q] \in Passed
  BY <1>3, <1>4 DEF Results
<1> QED
  BY <1>1, <1>3, <1>5, <1>6

\* The commit of a step.
LEMMA StepCommitStep ==
  ASSUME PipelineInv, UNCHANGED setting, NEW w \in Workers, NEW r \in Results, StepCommit(w, r)
  PROVE  PipelineInv'
<1>1. wk[w].at = "locked"
  BY DEF StepCommit
<1>2. /\ w \in setting.run /\ wk[w].j \in Created /\ wk[w].j \in Jobs
      /\ IsWorker(wk[w]) /\ (Alone => Loaded(wk[w]))
  BY <1>1, AtWork
<1>3. PICK j, s, row : j = wk[w].j /\ s = Head(wk[w].todo) /\ row = wk[w].row
  OBVIOUS
<1>4. row \in JobRow /\ job[j] \in JobRow /\ j \in Created /\ j \in Jobs
  BY <1>2, <1>3 DEF IsWorker, PipelineInv, Types
<1>5. Alone => Same(row, job[j]) /\ row.status = "running"
  BY <1>1, <1>2, <1>3 DEF Loaded
<1>6. PICK st : st = FinishStep(row, s, r)
  OBVIOUS
<1>7. PICK mem : mem = [row EXCEPT !.status = st, !.steps[s] = r,
                                   !.claimed = @ /\ st \notin Terminal]
  OBVIOUS
<1>8. PICK new : new = [mem EXCEPT !.steps = [job[j].steps EXCEPT ![s] = r]]
  OBVIOUS
<1>9. st \in {row.status} \cup Terminal
  BY <1>4, <1>6, FinishIs
<1>10. /\ mem \in JobRow /\ mem.status = st
       /\ new \in JobRow /\ new.status = st /\ new.synced = row.synced
       /\ new.steps = [job[j].steps EXCEPT ![s] = r]
  <2>1. /\ [row.steps EXCEPT ![s] = r] \in [Steps -> {"pending"} \cup Results]
        /\ [job[j].steps EXCEPT ![s] = r] \in [Steps -> {"pending"} \cup Results]
    BY <1>4, FinishIs
  <2>2. PICK c \in BOOLEAN : c = (row.claimed /\ st \notin Terminal)
    OBVIOUS
  <2>3. PICK steps, others : /\ steps = [row.steps EXCEPT ![s] = r]
                             /\ others = [job[j].steps EXCEPT ![s] = r]
    OBVIOUS
  <2>4. mem = [row EXCEPT !.status = st, !.steps = steps, !.claimed = c]
    BY <1>7, <2>2, <2>3
  <2>5. st \in {"pending", "running"} \cup Terminal
    BY <1>4, <1>9 DEF JobRow
  <2>6. mem \in JobRow /\ mem.status = st /\ mem.synced = row.synced
    BY <1>4, <2>1, <2>3, <2>4, <2>5 DEF JobRow
  <2>7. new = [mem EXCEPT !.steps = others]
    BY <1>8, <2>3
  <2>8. new \in JobRow /\ new.status = st /\ new.synced = row.synced /\ new.steps = others
    BY <2>1, <2>3, <2>6, <2>7 DEF JobRow
  <2> QED
    BY <2>3, <2>6, <2>8
<1>11. job' = [job EXCEPT ![j] = new]
  BY <1>3, <1>6, <1>7, <1>8 DEF StepCommit
<1>12. PICK todo, p : /\ todo = (IF st \in Terminal THEN <<>> ELSE Tail(wk[w].todo))
                      /\ p = (IF st \in Terminal THEN SyncFrom(st) ELSE "step")
  OBVIOUS
<1>13. PICK q : q = [wk[w] EXCEPT !.mem = mem, !.row = mem, !.todo = todo,
                                  !.target = TargetOf(st), !.at = p]
  OBVIOUS
<1>14. wk' = [wk EXCEPT ![w] = q]
  <2>1. wk' = [wk EXCEPT ![w].mem = mem, ![w].row = mem,
                         ![w].todo = IF st \in Terminal THEN <<>> ELSE Tail(@),
                         ![w].target = TargetOf(st), ![w].at = p]
    BY <1>3, <1>6, <1>7, <1>12, ZenonT(40) DEF StepCommit
  <2>2. wk = [v \in Workers |-> wk[v]]
    BY DEF PipelineInv, Types
  <2> QED
    BY <1>2, <1>12, <1>13, <2>1, <2>2 DEF IsWorker
<1>15. /\ p \in {"step", "check", "notify"} /\ TargetOf(st) \in SubStatus
       /\ p = "check" => st = "succeeded" /\ TargetOf(st) = "validated"
       /\ p = "notify" => st = "failed" /\ TargetOf(st) = "validation_failed"
       /\ p # "step" => st \in Terminal
  BY <1>12 DEF SyncFrom, TargetOf, SubStatus, Terminal
<1>16. IsWorker(q) /\ q.at = p /\ q.j = j /\ q.mem = mem /\ q.target = TargetOf(st)
  BY <1>2, <1>3, <1>10, <1>13, <1>15 DEF IsWorker, Places
<1>17. Decided(q)'
  BY <1>10, <1>15, <1>16 DEF Decided, Good, Bad
<1>18. job'[j] = new /\ sub' = [sub EXCEPT ![j] = sub[j]]
  BY <1>4, <1>11 DEF StepCommit, PipelineInv, Types
<1>19. (Alone => Loaded(q))'
  BY <1>10, <1>15, <1>16, <1>18 DEF Loaded
<1>20. Marked(j)' /\ sub[j] \in SubStatus \ {"none"}
  BY <1>4 DEF StepCommit, PipelineInv, Marked, Created, Types
<1>21. (Alone => JobFits(j))'
  <2> SUFFICES ASSUME Alone PROVE JobFits(j)'
    BY DEF Alone
  <2>1. JobFits(j) /\ job[j].status = "running" /\ job[j].synced = row.synced /\ row.steps = job[j].steps
    BY <1>4, <1>5 DEF PipelineInv, Same
  <2>2. sub[j] # "validated" /\ ~ job[j].synced /\ j \notin facts
    BY <2>1 DEF JobFits, Synced
  <2>3. new.status = "succeeded" => \A x \in Steps : new.steps[x] \in Passed
    <3> SUFFICES ASSUME st = "succeeded" PROVE \A x \in Steps : new.steps[x] \in Passed
      BY <1>10
    <3>1. row.status = "running" /\ row.steps = job[j].steps
      BY <1>5, <2>1
    <3>2. \A x \in Steps : [row.steps EXCEPT ![s] = r][x] \in Passed
      BY <1>4, <1>6, <3>1, FinishIs
    <3>3. new.steps = [row.steps EXCEPT ![s] = r]
      BY <1>10, <3>1
    <3> QED
      BY <3>2, <3>3
  <2> QED
    BY <1>10, <1>18, <2>1, <2>2, <2>3 DEF JobFits, StepCommit
<1>22. /\ UNCHANGED <<setting, order, exec, facts, checker>>
       /\ q.at # "idle" => q.j = j
  BY <1>16 DEF StepCommit
<1> QED
  BY <1>2, <1>4, <1>10, <1>11, <1>14, <1>16, <1>17, <1>18, <1>19, <1>20, <1>21, <1>22, JobWrites


\* The next job is claimed.
LEMMA ClaimIs ==
  ASSUME PipelineInv, UNCHANGED setting, NEW w \in Workers, ClaimNextPending(w)
  PROVE  \E j \in Created, r \in JobRow : \E q :
           /\ job' = [job EXCEPT ![j] = r] /\ wk' = [wk EXCEPT ![w] = q]
           /\ IsWorker(q) /\ q.j = j /\ q.mem = r /\ q.target = TargetOf(r.status)
           /\ r.synced = job[j].synced /\ r.steps = job[j].steps
           /\ IF job[j].status \in Terminal
              THEN r.status = job[j].status /\ q.at = SyncFrom(r.status)
              ELSE r.status = "running" /\ q.at \in {"fail", "start"}
<1>1. PICK i \in DOMAIN order :
        LET j   == order[i]
            att == IF job[j].attempt > MaxAttempts THEN job[j].attempt
                   ELSE job[j].attempt + 1
            st  == IF job[j].status \in Terminal THEN job[j].status ELSE "running"
            row == [job[j] EXCEPT !.status = st, !.attempt = att, !.claimed = TRUE]
            undone(s) == row.steps[s] \notin Passed
        IN /\ job' = [job EXCEPT ![j] = row]
           /\ wk' = [wk EXCEPT ![w] =
                       [at |-> CASE st \in Terminal -> SyncFrom(st)
                                 [] st \notin Terminal /\ att > MaxAttempts -> "fail"
                                 [] OTHER -> "start",
                        j |-> j, mem |-> row, row |-> row,
                        todo |-> SelectSeq(StepOrder, undone),
                        target |-> TargetOf(st)]]
  BY DEF ClaimNextPending
<1>2. PICK j : j = order[i]
  OBVIOUS
<1>3. PICK att, st, row :
        /\ att = (IF job[j].attempt > MaxAttempts THEN job[j].attempt
                  ELSE job[j].attempt + 1)
        /\ st = (IF job[j].status \in Terminal THEN job[j].status ELSE "running")
        /\ row = [job[j] EXCEPT !.status = st, !.attempt = att, !.claimed = TRUE]
  OBVIOUS
<1>4. PICK todo : todo = LET undone(s) == row.steps[s] \notin Passed
                         IN  SelectSeq(StepOrder, undone)
  OBVIOUS
<1>5. PICK p : p = CASE st \in Terminal -> SyncFrom(st)
                     [] st \notin Terminal /\ att > MaxAttempts -> "fail"
                     [] OTHER -> "start"
  OBVIOUS
<1>6. PICK q : q = [at |-> p, j |-> j, mem |-> row, row |-> row, todo |-> todo,
                    target |-> TargetOf(st)]
  OBVIOUS
<1>7. job' = [job EXCEPT ![j] = row] /\ wk' = [wk EXCEPT ![w] = q]
  BY <1>1, <1>2, <1>3, <1>4, <1>5, <1>6
<1>8. j \in Created /\ j \in Jobs /\ job[j] \in JobRow
  BY <1>2 DEF PipelineInv, Submitted, Types, Created
<1>9. att \in 0 .. MaxAttempts + 1
  BY <1>3, <1>8, PipelineAssumption DEF JobRow
<1>10. /\ row \in JobRow /\ row.status = st
       /\ row.synced = job[j].synced /\ row.steps = job[j].steps
  BY <1>3, <1>8, <1>9 DEF JobRow
<1>11. p \in Places /\ (IF job[j].status \in Terminal THEN p = SyncFrom(st) ELSE p \in {"fail", "start"})
  BY <1>3, <1>5, <1>8 DEF Places, SyncFrom, Terminal
<1>12. TargetOf(st) \in SubStatus
  BY DEF TargetOf, SubStatus
<1>13. IsWorker(q) /\ q.j = j /\ q.mem = row /\ q.target = TargetOf(st) /\ q.at = p
  BY <1>6, <1>8, <1>10, <1>11, <1>12 DEF IsWorker
<1>14. IF job[j].status \in Terminal
       THEN row.status = job[j].status /\ q.at = SyncFrom(row.status)
       ELSE row.status = "running" /\ q.at \in {"fail", "start"}
  BY <1>3, <1>10, <1>11, <1>13
<1>15. q.target = TargetOf(row.status)
  BY <1>10, <1>13
<1> QED
  BY <1>7, <1>8, <1>10, <1>13, <1>14, <1>15

\* A claim keeps the verdict of a job that has one.
LEMMA ClaimNextPendingStep ==
  ASSUME PipelineInv, UNCHANGED setting, NEW w \in Workers, w \in setting.run,
         ClaimNextPending(w)
  PROVE  PipelineInv'
<1>0. PICK j \in Created, r \in JobRow : \E q :
           /\ job' = [job EXCEPT ![j] = r] /\ wk' = [wk EXCEPT ![w] = q]
           /\ IsWorker(q) /\ q.j = j /\ q.mem = r /\ q.target = TargetOf(r.status)
           /\ r.synced = job[j].synced /\ r.steps = job[j].steps
           /\ IF job[j].status \in Terminal
              THEN r.status = job[j].status /\ q.at = SyncFrom(r.status)
              ELSE r.status = "running" /\ q.at \in {"fail", "start"}
  BY ClaimIs
<1>1. PICK q :
           /\ job' = [job EXCEPT ![j] = r] /\ wk' = [wk EXCEPT ![w] = q]
           /\ IsWorker(q) /\ q.j = j /\ q.mem = r /\ q.target = TargetOf(r.status)
           /\ r.synced = job[j].synced /\ r.steps = job[j].steps
           /\ IF job[j].status \in Terminal
              THEN r.status = job[j].status /\ q.at = SyncFrom(r.status)
              ELSE r.status = "running" /\ q.at \in {"fail", "start"}
  BY <1>0
<1>2. UNCHANGED <<setting, order, sub, exec, facts, checker>>
  BY DEF ClaimNextPending
<1>3. /\ j \in Jobs /\ sub[j] \in SubStatus \ {"none"} /\ sub' = [sub EXCEPT ![j] = sub[j]]
      /\ job'[j] = r /\ sub'[j] = sub[j]
  BY <1>1, <1>2 DEF Created, PipelineInv, Types
<1>4. Decided(q)'
  <2>1. q.at = "check" => Good(q)
    BY <1>1 DEF SyncFrom, TargetOf, Good, Terminal
  <2>2. q.at = "notify" => Bad(q)
    BY <1>1 DEF SyncFrom, TargetOf, Bad, Terminal
  <2>3. q.at \notin {"write", "save"}
    BY <1>1 DEF SyncFrom
  <2> QED
    BY <2>1, <2>2, <2>3 DEF Decided
<1>5. Loaded(q)'
  BY <1>1, <1>3 DEF Loaded, SyncFrom
<1>6. Marked(j)' /\ (Alone => JobFits(j))'
  BY <1>1, <1>2, <1>3 DEF PipelineInv, Marked, JobFits, Synced, Alone, Terminal
<1> QED
  BY <1>1, <1>2, <1>3, <1>4, <1>5, <1>6, JobWrites

\* A failure is recorded.
LEMMA FailWriteIs ==
  ASSUME PipelineInv, UNCHANGED setting, NEW w \in Workers, FailWrite(w)
  PROVE  /\ wk[w].j \in Jobs /\ wk' = [wk EXCEPT ![w] = AtRest]
         /\ \/ UNCHANGED job
            \/ \E r \in JobRow :
                 /\ job' = [job EXCEPT ![wk[w].j] = r]
                 /\ r.status \in {wk[w].row.status, "failed", "pending"}
                 /\ wk[w].row.status # "running" => r.status = wk[w].row.status
                 /\ r.synced = wk[w].row.synced /\ r.steps = job[wk[w].j].steps
<1>1. wk[w].at = "failing"
  BY DEF FailWrite
<1>2. wk[w].j \in Jobs /\ IsWorker(wk[w])
  BY <1>1, AtWork
<1>3. PICK j, row : j = wk[w].j /\ row = wk[w].row
  OBVIOUS
<1>4. j \in Jobs /\ row \in JobRow /\ job[j] \in JobRow
  BY <1>2, <1>3 DEF IsWorker, PipelineInv, Types
<1>5. PICK st, steps : st = AfterFailure(row) /\ steps = job[j].steps
  OBVIOUS
<1>6. st \in {row.status, "failed", "pending"} /\ (row.status # "running" => st = row.status)
  BY <1>5 DEF AfterFailure
<1>7. PICK r : r = [row EXCEPT !.status = st, !.claimed = FALSE, !.steps = steps]
  OBVIOUS
<1>8. st \in {"pending", "running"} \cup Terminal
  BY <1>4, <1>6 DEF JobRow, Terminal
<1>9. r \in JobRow /\ r.status = st /\ r.synced = row.synced /\ r.steps = steps
  BY <1>4, <1>5, <1>7, <1>8 DEF JobRow
<1>10. UNCHANGED job \/ job' = [job EXCEPT ![j] = r]
  BY <1>3, <1>5, <1>7 DEF FailWrite
<1>11. wk' = [wk EXCEPT ![w] = AtRest]
  BY DEF FailWrite
<1> QED
  BY <1>2, <1>3, <1>5, <1>6, <1>9, <1>10, <1>11

\* What recordFailure writes back is what it loaded, unless the job is running.
LEMMA FailWriteStep ==
  ASSUME PipelineInv, UNCHANGED setting, NEW w \in Workers, FailWrite(w)
  PROVE  PipelineInv'
<1>1. wk[w].at = "failing" /\ UNCHANGED <<setting, order, sub, exec, facts, checker>>
  BY DEF FailWrite
<1>2. /\ w \in setting.run /\ wk[w].j \in Created /\ wk[w].j \in Jobs
      /\ (Alone => Loaded(wk[w])) /\ wk' = [wk EXCEPT ![w] = AtRest]
  BY <1>1, AtWork, FailWriteIs
<1>3. CASE UNCHANGED job
  BY <1>1, <1>2, <1>3, RestStep
<1>4. CASE \E r \in JobRow :
             /\ job' = [job EXCEPT ![wk[w].j] = r]
             /\ r.status \in {wk[w].row.status, "failed", "pending"}
             /\ wk[w].row.status # "running" => r.status = wk[w].row.status
             /\ r.synced = wk[w].row.synced /\ r.steps = job[wk[w].j].steps
  <2>1. PICK j : j = wk[w].j
    OBVIOUS
  <2>2. PICK r \in JobRow :
             /\ job' = [job EXCEPT ![j] = r]
             /\ r.status \in {wk[w].row.status, "failed", "pending"}
             /\ wk[w].row.status # "running" => r.status = wk[w].row.status
             /\ r.synced = wk[w].row.synced /\ r.steps = job[j].steps
    BY <1>4, <2>1
  <2>3. /\ j \in Created /\ j \in Jobs /\ sub[j] \in SubStatus \ {"none"}
        /\ sub' = [sub EXCEPT ![j] = sub[j]] /\ job'[j] = r /\ sub'[j] = sub[j]
    BY <1>1, <1>2, <2>1, <2>2 DEF Created, PipelineInv, Types
  <2>4. PICK q : q = AtRest
    OBVIOUS
  <2>5. IsWorker(q) /\ q.at = "idle" /\ Decided(q)' /\ Loaded(q)'
    BY <2>4, RestIsIdle, IdleFits
  <2>6. Marked(j)'
    BY <1>1, <2>3 DEF PipelineInv, Marked
  <2>7. (Alone => JobFits(j))'
    <3> SUFFICES ASSUME Alone PROVE JobFits(j)'
      BY <1>1 DEF Alone
    <3>1. JobFits(j) /\ wk[w].row.status = job[j].status /\ r.synced = job[j].synced
      BY <1>1, <1>2, <2>1, <2>2, <2>3 DEF PipelineInv, Loaded, Same
    <3>2. job[j].status # "running" => r.status = job[j].status
      BY <2>2, <3>1
    <3>3. r.status = "succeeded" => job[j].status = "succeeded"
      BY <2>2, <3>1
    <3> QED
      BY <1>1, <2>2, <2>3, <3>1, <3>2, <3>3 DEF JobFits, Synced
  <2> QED
    BY <1>1, <1>2, <2>2, <2>3, <2>4, <2>5, <2>6, <2>7, JobWrites
<1> QED
  BY <1>3, <1>4, FailWriteIs

\* The submission and the job get the verdict.
LEMMA SyncSaveIs ==
  ASSUME PipelineInv, UNCHANGED setting, NEW w \in Workers, SyncSave(w)
  PROVE  \E r \in JobRow :
           /\ job' = [job EXCEPT ![wk[w].j] = r] /\ sub' = [sub EXCEPT ![wk[w].j] = wk[w].target]
           /\ r.status = wk[w].mem.status /\ r.synced /\ r.steps = job[wk[w].j].steps
           /\ \/ Good(wk[w]) /\ exec[wk[w].j] \in AfterReview
              \/ Bad(wk[w]) /\ exec[wk[w].j] = "validation_failed"
           /\ wk[w].at = "save" /\ wk[w].j \in Jobs /\ wk[w].j \in Created /\ w \in setting.run
           /\ Alone => Loaded(wk[w])
<1>1. wk[w].at = "save"
  BY DEF SyncSave
<1>2. /\ w \in setting.run /\ wk[w].j \in Created /\ wk[w].j \in Jobs /\ IsWorker(wk[w])
      /\ Alone => Loaded(wk[w])
      /\ \/ Good(wk[w]) /\ exec[wk[w].j] \in AfterReview
         \/ Bad(wk[w]) /\ exec[wk[w].j] = "validation_failed"
  BY <1>1, AtWork DEF Decided
<1>3. PICK j, st : j = wk[w].j /\ st = wk[w].mem.status
  OBVIOUS
<1>4. job[j] \in JobRow /\ st \in Terminal /\ job = [k \in Jobs |-> job[k]]
  BY <1>2, <1>3 DEF PipelineInv, Types, Good, Bad, Terminal
<1>5. PICK r : r = [job[j] EXCEPT !.status = st, !.synced = TRUE, !.claimed = FALSE]
  OBVIOUS
<1>6. r \in JobRow /\ r.status = st /\ r.synced /\ r.steps = job[j].steps
  BY <1>4, <1>5 DEF JobRow
<1>7. job' = [job EXCEPT ![j].status = st, ![j].synced = TRUE, ![j].claimed = FALSE]
  BY <1>3 DEF SyncSave
<1>8. job' = [job EXCEPT ![j] = r]
  BY <1>2, <1>3, <1>4, <1>5, <1>7
<1>9. sub' = [sub EXCEPT ![j] = wk[w].target]
  BY <1>3 DEF SyncSave
<1> QED
  BY <1>1, <1>2, <1>3, <1>6, <1>8, <1>9

\* What syncTerminalState saves is what the execution was told.
LEMMA SyncSaveStep ==
  ASSUME PipelineInv, UNCHANGED setting, NEW w \in Workers, SyncSave(w)
  PROVE  PipelineInv'
<1>1. PICK j, t : j = wk[w].j /\ t = wk[w].target
  OBVIOUS
<1>2. PICK r \in JobRow :
        /\ job' = [job EXCEPT ![j] = r] /\ sub' = [sub EXCEPT ![j] = t]
        /\ r.status = wk[w].mem.status /\ r.synced /\ r.steps = job[j].steps
        /\ \/ Good(wk[w]) /\ exec[j] \in AfterReview
           \/ Bad(wk[w]) /\ exec[j] = "validation_failed"
        /\ wk[w].at = "save" /\ j \in Jobs /\ j \in Created /\ w \in setting.run
        /\ Alone => Loaded(wk[w])
  BY <1>1, SyncSaveIs
<1>3. UNCHANGED <<setting, order, exec, facts, checker>> /\ Go(w, "facts")
  BY DEF SyncSave
<1>4. PICK q : /\ wk' = [wk EXCEPT ![w] = q] /\ IsWorker(q) /\ q.at = "facts" /\ q.j = j
  BY <1>1, <1>3, Goes DEF Places
<1>5. /\ t \in SubStatus \ {"none"}
      /\ \/ r.status = "succeeded" /\ t = "validated" /\ exec[j] \in AfterReview
         \/ r.status = "failed" /\ t \in {"validation_failed", "invalid"} /\ exec[j] = "validation_failed"
  BY <1>1, <1>2 DEF Good, Bad, SubStatus
<1>6. job'[j] = r /\ sub'[j] = t
  BY <1>2 DEF PipelineInv, Types
<1>7. Decided(q)' /\ Loaded(q)' /\ Marked(j)'
  BY <1>2, <1>3, <1>4, <1>5, <1>6 DEF Decided, Loaded, Marked
<1>8. (Alone => JobFits(j))'
  <2> SUFFICES ASSUME Alone PROVE JobFits(j)'
    BY <1>3 DEF Alone
  <2>1. r.status = "succeeded" => job[j].status = "succeeded"
    BY <1>1, <1>2, <1>5 DEF Loaded
  <2>2. JobFits(j)
    BY <1>2 DEF PipelineInv
  <2> QED
    BY <1>2, <1>3, <1>5, <1>6, <2>1, <2>2 DEF JobFits, Synced
<1> QED
  BY <1>2, <1>3, <1>4, <1>5, <1>7, <1>8, JobWrites

-----------------------------------------------------------------------------
(* The rest of the steps.                                                    *)

\* A claim lapses.
LEMMA LapseStep ==
  ASSUME PipelineInv, UNCHANGED setting, NEW j \in Jobs, Lapse(j)
  PROVE  PipelineInv'
<1>1. PICK r : r = [job[j] EXCEPT !.claimed = FALSE]
  OBVIOUS
<1>2. /\ job[j] \in JobRow /\ job[j].claimed /\ job = [k \in Jobs |-> job[k]]
      /\ job' = [job EXCEPT ![j].claimed = FALSE]
      /\ UNCHANGED <<setting, order, sub, exec, facts, checker, wk>>
  BY DEF Lapse, PipelineInv, Types
<1>3. r \in JobRow /\ Same(r, job[j])
  BY <1>1, <1>2 DEF JobRow, Same
<1>4. job' = [job EXCEPT ![j] = r]
  BY <1>1, <1>2
<1>5. job'[j] = r /\ (\A k \in Jobs \ {j} : job'[k] = job[k]) /\ job' \in [Jobs -> JobRow]
  BY <1>3, <1>4 DEF PipelineInv, Types
<1>6. \A k \in Jobs : Same(job'[k], job[k])
  BY <1>3, <1>5 DEF Same
<1>7. Created' = Created
  BY <1>2 DEF Created
<1>8. Types'
  BY <1>2, <1>5 DEF PipelineInv, Types
<1>9. Submitted'
  <2>1. j \in Created
    BY <1>2 DEF PipelineInv, Submitted, NewValidationJob, Created
  <2> QED
    BY <1>2, <1>5, <1>7, <2>1 DEF PipelineInv, Submitted, Created
<1>10. ASSUME NEW k \in Jobs PROVE Marked(k)' /\ (Alone => JobFits(k))'
  BY <1>2, <1>6 DEF PipelineInv, Marked, JobFits, Synced, Same, Alone
<1>11. ASSUME NEW v \in Workers PROVE WorkerFits(v)'
  <2>1. PICK q : q = wk[v]
    OBVIOUS
  <2>2. /\ IsWorker(q) /\ q.j \in Jobs /\ Decided(q) /\ (Alone => Loaded(q))
        /\ q.at # "idle" => q.j \in Created /\ v \in setting.run
    BY <2>1 DEF PipelineInv, WorkerFits, IsWorker
  <2>3. Decided(q)'
    BY <1>2, <2>2 DEF Decided
  <2>4. (Alone => Loaded(q))'
    BY <1>2, <1>6, <2>2 DEF Loaded, Same, Alone
  <2> QED
    BY <1>2, <1>7, <2>1, <2>2, <2>3, <2>4 DEF WorkerFits
<1> QED
  BY <1>8, <1>9, <1>10, <1>11 DEF PipelineInv

\* A submission comes into being, or is found to be worth nothing.
LEMMA SubWrites ==
  ASSUME PipelineInv, NEW j \in Jobs, NEW t \in {"pending_verification", "invalid"},
         UNCHANGED <<setting, job, exec, facts, wk>>, checker' \subseteq checker,
         sub' = [sub EXCEPT ![j] = t],
         t = "pending_verification" => sub[j] = "none",
         order' \in Seq(Jobs), \A i \in DOMAIN order' : order'[i] \in Created \cup {j}
  PROVE  PipelineInv'
<1>1. /\ t \in SubStatus \ {"none"} /\ sub' \in [Jobs -> SubStatus] /\ sub'[j] = t
      /\ \A k \in Jobs \ {j} : sub'[k] = sub[k]
  BY DEF PipelineInv, Types, SubStatus
<1>2. Created' = Created \cup {j}
  BY <1>1 DEF Created
<1>3. Types'
  BY <1>1 DEF PipelineInv, Types
<1>4. Submitted'
  BY <1>1, <1>2 DEF PipelineInv, Submitted
<1>5. ASSUME NEW k \in Jobs PROVE Marked(k)' /\ (Alone => JobFits(k))'
  <2>1. CASE k # j
    BY <1>1, <2>1 DEF PipelineInv, Marked, JobFits, Synced, Alone
  <2>2. CASE k = j
    <3>1. Marked(j)'
      BY <1>1 DEF Marked
    <3>2. CASE t = "pending_verification"
      <4>1. job[j] = NewValidationJob /\ j \notin facts
        BY <3>2 DEF PipelineInv, Submitted, Created
      <4>2. job'[j].status = "pending" /\ ~ job'[j].synced /\ j \notin facts' /\ sub'[j] = t
        BY <1>1, <4>1 DEF NewValidationJob
      <4>3. JobFits(j)'
        BY <3>2, <4>2 DEF JobFits
      <4> QED
        BY <2>2, <3>1, <4>3
    <3>3. CASE t = "invalid"
      BY <1>1, <2>2, <3>1, <3>3 DEF PipelineInv, JobFits, Synced, Alone
    <3> QED
      BY <3>2, <3>3
  <2> QED
    BY <2>1, <2>2
<1>6. ASSUME NEW v \in Workers PROVE WorkerFits(v)'
  <2>1. PICK q : q = wk[v]
    OBVIOUS
  <2>2. /\ IsWorker(q) /\ Decided(q) /\ (Alone => Loaded(q))
        /\ q.at # "idle" => q.j \in Created /\ v \in setting.run
    BY <2>1 DEF PipelineInv, WorkerFits
  <2>3. Decided(q)' /\ (Alone => Loaded(q))'
    BY <2>2 DEF Decided, Loaded, Alone
  <2> QED
    BY <1>2, <2>1, <2>2, <2>3 DEF WorkerFits
<1> QED
  BY <1>3, <1>4, <1>5, <1>6 DEF PipelineInv

\* CreateSubmission
LEMMA CreateSubmissionStep ==
  ASSUME PipelineInv, UNCHANGED setting, NEW j \in Jobs, CreateSubmission(j)
  PROVE  PipelineInv' /\ UNCHANGED job
<1>1. /\ sub[j] = "none" /\ sub' = [sub EXCEPT ![j] = "pending_verification"]
      /\ job' = [job EXCEPT ![j] = NewValidationJob] /\ order' = Append(order, j)
      /\ UNCHANGED <<setting, exec, facts, checker, wk>>
  BY DEF CreateSubmission, NewSubmission
<1>2. job' = job
  BY <1>1 DEF PipelineInv, Types, Submitted
<1>3. order \in Seq(Jobs) /\ \A i \in DOMAIN order : order[i] \in Created
  BY DEF PipelineInv, Types, Submitted
<1>4. order' \in Seq(Jobs) /\ \A i \in DOMAIN order' : order'[i] \in Created \cup {j}
  BY <1>1, <1>3
<1> QED
  BY <1>1, <1>2, <1>4, SubWrites

\* A reviewer's check invalidates the submission.
LEMMA ReviewerInvalidatesStep ==
  ASSUME PipelineInv, UNCHANGED setting, NEW j \in Jobs, ReviewerInvalidates(j)
  PROVE  PipelineInv'
<1>1. /\ sub' = [sub EXCEPT ![j] = "invalid"] /\ checker' \subseteq checker
      /\ UNCHANGED <<setting, order, job, exec, facts, wk>>
  BY DEF ReviewerInvalidates
<1>2. order' \in Seq(Jobs) /\ \A i \in DOMAIN order' : order'[i] \in Created \cup {j}
  BY <1>1 DEF PipelineInv, Types, Submitted
<1> QED
  BY <1>1, <1>2, SubWrites

\* A reviewer's check begins.
LEMMA ReviewerChecksStep ==
  ASSUME PipelineInv, UNCHANGED setting, NEW j \in Jobs, ReviewerChecks(j)
  PROVE  PipelineInv'
<1>1. /\ UNCHANGED <<setting, order, job, sub, exec, facts, wk>>
      /\ sub[j] = "pending_verification" /\ checker' = checker \cup {j}
  BY DEF ReviewerChecks
<1>2. checker' \subseteq Created /\ facts' \subseteq Created
  BY <1>1 DEF PipelineInv, Submitted, Created
<1>3. exec' \in [Jobs -> ExecStatus] /\ Stays /\ wk' = [v \in Workers |-> wk'[v]]
  BY <1>1 DEF PipelineInv, Types, Stays
<1> QED
  BY <1>1, <1>2, <1>3, Moves

\* The execution moves by itself.
LEMMA ExecStep ==
  ASSUME PipelineInv, UNCHANGED <<setting, order, job, sub, facts, checker, wk>>, NEW j \in Jobs,
         exec[j] # "validation_failed",
         NEW to \in ExecStatus, exec[j] \in AfterReview => to \in AfterReview,
         exec' = [exec EXCEPT ![j] = to]
  PROVE  PipelineInv'
<1>1. exec' \in [Jobs -> ExecStatus] /\ Stays
  BY DEF PipelineInv, Types, Stays
<1>2. facts' \subseteq Created /\ checker' \subseteq Created /\ wk' = [v \in Workers |-> wk'[v]]
  BY DEF PipelineInv, Submitted, Types
<1> QED
  BY <1>1, <1>2, Moves

\* None of its moves takes a verdict back.
LEMMA ExecMovesStep ==
  ASSUME PipelineInv, UNCHANGED setting, NEW j \in Jobs,
         \/ NotifySubmit(j) \/ Cancel(j) \/ Expire(j)
         \/ (\E to \in Reviewed : Decide(j, to)) \/ SubmitForReview(j)
  PROVE  PipelineInv'
<1>1. \E to : /\ UNCHANGED <<order, job, sub, facts, checker, wk>>
              /\ exec[j] # "validation_failed" /\ to \in ExecStatus
              /\ exec[j] \in AfterReview => to \in AfterReview
              /\ exec' = [exec EXCEPT ![j] = to]
  <2>1. CASE NotifySubmit(j)
    <3>1. UNCHANGED <<order, job, sub, facts, checker, wk>>
      BY <2>1 DEF NotifySubmit
    <3>2. exec[j] = "running" /\ exec' = [exec EXCEPT ![j] = "submitted"]
      BY <2>1 DEF NotifySubmit, From, To
    <3> QED
      BY <3>1, <3>2 DEF ExecStatus, AfterReview, Reviewed
  <2>2. CASE Cancel(j)
    BY <2>2 DEF Cancel, ExecMoves, ExecStatus, AfterReview
  <2>3. CASE Expire(j)
    BY <2>3 DEF Expire, ExecMoves, ExecStatus, AfterReview, Reviewed
  <2>4. CASE \E to \in Reviewed : Decide(j, to)
    BY <2>4 DEF Decide, ExecMoves, ExecStatus, AfterReview
  <2>5. CASE SubmitForReview(j)
    BY <2>5 DEF SubmitForReview, ExecMoves, ExecStatus, AfterReview
  <2> QED
    BY <2>1, <2>2, <2>3, <2>4, <2>5
<1>2. PICK to : /\ UNCHANGED <<order, job, sub, facts, checker, wk>>
                /\ exec[j] # "validation_failed" /\ to \in ExecStatus
                /\ exec[j] \in AfterReview => to \in AfterReview
                /\ exec' = [exec EXCEPT ![j] = to]
  BY <1>1
<1> QED
  BY <1>2, ExecStep

-----------------------------------------------------------------------------
(* A verdict that is out stands.                                             *)

\* What a step does to the verdicts: VerdictIsFinal and VerdictsDoNotCross.
Kept ==
  /\ Alone => \A j \in Jobs : job[j].status \in Terminal =>
       /\ \/ job'[j].status = job[j].status
          \/ job'[j].status = "failed" /\ sub'[j] = "invalid"
       /\ job[j].synced => job'[j].synced
  /\ \A j \in Jobs :
       /\ sub[j] = "validated" =>
            \/ sub'[j] = "validated"
            \/ sub'[j] = "invalid" /\ j \in checker /\ j \notin checker'
       /\ sub[j] = "validation_failed" => sub'[j] \in {"validation_failed", "invalid"}

\* The worker's claim leaves it alone,
LEMMA ClaimKeeps ==
  ASSUME PipelineInv, UNCHANGED setting, NEW w \in Workers, ClaimNextPending(w) PROVE Kept
<1>1. PICK j \in Created, r \in JobRow :
           /\ job' = [job EXCEPT ![j] = r] /\ r.synced = job[j].synced
           /\ job[j].status \in Terminal => r.status = job[j].status
  BY ClaimIs
<1>2. j \in Jobs /\ job'[j] = r /\ \A k \in Jobs \ {j} : job'[k] = job[k]
  BY <1>1 DEF Created, PipelineInv, Types
<1>3. UNCHANGED sub
  BY DEF ClaimNextPending
<1> QED
  BY <1>1, <1>2, <1>3 DEF Kept

\* and a step of a job that has none yet,
LEMMA CommitKeeps ==
  ASSUME PipelineInv, NEW w \in Workers, NEW r \in Results, StepCommit(w, r) PROVE Kept
<1>1. wk[w].at = "locked" /\ UNCHANGED sub
  BY DEF StepCommit
<1>2. wk[w].j \in Jobs /\ (Alone => Loaded(wk[w]))
  BY <1>1, AtWork
<1>3. PICK j : j = wk[w].j
  OBVIOUS
<1>4. \E n : job' = [job EXCEPT ![j] = n]
  BY <1>3 DEF StepCommit
<1>5. PICK n : job' = [job EXCEPT ![j] = n]
  BY <1>4
<1>6. \A k \in Jobs \ {j} : job'[k] = job[k]
  BY <1>5 DEF PipelineInv, Types
<1>7. Alone => job[j].status = "running"
  BY <1>1, <1>2, <1>3 DEF Loaded, Same
<1> QED
  BY <1>1, <1>6, <1>7 DEF Kept, Terminal

\* a failure that is recorded keeps the status that it finds,
LEMMA FailureKeeps ==
  ASSUME PipelineInv, UNCHANGED setting, NEW w \in Workers, FailWrite(w) PROVE Kept
<1>1. wk[w].at = "failing" /\ UNCHANGED sub
  BY DEF FailWrite
<1>2. wk[w].j \in Jobs /\ (Alone => Loaded(wk[w]))
  BY <1>1, AtWork
<1>3. PICK j : j = wk[w].j
  OBVIOUS
<1>4. Alone => Same(wk[w].row, job[j])
  BY <1>1, <1>2, <1>3 DEF Loaded
<1>5. CASE UNCHANGED job
  BY <1>1, <1>5 DEF Kept
<1>6. CASE \E r \in JobRow : /\ job' = [job EXCEPT ![j] = r]
                             /\ wk[w].row.status # "running" => r.status = wk[w].row.status
                             /\ r.synced = wk[w].row.synced
  <2>1. PICK r \in JobRow : /\ job' = [job EXCEPT ![j] = r]
                            /\ wk[w].row.status # "running" => r.status = wk[w].row.status
                            /\ r.synced = wk[w].row.synced
    BY <1>6
  <2>2. job'[j] = r /\ \A k \in Jobs \ {j} : job'[k] = job[k]
    BY <1>2, <1>3, <2>1 DEF PipelineInv, Types
  <2>3. Alone /\ job[j].status \in Terminal => r.status = job[j].status /\ r.synced = job[j].synced
    BY <1>4, <2>1 DEF Same, Terminal
  <2> QED
    BY <1>1, <2>2, <2>3 DEF Kept
<1> QED
  BY <1>3, <1>5, <1>6, FailWriteIs

\* and a verdict is only written where there is no other: the execution has
\* taken the first.
LEMMA SaveKeeps ==
  ASSUME PipelineInv, UNCHANGED setting, NEW w \in Workers, SyncSave(w) PROVE Kept
<1>1. PICK j, t : j = wk[w].j /\ t = wk[w].target
  OBVIOUS
<1>2. PICK r \in JobRow :
        /\ job' = [job EXCEPT ![j] = r] /\ sub' = [sub EXCEPT ![j] = t]
        /\ r.status = wk[w].mem.status /\ r.synced
        /\ \/ Good(wk[w]) /\ exec[j] \in AfterReview
           \/ Bad(wk[w]) /\ exec[j] = "validation_failed"
        /\ wk[w].at = "save" /\ j \in Jobs
        /\ Alone => Loaded(wk[w])
  BY <1>1, SyncSaveIs
<1>3. /\ job'[j] = r /\ \A k \in Jobs \ {j} : job'[k] = job[k]
      /\ sub'[j] = t /\ \A k \in Jobs \ {j} : sub'[k] = sub[k]
  BY <1>2 DEF PipelineInv, Types
<1>4. Alone => (r.status = job[j].status \/ (r.status = "failed" /\ t = "invalid"))
  BY <1>1, <1>2 DEF Loaded, Good, Bad
<1>5. /\ sub[j] = "validated" => t = "validated"
      /\ sub[j] = "validation_failed" => t \in {"validation_failed", "invalid"}
  <2>1. Marked(j)
    BY <1>2 DEF PipelineInv
  <2>2. "validation_failed" \notin AfterReview
    BY DEF AfterReview, Reviewed
  <2> QED
    BY <1>1, <1>2, <2>1, <2>2 DEF Marked, Good, Bad
<1> QED
  BY <1>2, <1>3, <1>4, <1>5 DEF Kept

\* Steps that write neither.
LEMMA OthersKeep == ASSUME UNCHANGED <<job, sub>> PROVE Kept
BY DEF Kept

-----------------------------------------------------------------------------
(* The theorems.                                                             *)

\* Nothing has been submitted.
LEMMA PipelineInit == Init => PipelineInv
<1> SUFFICES ASSUME Init PROVE PipelineInv
  OBVIOUS
<1>1. NewValidationJob \in JobRow
  BY PipelineAssumption DEF NewValidationJob, JobRow
<1>2. Types
  BY <1>1 DEF Init, Types, SubStatus, ExecStatus
<1>3. Submitted
  BY DEF Init, Submitted
<1>4. ASSUME NEW j \in Jobs PROVE Marked(j) /\ JobFits(j)
  BY DEF Init, Marked, JobFits, NewValidationJob
<1>5. ASSUME NEW w \in Workers PROVE WorkerFits(w)
  <2>1. wk[w] = AtRest
    BY DEF Init
  <2> QED
    BY <2>1, RestIsIdle, IdleFits DEF WorkerFits
<1> QED
  BY <1>2, <1>3, <1>4, <1>5 DEF PipelineInv

\* What a worker does.
LEMMA WorkStep ==
  ASSUME PipelineInv, UNCHANGED setting, NEW w \in Workers, w \in setting.run,
         Work(w) \/ CallFails(w) \/ Crash(w)
  PROVE  PipelineInv' /\ Kept
<1>1. CASE ClaimNextPending(w)
  BY <1>1, ClaimNextPendingStep, ClaimKeeps
<1>2. CASE StartValidation(w)
  BY <1>2, StartValidationStep, OthersKeep DEF StartValidation
<1>3. CASE StepRead(w)
  BY <1>3, StepReadStep, OthersKeep DEF StepRead
<1>4. CASE StepLock(w)
  BY <1>4, StepLockStep, OthersKeep DEF StepLock
<1>5. CASE \E r \in Results : StepCommit(w, r)
  BY <1>5, StepCommitStep, CommitKeeps
<1>6. CASE ProcessEnds(w)
  BY <1>6, RestStep, OthersKeep DEF ProcessEnds
<1>7. CASE FailRead(w)
  BY <1>7, FailReadStep, OthersKeep DEF FailRead
<1>8. CASE FailWrite(w)
  BY <1>8, FailWriteStep, FailureKeeps
<1>9. CASE \E ok \in BOOLEAN : CheckIntegrity(w, ok)
  <2>1. PICK ok \in BOOLEAN : CheckIntegrity(w, ok)
    BY <1>9
  <2> QED
    BY <2>1, CheckIntegrityStep, OthersKeep DEF CheckIntegrity
<1>10. CASE SyncNotify(w)
  BY <1>10, SyncNotifyStep, OthersKeep DEF SyncNotify
<1>11. CASE SyncRead(w)
  BY <1>11, SyncReadStep, OthersKeep DEF SyncRead
<1>12. CASE SyncSave(w)
  BY <1>12, SyncSaveStep, SaveKeeps
<1>13. CASE RecordFacts(w)
  BY <1>13, RecordFactsStep, OthersKeep DEF RecordFacts
<1>14. CASE CallFails(w)
  <2>1. /\ wk[w].at # "idle" /\ Go(w, "fail")
        /\ UNCHANGED <<order, job, sub, exec, facts, checker>>
    BY <1>14 DEF CallFails
  <2> QED
    BY <2>1, WorkerGoes, OthersKeep
<1>15. CASE Crash(w)
  BY <1>15, RestStep, OthersKeep DEF Crash
<1> QED
  BY <1>1, <1>2, <1>3, <1>4, <1>5, <1>6, <1>7, <1>8, <1>9, <1>10, <1>11, <1>12, <1>13, <1>14,
     <1>15 DEF Work

\* What the rest of the system does.
LEMMA RestOfStep ==
  ASSUME PipelineInv, UNCHANGED setting, NEW j \in Jobs,
         \/ CreateSubmission(j) \/ NotifySubmit(j) \/ Lapse(j) \/ Cancel(j) \/ Expire(j)
         \/ (\E to \in Reviewed : Decide(j, to)) \/ SubmitForReview(j)
         \/ ReviewerChecks(j) \/ ReviewerInvalidates(j)
  PROVE  PipelineInv' /\ Kept
<1>1. CASE CreateSubmission(j)
  <2>1. UNCHANGED job /\ sub[j] = "none" /\ PipelineInv'
    BY <1>1, CreateSubmissionStep DEF CreateSubmission
  <2>2. \A k \in Jobs \ {j} : sub'[k] = sub[k]
    BY <1>1 DEF CreateSubmission, PipelineInv, Types
  <2> QED
    BY <2>1, <2>2 DEF Kept
<1>2. CASE Lapse(j)
  <2>1. PipelineInv'
    BY <1>2, LapseStep
  <2>2. UNCHANGED sub /\ job' = [job EXCEPT ![j].claimed = FALSE]
    BY <1>2 DEF Lapse
  <2>3. job \in [Jobs -> JobRow]
    BY DEF PipelineInv, Types
  <2>4. \A k \in Jobs : job'[k].status = job[k].status /\ job'[k].synced = job[k].synced
    BY <2>2, <2>3 DEF JobRow
  <2> QED
    BY <2>1, <2>2, <2>4 DEF Kept
<1>3. CASE ReviewerInvalidates(j)
  <2>1. PipelineInv'
    BY <1>3, ReviewerInvalidatesStep
  <2>2. /\ UNCHANGED job /\ sub' = [sub EXCEPT ![j] = "invalid"] /\ sub \in [Jobs -> SubStatus]
        /\ j \in checker /\ j \notin checker'
    BY <1>3 DEF ReviewerInvalidates, PipelineInv, Types
  <2> QED
    BY <2>1, <2>2 DEF Kept
<1>4. CASE ReviewerChecks(j)
  BY <1>4, ReviewerChecksStep, OthersKeep DEF ReviewerChecks
<1>5. CASE \/ NotifySubmit(j) \/ Cancel(j) \/ Expire(j)
           \/ (\E to \in Reviewed : Decide(j, to)) \/ SubmitForReview(j)
  <2>1. PipelineInv'
    BY <1>5, ExecMovesStep
  <2>2. UNCHANGED <<job, sub>>
    BY <1>5 DEF NotifySubmit, Cancel, Expire, Decide, SubmitForReview, ExecMoves
  <2> QED
    BY <2>1, <2>2, OthersKeep
<1> QED
  BY <1>1, <1>2, <1>3, <1>4, <1>5

\* Every step.
LEMMA PipelineStep ==
  ASSUME PipelineInv, [Next]_vars PROVE PipelineInv' /\ Kept
<1>1. CASE UNCHANGED vars
  <2>1. UNCHANGED <<setting, order, job, sub, exec, facts, checker, wk>>
    BY <1>1 DEF vars
  <2>2. exec' \in [Jobs -> ExecStatus] /\ Stays /\ facts' \subseteq Created /\ checker' \subseteq Created
    BY <2>1 DEF PipelineInv, Types, Submitted, Stays
  <2>3. wk' = [v \in Workers |-> wk'[v]]
    BY <2>1 DEF PipelineInv, Types
  <2> QED
    BY <2>1, <2>2, <2>3, Moves, OthersKeep
<1>2. CASE Next
  <2>1. UNCHANGED setting /\ setting.run \subseteq Workers
    BY <1>2, PipelineAssumption DEF Next, PipelineInv, Types
  <2>2. CASE \E j \in Jobs :
               \/ CreateSubmission(j) \/ NotifySubmit(j) \/ Lapse(j) \/ Cancel(j) \/ Expire(j)
               \/ (\E to \in Reviewed : Decide(j, to)) \/ SubmitForReview(j)
               \/ ReviewerChecks(j) \/ ReviewerInvalidates(j)
    BY <2>1, <2>2, RestOfStep
  <2>3. CASE \E w \in setting.run : Work(w) \/ CallFails(w) \/ Crash(w)
    BY <2>1, <2>3, WorkStep
  <2> QED
    BY <1>2, <2>2, <2>3 DEF Next
<1> QED
  BY <1>1, <1>2

\* The rows of the pipeline, and what its workers have in memory, fit each
\* other in every state.
THEOREM RowsFit == Spec => []PipelineInv
<1>1. PipelineInv /\ [Next]_vars => PipelineInv'
  BY PipelineStep
<1> QED
  BY <1>1, PipelineInit, PTL DEF Spec

\* What the runner found, the job's verdict, the submission and the execution
\* agree, whichever write of whichever retry was the last that got through
\* (process, syncTerminalState, recordFailure).
THEOREM OneVerdict == Spec => []VerdictsAgree
<1>1. PipelineInv => VerdictsAgree
  <2> SUFFICES ASSUME PipelineInv PROVE VerdictsAgree
    OBVIOUS
  <2>1. GateHolds
    BY DEF PipelineInv, GateHolds, JobFits
  <2>2. SyncedAgrees
    BY DEF PipelineInv, SyncedAgrees, JobFits, Synced, AfterReview
  <2> QED
    BY <2>1, <2>2 DEF VerdictsAgree
<1> QED
  BY <1>1, RowsFit, PTL

\* A verdict that is out stands: the retries of its own worker keep it, and
\* another worker's verdict does not replace it (ClaimNextPending,
\* recordFailure, syncTerminalState).  Only a reviewer's check that loaded the
\* submission before the verdict turns validated into invalid.
THEOREM VerdictsStandAlways == Spec => VerdictsStand
<1> DEFINE A == Alone => \A j \in Jobs : job[j].status \in Terminal =>
                   /\ \/ job'[j].status = job[j].status
                      \/ job'[j].status = "failed" /\ sub'[j] = "invalid"
                   /\ job[j].synced => job'[j].synced
           B == \A j \in Jobs :
                  /\ sub[j] = "validated" =>
                       \/ sub'[j] = "validated"
                       \/ sub'[j] = "invalid" /\ j \in checker /\ j \notin checker'
                  /\ sub[j] = "validation_failed" =>
                       sub'[j] \in {"validation_failed", "invalid"}
<1>1. PipelineInv /\ [Next]_vars => [A]_vars
  BY PipelineStep DEF Kept
<1>2. PipelineInv /\ [Next]_vars => [B]_vars
  BY PipelineStep DEF Kept
<1>3. Spec => [][A]_vars /\ [][B]_vars
  <2> HIDE DEF A, B
  <2> QED
    BY <1>1, <1>2, RowsFit, PTL DEF Spec
<1> QED
  BY <1>3 DEF VerdictsStand, VerdictIsFinal, VerdictsDoNotCross

=============================================================================
