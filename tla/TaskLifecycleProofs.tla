------------------------- MODULE TaskLifecycleProofs -------------------------
(***************************************************************************)
(* Proofs about TaskLifecycle: the type invariant, what a state_version    *)
(* identifies, the agreement of the task and execution tables, of the      *)
(* event log with them, the monotony of leases and of final statuses, and  *)
(* the refinement of TaskBoard, for every number of tasks, executions,     *)
(* agents, publishers and sessions.                                        *)
(***************************************************************************)
EXTENDS TaskLifecycle, TLAPS

\* A row that exists changes only together with its version.
TaskEvolves(t) ==
  task[t].status # "none" =>
    \/ task'[t] = task[t]
    \/ task'[t].ver > task[t].ver /\ task'[t].status # "none"

ExecEvolves(e) ==
  exec[e].status # "none" =>
    \/ exec'[e] = exec[e]
    \/ exec'[e].ver > exec[e].ver /\ exec'[e].status # "none"

\* Initially nothing exists and no transaction is open.
LEMMA InitIInv == Init => IInv
<1> SUFFICES ASSUME Init PROVE IInv
  OBVIOUS
<1> USE LifecycleAssumption DEF Init
<1>1. TypeOK
  BY DEF TypeOK, TaskRow, ExecRow, Txn, NoTask, NoExec, NoTxn, TaskStatus,
         ExecStatus, Ops, EventType
<1>2. VersionIdentifiesRow
  BY DEF VersionIdentifiesRow, Versioned, NoTxn
<1>3. RequestsFitRows
  BY DEF RequestsFitRows, RowsFit, RequestFits, NoTxn, NoTask, NoExec,
         LockingOps, NotifyIntents, Decisions
<1>4. TaskMatchesExecution
  BY DEF TaskMatchesExecution, NoTask
<1>5. ActiveExecutionIsBacked
  BY DEF ActiveExecutionIsBacked, NoExec, Active
<1> QED
  BY <1>1, <1>2, <1>3, <1>4, <1>5 DEF IInv

\* When rows evolve and transactions only end, what the open transactions
\* loaded stays as good as it was.
LEMMA Persist ==
  ASSUME IInv, TypeOK',
         \A t \in Tasks : TaskEvolves(t),
         \A e \in Execs : ExecEvolves(e),
         \A p \in Procs : txn'[p] = txn[p] \/ txn'[p] = NoTxn
  PROVE  VersionIdentifiesRow' /\ \A p \in Procs : RequestFits(txn[p])'
<1> SUFFICES ASSUME NEW p \in Procs
             PROVE  Versioned(txn[p])' /\ RequestFits(txn[p])'
  BY DEF VersionIdentifiesRow
<1>1. CASE txn'[p] = NoTxn
  BY <1>1 DEF Versioned, RequestFits, NoTxn, LockingOps, NotifyIntents, Decisions
<1>2. CASE txn'[p] = txn[p]
  <2> DEFINE x == txn[p]
  <2>1. x \in Txn /\ Versioned(x) /\ RequestFits(x)
    BY DEF IInv, TypeOK, VersionIdentifiesRow, RequestsFitRows
  <2>2. /\ x.tsk # None => x.tsk \in Tasks
        /\ x.exe # None => x.exe \in Execs
        /\ x.trow \in TaskRow /\ x.erow \in ExecRow
    BY <2>1 DEF Txn
  <2>3. ASSUME x.tsk # None
        PROVE  /\ x.trow.ver <= task'[x.tsk].ver
               /\ x.trow.ver = task'[x.tsk].ver => x.trow = task'[x.tsk]
               /\ task'[x.tsk].status # "none"
    <3>1. x.tsk \in Tasks /\ TaskEvolves(x.tsk)
      BY <2>2, <2>3
    <3>2. task[x.tsk] \in TaskRow /\ task'[x.tsk] \in TaskRow
      BY <3>1 DEF IInv, TypeOK
    <3>3. /\ task[x.tsk].status # "none" /\ x.trow.ver <= task[x.tsk].ver
          /\ x.trow.ver = task[x.tsk].ver => x.trow = task[x.tsk]
      BY <2>1, <2>3 DEF Versioned, RequestFits
    <3> QED
      BY <2>2, <3>1, <3>2, <3>3 DEF TaskEvolves, TaskRow
  <2>4. ASSUME x.exe # None
        PROVE  /\ x.erow.ver <= exec'[x.exe].ver
               /\ x.erow.ver = exec'[x.exe].ver => x.erow = exec'[x.exe]
               /\ exec'[x.exe].status # "none"
    <3>1. x.exe \in Execs /\ ExecEvolves(x.exe)
      BY <2>2, <2>4
    <3>2. exec[x.exe] \in ExecRow /\ exec'[x.exe] \in ExecRow
      BY <3>1 DEF IInv, TypeOK
    <3>3. /\ exec[x.exe].status # "none" /\ x.erow.ver <= exec[x.exe].ver
          /\ x.erow.ver = exec[x.exe].ver => x.erow = exec[x.exe]
      BY <2>1, <2>4 DEF Versioned, RequestFits
    <3> QED
      BY <2>2, <3>1, <3>2, <3>3 DEF ExecEvolves, ExecRow
  <2>5. Versioned(txn[p])'
    BY <1>2, <2>3, <2>4 DEF Versioned
  <2>6. RequestFits(txn[p])'
    BY <1>2, <2>1, <2>3, <2>4 DEF RequestFits
  <2> QED
    BY <2>5, <2>6
<1> QED
  BY <1>1, <1>2

-----------------------------------------------------------------------------
(* The steps that load rows.                                               *)

\* A snapshot is well typed and agrees with the rows it was taken from.
LEMMA SnapshotIsCurrent ==
  ASSUME IInv, NEW op \in Ops, NEW who \in Agents \cup Publishers \cup {None},
         NEW t \in Tasks \cup {None}, NEW e \in Execs \cup {None},
         NEW g \in Nat, NEW n \in Nat
  PROVE  LET x == Snapshot(op, who, t, e, g, n) IN
         /\ x \in Txn
         /\ Versioned(x)
         /\ x.op = op /\ x.who = who /\ x.tsk = t /\ x.exe = e
         /\ t # None => x.trow = task[t]
         /\ e # None => x.erow = exec[e]
<1>1. /\ t # None => task[t] \in TaskRow
      /\ e # None => exec[e] \in ExecRow
      /\ NoTask \in TaskRow /\ NoExec \in ExecRow
  BY DEF IInv, TypeOK, NoTask, NoExec, TaskRow, ExecRow, TaskStatus, ExecStatus
<1>2. /\ t # None => task[t].ver \in Nat
      /\ e # None => exec[e].ver \in Nat
  BY <1>1 DEF TaskRow, ExecRow
<1> QED
  BY <1>1, <1>2 DEF Snapshot, Txn, Versioned

\* Loading rows disturbs nothing when the request passed its checks.
LEMMA LoadStep ==
  ASSUME IInv, NEW p \in Procs, NEW x \in Txn, Versioned(x), RequestFits(x),
         Load(p, x)
  PROVE  IInv'
<1>1. TypeOK'
  <2>1. x.op \in LockingOps => x.exe \in Execs
    BY DEF RequestFits, Txn
  <2> QED
    BY <2>1 DEF Load, IInv, TypeOK
<1>2. VersionIdentifiesRow'
  BY DEF Load, IInv, TypeOK, VersionIdentifiesRow, Versioned
<1>3. RequestsFitRows'
  BY DEF Load, IInv, TypeOK, RequestsFitRows, RowsFit, RequestFits
<1>4. TaskMatchesExecution' /\ ActiveExecutionIsBacked'
  BY DEF Load, IInv, TaskMatchesExecution, ActiveExecutionIsBacked
<1> QED
  BY <1>1, <1>2, <1>3, <1>4 DEF IInv

\* Every reading of the clock is a number.
LEMMA TxNowIsNat == ASSUME TypeOK PROVE TxNow \subseteq Nat
  BY DEF TypeOK, TxNow

\* The commands that load a task.
LEMMA ReadTaskStep ==
  ASSUME IInv, NEW p \in Procs, ReadTask(p) PROVE IInv'
<1> USE LifecycleAssumption
<1>0. TxNow \subseteq Nat /\ clock \in Nat
  BY TxNowIsNat DEF IInv, TypeOK
<1>1. PICK t \in Tasks : task[t].status # "none" /\
        \/ \E a \in Agents, n \in TxNow : ClaimRead(p, a, t, n)
        \/ \E who \in Publishers, n \in TxNow : CancelRead(p, who, t, n)
        \/ \E n \in TxNow : CancelSystemTaskRead(p, t, n)
        \/ UpdateSystemTaskRead(p, t)
  BY DEF ReadTask
<1>2. ASSUME NEW a \in Agents, NEW n \in TxNow, ClaimRead(p, a, t, n)
      PROVE  IInv'
  <2> DEFINE x == Snapshot("claim", a, t, None, 0, n)
  <2>0. "claim" \in Ops /\ n \in Nat /\ 0 \in Nat /\ t # None
        /\ a \in Agents \cup Publishers \cup {None}
    BY <1>0 DEF Ops
  <2>1. x \in Txn /\ Versioned(x) /\ x.trow = task[t] /\ x.op = "claim"
        /\ x.tsk = t /\ x.exe = None /\ x.who = a
    BY <2>0, SnapshotIsCurrent
  <2>2. RequestFits(x)
    BY <1>1, <1>2, <2>1
    DEF RequestFits, ClaimRead, MayClaim, LockingOps, NotifyIntents, Decisions
  <2> QED
    BY <1>2, <2>1, <2>2, LoadStep DEF ClaimRead
<1>3. ASSUME NEW who \in Publishers, NEW n \in TxNow, CancelRead(p, who, t, n)
      PROVE  IInv'
  <2> DEFINE x == Snapshot("cancel", who, t, None, 0, n)
  <2>1. x \in Txn /\ Versioned(x) /\ x.trow = task[t] /\ x.op = "cancel"
        /\ x.tsk = t /\ x.exe = None
    BY <1>0, SnapshotIsCurrent DEF Ops
  <2>2. RequestFits(x)
    BY <1>1, <1>3, <2>1
    DEF RequestFits, CancelRead, MayCancel, LockingOps, NotifyIntents, Decisions
  <2> QED
    BY <1>3, <2>1, <2>2, LoadStep DEF CancelRead
<1>4. ASSUME NEW n \in TxNow, CancelSystemTaskRead(p, t, n)
      PROVE  IInv'
  <2> DEFINE x == Snapshot("cancel_system", SystemIssuePublisher, t, None, 0, n)
  <2>0. SystemIssuePublisher \in Publishers
    <3>1. task[t].pub \in Publishers \cup {None}
      BY DEF IInv, TypeOK, TaskRow
    <3> QED
      BY <1>4, <3>1 DEF CancelSystemTaskRead, MayCancel
  <2>1. x \in Txn /\ Versioned(x) /\ x.trow = task[t] /\ x.op = "cancel_system"
        /\ x.tsk = t /\ x.exe = None
    BY <1>0, <2>0, SnapshotIsCurrent DEF Ops
  <2>2. RequestFits(x)
    BY <1>1, <1>4, <2>1
    DEF RequestFits, CancelSystemTaskRead, MayCancel, LockingOps,
        NotifyIntents, Decisions
  <2> QED
    BY <1>4, <2>1, <2>2, LoadStep DEF CancelSystemTaskRead
<1>5. ASSUME UpdateSystemTaskRead(p, t) PROVE IInv'
  <2> DEFINE x == Snapshot("update_system", SystemIssuePublisher, t, None, 0, clock)
  <2>0. SystemIssuePublisher \in Publishers
    <3>1. task[t].pub \in Publishers \cup {None}
      BY DEF IInv, TypeOK, TaskRow
    <3> QED
      BY <1>5, <3>1 DEF UpdateSystemTaskRead
  <2>1. x \in Txn /\ Versioned(x) /\ x.trow = task[t] /\ x.op = "update_system"
        /\ x.tsk = t /\ x.exe = None
    BY <1>0, <2>0, SnapshotIsCurrent DEF Ops
  <2>2. RequestFits(x)
    BY <1>1, <1>5, <2>1
    DEF RequestFits, UpdateSystemTaskRead, LockingOps, NotifyIntents, Decisions
  <2> QED
    BY <1>5, <2>1, <2>2, LoadStep DEF UpdateSystemTaskRead
<1> QED
  BY <1>1, <1>2, <1>3, <1>4, <1>5

\* The commands that load an execution.
LEMMA ReadExecStep ==
  ASSUME IInv, NEW p \in Procs, ReadExec(p) PROVE IInv'
<1> USE LifecycleAssumption
<1>0. TxNow \subseteq Nat /\ clock \in Nat
  BY TxNowIsNat DEF IInv, TypeOK
<1>1. PICK e \in Execs : exec[e].status # "none" /\
        \/ \E a \in Agents, n \in TxNow :
             \/ \E g \in 1 .. MaxGen : MutateRead(p, "start", a, e, g, n)
             \/ \E g \in 1 .. MaxGen - 1 : MutateRead(p, "heartbeat", a, e, g, n)
        \/ \E i \in NotifyIntents, n \in TxNow : NotifyRead(p, i, e, n)
        \/ \E n \in TxNow : SubmitForReviewRead(p, e, n)
        \/ \E d \in Decisions : DecisionRead(p, d, e)
  BY DEF ReadExec
<1>2. exec[e].task \in Tasks /\ task[exec[e].task].status # "none"
  BY <1>1 DEF IInv, RequestsFitRows, RowsFit
<1>3. ASSUME NEW op \in {"start", "heartbeat"}, NEW a \in Agents,
             NEW n \in TxNow, NEW g \in Nat, MutateRead(p, op, a, e, g, n)
      PROVE  IInv'
  <2> DEFINE x == Snapshot(op, a, exec[e].task, e, g, n)
  <2>0. op \in Ops /\ n \in Nat /\ e # None /\ exec[e].task # None
        /\ a \in Agents \cup Publishers \cup {None}
    BY <1>0, <1>2 DEF Ops, LockingOps
  <2>1. x \in Txn /\ Versioned(x) /\ x.trow = task[exec[e].task]
        /\ x.erow = exec[e] /\ x.op = op /\ x.tsk = exec[e].task /\ x.exe = e
    BY <1>2, <2>0, SnapshotIsCurrent
  <2>2. RequestFits(x)
    BY <1>1, <1>2, <1>3, <2>1
    DEF RequestFits, MutateRead, MayMutate, MayStartTask, LockingOps,
        NotifyIntents, Decisions, Live
  <2> QED
    BY <1>3, <2>1, <2>2, LoadStep DEF MutateRead
<1>4. ASSUME NEW i \in NotifyIntents \cup {"submit_for_review"}, NEW n \in TxNow,
             MayApply(i, exec[e], n), Load(p, Snapshot(i, None, None, e, 0, n))
      PROVE  IInv'
  <2> DEFINE x == Snapshot(i, None, None, e, 0, n)
  <2>0. i \in Ops /\ n \in Nat /\ 0 \in Nat /\ e # None
        /\ None \in Agents \cup Publishers \cup {None}
    BY <1>0 DEF Ops, LockingOps
  <2>1. x \in Txn /\ Versioned(x) /\ x.erow = exec[e] /\ x.op = i
        /\ x.tsk = None /\ x.exe = e
    BY <2>0, SnapshotIsCurrent
  <2>2. RequestFits(x)
    BY <1>1, <1>4, <2>1
    DEF RequestFits, MayApply, LockingOps, NotifyIntents, Decisions
  <2> QED
    BY <1>4, <2>1, <2>2, LoadStep
<1>5. ASSUME NEW d \in Decisions, DecisionRead(p, d, e) PROVE IInv'
  <2> DEFINE t == IF d = "accepted" THEN exec[e].task ELSE None
             x == Snapshot(d, None, t, e, 0, clock)
  <2>0. t \in Tasks \cup {None} /\ d \in Ops /\ 0 \in Nat /\ e # None
        /\ None \in Agents \cup Publishers \cup {None}
    BY <1>2 DEF Ops, LockingOps
  <2>1. x \in Txn /\ Versioned(x) /\ x.erow = exec[e] /\ x.op = d
        /\ x.tsk = t /\ x.exe = e /\ (t # None => x.trow = task[t])
    BY <1>0, <2>0, SnapshotIsCurrent
  <2>2. RequestFits(x)
    BY <1>1, <1>2, <1>5, <2>1
    DEF RequestFits, DecisionRead, MayApply, LockingOps, NotifyIntents, Decisions
  <2> QED
    BY <1>5, <2>1, <2>2, LoadStep DEF DecisionRead
<1> QED
  BY <1>1, <1>3, <1>4, <1>5 DEF NotifyRead, SubmitForReviewRead

-----------------------------------------------------------------------------
(* The steps that write rows.                                              *)

\* What remains to be shown of a step that writes rows.
LEMMA WriteStep ==
  ASSUME IInv, TypeOK',
         \A t \in Tasks : TaskEvolves(t),
         \A e \in Execs : ExecEvolves(e),
         \A p \in Procs : txn'[p] = txn[p] \/ txn'[p] = NoTxn,
         RowsFit', TaskMatchesExecution', ActiveExecutionIsBacked'
  PROVE  IInv'
  BY Persist DEF IInv, RequestsFitRows

\* Closing a transaction keeps the types of txn and lock.
LEMMA CloseType ==
  ASSUME TypeOK, NEW p \in Procs, Close(p)
  PROVE  /\ txn' \in [Procs -> Txn]
         /\ lock' \in [Execs -> Procs \cup {None}]
         /\ \A q \in Procs : txn'[q] = txn[q] \/ txn'[q] = NoTxn
<1>1. NoTxn \in Txn
  BY DEF NoTxn, Txn, NoTask, NoExec, TaskRow, ExecRow, TaskStatus, ExecStatus, Ops
<1> QED
  BY <1>1 DEF TypeOK, Close

\* What a transaction that may still write knows of its rows.
LEMMA LoadedTask ==
  ASSUME IInv, NEW p \in Procs, txn[p].tsk # None, TaskUnchanged(txn[p])
  PROVE  /\ txn[p].tsk \in Tasks
         /\ txn[p].trow = task[txn[p].tsk]
         /\ task[txn[p].tsk] \in TaskRow
  BY DEF IInv, TypeOK, Txn, VersionIdentifiesRow, Versioned, TaskUnchanged

\* And of its execution.
LEMMA LoadedExec ==
  ASSUME IInv, NEW p \in Procs, txn[p].exe # None, ExecUnchanged(txn[p])
  PROVE  /\ txn[p].exe \in Execs
         /\ txn[p].erow = exec[txn[p].exe]
         /\ exec[txn[p].exe] \in ExecRow
         /\ exec[txn[p].exe].status # "none"
         /\ exec[txn[p].exe].task \in Tasks
  BY DEF IInv, TypeOK, Txn, VersionIdentifiesRow, Versioned, ExecUnchanged,
         RequestsFitRows, RequestFits, RowsFit

\* A rolled back transaction leaves no trace.
LEMMA RollbackStep ==
  ASSUME IInv, NEW p \in Procs, Rollback(p) PROVE IInv'
<1>1. TypeOK'
  BY CloseType DEF Rollback, IInv, TypeOK
<1>2. /\ \A t \in Tasks : TaskEvolves(t)
      /\ \A e \in Execs : ExecEvolves(e)
      /\ \A q \in Procs : txn'[q] = txn[q] \/ txn'[q] = NoTxn
  BY CloseType DEF Rollback, TaskEvolves, ExecEvolves, IInv
<1>3. RowsFit' /\ TaskMatchesExecution' /\ ActiveExecutionIsBacked'
  BY DEF Rollback, IInv, RequestsFitRows, RowsFit, TaskMatchesExecution,
         ActiveExecutionIsBacked
<1> QED
  BY <1>1, <1>2, <1>3, WriteStep

\* What an UPDATE of a task leaves behind.
LEMMA TaskWritten ==
  ASSUME TypeOK, NEW t \in Tasks, NEW s \in TaskStatus,
         NEW a \in Execs \cup {None}, WriteTask(t, s, a)
  PROVE  /\ task' \in [Tasks -> TaskRow]
         /\ \A u \in Tasks : u # t => task'[u] = task[u]
         /\ task'[t].status = s /\ task'[t].active = a
         /\ task'[t].pub = task[t].pub /\ task'[t].deadline = task[t].deadline
         /\ task'[t].ver = task[t].ver + 1 /\ task[t].ver \in Nat
<1> DEFINE r == task[t]
           v == task[t].ver + 1
           row == [r EXCEPT !.status = s, !.active = a, !.ver = v]
<1>1. r \in TaskRow /\ v \in Nat /\ task[t].ver \in Nat
  BY DEF TypeOK, TaskRow
<1>2. task' = [task EXCEPT ![t] = row]
  BY DEF WriteTask
<1>3. /\ row \in TaskRow /\ row.status = s /\ row.active = a /\ row.ver = v
      /\ row.pub = r.pub /\ row.deadline = r.deadline
  <2> HIDE DEF r, v
  <2> QED
    BY <1>1 DEF TaskRow
<1> HIDE DEF row
<1> QED
  BY <1>1, <1>2, <1>3 DEF TypeOK

\* What an UPDATE of an execution leaves behind.
LEMMA ExecWritten ==
  ASSUME TypeOK, NEW e \in Execs, NEW r \in ExecRow, WriteExec(e, r)
  PROVE  /\ exec' \in [Execs -> ExecRow]
         /\ \A f \in Execs : f # e => exec'[f] = exec[f]
         /\ exec'[e].status = r.status /\ exec'[e].task = r.task
         /\ exec'[e].agent = r.agent /\ exec'[e].gen = r.gen
         /\ exec'[e].hard = r.hard
         /\ exec'[e].ver = exec[e].ver + 1 /\ exec[e].ver \in Nat
<1> DEFINE row == [r EXCEPT !.ver = exec[e].ver + 1]
<1>1. exec[e] \in ExecRow /\ exec[e].ver \in Nat
  BY DEF TypeOK, ExecRow
<1>2. /\ row \in ExecRow /\ row.status = r.status /\ row.task = r.task
      /\ row.agent = r.agent /\ row.gen = r.gen /\ row.hard = r.hard
      /\ row.ver = exec[e].ver + 1
  BY <1>1 DEF ExecRow
<1>3. exec' = [exec EXCEPT ![e] = row]
  BY DEF WriteExec
<1> QED
  BY <1>1, <1>2, <1>3 DEF TypeOK

\* A row with another status is still a row.
LEMMA StatusOfRow ==
  ASSUME NEW r \in ExecRow, NEW s \in ExecStatus
  PROVE  LET q == [r EXCEPT !.status = s] IN
         /\ q \in ExecRow /\ q.status = s /\ q.task = r.task
         /\ q.agent = r.agent /\ q.gen = r.gen /\ q.hard = r.hard
  BY DEF ExecRow

\* Publishing adds an open task nobody refers to yet.
LEMMA PublishStep ==
  ASSUME IInv, NEW t \in Tasks, NEW who \in Publishers, NEW d \in Deadlines,
         InsertTask(t, who, d)
  PROVE  IInv'
<1> DEFINE row == [NoTask EXCEPT !.status = "open", !.pub = who, !.deadline = d]
<1>0. d \in Nat
  BY LifecycleAssumption
<1>1. NoTask \in TaskRow /\ NoTask.active = None
  BY DEF NoTask, TaskRow, TaskStatus
<1>2. row \in TaskRow /\ row.status = "open" /\ row.active = None
  BY <1>0, <1>1 DEF TaskRow, TaskStatus
<1> HIDE DEF row
<1>3. task' = [task EXCEPT ![t] = row] /\ UNCHANGED <<exec, txn, lock, granted, clock>>
      /\ task[t].status = "none" /\ event' = [event EXCEPT ![t] = "task.published"]
  BY DEF InsertTask, AppendEvent, row
<1>4. task'[t] = row /\ \A u \in Tasks : u # t => task'[u] = task[u]
  BY <1>3 DEF IInv, TypeOK
<1>5. TypeOK'
  BY <1>2, <1>3 DEF IInv, TypeOK, EventType
<1>6. /\ \A u \in Tasks : TaskEvolves(u)
      /\ \A e \in Execs : ExecEvolves(e)
  BY <1>3, <1>4 DEF TaskEvolves, ExecEvolves
<1>7. RowsFit'
  BY <1>2, <1>3, <1>4 DEF IInv, RequestsFitRows, RowsFit
<1>8. TaskMatchesExecution'
  BY <1>2, <1>3, <1>4 DEF IInv, TaskMatchesExecution
<1>9. ActiveExecutionIsBacked'
  <2>1. \A e \in Execs : exec[e].status \in Active => exec[e].task \in Tasks
                                                      /\ exec[e].task # t
    BY <1>3 DEF IInv, RequestsFitRows, RowsFit, Active
  <2> QED
    BY <1>3, <1>4, <2>1 DEF IInv, ActiveExecutionIsBacked
<1> QED
  BY <1>3, <1>5, <1>6, <1>7, <1>8, <1>9, WriteStep

\* A claim moves an open task to a new execution: both ways of claiming.
LEMMA ClaimStep ==
  ASSUME IInv, NEW t \in Tasks, NEW a \in Agents, NEW e \in Execs, NEW n \in Nat,
         task[t].status = "open", InsertClaim(t, a, e, n),
         clock' = clock,
         txn' \in [Procs -> Txn], lock' \in [Execs -> Procs \cup {None}],
         \A q \in Procs : txn'[q] = txn[q] \/ txn'[q] = NoTxn
  PROVE  IInv'
<1> USE LifecycleAssumption
<1> DEFINE row == [status |-> "leased", task |-> t, agent |-> a, gen |-> 1,
                   hard |-> n + LeaseTerm, ver |-> 0]
<1>0. "claimed" \in TaskStatus /\ e # None /\ TypeOK /\ WriteTask(t, "claimed", e)
  BY DEF TaskStatus, IInv, InsertClaim
<1>1. /\ task' \in [Tasks -> TaskRow]
      /\ \A u \in Tasks : u # t => task'[u] = task[u]
      /\ task'[t].status = "claimed" /\ task'[t].active = e
      /\ task'[t].ver = task[t].ver + 1 /\ task[t].ver \in Nat
  BY <1>0, TaskWritten
<1>2. /\ row \in ExecRow /\ row.status = "leased" /\ row.task = t
  BY DEF ExecRow, ExecStatus
<1> HIDE DEF row
<1>3. /\ exec' = [exec EXCEPT ![e] = row] /\ exec[e].status = "none"
      /\ granted' = [granted EXCEPT ![e] = clock]
      /\ event' = [event EXCEPT ![t] = "execution.claimed"]
  BY DEF InsertClaim, AppendEvent, row
<1>4. exec'[e] = row /\ \A f \in Execs : f # e => exec'[f] = exec[f]
  BY <1>3 DEF IInv, TypeOK
<1>5. TypeOK'
  BY <1>1, <1>2, <1>3 DEF IInv, TypeOK, EventType
<1>6. /\ \A u \in Tasks : TaskEvolves(u)
      /\ \A f \in Execs : ExecEvolves(f)
  BY <1>1, <1>3, <1>4 DEF TaskEvolves, ExecEvolves
<1>7. RowsFit'
  BY <1>1, <1>2, <1>3, <1>4 DEF IInv, RequestsFitRows, RowsFit
<1>8. TaskMatchesExecution'
  <2>1. exec[e].task = None
    BY <1>3 DEF IInv, RequestsFitRows, RowsFit, NoExec
  <2>2. \A u \in Tasks : task[u].active \in Execs \cup {None} /\ task[u].active # e
    BY <1>0, <2>1 DEF IInv, TypeOK, TaskMatchesExecution, TaskRow
  <2> QED
    BY <1>0, <1>1, <1>2, <1>4, <2>2 DEF IInv, TaskMatchesExecution
<1>9. ActiveExecutionIsBacked'
  <2>1. \A f \in Execs : exec[f].status \in Active => exec[f].task \in Tasks
                                                      /\ exec[f].task # t
    BY DEF InsertClaim, ActiveExecs, IInv, RequestsFitRows, RowsFit, Active
  <2> QED
    BY <1>1, <1>2, <1>4, <2>1 DEF IInv, ActiveExecutionIsBacked
<1> QED
  BY <1>5, <1>6, <1>7, <1>8, <1>9, WriteStep

\* Starting moves a leased execution and its claimed task on together.
LEMMA StartStep ==
  ASSUME IInv, NEW p \in Procs, StartCommit(p) PROVE IInv'
<1> USE LifecycleAssumption
<1> DEFINE x == txn[p]
           t == x.tsk
           e == x.exe
           r == [x.erow EXCEPT !.status = "running"]
<1>0. /\ x.op = "start" /\ TaskUnchanged(x) /\ ExecUnchanged(x)
      /\ t # None /\ e # None /\ t = x.erow.task
      /\ x.erow.status = "leased" /\ x.trow.status = "claimed"
  BY DEF StartCommit, OwnedUnchanged, IInv, RequestsFitRows, RequestFits, LockingOps
<1>1. /\ t \in Tasks /\ x.trow = task[t]
      /\ e \in Execs /\ exec[e] \in ExecRow /\ x.erow = exec[e]
      /\ exec[e].task = t /\ exec[e].status = "leased"
      /\ task[t].status = "claimed"
  BY <1>0, LoadedTask, LoadedExec
<1>2. task[t].active = e
  BY <1>1 DEF IInv, ActiveExecutionIsBacked, Active
<1>3. /\ WriteExec(e, r) /\ WriteTask(t, "in_progress", e) /\ Close(p)
      /\ AppendEvent(t, "execution.started") /\ UNCHANGED <<granted, clock>>
      /\ TypeOK /\ "in_progress" \in TaskStatus /\ "running" \in ExecStatus
  BY DEF StartCommit, IInv, TaskStatus, ExecStatus
<1>4. r \in ExecRow /\ r.status = "running" /\ r.task = t
  BY <1>1, <1>3, StatusOfRow
<1> HIDE DEF r
<1>5. /\ exec' \in [Execs -> ExecRow]
      /\ \A f \in Execs : f # e => exec'[f] = exec[f]
      /\ exec'[e].status = "running" /\ exec'[e].task = t
      /\ exec'[e].ver = exec[e].ver + 1 /\ exec[e].ver \in Nat
  BY <1>1, <1>3, <1>4, ExecWritten
<1>6. /\ task' \in [Tasks -> TaskRow]
      /\ \A u \in Tasks : u # t => task'[u] = task[u]
      /\ task'[t].status = "in_progress" /\ task'[t].active = e
      /\ task'[t].ver = task[t].ver + 1 /\ task[t].ver \in Nat
  BY <1>1, <1>3, TaskWritten
<1> HIDE DEF x, t, e
<1>7. TypeOK' /\ \A q \in Procs : txn'[q] = txn[q] \/ txn'[q] = NoTxn
  BY <1>3, <1>5, <1>6, CloseType DEF AppendEvent, TypeOK, EventType
<1>8. /\ \A u \in Tasks : TaskEvolves(u)
      /\ \A f \in Execs : ExecEvolves(f)
  BY <1>1, <1>5, <1>6 DEF TaskEvolves, ExecEvolves
<1>9. RowsFit'
  BY <1>1, <1>5, <1>6 DEF IInv, RequestsFitRows, RowsFit
<1>10. TaskMatchesExecution'
  <2>1. \A u \in Tasks : u # t => task[u].active # e
    BY <1>1 DEF IInv, TaskMatchesExecution
  <2>2. \A u \in Tasks : task[u].active \in Execs \cup {None}
    BY DEF IInv, TypeOK, TaskRow
  <2> QED
    BY <1>0, <1>1, <1>5, <1>6, <2>1, <2>2 DEF IInv, TaskMatchesExecution, Active
<1>11. ActiveExecutionIsBacked'
  <2>1. \A f \in Execs : exec[f].status \in Active => exec[f].task \in Tasks
    BY DEF IInv, RequestsFitRows, RowsFit, Active
  <2>2. \A f \in Execs : f # e /\ exec[f].status \in Active => exec[f].task # t
    BY <1>1, <1>2 DEF IInv, ActiveExecutionIsBacked
  <2> QED
    BY <1>1, <1>5, <1>6, <2>1, <2>2 DEF IInv, ActiveExecutionIsBacked
<1> QED
  BY <1>7, <1>8, <1>9, <1>10, <1>11, WriteStep

\* An execution written back with a status that counts the same for its task:
\* heartbeats, notifications, and the review decisions that do not accept.
LEMMA ExecOnlyStep ==
  ASSUME IInv, NEW p \in Procs, NEW e \in Execs, NEW r \in ExecRow,
         WriteExec(e, r), Close(p), UNCHANGED <<task, clock>>,
         event' \in [Tasks -> EventType],
         granted' \in [Execs -> Nat],
         exec[e].status \in Active, r.task = exec[e].task,
         \/ r.status = exec[e].status
         \/ /\ exec[e].status # "leased"
            /\ r.status \in (Active \ {"leased"})
                              \cup {"validation_failed", "rejected"}
  PROVE  IInv'
<1> USE LifecycleAssumption
<1>1. /\ exec' \in [Execs -> ExecRow]
      /\ \A f \in Execs : f # e => exec'[f] = exec[f]
      /\ exec'[e].status = r.status /\ exec'[e].task = exec[e].task
      /\ exec'[e].ver = exec[e].ver + 1 /\ exec[e].ver \in Nat
  BY ExecWritten DEF IInv
<1>2. TypeOK' /\ \A q \in Procs : txn'[q] = txn[q] \/ txn'[q] = NoTxn
  BY <1>1, CloseType DEF IInv, TypeOK
<1>3. r.status # "none" /\ exec[e].status # "none"
  BY DEF Active
<1>4. /\ \A u \in Tasks : TaskEvolves(u)
      /\ \A f \in Execs : ExecEvolves(f)
  BY <1>1, <1>3 DEF TaskEvolves, ExecEvolves
<1>5. RowsFit'
  BY <1>1, <1>3 DEF IInv, RequestsFitRows, RowsFit
<1>6. \A u \in Tasks : task[u].active \in Execs \cup {None}
  BY DEF IInv, TypeOK, TaskRow
<1>7. TaskMatchesExecution'
  BY <1>1, <1>6 DEF IInv, TaskMatchesExecution, Active
<1>8. ActiveExecutionIsBacked'
  BY <1>1 DEF IInv, ActiveExecutionIsBacked
<1> QED
  BY <1>2, <1>4, <1>5, <1>7, <1>8, WriteStep

\* A heartbeat changes the lease and nothing that the two tables agree on.
LEMMA HeartbeatStep ==
  ASSUME IInv, NEW p \in Procs, HeartbeatCommit(p) PROVE IInv'
<1> USE LifecycleAssumption
<1> DEFINE x == txn[p]
           e == x.exe
           r == RenewLease(x.erow, x.gen, x.now)
<1>0. x.op = "heartbeat" /\ ExecUnchanged(x) /\ e # None /\ x.tsk \in Tasks
      /\ x.gen \in Nat /\ x.now \in Nat /\ x.erow.status \in Live
  BY DEF HeartbeatCommit, OwnedUnchanged, IInv, TypeOK, Txn, RequestsFitRows,
         RequestFits, LockingOps
<1>1. e \in Execs /\ x.erow \in ExecRow /\ x.erow = exec[e]
  BY <1>0, LoadedExec
<1>2. /\ WriteExec(e, r) /\ Close(p) /\ UNCHANGED <<task, clock>>
      /\ granted' = [granted EXCEPT ![e] = clock]
      /\ event' = [event EXCEPT ![x.tsk] = "execution.heartbeated"]
  BY DEF HeartbeatCommit, AppendEvent
<1>3. /\ granted' \in [Execs -> Nat]
      /\ event' \in [Tasks -> EventType]
  BY <1>0, <1>1, <1>2 DEF IInv, TypeOK, EventType
<1>4. r \in ExecRow /\ r.status = x.erow.status /\ r.task = x.erow.task
  <2>1. ASSUME NEW q \in ExecRow, NEW g \in Nat, NEW h \in Nat
        PROVE  LET w == RenewLease(q, g, h) IN
               w \in ExecRow /\ w.status = q.status /\ w.task = q.task
    <3> DEFINE w == [q EXCEPT !.gen = g + 1, !.hard = h + LeaseTerm]
    <3>1. g + 1 \in Nat /\ h + LeaseTerm \in Nat
      OBVIOUS
    <3> QED
      BY <3>1 DEF RenewLease, ExecRow
  <2>2. PICK q \in ExecRow, g \in Nat, h \in Nat : q = x.erow /\ g = x.gen /\ h = x.now
    BY <1>0, <1>1
  <2>3. r = RenewLease(q, g, h)
    BY <2>2
  <2>4. LET w == RenewLease(q, g, h) IN w \in ExecRow /\ w.status = q.status /\ w.task = q.task
    BY <2>1
  <2> HIDE DEF r
  <2> QED
    BY <2>2, <2>3, <2>4
<1> HIDE DEF r
<1>5. exec[e].status \in Active
  BY <1>0, <1>1 DEF Live, Active
<1> QED
  BY <1>1, <1>2, <1>3, <1>4, <1>5, ExecOnlyStep

\* The intents of Notify and of a review that leave the task alone.
LEMMA NotifyStep ==
  ASSUME IInv, NEW p \in Procs, NotifyCommit(p) \/ ReviewCommit(p) PROVE IInv'
<1> DEFINE x == txn[p]
           e == x.exe
           r == [x.erow EXCEPT !.status = To(x.op)]
<1>0. /\ x.op \in NotifyIntents \cup {"submit_for_review", "rejected",
                                      "revision_requested"}
      /\ ExecUnchanged(x) /\ WriteExec(e, r) /\ Close(p)
      /\ UNCHANGED <<task, event, granted, clock>>
  BY DEF NotifyCommit, ReviewCommit
<1>1. x.op \in (LockingOps \cup NotifyIntents) \ {"start", "heartbeat"}
  BY <1>0 DEF LockingOps, NotifyIntents, Decisions
<1>2. e # None /\ x.erow.status = From(x.op)
  BY <1>1 DEF IInv, RequestsFitRows, RequestFits
<1>3. e \in Execs /\ x.erow \in ExecRow /\ x.erow = exec[e]
  BY <1>0, <1>2, LoadedExec
<1>4. /\ To(x.op) \in (Active \ {"leased"}) \cup {"validation_failed", "rejected"}
      /\ To(x.op) \in ExecStatus
      /\ From(x.op) \in Active \ {"leased"}
  BY <1>0 DEF To, From, Active, NotifyIntents, ExecStatus
<1>5. r \in ExecRow /\ r.status = To(x.op) /\ r.task = x.erow.task
  BY <1>3, <1>4, StatusOfRow
<1> HIDE DEF r
<1>6. /\ granted' \in [Execs -> Nat]
      /\ event' \in [Tasks -> EventType]
  BY <1>0 DEF IInv, TypeOK
<1> QED
  BY <1>0, <1>2, <1>3, <1>4, <1>5, <1>6, ExecOnlyStep

\* An accepting decision completes the task with its execution.
LEMMA AcceptStep ==
  ASSUME IInv, NEW p \in Procs, AcceptCommit(p) PROVE IInv'
<1> USE LifecycleAssumption
<1> DEFINE x == txn[p]
           t == x.tsk
           e == x.exe
           r == [x.erow EXCEPT !.status = "accepted"]
<1>0. /\ x.op = "accepted" /\ TaskUnchanged(x) /\ ExecUnchanged(x)
      /\ t # None /\ e # None /\ t = x.erow.task
      /\ x.erow.status = "reviewing" /\ x.trow.status = "in_progress"
  BY DEF AcceptCommit, IInv, RequestsFitRows, RequestFits, LockingOps, Decisions, From
<1>1. /\ t \in Tasks /\ x.trow = task[t]
      /\ e \in Execs /\ exec[e] \in ExecRow /\ x.erow = exec[e]
      /\ exec[e].task = t /\ exec[e].status = "reviewing"
      /\ task[t].status = "in_progress"
  BY <1>0, LoadedTask, LoadedExec
<1>2. task[t].active = e
  BY <1>1 DEF IInv, ActiveExecutionIsBacked, Active
<1>3. /\ WriteExec(e, r) /\ WriteTask(t, "completed", e) /\ Close(p)
      /\ UNCHANGED <<event, granted, clock>>
      /\ TypeOK /\ "completed" \in TaskStatus /\ "accepted" \in ExecStatus
  BY DEF AcceptCommit, IInv, TaskStatus, ExecStatus
<1>4. r \in ExecRow /\ r.status = "accepted" /\ r.task = t
  BY <1>1, <1>3, StatusOfRow
<1> HIDE DEF r
<1>5. /\ exec' \in [Execs -> ExecRow]
      /\ \A f \in Execs : f # e => exec'[f] = exec[f]
      /\ exec'[e].status = "accepted" /\ exec'[e].task = t
      /\ exec'[e].ver = exec[e].ver + 1 /\ exec[e].ver \in Nat
  BY <1>1, <1>3, <1>4, ExecWritten
<1>6. /\ task' \in [Tasks -> TaskRow]
      /\ \A u \in Tasks : u # t => task'[u] = task[u]
      /\ task'[t].status = "completed" /\ task'[t].active = e
      /\ task'[t].ver = task[t].ver + 1 /\ task[t].ver \in Nat
  BY <1>1, <1>3, TaskWritten
<1> HIDE DEF x, t, e
<1>7. TypeOK' /\ \A q \in Procs : txn'[q] = txn[q] \/ txn'[q] = NoTxn
  BY <1>3, <1>5, <1>6, CloseType DEF TypeOK
<1>8. /\ \A u \in Tasks : TaskEvolves(u)
      /\ \A f \in Execs : ExecEvolves(f)
  BY <1>1, <1>5, <1>6 DEF TaskEvolves, ExecEvolves
<1>9. RowsFit'
  BY <1>1, <1>5, <1>6 DEF IInv, RequestsFitRows, RowsFit
<1>10. TaskMatchesExecution'
  <2>1. \A u \in Tasks : u # t => task[u].active # e
    BY <1>1 DEF IInv, TaskMatchesExecution
  <2>2. \A u \in Tasks : task[u].active \in Execs \cup {None}
    BY DEF IInv, TypeOK, TaskRow
  <2> QED
    BY <1>0, <1>1, <1>5, <1>6, <2>1, <2>2 DEF IInv, TaskMatchesExecution, Active
<1>11. ActiveExecutionIsBacked'
  <2>1. \A f \in Execs : exec[f].status \in Active => exec[f].task \in Tasks
    BY DEF IInv, RequestsFitRows, RowsFit, Active
  <2>2. \A f \in Execs : f # e /\ exec[f].status \in Active => exec[f].task # t
    BY <1>1, <1>2 DEF IInv, ActiveExecutionIsBacked
  <2> QED
    BY <1>1, <1>5, <1>6, <2>1, <2>2 DEF IInv, ActiveExecutionIsBacked, Active
<1> QED
  BY <1>7, <1>8, <1>9, <1>10, <1>11, WriteStep

\* The two ways of claiming as they occur in Next.
LEMMA ClaimCommitStep ==
  ASSUME IInv, NEW p \in Procs, NEW e \in Execs, ClaimCommit(p, e) PROVE IInv'
<1> DEFINE x == txn[p]
<1>1. /\ x.op = "claim" /\ TaskUnchanged(x) /\ x.tsk # None /\ x.who \in Agents
      /\ x.trow.status = "open" /\ x.now \in Nat
  BY DEF ClaimCommit, IInv, RequestsFitRows, RequestFits, TypeOK, Txn
<1>2. x.tsk \in Tasks /\ task[x.tsk].status = "open"
  BY <1>1, LoadedTask
<1>3. InsertClaim(x.tsk, x.who, e, x.now) /\ Close(p) /\ clock' = clock /\ TypeOK
  BY DEF ClaimCommit, IInv
<1> QED
  BY <1>1, <1>2, <1>3, CloseType, ClaimStep

\* The claim of a public task.
LEMMA PublicClaimStep ==
  ASSUME IInv, NEW t \in Tasks, NEW a \in Agents, NEW e \in Execs,
         NEW n \in TxNow, PublicClaim(t, a, e, n)
  PROVE  IInv'
<1>1. n \in Nat /\ task[t].status = "open" /\ InsertClaim(t, a, e, n)
      /\ UNCHANGED <<txn, lock, clock>>
  BY TxNowIsNat DEF PublicClaim, MayClaim, IInv
<1>2. txn' \in [Procs -> Txn] /\ lock' \in [Execs -> Procs \cup {None}]
  BY <1>1 DEF IInv, TypeOK
<1> QED
  BY <1>1, <1>2, ClaimStep

\* Cancelling takes every active execution of the task along.
LEMMA CancelStep ==
  ASSUME IInv, NEW p \in Procs, CancelCommit(p) PROVE IInv'
<1> USE LifecycleAssumption
<1> DEFINE t == txn[p].tsk
<1>0. txn[p].tsk # None /\ TaskUnchanged(txn[p]) /\ txn[p].trow.status \in Cancellable
  BY DEF CancelCommit, IInv, RequestsFitRows, RequestFits
<1>1. t \in Tasks /\ task[t].status \in Cancellable
  BY <1>0, LoadedTask
<1>2. /\ WriteTask(t, "cancelled", None) /\ Close(p) /\ TypeOK
      /\ "cancelled" \in TaskStatus
      /\ event' = [event EXCEPT ![t] = "task.cancelled"]
      /\ UNCHANGED <<granted, clock>>
      /\ exec' = [e \in Execs |->
                    IF e \in ActiveExecs(t)
                      THEN [exec[e] EXCEPT !.status = "cancelled", !.ver = @ + 1]
                      ELSE exec[e]]
  BY DEF CancelCommit, AppendEvent, IInv, TaskStatus
<1>3. /\ task' \in [Tasks -> TaskRow]
      /\ \A u \in Tasks : u # t => task'[u] = task[u]
      /\ task'[t].status = "cancelled" /\ task'[t].active = None
      /\ task'[t].ver = task[t].ver + 1 /\ task[t].ver \in Nat
  <2>1. None \in Execs \cup {None} /\ WriteTask(t, "cancelled", None) /\ TypeOK
        /\ t \in Tasks /\ "cancelled" \in TaskStatus
    BY <1>1, <1>2
  <2> HIDE DEF t
  <2> QED
    BY <2>1, TaskWritten
<1> HIDE DEF t
<1>4. ASSUME NEW e \in Execs, exec[e].task = t, exec[e].status \in Active
      PROVE  /\ exec'[e] \in ExecRow /\ exec'[e].status = "cancelled"
             /\ exec'[e].task = t /\ exec'[e].ver > exec[e].ver
  <2> DEFINE r == exec[e]
             v == r.ver + 1
  <2>1. r \in ExecRow /\ v \in Nat /\ v > exec[e].ver /\ r.task = t
    BY <1>4 DEF IInv, TypeOK, ExecRow
  <2>2. exec'[e] = [r EXCEPT !.status = "cancelled", !.ver = v]
    BY <1>2, <1>4 DEF ActiveExecs
  <2> HIDE DEF r, v
  <2> QED
    BY <2>1, <2>2 DEF ExecRow, ExecStatus
<1>5. ASSUME NEW e \in Execs, ~(exec[e].task = t /\ exec[e].status \in Active)
      PROVE  exec'[e] = exec[e]
  BY <1>2, <1>5 DEF ActiveExecs
<1>6. exec' \in [Execs -> ExecRow]
  <2>1. \A e \in Execs : exec'[e] \in ExecRow
    BY <1>4, <1>5 DEF IInv, TypeOK
  <2> QED
    BY <1>2, <2>1
<1>7. TypeOK' /\ \A q \in Procs : txn'[q] = txn[q] \/ txn'[q] = NoTxn
  BY <1>2, <1>3, <1>6, CloseType DEF TypeOK, EventType
<1>8. /\ \A u \in Tasks : TaskEvolves(u)
      /\ \A f \in Execs : ExecEvolves(f)
  BY <1>3, <1>4, <1>5 DEF TaskEvolves, ExecEvolves
<1>9. RowsFit'
  <2>1. \A e \in Execs : exec[e].status \in Active => exec[e].status # "none"
    BY DEF Active
  <2> QED
    BY <1>1, <1>3, <1>4, <1>5, <2>1 DEF IInv, RequestsFitRows, RowsFit
<1>10. TaskMatchesExecution'
  <2>1. \A u \in Tasks : task[u].active \in Execs \cup {None}
    BY DEF IInv, TypeOK, TaskRow
  <2>2. \A u \in Tasks : u # t /\ task[u].active # None =>
          exec'[task[u].active] = exec[task[u].active]
    BY <1>5, <2>1 DEF IInv, TaskMatchesExecution
  <2> QED
    BY <1>1, <1>3, <2>1, <2>2 DEF IInv, TaskMatchesExecution
<1>11. ActiveExecutionIsBacked'
  <2>1. \A f \in Execs : exec[f].status \in Active => exec[f].task \in Tasks
    BY DEF IInv, RequestsFitRows, RowsFit, Active
  <2>2. "cancelled" \notin Active
    BY DEF Active
  <2> QED
    BY <1>3, <1>4, <1>5, <2>1, <2>2 DEF IInv, ActiveExecutionIsBacked
<1> QED
  BY <1>7, <1>8, <1>9, <1>10, <1>11, WriteStep

\* A write of a task row that leaves the executions alone: the issue sync
\* cancels a task of its own, or rewrites one that is open.
LEMMA SystemStep ==
  ASSUME IInv, NEW p \in Procs,
         CancelSystemTaskCommit(p) \/ UpdateSystemTaskCommit(p)
  PROVE  IInv'
<1> USE LifecycleAssumption
<1> DEFINE t == txn[p].tsk
           s == IF txn[p].op = "cancel_system" THEN "cancelled" ELSE "open"
<1>0. /\ txn[p].tsk # None /\ TaskUnchanged(txn[p])
      /\ \/ s = "cancelled" /\ txn[p].trow.pub = SystemIssuePublisher
                            /\ txn[p].trow.status \in Cancellable
         \/ s = "open" /\ txn[p].trow.status = "open"
  BY DEF CancelSystemTaskCommit, UpdateSystemTaskCommit, IInv, RequestsFitRows,
         RequestFits
<1>1. /\ t \in Tasks
      /\ \/ s = "cancelled" /\ task[t].pub = SystemIssuePublisher
                            /\ task[t].status \in Cancellable
         \/ s = "open" /\ task[t].status = "open"
  BY <1>0, LoadedTask
<1>2. /\ WriteTask(t, s, None) /\ Close(p) /\ TypeOK /\ s \in TaskStatus
      /\ event' = event \/ event' = [event EXCEPT ![t] = "task.cancelled"]
      /\ UNCHANGED <<exec, granted, clock>>
  BY <1>0 DEF CancelSystemTaskCommit, UpdateSystemTaskCommit, AppendEvent, IInv, TaskStatus
<1> HIDE DEF s
<1>3. /\ task' \in [Tasks -> TaskRow]
      /\ \A u \in Tasks : u # t => task'[u] = task[u]
      /\ task'[t].status = s /\ task'[t].active = None
      /\ task'[t].pub = task[t].pub
      /\ task'[t].ver = task[t].ver + 1 /\ task[t].ver \in Nat
  BY <1>1, <1>2, TaskWritten
<1> HIDE DEF t
<1>4. TypeOK' /\ \A q \in Procs : txn'[q] = txn[q] \/ txn'[q] = NoTxn
  BY <1>2, <1>3, CloseType DEF TypeOK, EventType
<1>5. s # "none" /\ task[t].status # "none"
  BY <1>1 DEF Cancellable
<1>6. /\ \A u \in Tasks : TaskEvolves(u)
      /\ \A f \in Execs : ExecEvolves(f)
  BY <1>2, <1>3, <1>5 DEF TaskEvolves, ExecEvolves
<1>7. RowsFit'
  BY <1>2, <1>3, <1>5 DEF IInv, RequestsFitRows, RowsFit
<1>8. TaskMatchesExecution'
  BY <1>1, <1>2, <1>3 DEF IInv, TaskMatchesExecution
<1>9. ActiveExecutionIsBacked'
  <2>1. \A f \in Execs : exec[f].status \in Active => exec[f].task \in Tasks
    BY DEF IInv, RequestsFitRows, RowsFit, Active
  <2>2. task[t].status = "open" =>
          \A f \in Execs : exec[f].status \in Active => exec[f].task # t
    BY DEF IInv, ActiveExecutionIsBacked
  <2> QED
    BY <1>1, <1>2, <1>3, <2>1, <2>2 DEF IInv, ActiveExecutionIsBacked
<1> QED
  BY <1>4, <1>6, <1>7, <1>8, <1>9, WriteStep

\* The reaper expires executions and releases or expires their tasks.
LEMMA ReaperStep ==
  ASSUME IInv, ReaperBatch PROVE IInv'
<1> USE LifecycleAssumption
<1>1. PICK E \in SUBSET Execs, O \in SUBSET Tasks :
        /\ E \subseteq DueExecs /\ O \subseteq DueTasks
        /\ exec' = [e \in Execs |->
                      IF e \in E
                        THEN [exec[e] EXCEPT !.status = "expired", !.ver = @ + 1]
                        ELSE exec[e]]
        /\ task' = [t \in Tasks |-> Reaped(t, E, O)]
        /\ event' = [t \in Tasks |->
                       CASE task'[t] = task[t] -> event[t]
                         [] task'[t] # task[t] /\ task'[t].status = "open" ->
                              "task.reopened"
                         [] OTHER -> "task.expired"]
        /\ UNCHANGED <<txn, lock, granted, clock>>
  BY DEF ReaperBatch, IsBatch
<1>2. ASSUME NEW e \in E
      PROVE  /\ exec'[e] \in ExecRow /\ exec'[e].status = "expired"
             /\ exec'[e].task = exec[e].task /\ exec'[e].ver > exec[e].ver
             /\ exec[e].status \in Live
  <2> DEFINE r == exec[e]
             v == r.ver + 1
  <2>1. r \in ExecRow /\ v \in Nat /\ v > exec[e].ver /\ e \in Execs
    BY DEF IInv, TypeOK, ExecRow
  <2>2. exec'[e] = [r EXCEPT !.status = "expired", !.ver = v]
    BY <1>1, <2>1
  <2>3. exec[e].status \in Live
    BY <1>1 DEF DueExecs
  <2> HIDE DEF v
  <2>4. ASSUME NEW q \in ExecRow
        PROVE  LET w == [q EXCEPT !.status = "expired", !.ver = v] IN
               w \in ExecRow /\ w.status = "expired" /\ w.task = q.task /\ w.ver = v
    BY <2>1 DEF ExecRow, ExecStatus
  <2> HIDE DEF r
  <2> QED
    BY <2>1, <2>2, <2>3, <2>4 DEF r
<1>3. ASSUME NEW e \in Execs, e \notin E PROVE exec'[e] = exec[e]
  BY <1>1, <1>3
<1>4. ASSUME NEW t \in Tasks, Detached(t, E)
      PROVE  /\ task'[t] \in TaskRow /\ task'[t].status \in {"open", "expired"}
             /\ task'[t].active = None /\ task'[t].pub = task[t].pub
             /\ task'[t].ver > task[t].ver
  <2> DEFINE r == task[t]
             v == r.ver + 1
             s == IF Overdue(t) THEN "expired" ELSE "open"
  <2>1. r \in TaskRow /\ v \in Nat /\ v > task[t].ver
    BY DEF IInv, TypeOK, TaskRow
  <2>2. task'[t] = [r EXCEPT !.status = s, !.active = None, !.ver = v]
    BY <1>1, <1>4 DEF Reaped
  <2>3. s \in {"open", "expired"}
    OBVIOUS
  <2> HIDE DEF r, v, s
  <2>4. /\ task'[t] \in TaskRow /\ task'[t].status = s
        /\ task'[t].active = None /\ task'[t].pub = r.pub /\ task'[t].ver = v
    BY <2>1, <2>2, <2>3 DEF TaskRow, TaskStatus
  <2> QED
    BY <2>1, <2>3, <2>4 DEF r
<1>5. ASSUME NEW t \in Tasks, ~Detached(t, E), t \in O
      PROVE  /\ task'[t] \in TaskRow /\ task'[t].status = "expired"
             /\ task'[t].active = None /\ task'[t].ver > task[t].ver
             /\ task[t].status = "open"
  <2> DEFINE r == task[t]
             v == r.ver + 1
  <2>1. r \in TaskRow /\ v \in Nat /\ v > task[t].ver
    BY DEF IInv, TypeOK, TaskRow
  <2>2. task'[t] = [r EXCEPT !.status = "expired", !.ver = v]
    BY <1>1, <1>5 DEF Reaped
  <2>3. task[t].status = "open" /\ r.active = None
    BY <1>1, <1>5 DEF DueTasks
  <2> HIDE DEF r, v
  <2> QED
    BY <2>1, <2>2, <2>3 DEF TaskRow, TaskStatus
<1>6. ASSUME NEW t \in Tasks, ~Detached(t, E), t \notin O PROVE task'[t] = task[t]
  BY <1>1, <1>6 DEF Reaped
<1>7. TypeOK'
  <2>1. exec' \in [Execs -> ExecRow]
    <3>1. \A e \in Execs : exec'[e] \in ExecRow
      BY <1>2, <1>3 DEF IInv, TypeOK
    <3> QED
      BY <1>1, <3>1
  <2>2. task' \in [Tasks -> TaskRow]
    <3>1. \A t \in Tasks : task'[t] \in TaskRow
      BY <1>4, <1>5, <1>6 DEF IInv, TypeOK
    <3> QED
      BY <1>1, <3>1
  <2>3. event' \in [Tasks -> EventType]
    BY <1>1 DEF IInv, TypeOK, EventType
  <2> QED
    BY <1>1, <2>1, <2>2, <2>3 DEF IInv, TypeOK
<1>8. /\ \A t \in Tasks : TaskEvolves(t)
      /\ \A e \in Execs : ExecEvolves(e)
  BY <1>2, <1>3, <1>4, <1>5, <1>6 DEF TaskEvolves, ExecEvolves
<1>9. RowsFit'
  <2>1. \A e \in Execs : exec[e].status # "none" =>
          exec[e].task \in Tasks /\ task'[exec[e].task].status # "none"
    BY <1>4, <1>5, <1>6 DEF IInv, RequestsFitRows, RowsFit
  <2>2. \A e \in E : exec[e].status # "none"
    BY <1>2 DEF Live
  <2> QED
    BY <1>2, <1>3, <1>4, <1>5, <1>6, <2>1, <2>2 DEF IInv, RequestsFitRows, RowsFit
<1>10. TaskMatchesExecution'
  <2>1. ASSUME NEW t \in Tasks, task[t].active \in E PROVE Detached(t, E)
    <3>1. exec[task[t].active].status \in Live /\ task[t].active # None
      BY <1>2, <2>1
    <3> QED
      BY <2>1, <3>1 DEF IInv, TaskMatchesExecution, Detached, Live
  <2>2. \A t \in Tasks : task[t].active \in Execs \cup {None}
    BY DEF IInv, TypeOK, TaskRow
  <2>3. ASSUME NEW t \in Tasks, task'[t] = task[t], task[t].active # None,
               ~Detached(t, E)
        PROVE  exec'[task[t].active] = exec[task[t].active]
    BY <1>3, <2>1, <2>2, <2>3
  <2> QED
    BY <1>4, <1>5, <1>6, <2>3 DEF IInv, TaskMatchesExecution
<1>11. ActiveExecutionIsBacked'
  <2>1. \A f \in Execs : exec[f].status \in Active => exec[f].task \in Tasks
    BY DEF IInv, RequestsFitRows, RowsFit, Active
  <2>2. "expired" \notin Active
    BY DEF Active
  <2>3. ASSUME NEW f \in Execs, exec'[f].status \in Active
        PROVE  f \notin E /\ exec'[f] = exec[f]
    BY <1>2, <1>3, <2>2, <2>3
  <2>4. ASSUME NEW f \in Execs, exec'[f].status \in Active
        PROVE  task'[exec[f].task] = task[exec[f].task]
    <3>1. exec[f].task \in Tasks /\ f \notin E /\ exec[f].status \in Active
      BY <2>1, <2>3, <2>4
    <3>2. ~Detached(exec[f].task, E)
      BY <3>1 DEF IInv, ActiveExecutionIsBacked, Detached
    <3>3. exec[f].task \notin O
      BY <3>1, <3>2, <1>5 DEF IInv, ActiveExecutionIsBacked
    <3> QED
      BY <1>6, <3>1, <3>2, <3>3
  <2> QED
    BY <2>3, <2>4 DEF IInv, ActiveExecutionIsBacked
<1> QED
  BY <1>1, <1>7, <1>8, <1>9, <1>10, <1>11, WriteStep

\* A step that changes neither a row nor a transaction.
LEMMA IdleStep ==
  ASSUME IInv, Tick \/ UNCHANGED vars PROVE IInv'
<1>1. UNCHANGED <<task, exec, event, txn, lock, granted>> /\ clock' \in Nat
  BY DEF Tick, vars, IInv, TypeOK
<1>2. TypeOK' /\ RowsFit' /\ TaskMatchesExecution' /\ ActiveExecutionIsBacked'
  BY <1>1 DEF IInv, TypeOK, RequestsFitRows, RowsFit, TaskMatchesExecution,
              ActiveExecutionIsBacked
<1>3. (\A t \in Tasks : TaskEvolves(t)) /\ (\A e \in Execs : ExecEvolves(e))
  BY <1>1 DEF TaskEvolves, ExecEvolves
<1> QED
  BY <1>1, <1>2, <1>3, WriteStep

\* The invariant is inductive: every command, the reaper and the clock
\* preserve it.
LEMMA NextIInv == IInv /\ [Next]_vars => IInv'
<1> SUFFICES ASSUME IInv, [Next]_vars PROVE IInv'
  OBVIOUS
<1>1. CASE Publish
  <2>1. PICK t \in Tasks, d \in Deadlines : \E who \in Publishers : InsertTask(t, who, d)
    BY <1>1 DEF Publish, PublishTask, PublishSystemTask
  <2> QED
    BY <2>1, PublishStep
<1>2. ASSUME NEW p \in Procs, ReadTask(p) \/ ReadExec(p) PROVE IInv'
  BY <1>2, ReadTaskStep, ReadExecStep
<1>3. ASSUME NEW p \in Procs, Commit(p) PROVE IInv'
  BY <1>3, ClaimCommitStep, StartStep, HeartbeatStep, CancelStep, SystemStep,
     NotifyStep, AcceptStep, RollbackStep DEF Commit
<1>4. CASE \E t \in Tasks, a \in Agents, e \in Execs, n \in TxNow :
             PublicClaim(t, a, e, n)
  BY <1>4, PublicClaimStep
<1>5. CASE ReaperBatch
  BY <1>5, ReaperStep
<1>6. CASE Tick \/ UNCHANGED vars
  BY <1>6, IdleStep
<1> QED
  BY <1>1, <1>2, <1>3, <1>4, <1>5, <1>6 DEF Next

-----------------------------------------------------------------------------
(* The theorems.                                                           *)

\* The inductive invariant holds in every reachable state.
THEOREM Invariance == Spec => []IInv
  BY InitIInv, NextIInv, PTL DEF Spec

\* Both tables, the open transactions and the row locks stay well typed
\* whatever the commands of internal/application and the reaper do.
THEOREM TypeCorrect == Spec => []TypeOK
<1>1. IInv => TypeOK
  BY DEF IInv
<1> QED
  BY <1>1, Invariance, PTL

\* The state_version of a row identifies its content, for any number of
\* sessions: the compare-and-set of UpdateTask, UpdateExecution and claimSQL
\* succeeds only on the row that was loaded.
THEOREM VersionsIdentifyRows == Spec => []VersionIdentifiesRow
<1>1. IInv => VersionIdentifiesRow
  BY DEF IInv
<1> QED
  BY <1>1, Invariance, PTL

\* A request in flight is about rows that passed the checks of its command.
THEOREM RequestsFit == Spec => []RequestsFitRows
<1>1. IInv => RequestsFitRows
  BY DEF IInv
<1> QED
  BY <1>1, Invariance, PTL

\* A task row and the execution row it names always fit together, although
\* different statements of different commands write them.
THEOREM TablesAgree == Spec => []TaskMatchesExecution
<1>1. IInv => TaskMatchesExecution
  BY DEF IInv
<1> QED
  BY <1>1, Invariance, PTL

\* At most one execution of a task is active, and the task names it, unless
\* the issue sync cancelled the task under it.
THEOREM ActiveIsBacked == Spec => []ActiveExecutionIsBacked
<1>1. IInv => ActiveExecutionIsBacked
  BY DEF IInv
<1> QED
  BY <1>1, Invariance, PTL

-----------------------------------------------------------------------------
(* What a step does, as a reader of the rows and of the events sees it.    *)

\* Task t goes from one of some statuses to another, is held as told and has
\* told so in an event.
Moves(t, from, to, holder, type) ==
  /\ task[t].status \in from /\ task'[t].status = to
  /\ task'[t].active = holder
  /\ event'[t] = type

\* What may happen to a task and to its last event in one step.
TaskStep(t) ==
  \/ task'[t] = task[t] /\ event'[t] = event[t]
  \/ /\ task'[t] = task[t] /\ event'[t] = "execution.heartbeated"
     /\ \/ task[t].status \in {"claimed", "in_progress"}
        \/ task[t].pub = SystemIssuePublisher
  \/ Moves(t, {"none"}, "open", None, "task.published")
  \/ /\ task'[t].pub = task[t].pub
     /\ \/ \E e \in Execs : /\ exec[e].status = "none"
                            /\ Moves(t, {"open"}, "claimed", e, "execution.claimed")
        \/ Moves(t, {"claimed"}, "in_progress", task[t].active, "execution.started")
        \/ Moves(t, {"in_progress"}, "completed", task[t].active, event[t])
        \/ Moves(t, Cancellable, "cancelled", None, "task.cancelled")
        \/ Moves(t, {"open"}, "open", None, event[t])
        \/ Moves(t, {"claimed", "in_progress"}, "open", None, "task.reopened")
        \/ Moves(t, Cancellable, "expired", None, "task.expired")

\* The lease a heartbeat of session p writes over the one it loaded.
Renewed(e, p) ==
  /\ txn[p].op = "heartbeat" /\ txn[p].exe = e
  /\ exec[e].ver = txn[p].erow.ver
  /\ exec'[e].gen = exec[e].gen + 1
  /\ exec'[e].hard = txn[p].now + LeaseTerm
  /\ granted'[e] = clock

\* What may happen to an execution in one step.
ExecStep(e) ==
  \/ exec'[e] = exec[e] /\ granted'[e] = granted[e]
  \/ /\ exec[e].status = "none" /\ exec'[e].status # "none"
     /\ \E t \in Tasks : task'[t].active = e
     /\ \E n \in 0 .. clock : exec'[e].hard = n + LeaseTerm
     /\ granted'[e] = clock
  \/ /\ exec[e].status \in Active /\ exec'[e].status # "none"
     /\ exec'[e].ver = exec[e].ver + 1
     /\ \/ /\ exec'[e].gen = exec[e].gen /\ exec'[e].hard = exec[e].hard
           /\ granted'[e] = granted[e]
        \/ \E p \in Procs : Renewed(e, p)

\* What may happen to all of them.
Steps == (\A t \in Tasks : TaskStep(t)) /\ (\A e \in Execs : ExecStep(e))

\* No transaction reads the clock ahead.
NowIsPast == \A p \in Procs : txn[p].now <= clock

\* What publishing does to the rows.
LEMMA PublishMoves ==
  ASSUME IInv, NEW t \in Tasks, NEW who \in Publishers, NEW d \in Deadlines,
         InsertTask(t, who, d)
  PROVE  Steps
<1>1. /\ task'[t].status = "open" /\ task'[t].active = None
      /\ \A u \in Tasks : u # t => task'[u] = task[u] /\ event'[u] = event[u]
      /\ task[t].status = "none" /\ event'[t] = "task.published"
      /\ UNCHANGED <<exec, granted>>
  BY DEF InsertTask, AppendEvent, IInv, TypeOK, NoTask
<1> QED
  BY <1>1 DEF Steps, TaskStep, ExecStep, Moves

\* What a claim does to the rows, whichever way it came.
LEMMA ClaimMoves ==
  ASSUME IInv, NEW t \in Tasks, NEW a \in Agents, NEW e \in Execs,
         NEW n \in 0 .. clock, task[t].status = "open", InsertClaim(t, a, e, n)
  PROVE  Steps
<1>1. /\ \A u \in Tasks : u # t => task'[u] = task[u]
      /\ task'[t].status = "claimed" /\ task'[t].active = e
      /\ task'[t].pub = task[t].pub
  BY TaskWritten DEF InsertClaim, IInv, TaskStatus
<1>2. /\ exec[e].status = "none" /\ exec'[e].status = "leased"
      /\ exec'[e].hard = n + LeaseTerm /\ granted'[e] = clock
      /\ \A f \in Execs : f # e => exec'[f] = exec[f] /\ granted'[f] = granted[f]
      /\ event'[t] = "execution.claimed"
      /\ \A u \in Tasks : u # t => event'[u] = event[u]
  BY DEF InsertClaim, AppendEvent, IInv, TypeOK
<1>3. \A u \in Tasks : TaskStep(u)
  BY <1>1, <1>2 DEF TaskStep, Moves
<1>4. \A f \in Execs : ExecStep(f)
  BY <1>1, <1>2 DEF ExecStep
<1> QED
  BY <1>3, <1>4 DEF Steps

\* What a start does to the rows.
LEMMA StartMoves ==
  ASSUME IInv, NEW p \in Procs, StartCommit(p) PROVE Steps
<1> DEFINE x == txn[p]
           t == x.tsk
           e == x.exe
           r == [x.erow EXCEPT !.status = "running"]
<1>0. /\ x.op = "start" /\ TaskUnchanged(x) /\ ExecUnchanged(x)
      /\ t # None /\ e # None /\ t = x.erow.task
      /\ x.erow.status = "leased" /\ x.trow.status = "claimed"
  BY DEF StartCommit, OwnedUnchanged, IInv, RequestsFitRows, RequestFits, LockingOps
<1>1. /\ t \in Tasks /\ x.trow = task[t]
      /\ e \in Execs /\ exec[e] \in ExecRow /\ x.erow = exec[e]
      /\ exec[e].task = t /\ exec[e].status = "leased"
      /\ task[t].status = "claimed"
  BY <1>0, LoadedTask, LoadedExec
<1>2. task[t].active = e
  BY <1>1 DEF IInv, ActiveExecutionIsBacked, Active
<1>3. /\ WriteExec(e, r) /\ WriteTask(t, "in_progress", e)
      /\ event' = [event EXCEPT ![t] = "execution.started"] /\ granted' = granted
      /\ TypeOK /\ "in_progress" \in TaskStatus /\ "running" \in ExecStatus
  BY DEF StartCommit, AppendEvent, IInv, TaskStatus, ExecStatus
<1>4. r \in ExecRow /\ r.status = "running" /\ r.gen = exec[e].gen /\ r.hard = exec[e].hard
  BY <1>1, <1>3, StatusOfRow
<1> HIDE DEF r
<1>5. /\ \A f \in Execs : f # e => exec'[f] = exec[f]
      /\ exec'[e].status = "running" /\ exec'[e].gen = exec[e].gen
      /\ exec'[e].hard = exec[e].hard /\ exec'[e].ver = exec[e].ver + 1
  BY <1>1, <1>3, <1>4, ExecWritten
<1>6. /\ \A u \in Tasks : u # t => task'[u] = task[u]
      /\ task'[t].status = "in_progress" /\ task'[t].active = e
      /\ task'[t].pub = task[t].pub
  BY <1>1, <1>3, TaskWritten
<1> HIDE DEF x, t, e
<1>7. \A u \in Tasks : TaskStep(u)
  BY <1>1, <1>2, <1>3, <1>6 DEF TaskStep, Moves, TypeOK
<1>8. \A f \in Execs : ExecStep(f)
  BY <1>1, <1>3, <1>5 DEF ExecStep, Active
<1> QED
  BY <1>7, <1>8 DEF Steps

\* What a heartbeat does to the rows.
LEMMA HeartbeatMoves ==
  ASSUME IInv, NEW p \in Procs, HeartbeatCommit(p) PROVE Steps
<1> USE LifecycleAssumption
<1> DEFINE x == txn[p]
           t == x.tsk
           e == x.exe
           r == RenewLease(x.erow, x.gen, x.now)
<1>0. /\ x.op = "heartbeat" /\ ExecUnchanged(x) /\ e # None /\ t \in Tasks
      /\ t = x.erow.task /\ x.erow.status \in Live /\ x.gen = exec[e].gen
      /\ x.gen \in Nat /\ x.now \in Nat
  BY DEF HeartbeatCommit, OwnedUnchanged, IInv, TypeOK, Txn, RequestsFitRows,
         RequestFits, LockingOps
<1>1. e \in Execs /\ exec[e] \in ExecRow /\ x.erow = exec[e]
  BY <1>0, LoadedExec
<1>2. /\ WriteExec(e, r) /\ UNCHANGED task /\ TypeOK
      /\ granted' = [granted EXCEPT ![e] = clock]
      /\ event' = [event EXCEPT ![t] = "execution.heartbeated"]
  BY DEF HeartbeatCommit, AppendEvent, IInv
<1>3. /\ r \in ExecRow /\ r.status = exec[e].status
      /\ r.gen = exec[e].gen + 1 /\ r.hard = x.now + LeaseTerm
  <2>1. x.erow \in ExecRow /\ x.gen \in Nat /\ x.now \in Nat
    BY <1>0, <1>1
  <2>2. /\ r \in ExecRow /\ r.status = x.erow.status
        /\ r.gen = x.gen + 1 /\ r.hard = x.now + LeaseTerm
    <3> DEFINE q == x.erow
               g == x.gen
               n == x.now
    <3>1. q \in ExecRow /\ g \in Nat /\ n \in Nat /\ r = RenewLease(q, g, n)
      BY <2>1
    <3> HIDE DEF q, g, n, r
    <3>2. r \in ExecRow /\ r.status = q.status /\ r.gen = g + 1 /\ r.hard = n + LeaseTerm
      <4>1. g + 1 \in Nat /\ n + LeaseTerm \in Nat
        BY <3>1
      <4> QED
        BY <3>1, <4>1 DEF RenewLease, ExecRow
    <3> QED
      BY <3>2 DEF q, g, n
  <2> HIDE DEF r
  <2> QED
    BY <1>0, <1>1, <2>2
<1> HIDE DEF r
<1>4. /\ \A f \in Execs : f # e => exec'[f] = exec[f]
      /\ exec'[e].status = exec[e].status /\ exec'[e].gen = exec[e].gen + 1
      /\ exec'[e].hard = x.now + LeaseTerm /\ exec'[e].ver = exec[e].ver + 1
  BY <1>1, <1>2, <1>3, ExecWritten
<1>5. exec[e].status \in Active /\ exec[e].status # "none" /\ exec[e].task = t
  BY <1>0, <1>1 DEF Live, Active
<1>6. ExecStep(e)
  <2>1. Renewed(e, p)
    BY <1>0, <1>1, <1>2, <1>4 DEF Renewed, TypeOK
  <2> QED
    BY <1>4, <1>5, <2>1 DEF ExecStep
<1>7. \/ task[t].status \in {"claimed", "in_progress"}
      \/ task[t].pub = SystemIssuePublisher
  BY <1>1, <1>5 DEF IInv, ActiveExecutionIsBacked
<1> HIDE DEF x, t, e
<1>8. \A u \in Tasks : TaskStep(u)
  BY <1>0, <1>2, <1>7 DEF TaskStep, TypeOK
<1>9. \A f \in Execs : f # e => ExecStep(f)
  BY <1>1, <1>2, <1>4 DEF ExecStep, TypeOK
<1> QED
  BY <1>6, <1>8, <1>9 DEF Steps

\* What the intents that leave the task alone do to the rows.
LEMMA NotifyMoves ==
  ASSUME IInv, NEW p \in Procs, NotifyCommit(p) \/ ReviewCommit(p) PROVE Steps
<1> DEFINE x == txn[p]
           e == x.exe
           r == [x.erow EXCEPT !.status = To(x.op)]
<1>0. /\ x.op \in NotifyIntents \cup {"submit_for_review", "rejected",
                                      "revision_requested"}
      /\ ExecUnchanged(x) /\ WriteExec(e, r) /\ TypeOK
      /\ UNCHANGED <<task, event, granted, clock>>
  BY DEF NotifyCommit, ReviewCommit, IInv
<1>1. x.op \in (LockingOps \cup NotifyIntents) \ {"start", "heartbeat"}
  BY <1>0 DEF LockingOps, NotifyIntents, Decisions
<1>2. e # None /\ x.erow.status = From(x.op)
  BY <1>1 DEF IInv, RequestsFitRows, RequestFits
<1>3. e \in Execs /\ x.erow \in ExecRow /\ x.erow = exec[e]
  BY <1>0, <1>2, LoadedExec
<1>4. To(x.op) \in ExecStatus /\ To(x.op) # "none" /\ From(x.op) \in Active
  BY <1>0 DEF To, From, Active, NotifyIntents, ExecStatus
<1>5. /\ r \in ExecRow /\ r.status = To(x.op)
      /\ r.gen = exec[e].gen /\ r.hard = exec[e].hard
  BY <1>3, <1>4, StatusOfRow
<1> HIDE DEF r
<1>6. /\ \A f \in Execs : f # e => exec'[f] = exec[f]
      /\ exec'[e].status = To(x.op) /\ exec'[e].gen = exec[e].gen
      /\ exec'[e].hard = exec[e].hard /\ exec'[e].ver = exec[e].ver + 1
  BY <1>0, <1>3, <1>5, ExecWritten
<1>7. \A f \in Execs : ExecStep(f)
  BY <1>0, <1>2, <1>3, <1>4, <1>6 DEF ExecStep
<1> QED
  BY <1>0, <1>7 DEF Steps, TaskStep

\* What an accepting decision does to the rows.
LEMMA AcceptMoves ==
  ASSUME IInv, NEW p \in Procs, AcceptCommit(p) PROVE Steps
<1> DEFINE x == txn[p]
           t == x.tsk
           e == x.exe
           r == [x.erow EXCEPT !.status = "accepted"]
<1>0. /\ x.op = "accepted" /\ TaskUnchanged(x) /\ ExecUnchanged(x)
      /\ t # None /\ e # None /\ t = x.erow.task
      /\ x.erow.status = "reviewing" /\ x.trow.status = "in_progress"
  BY DEF AcceptCommit, IInv, RequestsFitRows, RequestFits, LockingOps, Decisions, From
<1>1. /\ t \in Tasks /\ x.trow = task[t]
      /\ e \in Execs /\ exec[e] \in ExecRow /\ x.erow = exec[e]
      /\ exec[e].task = t /\ exec[e].status = "reviewing"
      /\ task[t].status = "in_progress"
  BY <1>0, LoadedTask, LoadedExec
<1>2. task[t].active = e
  BY <1>1 DEF IInv, ActiveExecutionIsBacked, Active
<1>3. /\ WriteExec(e, r) /\ WriteTask(t, "completed", e)
      /\ UNCHANGED <<event, granted>>
      /\ TypeOK /\ "completed" \in TaskStatus /\ "accepted" \in ExecStatus
  BY DEF AcceptCommit, IInv, TaskStatus, ExecStatus
<1>4. /\ r \in ExecRow /\ r.status = "accepted"
      /\ r.gen = exec[e].gen /\ r.hard = exec[e].hard
  BY <1>1, <1>3, StatusOfRow
<1> HIDE DEF r
<1>5. /\ \A f \in Execs : f # e => exec'[f] = exec[f]
      /\ exec'[e].status = "accepted" /\ exec'[e].gen = exec[e].gen
      /\ exec'[e].hard = exec[e].hard /\ exec'[e].ver = exec[e].ver + 1
  BY <1>1, <1>3, <1>4, ExecWritten
<1>6. /\ \A u \in Tasks : u # t => task'[u] = task[u]
      /\ task'[t].status = "completed" /\ task'[t].active = e
      /\ task'[t].pub = task[t].pub
  BY <1>1, <1>3, TaskWritten
<1> HIDE DEF x, t, e
<1>7. \A u \in Tasks : TaskStep(u)
  BY <1>1, <1>2, <1>3, <1>6 DEF TaskStep, Moves
<1>8. \A f \in Execs : ExecStep(f)
  BY <1>1, <1>3, <1>5 DEF ExecStep, Active
<1> QED
  BY <1>7, <1>8 DEF Steps

\* A cancellation and the executions it takes along.
LEMMA CancelMoves ==
  ASSUME IInv, NEW p \in Procs, CancelCommit(p) PROVE Steps
<1> USE LifecycleAssumption
<1> DEFINE t == txn[p].tsk
<1>0. txn[p].tsk # None /\ TaskUnchanged(txn[p]) /\ txn[p].trow.status \in Cancellable
  BY DEF CancelCommit, IInv, RequestsFitRows, RequestFits
<1>1. t \in Tasks /\ task[t].status \in Cancellable
  BY <1>0, LoadedTask
<1>2. /\ WriteTask(t, "cancelled", None) /\ TypeOK
      /\ "cancelled" \in TaskStatus
      /\ event' = [event EXCEPT ![t] = "task.cancelled"]
      /\ granted' = granted
      /\ exec' = [e \in Execs |->
                    IF e \in ActiveExecs(t)
                      THEN [exec[e] EXCEPT !.status = "cancelled", !.ver = @ + 1]
                      ELSE exec[e]]
  BY DEF CancelCommit, AppendEvent, IInv, TaskStatus
<1> HIDE DEF t
<1>3. /\ \A u \in Tasks : u # t => task'[u] = task[u]
      /\ task'[t].status = "cancelled" /\ task'[t].active = None
      /\ task'[t].pub = task[t].pub
  <2>1. None \in Execs \cup {None}
    OBVIOUS
  <2>2. TypeOK /\ t \in Tasks /\ "cancelled" \in TaskStatus /\ WriteTask(t, "cancelled", None)
    BY <1>1, <1>2
  <2> QED
    BY <2>1, <2>2, TaskWritten
<1>4. ASSUME NEW e \in Execs, exec[e].task = t, exec[e].status \in Active
      PROVE  /\ exec'[e].status = "cancelled" /\ exec'[e].ver = exec[e].ver + 1
             /\ exec'[e].gen = exec[e].gen /\ exec'[e].hard = exec[e].hard
  <2> DEFINE r == exec[e]
             v == r.ver + 1
  <2>1. r \in ExecRow /\ v \in Nat
    BY <1>4 DEF IInv, TypeOK, ExecRow
  <2>2. exec'[e] = [r EXCEPT !.status = "cancelled", !.ver = v]
    BY <1>2, <1>4 DEF ActiveExecs
  <2> HIDE DEF r, v
  <2>3. /\ exec'[e].status = "cancelled" /\ exec'[e].ver = v
        /\ exec'[e].gen = r.gen /\ exec'[e].hard = r.hard
    BY <2>1, <2>2 DEF ExecRow
  <2> QED
    BY <2>3 DEF r, v
<1>5. ASSUME NEW e \in Execs, exec[e].task # t \/ exec[e].status \notin Active
      PROVE  exec'[e] = exec[e]
  BY <1>2, <1>5 DEF ActiveExecs
<1>6. \A u \in Tasks : TaskStep(u)
  BY <1>1, <1>2, <1>3 DEF TaskStep, Moves, TypeOK
<1>7. \A e \in Execs : ExecStep(e)
  BY <1>2, <1>4, <1>5 DEF ExecStep
<1> QED
  BY <1>6, <1>7 DEF Steps

\* The two commands of the issue sync.
LEMMA SystemMoves ==
  ASSUME IInv, NEW p \in Procs,
         CancelSystemTaskCommit(p) \/ UpdateSystemTaskCommit(p)
  PROVE  Steps
<1> USE LifecycleAssumption
<1> DEFINE t == txn[p].tsk
           s == IF txn[p].op = "cancel_system" THEN "cancelled" ELSE "open"
<1>0. /\ txn[p].tsk # None /\ TaskUnchanged(txn[p])
      /\ \/ s = "cancelled" /\ txn[p].trow.status \in Cancellable
         \/ s = "open" /\ txn[p].trow.status = "open"
  BY DEF CancelSystemTaskCommit, UpdateSystemTaskCommit, IInv, RequestsFitRows,
         RequestFits
<1>1. t \in Tasks
  BY <1>0, LoadedTask
<1>2. /\ WriteTask(t, s, None) /\ TypeOK /\ s \in TaskStatus
      /\ UNCHANGED <<exec, granted>>
      /\ \/ /\ s = "cancelled" /\ task[t].status \in Cancellable
            /\ event' = [event EXCEPT ![t] = "task.cancelled"]
         \/ s = "open" /\ task[t].status = "open" /\ event' = event
  BY <1>0, LoadedTask
  DEF CancelSystemTaskCommit, UpdateSystemTaskCommit, AppendEvent, IInv, TaskStatus
<1> HIDE DEF s
<1>3. /\ \A u \in Tasks : u # t => task'[u] = task[u]
      /\ task'[t].status = s /\ task'[t].active = None
      /\ task'[t].pub = task[t].pub
  BY <1>1, <1>2, TaskWritten
<1> HIDE DEF t
<1>4. \A u \in Tasks : TaskStep(u)
  BY <1>1, <1>2, <1>3 DEF TaskStep, Moves, TypeOK
<1> QED
  BY <1>2, <1>4 DEF Steps, ExecStep

\* A batch of the reaper.
LEMMA ReaperMoves ==
  ASSUME IInv, ReaperBatch PROVE Steps
<1> USE LifecycleAssumption
<1>1. PICK E \in SUBSET Execs, O \in SUBSET Tasks :
        /\ E \subseteq DueExecs /\ O \subseteq DueTasks
        /\ exec' = [e \in Execs |->
                      IF e \in E
                        THEN [exec[e] EXCEPT !.status = "expired", !.ver = @ + 1]
                        ELSE exec[e]]
        /\ task' = [t \in Tasks |-> Reaped(t, E, O)]
        /\ event' = [t \in Tasks |->
                       CASE task'[t] = task[t] -> event[t]
                         [] task'[t] # task[t] /\ task'[t].status = "open" ->
                              "task.reopened"
                         [] OTHER -> "task.expired"]
        /\ granted' = granted
  BY DEF ReaperBatch, IsBatch
<1>2. ASSUME NEW e \in Execs PROVE ExecStep(e)
  <2>1. CASE e \in E
    <3> DEFINE r == exec[e]
               v == r.ver + 1
    <3>1. r \in ExecRow /\ v \in Nat
      BY DEF IInv, TypeOK, ExecRow
    <3>2. exec'[e] = [r EXCEPT !.status = "expired", !.ver = v]
      BY <1>1, <2>1
    <3>3. r.status \in Active
      BY <1>1, <2>1 DEF DueExecs, Live, Active
    <3> HIDE DEF r, v
    <3>4. /\ exec'[e].status = "expired" /\ exec'[e].ver = v
          /\ exec'[e].gen = r.gen /\ exec'[e].hard = r.hard
      BY <3>1, <3>2 DEF ExecRow
    <3> QED
      BY <1>1, <3>3, <3>4 DEF ExecStep, r, v
  <2>2. CASE e \notin E
    BY <1>1, <2>2 DEF ExecStep
  <2> QED
    BY <2>1, <2>2
<1>3. ASSUME NEW t \in Tasks PROVE TaskStep(t)
  <2> DEFINE r == task[t]
             v == r.ver + 1
  <2>0. r \in TaskRow /\ v \in Nat /\ v # r.ver
    BY DEF IInv, TypeOK, TaskRow
  <2>1. CASE Detached(t, E)
    <3> DEFINE s == IF Overdue(t) THEN "expired" ELSE "open"
    <3>1. task'[t] = [r EXCEPT !.status = s, !.active = None, !.ver = v]
      BY <1>1, <2>1 DEF Reaped
    <3>2. /\ s \in {"open", "expired"}
          /\ task[t].status \in {"claimed", "in_progress"}
      BY <2>1 DEF Detached
    <3> HIDE DEF r, v, s
    <3>3. /\ task'[t].status = s /\ task'[t].active = None
          /\ task'[t].pub = r.pub /\ task'[t] # r
      BY <2>0, <3>1 DEF TaskRow
    <3>4. event'[t] = IF s = "open" THEN "task.reopened" ELSE "task.expired"
      BY <1>1, <3>3 DEF r
    <3> QED
      BY <3>2, <3>3, <3>4 DEF TaskStep, Moves, Cancellable, r
  <2>2. CASE ~Detached(t, E) /\ t \in O
    <3>1. task'[t] = [r EXCEPT !.status = "expired", !.ver = v]
      BY <1>1, <2>2 DEF Reaped
    <3>2. r.active = None /\ r.status = "open"
      BY <1>1, <2>2 DEF DueTasks
    <3> HIDE DEF r, v
    <3>3. /\ task'[t].status = "expired" /\ task'[t].active = None
          /\ task'[t].pub = r.pub /\ task'[t] # r
      BY <2>0, <3>1, <3>2 DEF TaskRow
    <3>4. event'[t] = "task.expired"
      BY <1>1, <3>3 DEF r
    <3> QED
      BY <3>2, <3>3, <3>4 DEF TaskStep, Moves, Cancellable, r
  <2>3. CASE ~Detached(t, E) /\ t \notin O
    BY <1>1, <2>3 DEF Reaped, TaskStep
  <2> QED
    BY <2>1, <2>2, <2>3
<1> QED
  BY <1>2, <1>3 DEF Steps

\* The other steps change no row and no event.
LEMMA QuietMoves ==
  ASSUME UNCHANGED <<task, exec, event, granted>> PROVE Steps
  BY DEF Steps, TaskStep, ExecStep

\* Loading is a quiet step, whatever is loaded.
LEMMA ReadIsQuiet ==
  ASSUME NEW p \in Procs, ReadTask(p) \/ ReadExec(p)
  PROVE  UNCHANGED <<task, exec, event, granted, clock>>
<1>1. \E x : Load(p, x)
  <2>1. CASE ReadTask(p)
    BY <2>1 DEF ReadTask, ClaimRead, CancelRead, CancelSystemTaskRead,
                UpdateSystemTaskRead
  <2>2. CASE ReadExec(p)
    BY <2>2 DEF ReadExec, MutateRead, NotifyRead, SubmitForReviewRead, DecisionRead
  <2> QED
    BY <2>1, <2>2
<1> QED
  BY <1>1 DEF Load

\* Every step is one of the known ones.
LEMMA NextMoves ==
  ASSUME IInv, NowIsPast, [Next]_vars PROVE Steps
<1>0. clock \in Nat /\ TxNow \subseteq 0 .. clock
  BY DEF IInv, TypeOK, TxNow
<1>1. CASE Publish
  <2>1. PICK t \in Tasks, d \in Deadlines : \E who \in Publishers : InsertTask(t, who, d)
    BY <1>1 DEF Publish, PublishTask, PublishSystemTask
  <2> QED
    BY <2>1, PublishMoves
<1>2. ASSUME NEW p \in Procs, ReadTask(p) \/ ReadExec(p) PROVE Steps
  BY <1>2, ReadIsQuiet, QuietMoves
<1>3. ASSUME NEW p \in Procs, NEW e \in Execs, ClaimCommit(p, e) PROVE Steps
  <2> DEFINE x == txn[p]
  <2>1. /\ x.op = "claim" /\ TaskUnchanged(x) /\ x.tsk # None /\ x.who \in Agents
        /\ x.trow.status = "open" /\ x.now \in Nat
    BY <1>3 DEF ClaimCommit, IInv, RequestsFitRows, RequestFits, TypeOK, Txn
  <2>2. x.tsk \in Tasks /\ task[x.tsk].status = "open"
    BY <2>1, LoadedTask
  <2>3. InsertClaim(x.tsk, x.who, e, x.now) /\ x.now \in 0 .. clock
    BY <1>0, <1>3, <2>1 DEF ClaimCommit, NowIsPast
  <2> QED
    BY <2>1, <2>2, <2>3, ClaimMoves
<1>4. ASSUME NEW p \in Procs, Rollback(p) PROVE Steps
  BY <1>4, QuietMoves DEF Rollback
<1>5. ASSUME NEW p \in Procs, Commit(p) PROVE Steps
  BY <1>3, <1>4, <1>5, StartMoves, HeartbeatMoves, CancelMoves, SystemMoves,
     NotifyMoves, AcceptMoves DEF Commit
<1>6. CASE \E t \in Tasks, a \in Agents, e \in Execs, n \in TxNow :
             PublicClaim(t, a, e, n)
  BY <1>0, <1>6, ClaimMoves DEF PublicClaim, MayClaim
<1>7. CASE ReaperBatch
  BY <1>7, ReaperMoves
<1>8. CASE Tick \/ UNCHANGED vars
  BY <1>8, QuietMoves DEF Tick, vars
<1> QED
  BY <1>1, <1>2, <1>5, <1>6, <1>7, <1>8 DEF Next

-----------------------------------------------------------------------------
(* What a lease owes to the transaction that granted it.                   *)

\* A transaction is open as it was, over, or it has just loaded its rows.
TxnStep(p) ==
  \/ txn'[p] \in {txn[p], NoTxn}
  \/ /\ UNCHANGED <<exec, granted>>
     /\ txn'[p].now <= clock
     /\ txn'[p].op = "heartbeat" => granted[txn'[p].exe] <= txn'[p].now

\* No lease reaches further than a term beyond the commit that granted it, and
\* a heartbeat that may still commit has read the clock after that commit.
LeaseFits ==
  /\ NowIsPast
  /\ \A e \in Execs : exec[e].status # "none" =>
       exec[e].hard <= granted[e] + LeaseTerm
  /\ \A p \in Procs :
       txn[p].op = "heartbeat" /\ exec[txn[p].exe].ver = txn[p].erow.ver =>
         granted[txn[p].exe] <= txn[p].now

\* Closing a transaction leaves the others as they are.
LEMMA CloseTxn ==
  ASSUME TypeOK, NEW p \in Procs, Close(p), NEW q \in Procs PROVE TxnStep(q)
  BY DEF Close, TypeOK, TxnStep

\* What a transaction has loaded it has loaded with a clock reading that is
\* not ahead, and a heartbeat with one that follows the grant of the lease.
LEMMA LoadTxn ==
  ASSUME TypeOK, NEW p \in Procs, NEW q \in Procs, ReadTask(p) \/ ReadExec(p)
  PROVE  TxnStep(q)
<1>0. clock \in Nat /\ TxNow \subseteq 0 .. clock
  BY DEF TypeOK, TxNow
<1>1. CASE ReadTask(p)
  <2>1. PICK op \in {"claim", "cancel", "cancel_system", "update_system"},
             n \in 0 .. clock : \E who, t : Load(p, Snapshot(op, who, t, None, 0, n))
    <3>1. CASE \E t \in Tasks, a \in Agents, n \in TxNow : ClaimRead(p, a, t, n)
      BY <1>0, <3>1 DEF ClaimRead
    <3>2. CASE \E t \in Tasks, who \in Publishers, n \in TxNow : CancelRead(p, who, t, n)
      BY <1>0, <3>2 DEF CancelRead
    <3>3. CASE \E t \in Tasks, n \in TxNow : CancelSystemTaskRead(p, t, n)
      BY <1>0, <3>3 DEF CancelSystemTaskRead
    <3>4. CASE \E t \in Tasks : UpdateSystemTaskRead(p, t)
      BY <1>0, <3>4 DEF UpdateSystemTaskRead
    <3> QED
      BY <1>1, <3>1, <3>2, <3>3, <3>4 DEF ReadTask
  <2> QED
    BY <2>1 DEF Load, Snapshot, TxnStep, TypeOK
<1>2. CASE ReadExec(p)
  <2>1. CASE \E e \in Execs, a \in Agents, n \in TxNow, g \in Nat,
                op \in {"start", "heartbeat"} : MutateRead(p, op, a, e, g, n)
    <3>1. PICK e \in Execs, a \in Agents, n \in TxNow, g \in Nat,
               op \in {"start", "heartbeat"} : MutateRead(p, op, a, e, g, n)
      BY <2>1
    <3> QED
      BY <1>0, <3>1 DEF MutateRead, Load, Snapshot, TxnStep, TypeOK
  <2>2. CASE \E e \in Execs, n \in 0 .. clock, op \in Ops \ {"heartbeat"} :
                \E who, t : Load(p, Snapshot(op, who, t, e, 0, n))
    BY <2>2 DEF Load, Snapshot, TxnStep, TypeOK
  <2> QED
    BY <1>0, <1>2, <2>1, <2>2, LifecycleAssumption
    DEF ReadExec, NotifyRead, SubmitForReviewRead, DecisionRead, Ops, LockingOps,
        NotifyIntents, Decisions
<1> QED
  BY <1>1, <1>2

\* Every step leaves the transactions as described, and time does not go back.
LEMMA NextTxn ==
  ASSUME TypeOK, [Next]_vars
  PROVE  /\ \A q \in Procs : TxnStep(q)
         /\ clock' = clock \/ clock' = clock + 1
<1>1. ASSUME NEW p \in Procs, Commit(p)
      PROVE  Close(p) /\ clock' = clock
  BY <1>1 DEF Commit, ClaimCommit, StartCommit, HeartbeatCommit, CancelCommit,
     CancelSystemTaskCommit, UpdateSystemTaskCommit, NotifyCommit, ReviewCommit,
     AcceptCommit, Rollback
<1>2. ASSUME NEW p \in Procs, ReadTask(p) \/ ReadExec(p)
      PROVE  (\A q \in Procs : TxnStep(q)) /\ clock' = clock
  BY <1>2, LoadTxn, ReadIsQuiet
<1>3. CASE Publish
  BY <1>3 DEF Publish, PublishTask, PublishSystemTask, InsertTask, TxnStep
<1>4. CASE \E t \in Tasks, a \in Agents, e \in Execs, n \in TxNow :
             PublicClaim(t, a, e, n)
  BY <1>4 DEF PublicClaim, TxnStep
<1>5. CASE ReaperBatch
  BY <1>5 DEF ReaperBatch, TxnStep
<1>6. CASE Tick \/ UNCHANGED vars
  BY <1>6 DEF Tick, vars, TxnStep
<1> QED
  BY <1>1, <1>2, <1>3, <1>4, <1>5, <1>6, CloseTxn DEF Next

\* Initially there is no lease to bound.
LEMMA InitLeaseFits == Init => LeaseFits
  BY DEF Init, LeaseFits, NowIsPast, NoTxn, NoExec

\* The lease bound is inductive.
LEMMA NextLeaseFits == IInv /\ LeaseFits /\ [Next]_vars => LeaseFits'
<1> SUFFICES ASSUME IInv, LeaseFits, [Next]_vars PROVE LeaseFits'
  OBVIOUS
<1> USE LifecycleAssumption
<1>1. /\ Steps /\ IInv'
      /\ \A q \in Procs : TxnStep(q)
      /\ clock \in Nat /\ clock' \in Nat /\ clock <= clock'
  BY NextMoves, NextTxn, NextIInv DEF IInv, TypeOK, LeaseFits
<1>2. NowIsPast'
  <2> SUFFICES ASSUME NEW p \in Procs PROVE txn'[p].now <= clock'
    BY DEF NowIsPast
  <2>1. txn[p].now \in Nat /\ txn'[p].now \in Nat /\ txn[p].now <= clock
    BY <1>1 DEF IInv, TypeOK, Txn, LeaseFits, NowIsPast
  <2> QED
    BY <1>1, <2>1 DEF TxnStep, NoTxn
<1>3. ASSUME NEW e \in Execs, exec'[e].status # "none"
      PROVE  exec'[e].hard <= granted'[e] + LeaseTerm
  <2>1. exec[e].hard \in Nat /\ granted[e] \in Nat /\ ExecStep(e)
    BY <1>1 DEF IInv, TypeOK, ExecRow, Steps
  <2>2. CASE exec[e].status # "none" /\ exec'[e].hard = exec[e].hard
             /\ granted'[e] = granted[e]
    BY <2>2 DEF LeaseFits
  <2>3. CASE \E n \in 0 .. clock : exec'[e].hard = n + LeaseTerm /\ granted'[e] = clock
    BY <1>1, <2>3
  <2>4. CASE \E p \in Procs : Renewed(e, p)
    <3>1. PICK p \in Procs : Renewed(e, p)
      BY <2>4
    <3>2. txn[p].now \in Nat /\ txn[p].now <= clock
      BY DEF IInv, TypeOK, Txn, LeaseFits, NowIsPast
    <3> QED
      BY <1>1, <3>1, <3>2 DEF Renewed
  <2> QED
    BY <1>3, <2>1, <2>2, <2>3, <2>4 DEF ExecStep, Active
<1>4. ASSUME NEW p \in Procs, txn'[p].op = "heartbeat",
             exec'[txn'[p].exe].ver = txn'[p].erow.ver
      PROVE  granted'[txn'[p].exe] <= txn'[p].now
  <2>1. CASE txn'[p] = txn[p]
    <3> DEFINE x == txn[p]
               e == x.exe
    <3>1. /\ x \in Txn /\ e # None /\ exec[e].status # "none"
          /\ x.erow.ver <= exec[e].ver
      BY <1>4, <2>1 DEF IInv, TypeOK, RequestsFitRows, RequestFits,
         VersionIdentifiesRow, Versioned, LockingOps
    <3>2. /\ e \in Execs /\ exec[e].ver \in Nat /\ x.erow.ver \in Nat
          /\ ExecStep(e)
      BY <1>1, <3>1 DEF Txn, IInv, TypeOK, ExecRow, Steps
    <3>3. exec'[e].ver = x.erow.ver
      BY <1>4, <2>1
    <3> HIDE DEF e, x
    <3>4. exec'[e] = exec[e] /\ granted'[e] = granted[e]
      BY <3>1, <3>2, <3>3 DEF ExecStep
    <3> QED
      BY <1>4, <2>1, <3>3, <3>4 DEF LeaseFits, x, e
  <2>2. CASE txn'[p] = NoTxn
    BY <1>4, <2>2 DEF NoTxn
  <2> QED
    BY <1>1, <1>4, <2>1, <2>2 DEF TxnStep
<1> QED
  BY <1>2, <1>3, <1>4 DEF LeaseFits

\* The two invariants together hold in every reachable state.
THEOREM LeaseInvariance == Spec => [](IInv /\ LeaseFits)
<1>1. IInv /\ LeaseFits /\ [Next]_vars => (IInv /\ LeaseFits)'
  BY NextIInv, NextLeaseFits
<1> QED
  BY InitIInv, InitLeaseFits, <1>1, PTL DEF Spec

\* A renewed lease is not shorter: the heartbeat read the clock after the grant
\* of the lease it replaces.
LEMMA RenewedIsLater ==
  ASSUME IInv, LeaseFits, NEW e \in Execs, NEW p \in Procs, Renewed(e, p)
  PROVE  exec'[e].hard >= exec[e].hard /\ exec'[e].gen > exec[e].gen
<1>1. /\ txn[p].op = "heartbeat" /\ txn[p].exe = e
      /\ exec[e].ver = txn[p].erow.ver
      /\ exec'[e].gen = exec[e].gen + 1
      /\ exec'[e].hard = txn[p].now + LeaseTerm
  BY DEF Renewed
<1>2. /\ exec[e].hard <= granted[e] + LeaseTerm
      /\ granted[e] <= txn[p].now
  BY <1>1 DEF LeaseFits, IInv, RequestsFitRows, RequestFits, LockingOps
<1>3. /\ exec[e].hard \in Nat /\ exec[e].gen \in Nat /\ granted[e] \in Nat
      /\ txn[p].now \in Nat /\ LeaseTerm \in Nat
  BY LifecycleAssumption DEF IInv, TypeOK, ExecRow, Txn
<1> QED
  BY <1>1, <1>2, <1>3

\* No write of any command shortens a lease or moves a fencing generation
\* back, however old the rows and the clock reading it works with.
THEOREM LeasesGrow == Spec => LeaseIsMonotone
<1>1. ASSUME IInv, LeaseFits, [Next]_vars, NEW e \in Execs, exec[e].status # "none"
      PROVE  /\ exec'[e].gen >= exec[e].gen
             /\ exec'[e].hard >= exec[e].hard
             /\ exec'[e].gen = exec[e].gen => exec'[e].hard = exec[e].hard
  <2>1. ExecStep(e) /\ exec[e].gen \in Nat /\ exec[e].hard \in Nat
    BY <1>1, NextMoves DEF LeaseFits, Steps, IInv, TypeOK, ExecRow
  <2>2. CASE exec'[e].gen = exec[e].gen /\ exec'[e].hard = exec[e].hard
    BY <2>1, <2>2
  <2>3. CASE \E p \in Procs : Renewed(e, p)
    <3>1. PICK p \in Procs : Renewed(e, p)
      BY <2>3
    <3>2. exec'[e].hard >= exec[e].hard /\ exec'[e].gen > exec[e].gen
      BY <1>1, <3>1, RenewedIsLater
    <3>3. exec'[e].gen = exec[e].gen + 1
      BY <3>1 DEF Renewed
    <3> QED
      BY <2>1, <3>2, <3>3
  <2> QED
    BY <1>1, <2>1, <2>2, <2>3 DEF ExecStep
<1> DEFINE A == \A e \in Execs : exec[e].status # "none" =>
                  /\ exec'[e].gen >= exec[e].gen
                  /\ exec'[e].hard >= exec[e].hard
                  /\ exec'[e].gen = exec[e].gen => exec'[e].hard = exec[e].hard
<1>2. IInv /\ LeaseFits /\ [Next]_vars => [A]_vars
  BY <1>1
<1>3. Spec => [][A]_vars
  <2> HIDE DEF A
  <2> QED
    BY <1>2, LeaseInvariance, PTL DEF Spec
<1> QED
  BY <1>3 DEF LeaseIsMonotone

\* No command revives a task or an execution that has reached a final status.
THEOREM FinalIsFinal == Spec => FinalStaysFinal
<1> DEFINE A ==
      /\ \A t \in Tasks : task[t].status \in {"completed", "cancelled", "expired"}
           => task'[t] = task[t]
      /\ \A e \in Execs : exec[e].status \in
           {"accepted", "rejected", "expired", "cancelled", "validation_failed"}
           => exec'[e] = exec[e]
<1>1. IInv /\ LeaseFits /\ [Next]_vars => A
  <2> SUFFICES ASSUME Steps PROVE A
    BY NextMoves DEF LeaseFits
  <2> QED
    BY DEF Steps, TaskStep, ExecStep, Moves, Active, Cancellable
<1>2. Spec => [][A]_vars
  <2> HIDE DEF A
  <2> QED
    BY <1>1, LeaseInvariance, PTL DEF Spec
<1> QED
  BY <1>2 DEF FinalStaysFinal

\* What one transaction has done to a lease or a final row, no transaction
\* that loaded the rows before it takes back.
THEOREM NothingUndone == Spec => NothingIsUndone
  BY LeasesGrow, FinalIsFinal DEF NothingIsUndone

-----------------------------------------------------------------------------
(* Events and the board.                                                   *)

\* The audit invariant is inductive, given what a step may be.
LEMMA NextAudit == IInv /\ LeaseFits /\ AuditTracksTask /\ [Next]_vars => AuditTracksTask'
<1> SUFFICES ASSUME IInv, AuditTracksTask, Steps PROVE AuditTracksTask'
  BY NextMoves DEF LeaseFits
<1> SUFFICES ASSUME NEW t \in Tasks, task'[t].pub # SystemIssuePublisher
             PROVE  /\ event'[t] \in {"task.published", "task.reopened"} <=>
                         task'[t].status = "open"
                    /\ event'[t] = "task.cancelled" <=> task'[t].status = "cancelled"
                    /\ event'[t] = "task.expired" <=> task'[t].status = "expired"
  BY DEF AuditTracksTask
<1>1. TaskStep(t)
  BY DEF Steps
<1>2. task'[t].pub = task[t].pub =>
        /\ event[t] \in {"task.published", "task.reopened"} <=> task[t].status = "open"
        /\ event[t] = "task.cancelled" <=> task[t].status = "cancelled"
        /\ event[t] = "task.expired" <=> task[t].status = "expired"
  BY DEF AuditTracksTask
<1> QED
  BY <1>1, <1>2 DEF TaskStep, Moves

\* The last event of a task tells where the task is, for every interleaving of
\* the commands that write the two tables and the audit log.
THEOREM AuditIsTrue == Spec => []AuditTracksTask
<1>1. Init => AuditTracksTask
  BY DEF Init, AuditTracksTask, NoTask
<1> QED
  BY <1>1, NextAudit, LeaseInvariance, PTL DEF Spec

\* A step of the lifecycle is a step of the board.
LEMMA BoardStep == IInv /\ LeaseFits /\ [Next]_vars => [Board!Next]_(Board!boardVars)
<1> SUFFICES ASSUME IInv, IInv', Steps PROVE Board!Next
  BY NextMoves, NextIInv DEF LeaseFits
<1> USE LifecycleAssumption
<1> DEFINE where == [t \in Tasks |-> BoardOf(task[t].status)]
           holds == [t \in Tasks |-> task[t].active]
           ids == {e \in Execs : exec[e].status # "none"}
<1>1. ASSUME NEW t \in Tasks PROVE Board!Move(t)
  <2>0. where[t] = BoardOf(task[t].status) /\ where'[t] = BoardOf(task'[t].status)
        /\ holds[t] = task[t].active /\ holds'[t] = task'[t].active
    OBVIOUS
  <2>1. TaskStep(t)
    BY DEF Steps
  <2>2. task[t].status = "open" => task[t].active = None
    BY DEF IInv, TaskMatchesExecution
  <2> QED
    BY <2>0, <2>1, <2>2 DEF TaskStep, Moves, BoardOf, Cancellable, Board!Move, Board!Goes,
       Board!Publish, Board!Take, Board!Return, Board!Complete, Board!Cancel,
       Board!Expire, Board!Stay
<1>2. ids' = ids \cup {e \in Execs : \E t \in Tasks : holds'[t] = e}
  <2>1. ASSUME NEW e \in Execs, NEW t \in Tasks, task'[t].active = e
        PROVE  exec'[e].status # "none"
    <3>1. exec'[e].task = t
      BY <2>1 DEF IInv, TaskMatchesExecution
    <3> QED
      BY <3>1 DEF IInv, RequestsFitRows, RowsFit, NoExec
  <2>2. ASSUME NEW e \in Execs
        PROVE  /\ exec[e].status # "none" => exec'[e].status # "none"
               /\ exec[e].status = "none" /\ exec'[e].status # "none" =>
                    \E t \in Tasks : task'[t].active = e
    BY DEF Steps, ExecStep, Active
  <2> QED
    BY <2>1, <2>2
<1>3. ASSUME NEW t \in Tasks, NEW u \in Tasks, task'[t].active = task'[u].active,
             task'[t].active # None
      PROVE  t = u
  BY <1>3 DEF IInv, TaskMatchesExecution
<1> QED
  BY <1>1, <1>2, <1>3 DEF Board!Next

\* The lifecycle, with its two tables, its races and its leases, implements
\* the board, for any number of tasks, executions and sessions.
THEOREM LifecycleImplementsBoard == Spec => ImplementsTaskBoard
<1>1. Init => Board!Init
  BY DEF Init, Board!Init, NoTask, NoExec, BoardOf
<1> QED
  BY <1>1, BoardStep, LeaseInvariance, PTL DEF Spec, ImplementsTaskBoard, Board!Spec

=============================================================================
